SPECIFICATION Spec
CONSTANTS
    None = None
    Identifier = {i1}
    ServiceId = {s1}
    DescriptorId = {}
    Version <- MCVersions
    Window <- MixedWindows
    Class = {"profile"}
    Subject = {}
    Terms = {}
    Source = {}
    MaxLog = 3
INVARIANTS
    HistoriesLinear
    ChainsReachCurrent
    WindowsPartition
    ServicesForward
PROPERTIES
    VersionsImmutable
    ItemsAreLinear
    ServicesAreLinear
CHECK_DEADLOCK FALSE

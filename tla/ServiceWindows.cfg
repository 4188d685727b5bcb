SPECIFICATION Spec
CONSTANTS
    None = None
    Identifier = {}
    ServiceId = {s1}
    DescriptorId = {}
    Version <- MCVersions
    Window <- MixedWindows
    Class = {}
    Subject = {}
    Terms = {}
    Source = {}
    MaxLog = 3
INVARIANTS
    ServiceReadsUseDerivedEnds
CHECK_DEADLOCK FALSE

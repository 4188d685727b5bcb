SPECIFICATION RequestsSpec
CONSTANTS
    None = None
    Request = {r1, r2}
    Ask <- MCAsk
    Identifier = {}
    ServiceId = {s1}
    DescriptorId = {}
    Version = {1, 2, 3}
    Window <- TwoStarts
    Class = {}
    Subject = {}
    Terms = {}
    Source = {}
    MaxLog = 3
INVARIANTS
    RequestsTypeOK
    ServicesForwardUnderRaces
    AcceptedKeepTheirPlace
PROPERTIES
    EveryRequestAnswered
CHECK_DEADLOCK FALSE

SPECIFICATION Spec
CONSTANTS
    None = None
    Identifier = {i1, i2}
    ServiceId = {s1}
    DescriptorId = {d1}
    Version = {1, 2}
    Window <- OneWindow
    Class = {"data-element", "profile", "model"}
    Subject = {p1}
    Terms = {t1}
    Source = {x1}
    MaxLog = 4
INVARIANTS
    TypeOK
    BindingIdsUnique
    PinsAreRegistered
    LogIsState
CHECK_DEADLOCK FALSE

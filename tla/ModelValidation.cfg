SPECIFICATION ModelsSpec
CONSTANTS
    None = None
    Validator = {r1, r2}
    Verdict <- MCVerdict
    Source <- MCSources
    Identifier = {m1}
    ServiceId = {}
    DescriptorId = {}
    Version = {1, 2, 3}
    Window <- OneWindow
    Class = {"model"}
    Subject = {}
    Terms = {}
    MaxLog = 5
INVARIANTS
    UnsupersededStatusIsOfTheSource
    OutcomeRecordable
CHECK_DEADLOCK FALSE

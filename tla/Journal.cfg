SPECIFICATION JournalSpec
CONSTANTS
    None = None
    Identifier = {i1}
    ServiceId = {}
    DescriptorId = {}
    Version = {1, 2}
    Window <- OneWindow
    Class = {"profile"}
    Subject = {p1}
    Terms = {t1}
    Source = {}
    MaxLog = 3
    Faults = {"tear", "fail"}
    MaxCrash = 2
    MaxAnswered = 3
INVARIANTS
    JournalTypeOK
    AnswersSurviveTornTail
    HistoriesSurviveTornTail
    MemoryIsLog
    BindingIdsUniqueWhenUp
PROPERTIES
    JournalIsStore
CHECK_DEADLOCK FALSE

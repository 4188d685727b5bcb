SPECIFICATION ApplicabilitySpec
CONSTANTS
    None = None
    DayLength = 1
    Half = 16777216
    DurationTexts <- MCDurationTexts
    CardinalityTexts <- MCCardinalityTexts
    Body <- MCBody
    Register <- MCRegister
    VersionOf <- MCVersionOf
    Instant <- MCInstants
    Request = {r1}
    Ask <- MCAsks
    Facts <- MCFacts
    Identifier = {"p", "m"}
    ServiceId = {}
    DescriptorId = {}
    Version = {1, 2}
    Window <- MCWindow
    Class = {"profile", "cross-register-mapping"}
    Subject = {"t"}
    Terms <- MCTerms
    Source = {}
    MaxLog = 3
INVARIANTS
    ApplicabilityTypeOK
    EvaluationNeverRefused
    AcceptedStaysAcceptable
    MappingsResolve
PROPERTIES
    PastAnswersStand
CHECK_DEADLOCK FALSE

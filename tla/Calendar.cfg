SPECIFICATION WalkSpec
CONSTANTS
    DayLength = 4
    Half = 16777216
    Year <- MCYear
    Duration <- MCDurations
    Offset <- MCOffsets
INVARIANTS
    CountedDaysAgree
    MonthsAddUp
    LaterBasisLaterThreshold
    PresentableStampsReadBack
CHECK_DEADLOCK FALSE

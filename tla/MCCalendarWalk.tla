--------------------------- MODULE MCCalendarWalk ---------------------------
EXTENDS CalendarWalk

Text(years, months, days, ticks) ==
    [years |-> years, months |-> months, weeks |-> 0, days |-> days, ticks |-> ticks]

\* P1M, P40Y, P1Y6M3D, PT6H
MCDurations == {Text(0, 1, 0, 0), Text(40, 0, 0, 0), Text(1, 6, 3, 0), Text(0, 0, 0, 1)}

MCOffsets == {-3, 0, 3}
\* Leap days, a century with and three without one, eras, the years 0 and 10000.
MCYear == (-1 .. 404) \cup (1590 .. 2410) \cup (9590 .. 10000)
=============================================================================

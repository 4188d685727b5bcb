---------------------------- MODULE CalendarWalk ----------------------------
(***************************************************************************)
(* A walk over the civil calendar month by month, away from January 1970,   *)
(* that counts the days and the months it passes: the independent reference *)
(* for the closed formulas of time.rs and clock.rs.  The calendar repeats   *)
(* after 400 years, so the walk may also turn up eras away.                 *)
(***************************************************************************)
EXTENDS Calendar

CONSTANTS Year,       \* the years that are walked
          Duration,   \* duration texts
          Offset      \* zone offsets

ASSUME YearAssumption == Year \subseteq Int

(* More days than there are between the epoch and any day next to the year  *)
(* y, and more than there are months in y years.                           *)
Reach(y) == 366 * (IF y >= 1970 THEN y - 1968 ELSE 1972 - y) + 24000

(* The instants of these years, and of the first and last year that can be  *)
(* written, fit in the integers, with the durations that are added to them. *)
ASSUME ReachAssumption ==
    \A y \in Year \cup {0, 1970, 10000} : Reach(y) * DayLength <= Half

ASSUME DurationAssumption ==
    /\ Duration \subseteq [years : Nat, months : Nat, weeks : Nat, days : Nat, ticks : Nat]
    /\ \A y \in Year \cup {1970}, text \in Duration :
           (Reach(y) + 31 * (text.years * 12 + text.months) + text.weeks * 7 + text.days)
               * DayLength + text.ticks <= Half

VARIABLES year, month,   \* the month the walk is at
          first,         \* the days counted from the epoch to its first
          elapsed        \* the months counted from the epoch

wvars == <<year, month, first, elapsed>>

WalkInit == year = 1970 /\ month = 1 /\ first = 0 /\ elapsed = 0

Later == /\ elapsed >= 0
         /\ year' = IF month = 12 THEN year + 1 ELSE year
         /\ year' \in Year
         /\ month' = IF month = 12 THEN 1 ELSE month + 1
         /\ first' = first + DaysInMonth(year, month)
         /\ elapsed' = elapsed + 1

Earlier == /\ elapsed <= 0
           /\ year' = IF month = 1 THEN year - 1 ELSE year
           /\ year' \in Year
           /\ month' = IF month = 1 THEN 12 ELSE month - 1
           /\ first' = first - DaysInMonth(year', month')
           /\ elapsed' = elapsed - 1

(* Of 400 years 97 are leap years. *)
ErasAway == /\ month = 1
            /\ year' \in {y \in Year \ {year} : (y - year) % 400 = 0}
            /\ month' = month
            /\ first' = first + ((year' - year) \div 400) * (400 * 365 + 97)
            /\ elapsed' = elapsed + (year' - year) * 12

WalkNext == Later \/ Earlier \/ ErasAway

WalkSpec == WalkInit /\ [][WalkNext]_wvars

-----------------------------------------------------------------------------
Days == 1 .. DaysInMonth(year, month)

\* The days around which months differ; between them all formulas are linear.
Edges == {d \in Days : d = 1 \/ d >= 27}

\* Midnight of a day of this month.
Midnight(d) == (first + d - 1) * DayLength

Months(n) == [months |-> n, ticks |-> 0]

(* days_from_civil and civil_from_days are each other's inverse, and both   *)
(* count as the walk does: no day is skipped, none is counted twice, across *)
(* leap days, centuries, eras and the year 0.                              *)
CountedDaysAgree ==
    \A d \in Days : /\ DaysFromCivil(year, month, d) = first + d - 1
                    /\ CivilFromDays(first + d - 1) = Date(year, month, d)

(* add_duration: as many months as the walk has passed lead from a day of   *)
(* January 1970 to the same day of this month, or to its last day when it   *)
(* is shorter; and from a month before 1970 back to January 1970.           *)
MonthsAddUp ==
    IF elapsed >= 0
    THEN \A d \in {1} \cup 27 .. 31 :
            AddDuration((d - 1) * DayLength, Months(elapsed))
                = Midnight(IF d \in Days THEN d ELSE DaysInMonth(year, month))
    ELSE \A d \in Edges : AddDuration(Midnight(d), Months(-elapsed)) = (d - 1) * DayLength

(* A subject whose basis is later never crosses a threshold earlier, and no *)
(* threshold lies before its basis, whatever day the clamp of a short month *)
(* moves it to (the clock predicates of evaluate).  This is about durations *)
(* whose sums fit in 64 bits.                                              *)
LaterBasisLaterThreshold ==
    \A d \in Edges, text \in Duration :
        LET crossed(t) == AddDuration(t, ParseDuration(text))
        IN  /\ Midnight(d) <= crossed(Midnight(d))
            /\ crossed(Midnight(d)) <= crossed(Midnight(d + 1))

Stamps == {Stamp(Date(year, month, d), tick, offset) :
               d \in {1, DaysInMonth(year, month)}, tick \in {0, DayLength - 1},
               offset \in Offset}

\* The instants whose year in UTC has four digits.
Presentable == DaysFromCivil(0, 1, 1) * DayLength .. DaysFromCivil(10000, 1, 1) * DayLength - 1

(* What the registry shows and journals of an accepted timestamp reads back *)
(* as the same instant, exactly when its year in UTC has four digits.       *)
PresentableStampsReadBack ==
    \A s \in Stamps :
        IsReadable(s) =>
            /\ IsReadable(Shown(InstantOf(s))) <=> InstantOf(s) \in Presentable
            /\ InstantOf(Shown(InstantOf(s))) = InstantOf(s)
=============================================================================

------------------------------ MODULE Calendar ------------------------------
(***************************************************************************)
(* Timestamps and clock predicates (time.rs, clock.rs) as pure operators.   *)
(*                                                                         *)
(* An instant is an integer, counted from 1970-01-01 in ticks, DayLength of *)
(* them a day (86 400 in the code).  A stamp is the text of a timestamp,    *)
(* taken apart: [year, month, day, tick, offset], where `tick' is the time  *)
(* of day and `offset' the zone (0 for Z).  A duration text is              *)
(* [years, months, weeks, days, ticks], an absent component being zero.     *)
(* Sums are those of 64-bit integers of a release build: they wrap at Half  *)
(* (2^63 in the code).                                                     *)
(***************************************************************************)
EXTENDS Integers

CONSTANTS DayLength, Half

ASSUME DayLengthAssumption == DayLength \in Nat \ {0}
ASSUME HalfAssumption == Half \in Nat \ {0}

Wrap(n) == ((n + Half) % (2 * Half)) - Half

(* Rust's division rounds towards zero. *)
Quotient(a, b) == IF a >= 0 THEN a \div b ELSE -((-a) \div b)

-----------------------------------------------------------------------------
(* The civil calendar.                                                     *)

IsJulianLeapYear(y) == y % 4 = 0                                       \* mutant

IsLeapYear(y) == (y % 4 = 0 /\ y % 100 # 0) \/ y % 400 = 0

DaysInMonth(y, m) ==
    CASE m \in {4, 6, 9, 11} -> 30
      [] m = 2               -> IF IsLeapYear(y) THEN 29 ELSE 28
      [] OTHER               -> 31

Date(y, m, d) == [year |-> y, month |-> m, day |-> d]

(* Years are counted from March here, so that the leap day comes last; an   *)
(* era is 400 of them.                                                     *)
DaysFromCivil(y, m, d) ==
    LET marchYear  == IF m <= 2 THEN y - 1 ELSE y
        era        == Quotient(IF marchYear >= 0 THEN marchYear ELSE marchYear - 399, 400)
        yearOfEra  == marchYear - era * 400
        monthIndex == IF m > 2 THEN m - 3 ELSE m + 9
        dayOfYear  == (153 * monthIndex + 2) \div 5 + d - 1
        dayOfEra   == yearOfEra * 365 + yearOfEra \div 4 - yearOfEra \div 100 + dayOfYear
    IN  Wrap(era * 146097 + dayOfEra - 719468)

(* A mutant that divides before it corrects the sign. *)
CivilFromDaysTruncated(days) ==
    LET shifted    == days + 719468
        era        == Quotient(shifted, 146097)
        dayOfEra   == shifted - era * 146097
        yearOfEra  == (dayOfEra - dayOfEra \div 1460 + dayOfEra \div 36524
                          - dayOfEra \div 146096) \div 365
        dayOfYear  == dayOfEra - (365 * yearOfEra + yearOfEra \div 4 - yearOfEra \div 100)
        monthIndex == (5 * dayOfYear + 2) \div 153
        month      == IF monthIndex < 10 THEN monthIndex + 3 ELSE monthIndex - 9
    IN  Date(yearOfEra + era * 400 + (IF month <= 2 THEN 1 ELSE 0), month,
             dayOfYear - (153 * monthIndex + 2) \div 5 + 1)

CivilFromDays(days) ==
    LET shifted    == days + 719468
        era        == Quotient(IF shifted >= 0 THEN shifted ELSE shifted - 146096, 146097)
        dayOfEra   == shifted - era * 146097
        yearOfEra  == (dayOfEra - dayOfEra \div 1460 + dayOfEra \div 36524
                          - dayOfEra \div 146096) \div 365
        dayOfYear  == dayOfEra - (365 * yearOfEra + yearOfEra \div 4 - yearOfEra \div 100)
        monthIndex == (5 * dayOfYear + 2) \div 153
        month      == IF monthIndex < 10 THEN monthIndex + 3 ELSE monthIndex - 9
    IN  Date(yearOfEra + era * 400 + (IF month <= 2 THEN 1 ELSE 0), month,
             dayOfYear - (153 * monthIndex + 2) \div 5 + 1)

-----------------------------------------------------------------------------
(* Timestamp::parse and Display.                                           *)

Stamp(date, tick, offset) ==
    [year |-> date.year, month |-> date.month, day |-> date.day,
     tick |-> tick, offset |-> offset]

(* The parser takes four digits of a year, and any offset below a day.      *)
IsReadable(s) ==
    /\ s.year \in 0 .. 9999
    /\ s.month \in 1 .. 12
    /\ s.day \in 1 .. DaysInMonth(s.year, s.month)
    /\ s.tick \in 0 .. DayLength - 1
    /\ s.offset \in (1 - DayLength) .. (DayLength - 1)

InstantOf(s) == DaysFromCivil(s.year, s.month, s.day) * DayLength + s.tick - s.offset

(* A mutant that splits the days off with the division that truncates.      *)
ShownTruncated(t) ==
    Stamp(CivilFromDays(Quotient(t, DayLength)), t - Quotient(t, DayLength) * DayLength, 0)

(* What is displayed is in UTC.  A year before 0 is shown with its sign and *)
(* a year after 9999 with all its digits.                                  *)
Shown(t) == Stamp(CivilFromDays(t \div DayLength), t % DayLength, 0)

-----------------------------------------------------------------------------
(* Durations and time triggers.                                            *)

ParseDuration(text) ==
    [months |-> Wrap(text.years * 12 + text.months),
     ticks  |-> Wrap((text.weeks * 7 + text.days) * DayLength + text.ticks)]

(* A mutant that lets the day run over the end of the month. *)
AddDurationUnclamped(t, duration) ==
    LET from  == CivilFromDays(t \div DayLength)
        total == Wrap(from.year * 12 + from.month - 1 + duration.months)
    IN  Wrap(DaysFromCivil(total \div 12, (total % 12) + 1, from.day) * DayLength
                 + (t % DayLength) + duration.ticks)

AddDuration(t, duration) ==
    IF duration.months = 0 THEN Wrap(t + duration.ticks)
    ELSE LET from  == CivilFromDays(t \div DayLength)
             total == Wrap(from.year * 12 + from.month - 1 + duration.months)
             last  == DaysInMonth(total \div 12, (total % 12) + 1)
             day   == IF from.day <= last THEN from.day ELSE last
         IN  Wrap(DaysFromCivil(total \div 12, (total % 12) + 1, day) * DayLength
                      + (t % DayLength) + duration.ticks)

(* evaluate: `facts' gives some of the bases a stamp.  A fact that is       *)
(* missing or cannot be read is an error, and the trigger is not met.       *)
IsEvaluable(trigger, facts) ==
    trigger.basis \in DOMAIN facts /\ IsReadable(facts[trigger.basis])

Threshold(trigger, facts) ==
    AddDuration(InstantOf(facts[trigger.basis]), ParseDuration(trigger.duration))

IsSatisfied(trigger, facts, at) ==
    CASE trigger.operator = ">=" -> at >= Threshold(trigger, facts)
      [] trigger.operator = ">"  -> at >  Threshold(trigger, facts)
      [] trigger.operator = "<=" -> at <= Threshold(trigger, facts)
      [] trigger.operator = "<"  -> at <  Threshold(trigger, facts)
=============================================================================

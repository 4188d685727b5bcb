--------------------------- MODULE CalendarProofs ---------------------------
(***************************************************************************)
(* The calendar of time.rs and clock.rs for every year, every length of a   *)
(* day and every width of the integers that holds the instants in use.      *)
(***************************************************************************)
EXTENDS CalendarWalk, TLAPS

-----------------------------------------------------------------------------
(* Days and months as numbers.                                             *)

(* Years from March: the days before year n, and before its month i.        *)
YearStart(n) == 365 * n + (n \div 4) - (n \div 100) + (n \div 400) - 719468

MonthOffset(i) == (153 * i + 2) \div 5

(* The days before a month, numbered from January of the year 0.            *)
MonthStart(k) == YearStart((k - 2) \div 12) + MonthOffset((k - 2) % 12)

MonthOf(y, m) == 12 * y + m - 1

(* What days_from_civil computes when nothing overflows.                   *)
DayNumber(y, m, d) == MonthStart(MonthOf(y, m)) + d - 1

LEMMA YearStartType == \A n \in Int : YearStart(n) \in Int
BY DEF YearStart

LEMMA MonthStartType == \A k \in Int : MonthStart(k) \in Int
BY DEF MonthStart, YearStart, MonthOffset

(* Years have 365 days or 366. *)
LEMMA YearLength ==
    ASSUME NEW n \in Int
    PROVE  YearStart(n + 1) - YearStart(n) = IF IsLeapYear(n + 1) THEN 366 ELSE 365
BY DEF YearStart, IsLeapYear

LEMMA YearsAdvance ==
    ASSUME NEW a \in Int, NEW b \in Int, a <= b
    PROVE  365 * (b - a) <= YearStart(b) - YearStart(a)
               /\ YearStart(b) - YearStart(a) <= 366 * (b - a)
BY DEF YearStart

LEMMA MonthLength ==
    ASSUME NEW y \in Int, NEW m \in 1 .. 12
    PROVE  MonthStart(MonthOf(y, m) + 1) = MonthStart(MonthOf(y, m)) + DaysInMonth(y, m)
<1> DEFINE k == 12 * y + m - 1
<1>1. CASE m = 1
  <2>1. /\ (k - 2) \div 12 = y - 1 /\ (k - 2) % 12 = 10
        /\ (k + 1 - 2) \div 12 = y - 1 /\ (k + 1 - 2) % 12 = 11
    BY <1>1
  <2>2. YearStart(y - 1) \in Int
    BY YearStartType
  <2> QED
    BY <1>1, <2>1, <2>2 DEF MonthStart, MonthOf, MonthOffset, DaysInMonth
<1>2. CASE m = 2
  <2>1. /\ (k - 2) \div 12 = y - 1 /\ (k - 2) % 12 = 11
        /\ (k + 1 - 2) \div 12 = y /\ (k + 1 - 2) % 12 = 0
    BY <1>2
  <2>2. YearStart(y) - YearStart(y - 1) = IF IsLeapYear(y) THEN 366 ELSE 365
    BY YearLength, y - 1 \in Int, y - 1 + 1 = y
  <2>3. YearStart(y) \in Int /\ YearStart(y - 1) \in Int
    BY YearStartType
  <2> QED
    BY <1>2, <2>1, <2>2, <2>3 DEF MonthStart, MonthOf, MonthOffset, DaysInMonth
<1>3. ASSUME m \in 3 .. 12
      PROVE  MonthStart(MonthOf(y, m) + 1) = MonthStart(MonthOf(y, m)) + DaysInMonth(y, m)
  <2>1. (k - 2) \div 12 = y /\ (k - 2) % 12 = m - 3
    BY <1>3
  <2>2. (k + 1 - 2) \div 12 = y \/ m = 12
    BY <1>3
  <2>3. YearStart(y) \in Int
    BY YearStartType
  <2>4. CASE m \in 3 .. 11
    <3>1. (k + 1 - 2) \div 12 = y /\ (k + 1 - 2) % 12 = m - 2
      BY <2>4
    <3>2. MonthOffset(m - 2) = MonthOffset(m - 3) + DaysInMonth(y, m)
      BY <2>4 DEF MonthOffset, DaysInMonth
    <3>3. DaysInMonth(y, m) \in Int /\ MonthOffset(m - 3) \in Int
      BY <2>4 DEF MonthOffset, DaysInMonth
    <3> QED
      BY <2>1, <2>3, <3>1, <3>2, <3>3 DEF MonthStart, MonthOf
  <2>5. CASE m = 12
    <3>1. (k + 1 - 2) \div 12 = y /\ (k + 1 - 2) % 12 = 10
      BY <2>5
    <3> QED
      BY <2>1, <2>3, <2>5, <3>1 DEF MonthStart, MonthOf, MonthOffset, DaysInMonth
  <2> QED
    BY <1>3, <2>4, <2>5
<1> QED
  BY <1>1, <1>2, <1>3

LEMMA MonthsAdvance ==
    ASSUME NEW k \in Int, NEW l \in Int, k <= l
    PROVE  MonthStart(k) <= MonthStart(l) /\ MonthStart(l) - MonthStart(k) <= 31 * (l - k)
<1> DEFINE a == (k - 2) \div 12
           b == (l - 2) \div 12
           i == (k - 2) % 12
           j == (l - 2) % 12
<1>1. /\ a \in Int /\ b \in Int /\ i \in 0 .. 11 /\ j \in 0 .. 11
      /\ k = 12 * a + i + 2 /\ l = 12 * b + j + 2 /\ a <= b
  OBVIOUS
<1>2. 365 * (b - a) <= YearStart(b) - YearStart(a)
          /\ YearStart(b) - YearStart(a) <= 366 * (b - a)
  BY <1>1, YearsAdvance
<1>3. YearStart(a) \in Int /\ YearStart(b) \in Int
  BY <1>1, YearStartType
<1>4. MonthStart(k) = YearStart(a) + MonthOffset(i) /\ MonthStart(l) = YearStart(b) + MonthOffset(j)
  BY DEF MonthStart
<1> HIDE DEF a, b, i, j
<1>5. CASE a = b
  <2>1. i <= j
    BY <1>1, <1>5
  <2>2. MonthOffset(i) <= MonthOffset(j) /\ MonthOffset(j) - MonthOffset(i) <= 31 * (j - i)
    BY <1>1, <2>1 DEF MonthOffset
  <2> QED
    BY <1>1, <1>3, <1>4, <1>5, <2>2 DEF MonthOffset
<1>6. CASE a < b
  <2>1. /\ MonthOffset(i) - MonthOffset(j) <= 365
        /\ MonthOffset(j) - MonthOffset(i) <= 31 * (j - i) + 6
    BY <1>1 DEF MonthOffset
  <2> QED
    BY <1>1, <1>2, <1>3, <1>4, <1>6, <2>1 DEF MonthOffset
<1> QED
  BY <1>1, <1>5, <1>6

-----------------------------------------------------------------------------
(* The two conversions of time.rs.                                         *)

LEMMA DivideFits ==
    ASSUME NEW a \in Int, NEW b \in Nat \ {0}, NEW c \in Int, 0 <= a, a < b
    PROVE  /\ a % b = a
           /\ (c * b + a) \div b = c
           /\ (c * b + a) % b = a
<1>1. a % b = a
  OBVIOUS
<1>2. (c * b + a) \div b = c
  OBVIOUS
<1>3. (c * b + a) % b = a
  OBVIOUS
<1> QED
  BY <1>1, <1>2, <1>3

LEMMA Divide ==
    ASSUME NEW a \in Int, NEW b \in Nat \ {0}
    PROVE  a \div b \in Int /\ a % b \in 0 .. b - 1 /\ a = (a \div b) * b + (a % b)
<1>1. a \div b \in Int
  OBVIOUS
<1>2. a % b \in 0 .. b - 1
  OBVIOUS
<1>3. a = (a \div b) * b + (a % b)
  OBVIOUS
<1> QED
  BY <1>1, <1>2, <1>3

LEMMA TimesGrows ==
    ASSUME NEW a \in Int, NEW b \in Int, NEW c \in Nat, a <= b
    PROVE  a * c \in Int /\ b * c \in Int /\ a * c <= b * c
OBVIOUS

LEMMA WrapFits ==
    ASSUME NEW n \in Int, -Half <= n, n < Half
    PROVE  Wrap(n) = n
<1>1. (n + Half) % (2 * Half) = n + Half
  BY HalfAssumption, DivideFits
<1> QED
  BY <1>1, HalfAssumption DEF Wrap

LEMMA DaysFromCivilIs ==
    ASSUME NEW y \in Int, NEW m \in 1 .. 12, NEW d \in Int
    PROVE  DaysFromCivil(y, m, d) = Wrap(DayNumber(y, m, d))
<1> DEFINE n == IF m <= 2 THEN y - 1 ELSE y
           i == IF m > 2 THEN m - 3 ELSE m + 9
           e == n \div 400
           o == n - e * 400
           x == (153 * i + 2) \div 5
<1>1. (MonthOf(y, m) - 2) \div 12 = n /\ (MonthOf(y, m) - 2) % 12 = i
  BY DEF MonthOf
<1>2. /\ n \in Int /\ e \in Int /\ o \in Nat /\ o <= 399 /\ n = 400 * e + o
      /\ x \in Int /\ n - e * 400 = o
  OBVIOUS
<1>3. DayNumber(y, m, d) = YearStart(n) + x + d - 1
  BY <1>1 DEF DayNumber, MonthStart, MonthOffset
<1>4. Quotient(IF n >= 0 THEN n ELSE n - 399, 400) = e
  BY <1>2 DEF Quotient
<1> DEFINE Value(g, p) ==
               Wrap(g * 146097 + (p * 365 + (p \div 4) - (p \div 100) + (x + d - 1)) - 719468)
<1>5. DaysFromCivil(y, m, d) =
          LET g == Quotient(IF n >= 0 THEN n ELSE n - 399, 400)
          IN  Value(g, n - g * 400)
  BY DEF DaysFromCivil
<1> HIDE DEF n, i, e, x, o, Value
<1>6. DaysFromCivil(y, m, d) = Value(e, o)
  BY <1>2, <1>4, <1>5
<1>7. YearStart(n) = e * 146097 + (o * 365 + (o \div 4) - (o \div 100)) - 719468
  BY <1>2 DEF YearStart
<1>8. e * 146097 + (o * 365 + (o \div 4) - (o \div 100) + (x + d - 1)) - 719468
          = YearStart(n) + x + d - 1
  BY <1>2, <1>7
<1> QED
  BY <1>3, <1>6, <1>8 DEF Value

(* civil_from_days in steps, from the day of an era to the date.            *)
YearOfEraOf(p) == (p - (p \div 1460) + (p \div 36524) - (p \div 146096)) \div 365

DayOfYearOf(p) ==
    p - (365 * YearOfEraOf(p) + (YearOfEraOf(p) \div 4) - (YearOfEraOf(p) \div 100))

MonthIndexOf(p) == (5 * DayOfYearOf(p) + 2) \div 153

MonthFrom(i) == IF i < 10 THEN i + 3 ELSE i - 9

CivilOf(g, p) ==
    Date(YearOfEraOf(p) + g * 400 + (IF MonthFrom(MonthIndexOf(p)) <= 2 THEN 1 ELSE 0),
         MonthFrom(MonthIndexOf(p)),
         DayOfYearOf(p) - ((153 * MonthIndexOf(p) + 2) \div 5) + 1)

(* The day of an era on which day x of its year o falls. *)
DayOfEra(o, x) == o * 365 + (o \div 4) - (o \div 100) + x

(* The year of an era from its day: 365 is the day a leap year has.         *)
LEMMA YearOfEra ==
    ASSUME NEW o \in Nat, o <= 399, NEW x \in Nat, x <= 365,
           x = 365 => IsLeapYear(o + 1)
    PROVE  /\ DayOfEra(o, x) \in Nat /\ DayOfEra(o, x) <= 146096
           /\ YearOfEraOf(DayOfEra(o, x)) = o
<1> DEFINE day == DayOfEra(o, x)
           c == o \div 100
           q == (o % 100) \div 4
           r == o % 4
           s == 24 * c + q + 365 * r + x
<1>1. /\ c \in 0 .. 3 /\ q \in 0 .. 24 /\ r \in 0 .. 3
      /\ o = 100 * c + 4 * q + r /\ o \div 4 = 25 * c + q
  OBVIOUS
<1>2. x = 365 => r = 3 /\ (q # 24 \/ c = 3)
  BY DEF IsLeapYear
<1>3. day = 36524 * c + 1461 * q + 365 * r + x
  BY <1>1 DEF DayOfEra
<1> HIDE DEF c, q, r, day
<1>4. day = 1460 * (25 * c + q) + s
  BY <1>1, <1>3
<1>5. day \in Nat /\ day <= 146096
  BY <1>1, <1>3
<1>6. (day \div 36524) - (day \div 146096) = c
  BY <1>1, <1>2, <1>3
<1>7. day \div 1460 = 25 * c + q + (IF s < 1460 THEN 0 ELSE 1)
  BY <1>1, <1>2, <1>4
<1>8. s >= 1460 <=> r = 3 /\ 24 * c + q + x >= 365
  BY <1>1, <1>2
<1>9. day - (day \div 1460) + (day \div 36524) - (day \div 146096)
          = 365 * o + x - (IF s < 1460 THEN 0 ELSE 1)
  BY <1>1, <1>3, <1>6, <1>7
<1>10. x - (IF s < 1460 THEN 0 ELSE 1) \in 0 .. 364
  BY <1>1, <1>2, <1>8
<1>11. YearOfEraOf(day) = o
  BY <1>9, <1>10 DEF YearOfEraOf
<1> QED
  BY <1>5, <1>11 DEF day

(* The month of a year from March, from its day. *)
LEMMA MonthOffsets ==
    ASSUME NEW i \in 0 .. 11
    PROVE  /\ MonthOffset(i) \in Nat /\ MonthOffset(i) <= 337
           /\ MonthOffset(i + 1) \in Nat /\ MonthOffset(i + 1) <= 367
           /\ i # 11 => MonthOffset(i + 1) <= 337
BY DEF MonthOffset

LEMMA MonthOfDay ==
    ASSUME NEW i \in 0 .. 11, NEW x \in Int, MonthOffset(i) <= x, x < MonthOffset(i + 1)
    PROVE  (5 * x + 2) \div 153 = i
BY DEF MonthOffset

LEMMA DayHasMonth ==
    ASSUME NEW x \in Nat, x <= 365
    PROVE  /\ (5 * x + 2) \div 153 \in 0 .. 11
           /\ MonthOffset((5 * x + 2) \div 153) <= x
           /\ x < MonthOffset(((5 * x + 2) \div 153) + 1)
BY DEF MonthOffset

LEMMA MonthFromMarch ==
    ASSUME NEW i \in 0 .. 11, NEW y \in Int, NEW m \in 1 .. 12,
           m = IF i < 10 THEN i + 3 ELSE i - 9
    PROVE  DaysInMonth(y, m) =
               IF i = 11 THEN (IF IsLeapYear(y) THEN 29 ELSE 28)
               ELSE MonthOffset(i + 1) - MonthOffset(i)
BY DEF DaysInMonth, MonthOffset

(* Every date has a place in a year from March: the year n, its month i and *)
(* the day x of the year.                                                  *)
IsPlace(y, m, d, n, i, x) ==
    /\ DayNumber(y, m, d) = YearStart(n) + x
    /\ x = MonthOffset(i) + d - 1 /\ x < MonthOffset(i + 1) /\ x <= 365
    /\ m = IF i < 10 THEN i + 3 ELSE i - 9
    /\ y = n + (IF m <= 2 THEN 1 ELSE 0)
    /\ x = 365 => IsLeapYear(n + 1)

LEMMA DayOfYear ==
    ASSUME NEW y \in Int, NEW m \in 1 .. 12, NEW d \in 1 .. DaysInMonth(y, m)
    PROVE  \E n \in Int, i \in 0 .. 11, x \in Nat : IsPlace(y, m, d, n, i, x)
<1> DEFINE n == IF m <= 2 THEN y - 1 ELSE y
           i == IF m > 2 THEN m - 3 ELSE m + 9
           x == MonthOffset(i) + d - 1
<1>1. /\ n \in Int /\ i \in 0 .. 11
      /\ (MonthOf(y, m) - 2) \div 12 = n /\ (MonthOf(y, m) - 2) % 12 = i
      /\ m = IF i < 10 THEN i + 3 ELSE i - 9
      /\ y = n + (IF m <= 2 THEN 1 ELSE 0)
      /\ i = 11 => y = n + 1
  BY DEF MonthOf
<1>2. DaysInMonth(y, m) \in Int /\ d \in Int /\ 1 <= d /\ d <= DaysInMonth(y, m)
  BY DEF DaysInMonth
<1> HIDE DEF n, i
<1>3. /\ MonthOffset(i) \in Nat /\ MonthOffset(i) <= 337
      /\ MonthOffset(i + 1) \in Nat /\ MonthOffset(i + 1) <= 367
      /\ i # 11 => MonthOffset(i + 1) <= 337
  BY <1>1, MonthOffsets
<1>4. DayNumber(y, m, d) = YearStart(n) + x
  <2>1. YearStart(n) \in Int
    BY <1>1, YearStartType
  <2> QED
    BY <1>1, <1>2, <1>3, <2>1 DEF DayNumber, MonthStart
<1>5. x \in Nat /\ x <= 365 /\ x < MonthOffset(i + 1) /\ (x = 365 => IsLeapYear(n + 1))
  <2>1. CASE i = 11
    <3>1. MonthOffset(i) = 337 /\ MonthOffset(i + 1) = 367
      BY <2>1 DEF MonthOffset
    <3>2. d <= IF IsLeapYear(y) THEN 29 ELSE 28
      BY <1>1, <1>2, <2>1, MonthFromMarch
    <3> QED
      BY <1>1, <1>2, <2>1, <3>1, <3>2
  <2>2. CASE i # 11
    <3>1. d <= MonthOffset(i + 1) - MonthOffset(i)
      BY <1>1, <1>2, <2>2, MonthFromMarch
    <3> QED
      BY <1>2, <1>3, <2>2, <3>1
  <2> QED
    BY <2>1, <2>2
<1>6. x = MonthOffset(i) + d - 1
  OBVIOUS
<1> HIDE DEF x
<1>7. IsPlace(y, m, d, n, i, x)
  BY <1>1, <1>4, <1>5, <1>6 DEF IsPlace
<1> QED
  BY <1>1, <1>5, <1>7

LEMMA DayOfYearIs ==
    ASSUME NEW o \in Nat, NEW p \in Nat, YearOfEraOf(p) = o, NEW x \in Int,
           p = o * 365 + (o \div 4) - (o \div 100) + x
    PROVE  DayOfYearOf(p) = x
BY DEF DayOfYearOf

LEMMA CivilInSteps ==
    ASSUME NEW N
    PROVE  CivilFromDays(N) =
               LET s == N + 719468
                   g == Quotient(IF s >= 0 THEN s ELSE s - 146096, 146097)
               IN  CivilOf(g, s - g * 146097)
BY DEF CivilFromDays, CivilOf, MonthFrom, MonthIndexOf, DayOfYearOf, YearOfEraOf

(* It is the inverse of days_from_civil, for every date.                    *)
LEMMA CivilOfDayNumber ==
    ASSUME NEW y \in Int, NEW m \in 1 .. 12, NEW d \in 1 .. DaysInMonth(y, m)
    PROVE  CivilFromDays(DayNumber(y, m, d)) = Date(y, m, d)
<1>1. PICK n \in Int, i \in 0 .. 11, x \in Nat : IsPlace(y, m, d, n, i, x)
  BY DayOfYear
<1>2. /\ DayNumber(y, m, d) = YearStart(n) + x
      /\ x = MonthOffset(i) + d - 1 /\ x < MonthOffset(i + 1) /\ x <= 365
      /\ m = IF i < 10 THEN i + 3 ELSE i - 9
      /\ y = n + (IF m <= 2 THEN 1 ELSE 0)
      /\ x = 365 => IsLeapYear(n + 1)
  BY <1>1 DEF IsPlace
<1> DEFINE e == n \div 400
           o == n % 400
           day == DayOfEra(o, x)
           N == DayNumber(y, m, d)
           s == N + 719468
<1>3. e \in Int /\ o \in Nat /\ o <= 399 /\ n = 400 * e + o /\ (x = 365 => IsLeapYear(o + 1))
  BY <1>2 DEF IsLeapYear
<1>4. s = e * 146097 + day
  BY <1>2, <1>3 DEF YearStart, DayOfEra
<1> HIDE DEF e, o, N, s
<1>5. day = o * 365 + (o \div 4) - (o \div 100) + x
  BY DEF DayOfEra
<1>6. day \in Nat /\ day <= 146096 /\ YearOfEraOf(day) = o
  <2>1. x <= 365 /\ (x = 365 => IsLeapYear(o + 1)) /\ o \in Nat /\ o <= 399
    BY <1>2, <1>3
  <2> QED
    BY <2>1, YearOfEra
<1> HIDE DEF day
<1>7. CivilFromDays(N) = CivilOf(e, day)
  <2>1. Quotient(IF s >= 0 THEN s ELSE s - 146096, 146097) = e /\ s - e * 146097 = day
    BY <1>3, <1>4, <1>6 DEF Quotient
  <2> QED
    BY <2>1, CivilInSteps DEF s
<1>8. DayOfYearOf(day) = x
  BY <1>3, <1>5, <1>6, DayOfYearIs
<1>9. MonthOffset(i) \in Int /\ d \in Int /\ 1 <= d /\ MonthOffset(i) <= x
  <2>1. MonthOffset(i) \in Nat
    BY MonthOffsets
  <2> QED
    BY <1>2, <2>1 DEF DaysInMonth
<1>10. MonthIndexOf(day) = i
  BY <1>2, <1>8, <1>9, MonthOfDay DEF MonthIndexOf
<1>11. MonthFrom(i) = m
  BY <1>2 DEF MonthFrom
<1>12. o + e * 400 + (IF m <= 2 THEN 1 ELSE 0) = y
  BY <1>2, <1>3
<1>13. x - ((153 * i + 2) \div 5) + 1 = d
  BY <1>2, <1>9 DEF MonthOffset
<1>14. CivilOf(e, day) = Date(y, m, d)
  BY <1>6, <1>8, <1>10, <1>11, <1>12, <1>13 DEF CivilOf
<1> QED
  BY <1>7, <1>14 DEF N

(* Every number is the number of a day. *)
LEMMA EveryDayIsCivil ==
    ASSUME NEW N \in Int
    PROVE  \E y \in Int, m \in 1 .. 12 :
               \E d \in 1 .. DaysInMonth(y, m) : N = DayNumber(y, m, d)
<1> DEFINE e == (N + 719468) \div 146097
           p == N + 719468 - e * 146097
           c == IF p = 146096 THEN 3 ELSE p \div 36524
           p1 == p - 36524 * c
           q == p1 \div 1461
           p2 == p1 - 1461 * q
           r == IF p2 = 1460 THEN 3 ELSE p2 \div 365
           x == p2 - 365 * r
           o == 100 * c + 4 * q + r
           n == 400 * e + o
<1>1. e \in Int /\ p \in Nat /\ p <= 146096
  OBVIOUS
<1> HIDE DEF e, p
<1>2. c \in 0 .. 3 /\ p1 \in Nat /\ p1 <= 36524 /\ (p1 = 36524 => c = 3)
  BY <1>1
<1> HIDE DEF c, p1
<1>3. q \in 0 .. 24 /\ p2 \in Nat /\ p2 <= 1460 /\ (p2 = 1460 /\ q = 24 => c = 3)
  BY <1>2
<1> HIDE DEF q, p2
<1>4. r \in 0 .. 3 /\ x \in Nat /\ x <= 365 /\ (x = 365 => r = 3 /\ (q # 24 \/ c = 3))
  BY <1>3
<1>5. N = 146097 * e + 36524 * c + 1461 * q + 365 * r + x - 719468
  BY <1>1, <1>2, <1>3, <1>4 DEF p, p1, p2
<1> HIDE DEF r, x
<1>6. n \in Int /\ N = YearStart(n) + x /\ (x = 365 => IsLeapYear(n + 1))
  <2>1. o \in Nat /\ o <= 399 /\ o \div 4 = 25 * c + q /\ o \div 100 = c /\ n \div 400 = e
    BY <1>1, <1>2, <1>3, <1>4
  <2>2. n \div 4 = 100 * e + 25 * c + q /\ n \div 100 = 4 * e + c
    BY <1>1, <1>2, <1>3, <1>4
  <2>3. N = YearStart(n) + x
    BY <1>1, <1>2, <1>3, <1>4, <1>5, <2>1, <2>2 DEF YearStart
  <2>4. x = 365 => IsLeapYear(n + 1)
    BY <1>1, <1>2, <1>3, <1>4 DEF IsLeapYear
  <2> QED
    BY <1>1, <1>2, <1>3, <1>4, <2>3, <2>4
<1> HIDE DEF o, n
<1> DEFINE i == (5 * x + 2) \div 153
           m == IF i < 10 THEN i + 3 ELSE i - 9
           y == n + (IF m <= 2 THEN 1 ELSE 0)
           d == x - MonthOffset(i) + 1
<1>7. i \in 0 .. 11 /\ MonthOffset(i) <= x /\ x < MonthOffset(i + 1)
  BY <1>4, DayHasMonth
<1> HIDE DEF i
<1>8. /\ MonthOffset(i) \in Nat /\ MonthOffset(i) <= 337
      /\ MonthOffset(i + 1) \in Nat /\ MonthOffset(i + 1) <= 367
  BY <1>7, MonthOffsets
<1>9. m \in 1 .. 12 /\ y \in Int /\ d \in Int /\ 1 <= d
      /\ (MonthOf(y, m) - 2) \div 12 = n /\ (MonthOf(y, m) - 2) % 12 = i
      /\ (i = 11 => y = n + 1)
  BY <1>4, <1>6, <1>7, <1>8 DEF MonthOf
<1>10. d <= DaysInMonth(y, m) /\ DaysInMonth(y, m) \in Int
  <2>1. DaysInMonth(y, m) = IF i = 11 THEN (IF IsLeapYear(y) THEN 29 ELSE 28)
                            ELSE MonthOffset(i + 1) - MonthOffset(i)
    BY <1>7, <1>9, MonthFromMarch
  <2>2. CASE i = 11
    <3>1. MonthOffset(i) = 337
      BY <2>2 DEF MonthOffset
    <3> QED
      BY <1>4, <1>6, <1>7, <1>9, <2>2, <3>1, <2>1
  <2>3. CASE i # 11
    BY <1>4, <1>7, <1>8, <1>9, <2>3, <2>1
  <2> QED
    BY <2>2, <2>3
<1>11. N = DayNumber(y, m, d)
  <2>1. YearStart(n) \in Int
    BY <1>6, YearStartType
  <2> QED
    BY <1>4, <1>6, <1>8, <1>9, <2>1 DEF DayNumber, MonthStart
<1> HIDE DEF m, y, d
<1> QED
  BY <1>9, <1>10, <1>11

-----------------------------------------------------------------------------
(* The walk, and the sums that fit.                                        *)

(* The walk counts as the formulas do. *)
WalkInv == /\ year \in Year \cup {1970}
           /\ month \in 1 .. 12
           /\ elapsed = MonthOf(year, month) - MonthOf(1970, 1)
           /\ first = MonthStart(MonthOf(year, month))

LEMMA MonthOfType == \A y \in Int, m \in Int : MonthOf(y, m) \in Int
BY DEF MonthOf

LEMMA DaysInMonthType ==
    ASSUME NEW y \in Int, NEW m \in 1 .. 12
    PROVE  DaysInMonth(y, m) \in Int /\ 28 <= DaysInMonth(y, m) /\ DaysInMonth(y, m) <= 31
BY DEF DaysInMonth

LEMMA YearsOfEras ==
    ASSUME NEW n \in Int, n % 400 = 0
    PROVE  n \div 400 \in Int /\ n = 400 * (n \div 400)
OBVIOUS

(* The calendar repeats after 400 years. *)
LEMMA ErasRepeat ==
    ASSUME NEW y \in Int, NEW e \in Int
    PROVE  MonthStart(MonthOf(y + 400 * e, 1)) = MonthStart(MonthOf(y, 1)) + e * 146097
<1>1. ASSUME NEW n \in Int
      PROVE  MonthStart(MonthOf(n, 1)) = YearStart(n - 1) + 306
  <2>1. (12 * n + 1 - 1 - 2) \div 12 = n - 1 /\ (12 * n + 1 - 1 - 2) % 12 = 10
    OBVIOUS
  <2> QED
    BY <2>1 DEF MonthStart, MonthOf, MonthOffset
<1>2. YearStart(y + 400 * e - 1) = YearStart(y - 1) + e * 146097
  BY DEF YearStart
<1>3. YearStart(y - 1) \in Int
  BY YearStartType
<1>4. /\ MonthStart(MonthOf(y, 1)) = YearStart(y - 1) + 306
      /\ MonthStart(MonthOf(y + 400 * e, 1)) = YearStart(y + 400 * e - 1) + 306
  BY <1>1
<1> QED
  BY <1>2, <1>3, <1>4

AreErasApart(y, z) == (z - y) % 400 = 0

DaysApart(y, z) == ((z - y) \div 400) * (400 * 365 + 97)

LEMMA ErasApart ==
    ASSUME NEW y \in Int, NEW z \in Int, AreErasApart(y, z)
    PROVE  MonthStart(MonthOf(z, 1)) = MonthStart(MonthOf(y, 1)) + DaysApart(y, z)
<1> DEFINE e == (z - y) \div 400
<1>1. e \in Int /\ z = y + 400 * e /\ DaysApart(y, z) = e * 146097
  BY YearsOfEras, z - y \in Int DEF AreErasApart, DaysApart
<1> QED
  BY <1>1, ErasRepeat

LEMMA WalkInductive == WalkInv /\ [WalkNext]_wvars => WalkInv'
<1> SUFFICES ASSUME WalkInv, [WalkNext]_wvars
             PROVE  WalkInv'
  OBVIOUS
<1>1. /\ year \in Int /\ month \in 1 .. 12
      /\ MonthOf(year, month) \in Int /\ MonthOf(1970, 1) \in Int
  BY YearAssumption, MonthOfType DEF WalkInv
<1>2. CASE Later
  <2>1. /\ month' \in 1 .. 12 /\ year' \in Year
        /\ MonthOf(year', month') = MonthOf(year, month) + 1
    BY <1>1, <1>2, YearAssumption DEF Later, MonthOf
  <2>2. MonthStart(MonthOf(year, month) + 1)
            = MonthStart(MonthOf(year, month)) + DaysInMonth(year, month)
    BY <1>1, MonthLength
  <2>3. first' = MonthStart(MonthOf(year', month'))
    BY <1>2, <2>1, <2>2 DEF Later, WalkInv
  <2>4. elapsed' = MonthOf(year', month') - MonthOf(1970, 1)
    BY <1>1, <1>2, <2>1 DEF Later, WalkInv
  <2> QED
    BY <2>1, <2>3, <2>4 DEF WalkInv
<1>3. CASE Earlier
  <2>1. /\ month' \in 1 .. 12 /\ year' \in Year /\ year' \in Int
        /\ MonthOf(year', month') + 1 = MonthOf(year, month)
    BY <1>1, <1>3, YearAssumption DEF Earlier, MonthOf
  <2>2. MonthStart(MonthOf(year', month') + 1)
            = MonthStart(MonthOf(year', month')) + DaysInMonth(year', month')
    BY <2>1, MonthLength
  <2>3. MonthOf(year', month') \in Int
    BY <2>1, MonthOfType
  <2>4. DaysInMonth(year', month') \in Int /\ MonthStart(MonthOf(year', month')) \in Int
    BY <2>1, <2>3, MonthStartType, DaysInMonthType
  <2>5. first' = MonthStart(MonthOf(year', month'))
    BY <1>3, <2>1, <2>2, <2>4 DEF Earlier, WalkInv
  <2>6. elapsed' = MonthOf(year', month') - MonthOf(1970, 1)
    BY <1>1, <1>3, <2>1, <2>3 DEF Earlier, WalkInv
  <2> QED
    BY <2>1, <2>5, <2>6 DEF WalkInv
<1>4. CASE ErasAway
  <2>1. /\ month = 1 /\ month' = 1 /\ year' \in Year /\ year' \in Int
        /\ AreErasApart(year, year')
        /\ first' = first + DaysApart(year, year')
        /\ elapsed' = elapsed + (year' - year) * 12
    BY <1>4, YearAssumption DEF ErasAway, AreErasApart, DaysApart
  <2>2. MonthStart(MonthOf(year', 1)) = MonthStart(MonthOf(year, 1)) + DaysApart(year, year')
    BY <1>1, <2>1, ErasApart
  <2>3. first' = MonthStart(MonthOf(year', month'))
    BY <2>1, <2>2 DEF WalkInv
  <2>4. elapsed' = MonthOf(year', month') - MonthOf(1970, 1)
    BY <1>1, <2>1 DEF WalkInv, MonthOf
  <2> QED
    BY <2>1, <2>3, <2>4 DEF WalkInv
<1>5. CASE UNCHANGED wvars
  BY <1>5 DEF WalkInv, wvars
<1> QED
  BY <1>2, <1>3, <1>4, <1>5 DEF WalkNext

LEMMA EpochIsZero == MonthOf(1970, 1) = 23640 /\ MonthStart(23640) = 0
BY DEF MonthOf, MonthStart, YearStart, MonthOffset

LEMMA WalkInvariant == WalkSpec => []WalkInv
<1>1. WalkInit => WalkInv
  BY EpochIsZero DEF WalkInit, WalkInv
<1> QED
  BY <1>1, WalkInductive, PTL DEF WalkSpec

(* Reach is what it says. *)
IsReached(y, m, d) ==
    /\ Reach(y) \in Nat
    /\ -Reach(y) + 20000 <= DayNumber(y, m, d) /\ DayNumber(y, m, d) <= Reach(y) - 20000
    /\ -Reach(y) + 200 <= MonthOf(y, m) /\ MonthOf(y, m) <= Reach(y) - 200

LEMMA ReachBounds ==
    ASSUME NEW y \in Int, NEW m \in 1 .. 12, NEW d \in 1 .. 31
    PROVE  IsReached(y, m, d)
<1> DEFINE n == (MonthOf(y, m) - 2) \div 12
           i == (MonthOf(y, m) - 2) % 12
<1>1. n \in {y - 1, y} /\ i \in 0 .. 11 /\ n \in Int
  BY DEF MonthOf
<1>2. DayNumber(y, m, d) = YearStart(n) + MonthOffset(i) + d - 1
  BY DEF DayNumber, MonthStart
<1> HIDE DEF n, i
<1>3. MonthOffset(i) \in Nat /\ MonthOffset(i) <= 337 /\ YearStart(n) \in Int
  BY <1>1, MonthOffsets, YearStartType
<1>4. YearStart(1969) = -306
  BY DEF YearStart
<1>5. CASE n >= 1969
  <2>1. 365 * (n - 1969) <= YearStart(n) - YearStart(1969)
            /\ YearStart(n) - YearStart(1969) <= 366 * (n - 1969)
    BY <1>1, <1>5, 1969 <= n, YearsAdvance
  <2>2. 365 * (n - 1969) <= YearStart(n) + 306 /\ YearStart(n) + 306 <= 366 * (n - 1969)
    BY <1>1, <1>3, <1>4, <2>1
  <2> QED
    BY <1>1, <1>2, <1>3, <1>5, <2>2 DEF IsReached, Reach, MonthOf
<1>6. CASE n < 1969
  <2>1. 365 * (1969 - n) <= YearStart(1969) - YearStart(n)
            /\ YearStart(1969) - YearStart(n) <= 366 * (1969 - n)
    BY <1>1, <1>6, n <= 1969, YearsAdvance
  <2>2. 365 * (1969 - n) <= -306 - YearStart(n) /\ -306 - YearStart(n) <= 366 * (1969 - n)
    BY <1>1, <1>3, <1>4, <2>1
  <2> QED
    BY <1>1, <1>2, <1>3, <1>6, <2>2 DEF IsReached, Reach, MonthOf
<1> QED
  BY <1>1, <1>5, <1>6

LEMMA FactsOfDayLength == DayLength \in Nat /\ DayLength \in Int /\ DayLength >= 1
BY DayLengthAssumption

LEMMA FactsOfHalf == Half \in Nat /\ Half \in Int /\ Half >= 1
BY HalfAssumption

(* The day x, and its midnight, fit in the integers. *)
Fits(x) == /\ x * DayLength \in Int
           /\ -Half <= x * DayLength /\ x * DayLength < Half
           /\ -Half <= x /\ x < Half

LEMMA DayFits ==
    ASSUME NEW R \in Nat, R * DayLength <= Half, NEW x \in Int, -R <= x, x < R
    PROVE  Fits(x)
<1>1. (x + 1) * DayLength \in Int /\ (x + 1) * DayLength <= R * DayLength /\ R * DayLength \in Int
  BY FactsOfDayLength, TimesGrows, x + 1 \in Int, x + 1 <= R
<1>2. (-R) * DayLength \in Int /\ x * DayLength \in Int /\ (-R) * DayLength <= x * DayLength
  BY FactsOfDayLength, TimesGrows, -R \in Int
<1>3. (x + 1) * DayLength = x * DayLength + DayLength /\ (-R) * DayLength = -(R * DayLength)
  BY FactsOfDayLength
<1>4. R <= R * DayLength
  BY FactsOfDayLength
<1> QED
  BY <1>1, <1>2, <1>3, <1>4, FactsOfDayLength, FactsOfHalf DEF Fits

LEMMA Midnights ==
    ASSUME NEW x \in Int
    PROVE  (x * DayLength) \div DayLength = x /\ (x * DayLength) % DayLength = 0
BY DayLengthAssumption

LEMMA Exact ==
    ASSUME NEW y \in Int, NEW m \in 1 .. 12, NEW d \in Int,
           -Half <= DayNumber(y, m, d), DayNumber(y, m, d) < Half
    PROVE  DaysFromCivil(y, m, d) = DayNumber(y, m, d)
<1>1. DayNumber(y, m, d) \in Int
  <2>1. MonthOf(y, m) \in Int
    BY MonthOfType, m \in Int
  <2> QED
    BY <2>1, MonthStartType DEF DayNumber
<1> QED
  BY <1>1, WrapFits, DaysFromCivilIs

-----------------------------------------------------------------------------
(* add_duration on the numbers of months.                                  *)

LastDay(k) == DaysInMonth(k \div 12, (k % 12) + 1)

Clamp(k, d) == IF d <= LastDay(k) THEN d ELSE LastDay(k)

(* The day d of month k, or its last. *)
Moved(k, d) == MonthStart(k) + Clamp(k, d) - 1

LEMMA PartsOfMonth ==
    ASSUME NEW k \in Int
    PROVE  /\ k \div 12 \in Int /\ (k % 12) + 1 \in 1 .. 12
           /\ MonthOf(k \div 12, (k % 12) + 1) = k
           /\ (k \div 12) * 12 + ((k % 12) + 1) - 1 = k
BY DEF MonthOf

LEMMA MonthOfParts ==
    ASSUME NEW y \in Int, NEW m \in 1 .. 12
    PROVE  LastDay(MonthOf(y, m)) = DaysInMonth(y, m)
<1>1. MonthOf(y, m) \div 12 = y /\ (MonthOf(y, m) % 12) + 1 = m
  BY DEF MonthOf
<1> QED
  BY <1>1 DEF LastDay

LEMMA LastDays ==
    ASSUME NEW k \in Int
    PROVE  /\ LastDay(k) \in Int /\ 28 <= LastDay(k) /\ LastDay(k) <= 31
           /\ MonthStart(k + 1) = MonthStart(k) + LastDay(k)
<1>1. k \div 12 \in Int /\ (k % 12) + 1 \in 1 .. 12 /\ MonthOf(k \div 12, (k % 12) + 1) = k
  BY PartsOfMonth
<1>2. LastDay(k) \in Int /\ 28 <= LastDay(k) /\ LastDay(k) <= 31
  BY <1>1, DaysInMonthType DEF LastDay
<1>3. MonthStart(k + 1) = MonthStart(k) + LastDay(k)
  BY <1>1, MonthLength DEF LastDay
<1> QED
  BY <1>2, <1>3

LEMMA Clamped ==
    ASSUME NEW k \in Int, NEW d \in Int, d >= 1
    PROVE  /\ Clamp(k, d) \in Int /\ 1 <= Clamp(k, d) /\ Clamp(k, d) <= LastDay(k)
           /\ Moved(k, d) \in Int
BY LastDays, MonthStartType DEF Clamp, Moved

LEMMA MovedWithin ==
    ASSUME NEW k \in Int, NEW d \in Int, d >= 1, NEW l \in Int, l = k + 1
    PROVE  /\ MonthStart(k) \in Int /\ MonthStart(l) \in Int /\ Moved(k, d) \in Int
           /\ MonthStart(k) <= Moved(k, d) /\ Moved(k, d) < MonthStart(l)
<1>1. /\ LastDay(k) \in Int /\ 28 <= LastDay(k) /\ MonthStart(k) \in Int
      /\ MonthStart(l) = MonthStart(k) + LastDay(k)
  BY LastDays, MonthStartType
<1> QED
  BY <1>1 DEF Clamp, Moved

LEMMA MonthsMove ==
    ASSUME NEW k \in Int, NEW d \in Int, 1 <= d, d <= LastDay(k),
           NEW M \in Int, NEW T \in Int,
           -Half <= k + M, k + M < Half,
           -Half <= Moved(k + M, d), Moved(k + M, d) < Half,
           -Half <= Moved(k + M, d) * DayLength + T, Moved(k + M, d) * DayLength + T < Half
    PROVE  AddDuration((MonthStart(k) + d - 1) * DayLength, [months |-> M, ticks |-> T])
               = Moved(k + M, d) * DayLength + T
<1> DEFINE N == MonthStart(k) + d - 1
           y == k \div 12
           m == (k % 12) + 1
           l == k + M
           t == N * DayLength
           x == Moved(l, d)
<1>1. y \in Int /\ m \in 1 .. 12 /\ MonthOf(y, m) = k /\ y * 12 + m - 1 = k
  BY PartsOfMonth
<1>2. d \in 1 .. DaysInMonth(y, m)
  BY LastDays DEF LastDay
<1>3. N = DayNumber(y, m, d)
  BY <1>1 DEF DayNumber
<1>4. N \in Int
  BY MonthStartType
<1>5. t \div DayLength = N /\ t % DayLength = 0
  BY <1>4, Midnights
<1>6. x \in Int /\ Clamp(l, d) \in Int
  BY Clamped
<1>7. Wrap(x * DayLength + T) = x * DayLength + T
  BY <1>6, FactsOfDayLength, WrapFits, x * DayLength + T \in Int
<1>8. Wrap(l) = l
  BY WrapFits
<1>9. DaysFromCivil(l \div 12, (l % 12) + 1, Clamp(l, d)) = x
  <2>1. /\ l \div 12 \in Int /\ (l % 12) + 1 \in 1 .. 12
        /\ MonthOf(l \div 12, (l % 12) + 1) = l
    BY PartsOfMonth
  <2>2. DayNumber(l \div 12, (l % 12) + 1, Clamp(l, d)) = x
    BY <2>1 DEF DayNumber, Moved
  <2> QED
    BY <1>6, <2>1, <2>2, Exact
<1>10. CASE M = 0
  <2>1. x = N
    BY <1>10 DEF Moved, Clamp
  <2>2. AddDuration(t, [months |-> M, ticks |-> T]) = Wrap(t + T)
    BY <1>10 DEF AddDuration
  <2> QED
    BY <1>7, <2>1, <2>2
<1>11. CASE M # 0
  <2>1. CivilFromDays(t \div DayLength) = Date(y, m, d)
    BY <1>1, <1>2, <1>3, <1>5, CivilOfDayNumber
  <2>2. y * 12 + m - 1 + M = l
    BY <1>1
  <2> HIDE DEF y, m, l, t, N, x
  <2>3. AddDuration(t, [months |-> M, ticks |-> T])
            = Wrap(DaysFromCivil(l \div 12, (l % 12) + 1, Clamp(l, d)) * DayLength + 0 + T)
    BY <1>5, <1>8, <1>11, <2>1, <2>2 DEF AddDuration, Date, Clamp, LastDay
  <2>4. x * DayLength + 0 + T = x * DayLength + T
    BY <1>6, FactsOfDayLength
  <2> QED
    BY <1>7, <1>9, <2>3, <2>4 DEF t, N, x, l
<1> QED
  BY <1>10, <1>11

-----------------------------------------------------------------------------
(* The theorems.                                                           *)

LEMMA MonthFits ==
    ASSUME WalkInv, NEW d \in 1 .. 31
    PROVE  /\ year \in Int /\ month \in 1 .. 12 /\ month \in Int
           /\ Reach(year) * DayLength <= Half
           /\ IsReached(year, month, d)
           /\ Fits(DayNumber(year, month, d)) /\ Fits(MonthOf(year, month))
<1>1. year \in Int /\ month \in 1 .. 12 /\ year \in Year \cup {0, 1970, 10000}
  BY YearAssumption DEF WalkInv
<1>2. Reach(year) * DayLength <= Half
  BY <1>1, ReachAssumption
<1>3. IsReached(year, month, d)
  BY <1>1, ReachBounds
<1>4. MonthOf(year, month) \in Int /\ DayNumber(year, month, d) \in Int
  <2>1. MonthOf(year, month) \in Int
    BY <1>1, MonthOfType, month \in Int
  <2> QED
    BY <2>1, MonthStartType DEF DayNumber
<1>5. /\ Reach(year) \in Nat
      /\ -Reach(year) <= DayNumber(year, month, d) /\ DayNumber(year, month, d) < Reach(year)
      /\ -Reach(year) <= MonthOf(year, month) /\ MonthOf(year, month) < Reach(year)
  BY <1>3, <1>4 DEF IsReached
<1>6. Fits(DayNumber(year, month, d))
  BY <1>2, <1>4, <1>5, DayFits
<1>7. Fits(MonthOf(year, month))
  BY <1>2, <1>4, <1>5, DayFits
<1> QED
  BY <1>1, <1>2, <1>3, <1>6, <1>7

(* days_from_civil and civil_from_days count the days as the walk does, and *)
(* each is the inverse of the other on them.                               *)
THEOREM DaysAreCounted == WalkSpec => []CountedDaysAgree
<1>1. WalkInv => CountedDaysAgree
  <2> SUFFICES ASSUME WalkInv, NEW d \in Days
               PROVE  /\ DaysFromCivil(year, month, d) = first + d - 1
                      /\ CivilFromDays(first + d - 1) = Date(year, month, d)
    BY DEF CountedDaysAgree
  <2>1. year \in Int /\ month \in 1 .. 12 /\ first = MonthStart(MonthOf(year, month))
    BY YearAssumption DEF WalkInv
  <2>2. d \in 1 .. DaysInMonth(year, month) /\ d \in 1 .. 31
    <3>1. d \in 1 .. DaysInMonth(year, month)
      BY DEF Days
    <3>2. DaysInMonth(year, month) \in Int /\ DaysInMonth(year, month) <= 31
      BY <2>1, DaysInMonthType
    <3> QED
      BY <3>1, <3>2
  <2>3. first + d - 1 = DayNumber(year, month, d) /\ DayNumber(year, month, d) \in Int
    <3>1. MonthStart(MonthOf(year, month)) \in Int
      BY <2>1, MonthOfType, MonthStartType, month \in Int
    <3> QED
      BY <2>1, <2>2, <3>1 DEF DayNumber
  <2>4. -Half <= DayNumber(year, month, d) /\ DayNumber(year, month, d) < Half
    BY <2>2, MonthFits DEF Fits
  <2>5. DaysFromCivil(year, month, d) = DayNumber(year, month, d)
    BY <2>1, <2>2, <2>4, Exact, d \in Int
  <2> QED
    BY <2>1, <2>2, <2>3, <2>5, CivilOfDayNumber
<1> QED
  BY <1>1, WalkInvariant, PTL

LEMMA Epoch ==
    /\ MonthOf(1970, 1) = 23640 /\ MonthStart(23640) = 0 /\ LastDay(23640) = 31
    /\ \A d \in Int : 1 <= d /\ d <= 31 => Moved(23640, d) = d - 1
<1>1. LastDay(23640) = 31
  BY DEF LastDay, DaysInMonth
<1> QED
  BY <1>1, EpochIsZero DEF Moved, Clamp

(* Where the walk is, by numbers. *)
LEMMA WalkedMonth ==
    ASSUME WalkInv
    PROVE  \E k \in Int :
               /\ k = MonthOf(year, month) /\ elapsed = k - 23640
               /\ first = MonthStart(k) /\ first \in Int
               /\ DaysInMonth(year, month) = LastDay(k)
               /\ -Half <= k /\ k < Half
<1>1. year \in Int /\ month \in 1 .. 12 /\ month \in Int /\ Fits(MonthOf(year, month))
  BY MonthFits, 1 \in 1 .. 31
<1>2. MonthOf(year, month) \in Int
  BY <1>1, MonthOfType
<1> QED
  BY <1>1, <1>2, MonthStartType, MonthOfParts, Epoch DEF WalkInv, Fits

(* The days of the month fit. *)
LEMMA WalkedDay ==
    ASSUME WalkInv, NEW d \in Int, 1 <= d, d <= 31
    PROVE  Fits(first + d - 1)
<1>1. DayNumber(year, month, d) = first + d - 1
  BY DEF DayNumber, WalkInv
<1> QED
  BY <1>1, MonthFits, d \in 1 .. 31

(* add_duration: months counted from January 1970 lead to the month the     *)
(* walk is at, to the same day or to its last, and back from before 1970.   *)
THEOREM MonthsLeadBack == WalkSpec => []MonthsAddUp
<1>1. WalkInv => MonthsAddUp
  <2> SUFFICES ASSUME WalkInv
               PROVE  MonthsAddUp
    OBVIOUS
  <2>1. PICK k \in Int :
            /\ k = MonthOf(year, month) /\ elapsed = k - 23640
            /\ first = MonthStart(k) /\ first \in Int
            /\ DaysInMonth(year, month) = LastDay(k)
            /\ -Half <= k /\ k < Half
    BY WalkedMonth
  <2>2. CASE elapsed >= 0
    <3> SUFFICES ASSUME NEW d \in {1} \cup 27 .. 31
                 PROVE  AddDuration((d - 1) * DayLength, Months(elapsed))
                            = Midnight(IF d \in Days THEN d ELSE DaysInMonth(year, month))
      BY <2>2 DEF MonthsAddUp
    <3>1. d \in Int /\ 1 <= d /\ d <= 31 /\ d <= LastDay(23640)
      BY Epoch
    <3>2. /\ LastDay(k) \in Int /\ 28 <= LastDay(k) /\ LastDay(k) <= 31
          /\ Clamp(k, d) \in Int /\ 1 <= Clamp(k, d) /\ Clamp(k, d) <= 31
      <4>1. LastDay(k) \in Int /\ 28 <= LastDay(k) /\ LastDay(k) <= 31
        BY LastDays
      <4> QED
        BY <3>1, <4>1 DEF Clamp
    <3>3. Moved(k, d) = first + Clamp(k, d) - 1
      BY <2>1 DEF Moved
    <3>4. /\ -Half <= Moved(k, d) /\ Moved(k, d) < Half /\ Moved(k, d) * DayLength \in Int
          /\ -Half <= Moved(k, d) * DayLength + 0 /\ Moved(k, d) * DayLength + 0 < Half
      <4>1. Fits(Moved(k, d))
        BY <3>2, <3>3, WalkedDay
      <4> QED
        BY <4>1 DEF Fits
    <3>5. 23640 + elapsed = k /\ elapsed \in Int
      BY <2>1
    <3>6. AddDuration((MonthStart(23640) + d - 1) * DayLength, [months |-> elapsed, ticks |-> 0])
              = Moved(k, d) * DayLength + 0
      BY <2>1, <3>1, <3>4, <3>5, MonthsMove, 23640 \in Int, 0 \in Int
    <3>7. MonthStart(23640) + d - 1 = d - 1
      BY <3>1, Epoch
    <3>8. Midnight(IF d \in Days THEN d ELSE DaysInMonth(year, month)) = Moved(k, d) * DayLength
      <4>1. (IF d \in Days THEN d ELSE DaysInMonth(year, month)) = Clamp(k, d)
        BY <2>1, <3>1, <3>2 DEF Days, Clamp
      <4> QED
        BY <3>3, <4>1 DEF Midnight
    <3> QED
      BY <3>4, <3>6, <3>7, <3>8 DEF Months
  <2>3. CASE ~(elapsed >= 0)
    <3> SUFFICES ASSUME NEW d \in Edges
                 PROVE  AddDuration(Midnight(d), Months(-elapsed)) = (d - 1) * DayLength
      BY <2>3 DEF MonthsAddUp
    <3>1. d \in Int /\ 1 <= d /\ d <= LastDay(k) /\ LastDay(k) <= 31 /\ d <= 31
      <4>1. d \in 1 .. LastDay(k)
        BY <2>1 DEF Edges, Days
      <4> QED
        BY <2>1, <4>1, LastDays
    <3>2. k + (-elapsed) = 23640 /\ -elapsed \in Int
      BY <2>1
    <3>3. Moved(23640, d) = d - 1
      BY <3>1, Epoch
    <3>4. /\ -Half <= d - 1 /\ d - 1 < Half /\ (d - 1) * DayLength \in Int
          /\ -Half <= (d - 1) * DayLength + 0 /\ (d - 1) * DayLength + 0 < Half
          /\ -Half <= 23640 /\ 23640 < Half
      <4>1. Reach(1970) = 24732
        BY DEF Reach
      <4>2. 24732 * DayLength <= Half
        BY <4>1, ReachAssumption
      <4>3. /\ -24732 <= d - 1 /\ d - 1 < 24732 /\ 24732 \in Nat /\ d - 1 \in Int
            /\ -24732 <= 23640 /\ 23640 < 24732
        BY <3>1
      <4>4. Fits(d - 1) /\ Fits(23640)
        BY <4>2, <4>3, DayFits
      <4> QED
        BY <4>4 DEF Fits
    <3>5. AddDuration((MonthStart(k) + d - 1) * DayLength, [months |-> -elapsed, ticks |-> 0])
              = (d - 1) * DayLength + 0
      BY <2>1, <3>1, <3>2, <3>3, <3>4, MonthsMove, 0 \in Int
    <3> QED
      BY <2>1, <3>4, <3>5 DEF Midnight, Months
  <2> QED
    BY <2>2, <2>3
<1> QED
  BY <1>1, WalkInvariant, PTL

-----------------------------------------------------------------------------
(* Thresholds.                                                             *)

(* A duration of M months, W days and s ticks, within reach of R days.      *)
WithinReach(R, M, W, s) == (R + 31 * M + W) * DayLength + s <= Half

LEMMA Within ==
    ASSUME NEW R \in Nat, R >= 20000, NEW M \in Nat, NEW W \in Nat, NEW s \in Nat,
           WithinReach(R, M, W, s), NEW x \in Int, -R <= x, x + W < R + 31 * M + W
    PROVE  /\ Fits(x)
           /\ W * DayLength + s \in Int /\ (x + W) * DayLength \in Int
           /\ x * DayLength + (W * DayLength + s) = (x + W) * DayLength + s
           /\ -Half <= x * DayLength + (W * DayLength + s)
           /\ x * DayLength + (W * DayLength + s) < Half
<1> DEFINE Q == R + 31 * M + W
<1>1. Q \in Nat /\ Q \in Int /\ -Q <= x /\ x < Q /\ x + W + 1 <= Q
  OBVIOUS
<1>2. Q * DayLength \in Int /\ Q * DayLength + s <= Half
  BY <1>1, FactsOfDayLength DEF WithinReach
<1> HIDE DEF Q
<1>3. Fits(x)
  BY <1>1, <1>2, FactsOfHalf, DayFits
<1>4. (x + W + 1) * DayLength \in Int /\ (x + W + 1) * DayLength <= Q * DayLength
  BY <1>1, FactsOfDayLength, TimesGrows, x + W + 1 \in Int
<1>5. /\ x * DayLength \in Int /\ W * DayLength \in Nat /\ (x + W) * DayLength \in Int
      /\ (x + W) * DayLength = x * DayLength + W * DayLength
      /\ (x + W + 1) * DayLength = (x + W) * DayLength + DayLength
  BY FactsOfDayLength
<1> QED
  BY <1>2, <1>3, <1>4, <1>5, FactsOfDayLength, FactsOfHalf DEF Fits

IsNear(R, k) == /\ -R + 20000 <= MonthStart(k) /\ MonthStart(k) <= R - 20000
                /\ -R + 200 <= k /\ k <= R - 200

MidnightOf(k, d) == (MonthStart(k) + d - 1) * DayLength

(* The midnight of day d of month k is moved to the day x, and W days and s *)
(* ticks on.                                                               *)
Crosses(k, d, M, W, s, x) ==
    AddDuration(MidnightOf(k, d), [months |-> M, ticks |-> W * DayLength + s])
        = (x + W) * DayLength + s

IsMovedNear(R, M, j, d) == /\ R >= 20000
                           /\ -R <= Moved(j, d) /\ Moved(j, d) < R + 31 * M
                           /\ -R <= j /\ j < R + 31 * M

LEMMA MovedNear ==
    ASSUME NEW R \in Nat, NEW k \in Int, NEW l \in Int, k <= l, l <= k + 1, IsNear(R, k),
           NEW M \in Nat, NEW d \in Int, 1 <= d, NEW j \in Int, j = l + M
    PROVE  IsMovedNear(R, M, j, d)
<1>1. PICK i \in Int : i = j + 1
  OBVIOUS
<1>2. /\ Moved(j, d) \in Int /\ MonthStart(j) \in Int /\ MonthStart(i) \in Int
      /\ MonthStart(j) <= Moved(j, d) /\ Moved(j, d) < MonthStart(i)
  BY <1>1, MovedWithin
<1>3. k <= j /\ k <= i /\ i <= k + M + 2
  BY <1>1
<1>4. MonthStart(k) \in Int /\ MonthStart(k) <= MonthStart(j)
  BY <1>3, MonthsAdvance, MonthStartType
<1>5. MonthStart(i) - MonthStart(k) <= 31 * (i - k)
  BY <1>3, MonthsAdvance
<1> QED
  BY <1>2, <1>3, <1>4, <1>5 DEF IsNear, IsMovedNear

LEMMA Crossing ==
    ASSUME NEW R \in Nat, NEW k \in Int, NEW l \in Int, k <= l, l <= k + 1, IsNear(R, k),
           NEW M \in Nat, NEW W \in Nat, NEW s \in Nat, WithinReach(R, M, W, s),
           NEW d \in Int, 1 <= d, d <= LastDay(l), NEW j \in Int, j = l + M
    PROVE  Crosses(l, d, M, W, s, Moved(j, d))
<1>1. IsMovedNear(R, M, j, d)
  BY MovedNear
<1>2. PICK x \in Int : x = Moved(j, d)
  BY Clamped
<1>3. /\ R >= 20000 /\ -R <= x /\ x + W < R + 31 * M + W
      /\ -R <= j /\ j + W < R + 31 * M + W
  BY <1>1, <1>2 DEF IsMovedNear
<1>4. /\ Fits(x)
      /\ W * DayLength + s \in Int
      /\ x * DayLength + (W * DayLength + s) = (x + W) * DayLength + s
      /\ -Half <= x * DayLength + (W * DayLength + s)
      /\ x * DayLength + (W * DayLength + s) < Half
  BY <1>3, Within
<1>5. Fits(j)
  BY <1>3, Within
<1>6. -Half <= x /\ x < Half /\ -Half <= j /\ j < Half
  BY <1>4, <1>5 DEF Fits
<1>7. AddDuration((MonthStart(l) + d - 1) * DayLength,
                   [months |-> M, ticks |-> W * DayLength + s])
           = x * DayLength + (W * DayLength + s)
  BY <1>2, <1>4, <1>6, MonthsMove
<1> QED
  BY <1>2, <1>4, <1>7 DEF Crosses, MidnightOf

LEMMA MovesForward ==
    ASSUME NEW k \in Int, NEW d \in Int, 1 <= d, d <= LastDay(k), NEW M \in Nat,
           NEW j \in Int, j = k + M
    PROVE  MonthStart(k) \in Int /\ MonthStart(k) + d - 1 <= Moved(j, d)
<1>1. PICK l \in Int : l = k + 1
  OBVIOUS
<1>2. /\ MonthStart(k) \in Int /\ MonthStart(l) = MonthStart(k) + LastDay(k)
      /\ LastDay(k) \in Int
  BY <1>1, LastDays, MonthStartType
<1>3. CASE j = k
  BY <1>2, <1>3 DEF Moved, Clamp
<1>4. CASE l <= j
  <2>1. MonthStart(l) <= MonthStart(j)
    BY <1>4, MonthsAdvance
  <2>2. PICK i \in Int : i = j + 1
    OBVIOUS
  <2>3. MonthStart(j) \in Int /\ Moved(j, d) \in Int /\ MonthStart(j) <= Moved(j, d)
    BY <2>2, MovedWithin
  <2> QED
    BY <1>2, <2>1, <2>3
<1> QED
  BY <1>1, <1>2, <1>3, <1>4

LEMMA MovesOn ==
    ASSUME NEW k \in Int, NEW d \in Int, 1 <= d, NEW e \in Int, e = d + 1,
           NEW l \in Int, l = k + 1
    PROVE  /\ Moved(k, d) \in Int /\ Moved(k, e) \in Int /\ Moved(l, 1) \in Int
           /\ Moved(k, d) <= Moved(k, e) /\ Moved(k, d) <= Moved(l, 1)
<1>1. /\ MonthStart(k) \in Int /\ MonthStart(l) \in Int
      /\ Moved(k, d) \in Int /\ Moved(k, d) < MonthStart(l)
  BY MovedWithin
<1>2. PICK i \in Int : i = l + 1
  OBVIOUS
<1>3. Moved(l, 1) \in Int /\ MonthStart(l) <= Moved(l, 1)
  BY <1>2, MovedWithin, 1 \in Int, 1 >= 1
<1>4. Moved(k, e) \in Int
  BY Clamped, e >= 1
<1>5. LastDay(k) \in Int
  BY LastDays
<1>6. Moved(k, d) <= Moved(k, e)
  BY <1>1, <1>5 DEF Moved, Clamp
<1> QED
  BY <1>1, <1>3, <1>4, <1>6

LEMMA DurationWithin ==
    ASSUME NEW R \in Nat, R >= 20000, NEW M \in Nat, NEW W \in Nat, NEW s \in Nat,
           WithinReach(R, M, W, s)
    PROVE  Wrap(M) = M /\ Wrap(W * DayLength + s) = W * DayLength + s
<1>1. /\ W * DayLength + s \in Int
      /\ -Half <= 0 * DayLength + (W * DayLength + s)
      /\ 0 * DayLength + (W * DayLength + s) < Half
  BY Within, 0 \in Int, -R <= 0, 0 + W < R + 31 * M + W
<1>2. Fits(M)
  BY Within, -R <= M, M + W < R + 31 * M + W
<1>3. 0 * DayLength = 0
  BY FactsOfDayLength
<1> QED
  BY <1>1, <1>2, <1>3, WrapFits DEF Fits

Lasting(M, W, s) == [months |-> M, ticks |-> W * DayLength + s]

(* The thresholds of two days that follow each other. *)
ThresholdsInOrder(k, d, D) ==
    /\ MidnightOf(k, d) <= AddDuration(MidnightOf(k, d), D)
    /\ AddDuration(MidnightOf(k, d), D) <= AddDuration(MidnightOf(k, d + 1), D)

LEMMA Ordered ==
    ASSUME NEW k \in Int, NEW d \in Int, NEW M \in Nat, NEW W \in Nat, NEW s \in Nat,
           NEW x \in Int, NEW z \in Int, MonthStart(k) \in Int,
           MonthStart(k) + d - 1 <= x, x <= z,
           Crosses(k, d, M, W, s, x), Crosses(k, d + 1, M, W, s, z)
    PROVE  ThresholdsInOrder(k, d, Lasting(M, W, s))
<1>1. PICK n \in Int : n = MonthStart(k) + d - 1
  OBVIOUS
<1>2. PICK a \in Int : a = x + W
  OBVIOUS
<1>3. PICK b \in Int : b = z + W
  OBVIOUS
<1>4. n <= a /\ a <= b
  BY <1>1, <1>2, <1>3
<1>5. /\ n * DayLength \in Int /\ a * DayLength \in Int /\ b * DayLength \in Int
      /\ n * DayLength <= a * DayLength /\ a * DayLength <= b * DayLength
  BY <1>4, FactsOfDayLength, TimesGrows
<1> QED
  BY <1>1, <1>2, <1>3, <1>5 DEF ThresholdsInOrder, Crosses, MidnightOf, Lasting

LEMMA ThresholdsAdvance ==
    ASSUME NEW R \in Nat, NEW k \in Int, IsNear(R, k),
           NEW M \in Nat, NEW W \in Nat, NEW s \in Nat, WithinReach(R, M, W, s),
           NEW d \in Int, 1 <= d, d <= LastDay(k)
    PROVE  ThresholdsInOrder(k, d, Lasting(M, W, s))
<1>1. PICK j \in Int : j = k + M
  OBVIOUS
<1>2. PICK i \in Int : i = j + 1
  OBVIOUS
<1>3. PICK l \in Int : l = k + 1
  OBVIOUS
<1>4. PICK e \in Int : e = d + 1
  OBVIOUS
<1>5. /\ Moved(j, d) \in Int /\ Moved(j, e) \in Int /\ Moved(i, 1) \in Int
      /\ Moved(j, d) <= Moved(j, e) /\ Moved(j, d) <= Moved(i, 1)
  BY <1>2, <1>4, MovesOn
<1>6. k <= k /\ k <= k + 1 /\ k <= l /\ l <= k + 1 /\ i = l + M
  BY <1>1, <1>2, <1>3
<1>7. Crosses(k, d, M, W, s, Moved(j, d))
  BY <1>1, <1>6, Crossing
<1>8. MonthStart(k) \in Int /\ MonthStart(k) + d - 1 <= Moved(j, d)
  BY <1>1, MovesForward
<1>9. LastDay(k) \in Int /\ 1 <= LastDay(l) /\ MonthStart(l) = MonthStart(k) + LastDay(k)
  BY <1>3, LastDays
<1>10. \E z \in Int : Moved(j, d) <= z /\ Crosses(k, e, M, W, s, z)
  <2>1. CASE d < LastDay(k)
    <3>1. e <= LastDay(k) /\ 1 <= e
      BY <1>4, <1>9, <2>1
    <3>2. Crosses(k, e, M, W, s, Moved(j, e))
      BY <1>1, <1>6, <3>1, Crossing
    <3> QED
      BY <1>5, <3>2
  <2>2. CASE d = LastDay(k)
    <3>1. MidnightOf(k, e) = MidnightOf(l, 1)
      BY <1>4, <1>8, <1>9, <2>2 DEF MidnightOf
    <3>2. Crosses(l, 1, M, W, s, Moved(i, 1))
      BY <1>6, <1>9, Crossing, 1 \in Int, 1 <= 1
    <3>3. Crosses(k, e, M, W, s, Moved(i, 1))
      BY <3>1, <3>2 DEF Crosses
    <3> QED
      BY <1>5, <3>3
  <2> QED
    BY <1>9, <2>1, <2>2
<1>11. PICK z \in Int : Moved(j, d) <= z /\ Crosses(k, e, M, W, s, z)
  BY <1>10
<1> QED
  BY <1>4, <1>5, <1>7, <1>8, <1>11, Ordered

(* The clock predicates of evaluate, for durations whose sums fit: no        *)
(* threshold lies before its basis, and a later basis never has an earlier  *)
(* threshold.                                                              *)
THEOREM ThresholdsFollowBases == WalkSpec => []LaterBasisLaterThreshold
<1>1. WalkInv => LaterBasisLaterThreshold
  <2> SUFFICES ASSUME WalkInv, NEW d \in Edges, NEW text \in Duration
               PROVE  LET crossed(t) == AddDuration(t, ParseDuration(text))
                      IN  /\ Midnight(d) <= crossed(Midnight(d))
                          /\ crossed(Midnight(d)) <= crossed(Midnight(d + 1))
    BY DEF LaterBasisLaterThreshold
  <2>1. PICK k \in Int :
            /\ k = MonthOf(year, month) /\ first = MonthStart(k) /\ first \in Int
            /\ DaysInMonth(year, month) = LastDay(k)
    BY WalkedMonth
  <2>2. IsReached(year, month, 1)
    BY MonthFits, 1 \in 1 .. 31
  <2>3. DayNumber(year, month, 1) = MonthStart(k)
    BY <2>1 DEF DayNumber
  <2>4. Reach(year) \in Nat /\ IsNear(Reach(year), k)
    BY <2>1, <2>2, <2>3 DEF IsReached, IsNear
  <2>5. PICK R \in Nat : R = Reach(year)
    BY <2>4
  <2>6. IsNear(R, k) /\ R >= 20000
    BY <2>1, <2>5, <2>4 DEF IsNear
  <2>7. /\ text.years \in Nat /\ text.months \in Nat /\ text.weeks \in Nat
        /\ text.days \in Nat /\ text.ticks \in Nat
    BY DurationAssumption
  <2>8. PICK M \in Nat : M = text.years * 12 + text.months
    BY <2>7
  <2>9. PICK W \in Nat : W = text.weeks * 7 + text.days
    BY <2>7
  <2>10. PICK s \in Nat : s = text.ticks
    BY <2>7
  <2>11. WithinReach(R, M, W, s)
    <3>1. year \in Year \cup {1970}
      BY DEF WalkInv
    <3>2. (Reach(year) + 31 * (text.years * 12 + text.months) + text.weeks * 7 + text.days)
              * DayLength + text.ticks <= Half
      BY <3>1, DurationAssumption
    <3>3. R + 31 * M + W = R + 31 * (text.years * 12 + text.months) + text.weeks * 7 + text.days
      BY <2>7, <2>8, <2>9
    <3> QED
      BY <2>5, <2>10, <3>2, <3>3 DEF WithinReach
  <2>12. ParseDuration(text) = Lasting(M, W, s)
    BY <2>6, <2>8, <2>9, <2>10, <2>11, DurationWithin DEF ParseDuration, Lasting
  <2>13. d \in Int /\ 1 <= d /\ d <= LastDay(k)
    <3>1. d \in 1 .. LastDay(k)
      BY <2>1 DEF Edges, Days
    <3>2. LastDay(k) \in Int
      BY LastDays
    <3> QED
      BY <3>1, <3>2
  <2>14. ThresholdsInOrder(k, d, Lasting(M, W, s))
    <3>1. PICK e \in Int : e = d /\ 1 <= e /\ e <= LastDay(k)
      BY <2>13
    <3>2. ThresholdsInOrder(k, e, Lasting(M, W, s))
      BY <2>6, <2>11, <3>1, ThresholdsAdvance
    <3> QED
      BY <3>1, <3>2
  <2>15. ThresholdsInOrder(k, d, ParseDuration(text))
    BY <2>12, <2>14
  <2> QED
    BY <2>1, <2>15 DEF ThresholdsInOrder, MidnightOf, Midnight
<1> QED
  BY <1>1, WalkInvariant, PTL

-----------------------------------------------------------------------------
(* Stamps.                                                                 *)

(* Which days have a year of four digits. *)
FourDigitYears == 0 .. 9999

IsPresentable(N) == DayNumber(0, 1, 1) <= N /\ N < DayNumber(10000, 1, 1)

LEMMA ReadableIs ==
    ASSUME NEW s
    PROVE  IsReadable(s) <=> /\ s.year \in FourDigitYears
                             /\ s.month \in 1 .. 12
                             /\ s.day \in 1 .. DaysInMonth(s.year, s.month)
                             /\ s.tick \in 0 .. DayLength - 1
                             /\ s.offset \in (1 - DayLength) .. (DayLength - 1)
BY DEF IsReadable, FourDigitYears

LEMMA FourDigits ==
    ASSUME NEW y \in Int, NEW m \in 1 .. 12, NEW d \in 1 .. DaysInMonth(y, m)
    PROVE  y \in FourDigitYears <=> IsPresentable(DayNumber(y, m, d))
<1>1. PICK k \in Int : k = MonthOf(y, m)
  BY MonthOfType, m \in Int
<1>2. PICK l \in Int : l = k + 1
  OBVIOUS
<1>3. LastDay(k) = DaysInMonth(y, m)
  BY <1>1, MonthOfParts
<1>4. d \in Int /\ 1 <= d /\ d <= LastDay(k) /\ LastDay(k) \in Int
      /\ MonthStart(k) \in Int /\ MonthStart(l) = MonthStart(k) + LastDay(k)
  BY <1>2, <1>3, LastDays, MonthStartType
<1>5. PICK N \in Int : N = DayNumber(y, m, d) /\ MonthStart(k) <= N /\ N < MonthStart(l)
  BY <1>1, <1>4 DEF DayNumber
<1>6. /\ DayNumber(0, 1, 1) = MonthStart(0) /\ DayNumber(10000, 1, 1) = MonthStart(120000)
      /\ MonthStart(0) \in Int /\ MonthStart(120000) \in Int
  <2>1. MonthOf(0, 1) = 0 /\ MonthOf(10000, 1) = 120000
    BY DEF MonthOf
  <2>2. MonthStart(0) \in Int /\ MonthStart(120000) \in Int
    BY MonthStartType, 0 \in Int, 120000 \in Int
  <2> QED
    BY <2>1, <2>2 DEF DayNumber
<1>7. y \in FourDigitYears <=> 0 <= k /\ l <= 120000
  BY <1>1, <1>2 DEF MonthOf, FourDigitYears
<1>8. 0 <= k \/ l <= 0
  BY <1>2
<1>9. l <= 120000 \/ 120000 <= k
  BY <1>2
<1>10. /\ 0 <= k => MonthStart(0) <= MonthStart(k)
       /\ l <= 0 => MonthStart(l) <= MonthStart(0)
       /\ l <= 120000 => MonthStart(l) <= MonthStart(120000)
       /\ 120000 <= k => MonthStart(120000) <= MonthStart(k)
  <2>1. ASSUME NEW c \in Int
        PROVE  /\ c <= k => MonthStart(c) <= MonthStart(k)
               /\ l <= c => MonthStart(l) <= MonthStart(c)
    BY MonthsAdvance
  <2> QED
    BY <2>1, 0 \in Int, 120000 \in Int
<1> QED
  BY <1>4, <1>5, <1>6, <1>7, <1>8, <1>9, <1>10 DEF IsPresentable

(* The instant t of a tick of the day N is shown as a date whose number is  *)
(* N, which reads back as t.                                               *)
LEMMA ShownIs ==
    ASSUME NEW N \in Int, Fits(N), NEW r \in Int, 0 <= r, r < DayLength, NEW t,
           t = N * DayLength + r
    PROVE  /\ IsReadable(Shown(t)) <=> IsPresentable(N)
           /\ InstantOf(Shown(t)) = t
<1>1. PICK y \in Int, m \in 1 .. 12 : \E d \in 1 .. DaysInMonth(y, m) : N = DayNumber(y, m, d)
  BY EveryDayIsCivil
<1>2. PICK d \in 1 .. DaysInMonth(y, m) : N = DayNumber(y, m, d)
  BY <1>1
<1>3. t \div DayLength = N /\ t % DayLength = r
  BY DivideFits, DayLengthAssumption
<1>4. CivilFromDays(N) = Date(y, m, d)
  BY <1>2, CivilOfDayNumber
<1>5. Shown(t) = Stamp(Date(y, m, d), r, 0)
  BY <1>3, <1>4 DEF Shown
<1>6. d \in Int
  BY DaysInMonthType
<1>7. DaysFromCivil(y, m, d) = N
  BY <1>2, <1>6, Exact DEF Fits
<1>8. InstantOf(Shown(t)) = t
  <2>1. InstantOf(Shown(t)) = N * DayLength + r - 0
    BY <1>5, <1>7 DEF InstantOf, Stamp, Date
  <2>2. N * DayLength \in Int
    BY DEF Fits
  <2> QED
    BY <2>1, <2>2
<1>9. IsReadable(Shown(t)) <=> y \in FourDigitYears
  <2>1. r \in 0 .. DayLength - 1 /\ 0 \in (1 - DayLength) .. (DayLength - 1)
    BY FactsOfDayLength
  <2>2. /\ Shown(t).year = y /\ Shown(t).month = m /\ Shown(t).day = d
        /\ Shown(t).tick = r /\ Shown(t).offset = 0
    BY <1>5 DEF Stamp, Date
  <2> QED
    BY <2>1, <2>2, ReadableIs
<1>10. y \in FourDigitYears <=> IsPresentable(N)
  <2>1. y \in FourDigitYears <=> IsPresentable(DayNumber(y, m, d))
    BY FourDigits
  <2> QED
    BY <1>2, <2>1
<1> QED
  BY <1>8, <1>9, <1>10

LEMMA DayAndTick ==
    ASSUME NEW t \in Int
    PROVE  \E N \in Int, r \in Int :
               0 <= r /\ r < DayLength /\ t = N * DayLength + r
<1>1. /\ t \div DayLength \in Int /\ t % DayLength \in 0 .. DayLength - 1
      /\ t = (t \div DayLength) * DayLength + (t % DayLength)
  BY Divide, DayLengthAssumption
<1>2. t % DayLength \in Int /\ 0 <= t % DayLength /\ t % DayLength < DayLength
  BY <1>1, FactsOfDayLength
<1> QED
  BY <1>1, <1>2

(* A zone and a tick move an instant by a day at most. *)
LEMMA NextDay ==
    ASSUME NEW D \in Int, NEW N \in Int, NEW r \in Int, 0 <= r, r < DayLength,
           NEW u \in Int, 1 - DayLength <= u, u < 2 * DayLength - 1,
           N * DayLength + r = D * DayLength + u
    PROVE  D - 1 <= N /\ N <= D + 1
<1>1. D * DayLength \in Int /\ N * DayLength \in Int
  BY FactsOfDayLength
<1>2. ASSUME N >= D + 2
      PROVE  FALSE
  <2>1. (D + 2) * DayLength \in Int /\ (D + 2) * DayLength <= N * DayLength
    BY <1>2, FactsOfDayLength, TimesGrows, D + 2 \in Int
  <2>2. (D + 2) * DayLength = D * DayLength + 2 * DayLength
    BY FactsOfDayLength
  <2> QED
    BY <1>1, <2>1, <2>2, FactsOfDayLength
<1>3. ASSUME N <= D - 2
      PROVE  FALSE
  <2>1. (D - 2) * DayLength \in Int /\ N * DayLength <= (D - 2) * DayLength
    BY <1>3, FactsOfDayLength, TimesGrows, D - 2 \in Int
  <2>2. (D - 2) * DayLength = D * DayLength - 2 * DayLength
    BY FactsOfDayLength
  <2> QED
    BY <1>1, <2>1, <2>2, FactsOfDayLength
<1> QED
  BY <1>2, <1>3

LEMMA PresentableDays ==
    ASSUME NEW N \in Int, NEW r \in Int, 0 <= r, r < DayLength, NEW a \in Int
    PROVE  a * DayLength \in Int /\ (a <= N <=> a * DayLength <= N * DayLength + r)
<1>1. a * DayLength \in Int /\ N * DayLength \in Int
  BY FactsOfDayLength
<1>2. CASE a <= N
  <2>1. a * DayLength <= N * DayLength
    BY <1>2, FactsOfDayLength, TimesGrows
  <2> QED
    BY <1>1, <1>2, <2>1
<1>3. CASE N < a
  <2>1. (N + 1) * DayLength \in Int /\ (N + 1) * DayLength <= a * DayLength
    BY <1>3, FactsOfDayLength, TimesGrows, N + 1 \in Int, N + 1 <= a
  <2>2. (N + 1) * DayLength = N * DayLength + DayLength
    BY FactsOfDayLength
  <2> QED
    BY <1>1, <1>3, <2>1, <2>2, FactsOfDayLength
<1> QED
  BY <1>1, <1>2, <1>3

(* The same of the stamp of a day whose number is within reach. *)
LEMMA StampsReadBack ==
    ASSUME NEW y \in Int, NEW m \in 1 .. 12, NEW d \in 1 .. DaysInMonth(y, m),
           NEW D \in Int, DaysFromCivil(y, m, d) = D,
           NEW R \in Nat, R * DayLength <= Half, -R + 200 <= D, D <= R - 200,
           NEW tick \in 0 .. DayLength - 1, NEW offset \in (1 - DayLength) .. (DayLength - 1),
           NEW a \in Int, DaysFromCivil(0, 1, 1) = a, DayNumber(0, 1, 1) = a,
           NEW b \in Int, DaysFromCivil(10000, 1, 1) = b, DayNumber(10000, 1, 1) = b,
           NEW s, s = Stamp(Date(y, m, d), tick, offset)
    PROVE  /\ IsReadable(Shown(InstantOf(s))) <=> InstantOf(s) \in Presentable
           /\ InstantOf(Shown(InstantOf(s))) = InstantOf(s)
<1>1. InstantOf(s) = D * DayLength + tick - offset
  BY DEF InstantOf, Stamp, Date
<1>2. /\ tick \in Int /\ offset \in Int /\ tick - offset \in Int
      /\ 1 - DayLength <= tick - offset /\ tick - offset < 2 * DayLength - 1
  BY FactsOfDayLength
<1>3. PICK u \in Int : u = tick - offset
  BY <1>2
<1>4. PICK t \in Int : t = D * DayLength + u
  BY FactsOfDayLength
<1>5. InstantOf(s) = t
  <2>1. D * DayLength \in Int
    BY FactsOfDayLength
  <2> QED
    BY <1>1, <1>2, <1>3, <1>4, <2>1
<1>6. PICK N \in Int, r \in Int : 0 <= r /\ r < DayLength /\ t = N * DayLength + r
  BY DayAndTick
<1>7. N * DayLength + r = D * DayLength + u
  BY <1>4, <1>6
<1>8. D - 1 <= N /\ N <= D + 1
  BY <1>2, <1>3, <1>6, <1>7, NextDay
<1>9. Fits(N)
  <2>1. -R <= N /\ N < R
    BY <1>8
  <2> QED
    BY <2>1, DayFits
<1>10. (IsReadable(Shown(t)) <=> IsPresentable(N)) /\ InstantOf(Shown(t)) = t
  BY <1>6, <1>9, ShownIs
<1>11. t \in Presentable <=> IsPresentable(N)
  <2>1. /\ a * DayLength \in Int /\ (a <= N <=> a * DayLength <= t)
        /\ b * DayLength \in Int /\ (b <= N <=> b * DayLength <= t)
    BY <1>6, PresentableDays
  <2>2. Presentable = a * DayLength .. b * DayLength - 1
    BY DEF Presentable
  <2>3. t \in Presentable <=> a <= N /\ N < b
    BY <2>1, <2>2
  <2> QED
    BY <2>3 DEF IsPresentable
<1> QED
  BY <1>5, <1>10, <1>11

LEMMA FirstAndLast ==
    ASSUME NEW y \in {0, 10000}
    PROVE  DayNumber(y, 1, 1) \in Int /\ DaysFromCivil(y, 1, 1) = DayNumber(y, 1, 1)
<1>1. y \in Int /\ Reach(y) * DayLength <= Half
  BY ReachAssumption
<1>2. IsReached(y, 1, 1)
  BY <1>1, ReachBounds, 1 \in 1 .. 12, 1 \in 1 .. 31
<1>3. MonthOf(y, 1) \in Int /\ DayNumber(y, 1, 1) \in Int
  <2>1. MonthOf(y, 1) \in Int
    BY <1>1, MonthOfType, 1 \in Int
  <2> QED
    BY <2>1, MonthStartType DEF DayNumber
<1>4. /\ Reach(y) \in Nat /\ -Reach(y) <= DayNumber(y, 1, 1)
      /\ DayNumber(y, 1, 1) < Reach(y)
  BY <1>2, <1>3 DEF IsReached
<1>5. Fits(DayNumber(y, 1, 1))
  BY <1>1, <1>3, <1>4, DayFits
<1> QED
  BY <1>1, <1>3, <1>5, Exact, 1 \in 1 .. 12, 1 \in Int DEF Fits

(* Timestamp::parse and Display: an accepted timestamp of a walked year is   *)
(* shown as one that is the same instant, and that can be read exactly when *)
(* its year in UTC has four digits.                                        *)
THEOREM ShownStampsReadBack == WalkSpec => []PresentableStampsReadBack
<1>1. WalkInv => PresentableStampsReadBack
  <2> SUFFICES ASSUME WalkInv, NEW s \in Stamps, IsReadable(s)
               PROVE  /\ IsReadable(Shown(InstantOf(s))) <=> InstantOf(s) \in Presentable
                      /\ InstantOf(Shown(InstantOf(s))) = InstantOf(s)
    BY DEF PresentableStampsReadBack
  <2>1. PICK d \in {1, DaysInMonth(year, month)}, tick \in {0, DayLength - 1}, offset \in Offset :
            s = Stamp(Date(year, month, d), tick, offset)
    BY DEF Stamps
  <2>2. year \in Int /\ month \in 1 .. 12 /\ month \in Int
    BY YearAssumption DEF WalkInv
  <2>3. /\ DaysInMonth(year, month) \in Int /\ 28 <= DaysInMonth(year, month)
        /\ DaysInMonth(year, month) <= 31
    BY <2>2, DaysInMonthType
  <2>4. d \in 1 .. DaysInMonth(year, month) /\ d \in 1 .. 31 /\ d \in Int
    BY <2>3
  <2>5. tick \in 0 .. DayLength - 1 /\ offset \in (1 - DayLength) .. (DayLength - 1)
    <3>1. s.tick = tick /\ s.offset = offset
      BY <2>1 DEF Stamp
    <3> QED
      BY <3>1, ReadableIs
  <2>6. /\ Reach(year) * DayLength <= Half
        /\ IsReached(year, month, d) /\ Fits(DayNumber(year, month, d))
    BY <2>4, MonthFits
  <2>7. DayNumber(year, month, d) \in Int
    <3>1. MonthStart(MonthOf(year, month)) \in Int
      BY <2>2, MonthOfType, MonthStartType
    <3> QED
      BY <2>4, <3>1 DEF DayNumber
  <2>8. PICK D \in Int : D = DayNumber(year, month, d)
    BY <2>7
  <2>9. DaysFromCivil(year, month, d) = D
    BY <2>2, <2>4, <2>6, <2>8, Exact DEF Fits
  <2>10. Reach(year) \in Nat /\ -Reach(year) + 200 <= D /\ D <= Reach(year) - 200
    BY <2>6, <2>8 DEF IsReached
  <2>11. PICK R \in Nat : R = Reach(year)
    BY <2>10
  <2>12. R * DayLength <= Half /\ -R + 200 <= D /\ D <= R - 200
    BY <2>6, <2>10, <2>11
  <2>13. PICK a \in Int : DaysFromCivil(0, 1, 1) = a /\ DayNumber(0, 1, 1) = a
    BY FirstAndLast, 0 \in {0, 10000}
  <2>14. PICK b \in Int : DaysFromCivil(10000, 1, 1) = b /\ DayNumber(10000, 1, 1) = b
    BY FirstAndLast, 10000 \in {0, 10000}
  <2> QED
    BY <2>1, <2>2, <2>4, <2>5, <2>9, <2>12, <2>13, <2>14, StampsReadBack
<1> QED
  BY <1>1, WalkInvariant, PTL
=============================================================================

---------------------------- MODULE SeriesProofs ----------------------------
(***************************************************************************)
(* Proofs about SeriesEdits and the rules of Recurrence below it, for every *)
(* pattern, end, first day and moment that the calendar has: a series that  *)
(* is split keeps its dates, and the first import of a recurring event      *)
(* keeps exactly what is not over.                                         *)
(*                                                                         *)
(* An expansion is computed from a window, and from the day the series is   *)
(* anchored at.  ExpansionIs relates every window to the dates the pattern  *)
(* has at all (Occurs) and what the end leaves of them (Leaves); TailIs and *)
(* TailLeaves say that a rule anchored anew at one of its dates goes on as   *)
(* it was.  Both theorems rest on these three.  The inductive invariant of  *)
(* the splits orders the series in time: of two that recur, one ends before *)
(* the other begins.  The import's is that the jump finds the first date    *)
(* with its index for every pattern (JumpFinds), without listing the dates. *)
(***************************************************************************)
EXTENDS SeriesEdits, FiniteSetTheorems, TLAPS

\* A set of numbers that has any has a least one.
LEMMA LeastNumber ==
    ASSUME NEW T, T \subseteq Nat, T # {}
    PROVE  \E t \in T : \A u \in T : t <= u
<1>1. PICK n \in T : TRUE
  OBVIOUS
<1>2. PICK U : U = {s \in SUBSET (0..n) : \E t \in T : s = 0..t}
  OBVIOUS
<1>3. IsFiniteSet(0..n) /\ U \in SUBSET SUBSET (0..n) /\ 0..n \in U
  BY <1>1, <1>2, FS_Interval
<1>4. FiniteSubsetsOf(0..n) = SUBSET (0..n)
  BY <1>3, FS_FiniteSubsetsOfFinite
<1>5. IsWellFoundedOn(StrictSubsetOrdering(0..n), SUBSET (0..n))
  BY <1>4, FS_StrictSubsetOrderingWellFounded
<1>6. U # {}
  BY <1>3
<1>7. PICK s \in U : \A r \in U : ~ (<<r, s>> \in StrictSubsetOrdering(0..n))
  BY <1>3, <1>5, <1>6, WFMin
<1>8. \A r \in U : r \subseteq s => r = s
  BY <1>3, <1>7 DEF StrictSubsetOrdering
<1>9. PICK t \in T : s = 0..t /\ s \in SUBSET (0..n)
  BY <1>2, <1>7
<1>10. ASSUME NEW u \in T, ~(t <= u) PROVE FALSE
  <2>1. u \in Nat /\ t \in Nat /\ n \in Nat /\ u < t
    BY <1>10
  <2>2. 0..u \subseteq s /\ 0..u \in U
    BY <1>2, <1>9, <2>1
  <2>3. 0..u = 0..t
    BY <1>8, <1>9, <2>2
  <2>4. t \in 0..u
    BY <2>1, <2>3
  <2> QED
    BY <2>1, <2>4
<1> QED
  BY <1>10

(***************************************************************************)
(* The calendar.                                                           *)
(***************************************************************************)
\* Months have 28 to 31 days.
LEMMA LengthIs ==
    ASSUME NEW m \in Nat
    PROVE  MonthLength(m) \in 28..31
BY DEF MonthLength

\* Days before a month, counted by years.
DaysBefore(m) ==
    LET year == m \div 12
        in == m % 12
    IN  365 * year + ((year + 2) \div 4)
          + (CASE in = 0 -> 0 [] in = 1 -> 31 [] in = 2 -> 59 [] in = 3 -> 90 [] in = 4 -> 120
               [] in = 5 -> 151 [] in = 6 -> 181 [] in = 7 -> 212 [] in = 8 -> 243
               [] in = 9 -> 273 [] in = 10 -> 304 [] in = 11 -> 334)
          + (IF in >= 2 /\ year % 4 = 1 THEN 1 ELSE 0)

\* The days counted by years grow by the months.
LEMMA DaysBeforeGrow ==
    ASSUME NEW m \in Months, m # 0
    PROVE  DaysBefore(m) = DaysBefore(m - 1) + MonthLength(m - 1) /\ DaysBefore(m) \in Nat
<1>1. PICK y \in 0..11, k \in 0..11 : m = 12 * y + k
  <2>1. m \div 12 \in 0..11 /\ m % 12 \in 0..11 /\ m = 12 * (m \div 12) + (m % 12)
    BY DEF Months
  <2> QED
    BY <2>1
<1>2. m \div 12 = y /\ m % 12 = k
  BY <1>1
<1>3. CASE k = 0
  <2>1. y \in 1..11 /\ (m - 1) \div 12 = y - 1 /\ (m - 1) % 12 = 11
    BY <1>1, <1>3 DEF Months
  <2>2. ((y + 2) \div 4) = ((y + 1) \div 4) + (IF (y - 1) % 4 = 1 THEN 1 ELSE 0)
    BY <2>1
  <2>3. MonthLength(m - 1) = 31
    BY <2>1 DEF MonthLength
  <2> QED
    BY <1>2, <1>3, <2>1, <2>2, <2>3 DEF DaysBefore
<1>4. CASE k # 0
  <2>1. (m - 1) \div 12 = y /\ (m - 1) % 12 = k - 1 /\ k - 1 \in 0..10
    BY <1>1, <1>4
  <2> QED
    BY <1>2, <1>4, <2>1 DEF DaysBefore, MonthLength, LeapYear
<1> QED
  BY <1>3, <1>4

\* The first days of the months are the sums of the months before them.
LEMMA StartsAre ==
    /\ MonthStarts[0] = 0
    /\ \A m \in Months : m # 0 => MonthStarts[m] = MonthStarts[m - 1] + MonthLength(m - 1)
    /\ \A m \in Months : MonthStarts[m] \in Nat
<1> DEFINE Sums(f) == f = [m \in Months |-> IF m = 0 THEN 0 ELSE f[m - 1] + MonthLength(m - 1)]
<1>1. PICK f : f = [m \in Months |-> DaysBefore(m)]
  OBVIOUS
<1>2. DaysBefore(0) = 0
  BY DEF DaysBefore
<1>3. \A m \in Months : m # 0 => m - 1 \in Months
  BY DEF Months
<1>4. \A m \in Months : f[m] = IF m = 0 THEN 0 ELSE f[m - 1] + MonthLength(m - 1)
  BY <1>1, <1>2, <1>3, DaysBeforeGrow
<1>5. Sums(f)
  BY <1>1, <1>4
<1>6. Sums(MonthStarts)
  <2>1. \E g : Sums(g)
    BY <1>5
  <2>2. Sums(CHOOSE g : Sums(g))
    BY <2>1
  <2> QED
    BY <2>2 DEF MonthStarts
<1>7. \A m \in Months : MonthStarts[m] = IF m = 0 THEN 0 ELSE MonthStarts[m - 1] + MonthLength(m - 1)
  BY <1>6
<1>8. ASSUME NEW m \in Months, MonthStarts[m] \notin Nat PROVE FALSE
  <2> DEFINE T == {n \in Months : MonthStarts[n] \notin Nat}
  <2>1. PICK n \in T : \A u \in T : n <= u
    <3>1. T \subseteq Nat /\ T # {}
      BY <1>8 DEF Months
    <3> QED
      BY <3>1, LeastNumber
  <2>2. n \in Months /\ n \in 0..143
    BY <2>1 DEF Months
  <2>3. n # 0
    BY <1>7, <2>1, <2>2
  <2>4. n - 1 \in Months /\ n - 1 \in Nat /\ ~(n <= n - 1)
    BY <2>2, <2>3 DEF Months
  <2>5. MonthStarts[n - 1] \in Nat
    BY <2>1, <2>4
  <2>6. MonthLength(n - 1) \in 28..31
    BY <2>4, LengthIs
  <2> HIDE DEF T
  <2> QED
    BY <1>7, <2>1, <2>2, <2>3, <2>5, <2>6 DEF T
<1> QED
  BY <1>3, <1>7, <1>8 DEF Months

\* A later month begins after all days of those before it.
LEMMA StartsGrow ==
    ASSUME NEW m \in Months, NEW n \in Months, m < n
    PROVE  MonthStarts[m] + MonthLength(m) + 28 * (n - m - 1) <= MonthStarts[n]
<1> DEFINE Fits(k) == MonthStarts[m] + MonthLength(m) + 28 * (k - m - 1) <= MonthStarts[k]
           T == {k \in m + 1..n : ~Fits(k)}
<1>1. ASSUME ~Fits(n) PROVE FALSE
  <2>1. T \subseteq Nat /\ T # {}
    BY <1>1 DEF Months
  <2>2. PICK k \in T : \A u \in T : k <= u
    BY <2>1, LeastNumber
  <2>3. k \in Months /\ k \in m + 1..n /\ ~Fits(k) /\ k - 1 \in Months /\ k # 0
    BY <2>2 DEF Months
  <2>4. /\ MonthStarts[k] = MonthStarts[k - 1] + MonthLength(k - 1)
        /\ MonthStarts[k - 1] \in Nat /\ MonthStarts[m] \in Nat
        /\ MonthLength(k - 1) \in 28..31 /\ MonthLength(m) \in 28..31
    BY <2>3, StartsAre, LengthIs DEF Months
  <2>5. CASE k = m + 1
    <3>1. k - 1 = m /\ k - m - 1 = 0
      BY <2>5 DEF Months
    <3> QED
      BY <2>3, <2>4, <3>1
  <2>6. CASE k # m + 1
    <3>1. k - 1 \in m + 1..n /\ ~(k <= k - 1)
      BY <2>3, <2>6 DEF Months
    <3>2. Fits(k - 1)
      BY <2>2, <3>1
    <3>3. (k - 1) - m - 1 = k - m - 2 /\ k \in Int /\ m \in Int
      BY <2>3 DEF Months
    <3> QED
      BY <2>3, <2>4, <3>2, <3>3
  <2> QED
    BY <2>5, <2>6
<1> QED
  BY <1>1

\* A day of the calendar.
LEMMA CalendarIs ==
    \E last \in Int : CalendarDays = 0..last
<1>1. 143 \in Months /\ 143 \in Nat
  BY DEF Months
<1>2. MonthStarts[143] \in Nat /\ MonthLength(143) \in 28..31
  BY <1>1, StartsAre, LengthIs
<1>3. MonthStarts[143] + MonthLength(143) - 1 \in Int
  BY <1>2
<1> QED
  BY <1>3 DEF CalendarDays

InMonth(month, date) ==
    month \in Months /\ MonthStarts[month] <= date /\ date < MonthStarts[month] + MonthLength(month)

\* Months do not overlap, and are in order.
LEMMA MonthsApart ==
    ASSUME NEW d \in Int, NEW e \in Int, NEW m, NEW n, InMonth(m, d), InMonth(n, e)
    PROVE  /\ m < n => d + 28 * (n - m - 1) < e
           /\ d <= e => m <= n
           /\ d = e => m = n
<1>1. /\ m \in Months /\ n \in Months /\ m \in Int /\ n \in Int
      /\ MonthStarts[m] \in Nat /\ MonthStarts[n] \in Nat
      /\ MonthLength(m) \in 28..31 /\ MonthLength(n) \in 28..31
  <2>1. m \in Months /\ n \in Months
    BY DEF InMonth
  <2>2. m \in Nat /\ n \in Nat
    BY <2>1 DEF Months
  <2> QED
    BY <2>1, <2>2, StartsAre, LengthIs
<1>2. m < n => d + 28 * (n - m - 1) < e
  BY <1>1, StartsGrow DEF InMonth
<1>3. n < m => e + 28 * (m - n - 1) < d
  BY <1>1, StartsGrow DEF InMonth
<1> QED
  BY <1>1, <1>2, <1>3

\* Every day of the calendar is in a month, which MonthOf gives.
LEMMA MonthOfIs ==
    ASSUME NEW d \in CalendarDays
    PROVE  InMonth(MonthOf(d), d)
<1> DEFINE T == {m \in Months : d < MonthStarts[m] + MonthLength(m)}
<1>1. 143 \in Months /\ MonthStarts[143] \in Nat /\ MonthLength(143) \in 28..31
  BY StartsAre, LengthIs DEF Months
<1>2. d \in Nat /\ 143 \in T
  BY <1>1 DEF CalendarDays
<1>3. T \subseteq Nat
  BY DEF Months
<1>4. PICK m \in T : \A u \in T : m <= u
  BY <1>2, <1>3, LeastNumber
<1>5. m \in Months /\ d < MonthStarts[m] + MonthLength(m)
  BY <1>4
<1>6. MonthStarts[m] <= d
  <2>1. CASE m = 0
    BY <1>2, <2>1, StartsAre
  <2>2. CASE m # 0
    <3>1. m - 1 \in Months /\ ~(m <= m - 1)
      BY <1>5, <2>2 DEF Months
    <3>2. ~(d < MonthStarts[m - 1] + MonthLength(m - 1))
      BY <1>4, <3>1
    <3>3. /\ MonthStarts[m] = MonthStarts[m - 1] + MonthLength(m - 1)
          /\ MonthStarts[m] \in Nat
      BY <1>5, <2>2, StartsAre
    <3> QED
      BY <1>2, <3>2, <3>3
  <2> QED
    BY <2>1, <2>2
<1>7. \E n \in Months : MonthStarts[n] <= d /\ d < MonthStarts[n] + MonthLength(n)
  BY <1>5, <1>6
<1> QED
  BY <1>7 DEF MonthOf, InMonth

\* A date is in one month only.
LEMMA MonthOfUnique ==
    ASSUME NEW d \in Int, NEW m, InMonth(m, d)
    PROVE  d \in CalendarDays /\ MonthOf(d) = m
<1>1. d \in CalendarDays
  <2>1. /\ m \in Months /\ 143 \in Months /\ MonthStarts[m] \in Nat /\ MonthStarts[143] \in Nat
        /\ MonthLength(m) \in 28..31 /\ MonthLength(143) \in 28..31
    BY StartsAre, LengthIs DEF InMonth, Months
  <2>2. CASE m = 143
    BY <2>1, <2>2 DEF InMonth, CalendarDays
  <2>3. CASE m # 143
    <3>1. m < 143 /\ m \in Int
      BY <2>1, <2>3 DEF Months
    <3>2. MonthStarts[m] + MonthLength(m) + 28 * (143 - m - 1) <= MonthStarts[143]
      BY <2>1, <3>1, StartsGrow
    <3> QED
      BY <2>1, <3>1, <3>2 DEF InMonth, CalendarDays
  <2> QED
    BY <2>2, <2>3
<1> QED
  BY <1>1, MonthOfIs, MonthsApart DEF CalendarDays

(***************************************************************************)
(* The steps of a pattern.                                                 *)
(***************************************************************************)
ByDays(p) == p.type \in {"daily", "weekly"}

ByMonth(p) == p.type \in {"monthly-date", "monthly-ordinal"}

ValidAnchor(a, p) == a \in Int /\ (~ByDays(p) => a \in CalendarDays)

\* Months a step of a monthly or yearly pattern takes.
Every(p) == IF ByMonth(p) THEN p.interval ELSE 12 * p.interval

\* What a valid pattern has.
LEMMA PatternIs ==
    ASSUME NEW p, ValidPattern(p)
    PROVE  /\ p.interval \in Nat \ {0}
           /\ \/ p.type = "daily"
              \/ p.type = "weekly" /\ p.weekdays \in (SUBSET (0..6)) \ {{}} /\ p.weekStartsOn \in 0..6
              \/ p.type = "monthly-date" /\ p.day \in 1..31
              \/ p.type = "yearly-date" /\ p.day \in 1..31 /\ p.month \in 0..11
              \/ p.type = "monthly-ordinal" /\ p.ordinal \in {-1, 1, 2, 3, 4} /\ p.weekday \in 0..6
              \/ p.type = "yearly-ordinal" /\ p.ordinal \in {-1, 1, 2, 3, 4} /\ p.weekday \in 0..6
                   /\ p.month \in 0..11
<1>1. p.type \in {"daily", "weekly", "monthly-date", "yearly-date", "monthly-ordinal", "yearly-ordinal"}
  BY DEF ValidPattern
<1> QED
  BY <1>1 DEF ValidPattern

\* A step takes some months.
LEMMA EveryIs ==
    ASSUME NEW p, ValidPattern(p)
    PROVE  Every(p) \in Nat \ {0}
BY PatternIs DEF Every

\* The month of a step.
LEMMA StepMonthIs ==
    ASSUME NEW p, ValidPattern(p), ~ByDays(p), NEW a \in CalendarDays, NEW k \in Nat
    PROVE  /\ StepMonth(a, p, 0) \in Nat /\ k * Every(p) \in Nat
           /\ StepMonth(a, p, k) = StepMonth(a, p, 0) + k * Every(p)
           /\ ByMonth(p) => StepMonth(a, p, 0) = MonthOf(a)
           /\ ~ByMonth(p) => StepMonth(a, p, 0) = 12 * (MonthOf(a) \div 12) + p.month
<1>1. MonthOf(a) \in Nat
  BY MonthOfIs DEF InMonth, Months
<1>2. p.interval \in Nat \ {0} /\ Every(p) \in Nat \ {0}
  BY PatternIs, EveryIs
<1>3. CASE ByMonth(p)
  BY <1>1, <1>2, <1>3 DEF StepMonth, ByMonth, Every
<1>4. CASE ~ByMonth(p)
  <2>1. p.month \in 0..11
    BY <1>4, PatternIs DEF ByDays, ByMonth
  <2>2. PICK y : y = MonthOf(a) \div 12
    OBVIOUS
  <2>3. y \in Nat
    BY <1>1, <2>2
  <2>4. \A j \in Nat : StepMonth(a, p, j) = 12 * (y + j * p.interval) + p.month
    BY <1>4, <2>2 DEF StepMonth, ByMonth
  <2>5. StepMonth(a, p, 0) = 12 * y + p.month
    BY <1>2, <2>3, <2>4
  <2>6. k * p.interval \in Nat /\ k * (12 * p.interval) = 12 * (k * p.interval)
    BY <1>2
  <2>7. StepMonth(a, p, k) = 12 * (y + k * p.interval) + p.month
    BY <2>4
  <2> HIDE DEF StepMonth
  <2> QED
    BY <1>2, <1>4, <2>1, <2>2, <2>3, <2>5, <2>6, <2>7 DEF Every
<1> QED
  BY <1>3, <1>4

\* A date of a monthly or yearly pattern's step lies in its month, alone.
LEMMA StepInMonth ==
    ASSUME NEW p, ValidPattern(p), ~ByDays(p), NEW a \in CalendarDays, NEW k \in Nat,
           StepMonth(a, p, k) \in Months
    PROVE  /\ \A d \in StepDates(a, p, k) : d \in Int /\ InMonth(StepMonth(a, p, k), d)
           /\ \A d, e \in StepDates(a, p, k) : d = e
           /\ p.type \in {"monthly-ordinal", "yearly-ordinal"} => StepDates(a, p, k) # {}
<1>1. PICK m : m = StepMonth(a, p, k)
  OBVIOUS
<1>2. m \in Months /\ MonthStarts[m] \in Nat /\ MonthLength(m) \in 28..31
  BY <1>1, StartsAre, LengthIs DEF Months
<1>3. CASE p.type \in {"monthly-date", "yearly-date"}
  <2>1. StepDates(a, p, k) = DateIn(m, p.day) /\ p.day \in 1..31
    BY <1>1, <1>3, PatternIs DEF StepDates
  <2> QED
    BY <1>1, <1>2, <1>3, <2>1 DEF DateIn, InMonth
<1>4. CASE p.type \in {"monthly-ordinal", "yearly-ordinal"}
  <2>1. /\ StepDates(a, p, k) = OrdinalIn(m, p.ordinal, p.weekday)
        /\ p.ordinal \in {-1, 1, 2, 3, 4} /\ p.weekday \in 0..6
    BY <1>1, <1>4, PatternIs DEF StepDates
  <2>2. PICK f : f = MonthStarts[m]
    OBVIOUS
  <2>3. PICK l : l = f + MonthLength(m) - 1
    OBVIOUS
  <2>4. CASE p.ordinal = -1
    <3>1. OrdinalIn(m, p.ordinal, p.weekday) = {l - ((Weekday(l) + 7 - p.weekday) % 7)}
      BY <2>2, <2>3, <2>4 DEF OrdinalIn
    <3>2. (Weekday(l) + 7 - p.weekday) % 7 \in 0..6 /\ l \in Nat
      BY <1>2, <2>1, <2>2, <2>3 DEF Weekday
    <3> QED
      BY <1>1, <1>2, <2>1, <2>2, <2>3, <3>1, <3>2 DEF InMonth
  <2>5. CASE p.ordinal # -1
    <3>1. OrdinalIn(m, p.ordinal, p.weekday)
            = {f + ((p.weekday + 7 - Weekday(f)) % 7) + 7 * (p.ordinal - 1)}
      BY <2>2, <2>5 DEF OrdinalIn
    <3>2. (p.weekday + 7 - Weekday(f)) % 7 \in 0..6 /\ f \in Nat
      BY <1>2, <2>1, <2>2 DEF Weekday
    <3>3. 7 * (p.ordinal - 1) \in 0..21
      BY <2>1, <2>5
    <3> QED
      BY <1>1, <1>2, <2>1, <2>2, <3>1, <3>2, <3>3 DEF InMonth
  <2> QED
    BY <2>4, <2>5
<1> QED
  BY <1>3, <1>4, PatternIs DEF ByDays

\* The week of a day.
LEMMA WeekStartIs ==
    ASSUME NEW p, ValidPattern(p), p.type = "weekly", NEW a \in Int
    PROVE  /\ WeekStart(a, p) \in Int /\ WeekStart(a, p) <= a /\ a <= WeekStart(a, p) + 6
           /\ WeekStart(a, p) % 7 = p.weekStartsOn
           /\ Offsets(p) \subseteq 0..6 /\ Offsets(p) # {}
<1>1. p.weekdays \in (SUBSET (0..6)) \ {{}} /\ p.weekStartsOn \in 0..6
  BY PatternIs
<1>2. PICK w \in 0..6 : w = p.weekStartsOn
  BY <1>1
<1>3. Offsets(p) = {(weekday + 7 - w) % 7 : weekday \in p.weekdays}
  BY <1>2 DEF Offsets
<1>4. WeekStart(a, p) = a - (((a % 7) + 7 - w) % 7)
  BY <1>2 DEF WeekStart, Weekday
<1>5. PICK q \in Int, r \in 0..6 : a = 7 * q + r
  <2>1. a = 7 * (a \div 7) + (a % 7) /\ a \div 7 \in Int /\ a % 7 \in 0..6
    OBVIOUS
  <2> QED
    BY <2>1
<1>6. a % 7 = r
  BY <1>5
<1>7. r + 7 - w \in 1..13
  BY <1>2, <1>5
<1>8. (r + 7 - w) % 7 = IF r >= w THEN r - w ELSE r + 7 - w
  BY <1>2, <1>5, <1>7
<1>9. WeekStart(a, p) = IF r >= w THEN 7 * q + w ELSE 7 * (q - 1) + w
  <2>1. WeekStart(a, p) = a - ((r + 7 - w) % 7)
    BY <1>4, <1>6
  <2> QED
    BY <1>2, <1>5, <1>8, <2>1
<1>10. \A n \in Int : (7 * n + w) % 7 = w
  BY <1>2
<1>11. Offsets(p) \subseteq 0..6 /\ Offsets(p) # {}
  <2>1. \A weekday \in 0..6 : (weekday + 7 - w) % 7 \in 0..6
    BY <1>2
  <2>2. PICK day \in p.weekdays : TRUE
    <3>1. p.weekdays # {}
      BY <1>1
    <3> QED
      BY <3>1
  <2>3. p.weekdays \subseteq 0..6
    BY <1>1
  <2>4. Offsets(p) \subseteq 0..6
    BY <1>3, <2>1, <2>3
  <2>5. (day + 7 - w) % 7 \in Offsets(p)
    BY <1>3, <2>2
  <2> QED
    BY <2>4, <2>5
<1>12. WeekStart(a, p) % 7 = w
  <2>1. q - 1 \in Int
    BY <1>5
  <2> QED
    BY <1>9, <1>10, <1>5, <2>1
<1>13. WeekStart(a, p) \in Int /\ WeekStart(a, p) <= a /\ a <= WeekStart(a, p) + 6
  BY <1>2, <1>5, <1>9
<1> QED
  BY <1>2, <1>11, <1>12, <1>13

\* There is one week of a day.
LEMMA WeekStartUnique ==
    ASSUME NEW u \in Int, NEW v \in Int, NEW a \in Int, u % 7 = v % 7,
           u <= a, a <= u + 6, v <= a, a <= v + 6
    PROVE  u = v
OBVIOUS

\* A step that starts within some days is among as many as fit, and one more.
LEMMA DivReaches ==
    ASSUME NEW b \in Nat, NEW n \in Nat \ {0}, NEW k \in Nat, (k - 1) * n <= b
    PROVE  k <= (b \div n) + 1
<1>1. PICK q \in Nat, r \in Nat : b = n * q + r /\ r < n /\ b \div n = q
  <2>1. b \div n \in Nat /\ b % n \in Nat /\ b = n * (b \div n) + (b % n) /\ b % n < n
    OBVIOUS
  <2> QED
    BY <2>1
<1>2. ASSUME k > q + 1 PROVE FALSE
  <2>1. PICK e \in Nat : k - 1 = q + 1 + e
    <3>1. k - 1 = q + 1 + (k - q - 2) /\ k - q - 2 \in Nat
      BY <1>1, <1>2
    <3> QED
      BY <3>1
  <2>2. (q + 1 + e) * n = n * q + n + e * n /\ e * n \in Nat
    BY <1>1, <2>1
  <2> QED
    BY <1>1, <2>1, <2>2
<1> QED
  BY <1>1, <1>2

\* Products of a later step.
LEMMA LaterProduct ==
    ASSUME NEW j \in Nat, NEW k \in Nat, j < k, NEW i \in Nat \ {0}
    PROVE  j * i \in Nat /\ k * i \in Nat /\ j * i + i <= k * i
<1>1. PICK e \in Nat : k = j + 1 + e
  <2>1. k = j + 1 + (k - j - 1) /\ k - j - 1 \in Nat
    OBVIOUS
  <2> QED
    BY <2>1
<1>2. (j + 1 + e) * i = j * i + i + e * i /\ e * i \in Nat /\ j * i \in Nat
  BY <1>1
<1> QED
  BY <1>1, <1>2

\* The dates of a weekly step.
LEMMA WeeklyStep ==
    ASSUME NEW p, ValidPattern(p), p.type = "weekly", NEW a \in Int, NEW k \in Nat, NEW d
    PROVE  /\ k * p.interval \in Nat
           /\ d \in StepDates(a, p, k) <=>
                \E o \in Offsets(p) : d = WeekStart(a, p) + 7 * (k * p.interval) + o
<1>1. p.interval \in Nat \ {0} /\ k * p.interval \in Nat
  BY PatternIs
<1>2. 7 * k * p.interval = 7 * (k * p.interval)
  BY <1>1
<1>3. StepDates(a, p, k) = {WeekStart(a, p) + 7 * k * p.interval + offset : offset \in Offsets(p)}
  BY DEF StepDates
<1> QED
  BY <1>1, <1>2, <1>3

\* A step of some days is one date.
LEMMA DailyStep ==
    ASSUME NEW p, ValidPattern(p), p.type = "daily", NEW a \in Int, NEW k \in Nat
    PROVE  k * p.interval \in Nat /\ StepDates(a, p, k) = {a + k * p.interval}
BY PatternIs DEF StepDates

\* Steps follow one another.
LEMMA StepsOrdered ==
    ASSUME NEW p, ValidPattern(p), NEW a, ValidAnchor(a, p), NEW j \in Nat, NEW k \in Nat, j < k,
           HasStep(a, p, j), HasStep(a, p, k),
           NEW d \in StepDates(a, p, j), NEW e \in StepDates(a, p, k)
    PROVE  d < e
<1>1. /\ a \in Int /\ p.interval \in Nat \ {0}
      /\ j * p.interval \in Nat /\ k * p.interval \in Nat
      /\ j * p.interval + p.interval <= k * p.interval
  BY PatternIs, LaterProduct DEF ValidAnchor
<1>2. CASE p.type = "daily"
  BY <1>1, <1>2, DailyStep
<1>3. CASE p.type = "weekly"
  <2>1. PICK o \in Offsets(p) : d = WeekStart(a, p) + 7 * (j * p.interval) + o
    BY <1>1, <1>3, WeeklyStep
  <2>2. PICK u \in Offsets(p) : e = WeekStart(a, p) + 7 * (k * p.interval) + u
    BY <1>1, <1>3, WeeklyStep
  <2>3. o \in 0..6 /\ u \in 0..6 /\ WeekStart(a, p) \in Int
    BY <1>1, <1>3, <2>1, <2>2, WeekStartIs
  <2> QED
    BY <1>1, <2>1, <2>2, <2>3
<1>4. CASE ~ByDays(p)
  <2>1. /\ a \in CalendarDays
        /\ StepMonth(a, p, j) \in Months /\ StepMonth(a, p, k) \in Months
    BY <1>4 DEF ValidAnchor, HasStep, ByDays
  <2>2. /\ d \in Int /\ InMonth(StepMonth(a, p, j), d)
        /\ e \in Int /\ InMonth(StepMonth(a, p, k), e)
    BY <1>4, <2>1, StepInMonth
  <2>3. /\ StepMonth(a, p, 0) \in Nat
        /\ StepMonth(a, p, j) = StepMonth(a, p, 0) + j * Every(p)
        /\ StepMonth(a, p, k) = StepMonth(a, p, 0) + k * Every(p)
    BY <1>4, <2>1, StepMonthIs
  <2>4. j * Every(p) \in Nat /\ k * Every(p) \in Nat /\ j * Every(p) < k * Every(p)
    BY EveryIs, LaterProduct
  <2>5. StepMonth(a, p, j) < StepMonth(a, p, k)
    BY <2>3, <2>4
  <2>6. StepMonth(a, p, k) - StepMonth(a, p, j) - 1 \in Nat
    BY <2>3, <2>4
  <2> QED
    BY <2>2, <2>5, <2>6, MonthsApart
<1> QED
  BY <1>2, <1>3, <1>4 DEF ByDays

\* The dates of a step are numbers.
LEMMA StepDatesAre ==
    ASSUME NEW p, ValidPattern(p), NEW a, ValidAnchor(a, p), NEW k \in Nat, HasStep(a, p, k),
           NEW d \in StepDates(a, p, k)
    PROVE  d \in Int
<1>1. a \in Int
  BY DEF ValidAnchor
<1>2. CASE p.type = "daily"
  BY <1>1, <1>2, DailyStep
<1>3. CASE p.type = "weekly"
  BY <1>1, <1>3, WeeklyStep, WeekStartIs
<1>4. CASE ~ByDays(p)
  BY <1>4, StepInMonth DEF ValidAnchor, HasStep, ByDays
<1> QED
  BY <1>2, <1>3, <1>4 DEF ByDays

\* Days that a step of a pattern spans at least.
DaysOf(p) == CASE p.type = "daily" -> 1
               [] p.type = "weekly" -> 7
               [] p.type \in {"monthly-date", "monthly-ordinal"} -> 28
               [] p.type \in {"yearly-date", "yearly-ordinal"} -> 12 * 28

\* A date of the k-th step is as many steps behind the first day, less one.
LEMMA StepIsFar ==
    ASSUME NEW p, ValidPattern(p), NEW a, ValidAnchor(a, p), NEW k \in Nat \ {0},
           HasStep(a, p, k), NEW d \in StepDates(a, p, k)
    PROVE  DaysOf(p) * p.interval \in Nat \ {0} /\ (k - 1) * (DaysOf(p) * p.interval) <= d - a
<1>1. /\ a \in Int /\ p.interval \in Nat \ {0} /\ k * p.interval \in Nat
      /\ p.interval <= k * p.interval
  <2>1. 0 * p.interval + p.interval <= k * p.interval
    BY PatternIs, LaterProduct
  <2> QED
    BY <2>1, PatternIs DEF ValidAnchor
<1>2. PICK i \in Nat \ {0}, x \in Nat : i = p.interval /\ x = k * i /\ i <= x
  BY <1>1
<1>3. \A c \in Nat : (k - 1) * (c * i) = c * x - c * i
  BY <1>2
<1>4. CASE p.type = "daily"
  BY <1>1, <1>2, <1>3, <1>4, DailyStep DEF DaysOf
<1>5. CASE p.type = "weekly"
  <2>1. PICK o \in Offsets(p) : d = WeekStart(a, p) + 7 * (k * p.interval) + o
    BY <1>1, <1>5, WeeklyStep
  <2>2. o \in 0..6 /\ WeekStart(a, p) \in Int /\ a <= WeekStart(a, p) + 6
    BY <1>1, <1>5, <2>1, WeekStartIs
  <2>3. DaysOf(p) * p.interval = 7 * i /\ (k - 1) * (7 * i) = 7 * x - 7 * i
    BY <1>2, <1>3, <1>5 DEF DaysOf
  <2> QED
    BY <1>1, <1>2, <2>1, <2>2, <2>3
<1>6. CASE ~ByDays(p)
  <2>1. a \in CalendarDays /\ StepMonth(a, p, k) \in Months
    BY <1>6 DEF ValidAnchor, HasStep, ByDays
  <2>2. /\ d \in Int /\ InMonth(StepMonth(a, p, k), d) /\ InMonth(MonthOf(a), a)
        /\ MonthOf(a) \in Nat
    BY <1>6, <2>1, StepInMonth, MonthOfIs DEF InMonth, Months
  <2>3. /\ StepMonth(a, p, 0) \in Nat
        /\ StepMonth(a, p, k) = StepMonth(a, p, 0) + k * Every(p)
        /\ ByMonth(p) => StepMonth(a, p, 0) = MonthOf(a)
        /\ ~ByMonth(p) => StepMonth(a, p, 0) = 12 * (MonthOf(a) \div 12) + p.month
    BY <1>6, <2>1, StepMonthIs
  <2>4. PICK m \in Nat, n \in Nat : m = MonthOf(a) /\ n = StepMonth(a, p, k)
    BY <2>1, <2>2 DEF Months
  <2>5. m < n => a + 28 * (n - m - 1) < d
    BY <1>1, <2>2, <2>4, MonthsApart
  <2>6. CASE ByMonth(p)
    <3>1. n = m + x
      BY <1>2, <2>3, <2>4, <2>6 DEF Every
    <3>2. DaysOf(p) * p.interval = 28 * i /\ (k - 1) * (28 * i) = 28 * x - 28 * i
      BY <1>2, <1>3, <2>6 DEF DaysOf, ByMonth
    <3> QED
      BY <1>1, <1>2, <2>2, <2>4, <2>5, <3>1, <3>2
  <2>7. CASE ~ByMonth(p)
    <3>1. p.month \in 0..11 /\ p.type \in {"yearly-date", "yearly-ordinal"}
      BY <1>6, <2>7, PatternIs DEF ByDays, ByMonth
    <3>2. Every(p) = 12 * i /\ k * (12 * i) = 12 * x
      BY <1>2, <2>7 DEF Every
    <3>3. n = 12 * (m \div 12) + p.month + 12 * x
      BY <2>3, <2>4, <2>7, <3>1, <3>2
    <3>4. 12 * (m \div 12) <= m /\ m <= 12 * (m \div 12) + 11 /\ m \div 12 \in Nat
      OBVIOUS
    <3>5. 12 * 28 = 336 /\ DaysOf(p) = 12 * 28
      BY <3>1 DEF DaysOf
    <3>6. DaysOf(p) * p.interval = 336 * i /\ (k - 1) * (336 * i) = 336 * x - 336 * i
      BY <1>2, <1>3, <3>5
    <3>7. n - m - 1 >= 12 * x - 12 /\ n \in Int
      BY <1>2, <3>1, <3>3, <3>4
    <3> QED
      BY <1>1, <1>2, <2>2, <2>4, <2>5, <3>6, <3>7
  <2> QED
    BY <2>6, <2>7
<1> QED
  BY <1>4, <1>5, <1>6 DEF ByDays

\* An expansion up to a day looks at all steps with dates up to it.
LEMMA StepsReach ==
    ASSUME NEW p, ValidPattern(p), NEW a, ValidAnchor(a, p), NEW k \in Nat, HasStep(a, p, k),
           NEW d \in StepDates(a, p, k), NEW last \in Int, d <= last
    PROVE  k \in StepsTo(a, p, last)
<1>1. a \in Int /\ d \in Int
  BY StepDatesAre DEF ValidAnchor
<1>2. PICK beyond \in Nat : beyond = IF last > a THEN last - a ELSE 0
  <2>1. (IF last > a THEN last - a ELSE 0) \in Nat
    BY <1>1
  <2> QED
    BY <2>1
<1>3. StepsTo(a, p, last) = 0..((beyond \div (DaysOf(p) * p.interval)) + 1)
  BY <1>2 DEF StepsTo, DaysOf
<1>4. CASE k # 0
  <2>1. PICK n \in Nat \ {0} : n = DaysOf(p) * p.interval /\ (k - 1) * n <= d - a
    BY <1>4, StepIsFar
  <2>2. (k - 1) * n \in Int /\ (k - 1) * n <= beyond
    <3>1. (k - 1) * n \in Nat
      <4>1. k - 1 \in Nat
        BY <1>4
      <4> QED
        BY <4>1, <2>1
    <3> QED
      BY <1>1, <1>2, <2>1, <3>1
  <2>3. k <= (beyond \div n) + 1
    BY <2>2, DivReaches
  <2>4. beyond \div n \in Nat
    OBVIOUS
  <2> QED
    BY <1>3, <2>1, <2>3, <2>4
<1>5. CASE k = 0
  <2>1. PICK n \in Nat \ {0} : n = DaysOf(p) * p.interval
    BY PatternIs DEF DaysOf
  <2>2. beyond \div n \in Nat
    OBVIOUS
  <2> QED
    BY <1>3, <1>5, <2>1, <2>2
<1> QED
  BY <1>4, <1>5

\* From one of its dates on, a pattern has the steps it had before.
LEMMA StepsShift ==
    ASSUME NEW p, ValidPattern(p), NEW a, ValidAnchor(a, p), NEW k \in Nat, HasStep(a, p, k),
           NEW s \in StepDates(a, p, k)
    PROVE  /\ ValidAnchor(s, p)
           /\ \A j \in Nat : /\ HasStep(s, p, j) <=> HasStep(a, p, k + j)
                             /\ StepDates(s, p, j) = StepDates(a, p, k + j)
<1>1. a \in Int /\ s \in Int /\ p.interval \in Nat \ {0}
  BY StepDatesAre, PatternIs DEF ValidAnchor
<1>2. CASE p.type = "daily"
  <2>1. s = a + k * p.interval /\ k * p.interval \in Nat
    BY <1>1, <1>2, DailyStep
  <2>2. ASSUME NEW j \in Nat
        PROVE  StepDates(s, p, j) = StepDates(a, p, k + j)
    <3>1. (k + j) * p.interval = k * p.interval + j * p.interval /\ j * p.interval \in Nat
      BY <1>1
    <3>2. StepDates(s, p, j) = {s + j * p.interval} /\ StepDates(a, p, k + j) = {a + (k + j) * p.interval}
      BY <1>1, <1>2, DailyStep
    <3>3. s + j * p.interval = a + (k + j) * p.interval
      BY <1>1, <2>1, <3>1
    <3> QED
      BY <3>2, <3>3
  <2> QED
    BY <1>1, <1>2, <2>2 DEF HasStep, ValidAnchor, ByDays
<1>3. CASE p.type = "weekly"
  <2>1. PICK o \in Offsets(p) : s = WeekStart(a, p) + 7 * (k * p.interval) + o
    BY <1>1, <1>3, WeeklyStep
  <2>2. PICK u \in Int, x \in Nat : u = WeekStart(a, p) /\ x = k * p.interval
    BY <1>1, <1>3, WeekStartIs
  <2>3. o \in 0..6 /\ u % 7 = p.weekStartsOn
    BY <1>1, <1>3, <2>1, <2>2, WeekStartIs
  <2>4. WeekStart(s, p) = u + 7 * x
    <3>1. (u + 7 * x) % 7 = u % 7
      BY <2>2
    <3>2. /\ WeekStart(s, p) \in Int /\ WeekStart(s, p) <= s /\ s <= WeekStart(s, p) + 6
          /\ WeekStart(s, p) % 7 = p.weekStartsOn
      BY <1>1, <1>3, WeekStartIs
    <3>3. u + 7 * x \in Int /\ u + 7 * x <= s /\ s <= u + 7 * x + 6
      BY <1>1, <2>1, <2>2, <2>3
    <3> QED
      BY <1>1, <2>3, <3>1, <3>2, <3>3, WeekStartUnique
  <2>5. ASSUME NEW j \in Nat
        PROVE  StepDates(s, p, j) = StepDates(a, p, k + j)
    <3>1. PICK y \in Nat : y = j * p.interval
      BY <1>1
    <3>2. (k + j) * p.interval = x + y /\ k + j \in Nat
      BY <1>1, <2>2, <3>1
    <3>3. \A d : d \in StepDates(s, p, j) <=> \E v \in Offsets(p) : d = (u + 7 * x) + 7 * y + v
      BY <1>1, <1>3, <2>4, <3>1, WeeklyStep
    <3>4. \A d : d \in StepDates(a, p, k + j) <=> \E v \in Offsets(p) : d = u + 7 * (x + y) + v
      BY <1>1, <1>3, <2>2, <3>2, WeeklyStep
    <3>5. \A v \in Offsets(p) : (u + 7 * x) + 7 * y + v = u + 7 * (x + y) + v
      BY <1>1, <1>3, <2>2, <3>1, WeekStartIs
    <3>6. \A d : d \in StepDates(s, p, j) <=> d \in StepDates(a, p, k + j)
      BY <3>3, <3>4, <3>5
    <3> QED
      BY <3>6 DEF StepDates
  <2> QED
    BY <1>1, <1>3, <2>5 DEF HasStep, ValidAnchor, ByDays
<1>4. CASE ~ByDays(p)
  <2>1. a \in CalendarDays /\ StepMonth(a, p, k) \in Months
    BY <1>4 DEF ValidAnchor, HasStep, ByDays
  <2>2. InMonth(StepMonth(a, p, k), s)
    BY <1>4, <2>1, StepInMonth
  <2>3. s \in CalendarDays /\ MonthOf(s) = StepMonth(a, p, k)
    BY <1>1, <2>2, MonthOfUnique
  <2>4. /\ StepMonth(a, p, 0) \in Nat
        /\ StepMonth(a, p, k) = StepMonth(a, p, 0) + k * Every(p)
        /\ ByMonth(p) => StepMonth(s, p, 0) = MonthOf(s)
        /\ ~ByMonth(p) => /\ StepMonth(a, p, 0) = 12 * (MonthOf(a) \div 12) + p.month
                          /\ StepMonth(s, p, 0) = 12 * (MonthOf(s) \div 12) + p.month
    BY <1>4, <2>1, <2>3, StepMonthIs
  <2>5. StepMonth(s, p, 0) = StepMonth(a, p, k)
    <3>1. CASE ByMonth(p)
      BY <2>3, <2>4, <3>1
    <3>2. CASE ~ByMonth(p)
      <4>1. p.month \in 0..11
        BY <1>4, <3>2, PatternIs DEF ByDays, ByMonth
      <4>2. PICK x \in Nat : x = k * p.interval
        BY <1>1
      <4>3. k * Every(p) = 12 * x
        BY <1>1, <3>2, <4>2 DEF Every
      <4>4. PICK y \in Int : y = MonthOf(a) \div 12
        <5>1. MonthOf(a) \in Nat
          BY <2>1, MonthOfIs DEF InMonth, Months
        <5> QED
          BY <5>1
      <4>5. MonthOf(s) = 12 * (y + x) + p.month
        BY <2>3, <2>4, <3>2, <4>1, <4>2, <4>3, <4>4
      <4>6. MonthOf(s) \div 12 = y + x
        BY <4>1, <4>2, <4>4, <4>5
      <4> QED
        BY <2>3, <2>4, <3>2, <4>5, <4>6
    <3> QED
      BY <3>1, <3>2
  <2>6. ASSUME NEW j \in Nat
        PROVE  StepMonth(s, p, j) = StepMonth(a, p, k + j)
    <3>1. /\ StepMonth(s, p, j) = StepMonth(s, p, 0) + j * Every(p)
          /\ StepMonth(a, p, k + j) = StepMonth(a, p, 0) + (k + j) * Every(p)
      BY <1>4, <2>1, <2>3, StepMonthIs
    <3>2. PICK i \in Nat : i = Every(p)
      BY EveryIs
    <3>3. (k + j) * i = k * i + j * i /\ k * i \in Nat /\ j * i \in Nat
      BY <3>2
    <3> QED
      BY <2>4, <2>5, <3>1, <3>2, <3>3
  <2>7. \A j \in Nat : StepDates(s, p, j) = StepDates(a, p, k + j)
    BY <1>4, <2>6, PatternIs DEF StepDates, ByDays
  <2> QED
    BY <1>1, <1>4, <2>3, <2>6, <2>7 DEF HasStep, ValidAnchor, ByDays
<1> QED
  BY <1>2, <1>3, <1>4 DEF ByDays

(***************************************************************************)
(* The dates a rule has.                                                   *)
(***************************************************************************)
\* The dates of a pattern from a first day on.
Occurs(a, p) == {d \in Int : a <= d /\ \E k \in Nat : HasStep(a, p, k) /\ d \in StepDates(a, p, k)}

Earlier(a, p, d) == {e \in Occurs(a, p) : e < d}

\* The end of a rule leaves a date.
Leaves(rule, a, d) ==
    \/ rule.end.type = "never"
    \/ rule.end.type = "date" /\ d <= rule.end.last
    \/ rule.end.type = "count" /\ Cardinality(Earlier(a, rule.pattern, d)) < rule.end.count

ValidRule(rule) == ValidPattern(rule.pattern) /\ ValidEnd(rule.end)

\* What a valid end has.
LEMMA EndIs ==
    ASSUME NEW rule, ValidRule(rule)
    PROVE  \/ rule.end.type = "never"
           \/ rule.end.type = "date" /\ rule.end.last \in Int
           \/ rule.end.type = "count" /\ rule.end.count \in Nat \ {0}
<1>1. rule.end.type \in {"never", "date", "count"}
  BY DEF ValidRule, ValidEnd
<1> QED
  BY <1>1 DEF ValidRule, ValidEnd

\* What an expansion has in its window.
LEMMA ExpansionIs ==
    ASSUME NEW rule, ValidRule(rule), NEW a, ValidAnchor(a, rule.pattern),
           NEW lo \in Int, NEW hi \in Int, NEW d
    PROVE  d \in expandRecurrenceDates(a, rule, lo, hi) <=>
             d \in Occurs(a, rule.pattern) /\ lo <= d /\ d <= hi /\ Leaves(rule, a, d)
<1>1. PICK p : p = rule.pattern
  OBVIOUS
<1>2. PICK steps : steps = {step \in StepsTo(a, p, hi) : HasStep(a, p, step)}
  OBVIOUS
<1>3. PICK reached : reached = {date \in UNION {StepDates(a, p, step) : step \in steps} : a <= date /\ date <= hi}
  OBVIOUS
<1>4. ValidPattern(p) /\ ValidAnchor(a, p) /\ a \in Int
  BY <1>1 DEF ValidRule, ValidAnchor
<1>5. steps \subseteq Nat
  BY <1>2 DEF StepsTo
<1>6. reached = {e \in Occurs(a, p) : e <= hi}
  <2>1. ASSUME NEW e \in reached PROVE e \in Occurs(a, p) /\ e <= hi
    <3>1. PICK k \in steps : e \in StepDates(a, p, k) /\ a <= e /\ e <= hi
      BY <1>3
    <3>2. k \in Nat /\ HasStep(a, p, k)
      BY <1>2, <1>5, <3>1
    <3>3. e \in Int
      BY <1>4, <3>1, <3>2, StepDatesAre
    <3> QED
      BY <3>1, <3>2, <3>3 DEF Occurs
  <2>2. ASSUME NEW e \in Occurs(a, p), e <= hi PROVE e \in reached
    <3>1. PICK k \in Nat : HasStep(a, p, k) /\ e \in StepDates(a, p, k) /\ a <= e
      BY DEF Occurs
    <3>2. k \in StepsTo(a, p, hi)
      BY <1>4, <2>2, <3>1, StepsReach
    <3> QED
      BY <1>2, <1>3, <2>2, <3>1, <3>2
  <2> QED
    BY <2>1, <2>2
<1>7. expandRecurrenceDates(a, rule, lo, hi) = {date \in Ended(rule, reached) : lo <= date}
  BY <1>1, <1>2, <1>3 DEF expandRecurrenceDates
<1>8. d \in Ended(rule, reached) <=> d \in reached /\ Leaves(rule, a, d)
  <2>1. CASE rule.end.type = "never"
    BY <2>1 DEF Ended, Leaves
  <2>2. CASE rule.end.type = "date"
    BY <2>2 DEF Ended, Leaves
  <2>3. CASE rule.end.type = "count"
    <3>1. \A e \in reached : {earlier \in reached : earlier < e} = Earlier(a, p, e)
      BY <1>6 DEF Earlier, Occurs
    <3>2. Ended(rule, reached) =
            {date \in reached : Cardinality({earlier \in reached : earlier < date}) < rule.end.count}
      BY <2>3 DEF Ended
    <3> QED
      BY <1>1, <2>3, <3>1, <3>2 DEF Leaves
  <2> QED
    BY <2>1, <2>2, <2>3, EndIs
<1> QED
  BY <1>1, <1>6, <1>7, <1>8

\* From one of its dates on, a pattern has the dates it had before.
LEMMA TailIs ==
    ASSUME NEW p, ValidPattern(p), NEW a, ValidAnchor(a, p), NEW s \in Occurs(a, p)
    PROVE  /\ ValidAnchor(s, p) /\ s \in Int /\ a \in Int /\ a <= s
           /\ Occurs(s, p) = {d \in Occurs(a, p) : s <= d}
<1>1. PICK k \in Nat : HasStep(a, p, k) /\ s \in StepDates(a, p, k) /\ s \in Int /\ a <= s
  BY DEF Occurs
<1>2. a \in Int
  BY DEF ValidAnchor
<1>3. /\ ValidAnchor(s, p)
      /\ \A j \in Nat : /\ HasStep(s, p, j) <=> HasStep(a, p, k + j)
                        /\ StepDates(s, p, j) = StepDates(a, p, k + j)
  BY <1>1, StepsShift
<1>4. ASSUME NEW d \in Occurs(s, p) PROVE d \in Occurs(a, p) /\ s <= d
  <2>1. PICK j \in Nat : HasStep(s, p, j) /\ d \in StepDates(s, p, j) /\ d \in Int /\ s <= d
    BY DEF Occurs
  <2>2. k + j \in Nat /\ HasStep(a, p, k + j) /\ d \in StepDates(a, p, k + j)
    BY <1>3, <2>1
  <2> QED
    BY <1>1, <1>2, <2>1, <2>2 DEF Occurs
<1>5. ASSUME NEW d \in Occurs(a, p), s <= d PROVE d \in Occurs(s, p)
  <2>1. PICK n \in Nat : HasStep(a, p, n) /\ d \in StepDates(a, p, n) /\ d \in Int
    BY DEF Occurs
  <2>2. ~(n < k)
    <3>1. n < k => d < s
      BY <1>1, <2>1, StepsOrdered
    <3> QED
      BY <1>1, <1>5, <2>1, <3>1
  <2>3. PICK j \in Nat : n = k + j
    <3>1. n - k \in Nat /\ n = k + (n - k)
      BY <2>2
    <3> QED
      BY <3>1
  <2>4. HasStep(s, p, j) /\ d \in StepDates(s, p, j)
    BY <1>3, <2>1, <2>3
  <2> QED
    BY <1>5, <2>1, <2>4 DEF Occurs
<1> QED
  BY <1>1, <1>2, <1>3, <1>4, <1>5

\* The dates before another can be counted.
LEMMA EarlierFinite ==
    ASSUME NEW p, NEW a \in Int, NEW d \in Int
    PROVE  IsFiniteSet(Earlier(a, p, d)) /\ Cardinality(Earlier(a, p, d)) \in Nat
<1>1. Earlier(a, p, d) \in SUBSET (a..d)
  BY DEF Earlier, Occurs
<1>2. IsFiniteSet(Earlier(a, p, d))
  BY <1>1, FS_Interval, FS_Subset
<1> QED
  BY <1>2, FS_CardinalityType

\* What is before a later date is what is before an earlier one and what lies between.
LEMMA EarlierSplit ==
    ASSUME NEW p, ValidPattern(p), NEW a, ValidAnchor(a, p), NEW s \in Occurs(a, p),
           NEW d \in Int, s <= d
    PROVE  Cardinality(Earlier(a, p, d)) = Cardinality(Earlier(a, p, s)) + Cardinality(Earlier(s, p, d))
<1>1. s \in Int /\ a \in Int /\ Occurs(s, p) = {e \in Occurs(a, p) : s <= e}
  BY TailIs
<1>2. /\ IsFiniteSet(Earlier(a, p, s)) /\ Cardinality(Earlier(a, p, s)) \in Nat
      /\ IsFiniteSet(Earlier(s, p, d)) /\ Cardinality(Earlier(s, p, d)) \in Nat
  BY <1>1, EarlierFinite
<1>3. Occurs(a, p) \subseteq Int
  BY DEF Occurs
<1>4. Earlier(a, p, d) = Earlier(a, p, s) \cup Earlier(s, p, d)
  BY <1>1, <1>3 DEF Earlier
<1>5. Earlier(a, p, s) \cap Earlier(s, p, d) = {}
  BY <1>1, <1>3 DEF Earlier
<1>6. /\ IsFiniteSet(Earlier(a, p, s) \cup Earlier(s, p, d))
      /\ Cardinality(Earlier(a, p, s) \cup Earlier(s, p, d))
           = Cardinality(Earlier(a, p, s)) + Cardinality(Earlier(s, p, d))
             - Cardinality(Earlier(a, p, s) \cap Earlier(s, p, d))
  BY <1>2, FS_Union
<1> QED
  BY <1>2, <1>4, <1>5, <1>6, FS_EmptySet

(***************************************************************************)
(* What a split leaves.                                                    *)
(***************************************************************************)
IsRule(r) == r = [pattern |-> r.pattern, end |-> r.end] /\ ValidRule(r)

\* A rule after some of its occurrences.
LEMMA AdjustedIs ==
    ASSUME NEW r, IsRule(r), NEW n \in Nat, r.end.type = "count" => n < r.end.count
    PROVE  /\ IsRule(adjustedRecurrence(r, n)) /\ adjustedRecurrence(r, n).pattern = r.pattern
           /\ adjustedRecurrence(r, n).end.type = r.end.type
           /\ r.end.type = "count" => adjustedRecurrence(r, n).end.count = r.end.count - n
           /\ r.end.type # "count" => adjustedRecurrence(r, n) = r
<1>1. r = [pattern |-> r.pattern, end |-> r.end] /\ ValidPattern(r.pattern) /\ ValidEnd(r.end)
  BY DEF IsRule, ValidRule
<1>2. CASE r.end.type = "count"
  <2>1. r.end \in [type : {"count"}, count : Nat \ {0}]
    BY <1>1, <1>2 DEF ValidEnd
  <2>2. PICK c \in Nat \ {0} : r.end = [type |-> "count", count |-> c]
    BY <2>1
  <2>3. adjustedRecurrence(r, n) = [pattern |-> r.pattern, end |-> [type |-> "count", count |-> c - n]]
    BY <1>1, <1>2, <2>2 DEF adjustedRecurrence
  <2>4. c - n \in Nat \ {0}
    BY <1>2, <2>2
  <2>5. [type |-> "count", count |-> c - n] \in [type : {"count"}, count : Nat \ {0}]
    BY <2>4
  <2> QED
    BY <1>1, <1>2, <2>2, <2>3, <2>5 DEF IsRule, ValidRule, ValidEnd
<1>3. CASE r.end.type # "count"
  BY <1>3 DEF adjustedRecurrence
<1> QED
  BY <1>2, <1>3

\* A rule that ends the day before.
LEMMA EndedIs ==
    ASSUME NEW r, IsRule(r), NEW s \in Int
    PROVE  /\ IsRule(splitSourceSeries(r, s)) /\ splitSourceSeries(r, s).pattern = r.pattern
           /\ splitSourceSeries(r, s).end = [type |-> "date", last |-> s - 1]
<1>1. r = [pattern |-> r.pattern, end |-> r.end] /\ ValidPattern(r.pattern)
  BY DEF IsRule, ValidRule
<1>2. splitSourceSeries(r, s) = [pattern |-> r.pattern, end |-> [type |-> "date", last |-> s - 1]]
  BY <1>1 DEF splitSourceSeries
<1>3. [type |-> "date", last |-> s - 1] \in [type : {"date"}, last : Int]
  OBVIOUS
<1> QED
  BY <1>1, <1>2, <1>3 DEF IsRule, ValidRule, ValidEnd

\* The two parts of a series have the dates of the whole: those before the day of the
\* split, and those from it on, when at most the dates before it count as past.
LEMMA PartsAre ==
    ASSUME NEW r, IsRule(r), NEW a, ValidAnchor(a, r.pattern), NEW s \in Occurs(a, r.pattern),
           NEW n \in Nat, n <= Cardinality(Earlier(a, r.pattern, s)), Leaves(r, a, s),
           NEW d \in Occurs(a, r.pattern), Leaves(r, a, d)
    PROVE  /\ r.end.type = "count" => n < r.end.count
           /\ d < s => Leaves(splitSourceSeries(r, s), a, d)
           /\ s <= d => d \in Occurs(s, r.pattern) /\ Leaves(adjustedRecurrence(r, n), s, d)
<1>1. ValidPattern(r.pattern) /\ a \in Int /\ s \in Int /\ d \in Int /\ ValidRule(r)
  BY DEF IsRule, ValidRule, Occurs, ValidAnchor
<1>2. Cardinality(Earlier(a, r.pattern, s)) \in Nat /\ Cardinality(Earlier(s, r.pattern, d)) \in Nat
  BY <1>1, EarlierFinite
<1>3. r.end.type = "count" => n < r.end.count
  BY <1>1, <1>2, EndIs DEF Leaves
<1>4. ASSUME d < s PROVE Leaves(splitSourceSeries(r, s), a, d)
  <2>1. splitSourceSeries(r, s).end = [type |-> "date", last |-> s - 1]
    BY <1>1, EndedIs
  <2> QED
    BY <1>1, <1>4, <2>1 DEF Leaves
<1>5. ASSUME s <= d PROVE d \in Occurs(s, r.pattern) /\ Leaves(adjustedRecurrence(r, n), s, d)
  <2>1. d \in Occurs(s, r.pattern)
    BY <1>1, <1>5, TailIs
  <2>2. /\ adjustedRecurrence(r, n).pattern = r.pattern
        /\ adjustedRecurrence(r, n).end.type = r.end.type
        /\ r.end.type = "count" => adjustedRecurrence(r, n).end.count = r.end.count - n
        /\ r.end.type # "count" => adjustedRecurrence(r, n) = r
    BY <1>3, AdjustedIs
  <2>3. CASE r.end.type = "count"
    <3>1. Cardinality(Earlier(a, r.pattern, d)) < r.end.count /\ r.end.count \in Nat
      BY <1>1, <2>3, EndIs DEF Leaves
    <3>2. Cardinality(Earlier(a, r.pattern, d))
            = Cardinality(Earlier(a, r.pattern, s)) + Cardinality(Earlier(s, r.pattern, d))
      BY <1>1, <1>5, EarlierSplit
    <3>3. Cardinality(Earlier(s, r.pattern, d)) < r.end.count - n
      BY <1>2, <3>1, <3>2
    <3> QED
      BY <2>1, <2>2, <2>3, <3>3 DEF Leaves
  <2>4. CASE r.end.type # "count"
    BY <2>1, <2>2, <2>4 DEF Leaves
  <2> QED
    BY <2>3, <2>4
<1> QED
  BY <1>3, <1>4, <1>5

(***************************************************************************)
(* Splits.                                                                 *)
(***************************************************************************)
\* A series that recurs on dates nobody moved, its dates, and those its rule leaves.
Recurs(id) == RuleOf(id) # Once /\ id \notin shifted

OnPattern(id, d) == d \in Occurs(AnchorOf(id), RuleOf(id).pattern)

Own(id, d) == OnPattern(id, d) /\ Leaves(RuleOf(id), AnchorOf(id), d)

\* One series ends before another begins.
EndsBefore(b, c) == RuleOf(b).end.type = "date" /\ RuleOf(b).end.last < AnchorOf(c)

\* Of two series that recur, one ends before the other begins.
SeriesOK ==
    /\ series = [id \in SeriesIds |-> series[id]]
    /\ \A id \in Made :
          /\ series[id] = {[rule |-> RuleOf(id), anchor |-> AnchorOf(id)]}
          /\ Recurs(id) => IsRule(RuleOf(id)) /\ ValidAnchor(AnchorOf(id), RuleOf(id).pattern)
    /\ \A b, c \in Made : b # c /\ Recurs(b) /\ Recurs(c) => EndsBefore(b, c) \/ EndsBefore(c, b)

\* The occurrences that a save moves to a series split off, but for the first.
Moving == {d \in Dates : \E w \in chore : ~w.first /\ w.target # w.source /\ d \in w.todo}

States == {"open", "completed", "deleted"}

\* An open occurrence that a save has not to move yet is left by the rule of its series.
VisitsOK ==
    /\ visits = [d \in Dates |-> visits[d]] /\ Dates \subseteq Nat
    /\ \A d \in Dates :
          /\ visits[d] \in [series : Made, state : States, date : Int]
          /\ Recurs(visits[d].series) =>
               /\ visits[d].date = d /\ OnPattern(visits[d].series, d)
               /\ visits[d].state = "open" /\ d \notin Moving => Own(visits[d].series, d)

\* The occurrences made for earlier dates.
Past(d) == {e \in InSeries(visits[d].series) : e < d}

\* A split that is about to be stored.
Planned(w) ==
    /\ w.selected \in Open(Dates) /\ visits[w.selected].series = w.source
    /\ RuleOf(w.source) # Once /\ w.target \in FreshSeries
    /\ w.source \in shifted => w.target \in shifted
    /\ \/ w.scope = "this_occurrence" /\ w.rule = Once /\ w.todo = {w.selected}
       \/ /\ w.scope = "this_and_future"
          /\ Recurs(w.source) =>
               /\ w.rule = recurrenceForThisAndFutureSplit(w.selected, Past(w.selected))
               /\ w.todo = planRecurringSeriesScope(w.selected, w.scope, Past(w.selected))

\* One that was stored: its occurrences are of the series split off.
Moved(w) ==
    /\ w.target \in Made
    /\ Recurs(w.target) => \A d \in w.todo : visits[d].date = d /\ Own(w.target, d)

\* What a save keeps of itself.
IsWork(w) ==
    w \in [kind : {w.kind}, selected : {w.selected}, scope : {w.scope}, source : {w.source},
           target : {w.target}, rule : {w.rule}, shift : {w.shift}, todo : {w.todo},
           first : {w.first}]

\* What is to be done is open and in the source series.
WorkOK(w) ==
    /\ IsWork(w)
    /\ w.source \in Made /\ w.todo # {} /\ w.todo \subseteq Open(Dates) /\ w.first \in BOOLEAN
    /\ \A d \in w.todo : visits[d].series = w.source
    /\ w.target # w.source => IF w.first THEN Planned(w) ELSE Moved(w)
    /\ w.kind = "delete" => w.target = w.source
    /\ w.shift \subseteq Int /\ (w.target \notin shifted => w.shift = {0})

ChoreOK == (\A w \in chore : WorkOK(w)) /\ (\A v, w \in chore : v = w)

SplitInv == SeriesOK /\ VisitsOK /\ ChoreOK

\* A rule promises what the expansion has.
LEMMA PromisesIs ==
    ASSUME SeriesOK, NEW id \in Made, id \notin shifted, NEW d \in Int
    PROVE  Promises(id, d) <=> Recurs(id) /\ Own(id, d)
<1>1. CASE Recurs(id)
  <2>1. ValidRule(RuleOf(id)) /\ ValidAnchor(AnchorOf(id), RuleOf(id).pattern)
    BY <1>1 DEF SeriesOK, IsRule
  <2>2. d \in expandRecurrenceDates(AnchorOf(id), RuleOf(id), d, d) <=>
          d \in Occurs(AnchorOf(id), RuleOf(id).pattern) /\ d <= d /\ Leaves(RuleOf(id), AnchorOf(id), d)
    BY <2>1, ExpansionIs
  <2> QED
    BY <1>1, <2>2 DEF Promises, Own, OnPattern, Recurs
<1>2. CASE ~Recurs(id)
  BY <1>2 DEF Promises, Recurs
<1> QED
  BY <1>1, <1>2

\* No other series has the date.
LEMMA OwnAlone ==
    ASSUME SeriesOK, NEW b \in Made, NEW c \in Made, b # c, Recurs(b), Recurs(c), NEW d \in Int
    PROVE  ~(Own(b, d) /\ Own(c, d))
<1>1. ASSUME NEW x \in Made, NEW y \in Made, Recurs(x), Recurs(y), EndsBefore(x, y), Own(x, d), Own(y, d)
      PROVE  FALSE
  <2>1. AnchorOf(y) <= d /\ AnchorOf(y) \in Int
    BY <1>1 DEF SeriesOK, Own, OnPattern, Occurs, ValidAnchor
  <2>2. RuleOf(x).end.type = "date" /\ RuleOf(x).end.last < AnchorOf(y)
    BY <1>1 DEF EndsBefore
  <2>3. ValidRule(RuleOf(x)) /\ RuleOf(x).end.last \in Int
    BY <1>1, <2>2, EndIs DEF SeriesOK, IsRule
  <2>4. d <= RuleOf(x).end.last
    BY <1>1, <2>2 DEF Own, Leaves
  <2> QED
    BY <2>1, <2>2, <2>3, <2>4
<1> QED
  BY <1>1 DEF SeriesOK

\* The invariant says that a date is promised once.
LEMMA SplitHolds ==
    ASSUME torn \/ SplitInv, torn \in BOOLEAN
    PROVE  SplitKeepsDates
<1> SUFFICES ASSUME chore = {}, ~torn, NEW date \in Open(Dates), Recurs(visits[date].series)
             PROVE  {id \in Made \ shifted : Promises(id, visits[date].date)} = {visits[date].series}
  BY DEF SplitKeepsDates, Recurs
<1>1. SplitInv /\ date \in Dates /\ visits[date].state = "open"
  BY DEF Open
<1>2. date \in Int /\ visits[date].series \in Made
  BY <1>1 DEF SplitInv, VisitsOK
<1>3. date \notin Moving
  BY DEF Moving
<1>4. Own(visits[date].series, date) /\ visits[date].date = date
  BY <1>1, <1>3 DEF SplitInv, VisitsOK
<1>5. SeriesOK
  BY <1>1 DEF SplitInv
<1>6. ASSUME NEW id \in Made, id \notin shifted, id # visits[date].series PROVE ~Promises(id, date)
  BY <1>2, <1>4, <1>5, <1>6, PromisesIs, OwnAlone
<1>7. Promises(visits[date].series, date) /\ visits[date].series \notin shifted
  BY <1>2, <1>4, <1>5, PromisesIs DEF Recurs
<1> QED
  BY <1>2, <1>4, <1>6, <1>7

\* What follows from the series alone stays with them.
LEMMA SeriesStays ==
    ASSUME SeriesOK, UNCHANGED series, shifted \subseteq shifted'
    PROVE  /\ SeriesOK' /\ Made' = Made
           /\ \A id : /\ RuleOf(id)' = RuleOf(id) /\ AnchorOf(id)' = AnchorOf(id)
                      /\ Recurs(id)' => Recurs(id)
                      /\ UNCHANGED shifted => (Recurs(id)' <=> Recurs(id))
           /\ \A id, d : (OnPattern(id, d)' <=> OnPattern(id, d)) /\ (Own(id, d)' <=> Own(id, d))
<1>1. Made' = Made /\ \A id : RuleOf(id)' = RuleOf(id) /\ AnchorOf(id)' = AnchorOf(id)
  BY DEF Made, RuleOf, AnchorOf
<1>2. \A id : (Recurs(id)' => Recurs(id)) /\ (UNCHANGED shifted => (Recurs(id)' <=> Recurs(id)))
  BY <1>1 DEF Recurs
<1>3. \A id, d : (OnPattern(id, d)' <=> OnPattern(id, d)) /\ (Own(id, d)' <=> Own(id, d))
  BY <1>1 DEF Own, OnPattern
<1>4. SeriesOK'
  BY <1>1, <1>2 DEF SeriesOK, EndsBefore
<1> QED
  BY <1>1, <1>2, <1>3, <1>4

\* Steps that touch neither series, occurrences nor saves.
LEMMA NothingMoves ==
    ASSUME SplitInv, UNCHANGED <<series, visits, chore, shifted>>
    PROVE  SplitInv'
<1>1. /\ SeriesOK' /\ Made' = Made
      /\ \A id : RuleOf(id)' = RuleOf(id) /\ AnchorOf(id)' = AnchorOf(id) /\ (Recurs(id)' <=> Recurs(id))
      /\ \A id, d : (OnPattern(id, d)' <=> OnPattern(id, d)) /\ (Own(id, d)' <=> Own(id, d))
  BY SeriesStays DEF SplitInv
<1>2. Dates' = Dates /\ Moving' = Moving /\ \A dates : Open(dates)' = Open(dates)
  BY DEF Dates, Moving, Open
<1>3. VisitsOK'
  BY <1>1, <1>2 DEF SplitInv, VisitsOK
<1>4. FreshSeries' = FreshSeries /\ (\A id : InSeries(id)' = InSeries(id)) /\ \A d : Past(d)' = Past(d)
  BY <1>1, <1>2 DEF FreshSeries, InSeries, Past
<1>5. \A d, before : recurrenceForThisAndFutureSplit(d, before)' = recurrenceForThisAndFutureSplit(d, before)
  BY <1>1 DEF recurrenceForThisAndFutureSplit
<1>6. \A d, scope, before :
        planRecurringSeriesScope(d, scope, before)' = planRecurringSeriesScope(d, scope, before)
  BY <1>2, <1>4 DEF planRecurringSeriesScope
<1>7. ASSUME NEW w PROVE WorkOK(w)' <=> WorkOK(w)
  <2>1. Planned(w)' <=> Planned(w)
    BY <1>1, <1>2, <1>4, <1>5, <1>6 DEF Planned
  <2>2. Moved(w)' <=> Moved(w)
    BY <1>1 DEF Moved
  <2> QED
    BY <1>1, <1>2, <2>1, <2>2 DEF WorkOK
<1>8. ChoreOK'
  BY <1>7 DEF SplitInv, ChoreOK
<1> QED
  BY <1>1, <1>3, <1>8 DEF SplitInv

\* Occurrences are finished or removed.
LEMMA VisitsKeep ==
    ASSUME SplitInv, UNCHANGED series, shifted \subseteq shifted',
           visits' = [d \in Dates' |-> visits'[d]], Dates' \subseteq Dates,
           \A d \in Dates' : /\ visits'[d] \in [series : Made, state : States, date : Int]
                             /\ visits'[d].series = visits[d].series
                             /\ Recurs(visits[d].series) => visits'[d].date = visits[d].date
                             /\ visits'[d].state = "open" /\ d \notin Moving' =>
                                  visits[d].state = "open" /\ d \notin Moving
    PROVE  VisitsOK'
<1>1. /\ Made' = Made
      /\ \A id : Recurs(id)' => Recurs(id)
      /\ \A id, d : (OnPattern(id, d)' <=> OnPattern(id, d)) /\ (Own(id, d)' <=> Own(id, d))
  BY SeriesStays DEF SplitInv
<1> QED
  BY <1>1 DEF SplitInv, VisitsOK

\* A created series has the dates of its expansion.
LEMMA CreationKeeps ==
    ASSUME SplitInv, createCalendarMission
    PROVE  SplitInv'
<1>1. PICK rule \in Rules, anchor \in Anchors :
        LET dates == expandRecurrenceDates(anchor, rule, anchor, anchor + Materialized)
        IN  /\ series' = [series EXCEPT ![1] = {[rule |-> rule, anchor |-> anchor]}]
            /\ visits' = [date \in dates |-> Visit(1, date)]
  BY DEF createCalendarMission
<1>2. PICK dates : dates = expandRecurrenceDates(anchor, rule, anchor, anchor + Materialized)
  OBVIOUS
<1>3. Made = {} /\ UNCHANGED chore
  BY DEF createCalendarMission
<1>4. chore = {} /\ chore' = {}
  BY <1>3 DEF SplitInv, ChoreOK, WorkOK
<1>5. /\ rule = [pattern |-> rule.pattern, end |-> rule.end]
      /\ rule.pattern \in Patterns /\ rule.end \in RuleEnds
  BY DEF Rules
<1>6. IsRule(rule)
  BY <1>5, RulesAssumption DEF IsRule, ValidRule
<1>7. anchor \in CalendarDays /\ anchor \in Nat /\ Materialized \in Nat
  BY DaysAssumption, SeriesAssumption, StartsAre, LengthIs DEF CalendarDays
<1>8. ValidAnchor(anchor, rule.pattern)
  BY <1>7 DEF ValidAnchor
<1>9. 1 \in SeriesIds /\ series = [id \in SeriesIds |-> series[id]]
  BY SeriesAssumption DEF SeriesIds, SplitInv, SeriesOK
<1>10. series'[1] = {[rule |-> rule, anchor |-> anchor]} /\ \A id \in SeriesIds : id # 1 => series'[id] = series[id]
  BY <1>1, <1>9
<1>11. Made' = {1}
  BY <1>3, <1>9, <1>10 DEF Made
<1>12. RuleOf(1)' = rule /\ AnchorOf(1)' = anchor
  <2>1. /\ (CHOOSE one \in series'[1] : TRUE).rule = rule
        /\ (CHOOSE one \in series'[1] : TRUE).anchor = anchor
    <3>1. PICK one : one = [rule |-> rule, anchor |-> anchor]
      OBVIOUS
    <3>2. one.rule = rule /\ one.anchor = anchor
      BY <3>1
    <3>3. series'[1] = {one}
      BY <1>10, <3>1
    <3>4. (CHOOSE other \in series'[1] : TRUE) = one
      BY <3>3
    <3> QED
      BY <3>2, <3>4
  <2> QED
    BY <2>1 DEF RuleOf, AnchorOf
<1>13. SeriesOK'
  <2>1. series' = [id \in SeriesIds |-> series'[id]]
    BY <1>1, <1>9
  <2> QED
    BY <1>6, <1>8, <1>10, <1>11, <1>12, <2>1 DEF SeriesOK
<1>14. VisitsOK'
  <2>1. Dates' = dates /\ \A d \in dates : visits'[d] = Visit(1, d)
    BY <1>1, <1>2 DEF Dates
  <2>2. ASSUME NEW d \in dates PROVE d \in Nat /\ Own(1, d)' /\ OnPattern(1, d)'
    <3>1. anchor + Materialized \in Int
      BY <1>7
    <3>2. d \in Occurs(anchor, rule.pattern) /\ anchor <= d /\ Leaves(rule, anchor, d)
      BY <1>2, <1>6, <1>7, <1>8, <3>1, ExpansionIs DEF IsRule
    <3> QED
      BY <1>7, <1>12, <3>2 DEF Own, OnPattern, Occurs
  <2>3. visits' = [d \in Dates' |-> visits'[d]]
    BY <1>1, <1>2, <2>1
  <2> QED
    <3>1. ASSUME NEW d \in Dates'
          PROVE  /\ visits'[d].series = 1 /\ visits'[d].state = "open" /\ visits'[d].date = d
                 /\ visits'[d] \in [series : {1}, state : States, date : Int]
      <4>1. PICK v : v = [series |-> 1, state |-> "open", date |-> d]
        OBVIOUS
      <4>2. visits'[d] = v
        BY <2>1, <4>1 DEF Visit
      <4>3. d \in Int /\ "open" \in States
        BY <2>1, <2>2 DEF States
      <4>4. v.series = 1 /\ v.state = "open" /\ v.date = d
        BY <4>1
      <4>5. v \in [series : {1}, state : States, date : Int]
        BY <4>1, <4>3
      <4> QED
        BY <4>2, <4>4, <4>5
    <3>2. \A d \in Dates' : visits'[d] \in [series : Made', state : States, date : Int]
      <4>1. 1 \in Made'
        BY <1>11
      <4> QED
        BY <3>1, <4>1
    <3>3. \A d \in Dates' : visits'[d].date = d
                             /\ (OnPattern(visits[d].series, d) /\ Own(visits[d].series, d))'
      <4>1. \A d \in Dates' : (OnPattern(1, d) /\ Own(1, d))'
        BY <2>1, <2>2
      <4> QED
        BY <3>1, <4>1
    <3>4. Dates' \subseteq Nat
      BY <2>1, <2>2
    <3> QED
      BY <2>3, <3>2, <3>3, <3>4 DEF VisitsOK
<1>15. ChoreOK'
  BY <1>4 DEF ChoreOK
<1> QED
  BY <1>13, <1>14, <1>15 DEF SplitInv

\* Where dates were not moved, those before an occurrence are those made for earlier dates.
LEMMA PrecedingIs ==
    ASSUME VisitsOK, NEW d \in Dates, NEW before \in Preceding(d)
    PROVE  d \notin before /\ (Recurs(visits[d].series) => before = Past(d))
<1>1. PICK mine : mine = InSeries(visits[d].series)
  OBVIOUS
<1>2. PICK beside \in SUBSET {e \in mine \ {d} : visits[e].date = visits[d].date} :
        before = {e \in mine : visits[e].date < visits[d].date} \cup beside
  BY <1>1 DEF Preceding
<1>3. visits[d].date \in Int
  BY DEF VisitsOK
<1>4. d \notin before
  BY <1>2, <1>3
<1>5. ASSUME Recurs(visits[d].series) PROVE before = Past(d)
  <2>1. \A e \in mine : e \in Nat /\ visits[e].date = e
    BY <1>1, <1>5 DEF InSeries, VisitsOK
  <2>2. d \in Nat /\ visits[d].date = d
    BY <1>5 DEF VisitsOK
  <2>3. beside = {}
    BY <1>2, <2>1, <2>2
  <2>4. before = {e \in mine : e < d}
    BY <1>2, <2>1, <2>2, <2>3
  <2> QED
    BY <1>1, <2>4 DEF Past
<1> QED
  BY <1>4, <1>5

\* A scope takes in the selected occurrence and open ones of its series.
LEMMA PlanIs ==
    ASSUME NEW d, d \in Open(Dates), NEW scope \in Scopes, NEW before, d \notin before
    PROVE  /\ d \in planRecurringSeriesScope(d, scope, before)
           /\ planRecurringSeriesScope(d, scope, before) \subseteq Open(Dates)
           /\ \A e \in planRecurringSeriesScope(d, scope, before) : visits[e].series = visits[d].series
           /\ scope = "this_occurrence" => planRecurringSeriesScope(d, scope, before) = {d}
           /\ scope = "this_and_future" =>
                planRecurringSeriesScope(d, scope, before)
                  = {e \in Open(Dates) : visits[e].series = visits[d].series /\ e \notin before}
<1>1. d \in Dates /\ visits[d].state = "open" /\ d \in InSeries(visits[d].series)
  BY DEF Open, InSeries
<1>2. CASE scope = "this_occurrence"
  <2>1. planRecurringSeriesScope(d, scope, before) = Open({d})
    BY <1>2 DEF planRecurringSeriesScope
  <2>2. Open({d}) = {d}
    BY <1>1 DEF Open
  <2>3. planRecurringSeriesScope(d, scope, before) = {d}
    BY <2>1, <2>2
  <2>4. scope # "this_and_future"
    BY <1>2
  <2> QED
    BY <1>2, <2>3, <2>4
<1>3. CASE scope = "this_and_future"
  <2>1. planRecurringSeriesScope(d, scope, before) = Open(InSeries(visits[d].series) \ before)
    BY <1>3 DEF planRecurringSeriesScope
  <2>2. scope # "this_occurrence"
    BY <1>3
  <2>3. Open(InSeries(visits[d].series) \ before)
          = {e \in Open(Dates) : visits[e].series = visits[d].series /\ e \notin before}
    BY DEF Open, InSeries
  <2>4. planRecurringSeriesScope(d, scope, before)
          = {e \in Open(Dates) : visits[e].series = visits[d].series /\ e \notin before}
    BY <2>1, <2>3
  <2>5. /\ d \in planRecurringSeriesScope(d, scope, before)
        /\ planRecurringSeriesScope(d, scope, before) \subseteq Open(Dates)
        /\ \A e \in planRecurringSeriesScope(d, scope, before) : visits[e].series = visits[d].series
    BY <2>4
  <2> QED
    BY <2>2, <2>4, <2>5
<1>4. CASE scope = "entire_series"
  <2>1. planRecurringSeriesScope(d, scope, before) = Open(InSeries(visits[d].series))
    BY <1>4 DEF planRecurringSeriesScope
  <2> QED
    BY <1>1, <1>4, <2>1 DEF Open, InSeries
<1> QED
  BY <1>2, <1>3, <1>4 DEF Scopes

\* A save or a deletion is planned: only a details save moves dates.
LEMMA BeginKeeps ==
    ASSUME SplitInv, NEW kind, NEW d \in Dates, NEW scope \in Scopes, NEW before \in Preceding(d),
           NEW target, NEW rule, NEW shift, shift \subseteq Int,
           Selectable(d), Begin(kind, d, scope, before, target, rule, shift), UNCHANGED <<series, visits>>,
           \/ target = visits[d].series
           \/ /\ target \in FreshSeries /\ kind # "delete"
              /\ \/ scope = "this_occurrence" /\ rule = Once
                 \/ scope = "this_and_future" /\ rule = recurrenceForThisAndFutureSplit(d, before)
    PROVE  SplitInv'
<1>0. PICK source : source = visits[d].series
  OBVIOUS
<1>1. /\ shifted \subseteq shifted' /\ (target \notin shifted' => shift = {0})
      /\ (source \in shifted' => target \in shifted')
  BY <1>0 DEF Begin
<1>2. /\ SeriesOK' /\ Made' = Made
      /\ \A id : RuleOf(id)' = RuleOf(id) /\ AnchorOf(id)' = AnchorOf(id) /\ (Recurs(id)' => Recurs(id))
  BY <1>1, SeriesStays DEF SplitInv
<1>3. Dates' = Dates /\ \A dates : Open(dates)' = Open(dates)
  BY DEF Dates, Open
<1>4. FreshSeries' = FreshSeries /\ (\A id : InSeries(id)' = InSeries(id)) /\ Past(d)' = Past(d)
  BY <1>2, <1>3 DEF FreshSeries, InSeries, Past
<1>5. \A some : recurrenceForThisAndFutureSplit(d, some)' = recurrenceForThisAndFutureSplit(d, some)
  BY <1>2 DEF recurrenceForThisAndFutureSplit
<1>6. \A some : planRecurringSeriesScope(d, scope, some)' = planRecurringSeriesScope(d, scope, some)
  BY <1>3, <1>4 DEF planRecurringSeriesScope
<1>7. PICK w : /\ chore' = {w}
               /\ w = [kind |-> kind, selected |-> d, scope |-> scope, source |-> source,
                       target |-> target, rule |-> rule, shift |-> shift,
                       todo |-> planRecurringSeriesScope(d, scope, before), first |-> TRUE]
  BY <1>0 DEF Begin
<1>8. /\ d \in Open(Dates) /\ RuleOf(source) # Once /\ chore = {} /\ source \in Made
      /\ d \notin before /\ (Recurs(source) => before = Past(d))
  BY <1>0, PrecedingIs DEF Selectable, Open, SplitInv, VisitsOK
<1>9. /\ w.kind = kind /\ w.selected = d /\ w.scope = scope /\ w.source = source
      /\ w.target = target /\ w.rule = rule /\ w.first = TRUE /\ w.shift = shift
      /\ w.todo = planRecurringSeriesScope(d, scope, before)
      /\ IsWork(w)
  BY <1>7 DEF IsWork
<1>10. /\ d \in w.todo /\ w.todo \subseteq Open(Dates) /\ \A e \in w.todo : visits[e].series = source
       /\ scope = "this_occurrence" => w.todo = {d}
  BY <1>0, <1>8, <1>9, PlanIs
<1>11. WorkOK(w)'
  <2>1. ASSUME target # source PROVE Planned(w)'
    <3>1. \/ scope = "this_occurrence" /\ w.rule = Once /\ w.todo = {d}
          \/ scope = "this_and_future" /\ (Recurs(source) =>
               /\ w.rule = recurrenceForThisAndFutureSplit(d, Past(d))
               /\ w.todo = planRecurringSeriesScope(d, scope, Past(d)))
      BY <1>0, <1>8, <1>9, <1>10, <2>1
    <3>2. target \in FreshSeries
      BY <1>0, <2>1
    <3> QED
      BY <1>0, <1>1, <1>2, <1>3, <1>4, <1>5, <1>6, <1>8, <1>9, <3>1, <3>2 DEF Planned
  <2>2. (w.target # w.source => IF w.first THEN Planned(w) ELSE Moved(w))'
    BY <1>9, <2>1
  <2>3. w.kind = "delete" => w.target = w.source
    BY <1>0, <1>9
  <2>4. w.shift \subseteq Int /\ (w.target \notin shifted' => w.shift = {0})
    BY <1>1, <1>9
  <2>5. w.source \in Made' /\ w.todo # {} /\ w.todo \subseteq Open(Dates)' /\ w.first \in BOOLEAN
    BY <1>2, <1>3, <1>8, <1>9, <1>10
  <2>6. \A e \in w.todo : visits'[e].series = w.source
    BY <1>9, <1>10
  <2> QED
    BY <1>9, <2>2, <2>3, <2>4, <2>5, <2>6 DEF WorkOK
<1>12. Moving' = {} /\ Moving = {}
  BY <1>7, <1>8, <1>9 DEF Moving
<1>13. VisitsOK'
  BY <1>1, <1>3, <1>12, VisitsKeep DEF SplitInv, VisitsOK
<1> QED
  BY <1>2, <1>7, <1>11, <1>13 DEF SplitInv, ChoreOK

\* A details save begins with nothing moved.
LEMMA DetailsKeep ==
    ASSUME SplitInv, NEW d \in Dates, NEW scope \in Scopes, saveCalendarMissionDetails(d, scope)
    PROVE  SplitInv'
<1>1. Selectable(d) /\ UNCHANGED <<series, visits>>
  BY DEF saveCalendarMissionDetails
<1>2. PICK before \in Preceding(d), shift \in Shifts,
           target \in IF scope = "entire_series" THEN {visits[d].series} ELSE FreshSeries :
        Begin("details", d, scope, before, target,
             CASE scope = "this_occurrence" -> Once
               [] scope = "this_and_future" -> recurrenceForThisAndFutureSplit(d, before)
               [] scope = "entire_series" -> RuleOf(target),
             shift)
  BY DEF saveCalendarMissionDetails
<1>3. shift \subseteq Int
  <2>1. PICK n \in Int : shift \in {{n}, {n, n + 1}}
    BY ShiftsAssumption
  <2>2. n + 1 \in Int
    BY <2>1
  <2> QED
    BY <2>1, <2>2
<1>4. CASE scope = "this_occurrence"
  BY <1>1, <1>2, <1>3, <1>4, BeginKeeps
<1>5. CASE scope = "this_and_future"
  BY <1>1, <1>2, <1>3, <1>5, BeginKeeps
<1>6. CASE scope = "entire_series"
  BY <1>1, <1>2, <1>3, <1>6, BeginKeeps
<1> QED
  BY <1>4, <1>5, <1>6 DEF Scopes

\* So does a drag.
LEMMA AdjustmentKeeps ==
    ASSUME SplitInv, NEW d \in Dates, NEW scope \in Scopes, saveCalendarMissionAdjustment(d, scope)
    PROVE  SplitInv'
<1>1. Selectable(d) /\ UNCHANGED <<series, visits>> /\ {0} \subseteq Int
  BY DEF saveCalendarMissionAdjustment
<1>2. PICK before \in Preceding(d),
           target \in IF scope = "this_and_future" THEN FreshSeries ELSE {visits[d].series} :
        Begin("adjustment", d, scope, before, target,
              IF scope = "this_and_future" THEN recurrenceForThisAndFutureSplit(d, before)
              ELSE RuleOf(target),
              {0})
  BY DEF saveCalendarMissionAdjustment
<1>3. CASE scope = "this_and_future"
  BY <1>1, <1>2, <1>3, BeginKeeps
<1>4. CASE scope # "this_and_future"
  BY <1>1, <1>2, <1>4, BeginKeeps
<1> QED
  BY <1>3, <1>4

\* And a deletion.
LEMMA DeletionKeeps ==
    ASSUME SplitInv, NEW d \in Dates, NEW scope \in Scopes, deleteCalendarMission(d, scope)
    PROVE  SplitInv'
<1>1. PICK before \in Preceding(d) : Begin("delete", d, scope, before, visits[d].series, Once, {0})
  BY DEF deleteCalendarMission
<1>2. {0} \subseteq Int /\ Selectable(d) /\ UNCHANGED <<series, visits>>
  BY DEF deleteCalendarMission
<1> QED
  BY <1>1, <1>2, BeginKeeps

\* The least of some numbers.
LEMMA LeastIs ==
    ASSUME NEW S, S \subseteq Nat, S # {}
    PROVE  Min(S) \in S /\ \A x \in S : Min(S) <= x
<1>1. \E x \in S : \A y \in S : x <= y
  BY LeastNumber
<1> QED
  BY <1>1 DEF Min

\* The save that is left when one occurrence is done.
GoesOn(v, w, d) ==
    /\ chore' = {v} /\ w.todo # {d} /\ IsWork(v)
    /\ v.kind = w.kind /\ v.source = w.source /\ v.target = w.target /\ v.shift = w.shift
    /\ v.todo = w.todo \ {d} /\ v.first = FALSE

\* A transaction of a save takes one occurrence from the list.
LEMMA ProgressIs ==
    ASSUME NEW w, IsWork(w), NEW d, Progress(w, d)
    PROVE  (chore' = {} /\ w.todo = {d}) \/ \E v : GoesOn(v, w, d)
<1>1. PICK v : v = [w EXCEPT !.todo = @ \ {d}, !.first = FALSE]
  OBVIOUS
<1>2. /\ v.kind = w.kind /\ v.source = w.source /\ v.target = w.target /\ v.shift = w.shift
      /\ v.todo = w.todo \ {d} /\ v.first = FALSE /\ IsWork(v)
  BY <1>1 DEF IsWork
<1> QED
  BY <1>1, <1>2 DEF Progress, GoesOn

\* What is left of a save is in order if its occurrences are as they were.
LEMMA WorkLeft ==
    ASSUME SplitInv, NEW w \in chore, NEW d \in w.todo, Progress(w, d), Made \subseteq Made',
           UNCHANGED shifted,
           \A e \in Open(Dates) : e # d => e \in Open(Dates)' /\ visits'[e] = visits[e],
           w.target # w.source =>
             /\ w.target \in Made'
             /\ Recurs(w.target)' => \A e \in w.todo : visits[e].date = e /\ Own(w.target, e)'
    PROVE  ChoreOK'
<1>1. WorkOK(w)
  BY DEF SplitInv, ChoreOK
<1>2. CASE chore' = {}
  BY <1>2 DEF ChoreOK
<1>3. CASE chore' # {}
  <2>1. PICK v : /\ chore' = {v} /\ w.todo # {d} /\ IsWork(v)
                 /\ v.kind = w.kind /\ v.source = w.source /\ v.target = w.target /\ v.shift = w.shift
                 /\ v.todo = w.todo \ {d} /\ v.first = FALSE
    <3>1. IsWork(w)
      BY <1>1 DEF WorkOK
    <3>2. (chore' = {} /\ w.todo = {d}) \/ \E v : GoesOn(v, w, d)
      BY <3>1, ProgressIs
    <3> QED
      BY <1>3, <3>2 DEF GoesOn
  <2>3. /\ w.source \in Made /\ w.todo # {} /\ w.todo \subseteq Open(Dates)
        /\ \A e \in w.todo : visits[e].series = w.source
        /\ w.kind = "delete" => w.target = w.source
        /\ w.shift \subseteq Int /\ (w.target \notin shifted => w.shift = {0})
    BY <1>1 DEF WorkOK
  <2>4. v.todo # {} /\ v.todo \subseteq Open(Dates)' /\ \A e \in v.todo : visits'[e].series = v.source
    BY <2>1, <2>3
  <2>5. v.target # v.source => Moved(v)'
    BY <2>1, <2>3 DEF Moved
  <2>6. WorkOK(v)'
    BY <2>1, <2>3, <2>4, <2>5 DEF WorkOK
  <2> QED
    BY <2>1, <2>6 DEF ChoreOK
<1> QED
  BY <1>2, <1>3

\* An occurrence of a series that goes on as it is is saved or deleted.
LEMMA InPlaceKeeps ==
    ASSUME SplitInv, NEW w \in chore, w.target = w.source, NEW d \in w.todo, Progress(w, d),
           UNCHANGED <<series, shifted>>,
           Dates' = Dates, visits' = [e \in Dates |-> visits'[e]],
           \A e \in Dates : e # d => visits'[e] = visits[e],
           visits'[d] \in [series : {w.source}, state : States, date : Int],
           Recurs(w.source) => visits'[d].date = visits[d].date
    PROVE  SplitInv'
<1>1. /\ SeriesOK' /\ Made' = Made
  BY SeriesStays DEF SplitInv
<1>2. /\ WorkOK(w) /\ chore = {w} /\ d \in Dates
      /\ visits[d].series = w.source /\ visits[d].state = "open" /\ w.source \in Made
  BY DEF SplitInv, ChoreOK, WorkOK, Open
<1>3. \A e \in Dates : visits[e] \in [series : Made, state : States, date : Int]
  BY DEF SplitInv, VisitsOK
<1>4. \A e \in Dates : /\ visits'[e] \in [series : Made, state : States, date : Int]
                       /\ visits'[e].series = visits[e].series
                       /\ Recurs(visits[e].series) => visits'[e].date = visits[e].date
                       /\ visits'[e].state = "open" => visits[e].state = "open"
  BY <1>2, <1>3
<1>5. Moving = {}
  BY <1>2 DEF Moving
<1>6. VisitsOK'
  BY <1>4, <1>5, VisitsKeep
<1>7. \A e \in Open(Dates) : e # d => e \in Open(Dates)' /\ visits'[e] = visits[e]
  BY DEF Open
<1>8. ChoreOK'
  BY <1>1, <1>7, WorkLeft
<1> QED
  BY <1>1, <1>6, <1>8 DEF SplitInv

\* What one transaction of a save does to the occurrences.
Saves(w, d, n) ==
    /\ Progress(w, d) /\ UNCHANGED shifted
    /\ visits' = [visits EXCEPT ![d].series = w.target, ![d].date = @ + n]

\* It saves one that is to be saved, and moves dates only of series said to be moved.
LEMMA SaveOneIs ==
    ASSUME SplitInv, SaveOne, NEW w \in chore
    PROVE  \E d \in w.todo, n \in Int :
             /\ Saves(w, d, n) /\ (w.target \notin shifted => n = 0)
             /\ IF w.first /\ w.target # w.source
                THEN series' = [series EXCEPT
                       ![w.source] = IF w.scope = "this_and_future"
                                     THEN {[rule |-> splitSourceSeries(RuleOf(w.source), visits[w.selected].date),
                                            anchor |-> AnchorOf(w.source)]}
                                     ELSE series[w.source],
                       ![w.target] = {[rule |-> w.rule, anchor |-> visits[w.selected].date]}]
                ELSE UNCHANGED series
<1>1. WorkOK(w) /\ \A v \in chore : v = w
  BY DEF SplitInv, ChoreOK
<1>2. w.shift \subseteq Int /\ (w.target \notin shifted => w.shift = {0})
  BY <1>1 DEF WorkOK
<1>3. PICK d \in First(w.todo), n \in w.shift :
             /\ visits' = [visits EXCEPT ![d].series = w.target, ![d].date = @ + n]
             /\ Progress(w, d) /\ UNCHANGED shifted
             /\ series' = IF w.first /\ w.target # w.source
                          THEN [series EXCEPT
                       ![w.source] = IF w.scope = "this_and_future"
                                     THEN {[rule |-> splitSourceSeries(RuleOf(w.source), visits[w.selected].date),
                                            anchor |-> AnchorOf(w.source)]}
                                     ELSE series[w.source],
                       ![w.target] = {[rule |-> w.rule, anchor |-> visits[w.selected].date]}]
                          ELSE series
  BY <1>1 DEF SaveOne
<1>4. d \in w.todo /\ n \in Int /\ (w.target \notin shifted => n = 0)
  BY <1>2, <1>3 DEF First
<1> QED
  BY <1>3, <1>4 DEF Saves

\* An occurrence goes to a series: the others stay.
LEMMA OneMoves ==
    ASSUME VisitsOK, NEW d \in Dates, NEW w, NEW n \in Int, Saves(w, d, n)
    PROVE  /\ Dates' = Dates /\ visits' = [e \in Dates' |-> visits'[e]]
           /\ \A e \in Dates : e # d => visits'[e] = visits[e]
           /\ visits'[d].series = w.target /\ visits'[d].state = visits[d].state
           /\ visits'[d].date = visits[d].date + n
           /\ visits'[d] \in [series : {w.target}, state : States, date : Int]
           /\ Open(Dates)' = Open(Dates)
<1>1. visits = [e \in Dates |-> visits[e]]
      /\ visits[d] \in [series : Made, state : States, date : Int]
  BY DEF VisitsOK
<1>2. /\ Dates' = Dates /\ visits' = [e \in Dates |-> visits'[e]]
      /\ \A e \in Dates : e # d => visits'[e] = visits[e]
      /\ visits'[d] = [visits[d] EXCEPT !.series = w.target, !.date = @ + n]
  BY <1>1 DEF Dates, Saves
<1>3. PICK v, x : v = visits[d] /\ x = visits'[d]
  OBVIOUS
<1>4. /\ v \in [series : Made, state : States, date : Int]
      /\ x = [v EXCEPT !.series = w.target, !.date = v.date + n]
  BY <1>1, <1>2, <1>3
<1>5. v.date + n \in Int /\ v.state \in States
  BY <1>4
<1>6. x.series = w.target /\ x.state = v.state /\ x.date = v.date + n
  BY <1>4
<1>7. x \in [series : {w.target}, state : States, date : Int]
  BY <1>4, <1>5
<1>8. Open(Dates)' = Open(Dates)
  BY <1>2, <1>3, <1>6 DEF Open
<1> QED
  BY <1>2, <1>3, <1>6, <1>7, <1>8

\* A save in the series of the occurrence moves it, or stores what it was given.
LEMMA SameSeriesKeeps ==
    ASSUME SplitInv, SaveOne, NEW w \in chore, w.target = w.source
    PROVE  SplitInv'
<1>1. WorkOK(w)
  BY DEF SplitInv, ChoreOK
<1>2. PICK d \in w.todo, n \in Int :
        Saves(w, d, n) /\ (w.target \notin shifted => n = 0) /\ UNCHANGED series
  BY SaveOneIs
<1>3. d \in Dates /\ VisitsOK
  BY <1>1 DEF WorkOK, Open, SplitInv
<1>4. /\ Dates' = Dates /\ visits' = [e \in Dates' |-> visits'[e]]
      /\ \A e \in Dates : e # d => visits'[e] = visits[e]
      /\ visits'[d].date = visits[d].date + n
      /\ visits'[d] \in [series : {w.target}, state : States, date : Int]
  BY <1>2, <1>3, OneMoves
<1>5. ASSUME Recurs(w.source) PROVE visits'[d].date = visits[d].date
  <2>1. n = 0
    BY <1>2, <1>5 DEF Recurs
  <2>2. visits[d].date \in Int
    BY <1>3 DEF VisitsOK
  <2> QED
    BY <1>4, <2>1, <2>2
<1>6. Progress(w, d) /\ UNCHANGED <<series, shifted>>
  BY <1>2 DEF Saves
<1>7. visits' = [e \in Dates |-> visits'[e]]
  BY <1>4
<1> QED
  BY <1>4, <1>5, <1>6, <1>7, InPlaceKeeps

\* A deleted occurrence is open no more.
LEMMA DeleteOneKeeps ==
    ASSUME SplitInv, DeleteOne
    PROVE  SplitInv'
<1>0. PICK w \in chore : \E one \in First(w.todo) :
        /\ w.kind = "delete" /\ UNCHANGED <<series, shifted>>
        /\ visits' = [visits EXCEPT ![one].state = "deleted"]
        /\ Progress(w, one)
  BY DEF DeleteOne
<1>1. PICK d \in First(w.todo) :
        /\ w.kind = "delete" /\ UNCHANGED <<series, shifted>>
        /\ visits' = [visits EXCEPT ![d].state = "deleted"]
        /\ Progress(w, d)
  BY <1>0
<1>2. WorkOK(w)
  BY DEF SplitInv, ChoreOK
<1>3. /\ w.target = w.source /\ d \in w.todo /\ d \in Dates /\ visits[d].series = w.source
  BY <1>1, <1>2 DEF WorkOK, Open, First
<1>4. /\ visits = [e \in Dates |-> visits[e]]
      /\ visits[d] \in [series : Made, state : States, date : Int]
  BY <1>3 DEF SplitInv, VisitsOK
<1>5. /\ Dates' = Dates /\ visits' = [e \in Dates |-> visits'[e]]
      /\ \A e \in Dates : e # d => visits'[e] = visits[e]
      /\ visits'[d] = [visits[d] EXCEPT !.state = "deleted"]
  BY <1>1, <1>3, <1>4 DEF Dates
<1>6. /\ visits'[d] \in [series : {w.source}, state : States, date : Int]
      /\ visits'[d].date = visits[d].date
  BY <1>3, <1>4, <1>5 DEF States
<1> QED
  BY <1>1, <1>3, <1>5, <1>6, InPlaceKeeps

\* A later transaction of a split moves an occurrence that the new series has.
LEMMA LaterMoves ==
    ASSUME SplitInv, SaveOne, NEW w \in chore, w.target # w.source, ~w.first
    PROVE  SplitInv'
<1>1. WorkOK(w) /\ chore = {w}
  BY DEF SplitInv, ChoreOK
<1>2. w.todo \subseteq Open(Dates) /\ w.todo \subseteq Dates /\ Dates \subseteq Nat /\ w.todo # {}
  BY <1>1 DEF WorkOK, Open, SplitInv, VisitsOK
<1>3. PICK d \in w.todo, n \in Int :
        Saves(w, d, n) /\ (w.target \notin shifted => n = 0) /\ UNCHANGED series
  BY SaveOneIs
<1>4. d \in Dates /\ visits[d].series = w.source /\ visits[d].date \in Int
  BY <1>1, <1>2 DEF WorkOK, SplitInv, VisitsOK
<1>5. Progress(w, d) /\ UNCHANGED shifted
  BY <1>3 DEF Saves
<1>6. Moved(w)
  BY <1>1 DEF WorkOK
<1>7. /\ SeriesOK' /\ Made' = Made
      /\ \A id : Recurs(id)' <=> Recurs(id)
      /\ \A id, e : (OnPattern(id, e)' <=> OnPattern(id, e)) /\ (Own(id, e)' <=> Own(id, e))
  BY <1>3, <1>5, SeriesStays DEF SplitInv
<1>8. /\ Dates' = Dates /\ visits' = [e \in Dates' |-> visits'[e]]
      /\ \A e \in Dates : e # d => visits'[e] = visits[e]
      /\ visits'[d].series = w.target /\ visits'[d].date = visits[d].date + n
      /\ visits'[d] \in [series : {w.target}, state : States, date : Int]
      /\ Open(Dates)' = Open(Dates)
  BY <1>3, <1>4, OneMoves DEF SplitInv
<1>9. Moving = w.todo /\ Moving' = w.todo \ {d}
  <2>1. Moving = w.todo
    BY <1>1, <1>2 DEF Moving
  <2>2. IsWork(w)
    BY <1>1 DEF WorkOK
  <2>3. (chore' = {} /\ w.todo = {d}) \/ \E v : GoesOn(v, w, d)
    BY <1>5, <2>2, ProgressIs
  <2>4. CASE chore' = {} /\ w.todo = {d}
    <3>1. Moving' = {}
      BY <2>4 DEF Moving
    <3> QED
      BY <2>1, <2>4, <3>1
  <2>5. ASSUME NEW v, GoesOn(v, w, d)
        PROVE  Moving' = w.todo \ {d}
    <3>1. \A e : e \in Moving' <=> e \in Dates' /\ e \in v.todo
      BY <2>5 DEF Moving, GoesOn
    <3> QED
      BY <1>2, <1>8, <2>5, <3>1 DEF GoesOn
  <2> QED
    BY <2>1, <2>3, <2>4, <2>5
<1>10. VisitsOK'
  <2>1. ASSUME NEW e \in Dates', e # d
        PROVE  /\ visits'[e] \in [series : Made', state : States, date : Int]
               /\ (Recurs(visits[e].series) =>
                     /\ visits[e].date = e /\ OnPattern(visits[e].series, e)
                     /\ visits[e].state = "open" /\ e \notin Moving => Own(visits[e].series, e))'
    <3>1. e \in Dates /\ visits'[e] = visits[e] /\ (e \notin Moving' => e \notin Moving)
      BY <1>8, <1>9, <2>1
    <3>2. /\ visits[e] \in [series : Made, state : States, date : Int]
          /\ Recurs(visits[e].series) =>
               /\ visits[e].date = e /\ OnPattern(visits[e].series, e)
               /\ visits[e].state = "open" /\ e \notin Moving => Own(visits[e].series, e)
      BY <3>1 DEF SplitInv, VisitsOK
    <3> QED
      BY <1>7, <3>1, <3>2
  <2>2. visits'[d] \in [series : Made', state : States, date : Int]
    BY <1>6, <1>7, <1>8 DEF Moved
  <2>3. ASSUME Recurs(w.target)
        PROVE  visits'[d].date = d /\ OnPattern(w.target, d)' /\ Own(w.target, d)'
    <3>1. n = 0 /\ visits[d].date = d /\ Own(w.target, d)
      BY <1>3, <1>6, <2>3 DEF Moved, Recurs
    <3> QED
      BY <1>4, <1>7, <1>8, <3>1 DEF Own
  <2>4. (Recurs(visits[d].series) =>
           visits[d].date = d /\ OnPattern(visits[d].series, d) /\ Own(visits[d].series, d))'
    BY <1>7, <1>8, <2>3
  <2> QED
    BY <1>2, <1>8, <2>1, <2>2, <2>4 DEF VisitsOK
<1>11. ChoreOK'
  <2>1. \A e \in Open(Dates) : e # d => e \in Open(Dates)' /\ visits'[e] = visits[e]
    BY <1>8 DEF Open
  <2>2. /\ w.target \in Made'
        /\ Recurs(w.target)' => \A e \in w.todo : visits[e].date = e /\ Own(w.target, e)'
    BY <1>6, <1>7 DEF Moved
  <2> QED
    BY <1>5, <1>7, <2>1, <2>2, WorkLeft
<1> QED
  BY <1>7, <1>10, <1>11 DEF SplitInv

Stores(b, rb, ab, c, rc, ac) ==
    series' = [series EXCEPT ![b] = {[rule |-> rb, anchor |-> ab]},
                             ![c] = {[rule |-> rc, anchor |-> ac]}]

\* Two series are stored at once, one of them new.
LEMMA TwoStored ==
    ASSUME SeriesOK, NEW b \in Made, NEW c \in SeriesIds, c \notin Made,
           NEW rb, NEW ab, NEW rc, NEW ac, Stores(b, rb, ab, c, rc, ac), UNCHANGED shifted
    PROVE  /\ Made' = Made \cup {c} /\ series' = [id \in SeriesIds |-> series'[id]]
           /\ (RuleOf(b))' = rb /\ (AnchorOf(b))' = ab /\ (RuleOf(c))' = rc /\ (AnchorOf(c))' = ac
           /\ series'[b] = {[rule |-> rb, anchor |-> ab]} /\ series'[c] = {[rule |-> rc, anchor |-> ac]}
           /\ \A id \in Made : id # b =>
                /\ series'[id] = series[id]
                /\ (RuleOf(id))' = RuleOf(id) /\ (AnchorOf(id))' = AnchorOf(id)
                /\ (Recurs(id))' <=> Recurs(id)
                /\ \A d : ((OnPattern(id, d))' <=> OnPattern(id, d)) /\ ((Own(id, d))' <=> Own(id, d))
<1>1. b \in SeriesIds /\ b # c /\ series = [id \in SeriesIds |-> series[id]]
  BY DEF SeriesOK, Made
<1>2. /\ series' = [id \in SeriesIds |-> series'[id]]
      /\ series'[b] = {[rule |-> rb, anchor |-> ab]} /\ series'[c] = {[rule |-> rc, anchor |-> ac]}
      /\ \A id \in SeriesIds : id # b /\ id # c => series'[id] = series[id]
  <2>1. series' = [series EXCEPT ![b] = {[rule |-> rb, anchor |-> ab]},
                                 ![c] = {[rule |-> rc, anchor |-> ac]}]
    BY DEF Stores
  <2> QED
    BY <1>1, <2>1
<1>3. Made' = Made \cup {c}
  BY <1>1, <1>2 DEF Made
<1>4. (RuleOf(b))' = rb /\ (AnchorOf(b))' = ab /\ (RuleOf(c))' = rc /\ (AnchorOf(c))' = ac
  <2>1. (RuleOf(b))' = rb /\ (AnchorOf(b))' = ab
    <3>1. /\ (CHOOSE one \in series'[b] : TRUE).rule = rb
          /\ (CHOOSE one \in series'[b] : TRUE).anchor = ab
      <4>1. PICK one : one = [rule |-> rb, anchor |-> ab]
        OBVIOUS
      <4>2. one.rule = rb /\ one.anchor = ab
        BY <4>1
      <4>3. series'[b] = {one}
        BY <1>2, <4>1
      <4>4. (CHOOSE other \in series'[b] : TRUE) = one
        BY <4>3
      <4> QED
        BY <4>2, <4>4
    <3> QED
      BY <3>1 DEF RuleOf, AnchorOf
  <2>2. (RuleOf(c))' = rc /\ (AnchorOf(c))' = ac
    <3>1. /\ (CHOOSE one \in series'[c] : TRUE).rule = rc
          /\ (CHOOSE one \in series'[c] : TRUE).anchor = ac
      <4>1. PICK one : one = [rule |-> rc, anchor |-> ac]
        OBVIOUS
      <4>2. one.rule = rc /\ one.anchor = ac
        BY <4>1
      <4>3. series'[c] = {one}
        BY <1>2, <4>1
      <4>4. (CHOOSE other \in series'[c] : TRUE) = one
        BY <4>3
      <4> QED
        BY <4>2, <4>4
    <3> QED
      BY <3>1 DEF RuleOf, AnchorOf
  <2> QED
    BY <2>1, <2>2
<1>5. ASSUME NEW id \in Made, id # b
      PROVE  /\ series'[id] = series[id]
             /\ (RuleOf(id))' = RuleOf(id) /\ (AnchorOf(id))' = AnchorOf(id)
  <2>1. id \in SeriesIds /\ id # c
    BY DEF Made
  <2>2. series'[id] = series[id]
    BY <1>2, <1>5, <2>1
  <2> QED
    BY <2>2 DEF RuleOf, AnchorOf
<1>6. ASSUME NEW id \in Made, id # b
      PROVE  /\ (Recurs(id))' <=> Recurs(id)
             /\ \A d : ((OnPattern(id, d))' <=> OnPattern(id, d)) /\ ((Own(id, d))' <=> Own(id, d))
  BY <1>5, <1>6 DEF Recurs, OnPattern, Own
<1> QED
  BY <1>2, <1>3, <1>4, <1>5, <1>6

\* An occurrence edited alone becomes a series of its own.
LEMMA AloneMoves ==
    ASSUME SplitInv, SaveOne, NEW w \in chore, w.target # w.source, w.first,
           w.scope = "this_occurrence"
    PROVE  SplitInv'
<1>1. WorkOK(w) /\ chore = {w} /\ Planned(w)
  BY DEF SplitInv, ChoreOK, WorkOK
<1>2. PICK s, day : s = w.selected /\ day = visits[s].date
  OBVIOUS
<1>3. /\ s \in Open(Dates) /\ s \in Dates /\ Dates \subseteq Nat /\ w.source \in Made
      /\ w.target \in SeriesIds /\ w.target \notin Made /\ w.rule = Once /\ w.todo = {s}
  BY <1>1, <1>2 DEF Planned, FreshSeries, Open, SplitInv, VisitsOK, WorkOK
<1>4. PICK d \in w.todo, n \in Int :
        /\ Saves(w, d, n)
        /\ series' = [series EXCEPT ![w.source] = series[w.source],
                                    ![w.target] = {[rule |-> w.rule, anchor |-> visits[s].date]}]
  BY <1>2, SaveOneIs
<1>5. d = s /\ d \in Dates
  BY <1>3, <1>4
<1>6. Progress(w, d) /\ UNCHANGED shifted
  BY <1>4 DEF Saves
<1>7. chore' = {}
  BY <1>3, <1>5, <1>6 DEF Progress
<1>8. series[w.source] = {[rule |-> RuleOf(w.source), anchor |-> AnchorOf(w.source)]}
  BY <1>3 DEF SplitInv, SeriesOK
<1>9. /\ Made' = Made \cup {w.target} /\ series' = [id \in SeriesIds |-> series'[id]]
      /\ (RuleOf(w.source))' = RuleOf(w.source) /\ (AnchorOf(w.source))' = AnchorOf(w.source)
      /\ (RuleOf(w.target))' = Once /\ (AnchorOf(w.target))' = day
      /\ series'[w.source] = series[w.source]
      /\ series'[w.target] = {[rule |-> Once, anchor |-> day]}
      /\ \A id \in Made : id # w.source =>
                /\ series'[id] = series[id]
                /\ (RuleOf(id))' = RuleOf(id) /\ (AnchorOf(id))' = AnchorOf(id)
  <2>1. Stores(w.source, RuleOf(w.source), AnchorOf(w.source), w.target, Once, day)
    BY <1>2, <1>3, <1>4, <1>8 DEF Stores
  <2>2. SeriesOK
    BY DEF SplitInv
  <2>3. /\ Made' = Made \cup {w.target} /\ series' = [id \in SeriesIds |-> series'[id]]
        /\ (RuleOf(w.source))' = RuleOf(w.source) /\ (AnchorOf(w.source))' = AnchorOf(w.source)
        /\ (RuleOf(w.target))' = Once /\ (AnchorOf(w.target))' = day
    BY <1>3, <1>6, <2>1, <2>2, TwoStored
  <2>4. /\ series'[w.source] = {[rule |-> RuleOf(w.source), anchor |-> AnchorOf(w.source)]}
        /\ series'[w.target] = {[rule |-> Once, anchor |-> day]}
    BY <1>3, <1>6, <2>1, <2>2, TwoStored
  <2>5. \A id \in Made : id # w.source =>
                /\ series'[id] = series[id]
                /\ (RuleOf(id))' = RuleOf(id) /\ (AnchorOf(id))' = AnchorOf(id)
    BY <1>3, <1>6, <2>1, <2>2, TwoStored
  <2> QED
    BY <1>8, <2>3, <2>4, <2>5
<1>10. \A id \in Made : /\ series'[id] = series[id]
                        /\ (RuleOf(id))' = RuleOf(id) /\ (AnchorOf(id))' = AnchorOf(id)
  BY <1>9
<1>11. ~(Recurs(w.target))' /\ \A id \in Made :
          /\ (Recurs(id))' <=> Recurs(id)
          /\ \A e : ((OnPattern(id, e))' <=> OnPattern(id, e)) /\ ((Own(id, e))' <=> Own(id, e))
  BY <1>6, <1>9, <1>10 DEF Recurs, OnPattern, Own
<1>12. SeriesOK'
  <2>1. \A id \in Made : /\ series[id] = {[rule |-> RuleOf(id), anchor |-> AnchorOf(id)]}
                         /\ Recurs(id) => IsRule(RuleOf(id)) /\ ValidAnchor(AnchorOf(id), RuleOf(id).pattern)
    BY DEF SplitInv, SeriesOK
  <2>2. \A id \in Made' : (/\ series[id] = {[rule |-> RuleOf(id), anchor |-> AnchorOf(id)]}
                           /\ Recurs(id) => IsRule(RuleOf(id)) /\ ValidAnchor(AnchorOf(id), RuleOf(id).pattern))'
    BY <1>9, <1>10, <1>11, <2>1
  <2>3. \A b, c \in Made : b # c /\ Recurs(b) /\ Recurs(c) => EndsBefore(b, c) \/ EndsBefore(c, b)
    BY DEF SplitInv, SeriesOK
  <2>4. \A b, c \in Made : (EndsBefore(b, c))' <=> EndsBefore(b, c)
    BY <1>10 DEF EndsBefore
  <2>5. \A b, c \in Made' : b # c /\ (Recurs(b))' /\ (Recurs(c))' => (EndsBefore(b, c))' \/ (EndsBefore(c, b))'
    BY <1>9, <1>11, <2>3, <2>4
  <2> QED
    BY <1>9, <2>2, <2>5 DEF SeriesOK
<1>13. Moving = {}
  BY <1>1 DEF Moving
<1>14. VisitsOK'
  <2>1. /\ Dates' = Dates /\ visits' = [e \in Dates' |-> visits'[e]]
        /\ \A e \in Dates : e # d => visits'[e] = visits[e]
        /\ visits'[d].series = w.target
        /\ visits'[d] \in [series : {w.target}, state : States, date : Int]
    BY <1>4, <1>5, OneMoves DEF SplitInv
  <2>2. ASSUME NEW e \in Dates', e # d
        PROVE  /\ visits'[e] \in [series : Made', state : States, date : Int]
               /\ (Recurs(visits[e].series) =>
                     /\ visits[e].date = e /\ OnPattern(visits[e].series, e)
                     /\ visits[e].state = "open" /\ e \notin Moving => Own(visits[e].series, e))'
    <3>1. e \in Dates /\ visits'[e] = visits[e] /\ visits[e].series \in Made
      BY <2>1, <2>2 DEF SplitInv, VisitsOK
    <3>2. /\ visits[e] \in [series : Made, state : States, date : Int]
          /\ Recurs(visits[e].series) =>
               /\ visits[e].date = e /\ OnPattern(visits[e].series, e)
               /\ visits[e].state = "open" => Own(visits[e].series, e)
      BY <1>13, <3>1 DEF SplitInv, VisitsOK
    <3> QED
      BY <1>9, <1>11, <3>1, <3>2
  <2>3. /\ visits'[d] \in [series : Made', state : States, date : Int]
        /\ ~(Recurs(visits[d].series))'
    BY <1>9, <1>11, <2>1
  <2> QED
    BY <1>3, <2>1, <2>2, <2>3 DEF VisitsOK
<1> QED
  BY <1>7, <1>12, <1>14 DEF SplitInv, ChoreOK

\* A series ends and another begins: what each has of the dates of the whole.
LEMMA SplitSeries ==
    ASSUME SeriesOK, NEW b \in Made, Recurs(b), NEW c \in SeriesIds, c \notin Made,
           NEW s \in Int, Own(b, s),
           NEW n \in Nat, n <= Cardinality(Earlier(AnchorOf(b), RuleOf(b).pattern, s)),
           Stores(b, splitSourceSeries(RuleOf(b), s), AnchorOf(b), c, adjustedRecurrence(RuleOf(b), n), s),
           UNCHANGED shifted
    PROVE  /\ SeriesOK' /\ Made' = Made \cup {c}
           /\ \A id \in Made : id # b =>
                /\ (Recurs(id))' <=> Recurs(id)
                /\ \A d : ((OnPattern(id, d))' <=> OnPattern(id, d)) /\ ((Own(id, d))' <=> Own(id, d))
           /\ \A d : (OnPattern(b, d))' <=> OnPattern(b, d)
           /\ \A d \in Int : Own(b, d) => IF d < s THEN (Own(b, d))' ELSE (Own(c, d))'
<1> DEFINE r == RuleOf(b)
           a == AnchorOf(b)
<1>1. IsRule(r) /\ ValidAnchor(a, r.pattern) /\ s \in Occurs(a, r.pattern) /\ Leaves(r, a, s)
  BY DEF SeriesOK, Own, OnPattern
<1>2. /\ ValidRule(r) /\ ValidPattern(r.pattern) /\ ValidAnchor(s, r.pattern) /\ a \in Int /\ a <= s
  BY <1>1, TailIs DEF IsRule, ValidRule
<1>3. PICK rb, rc : rb = splitSourceSeries(r, s) /\ rc = adjustedRecurrence(r, n)
  OBVIOUS
<1>4. /\ \A d : d \in Occurs(a, r.pattern) /\ Leaves(r, a, d) =>
           /\ d < s => Leaves(rb, a, d)
           /\ s <= d => d \in Occurs(s, r.pattern) /\ Leaves(rc, s, d)
      /\ r.end.type = "count" => n < r.end.count
  BY <1>1, <1>3, PartsAre
<1>5. /\ IsRule(rb) /\ rb.pattern = r.pattern /\ rb.end = [type |-> "date", last |-> s - 1]
  BY <1>1, <1>3, EndedIs
<1>6. /\ IsRule(rc) /\ rc.pattern = r.pattern
      /\ rc.end.type = r.end.type /\ (r.end.type # "count" => rc = r)
  BY <1>1, <1>3, <1>4, AdjustedIs
<1>7. Stores(b, rb, a, c, rc, s)
  BY <1>3
<1> HIDE DEF r, a
<1>8. /\ Made' = Made \cup {c} /\ series' = [id \in SeriesIds |-> series'[id]]
      /\ (RuleOf(b))' = rb /\ (AnchorOf(b))' = a /\ (RuleOf(c))' = rc /\ (AnchorOf(c))' = s
      /\ series'[b] = {[rule |-> rb, anchor |-> a]} /\ series'[c] = {[rule |-> rc, anchor |-> s]}
  BY <1>7, TwoStored
<1>9. \A id \in Made : id # b =>
                /\ series'[id] = series[id]
                /\ (RuleOf(id))' = RuleOf(id) /\ (AnchorOf(id))' = AnchorOf(id)
                /\ (Recurs(id))' <=> Recurs(id)
                /\ \A d : ((OnPattern(id, d))' <=> OnPattern(id, d)) /\ ((Own(id, d))' <=> Own(id, d))
  BY <1>7, TwoStored
<1>10. \A d : (OnPattern(b, d))' <=> OnPattern(b, d)
  BY <1>5, <1>8 DEF OnPattern, r, a
<1>11. \A d \in Int : Own(b, d) => IF d < s THEN (Own(b, d))' ELSE (Own(c, d))'
  <2> SUFFICES ASSUME NEW d \in Int, Own(b, d) PROVE IF d < s THEN (Own(b, d))' ELSE (Own(c, d))'
    OBVIOUS
  <2>1. d \in Occurs(a, r.pattern) /\ Leaves(r, a, d)
    BY DEF Own, OnPattern, r, a
  <2>2. CASE d < s
    BY <1>4, <1>5, <1>8, <2>1, <2>2 DEF Own, OnPattern
  <2>3. CASE s <= d
    BY <1>4, <1>6, <1>8, <2>1, <2>3 DEF Own, OnPattern
  <2> QED
    BY <2>2, <2>3
<1>12. SeriesOK'
  <2>1. ASSUME NEW id \in Made'
        PROVE  (/\ series[id] = {[rule |-> RuleOf(id), anchor |-> AnchorOf(id)]}
                /\ Recurs(id) => IsRule(RuleOf(id)) /\ ValidAnchor(AnchorOf(id), RuleOf(id).pattern))'
    <3>1. CASE id = b
      BY <1>1, <1>5, <1>8, <3>1
    <3>2. CASE id = c
      BY <1>2, <1>6, <1>8, <3>2
    <3>3. CASE id # b /\ id # c
      BY <1>8, <1>9, <3>3 DEF SeriesOK
    <3> QED
      BY <3>1, <3>2, <3>3
  <2>2. \A x, y \in Made : x # y /\ Recurs(x) /\ Recurs(y) => EndsBefore(x, y) \/ EndsBefore(y, x)
    BY DEF SeriesOK
  <2>3. (EndsBefore(b, c))'
    BY <1>5, <1>8 DEF EndsBefore
  <2>4. ASSUME NEW x \in Made, x # b, Recurs(x)
        PROVE  /\ (EndsBefore(x, b))' \/ (EndsBefore(b, x))'
               /\ (EndsBefore(x, c))' \/ (EndsBefore(c, x))'
    <3>1. IsRule(RuleOf(x)) /\ ValidRule(RuleOf(x)) /\ AnchorOf(x) \in Int
      BY <2>4 DEF SeriesOK, IsRule, ValidAnchor
    <3>2. CASE EndsBefore(x, b)
      <4>1. RuleOf(x).end.type = "date" /\ RuleOf(x).end.last < a
        BY <3>2 DEF EndsBefore, a
      <4>2. RuleOf(x).end.last \in Int
        BY <3>1, <4>1, EndIs
      <4>3. RuleOf(x).end.last < s
        BY <1>2, <4>1, <4>2
      <4> QED
        BY <1>8, <1>9, <2>4, <4>1, <4>3 DEF EndsBefore
    <3>3. CASE EndsBefore(b, x)
      <4>1. r.end.type = "date" /\ r.end.last < AnchorOf(x)
        BY <3>3 DEF EndsBefore, r
      <4>2. r.end.last \in Int
        BY <1>2, <4>1, EndIs
      <4>3. s <= r.end.last
        BY <1>1, <4>1 DEF Leaves, r, a
      <4>4. s - 1 < AnchorOf(x)
        BY <3>1, <4>1, <4>2, <4>3
      <4>5. rc = r
        BY <1>6, <4>1
      <4>6. (EndsBefore(b, x))'
        BY <1>5, <1>8, <1>9, <2>4, <4>4 DEF EndsBefore
      <4>7. (EndsBefore(c, x))'
        BY <1>8, <1>9, <2>4, <4>1, <4>5 DEF EndsBefore
      <4> QED
        BY <4>6, <4>7
    <3> QED
      BY <2>2, <2>4, <3>2, <3>3
  <2>5. ASSUME NEW x \in Made, NEW y \in Made, x # y, x # b, y # b, Recurs(x), Recurs(y)
        PROVE  (EndsBefore(x, y))' \/ (EndsBefore(y, x))'
    BY <1>9, <2>2, <2>5 DEF EndsBefore
  <2>6. \A x \in Made : x # b => ((Recurs(x))' <=> Recurs(x))
    BY <1>9
  <2>7. ASSUME NEW x \in Made', NEW y \in Made', x # y, (Recurs(x))', (Recurs(y))'
        PROVE  (EndsBefore(x, y))' \/ (EndsBefore(y, x))'
    <3>1. x \in Made \/ x = c
      BY <1>8
    <3>2. y \in Made \/ y = c
      BY <1>8
    <3>3. CASE x \in Made /\ x # b /\ (y = b \/ y = c)
      BY <2>4, <2>6, <2>7, <3>3
    <3>4. CASE y \in Made /\ y # b /\ (x = b \/ x = c)
      BY <2>4, <2>6, <2>7, <3>4
    <3>5. CASE x \in Made /\ y \in Made /\ x # b /\ y # b
      BY <2>5, <2>6, <2>7, <3>5
    <3>6. CASE (x = b \/ x = c) /\ (y = b \/ y = c)
      BY <2>3, <2>7, <3>6
    <3> QED
      BY <3>1, <3>2, <3>3, <3>4, <3>5, <3>6
  <2> QED
    BY <1>8, <2>1, <2>7 DEF SeriesOK
<1> QED
  BY <1>8, <1>9, <1>10, <1>11, <1>12

\* The first transaction of a split.
LEMMA SplitMoves ==
    ASSUME SplitInv, SaveOne, NEW w \in chore, w.target # w.source, w.first,
           w.scope = "this_and_future", Recurs(w.source)
    PROVE  SplitInv'
<1>1. WorkOK(w) /\ chore = {w} /\ Planned(w)
  BY DEF SplitInv, ChoreOK, WorkOK
<1>2. PICK s, b, c : s = w.selected /\ b = w.source /\ c = w.target
  OBVIOUS
<1>3. /\ s \in Open(Dates) /\ s \in Dates /\ Dates \subseteq Nat /\ b \in Made
      /\ visits[s].series = b /\ visits[s].state = "open" /\ visits[s].date = s
      /\ c \in SeriesIds /\ c \notin Made
      /\ w.rule = recurrenceForThisAndFutureSplit(s, Past(s))
  BY <1>1, <1>2 DEF Planned, FreshSeries, Open, SplitInv, VisitsOK, WorkOK
<1>4. w.todo = {e \in Open(Dates) : visits[e].series = b /\ e >= s}
  <2>1. w.todo = planRecurringSeriesScope(s, "this_and_future", Past(s)) /\ s \notin Past(s)
    BY <1>1, <1>2, <1>3 DEF Planned, Past
  <2>2. w.todo = {e \in Open(Dates) : visits[e].series = b /\ e \notin Past(s)}
    BY <1>3, <2>1, PlanIs DEF Scopes
  <2>3. \A e \in Open(Dates) : visits[e].series = b => (e \notin Past(s) <=> e >= s)
    BY <1>3 DEF Past, Open, InSeries
  <2> QED
    BY <2>2, <2>3
<1>5. PICK d \in w.todo, n \in Int :
        /\ Saves(w, d, n) /\ (c \notin shifted => n = 0)
        /\ series' = [series EXCEPT ![b] = {[rule |-> splitSourceSeries(RuleOf(b), s),
                                             anchor |-> AnchorOf(b)]},
                                    ![c] = {[rule |-> w.rule, anchor |-> s]}]
  BY ZenonT(30), <1>2, <1>3, SaveOneIs
<1>6. /\ d \in Open(Dates) /\ d \in Dates /\ visits[d].series = b /\ d >= s
      /\ visits[d].date \in Int /\ Progress(w, d) /\ UNCHANGED shifted
  BY <1>4, <1>5 DEF Open, Saves, SplitInv, VisitsOK
<1>7. Moving = {}
  BY <1>1 DEF Moving
<1>8. \A e \in Dates : Recurs(visits[e].series) =>
                         /\ visits[e].date = e /\ OnPattern(visits[e].series, e)
                         /\ visits[e].state = "open" => Own(visits[e].series, e)
  BY <1>7 DEF SplitInv, VisitsOK
<1>9. Own(b, s) /\ SeriesOK /\ Recurs(b)
  BY <1>2, <1>3, <1>8 DEF SplitInv
<1>10. PICK m : m = Cardinality(Past(s))
  OBVIOUS
<1>11. m \in Nat /\ m <= Cardinality(Earlier(AnchorOf(b), RuleOf(b).pattern, s))
  <2>1. AnchorOf(b) \in Int
    BY <1>3, <1>9 DEF SeriesOK, ValidAnchor
  <2>2. IsFiniteSet(Earlier(AnchorOf(b), RuleOf(b).pattern, s))
    BY <1>3, <2>1, EarlierFinite
  <2>3. Past(s) \subseteq Earlier(AnchorOf(b), RuleOf(b).pattern, s)
    BY <1>3, <1>8, <1>9 DEF Past, InSeries, OnPattern, Earlier
  <2> QED
    BY <1>10, <2>2, <2>3, FS_Subset, FS_CardinalityType
<1>12. w.rule = adjustedRecurrence(RuleOf(b), m)
  BY <1>3, <1>10 DEF recurrenceForThisAndFutureSplit
<1>13. Stores(b, splitSourceSeries(RuleOf(b), s), AnchorOf(b), c, adjustedRecurrence(RuleOf(b), m), s)
  BY <1>5, <1>12 DEF Stores
<1>14. /\ SeriesOK' /\ Made' = Made \cup {c}
       /\ \A id \in Made : id # b =>
                /\ (Recurs(id))' <=> Recurs(id)
                /\ \A e : ((OnPattern(id, e))' <=> OnPattern(id, e)) /\ ((Own(id, e))' <=> Own(id, e))
       /\ \A e : (OnPattern(b, e))' <=> OnPattern(b, e)
       /\ \A e \in Int : Own(b, e) => IF e < s THEN (Own(b, e))' ELSE (Own(c, e))'
  BY <1>3, <1>6, <1>9, <1>11, <1>13, SplitSeries
<1>15. \A e \in w.todo : visits[e].date = e /\ (Own(c, e))'
  <2>1. ASSUME NEW e \in w.todo PROVE e \in Int /\ ~(e < s) /\ Own(b, e) /\ visits[e].date = e
    <3>1. e \in Dates /\ visits[e].state = "open" /\ visits[e].series = b /\ e >= s
      BY <1>4 DEF Open
    <3> QED
      BY <1>3, <1>8, <1>9, <3>1
  <2> QED
    BY <1>14, <2>1
<1>16. /\ Dates' = Dates /\ visits' = [e \in Dates' |-> visits'[e]]
       /\ \A e \in Dates : e # d => visits'[e] = visits[e]
       /\ visits'[d].series = c /\ visits'[d].date = visits[d].date + n
       /\ visits'[d] \in [series : {c}, state : States, date : Int]
       /\ Open(Dates)' = Open(Dates)
  BY <1>2, <1>5, <1>6, OneMoves DEF SplitInv
<1>17. w.todo \ {d} \subseteq Moving'
  <2>1. IsWork(w) /\ w.todo \subseteq Dates
    BY <1>1 DEF WorkOK, Open
  <2>2. (chore' = {} /\ w.todo = {d}) \/ \E v : GoesOn(v, w, d)
    BY <1>6, <2>1, ProgressIs
  <2>3. ASSUME NEW v, GoesOn(v, w, d)
        PROVE  w.todo \ {d} \subseteq Moving'
    <3>1. \A e : e \in Moving' <=> e \in Dates' /\ e \in v.todo
      BY <2>3 DEF Moving, GoesOn
    <3> QED
      BY <1>16, <2>1, <2>3, <3>1 DEF GoesOn
  <2> QED
    BY <2>2, <2>3
<1>18. VisitsOK'
  <2>1. ASSUME NEW e \in Dates', e # d
        PROVE  /\ visits'[e] \in [series : Made', state : States, date : Int]
               /\ (Recurs(visits[e].series) =>
                     /\ visits[e].date = e /\ OnPattern(visits[e].series, e)
                     /\ visits[e].state = "open" /\ e \notin Moving => Own(visits[e].series, e))'
    <3>1. e \in Dates /\ visits'[e] = visits[e] /\ visits[e].series \in Made
      BY <1>16, <2>1 DEF SplitInv, VisitsOK
    <3>2. visits[e] \in [series : Made, state : States, date : Int]
      BY <3>1 DEF SplitInv, VisitsOK
    <3>3. CASE visits[e].series # b
      BY <1>8, <1>14, <3>1, <3>2, <3>3
    <3>4. CASE visits[e].series = b
      <4>1. (OnPattern(b, e))' /\ e \in Int
        BY <1>3, <1>8, <1>9, <1>14, <3>1, <3>4
      <4>2. ASSUME visits[e].state = "open", e \notin Moving' PROVE (Own(b, e))'
        <5>1. e \in Open(Dates) /\ e \notin w.todo
          BY <1>17, <2>1, <3>1, <4>2 DEF Open
        <5>2. e < s
          BY <1>3, <1>4, <3>4, <4>1, <5>1
        <5> QED
          BY <1>3, <1>8, <1>9, <1>14, <3>1, <3>4, <4>1, <4>2, <5>2
      <4> QED
        BY <1>8, <1>9, <1>14, <3>1, <3>2, <3>4, <4>1, <4>2
    <3> QED
      BY <3>3, <3>4
  <2>2. visits'[d] \in [series : Made', state : States, date : Int]
    BY <1>14, <1>16
  <2>3. ASSUME (Recurs(c))' PROVE visits'[d].date = d /\ (OnPattern(c, d))' /\ (Own(c, d))'
    <3>1. n = 0 /\ visits[d].date = d
      BY <1>5, <1>6, <1>15, <2>3 DEF Recurs
    <3> QED
      BY <1>6, <1>15, <1>16, <3>1 DEF Own
  <2>4. (Recurs(visits[d].series) =>
           visits[d].date = d /\ OnPattern(visits[d].series, d) /\ Own(visits[d].series, d))'
    BY <1>16, <2>3
  <2> QED
    BY <1>3, <1>16, <2>1, <2>2, <2>4 DEF VisitsOK
<1>19. ChoreOK'
  <2>1. \A e \in Open(Dates) : e # d => e \in Open(Dates)' /\ visits'[e] = visits[e]
    BY <1>16 DEF Open
  <2> QED
    BY <1>2, <1>6, <1>14, <1>15, <2>1, WorkLeft
<1> QED
  BY <1>14, <1>18, <1>19 DEF SplitInv

\* The first transaction of a split of a series whose dates were moved.
LEMMA ShiftedMoves ==
    ASSUME SplitInv, SaveOne, NEW w \in chore, w.target # w.source, w.first,
           w.scope = "this_and_future", ~Recurs(w.source)
    PROVE  SplitInv'
<1>1. WorkOK(w) /\ chore = {w} /\ Planned(w)
  BY DEF SplitInv, ChoreOK, WorkOK
<1>2. PICK b, c, rb, rc, day : /\ b = w.source /\ c = w.target /\ rc = w.rule
                               /\ day = visits[w.selected].date
                               /\ rb = splitSourceSeries(RuleOf(b), day)
  OBVIOUS
<1>3. /\ w.todo \subseteq Open(Dates) /\ w.todo \subseteq Dates /\ Dates \subseteq Nat /\ b \in Made
      /\ c \in SeriesIds /\ c \notin Made /\ b \in shifted /\ c \in shifted
  BY <1>1, <1>2 DEF Planned, FreshSeries, Open, SplitInv, VisitsOK, WorkOK, Recurs
<1>4. PICK d \in w.todo, n \in Int :
        /\ Saves(w, d, n)
        /\ series' = [series EXCEPT ![b] = {[rule |-> rb, anchor |-> AnchorOf(b)]},
                                    ![c] = {[rule |-> rc, anchor |-> day]}]
  BY <1>2, SaveOneIs
<1>5. d \in Dates /\ Progress(w, d) /\ UNCHANGED shifted /\ SeriesOK /\ VisitsOK
  BY <1>3, <1>4 DEF Saves, SplitInv
<1>6. Stores(b, rb, AnchorOf(b), c, rc, day)
  BY <1>4 DEF Stores
<1>7. /\ Made' = Made \cup {c} /\ series' = [id \in SeriesIds |-> series'[id]]
      /\ (RuleOf(b))' = rb /\ (AnchorOf(b))' = AnchorOf(b) /\ (RuleOf(c))' = rc /\ (AnchorOf(c))' = day
      /\ series'[b] = {[rule |-> rb, anchor |-> AnchorOf(b)]} /\ series'[c] = {[rule |-> rc, anchor |-> day]}
      /\ \A id \in Made : id # b =>
           /\ series'[id] = series[id]
           /\ (RuleOf(id))' = RuleOf(id) /\ (AnchorOf(id))' = AnchorOf(id)
           /\ (Recurs(id))' <=> Recurs(id)
           /\ \A e : ((OnPattern(id, e))' <=> OnPattern(id, e)) /\ ((Own(id, e))' <=> Own(id, e))
  BY <1>3, <1>5, <1>6, TwoStored
<1>8. ~(Recurs(b))' /\ ~(Recurs(c))'
  BY <1>3, <1>5 DEF Recurs
<1>9. SeriesOK'
  <2>1. ASSUME NEW id \in Made'
        PROVE  (/\ series[id] = {[rule |-> RuleOf(id), anchor |-> AnchorOf(id)]}
                /\ Recurs(id) => IsRule(RuleOf(id)) /\ ValidAnchor(AnchorOf(id), RuleOf(id).pattern))'
    BY <1>5, <1>7, <1>8 DEF SeriesOK
  <2>2. ASSUME NEW x \in Made', NEW y \in Made', x # y, (Recurs(x))', (Recurs(y))'
        PROVE  (EndsBefore(x, y))' \/ (EndsBefore(y, x))'
    <3>1. x \in Made /\ y \in Made /\ x # b /\ y # b /\ Recurs(x) /\ Recurs(y)
      BY <1>7, <1>8, <2>2
    <3>2. EndsBefore(x, y) \/ EndsBefore(y, x)
      BY <1>5, <2>2, <3>1 DEF SeriesOK
    <3> QED
      BY <1>7, <3>1, <3>2 DEF EndsBefore
  <2> QED
    BY <1>7, <2>1, <2>2 DEF SeriesOK
<1>10. /\ Dates' = Dates /\ visits' = [e \in Dates' |-> visits'[e]]
       /\ \A e \in Dates : e # d => visits'[e] = visits[e]
       /\ visits'[d].series = c
       /\ visits'[d] \in [series : {c}, state : States, date : Int]
       /\ Open(Dates)' = Open(Dates)
  BY <1>2, <1>4, <1>5, OneMoves
<1>11. Moving = {}
  BY <1>1 DEF Moving
<1>12. VisitsOK'
  <2>1. ASSUME NEW e \in Dates', e # d
        PROVE  /\ visits'[e] \in [series : Made', state : States, date : Int]
               /\ (Recurs(visits[e].series) =>
                     /\ visits[e].date = e /\ OnPattern(visits[e].series, e)
                     /\ visits[e].state = "open" /\ e \notin Moving => Own(visits[e].series, e))'
    <3>1. e \in Dates /\ visits'[e] = visits[e] /\ visits[e].series \in Made
      BY <1>5, <1>10, <2>1 DEF VisitsOK
    <3>2. /\ visits[e] \in [series : Made, state : States, date : Int]
          /\ Recurs(visits[e].series) =>
               /\ visits[e].date = e /\ OnPattern(visits[e].series, e)
               /\ visits[e].state = "open" => Own(visits[e].series, e)
      BY <1>5, <1>11, <3>1 DEF VisitsOK
    <3>3. CASE visits[e].series = b
      BY <1>7, <1>8, <3>1, <3>2, <3>3
    <3>4. CASE visits[e].series # b
      BY <1>7, <3>1, <3>2, <3>4
    <3> QED
      BY <3>3, <3>4
  <2>2. /\ visits'[d] \in [series : Made', state : States, date : Int]
        /\ ~(Recurs(visits[d].series))'
    BY <1>7, <1>8, <1>10
  <2> QED
    BY <1>3, <1>10, <2>1, <2>2 DEF VisitsOK
<1>13. ChoreOK'
  <2>1. \A e \in Open(Dates) : e # d => e \in Open(Dates)' /\ visits'[e] = visits[e]
    BY <1>10 DEF Open
  <2> QED
    BY <1>2, <1>5, <1>7, <1>8, <2>1, WorkLeft
<1> QED
  BY <1>9, <1>12, <1>13 DEF SplitInv

\* A transaction of a save, in the same series or a split.
LEMMA SaveOneKeeps ==
    ASSUME SplitInv, SaveOne
    PROVE  SplitInv'
<1>1. PICK w \in chore : TRUE
  BY DEF SaveOne
<1>2. WorkOK(w)
  BY DEF SplitInv, ChoreOK
<1>3. CASE w.target = w.source
  BY <1>3, SameSeriesKeeps
<1>4. CASE w.target # w.source /\ ~w.first
  BY <1>4, LaterMoves
<1>5. CASE w.target # w.source /\ w.first
  <2>1. w.scope = "this_occurrence" \/ w.scope = "this_and_future"
    BY <1>2, <1>5 DEF WorkOK, Planned
  <2> QED
    BY <1>5, <2>1, AloneMoves, SplitMoves, ShiftedMoves
<1> QED
  BY <1>3, <1>4, <1>5

\* A completed occurrence is open no more.
LEMMA CompletionKeeps ==
    ASSUME SplitInv, NEW d \in Dates, CompleteVisit(d)
    PROVE  SplitInv'
<1>1. /\ chore = {} /\ chore' = {} /\ UNCHANGED <<series, shifted>>
      /\ visits' = [visits EXCEPT ![d].state = "completed"]
  BY DEF CompleteVisit
<1>2. SeriesOK' /\ ChoreOK' /\ Moving = {}
  BY <1>1, SeriesStays DEF SplitInv, ChoreOK, Moving
<1>3. /\ Dates' = Dates /\ visits' = [e \in Dates |-> visits'[e]]
      /\ \A e \in Dates : e # d => visits'[e] = visits[e]
      /\ \A e \in Dates : visits[e] \in [series : Made, state : States, date : Int]
      /\ visits'[d] = [visits[d] EXCEPT !.state = "completed"]
  BY <1>1 DEF SplitInv, VisitsOK, Dates
<1>4. \A e \in Dates : /\ visits'[e] \in [series : Made, state : States, date : Int]
                       /\ visits'[e].series = visits[e].series /\ visits'[e].date = visits[e].date
                       /\ visits'[e].state = "open" => visits[e].state = "open"
  BY <1>3 DEF States
<1>5. VisitsOK'
  BY <1>1, <1>2, <1>3, <1>4, VisitsKeep
<1> QED
  BY <1>2, <1>5 DEF SplitInv

\* A removed occurrence is no more.
LEMMA PullKeeps ==
    ASSUME SplitInv, NEW d \in Dates, PullDeleted(d)
    PROVE  SplitInv'
<1>1. /\ chore = {} /\ chore' = {} /\ UNCHANGED <<series, shifted>>
      /\ visits' = [other \in Dates \ {d} |-> visits[other]]
  BY DEF PullDeleted
<1>2. SeriesOK' /\ ChoreOK' /\ Moving = {}
  BY <1>1, SeriesStays DEF SplitInv, ChoreOK, Moving
<1>3. /\ Dates' = Dates \ {d} /\ visits' = [e \in Dates' |-> visits'[e]]
      /\ \A e \in Dates' : visits'[e] = visits[e]
      /\ \A e \in Dates : visits[e] \in [series : Made, state : States, date : Int]
  BY <1>1 DEF SplitInv, VisitsOK, Dates
<1>4. VisitsOK'
  BY <1>1, <1>2, <1>3, VisitsKeep
<1> QED
  BY <1>2, <1>4 DEF SplitInv

\* The inductive invariant, until a save is cut short.
SeriesInv == torn \in BOOLEAN /\ (torn \/ SplitInv)

\* At first there is no series.
LEMMA SeriesInitInv == SeriesInit => SeriesInv
<1> SUFFICES ASSUME SeriesInit PROVE SplitInv /\ torn \in BOOLEAN
  BY DEF SeriesInv
<1>1. Made = {}
  BY DEF SeriesInit, Made
<1>2. SeriesOK
  BY <1>1 DEF SeriesInit, SeriesOK
<1>3. VisitsOK
  BY DEF SeriesInit, VisitsOK, Dates
<1>4. ChoreOK
  BY DEF SeriesInit, ChoreOK
<1> QED
  BY <1>2, <1>3, <1>4 DEF SplitInv, SeriesInit

\* Every step keeps the invariant, or tears a save.
LEMMA SeriesStepInv == SeriesInv /\ [SeriesNext]_seriesVars => SeriesInv'
<1> SUFFICES ASSUME SeriesInv, [SeriesNext]_seriesVars PROVE SeriesInv'
  OBVIOUS
<1>1. CASE SaveBreaks
  BY <1>1 DEF SaveBreaks, SeriesInv
<1>2. CASE torn /\ UNCHANGED torn
  BY <1>2 DEF SeriesInv
<1>3. CASE ~torn /\ ~SaveBreaks
  <2>1. SplitInv
    BY <1>3 DEF SeriesInv
  <2>2. ASSUME ImportEvent PROVE SplitInv'
    BY <2>1, <2>2, NothingMoves DEF ImportEvent
  <2>3. ASSUME createCalendarMission PROVE SplitInv'
    BY <2>1, <2>3, CreationKeeps
  <2>4. ASSUME NEW date \in Dates, NEW scope \in Scopes, saveCalendarMissionDetails(date, scope)
        PROVE  SplitInv'
    BY <2>1, <2>4, DetailsKeep
  <2>5. ASSUME NEW date \in Dates, NEW scope \in Scopes, saveCalendarMissionAdjustment(date, scope)
        PROVE  SplitInv'
    BY <2>1, <2>5, AdjustmentKeeps
  <2>6. ASSUME NEW date \in Dates, NEW scope \in Scopes, deleteCalendarMission(date, scope)
        PROVE  SplitInv'
    BY <2>1, <2>6, DeletionKeeps
  <2>7. ASSUME SaveOne PROVE SplitInv'
    BY <2>1, <2>7, SaveOneKeeps
  <2>8. ASSUME DeleteOne PROVE SplitInv'
    BY <2>1, <2>8, DeleteOneKeeps
  <2>9. ASSUME NEW date \in Dates, CompleteVisit(date) PROVE SplitInv'
    BY <2>1, <2>9, CompletionKeeps
  <2>10. ASSUME NEW date \in Dates, PullDeleted(date) PROVE SplitInv'
    BY <2>1, <2>10, PullKeeps
  <2>11. ASSUME UNCHANGED seriesVars PROVE SplitInv'
    BY <2>1, <2>11, NothingMoves DEF seriesVars
  <2>12. SplitInv'
    BY <1>3, <2>2, <2>3, <2>4, <2>5, <2>6, <2>7, <2>8, <2>9, <2>10, <2>11 DEF SeriesNext
  <2>13. UNCHANGED torn
    BY <1>3 DEF SeriesNext, seriesVars, ImportEvent, createCalendarMission,
       saveCalendarMissionDetails, saveCalendarMissionAdjustment, deleteCalendarMission,
       SaveOne, DeleteOne, CompleteVisit, PullDeleted
  <2> QED
    BY <2>12, <2>13 DEF SeriesInv
<1>4. UNCHANGED torn \/ SaveBreaks
  BY DEF SeriesNext, seriesVars, ImportEvent, createCalendarMission,
     saveCalendarMissionDetails, saveCalendarMissionAdjustment, deleteCalendarMission,
     SaveOne, DeleteOne, CompleteVisit, PullDeleted
<1> QED
  BY <1>1, <1>2, <1>3, <1>4 DEF SeriesInv

\* However a recurring mission is split, edited and deleted in part, each unfinished
\* occurrence that still recurs is promised by the rule of its own series and by no other,
\* for every pattern, end, first day and number of occurrences: splitSourceSeries and
\* recurrenceForThisAndFutureSplit fit together. It says nothing once a save was cut short,
\* nor of a series whose dates a details save has moved (calendar-mission-details-save.ts
\* leaves its rule behind) or that was split off from such a series.
THEOREM SplitKeepsDatesAlways == SeriesSpec => []SplitKeepsDates
<1>1. SeriesInit => SeriesInv
  BY SeriesInitInv
<1>2. SeriesInv /\ [SeriesNext]_seriesVars => SeriesInv'
  BY SeriesStepInv
<1>3. SeriesInv => SplitKeepsDates
  BY SplitHolds DEF SeriesInv
<1> QED
  BY <1>1, <1>2, <1>3, PTL DEF SeriesSpec

(***************************************************************************)
(* The jump of a first import.                                             *)
(***************************************************************************)
\* The first date on or after another.
IsFirst(a, p, t, d) == d \in Occurs(a, p) /\ t <= d /\ \A e \in Occurs(a, p) : t <= e => d <= e

\* What a jump has to come to: that date, and how many dates are before it.
Found(candidates, a, p, t) ==
    \/ candidates = {} /\ \A e \in Occurs(a, p) : e < t
    \/ \E d \in Int : /\ IsFirst(a, p, t, d)
                      /\ candidates = {[date |-> d, index |-> Cardinality(Earlier(a, p, d))]}

\* What a set is in a one-to-one correspondence with has as many elements.
LEMMA CountedBy ==
    ASSUME NEW S, IsFiniteSet(S), NEW T, NEW f \in [S -> T],
           \A x, y \in S : f[x] = f[y] => x = y, \A z \in T : \E x \in S : f[x] = z
    PROVE  IsFiniteSet(T) /\ Cardinality(T) = Cardinality(S)
<1>1. f \in Bijection(S, T)
  BY DEF Bijection, Injection, Surjection, IsInjective
<1>2. ExistsBijection(S, T)
  BY <1>1 DEF ExistsBijection
<1> QED
  BY <1>2, FS_Bijection

\* The calendar has the steps before one that it has.
LEMMA EarlierSteps ==
    ASSUME NEW p, ValidPattern(p), NEW a, ValidAnchor(a, p), NEW n \in Nat, HasStep(a, p, n),
           NEW k \in Nat, k <= n
    PROVE  HasStep(a, p, k)
<1>1. CASE ByDays(p)
  BY <1>1 DEF ByDays, HasStep
<1>2. CASE ~ByDays(p) /\ k < n
  <2>1. a \in CalendarDays /\ Every(p) \in Nat \ {0}
    BY <1>2, EveryIs DEF ValidAnchor
  <2>2. /\ StepMonth(a, p, 0) \in Nat /\ k * Every(p) \in Nat /\ n * Every(p) \in Nat
        /\ StepMonth(a, p, k) = StepMonth(a, p, 0) + k * Every(p)
        /\ StepMonth(a, p, n) = StepMonth(a, p, 0) + n * Every(p)
    BY <1>2, <2>1, StepMonthIs
  <2>3. k * Every(p) + Every(p) <= n * Every(p)
    BY <1>2, <2>1, LaterProduct
  <2>4. StepMonth(a, p, n) \in Months
    BY <1>2 DEF ByDays, HasStep
  <2>5. PICK m, x, y, i : m = StepMonth(a, p, 0) /\ x = k * Every(p) /\ y = n * Every(p) /\ i = Every(p)
    OBVIOUS
  <2>6. m \in Nat /\ x \in Nat /\ y \in Nat /\ i \in Nat /\ x + i <= y /\ m + y \in Months
    BY <2>1, <2>2, <2>3, <2>4, <2>5
  <2>7. m + x \in Months
    BY <2>6 DEF Months
  <2>8. StepMonth(a, p, k) \in Months
    BY <2>2, <2>5, <2>7
  <2> QED
    BY <2>8 DEF HasStep
<1>3. CASE k = n
  BY <1>3
<1> QED
  BY <1>1, <1>2, <1>3

\* Steps other than weeks have one date at most.
LEMMA StepsAlone ==
    ASSUME NEW p, ValidPattern(p), p.type # "weekly", NEW a, ValidAnchor(a, p), NEW k \in Nat,
           HasStep(a, p, k), NEW d \in StepDates(a, p, k), NEW e \in StepDates(a, p, k)
    PROVE  d = e
<1>1. CASE p.type = "daily"
  BY <1>1, DailyStep DEF ValidAnchor
<1>2. CASE p.type # "daily"
  <2>1. ~ByDays(p) /\ a \in CalendarDays /\ StepMonth(a, p, k) \in Months
    BY <1>2 DEF ByDays, ValidAnchor, HasStep
  <2> QED
    BY <2>1, StepInMonth
<1> QED
  BY <1>1, <1>2

\* A date that no date of a step before reaches is the first.
LEMMA FirstByStep ==
    ASSUME NEW p, ValidPattern(p), p.type # "weekly", NEW a, ValidAnchor(a, p), NEW t \in Int,
           NEW n \in Nat, HasStep(a, p, n), NEW d \in StepDates(a, p, n), a <= d, t <= d,
           \A k \in Nat : k < n => \A e \in StepDates(a, p, k) : ~(a <= e /\ t <= e)
    PROVE  IsFirst(a, p, t, d)
<1>1. d \in Int
  BY StepDatesAre
<1>2. d \in Occurs(a, p)
  BY <1>1 DEF Occurs
<1>3. ASSUME NEW e \in Occurs(a, p), t <= e PROVE d <= e
  <2>1. PICK k \in Nat : HasStep(a, p, k) /\ e \in StepDates(a, p, k)
    BY DEF Occurs
  <2>2. e \in Int /\ a <= e
    BY DEF Occurs
  <2>3. ~(k < n)
    BY <1>3, <2>1, <2>2
  <2>4. CASE k = n
    BY <1>1, <2>1, <2>4, StepsAlone
  <2>5. CASE n < k
    <3>1. d < e
      BY <2>1, <2>5, StepsOrdered
    <3> QED
      BY <1>1, <2>2, <3>1
  <2> QED
    BY <2>3, <2>4, <2>5
<1> QED
  BY <1>2, <1>3 DEF IsFirst

\* Dates before a step are counted by the steps that have one.
LEMMA CountSteps ==
    ASSUME NEW p, ValidPattern(p), p.type # "weekly", NEW a, ValidAnchor(a, p),
           NEW n \in Nat, HasStep(a, p, n), NEW d \in StepDates(a, p, n)
    PROVE  Cardinality(Earlier(a, p, d))
             = Cardinality({k \in 0..n - 1 : \E e \in StepDates(a, p, k) : a <= e})
<1> DEFINE K == {k \in 0..n - 1 : \E e \in StepDates(a, p, k) : a <= e}
           f == [k \in K |-> CHOOSE e \in StepDates(a, p, k) : a <= e]
<1>1. d \in Int
  BY StepDatesAre
<1>2. ASSUME NEW k \in K PROVE k \in Nat /\ k < n /\ HasStep(a, p, k)
  <2>1. k \in Nat /\ k < n
    OBVIOUS
  <2> QED
    BY <2>1, EarlierSteps
<1>3. ASSUME NEW k \in K PROVE f[k] \in StepDates(a, p, k) /\ a <= f[k]
  OBVIOUS
<1> HIDE DEF f
<1>4. f \in [K -> Earlier(a, p, d)]
  <2>1. ASSUME NEW k \in K PROVE f[k] \in Earlier(a, p, d)
    <3>1. f[k] \in Int
      BY <1>2, <1>3, StepDatesAre
    <3>2. f[k] < d
      BY <1>2, <1>3, StepsOrdered
    <3> QED
      BY <1>2, <1>3, <3>1, <3>2 DEF Earlier, Occurs
  <2> QED
    BY <2>1 DEF f
<1>5. ASSUME NEW j \in K, NEW k \in K, f[j] = f[k] PROVE j = k
  <2>1. f[j] \in Int /\ f[k] \in Int
    BY <1>2, <1>3, StepDatesAre
  <2>2. CASE j < k
    BY <1>2, <1>3, <1>5, <2>1, <2>2, StepsOrdered
  <2>3. CASE k < j
    BY <1>2, <1>3, <1>5, <2>1, <2>3, StepsOrdered
  <2> QED
    BY <1>2, <2>2, <2>3
<1>6. ASSUME NEW e \in Earlier(a, p, d) PROVE \E k \in K : f[k] = e
  <2>1. PICK k \in Nat : HasStep(a, p, k) /\ e \in StepDates(a, p, k)
    BY DEF Earlier, Occurs
  <2>2. e \in Int /\ a <= e /\ e < d
    BY DEF Earlier, Occurs
  <2>3. k # n
    BY <1>1, <2>1, <2>2, StepsAlone
  <2>4. ~(n < k)
    <3>1. n < k => d < e
      BY <2>1, StepsOrdered
    <3> QED
      BY <1>1, <2>2, <3>1
  <2>5. k \in K
    BY <2>1, <2>2, <2>3, <2>4
  <2>6. f[k] = e
    BY <1>3, <2>1, <2>5, StepsAlone
  <2> QED
    BY <2>5, <2>6
<1>7. IsFiniteSet(K)
  <2>1. K \in SUBSET (0..n - 1)
    OBVIOUS
  <2>2. IsFiniteSet(0..n - 1)
    BY FS_Interval
  <2> QED
    BY <2>1, <2>2, FS_Subset
<1> HIDE DEF K
<1>8. Cardinality(Earlier(a, p, d)) = Cardinality(K)
  BY <1>4, <1>5, <1>6, <1>7, CountedBy
<1> QED
  BY <1>8 DEF K

\* Whole quotients.
LEMMA DivIs ==
    ASSUME NEW x \in Nat, NEW n \in Nat \ {0}
    PROVE  /\ x \div n \in Nat /\ (x \div n) * n \in Nat
           /\ (x \div n) * n <= x /\ x < (x \div n) * n + n
<1>1. PICK q \in Nat, r \in Nat : x = n * q + r /\ r < n /\ x \div n = q
  <2>1. x \div n \in Nat /\ x % n \in Nat /\ x = n * (x \div n) + (x % n) /\ x % n < n
    OBVIOUS
  <2> QED
    BY <2>1
<1>2. q * n = n * q /\ q * n \in Nat
  BY <1>1
<1> QED
  BY <1>1, <1>2

\* Every so many days.
LEMMA DailyFinds ==
    ASSUME NEW p, ValidPattern(p), p.type = "daily", NEW a \in Int, NEW t \in Int
    PROVE  Found(dailyCandidate(a, t, p), a, p, t)
<1>1. PICK i : i = p.interval
  OBVIOUS
<1>2. i \in Nat \ {0} /\ ValidAnchor(a, p) /\ \A k : HasStep(a, p, k)
  BY <1>1, PatternIs DEF ValidAnchor, ByDays, HasStep
<1>3. PICK delta : delta \in Nat /\ delta = IF t > a THEN t - a ELSE 0
  <2>1. (IF t > a THEN t - a ELSE 0) \in Nat
    OBVIOUS
  <2> QED
    BY <2>1
<1>4. PICK n : n = (delta + i - 1) \div i
  OBVIOUS
<1>5. PICK d : d = a + n * i
  OBVIOUS
<1>6. dailyCandidate(a, t, p) = {[date |-> d, index |-> n]}
  BY <1>1, <1>3, <1>4, <1>5 DEF dailyCandidate
<1>7. n \in Nat /\ n * i \in Nat /\ n * i <= delta + i - 1 /\ delta + i - 1 < n * i + i
  <2>1. delta + i - 1 \in Nat
    BY <1>2, <1>3
  <2> QED
    BY <1>2, <1>4, <2>1, DivIs
<1>8. d \in Int /\ a <= d /\ t <= d
  BY <1>2, <1>3, <1>5, <1>7
<1>9. \A k \in Nat : k * i \in Nat /\ StepDates(a, p, k) = {a + k * i}
  BY <1>1, DailyStep
<1>10. ASSUME NEW k \in Nat, k < n, NEW e \in StepDates(a, p, k), a <= e, t <= e PROVE FALSE
  <2>1. e = a + k * i
    BY <1>9
  <2>2. k * i \in Nat /\ k * i + i <= n * i
    BY <1>2, <1>7, <1>10, LaterProduct
  <2>3. k * i < delta
    <3>1. PICK x, y : x = k * i /\ y = n * i
      OBVIOUS
    <3> QED
      BY <1>2, <1>3, <1>7, <2>2, <3>1
  <2> QED
    BY <1>3, <1>10, <2>1, <2>2, <2>3
<1>11. d \in StepDates(a, p, n)
  BY <1>5, <1>7, <1>9
<1>12. IsFirst(a, p, t, d)
  BY <1>2, <1>7, <1>8, <1>10, <1>11, FirstByStep
<1>13. Cardinality(Earlier(a, p, d)) = n
  <2>1. ASSUME NEW k \in 0..n - 1 PROVE \E e \in StepDates(a, p, k) : a <= e
    <3>1. k \in Nat /\ k * i \in Nat /\ a + k * i \in StepDates(a, p, k)
      BY <1>7, <1>9
    <3> QED
      BY <3>1
  <2>3. {k \in 0..n - 1 : \E e \in StepDates(a, p, k) : a <= e} = 0..n - 1
    BY <2>1
  <2>2. Cardinality(0..n - 1) = n
    BY <1>7, FS_Interval
  <2> QED
    BY <1>2, <1>7, <1>11, <2>2, <2>3, CountSteps
<1> QED
  BY <1>6, <1>8, <1>12, <1>13 DEF Found

\* The later of two days.
LEMMA MaxOfTwo ==
    ASSUME NEW x \in Int, NEW y \in Int
    PROVE  Max({x, y}) = IF x < y THEN y ELSE x
<1>1. PICK m : m = IF x < y THEN y ELSE x
  OBVIOUS
<1>2. m \in {x, y} /\ \A z \in {x, y} : m >= z
  BY <1>1
<1>3. \A n \in {x, y} : (\A z \in {x, y} : n >= z) => n = m
  BY <1>1
<1> QED
  BY <1>1, <1>2, <1>3 DEF Max

Towards(A, T, i) == Max({0, T - A}) \div i

\* Steps from one number towards another.
LEMMA StepsTowards ==
    ASSUME NEW A \in Nat, NEW T \in Nat, NEW i \in Nat \ {0}, NEW k \in Nat
    PROVE  /\ Towards(A, T, i) \in Nat /\ k * i \in Nat
           /\ k < Towards(A, T, i) => A + k * i < T
           /\ Towards(A, T, i) < k => T < A + k * i
           /\ 1 <= k => A < A + k * i
<1> DEFINE n == Towards(A, T, i)
<1>1. PICK delta : delta \in Nat /\ delta = IF 0 < T - A THEN T - A ELSE 0
  <2>1. (IF 0 < T - A THEN T - A ELSE 0) \in Nat
    OBVIOUS
  <2> QED
    BY <2>1
<1>2. n = delta \div i
  BY <1>1, MaxOfTwo DEF Towards
<1> HIDE DEF n
<1>3. n \in Nat /\ n * i \in Nat /\ n * i <= delta /\ delta < n * i + i
  BY <1>1, <1>2, DivIs
<1>4. k * i \in Nat
  OBVIOUS
<1>5. ASSUME k < n PROVE A + k * i < T
  <2>1. k * i + i <= n * i
    BY <1>3, <1>5, LaterProduct
  <2>2. PICK x, y : x = k * i /\ y = n * i
    OBVIOUS
  <2> QED
    BY <1>1, <1>3, <1>4, <2>1, <2>2
<1>6. ASSUME n < k PROVE T < A + k * i
  <2>1. n * i + i <= k * i
    BY <1>3, <1>6, LaterProduct
  <2>2. PICK x, y : x = k * i /\ y = n * i
    OBVIOUS
  <2> QED
    BY <1>1, <1>3, <1>4, <2>1, <2>2
<1>7. ASSUME 1 <= k PROVE A < A + k * i
  <2>1. 0 * i + i <= k * i /\ 0 * i = 0
    BY <1>7, LaterProduct
  <2> QED
    BY <1>4, <2>1
<1> QED
  BY <1>3, <1>4, <1>5, <1>6, <1>7 DEF n

\* Later dates are in later months.
LEMMA MonthsInOrder ==
    ASSUME NEW d \in Int, NEW e \in Int, NEW m, NEW n, InMonth(m, d), InMonth(n, e), d <= e
    PROVE  m <= n
BY MonthsApart

\* The step the target's month or year falls in: those before it are before the target, those
\* after it after the target; and any but step 0 is after the first day.
LEMMA NearIs ==
    ASSUME NEW p, ValidPattern(p), ~ByDays(p), NEW a \in CalendarDays, NEW t \in CalendarDays
    PROVE  /\ NearStep(a, t, p) \in Nat
           /\ \A k \in Nat : HasStep(a, p, k) =>
                \A e \in StepDates(a, p, k) : /\ k < NearStep(a, t, p) => e < t
                                              /\ NearStep(a, t, p) < k => t < e
                                              /\ 1 <= k => a < e
<1>1. PICK A, T, n, i : A = MonthOf(a) /\ T = MonthOf(t) /\ n = NearStep(a, t, p) /\ i = p.interval
  OBVIOUS
<1>2. InMonth(A, a) /\ InMonth(T, t) /\ A \in Nat /\ T \in Nat /\ i \in Nat \ {0}
  BY <1>1, MonthOfIs, PatternIs DEF InMonth, Months
<1>3. a \in Int /\ t \in Int
  BY CalendarIs
<1>4. ASSUME NEW k \in Nat, HasStep(a, p, k), NEW e \in StepDates(a, p, k)
      PROVE  e \in Int /\ InMonth(StepMonth(a, p, k), e) /\ StepMonth(a, p, k) \in Int
  <2>1. StepMonth(a, p, k) \in Months
    BY <1>4 DEF HasStep, ByDays
  <2> QED
    BY <2>1, StepInMonth DEF Months
<1>5. ASSUME NEW k \in Nat, HasStep(a, p, k), NEW e \in StepDates(a, p, k)
      PROVE  /\ StepMonth(a, p, k) < T => e < t
             /\ T < StepMonth(a, p, k) => t < e
             /\ A < StepMonth(a, p, k) => a < e
  <2>1. PICK m : m = StepMonth(a, p, k)
    OBVIOUS
  <2>2. e \in Int /\ InMonth(m, e) /\ m \in Int
    BY <1>4, <1>5, <2>1
  <2>3. t <= e => T <= m
    BY <1>2, <1>3, <2>2, MonthsInOrder
  <2>4. e <= t => m <= T
    BY <1>2, <1>3, <2>2, MonthsInOrder
  <2>5. e <= a => m <= A
    BY <1>2, <1>3, <2>2, MonthsInOrder
  <2> QED
    BY <1>2, <1>3, <2>1, <2>2, <2>3, <2>4, <2>5
<1>6. CASE ByMonth(p)
  <2>1. n = Towards(A, T, i)
    BY <1>1, <1>6 DEF NearStep, ByMonth, Towards
  <2>2. n \in Nat
    BY <1>2, <2>1, StepsTowards
  <2>3. ASSUME NEW k \in Nat
        PROVE  /\ StepMonth(a, p, k) = A + k * i
               /\ k < n => A + k * i < T
               /\ n < k => T < A + k * i
               /\ 1 <= k => A < A + k * i
    <3>1. StepMonth(a, p, k) = A + k * i
      BY <1>1, <1>6 DEF StepMonth, ByMonth
    <3> QED
      BY <1>2, <2>1, <3>1, StepsTowards
  <2> QED
    BY <1>1, <1>5, <2>2, <2>3
<1>7. CASE ~ByMonth(p)
  <2>1. PICK Y, Z : Y = A \div 12 /\ Z = T \div 12
    OBVIOUS
  <2>2. Y \in Nat /\ Z \in Nat /\ 12 * Y <= A /\ A < 12 * Y + 12 /\ 12 * Z <= T /\ T < 12 * Z + 12
    BY <1>2, <2>1
  <2>3. n = Towards(Y, Z, i)
    BY <1>1, <1>7, <2>1 DEF NearStep, ByMonth, Towards
  <2>4. n \in Nat
    BY <1>2, <2>2, <2>3, StepsTowards
  <2>5. p.month \in 0..11
    BY <1>7, PatternIs DEF ByDays, ByMonth
  <2>6. ASSUME NEW k \in Nat
        PROVE  /\ StepMonth(a, p, k) = 12 * (Y + k * i) + p.month /\ k * i \in Nat
               /\ k < n => Y + k * i < Z
               /\ n < k => Z < Y + k * i
               /\ 1 <= k => Y < Y + k * i
    <3>1. StepMonth(a, p, k) = 12 * (Y + k * i) + p.month
      BY <1>1, <1>7, <2>1 DEF StepMonth, ByMonth
    <3> QED
      BY <1>2, <2>2, <2>3, <3>1, StepsTowards
  <2>7. ASSUME NEW k \in Nat
        PROVE  /\ k < n => StepMonth(a, p, k) < T
               /\ n < k => T < StepMonth(a, p, k)
               /\ 1 <= k => A < StepMonth(a, p, k)
    <3>1. PICK x \in Nat : x = Y + k * i
      BY <2>2, <2>6
    <3>2. /\ StepMonth(a, p, k) = 12 * x + p.month
          /\ k < n => x < Z
          /\ n < k => Z < x
          /\ 1 <= k => Y < x
      BY <2>6, <3>1
    <3> QED
      BY <1>2, <2>2, <2>4, <2>5, <3>2
  <2> QED
    BY <1>1, <1>5, <2>4, <2>7
<1> QED
  BY <1>6, <1>7

\* The calendar has the first step, and none beyond its months.
LEMMA StepsWithin ==
    ASSUME NEW p, ValidPattern(p), ~ByDays(p), NEW a \in CalendarDays
    PROVE  HasStep(a, p, 0) /\ \A k \in Nat : HasStep(a, p, k) => k <= 143
<1>1. MonthOf(a) \in 0..143
  BY MonthOfIs DEF InMonth, Months
<1>2. HasStep(a, p, 0)
  <2>1. StepMonth(a, p, 0) \in Nat
        /\ (ByMonth(p) => StepMonth(a, p, 0) = MonthOf(a))
        /\ (~ByMonth(p) => StepMonth(a, p, 0) = 12 * (MonthOf(a) \div 12) + p.month)
    BY StepMonthIs
  <2>2. CASE ByMonth(p)
    BY <1>1, <2>1, <2>2 DEF HasStep, Months
  <2>3. CASE ~ByMonth(p)
    <3>1. p.month \in 0..11
      BY <2>3, PatternIs DEF ByDays, ByMonth
    <3>2. MonthOf(a) \div 12 \in 0..11
      BY <1>1
    <3> QED
      BY <2>1, <2>3, <3>1, <3>2 DEF HasStep, Months
  <2> QED
    BY <2>2, <2>3
<1>3. ASSUME NEW k \in Nat, HasStep(a, p, k) PROVE k <= 143
  <2>1. StepMonth(a, p, k) \in Months
    BY <1>3 DEF HasStep, ByDays
  <2>2. /\ StepMonth(a, p, 0) \in Nat /\ k * Every(p) \in Nat
        /\ StepMonth(a, p, k) = StepMonth(a, p, 0) + k * Every(p)
    BY StepMonthIs
  <2>3. k <= k * Every(p)
    <3>1. PICK n \in Nat : Every(p) = n + 1
      <4>1. Every(p) \in Nat \ {0}
        BY EveryIs
      <4>2. Every(p) - 1 \in Nat /\ Every(p) = (Every(p) - 1) + 1
        BY <4>1
      <4> QED
        BY <4>2
    <3>2. k * (n + 1) = k * n + k /\ k * n \in Nat
      OBVIOUS
    <3> QED
      BY <3>1, <3>2
  <2>4. PICK m, x : m = StepMonth(a, p, 0) /\ x = k * Every(p)
    OBVIOUS
  <2>5. m \in Nat /\ x \in Nat /\ k <= x /\ m + x \in 0..143
    BY <2>1, <2>2, <2>3, <2>4 DEF Months
  <2> QED
    BY <2>5
<1> QED
  BY <1>2, <1>3

\* No step before the target's, and not the first one if it is skipped, has a date to keep.
LEMMA FirstStepIs ==
    ASSUME NEW p, ValidPattern(p), ~ByDays(p), NEW a \in CalendarDays
    PROVE  /\ FirstStep(a, p) \in 0..1
           /\ FirstStep(a, p) = 0 <=> \E e \in StepDates(a, p, 0) : a <= e
<1>1. a \in Int /\ HasStep(a, p, 0) /\ ValidAnchor(a, p)
  <2>1. a \in Int
    BY CalendarIs
  <2> QED
    BY <2>1, StepsWithin DEF ValidAnchor
<1>2. \A e \in StepDates(a, p, 0) : e \in Int
  BY <1>1, StepDatesAre
<1>3. (\E e \in StepDates(a, p, 0) : e >= a) <=> \E e \in StepDates(a, p, 0) : a <= e
  BY <1>1, <1>2
<1> QED
  BY <1>3 DEF FirstStep

\* A weekday of a month, or of a month of the year.
LEMMA OrdinalFinds ==
    ASSUME NEW p, ValidPattern(p), p.type \in {"monthly-ordinal", "yearly-ordinal"},
           NEW a \in CalendarDays, NEW t \in CalendarDays
    PROVE  Found(ordinalCandidate(a, t, p), a, p, t)
<1>1. PICK F, N, near : /\ F = FirstStep(a, p) /\ N = NearStep(a, t, p) /\ near = IF F < N THEN N ELSE F
  OBVIOUS
<1>2. ~ByDays(p) /\ p.type # "weekly" /\ a \in Int /\ t \in Int /\ ValidAnchor(a, p)
  BY StartsAre, LengthIs DEF ByDays, CalendarDays, ValidAnchor
<1>3. /\ F \in 0..1 /\ (F = 0 <=> \E e \in StepDates(a, p, 0) : a <= e)
      /\ N \in Nat /\ near \in Nat /\ F <= near /\ N <= near /\ (near = F \/ near = N)
  BY <1>1, <1>2, FirstStepIs, NearIs
<1>4. ASSUME NEW k \in Nat, HasStep(a, p, k), NEW e \in StepDates(a, p, k)
      PROVE  e \in Int /\ (k < N => e < t) /\ (N < k => t < e) /\ (1 <= k => a < e)
  BY <1>1, <1>2, <1>4, NearIs, StepDatesAre
<1>5. \A k \in Nat : HasStep(a, p, k) => StepDates(a, p, k) # {}
  BY <1>2, StepInMonth DEF HasStep, ByDays
<1>6. PICK hits : hits = {step \in near..near + 1 : /\ HasStep(a, p, step)
                                                    /\ Reaches(a, t, p, step) # {}}
  OBVIOUS
<1>7. ordinalCandidate(a, t, p) =
        IF hits = {} THEN {}
        ELSE {[date |-> date, index |-> Min(hits) - F] : date \in Reaches(a, t, p, Min(hits))}
  <2>1. near = Max({F, N})
    BY <1>1, <1>3, MaxOfTwo
  <2> QED
    BY <1>1, <1>6, <2>1 DEF ordinalCandidate
<1>8. \A k : Reaches(a, t, p, k) = {e \in StepDates(a, p, k) : e >= a /\ e >= t}
  BY DEF Reaches
<1>9. ASSUME NEW k \in Nat, HasStep(a, p, k), NEW e \in StepDates(a, p, k), a <= e, t <= e
      PROVE  near <= k
  <2>1. N <= k
    BY <1>2, <1>3, <1>4, <1>9
  <2>2. F <= k
    BY <1>3, <1>9
  <2> QED
    BY <1>3, <2>1, <2>2
<1>10. CASE hits = {}
  <2>1. ASSUME NEW e \in Occurs(a, p), t <= e PROVE FALSE
    <3>1. PICK k \in Nat : HasStep(a, p, k) /\ e \in StepDates(a, p, k)
      BY DEF Occurs
    <3>2. e \in Int /\ a <= e
      BY DEF Occurs
    <3>3. near <= k
      BY <1>9, <2>1, <3>1, <3>2
    <3>4. CASE k <= near + 1
      <4>1. k \in near..near + 1 /\ e \in Reaches(a, t, p, k)
        BY <1>2, <1>3, <1>8, <2>1, <3>1, <3>2, <3>3, <3>4
      <4> QED
        BY <1>6, <1>10, <3>1, <4>1
    <3>5. CASE near + 1 < k
      <4>1. near + 1 \in Nat /\ HasStep(a, p, near + 1)
        BY <1>2, <1>3, <3>1, <3>5, EarlierSteps
      <4>2. PICK x : x \in StepDates(a, p, near + 1)
        BY <1>5, <4>1
      <4>3. x \in Int /\ t < x /\ a < x
        <5>1. N < near + 1 /\ 1 <= near + 1
          BY <1>3
        <5> QED
          BY <1>4, <4>1, <4>2, <5>1
      <4>4. near + 1 \in near..near + 1 /\ x \in Reaches(a, t, p, near + 1)
        BY <1>2, <1>3, <1>8, <4>2, <4>3
      <4> QED
        BY <1>6, <1>10, <4>1, <4>4
    <3> QED
      BY <1>3, <3>4, <3>5
  <2>2. \A e \in Occurs(a, p) : e \in Int
    BY DEF Occurs
  <2>3. \A e \in Occurs(a, p) : e < t
    BY <1>2, <2>1, <2>2
  <2> QED
    BY <1>7, <1>10, <2>3 DEF Found
<1>11. CASE hits # {}
  <2>1. PICK h : h = Min(hits)
    OBVIOUS
  <2>2. h \in hits /\ \A k \in hits : h <= k
    <3>1. hits \subseteq Nat
      BY <1>3, <1>6
    <3> QED
      BY <1>11, <2>1, <3>1, LeastIs
  <2>3. h \in Nat /\ near <= h /\ h <= near + 1 /\ HasStep(a, p, h) /\ Reaches(a, t, p, h) # {}
    BY <1>3, <1>6, <2>2
  <2>4. PICK d : d \in StepDates(a, p, h) /\ d >= a /\ d >= t
    BY <1>8, <2>3
  <2>5. d \in Int /\ a <= d /\ t <= d
    BY <1>2, <1>4, <2>3, <2>4
  <2>6. Reaches(a, t, p, h) = {d}
    BY <1>2, <1>8, <2>3, <2>4, StepsAlone
  <2>7. ASSUME NEW k \in Nat, k < h, NEW e \in StepDates(a, p, k), a <= e, t <= e PROVE FALSE
    <3>1. HasStep(a, p, k)
      BY <1>2, <2>3, <2>7, EarlierSteps
    <3>2. near <= k /\ e \in Int
      BY <1>4, <1>9, <2>7, <3>1
    <3>3. k \in hits
      BY <1>2, <1>3, <1>6, <1>8, <2>3, <2>7, <3>1, <3>2
    <3> QED
      BY <2>2, <2>3, <2>7, <3>3
  <2>8. IsFirst(a, p, t, d)
    BY <1>2, <2>3, <2>4, <2>5, <2>7, FirstByStep
  <2>9. Cardinality(Earlier(a, p, d)) = h - F
    <3>1. ASSUME NEW k \in 0..h - 1
          PROVE  (\E e \in StepDates(a, p, k) : a <= e) <=> F <= k
      <4>1. k \in Nat /\ k <= h /\ HasStep(a, p, k)
        BY <1>2, <2>3, EarlierSteps
      <4>2. CASE k = 0
        BY <1>3, <4>2
      <4>3. CASE 1 <= k
        <5>1. PICK x : x \in StepDates(a, p, k)
          BY <1>5, <4>1
        <5>2. x \in Int /\ a < x
          BY <1>4, <4>1, <4>3, <5>1
        <5> QED
          BY <1>2, <1>3, <4>3, <5>1, <5>2
      <4> QED
        BY <4>1, <4>2, <4>3
    <3>2. F \in Int /\ h - 1 \in Int /\ 0 <= F /\ F <= h
      BY <1>3, <2>3
    <3>3. {k \in 0..h - 1 : \E e \in StepDates(a, p, k) : a <= e} = F..h - 1
      <4>1. {k \in 0..h - 1 : \E e \in StepDates(a, p, k) : a <= e} = {k \in 0..h - 1 : F <= k}
        BY <3>1
      <4>2. {k \in 0..h - 1 : F <= k} = F..h - 1
        BY <3>2
      <4> QED
        BY <4>1, <4>2
    <3>4. Cardinality(F..h - 1) = h - F
      <4>1. Cardinality(F..h - 1) = IF F > h - 1 THEN 0 ELSE h - 1 - F + 1
        BY <3>2, FS_Interval
      <4> QED
        BY <2>3, <3>2, <4>1
    <3>5. Cardinality(Earlier(a, p, d))
            = Cardinality({k \in 0..h - 1 : \E e \in StepDates(a, p, k) : a <= e})
      BY <1>2, <2>3, <2>4, CountSteps
    <3> QED
      BY <3>3, <3>4, <3>5
  <2>10. ordinalCandidate(a, t, p) = {[date |-> d, index |-> h - F]}
    BY <1>7, <1>11, <2>1, <2>6
  <2> QED
    BY <2>5, <2>8, <2>9, <2>10 DEF Found
<1> QED
  BY <1>10, <1>11

\* A number in a month, or in a month of the year, which not every month has.
LEMMA DateFinds ==
    ASSUME NEW p, ValidPattern(p), p.type \in {"monthly-date", "yearly-date"},
           NEW a \in CalendarDays, NEW t \in CalendarDays
    PROVE  Found(dateCandidate(a, t, p), a, p, t)
<1>1. PICK N : N = NearStep(a, t, p)
  OBVIOUS
<1>2. ~ByDays(p) /\ p.type # "weekly" /\ a \in Int /\ t \in Int /\ ValidAnchor(a, p)
  BY StartsAre, LengthIs DEF ByDays, CalendarDays, ValidAnchor
<1>3. N \in Nat
  BY <1>1, <1>2, NearIs
<1>4. ASSUME NEW k \in Nat, HasStep(a, p, k), NEW e \in StepDates(a, p, k)
      PROVE  e \in Int /\ (k < N => e < t) /\ (1 <= k => a < e)
  BY <1>1, <1>2, <1>4, NearIs, StepDatesAre
<1>5. PICK steps : steps = {step \in N..143 : /\ HasStep(a, p, step)
                                              /\ Reaches(a, t, p, step) # {}}
  OBVIOUS
<1>6. dateCandidate(a, t, p) =
        IF steps = {} THEN {}
        ELSE {[date |-> date, index |-> countDateOccurrencesBefore(a, p, Min(steps))] :
                date \in Reaches(a, t, p, Min(steps))}
  BY <1>1, <1>5 DEF dateCandidate
<1>7. \A k : Reaches(a, t, p, k) = {e \in StepDates(a, p, k) : e >= a /\ e >= t}
  BY DEF Reaches
<1>8. ASSUME NEW k \in Nat, HasStep(a, p, k), NEW e \in StepDates(a, p, k), a <= e, t <= e
      PROVE  k \in steps
  <2>1. e \in Int /\ N <= k
    BY <1>2, <1>3, <1>4, <1>8
  <2>2. k <= 143
    BY <1>2, <1>8, StepsWithin
  <2>3. e \in Reaches(a, t, p, k)
    BY <1>2, <1>7, <1>8, <2>1
  <2> QED
    BY <1>3, <1>5, <1>8, <2>1, <2>2, <2>3
<1>9. CASE steps = {}
  <2>1. \A e \in Occurs(a, p) : e < t
    BY <1>2, <1>8, <1>9 DEF Occurs
  <2> QED
    BY <1>6, <1>9, <2>1 DEF Found
<1>10. CASE steps # {}
  <2>1. PICK h : h = Min(steps)
    OBVIOUS
  <2>2. h \in steps /\ \A k \in steps : h <= k
    BY <1>3, <1>5, <1>10, <2>1, LeastIs
  <2>3. h \in Nat /\ HasStep(a, p, h) /\ Reaches(a, t, p, h) # {}
    BY <1>3, <1>5, <2>2
  <2>4. PICK d : d \in StepDates(a, p, h) /\ d >= a /\ d >= t
    BY <1>7, <2>3
  <2>5. d \in Int /\ a <= d /\ t <= d
    BY <1>2, <1>4, <2>3, <2>4
  <2>6. Reaches(a, t, p, h) = {d}
    BY <1>2, <1>7, <2>3, <2>4, StepsAlone
  <2>7. ASSUME NEW k \in Nat, k < h, NEW e \in StepDates(a, p, k), a <= e, t <= e PROVE FALSE
    <3>1. HasStep(a, p, k)
      BY <1>2, <2>3, <2>7, EarlierSteps
    <3> QED
      BY <1>8, <2>2, <2>3, <2>7, <3>1
  <2>8. IsFirst(a, p, t, d)
    BY <1>2, <2>3, <2>4, <2>5, <2>7, FirstByStep
  <2>9. Cardinality(Earlier(a, p, d)) = countDateOccurrencesBefore(a, p, h)
    <3>1. PICK K, having : /\ K = {k \in 0..h - 1 : \E e \in StepDates(a, p, k) : a <= e}
                           /\ having = {k \in 0..h - 1 : StepDates(a, p, k) # {}}
      OBVIOUS
    <3>2. Cardinality(Earlier(a, p, d)) = Cardinality(K)
      BY <1>2, <2>3, <2>4, <3>1, CountSteps
    <3>3. countDateOccurrencesBefore(a, p, h) =
            IF h <= 0 THEN 0
            ELSE Cardinality(having) - (IF \E e \in StepDates(a, p, 0) : e < a THEN 1 ELSE 0)
      BY <3>1 DEF countDateOccurrencesBefore
    <3>4. IsFiniteSet(having) /\ Cardinality(having) \in Nat
      <4>1. IsFiniteSet(0..h - 1) /\ having \in SUBSET (0..h - 1)
        BY <2>3, <3>1, FS_Interval
      <4>2. IsFiniteSet(having)
        BY <4>1, FS_Subset
      <4> QED
        BY <4>2, FS_CardinalityType
    <3>5. ASSUME NEW k \in 0..h - 1, k # 0, NEW e \in StepDates(a, p, k) PROVE a <= e
      <4>1. k \in Nat /\ k <= h /\ 1 <= k /\ HasStep(a, p, k)
        BY <1>2, <2>3, <3>5, EarlierSteps
      <4>2. e \in Int /\ a < e
        BY <1>4, <4>1
      <4> QED
        BY <1>2, <4>2
    <3>6. \A e \in StepDates(a, p, 0) : e \in Int /\ \A x \in StepDates(a, p, 0) : x = e
      <4>1. HasStep(a, p, 0)
        BY <1>2, StepsWithin
      <4> QED
        BY <1>2, <4>1, StepDatesAre, StepsAlone
    <3>7. CASE h = 0
      <4>1. K = {}
        BY <3>1, <3>7
      <4> QED
        BY <3>2, <3>3, <3>7, <4>1, FS_EmptySet
    <3>8. CASE h # 0 /\ \E e \in StepDates(a, p, 0) : e < a
      <4>1. 0 \in having
        BY <2>3, <3>1, <3>8
      <4>2. ~\E e \in StepDates(a, p, 0) : a <= e
        BY <1>2, <3>6, <3>8
      <4>3. K = having \ {0}
        BY <3>1, <3>5, <4>2
      <4>4. Cardinality(K) = Cardinality(having) - 1
        BY <3>4, <4>1, <4>3, FS_RemoveElement
      <4> QED
        BY <2>3, <3>2, <3>3, <3>8, <4>4
    <3>9. CASE h # 0 /\ ~\E e \in StepDates(a, p, 0) : e < a
      <4>1. \A e \in StepDates(a, p, 0) : a <= e
        BY <1>2, <3>6, <3>9
      <4>2. K = having
        BY <3>1, <3>5, <4>1
      <4> QED
        BY <2>3, <3>2, <3>3, <3>4, <3>9, <4>2
    <3> QED
      BY <3>7, <3>8, <3>9
  <2>10. dateCandidate(a, t, p) = {[date |-> d, index |-> countDateOccurrencesBefore(a, p, h)]}
    BY <1>6, <1>10, <2>1, <2>6
  <2> QED
    BY <2>5, <2>8, <2>9, <2>10 DEF Found
<1> QED
  BY <1>9, <1>10

\* The offsets a block of weeks has from the first day on.
Available(a, p, block) ==
    IF block = 0 THEN {o \in Offsets(p) : WeekStart(a, p) + o >= a} ELSE Offsets(p)

\* A date by its block and offset.
InBlock(a, p, block, o) == WeekStart(a, p) + block * (7 * p.interval) + o

\* Blocks of weeks follow one another, and the days within a block.
LEMMA BlocksApart ==
    ASSUME NEW p, ValidPattern(p), p.type = "weekly", NEW a \in Int, NEW j \in Nat, NEW k \in Nat,
           NEW x \in 0..6, NEW y \in 0..6
    PROVE  /\ InBlock(a, p, j, x) \in Int
           /\ j < k => InBlock(a, p, j, x) < InBlock(a, p, k, y)
           /\ InBlock(a, p, j, x) < InBlock(a, p, j, y) <=> x < y
           /\ InBlock(a, p, j, x) = InBlock(a, p, k, y) => j = k /\ x = y
<1> DEFINE i == 7 * p.interval
<1>1. i \in Nat \ {0} /\ i >= 7 /\ WeekStart(a, p) \in Int
  BY PatternIs, WeekStartIs
<1>2. InBlock(a, p, j, x) = WeekStart(a, p) + j * i + x /\ InBlock(a, p, k, y) = WeekStart(a, p) + k * i + y
      /\ InBlock(a, p, j, y) = WeekStart(a, p) + j * i + y
  BY DEF InBlock
<1> HIDE DEF i
<1>3. PICK w, u, v : w = WeekStart(a, p) /\ u = j * i /\ v = k * i
  OBVIOUS
<1>4. w \in Int /\ u \in Nat /\ v \in Nat
  BY <1>1, <1>3
<1>5. j < k => u + i <= v
  BY <1>1, <1>3, LaterProduct
<1>6. k < j => v + i <= u
  BY <1>1, <1>3, LaterProduct
<1>7. InBlock(a, p, j, x) = w + u + x /\ InBlock(a, p, k, y) = w + v + y /\ InBlock(a, p, j, y) = w + u + y
  BY <1>2, <1>3
<1>8. ASSUME j = k PROVE u = v
  BY <1>3, <1>8
<1>9. CASE j < k
  BY <1>1, <1>4, <1>5, <1>7, <1>9
<1>10. CASE k < j
  BY <1>1, <1>4, <1>6, <1>7, <1>10
<1>11. CASE j = k
  BY <1>1, <1>4, <1>7, <1>8, <1>11
<1> QED
  BY <1>9, <1>10, <1>11

\* The dates of a weekly pattern, by block and offset.
LEMMA WeeklyOccurs ==
    ASSUME NEW p, ValidPattern(p), p.type = "weekly", NEW a \in Int
    PROVE  /\ \A block \in Nat : Available(a, p, block) \subseteq Offsets(p)
           /\ \A d : d \in Occurs(a, p) <=>
                \E block \in Nat : \E o \in Available(a, p, block) : d = InBlock(a, p, block, o)
<1>1. WeekStart(a, p) \in Int /\ WeekStart(a, p) <= a /\ a <= WeekStart(a, p) + 6 /\ Offsets(p) \subseteq 0..6
  BY WeekStartIs
<1>2. ASSUME NEW k \in Nat, NEW d
      PROVE  d \in StepDates(a, p, k) <=> \E o \in Offsets(p) : d = InBlock(a, p, k, o)
  <2>1. p.interval \in Nat \ {0}
    BY PatternIs
  <2>2. k * (7 * p.interval) = 7 * (k * p.interval)
    BY <2>1
  <2>3. \A o : InBlock(a, p, k, o) = WeekStart(a, p) + 7 * (k * p.interval) + o
    BY <2>2 DEF InBlock
  <2> QED
    BY <2>3, WeeklyStep
<1>3. \A k : HasStep(a, p, k)
  BY DEF HasStep
<1>4. ASSUME NEW k \in Nat, NEW o \in Offsets(p)
      PROVE  InBlock(a, p, k, o) \in Int /\ (a <= InBlock(a, p, k, o) <=> o \in Available(a, p, k))
  <2>1. o \in 0..6
    BY <1>1
  <2>2. InBlock(a, p, k, o) \in Int
    BY <2>1, BlocksApart
  <2>3. CASE k = 0
    <3>1. p.interval \in Nat /\ 0 * (7 * p.interval) = 0
      BY PatternIs
    <3>2. InBlock(a, p, k, o) = WeekStart(a, p) + o
      BY <1>1, <2>1, <2>3, <3>1 DEF InBlock
    <3> QED
      BY <1>1, <2>1, <2>3, <3>2 DEF Available
  <2>4. CASE 0 < k
    <3>1. p.interval \in Nat \ {0}
      BY PatternIs
    <3>2. 0 * (7 * p.interval) + 7 * p.interval <= k * (7 * p.interval) /\ 0 * (7 * p.interval) = 0
      BY <2>4, <3>1, LaterProduct
    <3>3. PICK x : x = k * (7 * p.interval)
      OBVIOUS
    <3>4. x \in Nat /\ 7 <= x /\ InBlock(a, p, k, o) = WeekStart(a, p) + x + o
      BY <3>1, <3>2, <3>3 DEF InBlock
    <3>5. a <= InBlock(a, p, k, o)
      BY <1>1, <2>1, <3>4
    <3>6. Available(a, p, k) = Offsets(p)
      BY <2>4 DEF Available
    <3> QED
      BY <2>2, <3>5, <3>6
  <2> QED
    BY <2>2, <2>3, <2>4
<1>5. \A block \in Nat : Available(a, p, block) \subseteq Offsets(p)
  BY DEF Available
<1>6. ASSUME NEW d
      PROVE  d \in Occurs(a, p) <=>
               \E block \in Nat : \E o \in Available(a, p, block) : d = InBlock(a, p, block, o)
  <2>1. ASSUME d \in Occurs(a, p)
        PROVE  \E block \in Nat : \E o \in Available(a, p, block) : d = InBlock(a, p, block, o)
    <3>1. PICK k \in Nat : a <= d /\ d \in StepDates(a, p, k)
      BY <2>1 DEF Occurs
    <3>2. PICK o \in Offsets(p) : d = InBlock(a, p, k, o)
      BY <1>2, <3>1
    <3> QED
      BY <1>4, <3>1, <3>2
  <2>2. ASSUME NEW k \in Nat, NEW o \in Available(a, p, k), d = InBlock(a, p, k, o)
        PROVE  d \in Occurs(a, p)
    <3>1. o \in Offsets(p)
      BY <1>5
    <3>2. d \in Int /\ a <= d
      BY <1>4, <2>2, <3>1
    <3>3. d \in StepDates(a, p, k)
      BY <1>2, <2>2, <3>1
    <3> QED
      BY <1>3, <3>2, <3>3 DEF Occurs
  <2> QED
    BY <2>1, <2>2
<1> QED
  BY <1>5, <1>6

\* How many dates of the pattern are before a block.
Before(a, p, block) ==
    IF block = 0 THEN 0
    ELSE Cardinality(Available(a, p, 0)) + (block - 1) * Cardinality(Offsets(p))

\* The days of a block can be counted.
LEMMA WeeksFinite ==
    ASSUME NEW p, ValidPattern(p), p.type = "weekly", NEW a \in Int, NEW block \in Nat
    PROVE  /\ IsFiniteSet(Offsets(p)) /\ Cardinality(Offsets(p)) \in Nat
           /\ IsFiniteSet(Available(a, p, block)) /\ Cardinality(Available(a, p, block)) \in Nat
<1>1. IsFiniteSet(0..6) /\ Offsets(p) \in SUBSET (0..6)
  <2>1. WeekStart(a, p) \in Int /\ Offsets(p) \subseteq 0..6
    BY WeekStartIs
  <2>2. IsFiniteSet(0..6)
    <3>1. PICK six \in Int : six = 6
      OBVIOUS
    <3>2. IsFiniteSet(0..six)
      BY FS_Interval
    <3> QED
      BY <3>1, <3>2
  <2> QED
    BY <2>1, <2>2
<1>2. IsFiniteSet(Offsets(p))
  BY <1>1, FS_Subset
<1>3. Available(a, p, block) \in SUBSET Offsets(p)
  BY WeeklyOccurs
<1>4. IsFiniteSet(Available(a, p, block))
  BY <1>2, <1>3, FS_Subset
<1> QED
  BY <1>2, <1>4, FS_CardinalityType

Until(a, p, h, o) == {x \in Available(a, p, h) : x < o}

PairsBefore(a, p, h, o) ==
    {pair \in (0..h) \X (0..6) : /\ pair[2] \in Available(a, p, pair[1])
                                 /\ pair[1] = h => pair[2] < o}

\* Blocks and offsets before one are as many as the whole blocks and what is left of the last.
LEMMA CountBlocks ==
    ASSUME NEW p, ValidPattern(p), p.type = "weekly", NEW a \in Int, NEW h \in Nat, NEW o \in 0..6
    PROVE  /\ IsFiniteSet(PairsBefore(a, p, h, o))
           /\ Cardinality(PairsBefore(a, p, h, o))
                = Before(a, p, h) + Cardinality(Until(a, p, h, o))
<1> DEFINE pairs == PairsBefore(a, p, h, o)
           last == Until(a, p, h, o)
<1>1. Offsets(p) \subseteq 0..6
  BY WeekStartIs
<1>2. \A k \in Nat : Available(a, p, k) \subseteq Offsets(p)
  BY WeeklyOccurs
<1>3. /\ IsFiniteSet(Offsets(p)) /\ Cardinality(Offsets(p)) \in Nat
      /\ IsFiniteSet(Available(a, p, 0)) /\ Cardinality(Available(a, p, 0)) \in Nat
      /\ IsFiniteSet(Available(a, p, h))
  BY WeeksFinite
<1>4. IsFiniteSet(last) /\ Cardinality(last) \in Nat
  <2>1. last \in SUBSET Available(a, p, h)
    BY DEF Until
  <2>2. IsFiniteSet(last)
    BY <1>3, <2>1, FS_Subset
  <2> QED
    BY <2>2, FS_CardinalityType
<1>5. IsFiniteSet({h} \X last) /\ Cardinality({h} \X last) = Cardinality(last)
  <2>1. IsFiniteSet({h}) /\ Cardinality({h}) = 1
    BY FS_Singleton
  <2>2. Cardinality({h} \X last) = 1 * Cardinality(last) /\ IsFiniteSet({h} \X last)
    BY <1>4, <2>1, FS_Product
  <2> QED
    BY <1>4, <2>2
<1>6. CASE h = 0
  <2>1. pairs = {h} \X last
    BY <1>1, <1>2, <1>6 DEF PairsBefore, Until
  <2>2. Before(a, p, h) = 0
    BY <1>6 DEF Before
  <2> HIDE DEF pairs, last
  <2>3. IsFiniteSet(pairs) /\ Cardinality(pairs) = Before(a, p, h) + Cardinality(last)
    BY <1>4, <1>5, <2>1, <2>2
  <2> QED
    BY <2>3 DEF pairs, last
<1>7. CASE h # 0
  <2> DEFINE first == {0} \X Available(a, p, 0)
             whole == (1..h - 1) \X Offsets(p)
             rest == {h} \X last
  <2>1. IsFiniteSet(first) /\ Cardinality(first) = Cardinality(Available(a, p, 0))
    <3>1. IsFiniteSet({0}) /\ Cardinality({0}) = 1
      BY FS_Singleton
    <3>2. Cardinality({0} \X Available(a, p, 0)) = 1 * Cardinality(Available(a, p, 0))
          /\ IsFiniteSet({0} \X Available(a, p, 0))
      BY <1>3, <3>1, FS_Product
    <3> QED
      BY <1>3, <3>2
  <2>2. IsFiniteSet(whole) /\ Cardinality(whole) = (h - 1) * Cardinality(Offsets(p))
    <3>1. IsFiniteSet(1..h - 1) /\ Cardinality(1..h - 1) = h - 1
      <4>1. IsFiniteSet(1..h - 1) /\ Cardinality(1..h - 1) = IF 1 > h - 1 THEN 0 ELSE h - 1 - 1 + 1
        BY FS_Interval
      <4> QED
        BY <1>7, <4>1
    <3> QED
      BY <1>3, <3>1, FS_Product
  <2>3. pairs = (first \cup whole) \cup rest
    <3>1. ASSUME NEW k \in 0..h, NEW x \in 0..6
          PROVE  <<k, x>> \in pairs <=> <<k, x>> \in (first \cup whole) \cup rest
      <4>1. CASE k = 0
        BY <1>7, <3>1, <4>1 DEF PairsBefore, Until
      <4>2. CASE k = h
        BY <1>7, <3>1, <4>2 DEF PairsBefore, Until
      <4>3. CASE k # 0 /\ k # h
        <5>1. k \in 1..h - 1 /\ Available(a, p, k) = Offsets(p)
          BY <3>1, <4>3 DEF Available
        <5> QED
          BY <4>3, <5>1 DEF PairsBefore, Until
      <4> QED
        BY <4>1, <4>2, <4>3
    <3>2. pairs \subseteq (0..h) \X (0..6)
      BY DEF PairsBefore, Until
    <3>3. (first \cup whole) \cup rest \subseteq (0..h) \X (0..6)
      BY <1>1, <1>2 DEF Until
    <3> HIDE DEF pairs, first, whole, rest
    <3>4. ASSUME NEW z \in (0..h) \X (0..6)
          PROVE  z \in pairs <=> z \in (first \cup whole) \cup rest
      <4>1. PICK k \in 0..h, x \in 0..6 : z = <<k, x>>
        OBVIOUS
      <4> QED
        BY <3>1, <4>1
    <3> QED
      BY <3>2, <3>3, <3>4
  <2>4. first \cap whole = {} /\ (first \cup whole) \cap rest = {}
    <3>1. first \cap whole = {}
      OBVIOUS
    <3>2. first \cap rest = {}
      BY <1>7
    <3>3. whole \cap rest = {}
      OBVIOUS
    <3> QED
      BY <3>1, <3>2, <3>3
  <2>5. IsFiniteSet(rest) /\ Cardinality(rest) = Cardinality(last)
    BY <1>5
  <2>6. Before(a, p, h) = Cardinality(Available(a, p, 0)) + (h - 1) * Cardinality(Offsets(p))
        /\ (h - 1) * Cardinality(Offsets(p)) \in Nat
    <3>1. h - 1 \in Nat
      BY <1>7
    <3> QED
      BY <1>3, <1>7, <3>1 DEF Before
  <2> HIDE DEF pairs, first, whole, rest, last
  <2>7. IsFiniteSet(first \cup whole) /\ Cardinality(first \cup whole) = Cardinality(first) + Cardinality(whole)
    <3>1. Cardinality(first \cup whole) = Cardinality(first) + Cardinality(whole) - Cardinality(first \cap whole)
          /\ IsFiniteSet(first \cup whole)
      BY <2>1, <2>2, FS_Union
    <3>2. Cardinality(first \cap whole) = 0
      BY <2>4, FS_EmptySet
    <3>3. Cardinality(first) \in Nat /\ Cardinality(whole) \in Nat
      BY <1>3, <2>1, <2>2, <2>6
    <3> QED
      BY <3>1, <3>2, <3>3
  <2>8. /\ IsFiniteSet((first \cup whole) \cup rest)
        /\ Cardinality((first \cup whole) \cup rest) = Cardinality(first) + Cardinality(whole) + Cardinality(rest)
    <3>1. /\ IsFiniteSet((first \cup whole) \cup rest)
          /\ Cardinality((first \cup whole) \cup rest)
               = Cardinality(first \cup whole) + Cardinality(rest) - Cardinality((first \cup whole) \cap rest)
      BY <2>5, <2>7, FS_Union
    <3>2. Cardinality((first \cup whole) \cap rest) = 0
      BY <2>4, FS_EmptySet
    <3>3. Cardinality(first) \in Nat /\ Cardinality(whole) \in Nat /\ Cardinality(rest) \in Nat
      BY <1>3, <1>4, <2>1, <2>2, <2>5, <2>6
    <3> QED
      BY <2>7, <3>1, <3>2, <3>3
  <2>9. IsFiniteSet(pairs) /\ Cardinality(pairs) = Before(a, p, h) + Cardinality(last)
    BY <2>1, <2>2, <2>3, <2>5, <2>6, <2>8
  <2> QED
    BY <2>9 DEF pairs, last
<1> QED
  BY <1>6, <1>7

\* Dates of a weekly pattern are counted by blocks.
LEMMA CountWeekly ==
    ASSUME NEW p, ValidPattern(p), p.type = "weekly", NEW a \in Int, NEW h \in Nat,
           NEW o \in Available(a, p, h)
    PROVE  Cardinality(Earlier(a, p, InBlock(a, p, h, o)))
             = Before(a, p, h) + Cardinality(Until(a, p, h, o))
<1> DEFINE d == InBlock(a, p, h, o)
           pairs == PairsBefore(a, p, h, o)
           f == [pair \in pairs |-> InBlock(a, p, pair[1], pair[2])]
<1>1. Offsets(p) \subseteq 0..6 /\ WeekStart(a, p) \in Int
  BY WeekStartIs
<1>2. \A k \in Nat : Available(a, p, k) \subseteq 0..6
  BY <1>1, WeeklyOccurs
<1>3. o \in 0..6
  BY <1>2
<1>4. IsFiniteSet(pairs) /\ Cardinality(pairs) = Before(a, p, h) + Cardinality(Until(a, p, h, o))
  BY <1>3, CountBlocks
<1>5. ASSUME NEW k \in Nat, NEW x \in Available(a, p, k)
      PROVE  InBlock(a, p, k, x) < d <=> k < h \/ (k = h /\ x < o)
  <2>1. x \in 0..6
    BY <1>2
  <2>2. InBlock(a, p, k, x) \in Int /\ d \in Int
    BY <1>3, <2>1, BlocksApart
  <2>3. k < h => InBlock(a, p, k, x) < d
    BY <1>3, <2>1, BlocksApart
  <2>4. h < k => d < InBlock(a, p, k, x)
    BY <1>3, <2>1, BlocksApart
  <2>5. k = h => (InBlock(a, p, k, x) < d <=> x < o)
    BY <1>3, <2>1, BlocksApart
  <2> HIDE DEF d
  <2> QED
    BY <2>2, <2>3, <2>4, <2>5
<1>6. ASSUME NEW z \in pairs
      PROVE  \E k \in 0..h, x \in 0..6 :
               /\ z = <<k, x>> /\ x \in Available(a, p, k) /\ (k = h => x < o)
               /\ f[z] = InBlock(a, p, k, x)
  <2>1. PICK k \in 0..h, x \in 0..6 : z = <<k, x>> /\ x \in Available(a, p, k) /\ (k = h => x < o)
    BY DEF PairsBefore
  <2>2. f[z] = InBlock(a, p, z[1], z[2])
    OBVIOUS
  <2> HIDE DEF f
  <2> QED
    BY <2>1, <2>2
<1>7. ASSUME NEW k \in 0..h, NEW x \in 0..6, x \in Available(a, p, k), k = h => x < o
      PROVE  <<k, x>> \in pairs /\ f[<<k, x>>] = InBlock(a, p, k, x)
  <2>1. <<k, x>> \in pairs
    BY <1>7 DEF PairsBefore
  <2> QED
    BY <2>1
<1> HIDE DEF f
<1>8. f \in [pairs -> Earlier(a, p, d)]
  <2>1. ASSUME NEW z \in pairs PROVE f[z] \in Earlier(a, p, d)
    <3>1. PICK k \in 0..h, x \in 0..6 : /\ x \in Available(a, p, k) /\ (k = h => x < o)
                                        /\ f[z] = InBlock(a, p, k, x)
      BY <1>6
    <3>2. k \in Nat /\ (k < h \/ (k = h /\ x < o))
      BY <3>1
    <3>3. f[z] < d
      BY <1>5, <3>1, <3>2
    <3>4. f[z] \in Occurs(a, p)
      BY <3>1, <3>2, WeeklyOccurs
    <3> QED
      BY <3>3, <3>4 DEF Earlier
  <2> QED
    BY <2>1 DEF f
<1> HIDE DEF pairs
<1>9. ASSUME NEW y \in pairs, NEW z \in pairs, f[y] = f[z] PROVE y = z
  <2>1. PICK j \in 0..h, x \in 0..6 : y = <<j, x>> /\ f[y] = InBlock(a, p, j, x)
    BY <1>6
  <2>2. PICK k \in 0..h, v \in 0..6 : z = <<k, v>> /\ f[z] = InBlock(a, p, k, v)
    BY <1>6
  <2>3. InBlock(a, p, j, x) = InBlock(a, p, k, v) /\ j \in Nat /\ k \in Nat
    BY <1>9, <2>1, <2>2
  <2>4. /\ j < k => InBlock(a, p, j, x) < InBlock(a, p, k, v)
        /\ k < j => InBlock(a, p, k, v) < InBlock(a, p, j, x)
        /\ InBlock(a, p, j, x) \in Int /\ InBlock(a, p, k, v) \in Int
    BY <2>3, BlocksApart
  <2>5. j = k
    BY <2>3, <2>4
  <2>6. InBlock(a, p, j, x) = InBlock(a, p, j, v) => x = v
    BY <2>3, BlocksApart
  <2> QED
    BY <2>1, <2>2, <2>3, <2>5, <2>6
<1>10. ASSUME NEW e \in Earlier(a, p, d) PROVE \E z \in pairs : f[z] = e
  <2>1. e \in Occurs(a, p) /\ e < d
    BY DEF Earlier
  <2>2. PICK k \in Nat : \E x \in Available(a, p, k) : e = InBlock(a, p, k, x)
    BY <2>1, WeeklyOccurs
  <2>3. PICK x \in Available(a, p, k) : e = InBlock(a, p, k, x)
    BY <2>2
  <2>4. k < h \/ (k = h /\ x < o)
    BY <1>5, <2>1, <2>3
  <2>5. k \in 0..h /\ x \in 0..6 /\ (k = h => x < o)
    BY <1>2, <2>4
  <2> QED
    BY <1>7, <2>3, <2>5
<1>11. Cardinality(Earlier(a, p, d)) = Cardinality(pairs)
  BY <1>4, <1>8, <1>9, <1>10, CountedBy
<1> QED
  BY <1>4, <1>11

\* The offsets of a block from a date on, and what the jump makes of the first of them.
Hits(a, p, sought, block) == {o \in Available(a, p, block) : InBlock(a, p, block, o) >= sought}

Hit(a, p, sought, block) ==
    [date |-> InBlock(a, p, block, Min(Hits(a, p, sought, block))),
     index |-> Before(a, p, block) + Cardinality(Until(a, p, block, Min(Hits(a, p, sought, block))))]

\* The two attempts of a weekly pattern.
LEMMA WeeklyCandidateIs ==
    ASSUME NEW p, NEW a, NEW t
    PROVE  LET sought == Max({a, t})
               near == (sought - WeekStart(a, p)) \div (7 * p.interval)
           IN  weeklyCandidate(a, t, p) =
                 IF Hits(a, p, sought, near) # {} THEN {Hit(a, p, sought, near)}
                 ELSE IF Hits(a, p, sought, near + 1) # {} THEN {Hit(a, p, sought, near + 1)} ELSE {}
BY Zenon DEF weeklyCandidate, Hit, Hits, Before, Until, Available, InBlock

\* Weeks: the block the target falls in, or the next.
LEMMA WeeklyFinds ==
    ASSUME NEW p, ValidPattern(p), p.type = "weekly", NEW a \in Int, NEW t \in Int
    PROVE  Found(weeklyCandidate(a, t, p), a, p, t)
<1>1. PICK M, S, span, near : /\ M = Max({a, t}) /\ S = WeekStart(a, p) /\ span = 7 * p.interval
                              /\ near = (M - S) \div span
  OBVIOUS
<1>2. /\ M \in Int /\ a <= M /\ t <= M /\ \A e \in Int : a <= e /\ t <= e => M <= e
  <2>1. M = IF a < t THEN t ELSE a
    BY <1>1, MaxOfTwo
  <2> QED
    BY <2>1
<1>3. /\ S \in Int /\ S <= a /\ Offsets(p) \subseteq 0..6 /\ Offsets(p) # {}
      /\ span \in Nat \ {0} /\ 7 <= span
  BY <1>1, WeekStartIs, PatternIs
<1>4. near \in Nat /\ near * span \in Nat /\ near * span <= M - S /\ M - S < near * span + span
  <2>1. M - S \in Nat
    BY <1>2, <1>3
  <2> QED
    BY <1>1, <1>3, <2>1, DivIs
<1>5. \A k, o : InBlock(a, p, k, o) = S + k * span + o
  BY <1>1 DEF InBlock
<1>6. \A k \in Nat : Available(a, p, k) \subseteq 0..6
  BY <1>3, WeeklyOccurs
<1>7. ASSUME NEW k \in Nat, NEW o \in Available(a, p, k), M <= InBlock(a, p, k, o) PROVE near <= k
  <2>1. o \in 0..6
    BY <1>6
  <2>2. ASSUME k < near PROVE FALSE
    <3>1. k * span \in Nat /\ k * span + span <= near * span
      BY <1>3, <1>4, <2>2, LaterProduct
    <3>2. PICK u, v : u = k * span /\ v = near * span
      OBVIOUS
    <3>3. M <= S + u + o
      BY <1>5, <1>7, <3>2
    <3> QED
      BY <1>2, <1>3, <1>4, <2>1, <3>1, <3>2, <3>3
  <2> QED
    BY <1>4, <2>2
<1>8. \A k : Hits(a, p, M, k) = {o \in Available(a, p, k) : InBlock(a, p, k, o) >= M}
  BY DEF Hits
<1>9. Hits(a, p, M, near + 1) # {}
  <2>1. PICK o : o \in Offsets(p)
    BY <1>3
  <2>2. Available(a, p, near + 1) = Offsets(p)
    BY <1>4 DEF Available
  <2>3. (near + 1) * span = near * span + span
    BY <1>3, <1>4
  <2>4. InBlock(a, p, near + 1, o) = S + (near * span + span) + o
    BY <1>5, <2>3
  <2>5. PICK v : v = near * span
    OBVIOUS
  <2>6. o \in 0..6
    BY <1>3, <2>1
  <2>7. InBlock(a, p, near + 1, o) >= M
    BY <1>2, <1>3, <1>4, <2>4, <2>5, <2>6
  <2> QED
    BY <1>8, <2>1, <2>2, <2>7
<1>10. PICK h : h = IF Hits(a, p, M, near) # {} THEN near ELSE near + 1
  OBVIOUS
<1>11. h \in Nat /\ near <= h /\ Hits(a, p, M, h) # {} /\ weeklyCandidate(a, t, p) = {Hit(a, p, M, h)}
  <2>1. weeklyCandidate(a, t, p) =
          IF Hits(a, p, M, near) # {} THEN {Hit(a, p, M, near)}
          ELSE IF Hits(a, p, M, near + 1) # {} THEN {Hit(a, p, M, near + 1)} ELSE {}
    BY <1>1, WeeklyCandidateIs
  <2> QED
    BY <1>4, <1>9, <1>10, <2>1
<1>12. PICK o : o = Min(Hits(a, p, M, h))
  OBVIOUS
<1>13. o \in Hits(a, p, M, h) /\ \A x \in Hits(a, p, M, h) : o <= x
  <2>1. Hits(a, p, M, h) \subseteq Nat
    BY <1>6, <1>8, <1>11
  <2> QED
    BY <1>11, <1>12, <2>1, LeastIs
<1>14. PICK d : d = InBlock(a, p, h, o)
  OBVIOUS
<1>15. o \in Available(a, p, h) /\ o \in 0..6 /\ d \in Int /\ M <= d
  <2>1. o \in Available(a, p, h) /\ d >= M
    BY <1>8, <1>13, <1>14
  <2>2. o \in 0..6
    BY <1>6, <1>11, <2>1
  <2>3. d \in Int
    BY <1>11, <1>14, <2>2, BlocksApart
  <2> QED
    BY <1>2, <2>1, <2>2, <2>3
<1>16. IsFirst(a, p, t, d)
  <2>1. d \in Occurs(a, p)
    BY <1>11, <1>14, <1>15, WeeklyOccurs
  <2>2. ASSUME NEW e \in Occurs(a, p), t <= e PROVE d <= e
    <3>1. PICK k \in Nat : \E x \in Available(a, p, k) : e = InBlock(a, p, k, x)
      BY WeeklyOccurs
    <3>2. PICK x \in Available(a, p, k) : e = InBlock(a, p, k, x)
      BY <3>1
    <3>3. e \in Int /\ a <= e
      BY DEF Occurs
    <3>4. M <= e
      BY <1>2, <2>2, <3>3
    <3>5. near <= k /\ x \in 0..6
      BY <1>6, <1>7, <3>2, <3>4
    <3>6. x \in Hits(a, p, M, k)
      BY <1>2, <1>8, <3>2, <3>3, <3>4
    <3>7. CASE h < k
      <4>1. d < e
        BY <1>11, <1>14, <1>15, <3>2, <3>5, <3>7, BlocksApart
      <4> QED
        BY <1>15, <3>3, <4>1
    <3>8. CASE h = k
      <4>1. o <= x
        BY <1>13, <3>6, <3>8
      <4>2. ~(x < o)
        BY <1>15, <3>5, <4>1
      <4>3. ~(e < d)
        BY <1>11, <1>14, <1>15, <3>2, <3>5, <3>8, <4>2, BlocksApart
      <4> QED
        BY <1>15, <3>3, <4>3
    <3>9. ~(k < h)
      <4>1. k < h => k = near /\ h = near + 1
        BY <1>4, <1>10, <3>5
      <4>2. k = near => h = near
        BY <1>10, <3>6
      <4> QED
        BY <1>4, <4>1, <4>2
    <3> QED
      BY <1>11, <3>7, <3>8, <3>9
  <2> QED
    BY <1>2, <1>15, <2>1, <2>2 DEF IsFirst
<1>17. Hit(a, p, M, h) = [date |-> d, index |-> Cardinality(Earlier(a, p, d))]
  <2>1. Cardinality(Earlier(a, p, InBlock(a, p, h, o))) = Before(a, p, h) + Cardinality(Until(a, p, h, o))
    BY <1>11, <1>15, CountWeekly
  <2>2. Hit(a, p, M, h) = [date |-> InBlock(a, p, h, o),
                           index |-> Before(a, p, h) + Cardinality(Until(a, p, h, o))]
    BY <1>12 DEF Hit
  <2> QED
    BY <1>14, <2>1, <2>2
<1> QED
  BY <1>11, <1>15, <1>16, <1>17 DEF Found

\* A rule that leaves a date leaves those before it.
LEMMA LeavesDown ==
    ASSUME NEW r, ValidRule(r), NEW a, ValidAnchor(a, r.pattern), NEW d \in Int, NEW e \in Int,
           d <= e, Leaves(r, a, e)
    PROVE  Leaves(r, a, d)
<1>1. \/ r.end.type = "never"
      \/ r.end.type = "date" /\ r.end.last \in Int
      \/ r.end.type = "count" /\ r.end.count \in Nat \ {0}
  BY EndIs
<1>2. CASE r.end.type = "count"
  <2>1. a \in Int
    BY DEF ValidAnchor
  <2>2. /\ IsFiniteSet(Earlier(a, r.pattern, e)) /\ Cardinality(Earlier(a, r.pattern, e)) \in Nat
        /\ Cardinality(Earlier(a, r.pattern, d)) \in Nat
    BY <2>1, EarlierFinite
  <2>3. Earlier(a, r.pattern, d) \in SUBSET Earlier(a, r.pattern, e)
    BY DEF Earlier, Occurs
  <2>4. Cardinality(Earlier(a, r.pattern, d)) <= Cardinality(Earlier(a, r.pattern, e))
    BY <2>2, <2>3, FS_Subset
  <2>5. Cardinality(Earlier(a, r.pattern, e)) < r.end.count
    BY <1>2 DEF Leaves
  <2> QED
    BY <1>1, <1>2, <2>2, <2>4, <2>5 DEF Leaves
<1>3. CASE r.end.type # "count"
  BY <1>1, <1>3 DEF Leaves
<1> QED
  BY <1>2, <1>3

\* The jump comes to the first occurrence on or after a day, with the occurrences before it
\* counted, for every pattern.
LEMMA JumpFinds ==
    ASSUME NEW r, ValidRule(r), NEW a, ValidAnchor(a, r.pattern), NEW t \in Int,
           ~ByDays(r.pattern) => t \in CalendarDays
    PROVE  \/ /\ firstOccurrenceOnOrAfter(a, r, t) = {}
              /\ \A e \in Occurs(a, r.pattern) : t <= e => ~Leaves(r, a, e)
           \/ \E d \in Int :
                /\ IsFirst(a, r.pattern, t, d) /\ Leaves(r, a, d)
                /\ firstOccurrenceOnOrAfter(a, r, t)
                     = {[date |-> d, index |-> Cardinality(Earlier(a, r.pattern, d))]}
<1>1. PICK p : p = r.pattern
  OBVIOUS
<1>2. ValidPattern(p) /\ a \in Int /\ (~ByDays(p) => a \in CalendarDays /\ t \in CalendarDays)
  BY <1>1 DEF ValidRule, ValidAnchor
<1>3. PICK C : Found(C, a, p, t) /\ firstOccurrenceOnOrAfter(a, r, t) = applyRecurrenceEnd(C, r)
  <2>1. CASE p.type = "daily"
    <3>1. firstOccurrenceOnOrAfter(a, r, t) = applyRecurrenceEnd(dailyCandidate(a, t, p), r)
      BY <1>1, <2>1 DEF firstOccurrenceOnOrAfter
    <3> QED
      BY <1>2, <2>1, <3>1, DailyFinds
  <2>2. CASE p.type = "weekly"
    <3>1. firstOccurrenceOnOrAfter(a, r, t) = applyRecurrenceEnd(weeklyCandidate(a, t, p), r)
      BY <1>1, <2>2 DEF firstOccurrenceOnOrAfter
    <3> QED
      BY <1>2, <2>2, <3>1, WeeklyFinds
  <2>3. CASE p.type \in {"monthly-date", "yearly-date"}
    <3>1. firstOccurrenceOnOrAfter(a, r, t) = applyRecurrenceEnd(dateCandidate(a, t, p), r)
      BY <1>1, <2>3 DEF firstOccurrenceOnOrAfter
    <3>2. ~ByDays(p)
      BY <2>3 DEF ByDays
    <3> QED
      BY <1>2, <2>3, <3>1, <3>2, DateFinds
  <2>4. CASE p.type \in {"monthly-ordinal", "yearly-ordinal"}
    <3>1. firstOccurrenceOnOrAfter(a, r, t) = applyRecurrenceEnd(ordinalCandidate(a, t, p), r)
      BY <1>1, <2>4 DEF firstOccurrenceOnOrAfter
    <3>2. ~ByDays(p)
      BY <2>4 DEF ByDays
    <3> QED
      BY <1>2, <2>4, <3>1, <3>2, OrdinalFinds
  <2> QED
    BY <1>2, <2>1, <2>2, <2>3, <2>4, PatternIs
<1>4. CASE C = {} /\ \A e \in Occurs(a, p) : e < t
  <2>1. firstOccurrenceOnOrAfter(a, r, t) = {}
    BY <1>3, <1>4 DEF applyRecurrenceEnd
  <2>2. \A e \in Occurs(a, p) : e \in Int
    BY DEF Occurs
  <2> QED
    BY <1>1, <1>4, <2>1, <2>2
<1>5. ASSUME NEW d \in Int, IsFirst(a, p, t, d),
             C = {[date |-> d, index |-> Cardinality(Earlier(a, p, d))]}
      PROVE  \/ /\ firstOccurrenceOnOrAfter(a, r, t) = {}
                /\ \A e \in Occurs(a, p) : t <= e => ~Leaves(r, a, e)
             \/ /\ IsFirst(a, p, t, d) /\ Leaves(r, a, d)
                /\ firstOccurrenceOnOrAfter(a, r, t)
                     = {[date |-> d, index |-> Cardinality(Earlier(a, p, d))]}
  <2>1. PICK c : c = [date |-> d, index |-> Cardinality(Earlier(a, p, d))]
    OBVIOUS
  <2>2. c.date = d /\ c.index = Cardinality(Earlier(a, p, d)) /\ C = {c}
    BY <1>5, <2>1
  <2>3. applyRecurrenceEnd(C, r) =
          {x \in C : /\ r.end.type = "count" => x.index < r.end.count
                     /\ r.end.type = "date" => x.date <= r.end.last}
    BY DEF applyRecurrenceEnd
  <2>4. Leaves(r, a, d) <=> /\ r.end.type = "count" => c.index < r.end.count
                            /\ r.end.type = "date" => c.date <= r.end.last
    BY <1>1, <2>2, EndIs DEF Leaves
  <2>5. CASE Leaves(r, a, d)
    BY <1>3, <1>5, <2>1, <2>2, <2>3, <2>4, <2>5
  <2>6. CASE ~Leaves(r, a, d)
    <3>1. firstOccurrenceOnOrAfter(a, r, t) = {}
      BY <1>3, <2>2, <2>3, <2>4, <2>6
    <3>2. ASSUME NEW e \in Occurs(a, p), t <= e, Leaves(r, a, e) PROVE FALSE
      <4>1. d <= e /\ e \in Int
        BY <1>5, <3>2 DEF IsFirst, Occurs
      <4> QED
        BY <2>6, <3>2, <4>1, LeavesDown
    <3> QED
      BY <3>1, <3>2
  <2> QED
    BY <2>5, <2>6
<1> QED
  BY <1>1, <1>3, <1>4, <1>5 DEF Found

\* What is left of a series from one of its dates on, with those before it off the count.
LEMMA TailLeaves ==
    ASSUME NEW r, IsRule(r), NEW a, ValidAnchor(a, r.pattern), NEW s \in Occurs(a, r.pattern),
           Leaves(r, a, s), NEW d \in Int, s <= d
    PROVE  LET rest == adjustedRecurrence(r, Cardinality(Earlier(a, r.pattern, s)))
           IN  IsRule(rest) /\ rest.pattern = r.pattern /\ (Leaves(rest, s, d) <=> Leaves(r, a, d))
<1>1. /\ ValidRule(r) /\ ValidPattern(r.pattern) /\ a \in Int /\ s \in Int
  BY DEF IsRule, ValidRule, ValidAnchor, Occurs
<1>2. PICK n, rest : n = Cardinality(Earlier(a, r.pattern, s)) /\ rest = adjustedRecurrence(r, n)
  OBVIOUS
<1>3. n \in Nat /\ Cardinality(Earlier(s, r.pattern, d)) \in Nat
  BY <1>1, <1>2, EarlierFinite
<1>4. r.end.type = "count" => n < r.end.count
  BY <1>1, <1>2, EndIs DEF Leaves
<1>5. /\ IsRule(rest) /\ rest.pattern = r.pattern /\ rest.end.type = r.end.type
      /\ r.end.type = "count" => rest.end.count = r.end.count - n
      /\ r.end.type # "count" => rest = r
  BY <1>2, <1>3, <1>4, AdjustedIs
<1>6. Cardinality(Earlier(a, r.pattern, d)) = n + Cardinality(Earlier(s, r.pattern, d))
  BY <1>1, <1>2, EarlierSplit
<1>7. CASE r.end.type = "count"
  <2>1. r.end.count \in Nat
    BY <1>1, <1>7, EndIs
  <2>2. Cardinality(Earlier(s, r.pattern, d)) < r.end.count - n
          <=> Cardinality(Earlier(a, r.pattern, d)) < r.end.count
    BY <1>3, <1>6, <2>1
  <2>3. Leaves(rest, s, d) <=> Leaves(r, a, d)
    BY <1>5, <1>7, <2>2 DEF Leaves
  <2> QED
    BY <1>2, <1>5, <2>3
<1>8. CASE r.end.type # "count"
  <2>1. Leaves(rest, s, d) <=> Leaves(r, a, d)
    BY <1>5, <1>8 DEF Leaves
  <2> QED
    BY <1>2, <1>5, <2>1
<1> QED
  BY <1>7, <1>8

\* What lies in a window does not depend on where it ends: a calendar that expands a rule month
\* by month shows what one expansion over all the months does.
THEOREM WindowsAgree ==
    ASSUME NEW r, ValidRule(r), NEW a, ValidAnchor(a, r.pattern),
           NEW lo \in Int, NEW hi \in Int, NEW from \in Int, NEW to \in Int, from <= lo, hi <= to
    PROVE  expandRecurrenceDates(a, r, lo, hi)
             = {d \in expandRecurrenceDates(a, r, from, to) : lo <= d /\ d <= hi}
<1>1. \A d : d \in expandRecurrenceDates(a, r, lo, hi) <=>
               d \in Occurs(a, r.pattern) /\ lo <= d /\ d <= hi /\ Leaves(r, a, d)
  BY ExpansionIs
<1>2. \A d : d \in expandRecurrenceDates(a, r, from, to) <=>
               d \in Occurs(a, r.pattern) /\ from <= d /\ d <= to /\ Leaves(r, a, d)
  BY ExpansionIs
<1>3. Occurs(a, r.pattern) \subseteq Int
  BY DEF Occurs
<1>4. \A d : d \in expandRecurrenceDates(a, r, lo, hi) <=>
               d \in expandRecurrenceDates(a, r, from, to) /\ lo <= d /\ d <= hi
  BY <1>1, <1>2, <1>3
<1> QED
  BY <1>4

\* The jump of a first import, which computes a date and how many were skipped, agrees with the
\* expansion, which lists them: in any window that begins at the target it is the first date of
\* the expansion, with as many dates before it as its index says.
THEOREM JumpAgrees ==
    ASSUME NEW r, ValidRule(r), NEW a, ValidAnchor(a, r.pattern), NEW t \in CalendarDays,
           NEW last \in Int
    PROVE  LET jump == {one \in firstOccurrenceOnOrAfter(a, r, t) : one.date <= last}
               window == expandRecurrenceDates(a, r, t, last)
           IN  /\ {one.date : one \in jump} = {d \in window : \A e \in window : d <= e}
               /\ \A one \in jump :
                    one.index = Cardinality(expandRecurrenceDates(a, r, a, one.date - 1))
<1> DEFINE p == r.pattern
           window == expandRecurrenceDates(a, r, t, last)
           jump == {one \in firstOccurrenceOnOrAfter(a, r, t) : one.date <= last}
<1>1. t \in Int /\ a \in Int
  BY CalendarIs DEF ValidAnchor
<1>2. \A e : e \in window <=> e \in Occurs(a, p) /\ t <= e /\ e <= last /\ Leaves(r, a, e)
  BY <1>1, ExpansionIs
<1>3. Occurs(a, p) \subseteq Int /\ \A e \in Occurs(a, p) : a <= e
  BY DEF Occurs
<1>4. CASE /\ firstOccurrenceOnOrAfter(a, r, t) = {}
           /\ \A e \in Occurs(a, p) : t <= e => ~Leaves(r, a, e)
  <2>1. jump = {} /\ window = {}
    BY <1>2, <1>4
  <2> QED
    BY <2>1
<1>5. ASSUME NEW d \in Int, IsFirst(a, p, t, d), Leaves(r, a, d),
             firstOccurrenceOnOrAfter(a, r, t) = {[date |-> d, index |-> Cardinality(Earlier(a, p, d))]}
      PROVE  /\ {one.date : one \in jump} = {e \in window : \A x \in window : e <= x}
             /\ \A one \in jump :
                  one.index = Cardinality(expandRecurrenceDates(a, r, a, one.date - 1))
  <2>1. d \in Occurs(a, p) /\ t <= d /\ \A e \in Occurs(a, p) : t <= e => d <= e
    BY <1>5 DEF IsFirst
  <2>2. PICK c : c = [date |-> d, index |-> Cardinality(Earlier(a, p, d))]
    OBVIOUS
  <2>3. /\ c.date = d /\ c.index = Cardinality(Earlier(a, p, d))
        /\ firstOccurrenceOnOrAfter(a, r, t) = {c}
    BY <1>5, <2>2
  <2>4. CASE ~(d <= last)
    <3>1. jump = {}
      BY <2>3, <2>4
    <3>2. window = {}
      BY <1>2, <1>3, <2>1, <2>4
    <3> QED
      BY <3>1, <3>2
  <2>5. CASE d <= last
    <3>1. jump = {c}
      BY <2>3, <2>5
    <3>2. d \in window /\ \A e \in window : d <= e
      BY <1>2, <1>5, <2>1, <2>5
    <3>3. {e \in window : \A x \in window : e <= x} = {d}
      BY <1>2, <1>3, <3>2
    <3>4. {one.date : one \in jump} = {d}
      BY <2>3, <3>1
    <3>5. expandRecurrenceDates(a, r, a, d - 1) = Earlier(a, p, d)
      <4>1. PICK before \in Int : before = d - 1
        OBVIOUS
      <4>2. \A e : e \in expandRecurrenceDates(a, r, a, before) <=>
                     e \in Occurs(a, p) /\ a <= e /\ e <= before /\ Leaves(r, a, e)
        BY <1>1, ExpansionIs
      <4>3. \A e \in Occurs(a, p) : e < d => Leaves(r, a, e)
        BY <1>3, <1>5, LeavesDown
      <4>4. \A e : e \in expandRecurrenceDates(a, r, a, before) <=> e \in Occurs(a, p) /\ e < d
        BY <1>3, <4>1, <4>2, <4>3
      <4> QED
        BY <4>1, <4>4 DEF Earlier
    <3> QED
      BY <2>3, <3>1, <3>3, <3>4, <3>5
  <2> QED
    BY <2>4, <2>5
<1>6. \/ /\ firstOccurrenceOnOrAfter(a, r, t) = {}
         /\ \A e \in Occurs(a, p) : t <= e => ~Leaves(r, a, e)
      \/ \E d \in Int :
           /\ IsFirst(a, p, t, d) /\ Leaves(r, a, d)
           /\ firstOccurrenceOnOrAfter(a, r, t)
                = {[date |-> d, index |-> Cardinality(Earlier(a, p, d))]}
  BY <1>1, JumpFinds
<1>7. /\ {one.date : one \in jump} = {e \in window : \A x \in window : e <= x}
      /\ \A one \in jump :
           one.index = Cardinality(expandRecurrenceDates(a, r, a, one.date - 1))
  BY <1>4, <1>5, <1>6
<1> QED
  BY <1>7

\* An event of the provider with a valid rule and day.
IsEvent(event) ==
    /\ event \in [anchor : Anchors, rule : {event.rule}, span : 0..1]
    /\ IsRule(event.rule) /\ ValidAnchor(event.anchor, event.rule.pattern)

\* What an import keeps is one event from the first date that is not over, if that has not
\* fallen to the rule's end.
LEMMA KeptIs ==
    ASSUME NEW event, IsEvent(event), NEW now \in ImportNows
    PROVE  LET a == event.anchor
               r == event.rule
           IN  \/ /\ futureOnlyEvent(event, now) = {}
                  /\ \A e \in Occurs(a, r.pattern) : Leaves(r, a, e) => Over(event, e, now)
               \/ \E d \in Occurs(a, r.pattern) : \E k :
                    /\ futureOnlyEvent(event, now) = {k} /\ Leaves(r, a, d)
                    /\ k.anchor = d
                    /\ k.rule = adjustedRecurrence(r, Cardinality(Earlier(a, r.pattern, d)))
                    /\ \A e \in Occurs(a, r.pattern) : ~Over(event, e, now) <=> d <= e
<1>1. PICK a, r, p, s, n : a = event.anchor /\ r = event.rule /\ p = r.pattern /\ s = event.span /\ n = now.date
  OBVIOUS
<1>2. /\ ValidRule(r) /\ ValidAnchor(a, p) /\ ValidPattern(p) /\ s \in 0..1
      /\ event \in [anchor : Anchors, rule : {r}, span : 0..1]
  BY <1>1 DEF IsEvent, IsRule, ValidRule
<1>3. /\ now.late \in BOOLEAN /\ n \in Int /\ n - s \in CalendarDays
      /\ n - s + 1 \in CalendarDays /\ n - s \in Int
  <2>1. PICK last \in Int : CalendarDays = 0..last
    BY CalendarIs
  <2>2. now.date - 1 \in 0..last /\ now.date \in 0..last /\ now.date + Horizon \in 0..last
        /\ now.late \in BOOLEAN
    BY <2>1, DaysAssumption
  <2>3. Horizon \in Nat \ {0}
    BY SeriesAssumption
  <2> QED
    BY <1>1, <1>2, <2>1, <2>2, <2>3
<1>4. PICK first : first = firstOccurrenceOnOrAfter(a, r, n - s)
  OBVIOUS
<1>5. PICK second : second = UNION {firstOccurrenceOnOrAfter(a, r, candidate.date + 1) : candidate \in first}
  OBVIOUS
<1> DEFINE kept(candidates) ==
             {[event EXCEPT !.anchor = candidate.date,
                            !.rule = adjustedRecurrence(event.rule, candidate.index)] :
                candidate \in {one \in candidates : ~Over(event, one.date, now)}}
<1>6. futureOnlyEvent(event, now) = IF kept(first) # {} THEN kept(first) ELSE kept(second)
  BY <1>1, <1>4, <1>5 DEF futureOnlyEvent
<1>7. kept({}) = {}
  OBVIOUS
<1>8. ASSUME NEW d \in Int, NEW i
      PROVE  /\ Over(event, d, now) => kept({[date |-> d, index |-> i]}) = {}
             /\ ~Over(event, d, now) =>
                  \E k : /\ kept({[date |-> d, index |-> i]}) = {k}
                         /\ k.anchor = d /\ k.rule = adjustedRecurrence(r, i)
  <2>1. PICK c : c = [date |-> d, index |-> i]
    OBVIOUS
  <2>2. c.date = d /\ c.index = i
    BY <2>1
  <2>3. CASE Over(event, d, now)
    BY <2>1, <2>2, <2>3
  <2>4. CASE ~Over(event, d, now)
    <3>1. PICK k : k = [event EXCEPT !.anchor = d, !.rule = adjustedRecurrence(event.rule, i)]
      OBVIOUS
    <3>2. k.anchor = d /\ k.rule = adjustedRecurrence(r, i)
      BY <1>1, <1>2, <3>1
    <3>3. {one \in {c} : ~Over(event, one.date, now)} = {c}
      BY <2>2, <2>4
    <3>4. kept({c}) = {k}
      BY <2>2, <3>1, <3>3
    <3> QED
      BY <2>1, <2>4, <3>2, <3>4
  <2> QED
    BY <2>3, <2>4
<1> HIDE DEF kept
<1>9. \A e \in Int : Over(event, e, now) <=> e < n - s \/ (e = n - s /\ now.late)
  BY <1>1, <1>2, <1>3 DEF Over
<1>10. Occurs(a, p) \subseteq Int
  BY DEF Occurs
<1>11. CASE first = {} /\ \A e \in Occurs(a, p) : n - s <= e => ~Leaves(r, a, e)
  <2>1. second = {}
    BY <1>5, <1>11
  <2>2. futureOnlyEvent(event, now) = {}
    BY <1>6, <1>7, <1>11, <2>1
  <2>3. \A e \in Occurs(a, p) : Leaves(r, a, e) => Over(event, e, now)
    BY <1>3, <1>9, <1>10, <1>11
  <2> QED
    BY <1>1, <2>2, <2>3
<1>12. ASSUME NEW d \in Int, IsFirst(a, p, n - s, d), Leaves(r, a, d), ~Over(event, d, now),
              first = {[date |-> d, index |-> Cardinality(Earlier(a, p, d))]}
       PROVE  \E k : /\ futureOnlyEvent(event, now) = {k} /\ d \in Occurs(a, p)
                     /\ k.anchor = d
                     /\ k.rule = adjustedRecurrence(r, Cardinality(Earlier(a, p, d)))
                     /\ \A e \in Occurs(a, p) : ~Over(event, e, now) <=> d <= e
  <2>1. PICK k : /\ kept(first) = {k} /\ k.anchor = d
                 /\ k.rule = adjustedRecurrence(r, Cardinality(Earlier(a, p, d)))
    BY <1>8, <1>12
  <2>2. futureOnlyEvent(event, now) = {k}
    BY <1>6, <2>1
  <2>3. d \in Occurs(a, p) /\ n - s <= d /\ \A e \in Occurs(a, p) : n - s <= e => d <= e
    BY <1>12 DEF IsFirst
  <2>4. \A e \in Occurs(a, p) : ~Over(event, e, now) <=> d <= e
    BY <1>3, <1>9, <1>10, <1>12, <2>3
  <2> QED
    BY <2>1, <2>2, <2>3, <2>4
<1>13. ASSUME NEW d \in Int, IsFirst(a, p, n - s, d), Leaves(r, a, d), Over(event, d, now),
              first = {[date |-> d, index |-> Cardinality(Earlier(a, p, d))]}
       PROVE  \/ /\ futureOnlyEvent(event, now) = {}
                 /\ \A e \in Occurs(a, p) : Leaves(r, a, e) => Over(event, e, now)
              \/ \E x \in Occurs(a, p) : \E k :
                    /\ futureOnlyEvent(event, now) = {k} /\ Leaves(r, a, x)
                    /\ k.anchor = x
                    /\ k.rule = adjustedRecurrence(r, Cardinality(Earlier(a, p, x)))
                    /\ \A e \in Occurs(a, p) : ~Over(event, e, now) <=> x <= e
  <2>1. d = n - s /\ now.late
    BY <1>3, <1>9, <1>13 DEF IsFirst
  <2>2. futureOnlyEvent(event, now) = kept(second)
    BY <1>6, <1>8, <1>13
  <2>3. second = firstOccurrenceOnOrAfter(a, r, d + 1)
    <3>1. PICK c : c = [date |-> d, index |-> Cardinality(Earlier(a, p, d))]
      OBVIOUS
    <3>2. c.date = d /\ first = {c}
      BY <1>13, <3>1
    <3> QED
      BY <1>5, <3>2
  <2>4. d + 1 \in Int /\ d + 1 \in CalendarDays
    BY <1>3, <2>1
  <2>5. \A e \in Int : ~Over(event, e, now) <=> d + 1 <= e
    BY <1>3, <1>9, <2>1
  <2>6. CASE second = {} /\ \A e \in Occurs(a, p) : d + 1 <= e => ~Leaves(r, a, e)
    BY <1>7, <1>10, <2>2, <2>5, <2>6
  <2>7. ASSUME NEW x \in Int, IsFirst(a, p, d + 1, x), Leaves(r, a, x),
               second = {[date |-> x, index |-> Cardinality(Earlier(a, p, x))]}
        PROVE  \E k : /\ futureOnlyEvent(event, now) = {k} /\ x \in Occurs(a, p)
                      /\ k.anchor = x
                      /\ k.rule = adjustedRecurrence(r, Cardinality(Earlier(a, p, x)))
                      /\ \A e \in Occurs(a, p) : ~Over(event, e, now) <=> x <= e
    <3>1. x \in Occurs(a, p) /\ d + 1 <= x /\ \A e \in Occurs(a, p) : d + 1 <= e => x <= e
      BY <2>7 DEF IsFirst
    <3>2. ~Over(event, x, now)
      BY <2>5, <3>1
    <3>3. PICK k : /\ kept(second) = {k} /\ k.anchor = x
                   /\ k.rule = adjustedRecurrence(r, Cardinality(Earlier(a, p, x)))
      BY <1>8, <2>7, <3>2
    <3>4. \A e \in Occurs(a, p) : ~Over(event, e, now) <=> x <= e
      BY <1>10, <2>4, <2>5, <3>1
    <3> QED
      BY <2>2, <3>1, <3>3, <3>4
  <2>8. \/ second = {} /\ \A e \in Occurs(a, p) : d + 1 <= e => ~Leaves(r, a, e)
        \/ \E x \in Int :
             /\ IsFirst(a, p, d + 1, x) /\ Leaves(r, a, x)
             /\ second = {[date |-> x, index |-> Cardinality(Earlier(a, p, x))]}
    <3>1. \/ /\ firstOccurrenceOnOrAfter(a, r, d + 1) = {}
             /\ \A e \in Occurs(a, r.pattern) : d + 1 <= e => ~Leaves(r, a, e)
          \/ \E x \in Int :
               /\ IsFirst(a, r.pattern, d + 1, x) /\ Leaves(r, a, x)
               /\ firstOccurrenceOnOrAfter(a, r, d + 1)
                    = {[date |-> x, index |-> Cardinality(Earlier(a, r.pattern, x))]}
      <4>1. PICK t \in CalendarDays : t = d + 1 /\ t \in Int
        BY <2>4
      <4>2. ValidAnchor(a, r.pattern)
        BY <1>1, <1>2
      <4>3. \/ /\ firstOccurrenceOnOrAfter(a, r, t) = {}
               /\ \A e \in Occurs(a, r.pattern) : t <= e => ~Leaves(r, a, e)
            \/ \E x \in Int :
                 /\ IsFirst(a, r.pattern, t, x) /\ Leaves(r, a, x)
                 /\ firstOccurrenceOnOrAfter(a, r, t)
                      = {[date |-> x, index |-> Cardinality(Earlier(a, r.pattern, x))]}
        BY <1>2, <4>1, <4>2, JumpFinds
      <4> QED
        BY <4>1, <4>3
    <3> QED
      BY <1>1, <2>3, <3>1
  <2> QED
    BY <2>6, <2>7, <2>8
<1>14. \/ first = {} /\ \A e \in Occurs(a, p) : n - s <= e => ~Leaves(r, a, e)
       \/ \E d \in Int :
            /\ IsFirst(a, p, n - s, d) /\ Leaves(r, a, d)
            /\ first = {[date |-> d, index |-> Cardinality(Earlier(a, p, d))]}
  <2>1. PICK t \in CalendarDays : t = n - s /\ t \in Int
    BY <1>3
  <2>2. ValidAnchor(a, r.pattern)
    BY <1>1, <1>2
  <2>3. \/ /\ firstOccurrenceOnOrAfter(a, r, t) = {}
           /\ \A e \in Occurs(a, r.pattern) : t <= e => ~Leaves(r, a, e)
        \/ \E x \in Int :
             /\ IsFirst(a, r.pattern, t, x) /\ Leaves(r, a, x)
             /\ firstOccurrenceOnOrAfter(a, r, t)
                  = {[date |-> x, index |-> Cardinality(Earlier(a, r.pattern, x))]}
    BY <1>2, <2>1, <2>2, JumpFinds
  <2> QED
    BY <1>1, <1>4, <2>1, <2>3
<1>15. \/ /\ futureOnlyEvent(event, now) = {}
          /\ \A e \in Occurs(a, p) : Leaves(r, a, e) => Over(event, e, now)
       \/ \E d \in Occurs(a, p) : \E k :
             /\ futureOnlyEvent(event, now) = {k} /\ Leaves(r, a, d)
             /\ k.anchor = d
             /\ k.rule = adjustedRecurrence(r, Cardinality(Earlier(a, p, d)))
             /\ \A e \in Occurs(a, p) : ~Over(event, e, now) <=> d <= e
  BY <1>1, <1>11, <1>12, <1>13, <1>14
<1> QED
  BY <1>1, <1>15

\* An imported event is one the provider may have, and kept is what an import keeps of it.
ImportInv ==
    \A one \in import :
      /\ one.event \in [anchor : Anchors, rule : Rules, span : 0..1]
      /\ one.now \in ImportNows
      /\ one.kept = futureOnlyEvent(one.event, one.now)

\* The events of the model have valid rules and days of the calendar.
LEMMA EventIs ==
    ASSUME NEW event \in [anchor : Anchors, rule : Rules, span : 0..1]
    PROVE  IsEvent(event)
<1>1. event.anchor \in Anchors /\ event.rule \in Rules
  OBVIOUS
<1>2. event.rule.pattern \in Patterns /\ event.rule.end \in RuleEnds
      /\ event.rule = [pattern |-> event.rule.pattern, end |-> event.rule.end]
  BY <1>1 DEF Rules
<1>3. IsRule(event.rule)
  BY <1>2, RulesAssumption DEF IsRule, ValidRule
<1>4. event.anchor \in CalendarDays
  BY <1>1, DaysAssumption
<1>5. event.anchor \in Int
  BY <1>4, CalendarIs
<1>6. event \in [anchor : Anchors, rule : {event.rule}, span : 0..1]
  OBVIOUS
<1> QED
  BY <1>3, <1>4, <1>5, <1>6 DEF IsEvent, ValidAnchor

\* The expansion of what is kept lists the dates of the event that are not over.
LEMMA KeptRecurs ==
    ASSUME NEW event, IsEvent(event), NEW now \in ImportNows, NEW d
    PROVE  LET horizon == now.date + Horizon
           IN  (\E k \in futureOnlyEvent(event, now) :
                  d \in expandRecurrenceDates(k.anchor, k.rule, k.anchor, horizon))
               <=> d \in expandRecurrenceDates(event.anchor, event.rule, event.anchor, horizon)
                   /\ ~Over(event, d, now)
<1>1. PICK a, r, p, h :
        a = event.anchor /\ r = event.rule /\ p = r.pattern /\ h = now.date + Horizon
  OBVIOUS
<1>2. /\ IsRule(r) /\ ValidRule(r) /\ ValidPattern(p) /\ ValidAnchor(a, p) /\ ValidAnchor(a, r.pattern)
      /\ a \in Int
  BY <1>1 DEF IsEvent, IsRule, ValidRule, ValidAnchor
<1>3. h \in Int
  <2>1. PICK last \in Int : CalendarDays = 0..last
    BY CalendarIs
  <2> QED
    BY <1>1, <2>1, DaysAssumption
<1>4. d \in expandRecurrenceDates(a, r, a, h) <=>
        d \in Occurs(a, p) /\ a <= d /\ d <= h /\ Leaves(r, a, d)
  BY <1>1, <1>2, <1>3, ExpansionIs
<1>5. d \in Occurs(a, p) => d \in Int /\ a <= d
  BY DEF Occurs
<1>6. CASE /\ futureOnlyEvent(event, now) = {}
           /\ \A e \in Occurs(a, p) : Leaves(r, a, e) => Over(event, e, now)
  BY <1>1, <1>4, <1>6
<1>7. ASSUME NEW s \in Occurs(a, p), NEW k,
             futureOnlyEvent(event, now) = {k}, Leaves(r, a, s), k.anchor = s,
             k.rule = adjustedRecurrence(r, Cardinality(Earlier(a, p, s))),
             \A e \in Occurs(a, p) : ~Over(event, e, now) <=> s <= e
      PROVE  d \in expandRecurrenceDates(k.anchor, k.rule, k.anchor, h) <=>
               d \in expandRecurrenceDates(a, r, a, h) /\ ~Over(event, d, now)
  <2>1. PICK rest : rest = k.rule
    OBVIOUS
  <2>2. s \in Int /\ ValidAnchor(s, p) /\ Occurs(s, p) = {e \in Occurs(a, p) : s <= e}
    BY <1>2, <1>7, TailIs
  <2>3. \A e \in Int : s <= e =>
          IsRule(rest) /\ rest.pattern = p /\ (Leaves(rest, s, e) <=> Leaves(r, a, e))
    BY <1>1, <1>2, <1>7, <2>1, TailLeaves
  <2>4. IsRule(rest) /\ rest.pattern = p /\ ValidRule(rest)
    BY <2>2, <2>3 DEF IsRule
  <2>5. d \in expandRecurrenceDates(s, rest, s, h) <=>
          d \in Occurs(s, p) /\ s <= d /\ d <= h /\ Leaves(rest, s, d)
    BY <1>3, <2>2, <2>4, ExpansionIs
  <2>6. d \in expandRecurrenceDates(s, rest, s, h) <=>
          d \in Occurs(a, p) /\ s <= d /\ d <= h /\ Leaves(r, a, d)
    BY <1>5, <2>2, <2>3, <2>5
  <2> QED
    BY <1>4, <1>5, <1>7, <2>1, <2>6
<1>8. \/ /\ futureOnlyEvent(event, now) = {}
         /\ \A e \in Occurs(a, p) : Leaves(r, a, e) => Over(event, e, now)
      \/ \E s \in Occurs(a, p) : \E k :
           /\ futureOnlyEvent(event, now) = {k} /\ Leaves(r, a, s)
           /\ k.anchor = s
           /\ k.rule = adjustedRecurrence(r, Cardinality(Earlier(a, p, s)))
           /\ \A e \in Occurs(a, p) : ~Over(event, e, now) <=> s <= e
  BY <1>1, KeptIs
<1>9. (\E k \in futureOnlyEvent(event, now) :
          d \in expandRecurrenceDates(k.anchor, k.rule, k.anchor, h))
      <=> d \in expandRecurrenceDates(a, r, a, h) /\ ~Over(event, d, now)
  <2>1. CASE \E s \in Occurs(a, p) : \E k :
               /\ futureOnlyEvent(event, now) = {k} /\ Leaves(r, a, s)
               /\ k.anchor = s
               /\ k.rule = adjustedRecurrence(r, Cardinality(Earlier(a, p, s)))
               /\ \A e \in Occurs(a, p) : ~Over(event, e, now) <=> s <= e
    BY <1>7, <2>1
  <2>2. CASE /\ futureOnlyEvent(event, now) = {}
             /\ \A e \in Occurs(a, p) : Leaves(r, a, e) => Over(event, e, now)
    BY <1>4, <2>2
  <2> QED
    BY <1>8, <2>1, <2>2
<1> QED
  BY <1>1, <1>9

\* What is kept recurs as the event does.
LEMMA TailHolds == ImportInv => ProjectionIsTail
<1> SUFFICES ASSUME ImportInv, NEW one \in import
             PROVE  LET horizon == one.now.date + Horizon
                        ahead == {date \in expandRecurrenceDates(one.event.anchor, one.event.rule,
                                                                 one.event.anchor, horizon) :
                                    ~Over(one.event, date, one.now)}
                        again == UNION {expandRecurrenceDates(kept.anchor, kept.rule, kept.anchor, horizon) :
                                          kept \in one.kept}
                    IN  again = ahead
  BY DEF ProjectionIsTail
<1>1. PICK event, now, h : event = one.event /\ now = one.now /\ h = now.date + Horizon
  OBVIOUS
<1>2. IsEvent(event) /\ now \in ImportNows /\ one.kept = futureOnlyEvent(event, now)
  BY <1>1, EventIs DEF ImportInv
<1>3. \A d : (\E k \in one.kept : d \in expandRecurrenceDates(k.anchor, k.rule, k.anchor, h))
             <=> d \in expandRecurrenceDates(event.anchor, event.rule, event.anchor, h)
                 /\ ~Over(event, d, now)
  BY <1>1, <1>2, KeptRecurs
<1>4. UNION {expandRecurrenceDates(kept.anchor, kept.rule, kept.anchor, h) : kept \in one.kept}
      = {date \in expandRecurrenceDates(event.anchor, event.rule, event.anchor, h) :
           ~Over(event, date, now)}
  BY <1>3
<1> QED
  BY <1>1, <1>4

\* Only the import writes what was imported.
LEMMA ImportStepInv == ImportInv /\ [SeriesNext]_seriesVars => ImportInv'
<1> SUFFICES ASSUME ImportInv, [SeriesNext]_seriesVars PROVE ImportInv'
  OBVIOUS
<1>1. CASE ImportEvent
  <2>1. PICK rule \in Rules, anchor \in Anchors, now \in ImportNows, span \in 0..1 :
          LET event == [anchor |-> anchor, rule |-> rule, span |-> span]
          IN  import' = {[event |-> event, now |-> now, kept |-> futureOnlyEvent(event, now)]}
    BY <1>1 DEF ImportEvent
  <2>2. PICK event : event = [anchor |-> anchor, rule |-> rule, span |-> span]
    OBVIOUS
  <2>3. event \in [anchor : Anchors, rule : Rules, span : 0..1]
    BY <2>2
  <2>4. PICK one : one = [event |-> event, now |-> now, kept |-> futureOnlyEvent(event, now)]
    OBVIOUS
  <2>5. one.event = event /\ one.now = now /\ one.kept = futureOnlyEvent(event, now)
        /\ import' = {one}
    BY <2>1, <2>4, <2>2
  <2>6. \A x \in import' : /\ x.event \in [anchor : Anchors, rule : Rules, span : 0..1]
                           /\ x.now \in ImportNows
                           /\ x.kept = futureOnlyEvent(x.event, x.now)
    BY <2>3, <2>5
  <2> QED
    BY <2>6 DEF ImportInv
<1>2. CASE ~ImportEvent
  <2>1. UNCHANGED import
    BY <1>2 DEF SeriesNext, seriesVars, createCalendarMission,
       saveCalendarMissionDetails, saveCalendarMissionAdjustment, deleteCalendarMission,
       SaveOne, DeleteOne, SaveBreaks, CompleteVisit, PullDeleted
  <2> QED
    BY <2>1 DEF ImportInv
<1> QED
  BY <1>1, <1>2

\* What the first import keeps of a recurring event recurs on exactly the dates of the
\* provider's event that are not over, for every pattern, end, first day and moment the
\* calendar has: the jump of google-calendar-initial-window.ts lands on the first of them and
\* counts right how many a count has used up.
THEOREM ProjectionIsTailAlways == SeriesSpec => []ProjectionIsTail
<1>1. SeriesInit => ImportInv
  BY DEF SeriesInit, ImportInv
<1>2. ImportInv /\ [SeriesNext]_seriesVars => ImportInv'
  BY ImportStepInv
<1>3. ImportInv => ProjectionIsTail
  BY TailHolds
<1> QED
  BY <1>1, <1>2, <1>3, PTL DEF SeriesSpec
=============================================================================

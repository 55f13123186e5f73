----------------------------- MODULE Recurrence -----------------------------
(***************************************************************************)
(* The rules of recurring missions as sets of dates: the expansion the     *)
(* domain package computes, and the arithmetic by which the initial import *)
(* of a Google calendar jumps to the first occurrence that is not over.    *)
(* A date is its number of days since Sunday 2023-01-01, a month its       *)
(* number since January 2023; the calendar covers 2023-2034, in which      *)
(* every fourth year is a leap year.                                       *)
(***************************************************************************)
EXTENDS Integers, FiniteSets, FiniteSetsExt

Months == 0..143

LeapYear(year) == year % 4 = 1

MonthLength(month) ==
  LET inYear == month % 12
  IN  IF inYear = 1 THEN IF LeapYear(month \div 12) THEN 29 ELSE 28
      ELSE IF inYear \in {3, 5, 8, 10} THEN 30 ELSE 31

MonthStarts ==
  LET start[month \in Months] ==
        IF month = 0 THEN 0 ELSE start[month - 1] + MonthLength(month - 1)
  IN  start

Weekday(date) == date % 7

CalendarDays == 0..MonthStarts[143] + MonthLength(143) - 1

(* The patterns and ends that an expansion accepts.                        *)
ValidPattern(pattern) ==
  /\ pattern.interval \in Nat \ {0}
  /\ CASE pattern.type = "daily" -> TRUE
       [] pattern.type = "weekly" ->
            pattern.weekdays \in (SUBSET (0..6)) \ {{}} /\ pattern.weekStartsOn \in 0..6
       [] pattern.type = "monthly-date" -> pattern.day \in 1..31
       [] pattern.type = "monthly-ordinal" ->
            pattern.ordinal \in {-1, 1, 2, 3, 4} /\ pattern.weekday \in 0..6
       [] pattern.type = "yearly-date" -> pattern.month \in 0..11 /\ pattern.day \in 1..31
       [] pattern.type = "yearly-ordinal" ->
            /\ pattern.month \in 0..11
            /\ pattern.ordinal \in {-1, 1, 2, 3, 4} /\ pattern.weekday \in 0..6
       [] OTHER -> FALSE

ValidEnd(end) ==
  \/ end \in [type : {"never"}]
  \/ end \in [type : {"date"}, last : Int]
  \/ end \in [type : {"count"}, count : Nat \ {0}]

(* The month a date falls in.                                              *)
MonthOf(date) ==
  CHOOSE month \in Months : /\ MonthStarts[month] <= date
                            /\ date < MonthStarts[month] + MonthLength(month)

(* The date with a number in a month, if the month has it.                 *)
DateIn(month, day) ==
  IF day <= MonthLength(month) THEN {MonthStarts[month] + day - 1} ELSE {}

(* The first, second, third, fourth or (-1) last such weekday of a month.  *)
OrdinalIn(month, ordinal, weekday) ==
  LET first == MonthStarts[month]
      last == first + MonthLength(month) - 1
  IN  IF ordinal = -1 THEN {last - ((Weekday(last) + 7 - weekday) % 7)}
      ELSE {first + ((weekday + 7 - Weekday(first)) % 7) + 7 * (ordinal - 1)}

WeekStart(anchor, pattern) ==
  anchor - ((Weekday(anchor) + 7 - pattern.weekStartsOn) % 7)

Offsets(pattern) ==
  {(weekday + 7 - pattern.weekStartsOn) % 7 : weekday \in pattern.weekdays}

(* The month of a monthly or yearly pattern's step.                        *)
StepMonth(anchor, pattern, step) ==
  IF pattern.type \in {"monthly-date", "monthly-ordinal"}
  THEN MonthOf(anchor) + step * pattern.interval
  ELSE 12 * ((MonthOf(anchor) \div 12) + step * pattern.interval) + pattern.month

(* The calendar has the step.                                              *)
HasStep(anchor, pattern, step) ==
  pattern.type \in {"daily", "weekly"} \/ StepMonth(anchor, pattern, step) \in Months

(* The candidate dates of one step of a pattern: a day, a block of weeks,  *)
(* a month or a year.                                                      *)
StepDates(anchor, pattern, step) ==
  CASE pattern.type = "daily" -> {anchor + step * pattern.interval}
    [] pattern.type = "weekly" ->
         {WeekStart(anchor, pattern) + 7 * step * pattern.interval + offset :
            offset \in Offsets(pattern)}
    [] pattern.type \in {"monthly-date", "yearly-date"} ->
         DateIn(StepMonth(anchor, pattern, step), pattern.day)
    [] pattern.type \in {"monthly-ordinal", "yearly-ordinal"} ->
         OrdinalIn(StepMonth(anchor, pattern, step), pattern.ordinal, pattern.weekday)

(* Days a step of a pattern spans at least, and so how many steps reach a  *)
(* date.                                                                   *)
StepsTo(anchor, pattern, last) ==
  LET days == CASE pattern.type = "daily" -> 1
                [] pattern.type = "weekly" -> 7
                [] pattern.type \in {"monthly-date", "monthly-ordinal"} -> 28
                [] pattern.type \in {"yearly-date", "yearly-ordinal"} -> 12 * 28
      beyond == IF last > anchor THEN last - anchor ELSE 0
  IN  0..((beyond \div (days * pattern.interval)) + 1)

Ended(rule, dates) ==
  CASE rule.end.type = "never" -> dates
    [] rule.end.type = "date" -> {date \in dates : date <= rule.end.last}
    [] rule.end.type = "count" ->
         {date \in dates : Cardinality({earlier \in dates : earlier < date}) < rule.end.count}

(* The dates of a recurring series in a window, anchored at its first day. *)
expandRecurrenceDates(anchor, rule, windowStart, windowEnd) ==
  LET steps == {step \in StepsTo(anchor, rule.pattern, windowEnd) :
                  HasStep(anchor, rule.pattern, step)}
      candidates == UNION {StepDates(anchor, rule.pattern, step) : step \in steps}
      reached == {date \in candidates : anchor <= date /\ date <= windowEnd}
  IN  {date \in Ended(rule, reached) : windowStart <= date}

-----------------------------------------------------------------------------
(* The jump of the initial import. Each candidate is a set: empty for null. *)

dailyCandidate(anchor, target, pattern) ==
  LET delta == IF target > anchor THEN target - anchor ELSE 0
      index == (delta + pattern.interval - 1) \div pattern.interval
  IN  {[date |-> anchor + index * pattern.interval, index |-> index]}

(* Two attempts: the block of weeks the target falls in, then the next.    *)
weeklyCandidate(anchor, target, pattern) ==
  LET start == WeekStart(anchor, pattern)
      sought == Max({anchor, target})
      span == 7 * pattern.interval
      firstBlock == {offset \in Offsets(pattern) : start + offset >= anchor}
      near == (sought - start) \div span
      available(block) == IF block = 0 THEN firstBlock ELSE Offsets(pattern)
      hits(block) == {offset \in available(block) : start + block * span + offset >= sought}
      before(block) == IF block = 0 THEN 0
                       ELSE Cardinality(firstBlock) + (block - 1) * Cardinality(Offsets(pattern))
      found(block) ==
        LET offset == Min(hits(block))
        IN  [date |-> start + block * span + offset,
             index |-> before(block)
                         + Cardinality({other \in available(block) : other < offset})]
  IN  IF hits(near) # {} THEN {found(near)}
      ELSE IF hits(near + 1) # {} THEN {found(near + 1)} ELSE {}

\* Mutant: the first step is counted although its date precedes the anchor.
FirstStepCounted(anchor, pattern) == 0

(* 1 when the first month or year has its date before the anchor.          *)
FirstStep(anchor, pattern) ==
  IF \E date \in StepDates(anchor, pattern, 0) : date >= anchor THEN 0 ELSE 1

(* The step the target's month or year falls in.                           *)
NearStep(anchor, target, pattern) ==
  LET months == Max({0, MonthOf(target) - MonthOf(anchor)})
      years == Max({0, (MonthOf(target) \div 12) - (MonthOf(anchor) \div 12)})
  IN  (IF pattern.type \in {"monthly-date", "monthly-ordinal"} THEN months ELSE years)
        \div pattern.interval

Reaches(anchor, target, pattern, step) ==
  {date \in StepDates(anchor, pattern, step) : date >= anchor /\ date >= target}

(* Two attempts, for the n-th weekday of a month or of a year's month.     *)
ordinalCandidate(anchor, target, pattern) ==
  LET near == Max({FirstStep(anchor, pattern), NearStep(anchor, target, pattern)})
      hits == {step \in near..near + 1 : /\ HasStep(anchor, pattern, step)
                                         /\ Reaches(anchor, target, pattern, step) # {}}
  IN  IF hits = {} THEN {}
      ELSE {[date |-> date, index |-> Min(hits) - FirstStep(anchor, pattern)] :
              date \in Reaches(anchor, target, pattern, Min(hits))}

(* How many months or years before a step have the date; the code sums     *)
(* whole cycles of the Gregorian calendar at once.                         *)
countDateOccurrencesBefore(anchor, pattern, step) ==
  LET having == {earlier \in 0..step - 1 : StepDates(anchor, pattern, earlier) # {}}
      tooEarly == \E date \in StepDates(anchor, pattern, 0) : date < anchor
  IN  IF step <= 0 THEN 0 ELSE Cardinality(having) - (IF tooEarly THEN 1 ELSE 0)

(* Attempts until the calendar's cycle is over, for a number in a month,   *)
(* which not every month has.                                              *)
dateCandidate(anchor, target, pattern) ==
  LET steps == {step \in NearStep(anchor, target, pattern)..143 :
                  /\ HasStep(anchor, pattern, step)
                  /\ Reaches(anchor, target, pattern, step) # {}}
      hit == Min(steps)
  IN  IF steps = {} THEN {}
      ELSE {[date |-> date, index |-> countDateOccurrencesBefore(anchor, pattern, hit)] :
              date \in Reaches(anchor, target, pattern, hit)}

applyRecurrenceEnd(candidates, rule) ==
  {candidate \in candidates :
     /\ rule.end.type = "count" => candidate.index < rule.end.count
     /\ rule.end.type = "date" => candidate.date <= rule.end.last}

firstOccurrenceOnOrAfter(anchor, rule, target) ==
  LET pattern == rule.pattern
      candidates ==
        CASE pattern.type = "daily" -> dailyCandidate(anchor, target, pattern)
          [] pattern.type = "weekly" -> weeklyCandidate(anchor, target, pattern)
          [] pattern.type \in {"monthly-date", "yearly-date"} ->
               dateCandidate(anchor, target, pattern)
          [] pattern.type \in {"monthly-ordinal", "yearly-ordinal"} ->
               ordinalCandidate(anchor, target, pattern)
  IN  applyRecurrenceEnd(candidates, rule)

(* A rule after some of its occurrences: what a count has left.            *)
adjustedRecurrence(rule, skipped) ==
  IF rule.end.type = "count"
  THEN [rule EXCEPT !.end.count = @ - skipped] ELSE rule

(* An event spans some days and is over at a time of its last day; now is  *)
(* a day and whether that time has passed.                                 *)
Over(event, date, now) ==
  \/ date + event.span < now.date
  \/ date + event.span = now.date /\ now.late

(* What the initial import keeps of an event: from the first occurrence    *)
(* that is not over, tried twice.                                          *)
futureOnlyEvent(event, now) ==
  LET first == firstOccurrenceOnOrAfter(event.anchor, event.rule, now.date - event.span)
      second == UNION {firstOccurrenceOnOrAfter(event.anchor, event.rule, candidate.date + 1) :
                         candidate \in first}
      kept(candidates) ==
        {[event EXCEPT !.anchor = candidate.date,
                       !.rule = adjustedRecurrence(event.rule, candidate.index)] :
           candidate \in {one \in candidates : ~Over(event, one.date, now)}}
  IN  IF kept(first) # {} THEN kept(first) ELSE kept(second)
=============================================================================

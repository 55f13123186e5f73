---------------------------- MODULE SeriesEdits -----------------------------
(***************************************************************************)
(* Recurring missions on a phone: creation materialises a rule into        *)
(* occurrences, and details saves, drags and deletions of one occurrence,  *)
(* of this and the later ones, or of the whole series enqueue one mutation *)
(* per occurrence, each in a transaction of its own that an error or a     *)
(* crash may be the last of. Beside it, the first import of a recurring    *)
(* Google event, which keeps what is not over.                             *)
(*                                                                         *)
(* Times of day are left out; MissionDevice has the queue, the versions    *)
(* and the fields.                                                         *)
(***************************************************************************)
EXTENDS Recurrence

CONSTANTS Patterns,        \* the patterns the user and the provider choose from
          RuleEnds,        \* and the ends
          Anchors,         \* first days
          ImportNows,      \* the moments of a first import
          Horizon,         \* days after it that are looked at
          Materialized,    \* days a created series is materialised for
          Shifts,          \* how far a details save moves dates, see below
          MaxVisits,       \* bound: occurrences of a created series
          MaxSeries,       \* bound: series
          MaxShifted       \* bound: dates are moved while fewer series have moved ones

ASSUME SeriesAssumption == /\ Materialized \in Nat \ {0}
                           /\ Horizon \in Nat \ {0}
                           /\ MaxVisits \in Nat \ {0}
                           /\ MaxSeries \in Nat \ {0}
                           /\ MaxShifted \in Nat

\* A shift is {n} by the date in the form, {n, n + 1} when the start in the form
\* is 24:00, which occurrences at an earlier time of day do not reach.
ASSUME ShiftsAssumption ==
  \A shift \in Shifts : \E n \in shift : n \in Int /\ shift \in {{n}, {n, n + 1}}

\* The forms and the provider's adapter accept no other rules.
ASSUME RulesAssumption == /\ \A pattern \in Patterns : ValidPattern(pattern)
                          /\ \A end \in RuleEnds : ValidEnd(end)

\* The days the model's calendar knows.
ASSUME DaysAssumption ==
  /\ Anchors \subseteq CalendarDays
  /\ \A now \in ImportNows :
        /\ {now.date - 1, now.date, now.date + Horizon} \subseteq CalendarDays
        /\ now.late \in BOOLEAN

VARIABLES
  import,     \* an imported event: as the provider has it, when, and what was kept
  series,     \* cached_mission_series: the rule, and the day it was anchored at
  visits,     \* cached_mission_occurrences, by the date they were made for
  chore,      \* the save or deletion being worked off, {} when none
  torn,       \* whether a save was cut short between two of its transactions
  shifted     \* series with occurrences whose dates were moved (not in code)

seriesVars == <<import, series, visits, chore, torn, shifted>>

SeriesIds == 1..MaxSeries
Once == [type |-> "once"]
Rules == [pattern : Patterns, end : RuleEnds]
Made == {id \in SeriesIds : series[id] # {}}
RuleOf(id) == (CHOOSE one \in series[id] : TRUE).rule
AnchorOf(id) == (CHOOSE one \in series[id] : TRUE).anchor
Dates == DOMAIN visits
FreshSeries == {id \in SeriesIds : id \notin Made /\ id - 1 \in Made}

Visit(id, date) == [series |-> id, state |-> "open", date |-> date]

SeriesInit == /\ import = {}
              /\ series = [id \in SeriesIds |-> {}]
              /\ visits = << >>
              /\ chore = {}
              /\ torn = FALSE
              /\ shifted = {}

(* The first import of a Google calendar keeps the rest of an event.       *)
ImportEvent ==
  /\ import = {} /\ Made = {}
  /\ \E rule \in Rules, anchor \in Anchors, now \in ImportNows, span \in 0..1 :
       LET event == [anchor |-> anchor, rule |-> rule, span |-> span]
       IN  /\ rule.end.type = "date" => rule.end.last >= anchor
           /\ import' = {[event |-> event, now |-> now, kept |-> futureOnlyEvent(event, now)]}
  /\ UNCHANGED <<series, visits, chore, torn, shifted>>

(* A mission is created with a rule: one series, one occurrence per date.  *)
createCalendarMission ==
  /\ import = {} /\ Made = {}
  /\ \E rule \in Rules, anchor \in Anchors :
       LET dates == expandRecurrenceDates(anchor, rule, anchor, anchor + Materialized)
       IN  /\ dates # {} /\ Cardinality(dates) <= MaxVisits
           /\ series' = [series EXCEPT ![1] = {[rule |-> rule, anchor |-> anchor]}]
           /\ visits' = [date \in dates |-> Visit(1, date)]
  /\ UNCHANGED <<import, chore, torn, shifted>>

InSeries(id) == {one \in Dates : visits[one].series = id}
Open(some) == {one \in some : visits[one].state = "open"}

(* The occurrences of a series that are before one: the time of day        *)
(* decides about those that were moved to the same day.                    *)
Preceding(selected) ==
  LET mine == InSeries(visits[selected].series)
      day(one) == visits[one].date
  IN  {{one \in mine : day(one) < day(selected)} \cup beside :
         beside \in SUBSET {one \in mine \ {selected} : day(one) = day(selected)}}

(* The occurrences a scope takes in: completed and deleted ones stay.      *)
planRecurringSeriesScope(selected, scope, before) ==
  LET id == visits[selected].series
  IN  Open(CASE scope = "this_occurrence" -> {selected}
             [] scope = "this_and_future" -> InSeries(id) \ before
             [] scope = "entire_series" -> InSeries(id))

(* What a count has left is reckoned from the cached occurrences.          *)
recurrenceForThisAndFutureSplit(selected, before) ==
  adjustedRecurrence(RuleOf(visits[selected].series), Cardinality(before))

\* Mutant: the source series keeps the day the other one starts at.
SplitAtSelected(rule, selected) ==
  [rule EXCEPT !.end = [type |-> "date", last |-> selected]]

(* The series split off from ends the day before the selected occurrence.  *)
splitSourceSeries(rule, selected) ==
  [rule EXCEPT !.end = [type |-> "date", last |-> selected - 1]]

Selectable(one) == /\ chore = {} /\ ~torn
                   /\ visits[one].state = "open"
                   /\ RuleOf(visits[one].series) # Once

Begin(kind, selected, scope, before, target, rule, shift) ==
  LET source == visits[selected].series
  IN  /\ chore' = {[kind |-> kind, selected |-> selected, scope |-> scope,
                    source |-> source, target |-> target, rule |-> rule, shift |-> shift,
                    todo |-> planRecurringSeriesScope(selected, scope, before), first |-> TRUE]}
      /\ shifted' = IF shift # {0} \/ source \in shifted THEN shifted \cup {target} ELSE shifted

(* Saving the details of a recurring mission: an edited occurrence alone   *)
(* becomes a series of its own, this and the later ones a split. The date  *)
(* of the form moves all of them; the pattern of the series stays.         *)
saveCalendarMissionDetails(selected, scope) ==
  /\ Selectable(selected)
  /\ \E before \in Preceding(selected), shift \in Shifts,
        target \in IF scope = "entire_series" THEN {visits[selected].series} ELSE FreshSeries :
       /\ shift # {0} => Cardinality(shifted) < MaxShifted
       /\ Begin("details", selected, scope, before, target,
             CASE scope = "this_occurrence" -> Once
               [] scope = "this_and_future" -> recurrenceForThisAndFutureSplit(selected, before)
               [] scope = "entire_series" -> RuleOf(target),
             shift)
  /\ UNCHANGED <<import, series, visits, torn>>

(* Dragging or resizing one: a lone occurrence stays in its series, and    *)
(* every one on its day.                                                   *)
saveCalendarMissionAdjustment(selected, scope) ==
  /\ Selectable(selected)
  /\ \E before \in Preceding(selected),
        target \in IF scope = "this_and_future" THEN FreshSeries ELSE {visits[selected].series} :
       Begin("adjustment", selected, scope, before, target,
             IF scope = "this_and_future" THEN recurrenceForThisAndFutureSplit(selected, before)
             ELSE RuleOf(target),
             {0})
  /\ UNCHANGED <<import, series, visits, torn>>

deleteCalendarMission(selected, scope) ==
  /\ Selectable(selected)
  /\ \E before \in Preceding(selected) :
       Begin("delete", selected, scope, before, visits[selected].series, Once, {0})
  /\ UNCHANGED <<import, series, visits, torn>>

(* By their dates, those of one day in any order.                          *)
First(todo) == {one \in todo : \A other \in todo : visits[one].date <= visits[other].date}

Progress(work, one) ==
  chore' = IF work.todo = {one} THEN {}
           ELSE {[work EXCEPT !.todo = @ \ {one}, !.first = FALSE]}

(* One transaction of a save: with the first one, the source series ends   *)
(* and the target series is stored.                                        *)
SaveOne ==
  \E work \in chore : \E one \in First(work.todo), days \in work.shift :
    LET split == work.first /\ work.target # work.source
        selected == visits[work.selected].date
        ended == IF work.scope = "this_and_future"
                 THEN {[rule |-> splitSourceSeries(RuleOf(work.source), selected),
                        anchor |-> AnchorOf(work.source)]}
                 ELSE series[work.source]
    IN  /\ work.kind # "delete"
        /\ one = work.selected => days = Max(work.shift)
        /\ series' = IF split
                     THEN [series EXCEPT ![work.source] = ended,
                                         ![work.target] = {[rule |-> work.rule,
                                                            anchor |-> selected]}]
                     ELSE series
        /\ visits' = [visits EXCEPT ![one].series = work.target, ![one].date = @ + days]
        /\ Progress(work, one)
        /\ UNCHANGED <<import, torn, shifted>>

DeleteOne ==
  \E work \in chore : \E one \in First(work.todo) :
    /\ work.kind = "delete"
    /\ visits' = [visits EXCEPT ![one].state = "deleted"]
    /\ Progress(work, one)
    /\ UNCHANGED <<import, series, torn, shifted>>

(* A later occurrence cannot be moved so far, or the app dies: what was    *)
(* saved stays.                                                            *)
SaveBreaks ==
  /\ \E work \in chore : ~work.first
  /\ chore' = {} /\ torn' = TRUE
  /\ UNCHANGED <<import, series, visits, shifted>>

CompleteVisit(one) ==
  /\ chore = {} /\ visits[one].state = "open"
  /\ visits' = [visits EXCEPT ![one].state = "completed"]
  /\ UNCHANGED <<import, series, chore, torn, shifted>>

(* A pull removes what the server has deleted.                             *)
PullDeleted(one) ==
  /\ chore = {} /\ visits[one].state = "deleted"
  /\ visits' = [other \in Dates \ {one} |-> visits[other]]
  /\ UNCHANGED <<import, series, chore, torn, shifted>>

Scopes == {"this_occurrence", "this_and_future", "entire_series"}

SeriesNext ==
  \/ ImportEvent
  \/ createCalendarMission
  \/ \E one \in Dates, scope \in Scopes :
       \/ saveCalendarMissionDetails(one, scope)
       \/ saveCalendarMissionAdjustment(one, scope)
       \/ deleteCalendarMission(one, scope)
  \/ SaveOne
  \/ DeleteOne
  \/ SaveBreaks
  \/ \E one \in Dates : CompleteVisit(one) \/ PullDeleted(one)

SeriesSpec == SeriesInit /\ [][SeriesNext]_seriesVars

-----------------------------------------------------------------------------
(* What the first import keeps of a recurring event recurs on exactly the  *)
(* dates of the provider's event that are not over, the last ones of a     *)
(* count included: google-calendar-initial-window.ts computes the first    *)
(* date and how many were skipped without listing them.                    *)
ProjectionIsTail ==
  \A one \in import :
    LET horizon == one.now.date + Horizon
        ahead == {date \in expandRecurrenceDates(one.event.anchor, one.event.rule,
                                                 one.event.anchor, horizon) :
                    ~Over(one.event, date, one.now)}
        again == UNION {expandRecurrenceDates(kept.anchor, kept.rule, kept.anchor, horizon) :
                          kept \in one.kept}
    IN  again = ahead

Promises(id, date) ==
  RuleOf(id) # Once
    /\ date \in expandRecurrenceDates(AnchorOf(id), RuleOf(id), date, date)

(* However a recurring mission is split, edited and deleted in part, each  *)
(* unfinished occurrence that still recurs is promised by the rule of its  *)
(* own series and by no other: no split leaves a gap or a doubled day.     *)
(* splitSourceSeries and recurrenceForThisAndFutureSplit are computed      *)
(* apart, from what happens to be cached. Two things are excepted. A save  *)
(* cut short; and series whose dates a details save has moved, or that     *)
(* were split off from such: their rules are not moved with them           *)
(* (calendar-mission-details-save.ts:316-370). The others stay in order    *)
(* beside them, also the ones they were split off from.                    *)
SplitKeepsDates ==
  chore = {} /\ ~torn =>
    \A one \in Open(Dates) :
      LET id == visits[one].series
      IN  RuleOf(id) # Once /\ id \notin shifted =>
            {other \in Made \ shifted : Promises(other, visits[one].date)} = {id}
=============================================================================

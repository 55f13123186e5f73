----------------------------- MODULE MCCalendars -----------------------------
(***************************************************************************)
(* The phone's calendar, the watch channels and recurring series for TLC.   *)
(* They share no state: a behaviour moves one of the three and leaves the   *)
(* others as they begin.                                                   *)
(***************************************************************************)
EXTENDS AppleCalendar, GoogleWatch, SeriesEdits, TLC

CONSTANTS a1, a2, b1, b2, m1

OneMission == {m1}
\* Two phones, and the two runs that watch Google's calendar.
TwoActors == {a1, a2}
\* Two events of the phone's calendar, and two channels of Google's.
TwoObjects == {b1, b2}
Alike == Permutations(TwoActors) \cup Permutations(TwoObjects)

\* One rule of each kind, among them the ones that skip months and leap years.
SomePatterns == {
    [type |-> "daily", interval |-> 3],
    [type |-> "weekly", interval |-> 1, weekdays |-> {1, 4}, weekStartsOn |-> 0],
    [type |-> "weekly", interval |-> 2, weekdays |-> {0, 3}, weekStartsOn |-> 1],
    [type |-> "monthly-date", interval |-> 1, day |-> 31],
    [type |-> "monthly-date", interval |-> 2, day |-> 15],
    [type |-> "monthly-ordinal", interval |-> 1, ordinal |-> -1, weekday |-> 5],
    [type |-> "monthly-ordinal", interval |-> 2, ordinal |-> 1, weekday |-> 1],
    [type |-> "yearly-date", interval |-> 1, month |-> 1, day |-> 29],
    [type |-> "yearly-ordinal", interval |-> 1, month |-> 1, ordinal |-> 2, weekday |-> 2]}
SomeEnds == {[type |-> "never"], [type |-> "date", last |-> 460],
             [type |-> "count", count |-> 3], [type |-> "count", count |-> 5]}
\* Dates stay, or move to where others are.
SomeShifts == {{0}, {3}}
SomeAnchors == {45, 424}
SomeNows == [date : {30, 90, 120, 425, 700, 1500}, late : BOOLEAN]

VARIABLE part   \* what moves

CalendarsInit ==
    /\ AppleInit /\ WatchInit /\ SeriesInit
    /\ part \in {"apple", "watch", "series"}
CalendarsNext ==
    \/ part = "apple" /\ AppleNext /\ UNCHANGED <<part, watchVars, seriesVars>>
    \/ part = "watch" /\ WatchNext /\ UNCHANGED <<part, appleVars, seriesVars>>
    \/ part = "series" /\ SeriesNext /\ UNCHANGED <<part, appleVars, watchVars>>
CalendarsSpec ==
    CalendarsInit /\ [][CalendarsNext]_<<part, appleVars, watchVars, seriesVars>>
=============================================================================

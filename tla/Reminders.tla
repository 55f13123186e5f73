------------------------------ MODULE Reminders ------------------------------
(***************************************************************************)
(* Mission reminders of one phone: the reconciler and the coordinator of    *)
(* apps/mobile/src/notifications, with what changes the missions they are   *)
(* for.  Each await of the code that the outside can come between is a      *)
(* step: loading, reading the registry, cancelling, deleting a row,         *)
(* scheduling, recording.                                                   *)
(*                                                                         *)
(* An instant is a slot; slots up to "passed" are in the past, and all lie  *)
(* within the horizon.  A reminder is its slot, its missions and its text;  *)
(* the title of a lone mission stands for that text, 0 for a count.         *)
(* Between two looks of the app at the permission it changes at most once.  *)
(***************************************************************************)
EXTENDS Naturals, FiniteSets

CONSTANTS
    MaxReminded,   \* missions
    MaxSlots,      \* bound: instants
    MaxTurns,      \* bound: changes of missions, permission and login
    MaxBreakdowns  \* bound: failures and deaths of the app

ASSUME ReminderAssumption == MaxSlots \in Nat

VARIABLES
    plan,       \* plan[m]: cached_mission_occurrences and tombstones; slot 0: no reminder
    native,     \* what the system will show
    registry,   \* notification_registry
    rebuild,    \* activeDrain
    reasons,    \* pendingReasons
    permission,
    appState,   \* "dead", "front", or "gate": it asks who signs in
    login,      \* how far a sign-out is
    passed,
    unannounced,  \* a synchronization changed missions and has not ended
    turns, breakdowns,
    strays      \* reminders without their row, rows without their reminder (not in code)

reminderVars == <<plan, native, registry, rebuild, reasons, permission,
                  appState, login, passed, unannounced, turns, breakdowns, strays>>

Reminded == 1..MaxReminded
NoRebuild == [at |-> "none", why |-> {}, wanted |-> {}, rows |-> {}, kept |-> {}, now |-> {}]
Unplanned == [row |-> "none", slot |-> 0, title |-> 0]
Cached(m) == plan[m].row = "cached"
Turn == turns < MaxTurns /\ turns' = turns + 1
Breakdown == breakdowns < MaxBreakdowns /\ breakdowns' = breakdowns + 1

ReminderInit ==
    /\ plan = [m \in Reminded |-> Unplanned]
    /\ native = {} /\ registry = {} /\ strays = {}
    /\ rebuild = NoRebuild /\ reasons = {}
    /\ permission = TRUE /\ appState = "front" /\ login = "in"
    /\ passed = 0 /\ unannounced = FALSE /\ turns = 0 /\ breakdowns = 0

(***************************************************************************)
(* What should be scheduled.                                                *)
(***************************************************************************)
\* isEligibleForReminder, and the window.
Due == {m \in Reminded : Cached(m) /\ plan[m].slot > passed}

\* groupDesiredNotifications: one reminder for all that start together.
Together(s) ==
    LET group == {m \in Due : plan[m].slot = s}
    IN  [slot |-> s, missions |-> group,
         text |-> IF Cardinality(group) = 1 THEN plan[CHOOSE m \in group : TRUE].title ELSE 0]
Wanted == {Together(plan[m].slot) : m \in Due}

Body(r) == [slot |-> r.slot, missions |-> r.missions, text |-> r.text]
First(missions) == CHOOSE m \in missions : \A n \in missions : m <= n
Identifiers(rs) == {r.id : r \in rs}
NewReminder(w) ==
    LET used == strays \cup Identifiers(native \cup registry \cup rebuild.rows)
        id == CHOOSE i \in 1..(Cardinality(used) + 1) : i \notin used
    IN  [id |-> id, slot |-> w.slot, missions |-> w.missions, text |-> w.text]

(***************************************************************************)
(* The coordinator.                                                         *)
(***************************************************************************)
\* request: a drain that is under way, or ending, takes the reason along.
Request(why) ==
    /\ reasons' = reasons \cup why
    /\ rebuild' = IF rebuild.at = "none" THEN [rebuild EXCEPT !.at = "take"] ELSE rebuild

\* Mutant: the reasons are cleared when the rebuild is done.
ClearedAfter(r) == {}

\* Reasons that come during a rebuild make the drain go round again.
ReasonsAfter(r) == reasons

TakeReasons ==
    /\ rebuild.at = "take"
    /\ rebuild' = [rebuild EXCEPT !.at = IF reasons = {} THEN "ending" ELSE "load", !.why = reasons]
    /\ reasons' = {}
    /\ UNCHANGED <<plan, native, registry, permission, appState, login, passed,
                   unannounced, turns, breakdowns, strays>>

EndDrain ==
    /\ rebuild.at = "ending" /\ rebuild' = NoRebuild
    /\ UNCHANGED <<plan, native, registry, reasons, permission, appState, login, passed,
                   unannounced, turns, breakdowns, strays>>

\* A failure keeps the reasons for the next request.
RebuildFails == /\ reasons' = reasons \cup rebuild.why
                /\ rebuild' = [NoRebuild EXCEPT !.at = "ending"]

(***************************************************************************)
(* reconcileOnce.                                                           *)
(***************************************************************************)
LoadDesired ==
    /\ rebuild.at = "load"
    /\ rebuild' = IF permission /\ login # "out"
                  THEN [rebuild EXCEPT !.at = "rows", !.wanted = Wanted]
                  ELSE [NoRebuild EXCEPT !.at = "take"]
    /\ UNCHANGED <<plan, native, registry, reasons, permission, appState, login, passed,
                   unannounced, turns, breakdowns, strays>>

ReadRegistry ==
    /\ rebuild.at = "rows"
    /\ rebuild' = [rebuild EXCEPT !.at = "sweep", !.rows = registry]
    /\ UNCHANGED <<plan, native, registry, reasons, permission, appState, login, passed,
                   unannounced, turns, breakdowns, strays>>

ShouldRetain(r) ==
    /\ "forced" \notin rebuild.why
    /\ Body(r) \in rebuild.wanted \ rebuild.kept

RetainRow(r) ==
    /\ ShouldRetain(r)
    /\ rebuild' = [rebuild EXCEPT !.rows = @ \ {r}, !.kept = @ \cup {Body(r)}]
    /\ UNCHANGED native

CancelReminder(r) ==
    /\ ~ShouldRetain(r)
    /\ native' = {n \in native : n.id # r.id}
    /\ rebuild' = [rebuild EXCEPT !.at = "delete", !.now = {r}]

SweepRow ==
    /\ rebuild.at = "sweep"
    /\ \E r \in rebuild.rows : RetainRow(r) \/ CancelReminder(r)
    /\ UNCHANGED <<plan, registry, reasons, permission, appState, login, passed,
                   unannounced, turns, breakdowns, strays>>

DeleteRegistryRow ==
    /\ rebuild.at = "delete"
    /\ registry' = registry \ rebuild.now
    /\ rebuild' = [rebuild EXCEPT !.at = "sweep", !.rows = @ \ rebuild.now, !.now = {}]
    /\ UNCHANGED <<plan, native, reasons, permission, appState, login, passed,
                   unannounced, turns, breakdowns, strays>>

\* schedule: a reminder of the past is shown, not kept.
Scheduled(n) == native \cup {x \in {n} : x.slot > passed}

\* scheduleAndPersist.
ScheduleReminder ==
    /\ rebuild.at = "sweep" /\ rebuild.rows = {}
    /\ \E w \in rebuild.wanted \ rebuild.kept :
          LET n == NewReminder(w)
          IN  /\ native' = Scheduled(n)
              /\ rebuild' = [rebuild EXCEPT !.at = "record", !.now = {n}]
    /\ UNCHANGED <<plan, registry, reasons, permission, appState, login, passed,
                   unannounced, turns, breakdowns, strays>>

\* The row needs the mission's: without it the reminder is taken back.
RecordReminder ==
    /\ rebuild.at = "record"
    /\ \E n \in rebuild.now :
          IF Cached(First(n.missions))
          THEN /\ registry' = registry \cup {n}
               /\ rebuild' = [rebuild EXCEPT !.at = "sweep", !.kept = @ \cup {Body(n)}, !.now = {}]
               /\ UNCHANGED <<native, reasons>>
          ELSE /\ native' = native \ {n} /\ RebuildFails
               /\ UNCHANGED registry
    /\ UNCHANGED <<plan, permission, appState, login, passed, unannounced, turns, breakdowns,
                   strays>>

EndRebuild ==
    /\ rebuild.at = "sweep" /\ rebuild.rows = {} /\ rebuild.wanted \subseteq rebuild.kept
    /\ reasons' = ReasonsAfter(rebuild)
    /\ rebuild' = [NoRebuild EXCEPT !.at = "take"]
    /\ UNCHANGED <<plan, native, registry, permission, appState, login, passed,
                   unannounced, turns, breakdowns, strays>>

\* The database or the system refuses: of a reminder that could not be
\* recorded, the cancellation may fail too.
StepFails ==
    /\ rebuild.at \notin {"none", "take", "ending"} /\ Breakdown
    /\ RebuildFails
    /\ \/ UNCHANGED <<native, strays>> /\ rebuild.at \notin {"delete", "record"}
       \/ rebuild.at = "delete" /\ strays' = strays \cup Identifiers(rebuild.now) /\ UNCHANGED native
       \/ rebuild.at = "record" /\ native' = native \ rebuild.now /\ UNCHANGED strays
       \/ rebuild.at = "record" /\ strays' = strays \cup Identifiers(rebuild.now \cap native) /\ UNCHANGED native
    /\ UNCHANGED <<plan, registry, permission, appState, login, passed, unannounced, turns>>

(***************************************************************************)
(* What asks for a rebuild.                                                 *)
(***************************************************************************)
Plans == [row : {"cached"}, slot : {0} \cup (passed + 1)..MaxSlots, title : {1, 2}]

\* A mission is saved on this phone, completed or deleted (slot 0).
LocalMutation(m) ==
    /\ appState = "front" /\ login = "in" /\ Turn /\ plan[m].row # "tombstone"
    /\ \E p \in Plans : p # plan[m] /\ plan' = [plan EXCEPT ![m] = p]
    /\ Request({"mission-change"})
    /\ UNCHANGED <<native, registry, permission, appState, login, passed, unannounced,
                   breakdowns, strays>>

\* A page of a synchronization; a deletion takes the mission's registry row
\* with it.
PullMission(m) ==
    /\ appState = "front" /\ login = "in" /\ Turn /\ plan[m].row # "tombstone"
    /\ \/ /\ \E p \in Plans : p # plan[m] /\ plan' = [plan EXCEPT ![m] = p]
          /\ UNCHANGED registry
       \/ /\ plan' = [plan EXCEPT ![m] = [Unplanned EXCEPT !.row = "tombstone"]]
          /\ registry' = {r \in registry : First(r.missions) # m}
    /\ strays' = strays \cup (Identifiers(registry \ registry') \cap Identifiers(native))
    /\ unannounced' = TRUE
    /\ UNCHANGED <<native, rebuild, reasons, permission, appState, login, passed, breakdowns>>

\* afterSynchronization; a changed time zone forces.  A run that failed asks
\* for nothing, and a later one does.
AfterSynchronization ==
    /\ unannounced /\ unannounced' = FALSE
    /\ \E why \in {{"synchronization"}, {"synchronization", "forced"}} : Request(why)
    /\ UNCHANGED <<plan, native, registry, permission, appState, login, passed, turns,
                   breakdowns, strays>>

OnForeground ==
    /\ appState = "front" /\ Turn
    /\ permission' = ~permission
    /\ IF permission' THEN Request({"forced"}) ELSE UNCHANGED <<rebuild, reasons>>
    /\ UNCHANGED <<plan, native, registry, appState, login, passed, unannounced, breakdowns, strays>>

\* The device may restart, and lose what was scheduled.
AppStops ==
    /\ appState # "dead" /\ Breakdown
    /\ appState' = "dead" /\ unannounced' = FALSE
    /\ rebuild' = NoRebuild /\ reasons' = {}
    /\ login' = IF login = "out" THEN "out" ELSE "in"
    /\ native' \in {native, {}}
    /\ strays' = (strays \cup (IF rebuild.at = "record" THEN Identifiers(rebuild.now) ELSE {}))
                 \cap Identifiers(native' \cup registry)
    /\ UNCHANGED <<plan, registry, permission, passed, turns>>

\* start: the bridge to the screens is there when somebody is signed in.
BridgeStarts ==
    /\ appState' = "front" /\ permission' \in BOOLEAN
    /\ Request({"sign-in", "forced"})

AppStarts ==
    /\ appState = "dead"
    /\ \/ login # "out" /\ BridgeStarts
       \/ login = "out" /\ appState' = "gate" /\ UNCHANGED <<permission, rebuild, reasons>>
    /\ UNCHANGED <<plan, native, registry, login, passed, unannounced, turns, breakdowns, strays>>

TimePasses ==
    /\ passed < MaxSlots /\ passed' = passed + 1
    /\ native' = {n \in native : n.slot > passed'}
    /\ strays' = strays \cap Identifiers(native' \cup registry)
    /\ UNCHANGED <<plan, registry, rebuild, reasons, permission, appState, login,
                   unannounced, turns, breakdowns>>

\* The cleanup of a sign-out, while a rebuild may run.
CancelAll ==
    /\ appState = "front" /\ login = "in" /\ Turn
    /\ login' = "cancelled" /\ native' = {} /\ strays' = strays \cap Identifiers(registry)
    /\ UNCHANGED <<plan, registry, rebuild, reasons, permission, appState, passed,
                   unannounced, breakdowns>>

WipeAccountData ==
    /\ login = "cancelled" /\ login' = "wiped"
    /\ plan' = [m \in Reminded |-> Unplanned] /\ registry' = {}
    /\ strays' = strays \cup (Identifiers(registry) \cap Identifiers(native))
    /\ unannounced' = FALSE
    /\ UNCHANGED <<native, rebuild, reasons, permission, appState, passed, turns, breakdowns>>

\* The session ends all the same.
WipeFails ==
    /\ login = "cancelled" /\ Breakdown /\ login' = "out"
    /\ unannounced' = FALSE
    /\ UNCHANGED <<plan, native, registry, rebuild, reasons, permission, appState, passed, turns,
                   strays>>

SignedOutNow ==
    /\ login = "wiped" /\ login' = "out"
    /\ UNCHANGED <<plan, native, registry, rebuild, reasons, permission, appState, passed,
                   unannounced, turns, breakdowns, strays>>

\* The gate asks only when the app starts: until then a signed-out account
\* keeps its screens.
SignedInAgain ==
    /\ appState = "gate" /\ login' = "in" /\ unannounced' = TRUE
    /\ BridgeStarts
    /\ UNCHANGED <<plan, native, registry, passed, turns, breakdowns, strays>>

ReminderNext ==
    \/ TakeReasons \/ EndDrain \/ LoadDesired \/ ReadRegistry \/ SweepRow
    \/ DeleteRegistryRow \/ ScheduleReminder \/ RecordReminder \/ EndRebuild \/ StepFails
    \/ \E m \in Reminded : LocalMutation(m) \/ PullMission(m)
    \/ AfterSynchronization \/ OnForeground \/ AppStops \/ AppStarts \/ TimePasses
    \/ CancelAll \/ WipeAccountData \/ WipeFails \/ SignedOutNow \/ SignedInAgain

ReminderSpec == ReminderInit /\ [][ReminderNext]_reminderVars

(***************************************************************************)
(* Properties.                                                             *)
(***************************************************************************)
Settled ==
    /\ appState = "front" /\ login = "in" /\ permission
    /\ rebuild.at = "none" /\ reasons = {} /\ ~unannounced

\* When no rebuild is under way or owed, the phone will show exactly one
\* reminder for each instant at which missions start, with their present text,
\* but where a failure, the death of the app, a pulled deletion or a sign-out
\* left a reminder without its registry row or a row without its reminder
\* (notification-reconciler.ts:320-400, notification-rebuild-runtime.ts:40-70).
RemindersMatch ==
    Settled => LET known == {n \in native : n.id \notin strays}
                   empty == {Body(r) : r \in {x \in registry : x.id \in strays}}
               IN  /\ {Body(n) : n \in known} = Wanted \ empty
                   /\ Cardinality(known) = Cardinality(Wanted \ empty)

\* "Complete/delete/reschedule cancels obsolete reminders after sync"
\* (product-specification.md:1360): a mission whose deletion was pulled takes
\* its registry row with it, and its reminder is not cancelled.
NoObsoleteReminders ==
    Settled /\ breakdowns = 0 => \A n \in native : \A m \in n.missions : plan[m].row # "tombstone"
=============================================================================

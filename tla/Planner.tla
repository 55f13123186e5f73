------------------------------- MODULE Planner -------------------------------
(***************************************************************************)
(* The AI Planner draft of an account and its confirmation: the Planner     *)
(* part of sync-store.ts and planner-confirmation.ts on the server,         *)
(* ai-planner-draft-persistence.ts, calendar-draft-preview.ts,              *)
(* ai-planner-route-screen.tsx and the Planner part of                      *)
(* authenticated-sync-runtime.ts on the phones.                             *)
(*                                                                         *)
(* "today" counts what users do: a text, a list and an item stand for when  *)
(* they were made, and so does a mutation.                                  *)
(***************************************************************************)
EXTENDS Naturals, Sequences, FiniteSets

CONSTANTS
    Planners,   \* phones of the account
    MaxToday,   \* bound: what users do
    MaxMisses   \* bound: answers that are lost

VARIABLES
    draft,      \* ai_planner_drafts and ai_planner_items
    planLog,    \* account_change_log, of the Planner
    taken,      \* device_sync_mutations
    activated,  \* item ids that are mission_occurrences
    confirmed,  \* idempotency_keys
    sketch,     \* sketch[p]: planner_drafts of the phone
    sends,      \* sends[p]: the Planner's row of mutation_queue
    seen,       \* seen[p]: the cursor
    trip,       \* trip[p]: a synchronization
    wish,       \* wish[p]: confirmSchedule, and confirmationKeyRef
    cleared,    \* phones whose last write was clearAfterConfirmation (not in code)
    today, misses

serverPlan == <<draft, planLog, taken, activated, confirmed>>
plannerVars == <<serverPlan, sketch, sends, seen, trip, wish, cleared, today, misses>>

\* "listed" is 0 when the draft has no list: a list that is empty has a time.
NoDraft == [text |-> 0, listed |-> 0, ids |-> {}]
NoSend == [at |-> 0, on |-> NoDraft]
Deleted == [op |-> "delete", on |-> NoDraft]
Stored(d) == [op |-> "upsert", on |-> d]

Today == today < MaxToday /\ today' = today + 1
Miss == misses < MaxMisses /\ misses' = misses + 1

PlannerInit ==
    /\ draft = [at |-> 0, on |-> NoDraft] /\ planLog = << >>
    /\ taken = {} /\ activated = {} /\ confirmed = {}
    /\ sketch = [p \in Planners |-> NoDraft] /\ sends = [p \in Planners |-> NoSend]
    /\ seen = [p \in Planners |-> 0] /\ trip = [p \in Planners |-> "none"]
    /\ wish = [p \in Planners |-> [at |-> "none", key |-> 0]]
    /\ cleared = {} /\ today = 0 /\ misses = 0

(***************************************************************************)
(* The screen.  A write replaces the queued mutation in its transaction.    *)
(***************************************************************************)
Sketch(p, d) ==
    /\ sketch' = [sketch EXCEPT ![p] = d]
    /\ sends' = [sends EXCEPT ![p] = [at |-> today', on |-> d]]
    /\ cleared' = cleared \ {p}
    /\ UNCHANGED <<serverPlan, seen, trip, misses>>

\* persistDraft: the stored list stays.
WriteText(p) ==
    /\ Today /\ Sketch(p, [sketch[p] EXCEPT !.text = today'])
    /\ UNCHANGED wish

\* The lists add, replaceItems, update and adjust, and remove leave.
NextLists(p) ==
    LET ids == sketch[p].ids IN
    {ids \cup {today'}} \cup {{today'} : d \in {sketch[p]} \ {NoDraft}}
        \cup {ids : i \in ids} \cup {ids \ {i} : i \in ids}

\* parsePlannerCalendarDraftDocument, of a list put in place of the stored one.
Document(d, ids) == [d EXCEPT !.listed = today', !.ids = ids]

\* The stored text stays; only "add" makes a draft. The document is loaded just before the
\* transaction and here in it: what a pull writes in between is overwritten by a list that
\* lacks it, as by one that was written before the pull.
WriteList(p) ==
    /\ Today
    /\ \E ids \in NextLists(p) : Sketch(p, Document(sketch[p], ids))
    /\ UNCHANGED wish

\* A key that was not settled is used again while the screen stays open.
TapConfirm(p) ==
    /\ wish[p].at = "none" /\ sketch[p].ids # {} /\ Today
    /\ wish' = [wish EXCEPT ![p] = [at |-> "asked", key |-> IF @.key = 0 THEN today' ELSE @.key]]
    /\ UNCHANGED <<serverPlan, sketch, sends, seen, trip, cleared, misses>>

LeaveScreen(p) ==
    /\ wish[p].at = "none" /\ wish[p].key # 0
    /\ wish' = [wish EXCEPT ![p].key = 0]
    /\ UNCHANGED <<serverPlan, sketch, sends, seen, trip, cleared, today, misses>>

(***************************************************************************)
(* The server.                                                             *)
(***************************************************************************)
\* applyPlannerMutation: an older save changes nothing, a save without a list
\* keeps the stored one.
Wins(m) == draft.at <= m.at
Kept(m) == IF m.on.listed = 0
           THEN [m.on EXCEPT !.listed = draft.on.listed, !.ids = draft.on.ids]
           ELSE m.on

\* Mutant: the change carries what the phone sent.
LoggedAsSent(m) == Stored(m.on)

\* The change carries what is stored afterwards.
Logged(m) == Stored(IF Wins(m) THEN Kept(m) ELSE draft.on)

TakePlan(m) ==
    IF m.at \in taken THEN UNCHANGED serverPlan
    ELSE /\ draft' = IF Wins(m) THEN [at |-> m.at, on |-> Kept(m)] ELSE draft
         /\ planLog' = Append(planLog, Logged(m))
         /\ taken' = taken \cup {m.at}
         /\ UNCHANGED <<activated, confirmed>>

\* confirmPlannerDraft: no draft, no items, or an id that is a mission already
\* fails the transaction.
CanActivate == draft.on.ids # {} /\ draft.on.ids \cap activated = {}

Activate(key) ==
    /\ activated' = activated \cup draft.on.ids
    /\ draft' = [at |-> 0, on |-> NoDraft]
    /\ planLog' = Append(planLog, Deleted)
    /\ confirmed' = confirmed \cup {key}
    /\ UNCHANGED taken

\* A key that was used returns its result again.
Confirm(p) ==
    LET key == wish[p].key IN
    /\ wish[p].at = "ready"
    /\ \/ /\ key \in confirmed \/ CanActivate
          /\ IF key \in confirmed THEN UNCHANGED serverPlan ELSE Activate(key)
          /\ \/ wish' = [wish EXCEPT ![p].at = "done"] /\ UNCHANGED misses
             \/ wish' = [wish EXCEPT ![p].at = "none"] /\ Miss
       \/ /\ key \notin confirmed /\ ~CanActivate
          /\ wish' = [wish EXCEPT ![p].at = "none"]
          /\ UNCHANGED <<serverPlan, misses>>
    /\ UNCHANGED <<sketch, sends, seen, trip, cleared, today>>

\* clearAfterConfirmation
ClearSketch(p) ==
    /\ wish[p].at = "done"
    /\ sketch' = [sketch EXCEPT ![p] = NoDraft] /\ sends' = [sends EXCEPT ![p] = NoSend]
    /\ wish' = [wish EXCEPT ![p] = [at |-> "none", key |-> 0]]
    /\ cleared' = cleared \cup {p}
    /\ UNCHANGED <<serverPlan, seen, trip, today, misses>>

(***************************************************************************)
(* A synchronization; confirmSchedule waits for one of its own.             *)
(***************************************************************************)
StartTrip(p) ==
    /\ trip[p] = "none"
    /\ sends[p] # NoSend \/ seen[p] < Len(planLog) \/ wish[p].at = "asked"
    /\ trip' = [trip EXCEPT ![p] = "push"]
    /\ wish' = IF wish[p].at = "asked" THEN [wish EXCEPT ![p].at = "syncing"] ELSE wish
    /\ UNCHANGED <<serverPlan, sketch, sends, seen, cleared, today, misses>>

EndTrip(p, at) ==
    /\ trip' = [trip EXCEPT ![p] = "none"]
    /\ wish' = IF wish[p].at = "syncing" THEN [wish EXCEPT ![p].at = at] ELSE wish

PushPlan(p) ==
    /\ trip[p] = "push" /\ sends[p] # NoSend
    /\ TakePlan(sends[p])
    /\ \/ sends' = [sends EXCEPT ![p] = NoSend] /\ UNCHANGED <<trip, wish, misses>>
       \/ Miss /\ EndTrip(p, "none") /\ UNCHANGED sends
    /\ UNCHANGED <<sketch, seen, cleared, today>>

EndPushPlan(p) ==
    /\ trip[p] = "push" /\ sends[p] = NoSend
    /\ trip' = [trip EXCEPT ![p] = "pull"]
    /\ UNCHANGED <<serverPlan, sketch, sends, seen, wish, cleared, today, misses>>

\* applyAuthoritativeChanges: a deletion takes the draft and what is queued with
\* it, a draft waits for what is queued.  So of many entries the last one stays,
\* if nothing was queued or one of them is a deletion.
Takes(p, entries) ==
    /\ entries # << >>
    /\ sends[p] = NoSend \/ \E i \in DOMAIN entries : entries[i].op = "delete"

PullEntries(p, entries) ==
    IF Takes(p, entries)
    THEN /\ sketch' = [sketch EXCEPT ![p] = entries[Len(entries)].on]
         /\ sends' = [sends EXCEPT ![p] = NoSend]
         /\ cleared' = cleared \ {p}
    ELSE UNCHANGED <<sketch, sends, cleared>>

PullPlan(p) ==
    /\ trip[p] = "pull"
    /\ PullEntries(p, SubSeq(planLog, seen[p] + 1, Len(planLog)))
    /\ seen' = [seen EXCEPT ![p] = Len(planLog)]
    /\ EndTrip(p, "ready")
    /\ UNCHANGED <<serverPlan, today, misses>>

\* listPendingMutationIds
PendingMutations(p) == sends[p] # NoSend

\* A snapshot holds the last change; one that would take what is queued fails
\* and is rolled back.
PullPlanSnapshot(p) ==
    /\ trip[p] = "pull" /\ seen[p] < Len(planLog)
    /\ LET last == planLog[Len(planLog)] IN
       IF PendingMutations(p) /\ last.op = "delete"
       THEN EndTrip(p, "none") /\ UNCHANGED <<sketch, sends, cleared, seen>>
       ELSE /\ PullEntries(p, << last >>)
            /\ seen' = [seen EXCEPT ![p] = Len(planLog)]
            /\ EndTrip(p, "ready")
    /\ UNCHANGED <<serverPlan, today, misses>>

PlannerNext ==
    \E p \in Planners :
        \/ WriteText(p) \/ WriteList(p) \/ TapConfirm(p) \/ LeaveScreen(p)
        \/ Confirm(p) \/ ClearSketch(p)
        \/ StartTrip(p) \/ PushPlan(p) \/ EndPushPlan(p) \/ PullPlan(p) \/ PullPlanSnapshot(p)

PlannerSpec == PlannerInit /\ [][PlannerNext]_plannerVars

(***************************************************************************)
(* Properties.                                                             *)
(***************************************************************************)
\* A phone that has nothing to send and has read the whole log shows the
\* server's draft, also after edits on two phones that were sent in the other
\* order, a lost answer, a confirmation on one of them and a snapshot.  The
\* exception is the phone that confirmed: it clears its draft when the answer
\* comes, and what it pulled in between with it (sync-store.ts:1225-1306,
\* authenticated-sync-runtime.ts:745-796, calendar-draft-preview.ts:433-449).
PlannersConverge ==
    \A p \in Planners :
        sends[p] = NoSend /\ seen[p] = Len(planLog) => sketch[p] = draft.on \/ p \in cleared
=============================================================================

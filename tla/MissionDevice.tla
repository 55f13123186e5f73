---------------------------- MODULE MissionDevice ----------------------------
(***************************************************************************)
(* A mobile device of the account: its SQLite store (mutation queue, cached *)
(* missions, tombstones, cursor), what the user does to missions (calendar/ *)
(* calendar-mission-*.ts, no-evidence-completion-queue.ts) and one sync run *)
(* (sync/server-sync.ts with the projections of                            *)
(* authenticated-sync-runtime.ts).                                         *)
(*                                                                         *)
(* A SQLite transaction is a step, and so is each await between two of      *)
(* them: the user acts, requests are served and the app may be killed in   *)
(* between.  Sync runs of a device are serialised (runTail).  The actions   *)
(* that meet the server take what the server says as a parameter;          *)
(* MissionSync supplies it.                                                *)
(***************************************************************************)
EXTENDS Sequences, SequencesExt, FiniteSets, MissionTypes

CONSTANTS
    Devices,     \* devices of the account
    Home,        \* Home[m]: the device whose user creates mission m
    UserOps,     \* bound: what users do, of the operations below
    MaxIssued,   \* bound: mutations a device ever makes
    BatchSize,   \* mutations pushed and changes pulled at a time
    Seeded       \* missions that are there from the start

ASSUME HomeAssumption == Home \in [Missions -> Devices]
ASSUME UserOpsAssumption == UserOps \subseteq {"create", "edit", "delete", "undo", "complete"}
ASSUME IdsAssumption == Ids = Devices \X (1 .. MaxIssued) \cup Seeded
ASSUME MaxIssuedAssumption == MaxIssued \in Nat
ASSUME BatchSizeAssumption == BatchSize \in Nat \ {0}
ASSUME SeededAssumption ==
    /\ Seeded \subseteq Missions /\ IsFiniteSet(Seeded)
    /\ Seeded \cap (Devices \X (1 .. MaxIssued)) = {}

VARIABLES
    queue,    \* queue[d]: mutation_queue, [mut, inFlight, before] in sequence order
    view,     \* view[d][m]: the cached mission
    tomb,     \* tomb[d]: local mission_occurrence_tombstones
    cursor,   \* cursor[d]: the stored sync cursor
    run,      \* run[d]: the sync run
    draft,    \* draft[d]: an edit between the read and the write of its save
    undo,     \* undo[d]: the deletion that can still be undone
    issued,   \* issued[d]: the mutations d made, in order (not in code)
    dropped   \* dropped[d]: those it dropped again, [mut, why] (not in code)

storeVars == <<queue, view, tomb, cursor>>
uiVars == <<draft, undo>>
deviceVars == <<storeVars, uiVars, run, issued, dropped>>

\* A cached row is a MissionRow with synchronizationState: pending is TRUE
\* while local work on it has not come back.  version 0 is null.
Cached(row) == [row |-> row, pending |-> FALSE]
Nothing == [id |-> NoId]

NoRun == [at |-> "idle", batch |-> <<>>, settled |-> 0, conflict |-> "none", upto |-> 0,
          more |-> FALSE]
SeedRow(m) == [stage |-> "active", done |-> FALSE, version |-> 1, content |-> m]
SeedEntry(m) ==
    [by |-> [id |-> m, op |-> "create", mission |-> m, base |-> 0], row |-> SeedRow(m)]

DeviceInit ==
    /\ queue = [d \in Devices |-> <<>>]
    /\ view = [d \in Devices |-> [m \in Missions |->
                  Cached(IF m \in Seeded THEN SeedRow(m) ELSE NoRow)]]
    /\ tomb = [d \in Devices |-> {}]
    /\ cursor = [d \in Devices |-> Cardinality(Seeded)]
    /\ run = [d \in Devices |-> NoRun]
    /\ draft = [d \in Devices |-> Nothing]
    /\ undo = [d \in Devices |-> Nothing]
    /\ issued = [d \in Devices |-> <<>>]
    /\ dropped = [d \in Devices |-> {}]

(***************************************************************************)
(* The user.  One operation at a time: a save that has read its mission is *)
(* awaited before anything else can be started.                            *)
(***************************************************************************)
Row(d, m) == view[d][m].row
Queued(d) == {queue[d][i].mut : i \in DOMAIN queue[d]}

Free(d, op) ==
    /\ op \in UserOps
    /\ draft[d] = Nothing
    /\ Len(issued[d]) < MaxIssued

\* The n-th of a set of positions; a queue without some of its mutations.
Nth(S, n) == CHOOSE i \in S : Cardinality({j \in S : j <= i}) = n
Without(entries, muts) ==
    LET kept == {i \in DOMAIN entries : entries[i].mut \notin muts}
    IN  [n \in 1 .. Cardinality(kept) |-> entries[Nth(kept, n)]]

NewMutation(d, op, m, base) ==
    [id |-> <<d, Len(issued[d]) + 1>>, op |-> op, mission |-> m, base |-> base]

\* enqueue: the change and its mutation in one transaction.
Enqueue(d, mut, cached) ==
    /\ queue' = [queue EXCEPT ![d] = Append(@,
                    [mut |-> mut, inFlight |-> FALSE, before |-> view[d][mut.mission].pending])]
    /\ view' = [view EXCEPT ![d][mut.mission] = cached]
    /\ issued' = [issued EXCEPT ![d] = Append(@, mut)]
    /\ UNCHANGED <<cursor, run, dropped>>

\* calendar-mission-create.ts: under a new id.
Create(d, m) ==
    LET mut == NewMutation(d, "create", m, 0)
    IN  /\ Free(d, "create")
        /\ Home[m] = d /\ Row(d, m).stage = "absent" /\ m \notin tomb[d]
        /\ Enqueue(d, mut, [row |-> [NoRow EXCEPT !.stage = "active", !.content = mut.id],
                            pending |-> TRUE])
        /\ UNCHANGED <<tomb, uiVars>>

\* resolveBaseVersion: the version of the row, 1 for one that is still to be
\* created; refused when its create has left the queue and not come back.
EditBases(d, m) ==
    IF Row(d, m).version # 0 THEN {Row(d, m).version}
    ELSE {1 : mut \in {q \in Queued(d) : q.op = "create" /\ q.mission = m}}

\* saveCalendarMissionDetails up to the transaction: reads the row.
OpenEdit(d, m) ==
    /\ Free(d, "edit")
    /\ Row(d, m).stage = "active" /\ ~Row(d, m).done
    /\ \E base \in EditBases(d, m) :
          draft' = [draft EXCEPT ![d] = NewMutation(d, "update", m, base)]
    /\ UNCHANGED <<storeVars, run, undo, issued, dropped>>

\* Mutant: the save puts the row back if it is gone.
SaveEditInserting(d) ==
    LET mut == draft[d]
        row == [stage |-> "active", done |-> FALSE, version |-> mut.base + 1, content |-> mut.id]
    IN  /\ draft[d] # Nothing
        /\ Enqueue(d, mut, [row |-> row, pending |-> TRUE])
        /\ draft' = [draft EXCEPT ![d] = Nothing]
        /\ UNCHANGED <<tomb, undo>>

\* Its transaction: writes what it has, on whatever row is there now, with the
\* version the server will give it; the mutation is queued also if the row is
\* gone.
SaveEdit(d) ==
    LET mut == draft[d]
        now == view[d][mut.mission]
        row == [stage |-> "active", done |-> FALSE, version |-> mut.base + 1, content |-> mut.id]
    IN  /\ draft[d] # Nothing
        /\ Enqueue(d, mut, IF now.row.stage = "absent" THEN now
                           ELSE [row |-> row, pending |-> TRUE])
        /\ draft' = [draft EXCEPT ![d] = Nothing]
        /\ UNCHANGED <<tomb, undo>>

\* deleteSingleCalendarMission: the row is read again in the transaction, so
\* that read and write are one step.
Delete(d, m) ==
    LET base == IF Row(d, m).version = 0 THEN 1 ELSE Row(d, m).version
        mut == NewMutation(d, "delete", m, base)
    IN  /\ Free(d, "delete")
        /\ Row(d, m).stage = "active"
        /\ Row(d, m).version = 0 => view[d][m].pending
        /\ Enqueue(d, mut, [row |-> [Row(d, m) EXCEPT !.stage = "deleted"], pending |-> TRUE])
        /\ tomb' = [tomb EXCEPT ![d] = @ \cup {m}]
        /\ undo' = [undo EXCEPT ![d] = [mut |-> mut, was |-> view[d][m]]]
        /\ UNCHANGED draft

\* Mutant: the undo does not look for the deletion in the queue.
UndoUnqueued(d) ==
    LET mut == undo[d].mut
    IN  /\ "undo" \in UserOps /\ draft[d] = Nothing /\ undo[d] # Nothing
        /\ mut.mission \in tomb[d]
        /\ queue' = [queue EXCEPT ![d] = Without(@, {mut})]
        /\ view' = [view EXCEPT ![d][mut.mission] = undo[d].was]
        /\ tomb' = [tomb EXCEPT ![d] = @ \ {mut.mission}]
        /\ undo' = [undo EXCEPT ![d] = Nothing]
        /\ UNCHANGED <<cursor, run, draft, issued, dropped>>

\* undoCalendarMissionDeletion, when it may: the deletion is queued and no run
\* has it.  The row gets its payload back but keeps its version.
Undo(d) ==
    LET mut == undo[d].mut
        at == {i \in DOMAIN queue[d] : queue[d][i].mut.id = mut.id /\ ~queue[d][i].inFlight}
    IN  /\ "undo" \in UserOps /\ draft[d] = Nothing /\ undo[d] # Nothing
        /\ mut.mission \in tomb[d] /\ Row(d, mut.mission).stage # "absent"
        /\ \E i \in at :
              /\ queue' = [queue EXCEPT ![d] = RemoveAt(@, i)]
              /\ dropped' = [dropped EXCEPT ![d] = @ \cup
                                {[mut |-> queue[d][i].mut, why |-> "undone"]}]
        /\ view' = [view EXCEPT ![d][mut.mission] =
                       [undo[d].was EXCEPT !.row.version = Row(d, mut.mission).version]]
        /\ tomb' = [tomb EXCEPT ![d] = @ \ {mut.mission}]
        /\ undo' = [undo EXCEPT ![d] = Nothing]
        /\ UNCHANGED <<cursor, run, draft, issued>>

\* The undo bar goes away after five seconds, or undo was refused.
EndUndo(d) ==
    /\ undo[d] # Nothing
    /\ undo' = [undo EXCEPT ![d] = Nothing]
    /\ UNCHANGED <<storeVars, run, draft, issued, dropped>>

\* queueNoEvidenceCompletion: also reads the row again in its transaction.
Complete(d, m) ==
    /\ Free(d, "complete")
    /\ Row(d, m).stage = "active" /\ ~Row(d, m).done
    /\ Enqueue(d, NewMutation(d, "complete", m, Row(d, m).version),
               [row |-> [Row(d, m) EXCEPT !.done = TRUE], pending |-> TRUE])
    /\ UNCHANGED <<tomb, uiVars>>

UserStep(d) ==
    \/ \E m \in Missions : Create(d, m) \/ OpenEdit(d, m) \/ Delete(d, m) \/ Complete(d, m)
    \/ SaveEdit(d) \/ Undo(d) \/ EndUndo(d)

(***************************************************************************)
(* A sync run: push batches until the queue is empty or something is        *)
(* refused, pull pages until there are no more, then settle what was        *)
(* refused.  Any error ends the run.                                        *)
(***************************************************************************)
At(d, phase) == run[d].at = phase
Goto(d, phase) == run' = [run EXCEPT ![d].at = phase]
Batch(d) == ToSet(run[d].batch)
Settled(d) == {run[d].batch[i] : i \in 1 .. run[d].settled}
Flag(d, muts, inFlight) ==
    queue' = [queue EXCEPT ![d] = [i \in DOMAIN @ |->
                 IF @[i].mut \in muts THEN [@[i] EXCEPT !.inFlight = inFlight] ELSE @[i]]]

\* listPending, at the start of a run and after each batch.
List(d) ==
    LET batch == [i \in 1 .. Min({BatchSize, Len(queue[d])}) |-> queue[d][i].mut]
    IN  /\ At(d, "idle") \/ At(d, "listing")
        /\ run' = [run EXCEPT ![d] =
                      [NoRun EXCEPT !.at = IF batch = <<>> THEN "pulling" ELSE "marking",
                                    !.batch = batch]]
        /\ UNCHANGED <<storeVars, uiVars, issued, dropped>>

\* setQueuedMutationsInFlight, a transaction of its own.
Mark(d) ==
    /\ At(d, "marking")
    /\ Flag(d, Batch(d), TRUE)
    /\ Goto(d, "pushing")
    /\ UNCHANGED <<view, tomb, cursor, uiVars, issued, dropped>>

\* pushQueuedMutationsWithCompletions sends the batch one by one.
ToSend(d) == run[d].batch[run[d].settled + 1]
Send(d) ==
    /\ At(d, "pushing")
    /\ Goto(d, "waiting")
    /\ UNCHANGED <<storeVars, uiVars, issued, dropped>>

\* Mutant: a refusal because of a deletion is an error like any other.
ReceiveDeletedAsError(d, answer) ==
    /\ At(d, "waiting")
    /\ LET settled == run[d].settled + 1
       IN  run' = [run EXCEPT ![d] =
              IF answer \in {"error", "mission_deleted"} THEN [@ EXCEPT !.at = "failing"]
              ELSE IF answer # "accepted"
              THEN [@ EXCEPT !.at = "unmarking", !.settled = settled, !.conflict = answer]
              ELSE [@ EXCEPT !.at = IF settled = Len(run[d].batch) THEN "settling" ELSE "pushing",
                             !.settled = settled]]
    /\ UNCHANGED <<storeVars, uiVars, issued, dropped>>

\* The answer to one mutation.
Receive(d, answer) ==
    /\ At(d, "waiting")
    /\ LET settled == run[d].settled + 1
       IN  run' = [run EXCEPT ![d] =
              IF answer = "error" THEN [@ EXCEPT !.at = "failing"]
              ELSE IF answer # "accepted"
              THEN [@ EXCEPT !.at = "unmarking", !.settled = settled, !.conflict = answer]
              ELSE [@ EXCEPT !.at = IF settled = Len(run[d].batch) THEN "settling" ELSE "pushing",
                             !.settled = settled]]
    /\ UNCHANGED <<storeVars, uiVars, issued, dropped>>

\* No answer: the connection is lost, or the request timed out.
LoseAnswer(d) ==
    /\ At(d, "waiting")
    /\ Goto(d, "failing")
    /\ UNCHANGED <<storeVars, uiVars, issued, dropped>>

\* Mutant: a mutation that fails goes to the end of the queue.
FailToBack(d) ==
    /\ At(d, "failing")
    /\ queue' = [queue EXCEPT ![d] = IF @ = <<>> THEN @ ELSE Append(Tail(@), Head(@))]
    /\ run' = [run EXCEPT ![d] = NoRun]
    /\ UNCHANGED <<view, tomb, cursor, uiVars, issued, dropped>>

\* The push throws: the flags of the batch are cleared, the run ends.
Fail(d) ==
    /\ At(d, "failing")
    /\ Flag(d, Batch(d), FALSE)
    /\ run' = [run EXCEPT ![d] = NoRun]
    /\ UNCHANGED <<view, tomb, cursor, uiVars, issued, dropped>>

\* Mutant: the whole batch is deleted, not what was settled of it.
DropBatch(d, why) ==
    /\ queue' = [queue EXCEPT ![d] = Without(@, Batch(d))]
    /\ dropped' = [dropped EXCEPT ![d] = @ \cup why]

DropSettled(d, why) ==
    /\ queue' = [queue EXCEPT ![d] = Without(@, Settled(d))]
    /\ dropped' = [dropped EXCEPT ![d] = @ \cup why]

\* deleteQueuedMutations of an accepted batch.
Settle(d) ==
    /\ At(d, "settling")
    /\ DropSettled(d, {})
    /\ Goto(d, "listing")
    /\ UNCHANGED <<view, tomb, cursor, uiVars, issued>>

\* A refused mutation: the rest of the batch is not in flight any more, what
\* is settled stays queued until the pull is done.
Unmark(d) ==
    /\ At(d, "unmarking")
    /\ Flag(d, Batch(d) \ Settled(d), FALSE)
    /\ Goto(d, "pulling")
    /\ UNCHANGED <<view, tomb, cursor, uiVars, issued, dropped>>

\* The server reads a page for the device: changes up to here, and hasMore.
Pull(d, upto, more) ==
    /\ At(d, "pulling")
    /\ run' = [run EXCEPT ![d].at = "applying", ![d].upto = upto, ![d].more = more]
    /\ UNCHANGED <<storeVars, uiVars, issued, dropped>>

\* The pull fails: no answer, an expired session, a refused page.
FailPull(d) ==
    /\ At(d, "pulling")
    /\ run' = [run EXCEPT ![d] = NoRun]
    /\ UNCHANGED <<storeVars, uiVars, issued, dropped>>

\* The changes that are about m; the last of them counts.
About(changes, m) == {i \in DOMAIN changes : changes[i].by.mission = m}
Deletes(changes, m) == \E i \in DOMAIN changes :
    changes[i].by.mission = m /\ changes[i].by.op = "delete"

\* Mutant: a row with local work pending is not replaced.
ProjectedUnlessPending(d, changes) ==
    [m \in Missions |->
        IF Deletes(changes, m) THEN Cached(NoRow)
        ELSE IF About(changes, m) = {} \/ m \in tomb[d] \/ view[d][m].pending
        THEN view[d][m]
        ELSE Cached(changes[Max(About(changes, m))].row)]

\* applyMissionDeleteProjection, applyMissionProjection: a deletion removes
\* the row and leaves a tombstone; anything else replaces the row, whatever
\* it holds, unless there is a tombstone.  A deletion is a mission's last change.
Projected(d, changes) ==
    [m \in Missions |->
        IF Deletes(changes, m) THEN Cached(NoRow)
        ELSE IF About(changes, m) = {} \/ m \in tomb[d] THEN view[d][m]
        ELSE Cached(changes[Max(About(changes, m))].row)]

\* The page and the cursor, in one transaction.
Apply(d, changes) ==
    /\ At(d, "applying")
    /\ view' = [view EXCEPT ![d] = Projected(d, changes)]
    /\ tomb' = [tomb EXCEPT ![d] = @ \cup {m \in Missions : Deletes(changes, m)}]
    /\ cursor' = [cursor EXCEPT ![d] = run[d].upto]
    /\ run' = [run EXCEPT ![d] =
          IF @.more THEN [@ EXCEPT !.at = "pulling"]
          ELSE IF @.conflict = "none" THEN NoRun ELSE [@ EXCEPT !.at = "reconciling"]]
    /\ UNCHANGED <<queue, uiVars, issued, dropped>>

Refused(d) == run[d].batch[run[d].settled]

\* reconcileRejectedCompletion for a completion the server rejected: put the
\* row back, if it still is the one that was completed.
RestoredRow(d, m, before) == [view[d][m] EXCEPT !.row.done = FALSE, !.pending = before]
MustRestore(d, mut) ==
    /\ run[d].conflict = "mission_updated"
    /\ Row(d, mut.mission).stage # "absent"
    /\ Row(d, mut.mission).version <= mut.base
CanRestore(d, mut, before) ==
    /\ Row(d, mut.mission).version = mut.base
    /\ \/ view[d][mut.mission] = RestoredRow(d, mut.mission, before)
       \/ Row(d, mut.mission).done /\ view[d][mut.mission].pending

BeforeOf(d, mut) == \E i \in DOMAIN queue[d] : queue[d][i].mut = mut /\ queue[d][i].before

\* applyAuthenticatedConflicts; when it throws, the run ends and what was
\* settled stays queued.
Reconcile(d) ==
    LET mut == Refused(d)
        restores == MustRestore(d, mut)
    IN  /\ At(d, "reconciling")
        /\ IF restores /\ ~CanRestore(d, mut, BeforeOf(d, mut))
           THEN run' = [run EXCEPT ![d] = NoRun] /\ UNCHANGED view
           ELSE /\ Goto(d, "deferred")
                /\ IF restores
                   THEN view' = [view EXCEPT ![d][mut.mission] =
                                    RestoredRow(d, mut.mission, BeforeOf(d, mut))]
                   ELSE UNCHANGED view
        /\ UNCHANGED <<queue, tomb, cursor, uiVars, issued, dropped>>

\* deleteQueuedMutations of the refused mutation and those before it.
SettleRefused(d) ==
    /\ At(d, "deferred")
    /\ DropSettled(d, {[mut |-> Refused(d), why |-> run[d].conflict]})
    /\ run' = [run EXCEPT ![d] = NoRun]
    /\ UNCHANGED <<view, tomb, cursor, uiVars, issued>>

\* The app is killed: the run, the open edit and the undo bar are gone, the
\* store is not, in-flight flags included.
Crash(d) ==
    /\ run' = [run EXCEPT ![d] = NoRun]
    /\ draft' = [draft EXCEPT ![d] = Nothing]
    /\ undo' = [undo EXCEPT ![d] = Nothing]
    /\ UNCHANGED <<storeVars, issued, dropped>>
=============================================================================

----------------------------- MODULE MissionSync -----------------------------
(***************************************************************************)
(* Devices and server together: MissionDevice pushes its mutations one at a *)
(* time to MissionServer and pulls the change log.  A device that loses an  *)
(* answer leaves its handler running, so that what it sends again may meet  *)
(* the first request at the server.                                        *)
(*                                                                         *)
(* The change log is read in one step here: ChangeLog shows that a page is  *)
(* a piece of the log as it was, whatever commits meanwhile.               *)
(***************************************************************************)
EXTENDS MissionDevice

CONSTANTS
    Handlers,     \* requests the API serves at a time
    NoHandler,    \* the device is not waiting for any
    Rejections,   \* bound: do completions get rejected, BOOLEAN
    MaxFaults     \* bound: lost answers, aborts, failed pulls and crashes

ASSUME NoHandlerAssumption == NoHandler \notin Handlers
ASSUME RejectionsAssumption == Rejections \in BOOLEAN
ASSUME MaxFaultsAssumption == MaxFaults \in Nat

VARIABLES
    mission, recorded, keys, log, phase, request, answer,   \* MissionServer
    call,     \* call[d]: the handler device d waits for
    faults    \* faults so far

serverVars == <<mission, recorded, keys, log, phase, request, answer>>
vars == <<deviceVars, serverVars, call, faults>>

Server == INSTANCE MissionServer WITH Requests <- Mutation

Init ==
    /\ DeviceInit
    /\ mission = [m \in Missions |-> IF m \in Seeded THEN SeedRow(m) ELSE NoRow]
    /\ recorded = {SeedEntry(m).by : m \in Seeded}
    /\ keys = {}
    /\ log = [i \in 1 .. Cardinality(Seeded) |-> SeedEntry(SetToSeq(Seeded)[i])]
    /\ phase = [h \in Handlers |-> "free"]
    /\ request = [h \in Handlers |-> Server!NoMutation]
    /\ answer = [h \in Handlers |-> "error"]
    /\ call = [d \in Devices |-> NoHandler]
    /\ faults = 0

\* What a device does without the server.
Local(d) ==
    \/ List(d) \/ Mark(d) \/ Fail(d) \/ Settle(d) \/ Unmark(d) \/ Reconcile(d) \/ SettleRefused(d)

User(d) == UserStep(d) /\ UNCHANGED <<serverVars, call, faults>>

SendTo(d, h) ==
    /\ Send(d)
    /\ Server!Submit(h, ToSend(d))
    /\ call' = [call EXCEPT ![d] = h]
    /\ UNCHANGED faults

ReceiveFrom(d) ==
    /\ call[d] # NoHandler
    /\ phase[call[d]] = "answered"
    /\ Receive(d, answer[call[d]])
    /\ Server!Release(call[d])
    /\ call' = [call EXCEPT ![d] = NoHandler]
    /\ UNCHANGED faults

PullPage(d) ==
    /\ LET upto == Min({Len(log), cursor[d] + BatchSize})
       IN  Pull(d, upto, upto < Len(log))
    /\ UNCHANGED <<serverVars, call, faults>>

ApplyPage(d) ==
    /\ Apply(d, SubSeq(log, cursor[d] + 1, run[d].upto))
    /\ UNCHANGED <<serverVars, call, faults>>

Fault == faults < MaxFaults /\ faults' = faults + 1

\* The device gives up; the request does not go away.
GiveUp(d) ==
    /\ Fault
    /\ LoseAnswer(d)
    /\ call' = [call EXCEPT ![d] = NoHandler]
    /\ UNCHANGED serverVars

PullFails(d) == Fault /\ FailPull(d) /\ UNCHANGED <<serverVars, call>>

Crashes(d) ==
    /\ Fault
    /\ Crash(d)
    /\ call' = [call EXCEPT ![d] = NoHandler]
    /\ UNCHANGED serverVars

Waited(h) == \E d \in Devices : call[d] = h

\* Nobody reads the answer any more.
Abandon(h) == ~Waited(h) /\ Server!Release(h)

Handle(h) ==
    \/ Server!FindRecorded(h) \/ Server!CreateMission(h) \/ Server!UpdateMission(h)
    \/ Server!DeleteMission(h) \/ Server!RefuseDeleted(h) \/ Server!RefuseWithError(h)
    \/ Server!ReplayCompletion(h) \/ Server!CompleteMission(h) \/ Server!CompletedElsewhere(h)
    \/ Server!CompletionOfDeleted(h)
    \/ Rejections /\ Server!RejectCompletion(h)
    \/ Abandon(h)

HandlerStep(h) == Handle(h) /\ UNCHANGED <<deviceVars, call, faults>>

HandlerAborts(h) == Fault /\ Server!Abort(h) /\ UNCHANGED <<deviceVars, call>>

KeyExpires ==
    /\ Fault
    /\ \E k \in keys : Server!ExpireKey(k)
    /\ UNCHANGED <<deviceVars, call>>

SyncStep(d) ==
    \/ Local(d) /\ UNCHANGED <<serverVars, call, faults>>
    \/ \E h \in Handlers : SendTo(d, h)
    \/ ReceiveFrom(d) \/ PullPage(d) \/ ApplyPage(d)

Next ==
    \/ \E d \in Devices : User(d) \/ SyncStep(d) \/ GiveUp(d) \/ PullFails(d) \/ Crashes(d)
    \/ \E h \in Handlers : HandlerStep(h) \/ HandlerAborts(h)
    \/ KeyExpires

Spec == Init /\ [][Next]_vars

\* A device that is online syncs again and again (on foreground, after local
\* changes, when the network is back), an edit that was begun is saved, and the
\* API answers what it received and does not keep one device waiting for the
\* others for ever.  Users may stop at any time.
Fairness ==
    /\ \A d \in Devices :
          /\ WF_vars(SyncStep(d)) /\ WF_vars(SaveEdit(d) /\ User(d))
          /\ SF_vars(\E h \in Handlers : SendTo(d, h))
    /\ \A h \in Handlers : WF_vars(HandlerStep(h))
FairSpec == Spec /\ Fairness

(***************************************************************************)
(* Properties.                                                             *)
(***************************************************************************)
Phases == {"idle", "listing", "marking", "pushing", "waiting", "failing", "settling",
           "unmarking", "pulling", "applying", "reconciling", "deferred"}

\* The device store and the sync run have their shape, no cursor is beyond the
\* log, and a device waits for a handler exactly while a request is out.
TypeOK ==
    /\ \A d \in Devices :
          /\ \A i \in DOMAIN queue[d] : queue[d][i].mut \in Mutation
          /\ \A m \in Missions : Row(d, m) \in MissionRow /\ view[d][m].pending \in BOOLEAN
          /\ tomb[d] \subseteq Missions
          /\ cursor[d] \in 0 .. Len(log)
          /\ run[d].at \in Phases /\ run[d].settled \in 0 .. Len(run[d].batch)
          /\ call[d] \in Handlers \cup {NoHandler}
          /\ call[d] # NoHandler <=> At(d, "waiting")

Applied(mut) == \E i \in DOMAIN log : log[i].by = mut
InLog(op, m) == \E i \in DOMAIN log : log[i].by.op = op /\ log[i].by.mission = m

\* Nothing a user did disappears: a mutation stays queued until it is in the
\* account's log, until the user takes it back, or until the server refused it
\* because the mission was deleted, or already completed, or (a completion)
\* not to be completed then (technical-specification.md 14.1).
NothingIsLost ==
    \A d \in Devices : \A i \in DOMAIN issued[d] :
        LET mut == issued[d][i]
        IN  \/ mut \in Queued(d)
            \/ Applied(mut)
            \/ \E x \in dropped[d] :
                  /\ x.mut = mut
                  /\ \/ x.why = "undone"
                     \/ x.why = "mission_deleted" /\ InLog("delete", mut.mission)
                     \/ x.why = "completed_elsewhere" /\ InLog("complete", mut.mission)
                     \/ x.why = "mission_updated" /\ mut.op = "complete"

\* The account sees the changes of a device in the order they were made there,
\* across batches, failed runs, restarts and requests the device gave up on
\* (technical-specification.md 14.1, "Submit queued mutations in order").  A
\* completion that was rejected is out of the order: a first request for it
\* may still be served, later and with another outcome.
InOrder(d) == {mut \in ToSet(issued[d]) : \A x \in dropped[d] : x.mut # mut}
AppliedInOrder ==
    \A d \in Devices : \A i, j \in DOMAIN log :
        i < j /\ log[i].by \in InOrder(d) /\ log[j].by \in InOrder(d)
        => log[i].by.id[2] < log[j].by.id[2]

\* Once a device has pulled a deletion, the mission is gone there for good:
\* neither an edit that was open nor an undo brings it back
\* (technical-specification.md 15.2).
DeletionSticks ==
    \A d \in Devices, m \in Missions :
        (\E i \in 1 .. cursor[d] : log[i].by.op = "delete" /\ log[i].by.mission = m)
        => Row(d, m).stage = "absent" /\ m \in tomb[d]

\* A device with nothing queued, nothing open and all of the log behind it
\* shows what the server has: all of it, and with nothing left pending.
Quiet(d) ==
    /\ queue[d] = <<>> /\ draft[d] = Nothing /\ undo[d] = Nothing
    /\ At(d, "idle") /\ cursor[d] = Len(log)
Shows(d, m) ==
    view[d][m] = Cached(IF mission[m].stage = "deleted" THEN NoRow ELSE mission[m])
Converges == \A d \in Devices : Quiet(d) => \A m \in Missions : Shows(d, m)

\* Whatever is queued is settled some day, so that every device ends with an
\* empty queue at the end of the log.
Drained(d) == queue[d] = <<>> /\ cursor[d] = Len(log)
QueueDrains == \A d \in Devices : <>[]Drained(d)

\* What can keep a queue from draining is one of two things: an update that the
\* server cannot accept any more, or a rejected completion of a row that has
\* changed on the device since.  Lost answers, retries, expired keys, restarts,
\* deletions and completions elsewhere, and rejections as such, do not.
Blocked(d) ==
    LET entry == Head(queue[d])
        mut == entry.mut
    IN  /\ queue[d] # <<>>
        /\ \/ /\ mut.op = "update"
              /\ mission[mut.mission].done \/ mission[mut.mission].version # mut.base
           \/ /\ mut.op = "complete"
              /\ Row(d, mut.mission).version <= mut.base
              /\ ~CanRestore(d, mut, entry.before)
OnlyRefusalsBlock == \A d \in Devices : <>[](Drained(d) \/ Blocked(d))
=============================================================================

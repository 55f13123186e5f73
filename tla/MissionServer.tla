---------------------------- MODULE MissionServer ----------------------------
(***************************************************************************)
(* How the server accepts mission mutations: the push path of              *)
(* packages/database/src/sync-store.ts behind apps/api/src/sync-service.ts, *)
(* and the completion command of authoritative-completion.ts on top of     *)
(* executeIdempotentCommand (idempotency-outbox.ts).                       *)
(*                                                                         *)
(* A device sends one mutation per request, and the same mutation again    *)
(* when it got no answer, perhaps while the first request is still being   *)
(* served.  A push transaction first looks its mutation up                 *)
(* (existingMutationMatches: SELECT ... FOR UPDATE, which locks nothing     *)
(* when the row is missing), then locks the mission row until it commits:  *)
(* two steps here, and other requests may commit between them.  A          *)
(* completion is one step: its idempotency key is taken first and          *)
(* serialises equal requests, the mission row the others.                  *)
(*                                                                         *)
(* What a mission contains is the id of the mutation that wrote it.  The   *)
(* account change log is a sequence (AccountFeed; ChangeLog implements it).*)
(***************************************************************************)
EXTENDS Sequences, MissionTypes

CONSTANTS
    Handlers,   \* requests the API serves at a time
    Requests    \* the mutations devices may send

ASSUME RequestsAssumption == \A r \in Requests : r \in Mutation

NoMutation == [id |-> NoId]

Answer == {"accepted", "mission_deleted", "mission_updated", "completed_elsewhere", "error"}

VARIABLES
    mission,   \* mission[m]: the authoritative row
    recorded,  \* device_sync_mutations: the mutations applied by push
    keys,      \* idempotency_keys with their stored responses
    log,       \* account change log: [by: mutation, row: mission row after it]
    phase,     \* phase[h]: free, received, fresh (looked up, not found), answered
    request,   \* request[h]: the mutation h is serving
    answer     \* answer[h]: what it is going to answer

dbVars == <<mission, recorded, keys, log>>
vars == <<dbVars, phase, request, answer>>

Init ==
    /\ mission = [m \in Missions |-> NoRow]
    /\ recorded = {}
    /\ keys = {}
    /\ log = <<>>
    /\ phase = [h \in Handlers |-> "free"]
    /\ request = [h \in Handlers |-> NoMutation]
    /\ answer = [h \in Handlers |-> "error"]

Respond(h, a) ==
    /\ phase' = [phase EXCEPT ![h] = "answered"]
    /\ answer' = [answer EXCEPT ![h] = a]
    /\ UNCHANGED request

\* A request arrives.
Submit(h, mut) ==
    /\ phase[h] = "free"
    /\ phase' = [phase EXCEPT ![h] = "received"]
    /\ request' = [request EXCEPT ![h] = mut]
    /\ UNCHANGED <<dbVars, answer>>

\* Its answer has been read, or nobody waits for it any more.
Release(h) ==
    /\ phase[h] = "answered"
    /\ phase' = [phase EXCEPT ![h] = "free"]
    /\ request' = [request EXCEPT ![h] = NoMutation]
    /\ UNCHANGED <<dbVars, answer>>

\* assertExecutableMutationShape: a create has no base version, an update and
\* a deletion have one.
Shaped(mut) == mut.op = "create" <=> mut.base = 0

Recorded(mut) == \E r \in recorded : r.id = mut.id

\* Mutants: a mutation that is sent again is refused; an id that is known is
\* accepted without comparing the mutation.
FindRecordedRefusing(h) ==
    /\ phase[h] = "received" /\ request[h].op # "complete" /\ Shaped(request[h])
    /\ IF Recorded(request[h])
       THEN Respond(h, "error")
       ELSE phase' = [phase EXCEPT ![h] = "fresh"] /\ UNCHANGED <<request, answer>>
    /\ UNCHANGED dbVars

FindRecordedById(h) ==
    /\ phase[h] = "received" /\ request[h].op # "complete" /\ Shaped(request[h])
    /\ IF Recorded(request[h])
       THEN Respond(h, "accepted")
       ELSE phase' = [phase EXCEPT ![h] = "fresh"] /\ UNCHANGED <<request, answer>>
    /\ UNCHANGED dbVars

\* existingMutationMatches: the same mutation again is accepted again, another
\* mutation under its id is a conflict.
FindRecorded(h) ==
    LET mut == request[h]
    IN  /\ phase[h] = "received" /\ mut.op # "complete" /\ Shaped(mut)
        /\ IF Recorded(mut)
           THEN Respond(h, IF mut \in recorded THEN "accepted" ELSE "error")
           ELSE /\ phase' = [phase EXCEPT ![h] = "fresh"]
                /\ UNCHANGED <<request, answer>>
        /\ UNCHANGED dbVars

\* The end of a push transaction that changes its mission: the row, the
\* device_sync_mutations row (its primary key is taken by nobody) and the
\* change log entry commit together.
Accept(h, row) ==
    LET mut == request[h]
    IN  /\ ~Recorded(mut)
        /\ mission' = [mission EXCEPT ![mut.mission] = row]
        /\ recorded' = recorded \cup {mut}
        /\ log' = Append(log, [by |-> mut, row |-> row])
        /\ Respond(h, "accepted")
        /\ UNCHANGED keys

Applying(h, op) == phase[h] = "fresh" /\ request[h].op = op
Current(h) == mission[request[h].mission]

\* applyMissionCreateMutation: INSERT.
CreateMission(h) ==
    /\ Applying(h, "create")
    /\ Current(h).stage = "absent"
    /\ Accept(h, [stage |-> "active", done |-> FALSE, version |-> 1,
                  content |-> request[h].id])

\* Mutants: the base version is not compared; a finished mission is updated.
UpdateAnyVersion(h) ==
    /\ Applying(h, "update")
    /\ Current(h).stage = "active" /\ ~Current(h).done
    /\ Accept(h, [Current(h) EXCEPT !.version = @ + 1, !.content = request[h].id])

UpdateFinished(h) ==
    /\ Applying(h, "update")
    /\ Current(h).stage = "active"
    /\ Current(h).version = request[h].base
    /\ Accept(h, [Current(h) EXCEPT !.version = @ + 1, !.content = request[h].id])

\* applyMissionUpdateMutation: only on the version it was made against, only
\* while the mission is not finished.
UpdateMission(h) ==
    /\ Applying(h, "update")
    /\ Current(h).stage = "active" /\ ~Current(h).done
    /\ Current(h).version = request[h].base
    /\ Accept(h, [Current(h) EXCEPT !.version = @ + 1, !.content = request[h].id])

\* applyMissionDeleteMutation: whatever version the device knew.
DeleteMission(h) ==
    /\ Applying(h, "delete")
    /\ Current(h).stage = "active"
    /\ Accept(h, [Current(h) EXCEPT !.stage = "deleted", !.version = @ + 1])

\* "Mission occurrence is permanently deleted": a conflict outcome, no error.
RefuseDeleted(h) ==
    /\ Applying(h, "update") \/ Applying(h, "delete")
    /\ Current(h).stage = "deleted"
    /\ Respond(h, "mission_deleted")
    /\ UNCHANGED dbVars

\* Everything else the transaction throws: the mutation has not its shape, the
\* mission is there already or not at all, the base version is not the current
\* one, the mission is done, the mutation was recorded since it was looked up.
RefuseWithError(h) ==
    /\ \/ phase[h] = "received" /\ request[h].op # "complete" /\ ~Shaped(request[h])
       \/ Applying(h, "create") /\ Current(h).stage # "absent"
       \/ Applying(h, "delete") /\ Current(h).stage = "absent"
       \/ Applying(h, "update") /\ Current(h).stage = "absent"
       \/ /\ Applying(h, "update") /\ Current(h).stage = "active"
          /\ Current(h).done \/ Current(h).version # request[h].base
       \/ phase[h] = "fresh" /\ Recorded(request[h]) /\ Current(h).stage = "active"
    /\ Respond(h, "error")
    /\ UNCHANGED dbVars

(***************************************************************************)
(* completeMissionAuthoritatively.                                         *)
(***************************************************************************)
Completing(h) == phase[h] = "received" /\ request[h].op = "complete"
KeyTaken(mut) == \E k \in keys : k.by.id = mut.id

\* A key with a response: the same request gets the same response again.
ReplayCompletion(h) ==
    /\ Completing(h) /\ KeyTaken(request[h])
    /\ \/ \E k \in keys : k.by = request[h] /\ Respond(h, k.response)
       \/ (\A k \in keys : k.by # request[h]) /\ Respond(h, "error")
    /\ UNCHANGED dbVars

StoreKey(mut, response) == keys' = keys \cup {[by |-> mut, response |-> response]}

\* Mutants: only the idempotency key keeps a mission from being completed
\* again; the change log gets the version from before the update.
CompleteAgain(h) ==
    LET mut == request[h]
        row == [Current(h) EXCEPT !.done = TRUE, !.version = @ + 1]
    IN  /\ Completing(h) /\ ~KeyTaken(mut)
        /\ Current(h).stage = "active"
        /\ mission' = [mission EXCEPT ![mut.mission] = row]
        /\ log' = Append(log, [by |-> mut, row |-> row])
        /\ StoreKey(mut, "accepted")
        /\ Respond(h, "accepted")
        /\ UNCHANGED recorded

CompleteWithOldVersion(h) ==
    LET mut == request[h]
        row == [Current(h) EXCEPT !.done = TRUE, !.version = @ + 1]
    IN  /\ Completing(h) /\ ~KeyTaken(mut)
        /\ Current(h).stage = "active" /\ ~Current(h).done
        /\ mission' = [mission EXCEPT ![mut.mission] = row]
        /\ log' = Append(log, [by |-> mut, row |-> [row EXCEPT !.version = @ - 1]])
        /\ StoreKey(mut, "accepted")
        /\ Respond(h, "accepted")
        /\ UNCHANGED recorded

\* The first completion of the mission.
CompleteMission(h) ==
    LET mut == request[h]
        row == [Current(h) EXCEPT !.done = TRUE, !.version = @ + 1]
    IN  /\ Completing(h) /\ ~KeyTaken(mut)
        /\ Current(h).stage = "active" /\ ~Current(h).done
        /\ mission' = [mission EXCEPT ![mut.mission] = row]
        /\ log' = Append(log, [by |-> mut, row |-> row])
        /\ StoreKey(mut, "accepted")
        /\ Respond(h, "accepted")
        /\ UNCHANGED recorded

\* findStoredCompletion: somebody was first; that answer is stored as well.
CompletedElsewhere(h) ==
    /\ Completing(h) /\ ~KeyTaken(request[h])
    /\ Current(h).stage = "active" /\ Current(h).done
    /\ StoreKey(request[h], "completed_elsewhere")
    /\ Respond(h, "completed_elsewhere")
    /\ UNCHANGED <<mission, recorded, log>>

\* lockOccurrence: not found or deleted.
CompletionOfDeleted(h) ==
    /\ Completing(h) /\ ~KeyTaken(request[h])
    /\ Current(h).stage # "active"
    /\ Respond(h, "mission_deleted")
    /\ UNCHANGED dbVars

\* Not started, expired, cancelled, or a mode that is not allowed: depends on
\* the schedule, the clock and the evidence attempts, none of them modelled.
RejectCompletion(h) ==
    /\ Completing(h) /\ ~KeyTaken(request[h])
    /\ Current(h).stage = "active"
    /\ Respond(h, "mission_updated")
    /\ UNCHANGED dbVars

\* A failed statement, a lost connection, a full pool: ROLLBACK and a 5xx.
Abort(h) ==
    /\ phase[h] \in {"received", "fresh"}
    /\ Respond(h, "error")
    /\ UNCHANGED dbVars

\* A key expires 24 hours after the command; the next use deletes it.
ExpireKey(k) ==
    /\ k \in keys
    /\ keys' = keys \ {k}
    /\ UNCHANGED <<mission, recorded, log, phase, request, answer>>

Serve(h) ==
    \/ FindRecorded(h)
    \/ CreateMission(h)
    \/ UpdateMission(h)
    \/ DeleteMission(h)
    \/ RefuseDeleted(h)
    \/ RefuseWithError(h)
    \/ ReplayCompletion(h)
    \/ CompleteMission(h)
    \/ CompletedElsewhere(h)
    \/ CompletionOfDeleted(h)
    \/ RejectCompletion(h)

Next ==
    \/ \E h \in Handlers, mut \in Requests : Submit(h, mut)
    \/ \E h \in Handlers : Serve(h) \/ Abort(h) \/ Release(h)
    \/ \E k \in keys : ExpireKey(k)

Spec == Init /\ [][Next]_vars

(***************************************************************************)
(* Properties.                                                             *)
(***************************************************************************)

\* The rows, the recorded mutations, the keys, the log and the requests have
\* the shape the tables and the API give them.
TypeOK ==
    /\ mission \in [Missions -> MissionRow]
    /\ recorded \subseteq Mutation
    /\ \A k \in keys : k.by \in Mutation /\ k.response \in {"accepted", "completed_elsewhere"}
    /\ \A i \in DOMAIN log : log[i].by \in Mutation /\ log[i].row \in MissionRow
    /\ phase \in [Handlers -> {"free", "received", "fresh", "answered"}]
    /\ \A h \in Handlers : request[h] = NoMutation \/ request[h] \in Mutation
    /\ answer \in [Handlers -> Answer]

Ledger == INSTANCE MissionLedger

\* What the devices are told is what the server has: the row of a mission is
\* the one its last change log entry carries (sync-store.ts:2284-2292,
\* authoritative-completion.ts:479-485 append in the transaction of the UPDATE).
LogIsAuthoritative == \A m \in Missions : mission[m] = Ledger!RowOf(m)

\* A mutation takes effect at most once, however often it is sent, whether the
\* retries overlap and whether its idempotency key is still there.
AppliedOnce == \A i, j \in DOMAIN log : log[i].by = log[j].by => i = j

\* No update overwrites a change its author had not seen: the entry of the
\* mission before it has the version the update was made against
\* (sync-store.ts:1912).
NoLostUpdate ==
    \A i, j \in DOMAIN log :
        /\ i < j /\ log[i].by.mission = log[j].by.mission
        /\ \A k \in i + 1 .. j - 1 : log[k].by.mission # log[j].by.mission
        => /\ log[j].row.version = log[i].row.version + 1
           /\ log[j].by.op = "update" => log[j].by.base = log[i].row.version

InLog(op, m) == \E i \in DOMAIN log : log[i].by.op = op /\ log[i].by.mission = m

\* An answer tells the device the truth about its mutation: "accepted" only
\* for one that is in the log, and a device that is told it was overtaken is
\* told so of a mission that was deleted or completed (sync-service.ts:103-114,
\* completion-routes.ts:42-55, authenticated-sync-api.ts:218-245).
AnswersAreTrue ==
    [][\A h \in Handlers : phase[h] # "answered" /\ phase'[h] = "answered" =>
          LET mut == request[h]
          IN  /\ answer'[h] = "accepted" => \E i \in DOMAIN log' : log'[i].by = mut
              /\ answer'[h] = "completed_elsewhere" => InLog("complete", mut.mission)
              /\ answer'[h] = "mission_deleted" =>
                    InLog("delete", mut.mission) \/ ~InLog("create", mut.mission)]_vars

\* The server implements the ledger: each entry is legal after the ones before
\* it and nothing is taken back.
LedgerSpec == Ledger!Spec
=============================================================================

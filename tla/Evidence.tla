------------------------------ MODULE Evidence ------------------------------
(***************************************************************************)
(* Evidence for one mission: the attempts that phones reserve and upload    *)
(* (apps/api/src/evidence-attempt.ts, apps/mobile/src/evidence), the outbox *)
(* event each upload leaves (packages/database/src/idempotency-outbox.ts),  *)
(* the verification of an event (apps/api/src/evidence-verification.ts) and *)
(* the completion it grants (apps/api/src/authoritative-completion.ts).     *)
(*                                                                         *)
(* Nothing in the repository calls claimOutboxEvents: the loop that claims, *)
(* processes and completes an event is the contract of those functions.     *)
(* An attempt has the identity of its asset.                                *)
(***************************************************************************)
EXTENDS MediaAssets

CONSTANTS
    Verifiers,      \* outbox workers
    User,           \* the user who deletes media
    AttemptLimit,   \* attempts of a mission: 3 in the code
    ClaimLimit,     \* maxAttempts of the outbox: 5 in the code
    MaxMishaps      \* bound: lost answers, deaths, refusals and expiries

ASSUME DeletersAssumption == Deleters = Verifiers \cup {User} /\ User \notin Verifiers
ASSUME UserAssumption == User \notin Assets
ASSUME LimitsAssumption == {AttemptLimit, ClaimLimit} \subseteq Nat \ {0}

VARIABLES
    attempt,    \* attempt[a]: evidence_attempts
    mission,    \* completed, deleted, evidence_state, and what completed it
    answer,     \* answer[a]: stored answer under evidence-verification:<a>
    event,      \* event[a]: the outbox event of the attempt
    verifier,   \* verifier[w]: an outbox worker between its steps
    phone,      \* phone[a]: the queued submission on its phone
    mishaps,    \* mishaps so far (the bound)
    lapsed      \* attempts whose stored answer expired (not in code)

evidenceVars == <<mediaVars, attempt, mission, answer, event, verifier, phone, mishaps, lapsed>>
phoneOnly == <<attempt, mission, answer, event, verifier, lapsed>>

NoAttempt == [number |-> 0, uploaded |-> FALSE, verdict |-> "none", loser |-> FALSE]
NoUploadEvent == [at |-> "none", by |-> NoAsset, stale |-> FALSE, tries |-> 0]
Resting == [at |-> "idle", of |-> NoAsset, loses |-> FALSE]

EvidenceInit ==
    /\ MediaInit
    /\ attempt = [a \in Assets |-> NoAttempt]
    /\ mission = [done |-> FALSE, gone |-> FALSE, evidence |-> "not_submitted", by |-> NoAsset]
    /\ answer = [a \in Assets |-> "none"]
    /\ event = [a \in Assets |-> NoUploadEvent]
    /\ verifier = [w \in Verifiers |-> Resting]
    /\ phone = [a \in Assets |-> "queued"]
    /\ mishaps = 0 /\ lapsed = {}

Mishap == mishaps < MaxMishaps /\ mishaps' = mishaps + 1
Attempts == {a \in Assets : attempt[a].number # 0}
Judged(a) == attempt[a].verdict \in {"accepted", "rejected"}

(***************************************************************************)
(* The phone: processPending takes a queued submission through reserve,     *)
(* upload and result, from the start each time.                             *)
(***************************************************************************)
\* A submission of listPending, as the queue parses it.
Pending(a) == phone[a] = "queued"

\* lockOccurrence and assertNewAttemptAllowed; the window is open.
NewAttemptAllowed ==
    ~mission.done /\ Cardinality(Attempts) < AttemptLimit

\* authorizeReservation: the attempt is there, and its photo may be uploaded.
AuthorizeReservation(a) == a \in Attempts /\ AuthorizeUpload(a) /\ UNCHANGED attempt

\* reserve: one transaction under the lock of the mission, where a known id is
\* answered with what is stored; then authorizeReservation, refused when the
\* asset of a known id is being deleted.  The token is good for five minutes.
Reserve(a) ==
    /\ Pending(a) /\ ~mission.gone
    /\ \/ AuthorizeReservation(a)
       \/ /\ a \notin Attempts /\ NewAttemptAllowed
          /\ attempt' = [attempt EXCEPT ![a] = [NoAttempt EXCEPT
                            !.number = Cardinality(Attempts) + 1, !.verdict = "pending"]]
          /\ asset' = [asset EXCEPT ![a] = "active"]
          /\ UNCHANGED <<damaged, due, blob, upload, deletion, sweep, late>>
    /\ phone' = [phone EXCEPT ![a] = "token"]
    /\ UNCHANGED <<mission, answer, event, verifier, mishaps, lapsed>>

\* already_completed is the one refusal that ends a submission: files discarded.
ReserveTooLate(a) ==
    /\ Pending(a) /\ a \notin Attempts /\ mission.done /\ ~mission.gone
    /\ phone' = [phone EXCEPT ![a] = "discarded"]
    /\ UNCHANGED <<mediaVars, phoneOnly, mishaps>>

\* upload: the handler's first step.
StartUpload(a) ==
    /\ phone[a] = "token" /\ UploadSelect(a)
    /\ phone' = [phone EXCEPT ![a] = "sending"]
    /\ UNCHANGED <<phoneOnly, mishaps>>

Put(a) == UploadPut(a) /\ UNCHANGED <<phoneOnly, phone, mishaps>>

\* handleMediaUploaded: the attempt is uploaded, and queued with its event
\* the first time.
HandleMediaUploaded(a) ==
    LET first == attempt[a].verdict = "pending"
    IN  /\ UploadEnds(a)
        /\ attempt' = [attempt EXCEPT ![a].uploaded = TRUE,
                                      ![a].verdict = IF first THEN "queued" ELSE @]
        /\ event' = [event EXCEPT ![a].at = IF first THEN "ready" ELSE @]
        /\ phone' = [phone EXCEPT ![a] = IF @ = "sending" THEN "sent" ELSE @]
        /\ UNCHANGED <<mission, answer, verifier, mishaps, lapsed>>

\* getResult: a verdict settles the submission; a loser's files are discarded.
TakeResult(a) ==
    /\ phone[a] = "sent" /\ Judged(a)
    /\ phone' = [phone EXCEPT ![a] = IF attempt[a].loser THEN "discarded" ELSE "settled"]
    /\ UNCHANGED <<mediaVars, phoneOnly, mishaps>>

\* There is no verdict yet, an answer is lost or unreadable, the token expires
\* or the app is closed: the submission stays queued for the next run, and the
\* server goes on with what it began.
StartOver(a) ==
    /\ phone[a] \in {"token", "sending", "sent"} /\ Mishap
    /\ phone' = [phone EXCEPT ![a] = "queued"]
    /\ UNCHANGED <<mediaVars, phoneOnly>>

UploadFails(a) ==
    /\ UploadDies(a) /\ Mishap
    /\ phone' = [phone EXCEPT ![a] = IF @ = "sending" THEN "queued" ELSE @]
    /\ UNCHANGED phoneOnly

(***************************************************************************)
(* A verification worker.                                                  *)
(***************************************************************************)
Doing(w, step) == verifier[w].at = step
GoOn(w, step) == verifier' = [verifier EXCEPT ![w].at = step]
serverOnly == <<attempt, mission, answer, event>>
aside == <<phone, mishaps, lapsed>>

Claimable(a) == event[a].at = "ready" \/ (event[a].at = "claimed" /\ event[a].stale)

UsedUp(a) == event[a].tries >= ClaimLimit

\* Mutant: a verdict that is there ends the work.
FirstStepJudgedIsDone(verdict) == IF verdict = "queued" THEN "ask" ELSE "finish"

\* processOutboxEvent reads the attempt.  It does not read the status, so a
\* marked loser is granted and marked once more.
FirstStep(verdict) ==
    CASE verdict = "accepted" -> "grant" [] verdict = "rejected" -> "finish" [] OTHER -> "ask"

\* claimOutboxEvents: an event whose attempts are used up is dead-lettered,
\* one that is free or whose claim is five minutes old is claimed.
Claim(w, a) ==
    /\ verifier[w] = Resting /\ Claimable(a)
    /\ IF UsedUp(a)
       THEN event' = [event EXCEPT ![a].at = "dead", ![a].by = NoAsset] /\ UNCHANGED verifier
       ELSE /\ event' = [event EXCEPT ![a] = [at |-> "claimed", by |-> w, stale |-> FALSE,
                                              tries |-> @.tries + 1]]
            /\ verifier' = [verifier EXCEPT
                  ![w] = [at |-> FirstStep(attempt[a].verdict), of |-> a, loses |-> TRUE]]
    /\ UNCHANGED <<mediaVars, attempt, mission, answer, aside>>

\* The gateway fails or its output does not parse.
AskFails(w) ==
    /\ Doing(w, "ask") /\ Mishap /\ GoOn(w, "fail")
    /\ UNCHANGED <<mediaVars, serverOnly, phone, lapsed>>

\* evidence_state after a verdict, accepted before pending before rejected.
EvidenceState(verdicts) ==
    CASE "accepted" \in verdicts -> "accepted"
      [] verdicts \cap {"pending", "queued"} # {} -> "pending"
      [] OTHER -> "rejected"

\* The model has answered.  The verdict is written if the attempt is queued
\* still, and the mission follows while it is incomplete; otherwise what
\* another worker wrote stands.
WriteVerdict(w) ==
    LET a == verifier[w].of
        mine == attempt[a].verdict = "queued"
    IN  /\ Doing(w, "ask")
        /\ \E verdict \in IF mine THEN {"accepted", "rejected"} ELSE {attempt[a].verdict} :
              LET judged == [attempt EXCEPT ![a].verdict = verdict]
              IN  /\ attempt' = judged
                  /\ mission' = IF mine /\ ~mission.done
                                THEN [mission EXCEPT !.evidence =
                                        EvidenceState({judged[b].verdict : b \in Attempts})]
                                ELSE mission
                  /\ verifier' = [verifier EXCEPT
                        ![w].at = IF verdict = "accepted" THEN "grant" ELSE "finish",
                        ![w].loses = mine]
        /\ UNCHANGED <<mediaVars, answer, event, aside>>

\* Mutant: the key is not found again.
StoredAnswerLost(a) == "none"

\* executeIdempotentCommand: what the key answers, "none" when it is new.
StoredAnswer(a) == answer[a]

CompletedBy(who, evidence) == [mission EXCEPT !.done = TRUE, !.evidence = evidence, !.by = who]

\* ensureAcceptedCompletion: completeMissionAuthoritatively under the key of
\* the attempt, whose stored answer is repeated while it lasts.
GrantCompletion(w) ==
    LET a == verifier[w].of
        said == IF StoredAnswer(a) # "none" THEN StoredAnswer(a)
                ELSE IF mission.done THEN "already_completed" ELSE "completed"
    IN  /\ Doing(w, "grant")
        /\ IF StoredAnswer(a) = "none" /\ mission.gone
           THEN GoOn(w, "fail") /\ UNCHANGED <<answer, mission>>
           ELSE /\ answer' = [answer EXCEPT ![a] = said]
                /\ mission' = IF StoredAnswer(a) = "none" /\ ~mission.done
                              THEN CompletedBy(a, "accepted") ELSE mission
                /\ GoOn(w, IF said = "already_completed" /\ verifier[w].loses
                         THEN "lose" ELSE "finish")
        /\ UNCHANGED <<mediaVars, attempt, event, aside>>

\* markDuplicateLoser, then deleteMediaAsset.
MarkLoser(w) ==
    /\ Doing(w, "lose") /\ GoOn(w, "discard")
    /\ attempt' = [attempt EXCEPT ![verifier[w].of].loser = TRUE]
    /\ UNCHANGED <<mediaVars, mission, answer, event, aside>>

DiscardLoser(w) ==
    /\ Doing(w, "discard") /\ DeleteMark(w, verifier[w].of)
    /\ GoOn(w, IF deletion'[w] = NoDeletion THEN "finish" ELSE "discarding")
    /\ UNCHANGED <<serverOnly, aside>>

DiscardBlobs(w) == DeleteBlobs(w) /\ UNCHANGED <<serverOnly, verifier, aside>>

DiscardRow(w) ==
    /\ Doing(w, "discarding") /\ DeleteRow(w) /\ GoOn(w, "finish")
    /\ UNCHANGED <<serverOnly, aside>>

DiscardFails(w) ==
    /\ Doing(w, "discarding") /\ Mishap /\ DeleteDies(w) /\ GoOn(w, "fail")
    /\ UNCHANGED <<serverOnly, phone, lapsed>>

\* completeOutboxEvent and failOutboxEvent act for the claim's owner only.
Owns(w) == event[verifier[w].of].by = w /\ event[verifier[w].of].at = "claimed"
Settle(w, outcome) ==
    /\ event' = IF Owns(w)
                THEN [event EXCEPT ![verifier[w].of].at = outcome, ![verifier[w].of].by = NoAsset]
                ELSE event
    /\ verifier' = [verifier EXCEPT ![w] = Resting]

Finish(w) ==
    /\ Doing(w, "finish") /\ Settle(w, "done")
    /\ UNCHANGED <<mediaVars, attempt, mission, answer, aside>>

Fail(w) ==
    /\ Doing(w, "fail")
    /\ Settle(w, IF UsedUp(verifier[w].of) THEN "dead" ELSE "ready")
    /\ UNCHANGED <<mediaVars, attempt, mission, answer, aside>>

\* A worker dies; its lease runs out before anything else can happen to it.
WorkerDies(w) ==
    /\ verifier[w] # Resting /\ Mishap
    /\ event' = IF Owns(w) THEN [event EXCEPT ![verifier[w].of].stale = TRUE] ELSE event
    /\ verifier' = [verifier EXCEPT ![w] = Resting]
    /\ IF deletion[w] = NoDeletion THEN UNCHANGED mediaVars ELSE DeleteDies(w)
    /\ UNCHANGED <<attempt, mission, answer, phone, lapsed>>

LeaseExpires(a) ==
    /\ event[a].at = "claimed" /\ ~event[a].stale /\ Mishap
    /\ event' = [event EXCEPT ![a].stale = TRUE]
    /\ UNCHANGED <<mediaVars, attempt, mission, answer, verifier, phone, lapsed>>

\* Twenty-four hours after its completion was answered.
AnswerExpires(a) ==
    /\ answer[a] # "none" /\ Mishap
    /\ answer' = [answer EXCEPT ![a] = "none"]
    /\ lapsed' = lapsed \cup {a}
    /\ UNCHANGED <<mediaVars, attempt, mission, event, verifier, phone>>

(***************************************************************************)
(* The user, on any device, and the deadlines.                              *)
(***************************************************************************)
\* assertCompletionModeAllowed: what may be completed without a verdict.
ModeAllowed(mode) ==
    CASE mode = "private" -> mission.evidence = "not_submitted" /\ Attempts = {}
      [] mode = "trust_mode" -> /\ mission.evidence \notin {"pending", "accepted"}
                                /\ \A a \in Attempts : Judged(a)
      [] mode = "self_confirmed" -> /\ mission.evidence = "rejected"
                                    /\ \E a \in Attempts :
                                          /\ attempt[a].verdict = "rejected"
                                          /\ attempt[a].number = Cardinality(Attempts)

CompleteByWord(mode) ==
    /\ ~mission.done /\ ~mission.gone /\ ModeAllowed(mode)
    /\ mission' = CompletedBy(User, IF mode = "self_confirmed" THEN "rejected" ELSE "not_required")
    /\ UNCHANGED <<mediaVars, attempt, answer, event, verifier, aside>>

LoseMission ==
    /\ ~mission.gone
    /\ mission' = [mission EXCEPT !.gone = TRUE]
    /\ UNCHANGED <<mediaVars, attempt, answer, event, verifier, aside>>

\* deleteMedia: once there is a verdict.
DeleteMedia(a) == Judged(a) /\ DeleteMark(User, a) /\ UNCHANGED <<phoneOnly, phone, mishaps>>
DeleteMediaGoesOn ==
    /\ DeleteBlobs(User) \/ DeleteRow(User)
    /\ UNCHANGED <<phoneOnly, phone, mishaps>>
DeleteMediaFails == DeleteDies(User) /\ Mishap /\ UNCHANGED <<phoneOnly, phone>>

MediaIsDue(a) == DeadlinePasses(a) /\ Mishap /\ UNCHANGED <<phoneOnly, phone>>
Sweep ==
    /\ (\E a \in Assets : SweepLock(a)) \/ SweepDelete \/ SweepCommit
    /\ UNCHANGED <<phoneOnly, phone, mishaps>>
SweepGivesUp == (SweepFails \/ SweepAborts) /\ Mishap /\ UNCHANGED <<phoneOnly, phone>>

PhoneNext(a) ==
    \/ Reserve(a) \/ ReserveTooLate(a) \/ StartUpload(a) \/ Put(a)
    \/ HandleMediaUploaded(a) \/ TakeResult(a) \/ StartOver(a) \/ UploadFails(a)

WorkerNext(w) ==
    \/ \E a \in Assets : Claim(w, a)
    \/ AskFails(w) \/ WriteVerdict(w) \/ GrantCompletion(w)
    \/ MarkLoser(w) \/ DiscardLoser(w) \/ DiscardBlobs(w) \/ DiscardRow(w) \/ DiscardFails(w)
    \/ Finish(w) \/ Fail(w) \/ WorkerDies(w)

EvidenceNext ==
    \/ \E a \in Assets : PhoneNext(a) \/ LeaseExpires(a) \/ AnswerExpires(a)
                          \/ DeleteMedia(a) \/ MediaIsDue(a)
    \/ \E w \in Verifiers : WorkerNext(w)
    \/ \E mode \in {"private", "trust_mode", "self_confirmed"} : CompleteByWord(mode)
    \/ LoseMission \/ DeleteMediaGoesOn \/ DeleteMediaFails \/ Sweep \/ SweepGivesUp

EvidenceSpec == EvidenceInit /\ [][EvidenceNext]_evidenceVars

(***************************************************************************)
(* Properties.                                                             *)
(***************************************************************************)
\* Every attempt, event and asset is in one of its stages.
EvidenceTypeOK ==
    /\ asset \in [Assets -> {"none", "active", "deleting", "deleted"}]
    /\ {damaged, blob, due, late, lapsed} \subseteq SUBSET Assets
    /\ upload \in [Assets -> {"idle", "put", "committed"}]
    /\ attempt \in [Assets -> [number : 0 .. AttemptLimit, uploaded : BOOLEAN, loser : BOOLEAN,
                     verdict : {"none", "pending", "queued", "accepted", "rejected"}]]
    /\ event \in [Assets -> [at : {"none", "ready", "claimed", "done", "dead"}, stale : BOOLEAN,
                   by : Verifiers \cup {NoAsset}, tries : 0 .. ClaimLimit]]
    /\ phone \in [Assets -> {"queued", "token", "sending", "sent", "settled", "discarded"}]

\* An event that is done has had its effect: an accepted verdict has
\* completed the mission, whoever died or was overtaken on the way
\* (evidence-verification.ts:196-333).
ProcessedIsGranted ==
    \A a \in Assets : event[a].at = "done" =>
        /\ Judged(a)
        /\ attempt[a].verdict = "accepted" => mission.done

\* The attempt that completed the mission is not taken for a duplicate of
\* itself, however often its event is delivered and its photo sent, as long as
\* the stored answer is kept: neither by the server (evidence-verification.ts:
\* 172-188), nor by its phone, which throws a photo away only when the mission
\* was completed without it (evidence-offline-queue.ts:177-183).
WinnerIsNotLoser ==
    \A a \in Assets \ lapsed :
        /\ mission.by = a => ~attempt[a].loser
        /\ phone[a] = "discarded" => mission.done /\ mission.by # a

\* What a Story may show, listStorySources, can be read: its blob is there
\* unless the cleanup job had to do with it (evidence-attempt.ts:274-324).
StorySources == {a \in Assets : attempt[a].uploaded /\ asset[a] = "active"}
SourcesAreReadable == StorySources \subseteq blob \cup due

\* Nothing of a deleted asset stays in the store but what an upload wrote
\* after the deletion had begun (protected-media.ts:660-797,
\* product-media-cleanup.ts:148).
DeletedIsGone == \A a \in blob : asset[a] = "deleted" => a \in late
=============================================================================

---------------------------- MODULE EvidenceProofs ----------------------------
(***************************************************************************)
(* Proofs about Evidence and the media below it, for any number of photos,  *)
(* workers, attempts, deliveries and mishaps: what is processed is granted, *)
(* the photo that completed the mission is not taken for a duplicate, what a *)
(* Story may show is there, and nothing of a deleted photo stays.           *)
(* And about GoogleSync, for any number of events, missions and runs: the   *)
(* cursor passes no change, links lead to missions, and what was dismissed  *)
(* stays away.                                                             *)
(***************************************************************************)
EXTENDS Evidence, GoogleSync, FiniteSetTheorems, TLAPS

Attempt == [number : 0 .. AttemptLimit, uploaded : BOOLEAN, loser : BOOLEAN,
            verdict : {"none", "pending", "queued", "accepted", "rejected"}]
UploadEvent == [at : {"none", "ready", "claimed", "done", "dead"}, stale : BOOLEAN,
                by : Verifiers \cup {NoAsset}, tries : 0 .. ClaimLimit]
Steps == {"idle", "ask", "grant", "lose", "discard", "discarding", "finish", "fail"}
Work == [at : Steps, of : Assets \cup {NoAsset}, loses : BOOLEAN]
Verdicts == {"not_submitted", "not_required", "pending", "accepted", "rejected"}
MissionState == [done : BOOLEAN, gone : BOOLEAN, evidence : Verdicts,
                 by : Assets \cup {User, NoAsset}]
Deleting == [at : {"idle", "blobs", "row"}, of : Assets \cup {NoAsset}]

(***************************************************************************)
(* Photos.                                                                 *)
(***************************************************************************)
MediaTypes ==
    /\ asset \in [Assets -> {"none", "active", "deleting", "deleted"}]
    /\ upload \in [Assets -> {"idle", "put", "committed"}]
    /\ deletion \in [Deleters -> Deleting]
    /\ sweep \in [of : Assets \cup {NoAsset}, wiped : BOOLEAN]
    /\ {damaged, blob, due, late} \subseteq SUBSET Assets

\* While a photo is deleted its row is marked, and what the store has of it
\* after the call is what an upload wrote late.
DeletionOK(x) ==
    deletion[x].at # "idle" =>
        /\ deletion[x].of \in Assets /\ asset[deletion[x].of] \in {"deleting", "deleted"}
        /\ deletion[x].at = "row" /\ deletion[x].of \in blob => deletion[x].of \in late

\* So while the cleanup job has it locked; one that is not marked is due.
SweepOK ==
    IF sweep.of = NoAsset THEN ~sweep.wiped
    ELSE /\ asset[sweep.of] \in {"active", "deleting"}
         /\ asset[sweep.of] = "active" => sweep.of \in due
         /\ sweep.wiped /\ sweep.of \in blob => sweep.of \in late

\* A photo has a row as long as it has an attempt, and is stored before its
\* upload is reported.
PhotoOK(a) ==
    /\ asset[a] = "none" <=> attempt[a].number = 0
    /\ asset[a] = "none" => upload[a] = "idle" /\ ~attempt[a].uploaded
    /\ asset[a] = "active" /\ (upload[a] = "committed" \/ attempt[a].uploaded)
          => a \in blob \cup due
    /\ asset[a] = "deleted" /\ a \in blob => a \in late

PhotosInv ==
    /\ MediaTypes
    /\ \A x \in Deleters : DeletionOK(x)
    /\ SweepOK
    /\ \A a \in Assets : PhotoOK(a)

(***************************************************************************)
(* Attempts.                                                               *)
(***************************************************************************)
WorkTypes ==
    /\ attempt \in [Assets -> Attempt] /\ IsFiniteSet(Attempts)
    /\ mission \in MissionState
    /\ answer \in [Assets -> {"none", "completed", "already_completed"}]
    /\ event \in [Assets -> UploadEvent]
    /\ verifier \in [Verifiers -> Work]
    /\ phone \in [Assets -> {"queued", "token", "sending", "sent", "settled", "discarded"}]
    /\ lapsed \subseteq Assets

\* What is judged, and granted if it was accepted, may be finished.
Granted(a) == Judged(a) /\ (attempt[a].verdict = "accepted" => mission.done)

\* An event is of an attempt that is uploaded; one that is done was judged,
\* and granted if it was accepted.
AttemptOK(a) ==
    /\ attempt[a].number = 0 <=> attempt[a].verdict = "none"
    /\ event[a].at # "none" => attempt[a].verdict \in {"queued", "accepted", "rejected"}
    /\ event[a].at = "done" => Granted(a)
    /\ answer[a] # "none" => attempt[a].verdict = "accepted" /\ mission.done
    /\ mission.by = a => mission.done /\ attempt[a].verdict = "accepted"
    /\ attempt[a].loser => mission.done
    /\ phone[a] = "discarded" => mission.done

\* The attempt that completed the mission was told so, and no other.
WinnerOK(a) ==
    a \notin lapsed =>
        /\ mission.by = a => answer[a] = "completed" /\ ~attempt[a].loser
        /\ phone[a] = "discarded" \/ answer[a] = "already_completed" => mission.by # a

\* A worker grants what was accepted, and discards what was accepted too late.
WorkOK(v) ==
    v.at # "idle" =>
        /\ v.of \in Assets
        /\ v.at # "fail" => attempt[v.of].verdict \in {"queued", "accepted", "rejected"}
        /\ v.at = "grant" => attempt[v.of].verdict = "accepted"
        /\ v.at \in {"lose", "discard", "discarding"} =>
              attempt[v.of].verdict = "accepted" /\ mission.done
        /\ v.at = "lose" => v.of \in lapsed \/ mission.by # v.of
        /\ v.at = "finish" => Granted(v.of)

WorkInv ==
    /\ WorkTypes
    /\ \A a \in Assets : AttemptOK(a) /\ WinnerOK(a)
    /\ \A w \in Verifiers : WorkOK(verifier[w])

\* The inductive invariant.
EvidenceInv == PhotosInv /\ WorkInv

(***************************************************************************)
(* The steps of MediaAssets.                                               *)
(***************************************************************************)
\* What the invariant needs of the attempts stays.
SameAttempts ==
    \A a \in Assets : attempt'[a].number = attempt[a].number
                      /\ attempt'[a].uploaded = attempt[a].uploaded

\* An upload: what it stores while the photo is deleted is late.
LEMMA UploadsKeep ==
    ASSUME PhotosInv, SameAttempts, NEW a \in Assets,
           UploadSelect(a) \/ UploadPut(a) \/ UploadDies(a)
    PROVE  PhotosInv'
<1> USE DEF PhotosInv, MediaTypes, SameAttempts
<1>1. CASE UploadSelect(a) \/ UploadDies(a)
  <2>1. PICK at \in {"idle", "put"} : upload' = [upload EXCEPT ![a] = at]
    BY <1>1 DEF UploadSelect, UploadDies
  <2>2. /\ UNCHANGED <<damaged, asset, due, blob, deletion, sweep, late>>
        /\ asset[a] # "none"
    BY <1>1 DEF UploadSelect, UploadDies, PhotoOK
  <2>3. /\ upload' \in [Assets -> {"idle", "put", "committed"}]
        /\ \A b \in Assets : upload'[b] = IF b = a THEN at ELSE upload[b]
    BY <2>1
  <2>4. \A b \in Assets : PhotoOK(b)'
    BY <2>2, <2>3 DEF PhotoOK
  <2>5. SweepOK' /\ \A x \in Deleters : DeletionOK(x)'
    BY <2>2 DEF SweepOK, DeletionOK
  <2> QED
    BY <2>2, <2>3, <2>4, <2>5
<1>2. CASE UploadPut(a)
  <2>1. /\ upload[a] = "put" /\ blob' = blob \cup {a}
        /\ upload' = [upload EXCEPT ![a] = "committed"]
        /\ late \subseteq late' /\ late' \subseteq late \cup {a}
        /\ (asset[a] = "active" /\ sweep.of # a) \/ a \in late'
        /\ UNCHANGED <<damaged, asset, due, deletion, sweep>>
    BY <1>2 DEF UploadPut
  <2>2. /\ upload' \in [Assets -> {"idle", "put", "committed"}]
        /\ \A b \in Assets : upload'[b] = IF b = a THEN "committed" ELSE upload[b]
    BY <2>1
  <2>3. \A b \in Assets : PhotoOK(b)'
    BY <2>1, <2>2 DEF PhotoOK
  <2>4. SweepOK'
    BY <2>1 DEF SweepOK
  <2>5. \A x \in Deleters : DeletionOK(x)'
    BY <2>1 DEF DeletionOK
  <2> QED
    BY <2>1, <2>2, <2>3, <2>4, <2>5
<1> QED
  BY <1>1, <1>2

\* deleteAsset: the row is marked before the store is called.
LEMMA DeletionsKeep ==
    ASSUME PhotosInv, SameAttempts, NEW x \in Deleters,
           (\E a \in Assets : DeleteMark(x, a)) \/ DeleteBlobs(x) \/ DeleteRow(x) \/ DeleteDies(x)
    PROVE  PhotosInv'
<1> USE DEF PhotosInv, MediaTypes, SameAttempts
<1>1. PICK c \in Deleting : c = deletion[x]
  OBVIOUS
<1>2. c.at # "idle" => /\ c.of \in Assets /\ asset[c.of] \in {"deleting", "deleted"}
                       /\ c.at = "row" /\ c.of \in blob => c.of \in late
  BY <1>1 DEF DeletionOK
<1>3. NoDeletion \in Deleting /\ NoDeletion.at = "idle"
  BY DEF NoDeletion, Deleting
<1>4. CASE \E a \in Assets : DeleteMark(x, a) /\ asset[a] # "deleted"
  <2>1. PICK a \in Assets : DeleteMark(x, a) /\ asset[a] # "deleted"
    BY <1>4
  <2>2. /\ asset[a] \in {"active", "deleting"} /\ sweep.of # a
        /\ asset' = [asset EXCEPT ![a] = "deleting"]
        /\ deletion' = [deletion EXCEPT ![x] = [at |-> "blobs", of |-> a]]
        /\ UNCHANGED <<damaged, due, blob, upload, sweep, late>>
    BY <2>1 DEF DeleteMark
  <2>3. PICK e \in Deleting : e = [at |-> "blobs", of |-> a]
    BY DEF Deleting
  <2>4. /\ deletion' \in [Deleters -> Deleting] /\ e.at = "blobs" /\ e.of = a
        /\ \A y \in Deleters : deletion'[y] = IF y = x THEN e ELSE deletion[y]
    BY <2>2, <2>3
  <2>5. /\ asset' \in [Assets -> {"none", "active", "deleting", "deleted"}]
        /\ \A b \in Assets : asset'[b] = IF b = a THEN "deleting" ELSE asset[b]
    BY <2>2
  <2>6. \A b \in Assets : PhotoOK(b)'
    BY <2>2, <2>5 DEF PhotoOK
  <2>7. SweepOK'
    BY <2>2, <2>5 DEF SweepOK
  <2>8. \A y \in Deleters : DeletionOK(y)'
    BY <2>2, <2>4, <2>5 DEF DeletionOK
  <2> QED
    BY <2>2, <2>4, <2>5, <2>6, <2>7, <2>8
<1>5. CASE DeleteBlobs(x)
  <2>1. /\ c.at = "blobs" /\ blob' = blob \ {c.of}
        /\ deletion' = [deletion EXCEPT ![x] = [c EXCEPT !.at = "row"]]
        /\ UNCHANGED <<damaged, asset, due, upload, sweep, late>>
    BY <1>1, <1>5 DEF DeleteBlobs, Wipe
  <2>2. PICK e \in Deleting : e = [c EXCEPT !.at = "row"]
    BY DEF Deleting
  <2>3. e.at = "row" /\ e.of = c.of
    BY <2>2 DEF Deleting
  <2>4. /\ deletion' \in [Deleters -> Deleting]
        /\ \A y \in Deleters : deletion'[y] = IF y = x THEN e ELSE deletion[y]
    BY <2>1, <2>2
  <2>5. \A b \in Assets : PhotoOK(b)'
    BY <1>2, <2>1 DEF PhotoOK
  <2>6. SweepOK'
    BY <2>1 DEF SweepOK
  <2>7. \A y \in Deleters : DeletionOK(y)'
    BY <1>2, <2>1, <2>3, <2>4 DEF DeletionOK
  <2> QED
    BY <2>1, <2>4, <2>5, <2>6, <2>7
<1>6. CASE \/ DeleteRow(x) \/ DeleteDies(x)
           \/ \E a \in Assets : DeleteMark(x, a) /\ asset[a] = "deleted"
  <2>1. /\ UNCHANGED <<damaged, due, blob, upload, sweep, late>>
        /\ deletion' = [deletion EXCEPT ![x] = NoDeletion] \/ deletion' = deletion
        /\ \/ asset' = asset
           \/ /\ c.at = "row" /\ sweep.of # c.of
              /\ asset' = [asset EXCEPT ![c.of] = IF @ = "deleting" THEN "deleted" ELSE @]
    BY <1>1, <1>6 DEF DeleteRow, DeleteDies, DeleteMark
  <2>2. /\ deletion' \in [Deleters -> Deleting]
        /\ \A y \in Deleters : deletion'[y] = deletion[y] \/ deletion'[y].at = "idle"
    BY <1>3, <2>1
  <2>3. /\ asset' \in [Assets -> {"none", "active", "deleting", "deleted"}]
        /\ \A b \in Assets : \/ asset'[b] = asset[b]
                             \/ /\ b = c.of /\ c.at = "row" /\ asset[b] = "deleting"
                                /\ asset'[b] = "deleted" /\ sweep.of # b
    BY <1>2, <2>1
  <2>4. \A b \in Assets : PhotoOK(b)'
    BY <1>2, <2>1, <2>3 DEF PhotoOK
  <2>5. SweepOK'
    BY <2>1, <2>3 DEF SweepOK
  <2>6. \A y \in Deleters : DeletionOK(y)'
    BY <2>1, <2>2, <2>3 DEF DeletionOK
  <2> QED
    BY <2>1, <2>2, <2>3, <2>4, <2>5, <2>6
<1> QED
  BY <1>4, <1>5, <1>6

\* The cleanup job, and the deadline it waits for.
LEMMA SweepsKeep ==
    ASSUME PhotosInv, SameAttempts,
           \/ \E a \in Assets : DeadlinePasses(a) \/ SweepLock(a)
           \/ SweepDelete \/ SweepCommit \/ SweepFails \/ SweepAborts
    PROVE  PhotosInv'
<1> USE DEF PhotosInv, MediaTypes, SameAttempts
<1>1. PICK s \in [of : Assets \cup {NoAsset}, wiped : BOOLEAN] : s = sweep
  OBVIOUS
<1>2. s # NoSweep => s.of \in Assets /\ s.of # NoAsset
  BY <1>1, NoAssetAssumption DEF SweepOK, NoSweep
<1>3. s.wiped => s # NoSweep
  BY DEF NoSweep
<1>4. s # NoSweep => /\ asset[s.of] \in {"active", "deleting"}
                     /\ asset[s.of] = "active" => s.of \in due
                     /\ s.wiped /\ s.of \in blob => s.of \in late
  BY <1>1, <1>2 DEF SweepOK
<1>5. /\ NoSweep \in [of : Assets \cup {NoAsset}, wiped : BOOLEAN]
      /\ NoSweep.of = NoAsset /\ ~NoSweep.wiped
  BY DEF NoSweep
<1>6. CASE \E a \in Assets : DeadlinePasses(a)
  <2>1. PICK a \in Assets : due' = due \cup {a}
    BY <1>6 DEF DeadlinePasses
  <2>2. UNCHANGED <<damaged, asset, blob, upload, deletion, sweep, late>>
    BY <1>6 DEF DeadlinePasses
  <2>3. \A b \in Assets : PhotoOK(b)'
    BY <2>1, <2>2 DEF PhotoOK
  <2>4. SweepOK' /\ \A x \in Deleters : DeletionOK(x)'
    BY <2>1, <2>2 DEF SweepOK, DeletionOK
  <2> QED
    BY <2>1, <2>2, <2>3, <2>4
<1>7. CASE \E a \in Assets : SweepLock(a)
  <2>1. PICK a \in Assets : SweepLock(a)
    BY <1>7
  <2>2. /\ asset[a] \in {"active", "deleting"} /\ (asset[a] = "active" => a \in due)
        /\ sweep' = [NoSweep EXCEPT !.of = a]
        /\ UNCHANGED <<damaged, asset, due, blob, upload, deletion, late>>
    BY <2>1 DEF SweepLock, IsEligibleForCleanup
  <2>3. sweep' = [of |-> a, wiped |-> FALSE]
    BY <2>2 DEF NoSweep
  <2>4. /\ sweep' \in [of : Assets \cup {NoAsset}, wiped : BOOLEAN]
        /\ sweep'.of = a /\ ~sweep'.wiped
    BY <2>3
  <2>5. \A b \in Assets : PhotoOK(b)'
    BY <2>2 DEF PhotoOK
  <2>6. SweepOK' /\ \A x \in Deleters : DeletionOK(x)'
    BY <2>2, <2>4 DEF SweepOK, DeletionOK
  <2> QED
    BY <2>2, <2>4, <2>5, <2>6
<1>8. CASE SweepDelete
  <2>1. /\ s # NoSweep /\ blob' = blob \ {s.of} /\ sweep' = [s EXCEPT !.wiped = TRUE]
        /\ UNCHANGED <<damaged, asset, due, upload, deletion, late>>
    BY <1>1, <1>8 DEF SweepDelete, Wipe
  <2>2. /\ sweep' \in [of : Assets \cup {NoAsset}, wiped : BOOLEAN] /\ sweep'.of = s.of
    BY <2>1
  <2>3. \A b \in Assets : PhotoOK(b)'
    BY <1>4, <2>1 DEF PhotoOK
  <2>4. SweepOK'
    BY <1>2, <1>4, <2>1, <2>2 DEF SweepOK
  <2>5. \A x \in Deleters : DeletionOK(x)'
    BY <2>1 DEF DeletionOK
  <2> QED
    BY <2>1, <2>2, <2>3, <2>4, <2>5
<1>9. CASE SweepCommit \/ SweepFails \/ SweepAborts
  <2>1. /\ s # NoSweep /\ sweep' = NoSweep
        /\ UNCHANGED <<damaged, due, blob, upload, deletion, late>>
        /\ \/ asset' = asset
           \/ s.wiped /\ asset' = [asset EXCEPT ![s.of] = "deleted"]
           \/ asset' = [asset EXCEPT ![s.of] = "deleting"]
    BY <1>1, <1>3, <1>9 DEF SweepCommit, SweepFails, SweepAborts
  <2>2. /\ asset' \in [Assets -> {"none", "active", "deleting", "deleted"}]
        /\ \A b \in Assets : \/ asset'[b] = asset[b]
                             \/ b = s.of /\ s.wiped /\ asset'[b] = "deleted"
                             \/ b = s.of /\ asset'[b] = "deleting"
    BY <1>2, <2>1
  <2>3. \A b \in Assets : PhotoOK(b)'
    BY <1>4, <2>1, <2>2 DEF PhotoOK
  <2>4. SweepOK'
    BY <1>5, <2>1 DEF SweepOK
  <2>5. \A x \in Deleters : DeletionOK(x)'
    BY <2>1, <2>2 DEF DeletionOK
  <2> QED
    BY <1>5, <2>1, <2>2, <2>3, <2>4, <2>5
<1> QED
  BY <1>6, <1>7, <1>8, <1>9

\* Nothing moves.
LEMMA PhotosStill ==
    ASSUME PhotosInv, SameAttempts, UNCHANGED mediaVars
    PROVE  PhotosInv'
<1>1. UNCHANGED <<damaged, asset, due, blob, upload, deletion, sweep, late>>
  BY DEF mediaVars
<1>2. \A a \in Assets : PhotoOK(a)'
  BY <1>1 DEF PhotosInv, PhotoOK, SameAttempts
<1>3. SweepOK' /\ MediaTypes'
  BY <1>1 DEF PhotosInv, SweepOK, MediaTypes
<1>4. \A x \in Deleters : DeletionOK(x)'
  BY <1>1 DEF PhotosInv, DeletionOK
<1> QED
  BY <1>2, <1>3, <1>4 DEF PhotosInv

(***************************************************************************)
(* The phone, the events and the workers.                                  *)
(***************************************************************************)
\* A phone that moves discards a photo only if the mission was completed
\* without it.
LEMMA PhoneMoves ==
    ASSUME WorkInv, UNCHANGED phoneOnly,
           phone' \in [Assets -> {"queued", "token", "sending", "sent", "settled", "discarded"}],
           \A a \in Assets : phone'[a] = "discarded" =>
               \/ phone[a] = "discarded"
               \/ mission.done /\ (a \notin lapsed => mission.by # a)
    PROVE  WorkInv'
<1>1. UNCHANGED <<attempt, mission, answer, event, verifier, lapsed>>
  BY DEF phoneOnly
<1>2. WorkTypes'
  BY <1>1 DEF WorkInv, WorkTypes, Attempts
<1>3. \A a \in Assets : AttemptOK(a)' /\ WinnerOK(a)'
  BY <1>1 DEF WorkInv, AttemptOK, WinnerOK, Granted, Judged
<1>4. ASSUME NEW w \in Verifiers
      PROVE  WorkOK(verifier[w])'
  BY <1>1 DEF WorkInv, WorkOK, Granted, Judged
<1> QED
  BY <1>2, <1>3, <1>4 DEF WorkInv

\* Nothing moves but the photos.
LEMMA StillWorks ==
    ASSUME WorkInv, UNCHANGED phoneOnly, UNCHANGED phone
    PROVE  WorkInv'
<1>1. phone' \in [Assets -> {"queued", "token", "sending", "sent", "settled", "discarded"}]
  BY DEF WorkInv, WorkTypes
<1> QED
  BY <1>1, PhoneMoves

\* A worker that moves on with an event, which was uploaded and is done only
\* if it is granted.
LEMMA WorkerMoves ==
    ASSUME WorkInv, UNCHANGED <<attempt, mission, answer, phone, lapsed>>,
           event' \in [Assets -> UploadEvent],
           \A a \in Assets : event'[a].at # "none" => event[a].at # "none",
           \A a \in Assets : event'[a].at = "done" => event[a].at = "done" \/ Granted(a),
           NEW w, NEW v \in Work,
           \/ verifier' = verifier
           \/ w \in Verifiers /\ verifier' = [verifier EXCEPT ![w] = v] /\ WorkOK(v)
    PROVE  WorkInv'
<1>1. /\ verifier' \in [Verifiers -> Work]
      /\ \A u \in Verifiers : verifier'[u] = verifier[u] \/ (verifier'[u] = v /\ WorkOK(v))
  BY DEF WorkInv, WorkTypes
<1>2. WorkTypes'
  BY <1>1 DEF WorkInv, WorkTypes, Attempts
<1>3. \A a \in Assets : AttemptOK(a)' /\ WinnerOK(a)'
  BY DEF WorkInv, AttemptOK, WinnerOK, Granted, Judged
<1>4. \A u : WorkOK(u) => WorkOK(u)'
  BY DEF WorkOK, Granted, Judged
<1>5. ASSUME NEW u \in Verifiers
      PROVE  WorkOK(verifier[u])'
  <2>1. PICK x : x = verifier'[u]
    OBVIOUS
  <2>2. WorkOK(x)'
    BY <1>1, <1>4, <2>1 DEF WorkInv
  <2> QED
    BY <2>1, <2>2 DEF WorkOK
<1> QED
  BY <1>2, <1>3, <1>5 DEF WorkInv

\* What is known of a worker.
LEMMA WorkOf ==
    ASSUME WorkInv, NEW w \in Verifiers
    PROVE  \E v \in Work : v = verifier[w] /\ WorkOK(v) /\ v.at \in Steps
                           /\ \A at \in Steps : /\ [v EXCEPT !.at = at] \in Work
                                                /\ [v EXCEPT !.at = at].at = at
                                                /\ [v EXCEPT !.at = at].of = v.of
<1>1. PICK v \in Work : v = verifier[w]
  BY DEF WorkInv, WorkTypes
<1>2. WorkOK(v)
  BY <1>1 DEF WorkInv
<1>3. \A at \in Steps : [v EXCEPT !.at = at] \in Work /\ [v EXCEPT !.at = at].at = at
                        /\ [v EXCEPT !.at = at].of = v.of
  BY DEF Work
<1> QED
  BY <1>1, <1>2, <1>3 DEF Work

\* A worker that only goes on.
LEMMA GoingOnKeeps ==
    ASSUME WorkInv, UNCHANGED <<attempt, mission, answer, event, phone, lapsed>>,
           NEW w \in Verifiers, NEW at \in Steps, GoOn(w, at), verifier[w].at # "idle",
           \/ at = "fail"
           \/ verifier[w].at \in {"discard", "discarding"} /\ at \in {"finish", "discarding"}
    PROVE  WorkInv'
<1>1. PICK v \in Work : /\ v = verifier[w] /\ WorkOK(v) /\ v.at \in Steps
                        /\ \A x \in Steps : /\ [v EXCEPT !.at = x] \in Work
                                            /\ [v EXCEPT !.at = x].at = x
                                            /\ [v EXCEPT !.at = x].of = v.of
  BY WorkOf
<1>2. PICK u \in Work : u = [v EXCEPT !.at = at] /\ u.at = at /\ u.of = v.of
  BY <1>1
<1>3. verifier' = [verifier EXCEPT ![w] = u]
  BY <1>1, <1>2 DEF GoOn
<1>4. WorkOK(u)
  BY <1>1, <1>2 DEF WorkOK, Granted, Judged
<1> QED
  BY <1>2, <1>3, <1>4, WorkerMoves DEF WorkInv, WorkTypes

\* An event that is settled for its owner.
LEMMA SettleKeeps ==
    ASSUME WorkInv, UNCHANGED <<attempt, mission, answer, phone, lapsed>>,
           NEW w \in Verifiers, NEW outcome \in {"done", "dead", "ready"}, Settle(w, outcome),
           verifier[w].at # "idle", outcome = "done" => verifier[w].at = "finish"
    PROVE  WorkInv'
<1>1. PICK v \in Work : v = verifier[w] /\ WorkOK(v)
  BY WorkOf
<1>2. Resting \in Work /\ WorkOK(Resting)
  BY DEF Resting, Work, Steps, WorkOK
<1>3. verifier' = [verifier EXCEPT ![w] = Resting]
  BY DEF Settle
<1>4. v.of \in Assets /\ (outcome = "done" => Granted(v.of))
  BY <1>1 DEF WorkOK
<1>5. PICK e \in UploadEvent : e = event[v.of]
  BY <1>4 DEF WorkInv, WorkTypes
<1>6. PICK f : f = [[e EXCEPT !.at = outcome] EXCEPT !.by = NoAsset]
  OBVIOUS
<1>7. f \in UploadEvent /\ f.at = outcome
  BY <1>6 DEF UploadEvent
<1>8. event' = event \/ (event' = [event EXCEPT ![v.of] = f] /\ e.at = "claimed")
  BY <1>1, <1>5, <1>6 DEF Settle, Owns
<1>9. /\ event' \in [Assets -> UploadEvent]
      /\ \A a \in Assets : event'[a].at # "none" => event[a].at # "none"
      /\ \A a \in Assets : event'[a].at = "done" => event[a].at = "done" \/ Granted(a)
  BY <1>4, <1>5, <1>7, <1>8 DEF WorkInv, WorkTypes
<1> QED
  BY <1>2, <1>3, <1>9, WorkerMoves

LEMMA FinishKeeps ==
    ASSUME WorkInv, NEW w \in Verifiers, Finish(w)
    PROVE  WorkInv'
<1>1. /\ Settle(w, "done") /\ verifier[w].at = "finish"
      /\ UNCHANGED <<attempt, mission, answer, phone, lapsed>>
  BY DEF Finish, Doing, aside
<1> QED
  BY <1>1, SettleKeeps

LEMMA FailKeeps ==
    ASSUME WorkInv, NEW w \in Verifiers, Fail(w)
    PROVE  WorkInv'
<1>1. /\ verifier[w].at = "fail"
      /\ UNCHANGED <<attempt, mission, answer, phone, lapsed>>
  BY DEF Fail, Doing, aside
<1>2. PICK outcome \in {"dead", "ready"} : Settle(w, outcome)
  BY Zenon DEF Fail
<1> QED
  BY <1>1, <1>2, SettleKeeps

\* A claim: the attempt was uploaded, and is granted again if it was accepted.
LEMMA ClaimKeeps ==
    ASSUME WorkInv, NEW w \in Verifiers, NEW a \in Assets, Claim(w, a)
    PROVE  WorkInv'
<1>1. UNCHANGED <<attempt, mission, answer, phone, lapsed>>
  BY DEF Claim, aside
<1>2. PICK e \in UploadEvent : e = event[a]
  BY DEF WorkInv, WorkTypes
<1>3. e.at \in {"ready", "claimed"}
  BY <1>2 DEF Claim, Claimable
<1>4. PICK s \in {"queued", "accepted", "rejected"} : s = attempt[a].verdict
  BY <1>2, <1>3 DEF WorkInv, AttemptOK
<1>5. CASE UsedUp(a)
  <2>1. PICK f : f = [[e EXCEPT !.at = "dead"] EXCEPT !.by = NoAsset]
    OBVIOUS
  <2>2. f \in UploadEvent /\ f.at = "dead"
    BY <2>1 DEF UploadEvent
  <2>3. event' = [event EXCEPT ![a] = f] /\ verifier' = verifier
    BY <1>2, <1>5, <2>1 DEF Claim
  <2>4. /\ event' \in [Assets -> UploadEvent]
        /\ \A b \in Assets : event'[b].at # "none" => event[b].at # "none"
        /\ \A b \in Assets : event'[b].at = "done" => event[b].at = "done" \/ Granted(b)
    BY <1>2, <1>3, <2>2, <2>3 DEF WorkInv, WorkTypes
  <2>5. Resting \in Work
    BY DEF Resting, Work, Steps
  <2> QED
    BY <1>1, <2>3, <2>4, <2>5, WorkerMoves
<1>6. CASE ~UsedUp(a)
  <2>1. e.tries \in Nat /\ e.tries < ClaimLimit /\ e.tries + 1 \in 0 .. ClaimLimit
    BY <1>2, <1>6, LimitsAssumption DEF UsedUp, UploadEvent
  <2>2. PICK f : f = [at |-> "claimed", by |-> w, stale |-> FALSE, tries |-> e.tries + 1]
    OBVIOUS
  <2>3. f \in UploadEvent /\ f.at = "claimed"
    BY <2>1, <2>2 DEF UploadEvent
  <2>4. event' = [event EXCEPT ![a] = f]
    BY <1>2, <1>6, <2>2 DEF Claim
  <2>5. PICK at \in {"grant", "finish", "ask"} : at = FirstStep(s)
    BY DEF FirstStep
  <2>6. (at = "grant" => s = "accepted") /\ (at = "finish" => s = "rejected")
    BY <2>5 DEF FirstStep
  <2>7. PICK v \in Work : v = [at |-> at, of |-> a, loses |-> TRUE]
    BY DEF Work, Steps
  <2>8. v.at = at /\ v.of = a
    BY <2>7
  <2>9. verifier' = [verifier EXCEPT ![w] = v]
    BY <1>4, <1>6, <2>5, <2>7 DEF Claim
  <2>10. WorkOK(v)
    BY <1>4, <2>6, <2>8 DEF WorkOK, Granted, Judged
  <2>11. /\ event' \in [Assets -> UploadEvent]
         /\ \A b \in Assets : event'[b].at # "none" => event[b].at # "none"
         /\ \A b \in Assets : event'[b].at = "done" => event[b].at = "done" \/ Granted(b)
    BY <1>2, <1>3, <2>3, <2>4 DEF WorkInv, WorkTypes
  <2> QED
    BY <1>1, <2>9, <2>10, <2>11, WorkerMoves
<1> QED
  BY <1>5, <1>6

\* A lease that runs out, of a worker that lives or has died.
LEMMA LeasesKeep ==
    ASSUME WorkInv, NEW w, NEW a, (w \in Verifiers /\ WorkerDies(w)) \/ LeaseExpires(a)
    PROVE  WorkInv'
<1>1. UNCHANGED <<attempt, mission, answer, phone, lapsed>>
  BY DEF WorkerDies, LeaseExpires
<1>2. Resting \in Work /\ WorkOK(Resting)
  BY DEF Resting, Work, Steps, WorkOK
<1>3. verifier' = verifier \/ (w \in Verifiers /\ verifier' = [verifier EXCEPT ![w] = Resting])
  BY DEF WorkerDies, LeaseExpires
<1>4. event' = event \/ \E b : event' = [event EXCEPT ![b].stale = TRUE]
  BY DEF WorkerDies, LeaseExpires
<1>5. /\ event' \in [Assets -> UploadEvent]
      /\ \A b \in Assets : event'[b].at = event[b].at
  <2>1. CASE event' = event
    BY <2>1 DEF WorkInv, WorkTypes
  <2>2. ASSUME NEW c, event' = [event EXCEPT ![c].stale = TRUE]
        PROVE  <1>5
    <3>1. event \in [Assets -> UploadEvent]
      BY DEF WorkInv, WorkTypes
    <3>2. event' = [b \in Assets |-> IF b = c THEN [event[c] EXCEPT !.stale = TRUE] ELSE event[b]]
      BY <2>2, <3>1
    <3>3. ASSUME NEW b \in Assets
          PROVE  event'[b] \in UploadEvent /\ event'[b].at = event[b].at
      <4>1. PICK e \in UploadEvent : e = event[b]
        BY <3>1
      <4>2. PICK f : f = [e EXCEPT !.stale = TRUE]
        OBVIOUS
      <4>3. f \in UploadEvent /\ f.at = e.at
        BY <4>2 DEF UploadEvent
      <4>4. event'[b] = f \/ event'[b] = e
        BY <3>2, <4>1, <4>2
      <4> QED
        BY <4>1, <4>3, <4>4
    <3> QED
      BY <3>2, <3>3
  <2> QED
    BY <1>4, <2>1, <2>2
<1> QED
  BY <1>1, <1>2, <1>3, <1>5, WorkerMoves

\* A worker that fails, goes on with a deletion, or waits for the store.
LEMMA DiscardsKeep ==
    ASSUME WorkInv, NEW w \in Verifiers,
           AskFails(w) \/ DiscardLoser(w) \/ DiscardBlobs(w) \/ DiscardRow(w) \/ DiscardFails(w)
    PROVE  WorkInv'
<1>1. UNCHANGED <<attempt, mission, answer, event, phone, lapsed>>
  BY DEF AskFails, DiscardLoser, DiscardBlobs, DiscardRow, DiscardFails, serverOnly, aside
<1>2. CASE DiscardBlobs(w)
  <2>1. UNCHANGED phoneOnly /\ UNCHANGED phone
    BY <1>1, <1>2 DEF DiscardBlobs, phoneOnly
  <2>2. phone' \in [Assets -> {"queued", "token", "sending", "sent", "settled", "discarded"}]
    BY <2>1 DEF WorkInv, WorkTypes
  <2> QED
    BY <2>1, <2>2, PhoneMoves
<1>3. CASE AskFails(w)
  <2>1. verifier[w].at = "ask" /\ GoOn(w, "fail")
    BY <1>3 DEF AskFails, Doing
  <2> QED
    BY <1>1, <2>1, GoingOnKeeps DEF Steps
<1>4. CASE DiscardLoser(w) \/ DiscardRow(w) \/ DiscardFails(w)
  <2>1. verifier[w].at \in {"discard", "discarding"}
    BY <1>4 DEF DiscardLoser, DiscardRow, DiscardFails, Doing
  <2>2. PICK at \in {"finish", "discarding", "fail"} : GoOn(w, at)
    BY <1>4, Zenon DEF DiscardLoser, DiscardRow, DiscardFails
  <2>3. at \in Steps
    BY DEF Steps
  <2> QED
    BY <1>1, <2>1, <2>2, <2>3, GoingOnKeeps
<1> QED
  BY <1>2, <1>3, <1>4

(***************************************************************************)
(* Verdicts, completions and losers.                                       *)
(***************************************************************************)
\* A verdict: the attempt was queued, or another worker has judged it.
LEMMA WriteVerdictKeeps ==
    ASSUME WorkInv, NEW w \in Verifiers, WriteVerdict(w)
    PROVE  WorkInv' /\ SameAttempts
<1>1. PICK v \in Work : v = verifier[w] /\ WorkOK(v)
  BY WorkOf
<1>2. PICK a \in Assets : a = v.of /\ v.at = "ask"
  BY <1>1 DEF WriteVerdict, Doing, WorkOK
<1>3. PICK t \in Attempt : t = attempt[a]
  BY DEF WorkInv, WorkTypes
<1>4. t.verdict \in {"queued", "accepted", "rejected"}
  BY <1>1, <1>2, <1>3 DEF WorkOK
<1>5. PICK verdict \in {"accepted", "rejected"} :
        /\ t.verdict # "queued" => verdict = t.verdict
        /\ attempt' = [attempt EXCEPT ![a].verdict = verdict]
        /\ mission' = mission \/ \E b \in {"accepted", "pending", "rejected"} :
                                    mission' = [mission EXCEPT !.evidence = b]
        /\ verifier' = [verifier EXCEPT
                          ![w].at = IF verdict = "accepted" THEN "grant" ELSE "finish",
                          ![w].loses = (t.verdict = "queued")]
        /\ UNCHANGED <<answer, event, phone, lapsed>>
  BY <1>1, <1>2, <1>3, <1>4 DEF WriteVerdict, EvidenceState, aside
<1>6. PICK s \in Attempt : s = [t EXCEPT !.verdict = verdict]
  BY DEF Attempt
<1>7. s.number = t.number /\ s.uploaded = t.uploaded /\ s.loser = t.loser /\ s.verdict = verdict
  BY <1>6 DEF Attempt
<1>8. /\ attempt' \in [Assets -> Attempt]
      /\ \A b \in Assets : attempt'[b] = IF b = a THEN s ELSE attempt[b]
  BY <1>3, <1>5, <1>6 DEF WorkInv, WorkTypes
<1>9. SameAttempts /\ Attempts' = Attempts
  BY <1>3, <1>7, <1>8 DEF SameAttempts, Attempts
<1>10. PICK m \in MissionState : m = mission
  BY DEF WorkInv, WorkTypes
<1>11. mission' \in MissionState /\ mission'.done = m.done /\ mission'.by = m.by
  BY <1>5, <1>10 DEF MissionState, Verdicts
<1>12. PICK at \in {"grant", "finish"} : at = IF verdict = "accepted" THEN "grant" ELSE "finish"
  OBVIOUS
<1>13. PICK u : u = [[v EXCEPT !.at = at] EXCEPT !.loses = (t.verdict = "queued")]
  OBVIOUS
<1>14. u \in Work /\ u.at = at /\ u.of = a
  BY <1>2, <1>13 DEF Work, Steps
<1>15. /\ verifier' \in [Verifiers -> Work]
       /\ \A x \in Verifiers : verifier'[x] = IF x = w THEN u ELSE verifier[x]
  BY <1>1, <1>5, <1>12, <1>13, <1>14 DEF WorkInv, WorkTypes
<1>16. WorkTypes'
  BY <1>5, <1>8, <1>9, <1>11, <1>15 DEF WorkInv, WorkTypes
<1>17. ASSUME NEW b \in Assets
       PROVE  AttemptOK(b)' /\ WinnerOK(b)' /\ (Granted(b) => Granted(b)')
  <2>1. AttemptOK(b) /\ WinnerOK(b)
    BY DEF WorkInv
  <2>2. CASE b # a
    BY <1>5, <1>8, <1>10, <1>11, <2>1, <2>2 DEF AttemptOK, WinnerOK, Granted, Judged
  <2>3. CASE b = a
    <3>1. Granted(b) => Granted(b)'
      BY <1>3, <1>4, <1>5, <1>7, <1>8, <1>10, <1>11, <2>3 DEF Granted, Judged
    <3>2. WinnerOK(b)'
      BY <1>3, <1>5, <1>7, <1>8, <1>10, <1>11, <2>1, <2>3 DEF WinnerOK
    <3>3. AttemptOK(b)'
      <4>1. /\ attempt'[b].number = t.number /\ attempt'[b].loser = t.loser
            /\ attempt'[b].verdict = verdict
        BY <1>7, <1>8, <2>3
      <4>2. t.number # 0
        BY <1>3, <1>4, <2>1, <2>3 DEF AttemptOK
      <4>3. t.verdict = "accepted" => verdict = "accepted"
        BY <1>5
      <4> QED
        BY <1>3, <1>5, <1>10, <1>11, <2>1, <2>3, <3>1, <4>1, <4>2, <4>3 DEF AttemptOK
    <3> QED
      BY <3>1, <3>2, <3>3
  <2> QED
    BY <2>2, <2>3
<1>18. WorkOK(u)'
  BY <1>5, <1>7, <1>8, <1>12, <1>14 DEF WorkOK, Granted, Judged
<1>19. ASSUME NEW x \in Work, WorkOK(x)
       PROVE  WorkOK(x)'
  <2>1. CASE x.at = "idle"
    BY <2>1 DEF WorkOK
  <2>2. CASE x.at # "idle"
    <3>1. PICK b \in Assets : b = x.of
      BY <1>19, <2>2 DEF WorkOK
    <3>2. \/ attempt'[b].verdict = attempt[b].verdict
          \/ (attempt[b].verdict = "queued" /\ attempt'[b].verdict = verdict)
      <4>1. t.verdict # "queued" => verdict = t.verdict
        BY <1>5
      <4>2. attempt'[b].verdict = IF b = a THEN verdict ELSE attempt[b].verdict
        BY <1>7, <1>8
      <4> QED
        BY <1>3, <4>1, <4>2
    <3>3. Granted(b) => Granted(b)'
      BY <1>17
    <3> QED
      BY <1>5, <1>10, <1>11, <1>19, <3>1, <3>2, <3>3 DEF WorkOK
  <2> QED
    BY <2>1, <2>2
<1>20. ASSUME NEW x \in Verifiers
       PROVE  WorkOK(verifier[x])'
  <2>1. PICK y \in Work : y = verifier[x] /\ WorkOK(y)
    BY DEF WorkInv, WorkTypes
  <2>2. PICK z : z = verifier'[x] /\ (z = u \/ z = y)
    BY <1>15, <2>1
  <2>3. WorkOK(z)'
    BY <1>18, <1>19, <2>1, <2>2
  <2> QED
    BY <2>2, <2>3 DEF WorkOK
<1> QED
  BY <1>9, <1>16, <1>17, <1>20 DEF WorkInv

\* A completion: it is granted once, and its answer is kept until it expires.
LEMMA GrantCompletionKeeps ==
    ASSUME WorkInv, NEW w \in Verifiers, GrantCompletion(w)
    PROVE  WorkInv'
<1>1. PICK v \in Work : v = verifier[w] /\ WorkOK(v)
  BY WorkOf
<1>2. PICK a \in Assets : a = v.of /\ v.at = "grant" /\ attempt[a].verdict = "accepted"
  BY <1>1 DEF GrantCompletion, Doing, WorkOK
<1>3. UNCHANGED <<attempt, event, phone, lapsed>>
  BY DEF GrantCompletion, aside
<1>4. CASE answer[a] = "none" /\ mission.gone
  <2>1. GoOn(w, "fail") /\ UNCHANGED <<answer, mission>>
    BY <1>1, <1>2, <1>4 DEF GrantCompletion, StoredAnswer
  <2>2. "fail" \in Steps
    BY DEF Steps
  <2> QED
    BY <1>1, <1>2, <1>3, <2>1, <2>2, GoingOnKeeps
<1>5. CASE ~(answer[a] = "none" /\ mission.gone)
  <2>1. PICK said : said = IF answer[a] # "none" THEN answer[a]
                           ELSE IF mission.done THEN "already_completed" ELSE "completed"
    OBVIOUS
  <2>2. said \in {"completed", "already_completed"}
    BY <2>1 DEF WorkInv, WorkTypes
  <2>3. PICK at \in {"lose", "finish"} :
           at = IF said = "already_completed" /\ v.loses THEN "lose" ELSE "finish"
    OBVIOUS
  <2>4. /\ answer' = [answer EXCEPT ![a] = said]
        /\ mission' = IF answer[a] = "none" /\ ~mission.done
                      THEN CompletedBy(a, "accepted") ELSE mission
        /\ verifier' = [verifier EXCEPT ![w].at = at]
    BY <1>1, <1>2, <1>5, <2>1, <2>3, Zenon DEF GrantCompletion, StoredAnswer, GoOn
  <2>5. PICK u : u = [v EXCEPT !.at = at]
    OBVIOUS
  <2>6. u \in Work /\ u.at = at /\ u.of = a
    BY <1>2, <2>5 DEF Work, Steps
  <2>7. /\ verifier' \in [Verifiers -> Work]
        /\ \A x \in Verifiers : verifier'[x] = IF x = w THEN u ELSE verifier[x]
    BY <1>1, <2>4, <2>5, <2>6 DEF WorkInv, WorkTypes
  <2>8. /\ answer' \in [Assets -> {"none", "completed", "already_completed"}]
        /\ \A b \in Assets : answer'[b] = IF b = a THEN said ELSE answer[b]
    BY <2>2, <2>4 DEF WorkInv, WorkTypes
  <2>9. PICK m \in MissionState : m = mission
    BY DEF WorkInv, WorkTypes
  <2>10. AttemptOK(a) /\ WinnerOK(a)
    BY DEF WorkInv
  <2>11. PICK n \in MissionState :
            /\ n = mission' /\ n.done
            /\ m.done => n = m
            /\ ~m.done => n.by = a /\ answer[a] = "none"
    <3>1. CASE m.done
      BY <2>4, <2>9, <3>1
    <3>2. CASE ~m.done
      <4>1. answer[a] = "none"
        BY <2>9, <2>10, <3>2 DEF AttemptOK
      <4>2. mission' = [[[m EXCEPT !.done = TRUE] EXCEPT !.evidence = "accepted"] EXCEPT !.by = a]
        BY <2>4, <2>9, <3>2, <4>1 DEF CompletedBy
      <4>3. mission' \in MissionState /\ mission'.done /\ mission'.by = a
        BY <4>2 DEF MissionState, Verdicts
      <4> QED
        BY <3>2, <4>1, <4>3
    <3> QED
      BY <3>1, <3>2
  <2>12. WorkTypes'
    BY <1>3, <2>7, <2>8, <2>11 DEF WorkInv, WorkTypes, Attempts
  <2>13. \A b \in Assets : Granted(b) => Granted(b)'
    BY <1>3, <2>9, <2>11 DEF Granted, Judged
  <2>14. ASSUME NEW b \in Assets
         PROVE  AttemptOK(b)' /\ WinnerOK(b)'
    <3>1. AttemptOK(b) /\ WinnerOK(b)
      BY DEF WorkInv
    <3>2. AttemptOK(b)'
      BY <1>2, <1>3, <2>8, <2>9, <2>11, <2>13, <3>1 DEF AttemptOK
    <3>3. CASE m.done
      <4>1. answer[a] = "none" => said = "already_completed"
        BY <2>1, <2>9, <3>3
      <4>2. answer[a] # "none" => said = answer[a]
        BY <2>1
      <4>3. WinnerOK(b)'
        BY <1>3, <2>8, <2>9, <2>11, <3>1, <3>3, <4>1, <4>2 DEF WinnerOK
      <4> QED
        BY <3>2, <4>3
    <3>4. CASE ~m.done
      <4>1. said = "completed"
        BY <2>1, <2>9, <2>11, <3>4
      <4>2. WinnerOK(b)'
        BY <1>3, <2>8, <2>9, <2>11, <3>1, <3>4, <4>1 DEF WinnerOK, AttemptOK
      <4> QED
        BY <3>2, <4>2
    <3> QED
      BY <3>3, <3>4
  <2>15. WorkOK(u)'
    <3>1. Granted(a)'
      BY <1>2, <1>3, <2>11 DEF Granted, Judged
    <3>2. at = "lose" => a \in lapsed \/ n.by # a
      <4>1. ASSUME at = "lose", a \notin lapsed
            PROVE  n.by # a
        <5>1. said = "already_completed"
          BY <2>3, <4>1
        <5>2. m.done
          BY <2>1, <2>9, <2>11, <5>1
        <5> QED
          BY <2>1, <2>9, <2>10, <2>11, <4>1, <5>1, <5>2 DEF WinnerOK
      <4> QED
        BY <4>1
    <3> QED
      BY <1>2, <1>3, <2>6, <2>11, <3>1, <3>2 DEF WorkOK
  <2>16. ASSUME NEW x \in Work, WorkOK(x)
         PROVE  WorkOK(x)'
    BY <1>3, <2>9, <2>11, <2>13, <2>16 DEF WorkOK
  <2>17. ASSUME NEW x \in Verifiers
         PROVE  WorkOK(verifier[x])'
    <3>1. PICK y \in Work : y = verifier[x] /\ WorkOK(y)
      BY DEF WorkInv, WorkTypes
    <3>2. PICK z : z = verifier'[x] /\ (z = u \/ z = y)
      BY <2>7, <3>1
    <3>3. WorkOK(z)'
      BY <2>15, <2>16, <3>1, <3>2
    <3> QED
      BY <3>2, <3>3 DEF WorkOK
  <2> QED
    BY <2>12, <2>14, <2>17 DEF WorkInv
<1> QED
  BY <1>4, <1>5

\* A loser: the attempt did not complete the mission, or its answer expired.
LEMMA MarkLoserKeeps ==
    ASSUME WorkInv, NEW w \in Verifiers, MarkLoser(w)
    PROVE  WorkInv' /\ SameAttempts
<1>1. PICK v \in Work : v = verifier[w] /\ WorkOK(v)
  BY WorkOf
<1>2. PICK a \in Assets : a = v.of /\ v.at = "lose"
  BY <1>1 DEF MarkLoser, Doing, WorkOK
<1>3. /\ attempt' = [attempt EXCEPT ![a].loser = TRUE]
      /\ verifier' = [verifier EXCEPT ![w].at = "discard"]
      /\ UNCHANGED <<mission, answer, event, phone, lapsed>>
  BY <1>1, <1>2 DEF MarkLoser, GoOn, aside
<1>4. PICK t \in Attempt : t = attempt[a]
  BY DEF WorkInv, WorkTypes
<1>5. PICK s \in Attempt : s = [t EXCEPT !.loser = TRUE]
  BY DEF Attempt
<1>6. s.number = t.number /\ s.uploaded = t.uploaded /\ s.loser /\ s.verdict = t.verdict
  BY <1>5 DEF Attempt
<1>7. /\ attempt' \in [Assets -> Attempt]
      /\ \A b \in Assets : attempt'[b] = IF b = a THEN s ELSE attempt[b]
  BY <1>3, <1>4, <1>5 DEF WorkInv, WorkTypes
<1>8. \A b \in Assets : /\ attempt'[b].number = attempt[b].number
                        /\ attempt'[b].uploaded = attempt[b].uploaded
                        /\ attempt'[b].verdict = attempt[b].verdict
                        /\ b # a => attempt'[b].loser = attempt[b].loser
  BY <1>4, <1>6, <1>7
<1>9. SameAttempts /\ Attempts' = Attempts
  BY <1>8 DEF SameAttempts, Attempts
<1>10. PICK u : u = [v EXCEPT !.at = "discard"]
  OBVIOUS
<1>11. u \in Work /\ u.at = "discard" /\ u.of = a
  BY <1>2, <1>10 DEF Work, Steps
<1>12. /\ verifier' \in [Verifiers -> Work]
       /\ \A x \in Verifiers : verifier'[x] = IF x = w THEN u ELSE verifier[x]
  BY <1>1, <1>3, <1>10, <1>11 DEF WorkInv, WorkTypes
<1>13. WorkTypes'
  BY <1>3, <1>7, <1>9, <1>12 DEF WorkInv, WorkTypes
<1>14. \A b \in Assets : Granted(b) => Granted(b)'
  BY <1>3, <1>8 DEF Granted, Judged
<1>15. /\ attempt[a].verdict = "accepted" /\ mission.done
       /\ a \in lapsed \/ mission.by # a
  BY <1>1, <1>2 DEF WorkOK
<1>16. \A b \in Assets : AttemptOK(b)'
  BY <1>3, <1>8, <1>14, <1>15 DEF WorkInv, AttemptOK
<1>17. \A b \in Assets : WinnerOK(b)'
  BY <1>3, <1>8, <1>15 DEF WorkInv, WinnerOK
<1>18. WorkOK(u)'
  BY <1>3, <1>8, <1>11, <1>15 DEF WorkOK
<1>19. ASSUME NEW x \in Work, WorkOK(x)
       PROVE  WorkOK(x)'
  BY <1>3, <1>8, <1>14, <1>19 DEF WorkOK
<1>20. ASSUME NEW x \in Verifiers
       PROVE  WorkOK(verifier[x])'
  <2>1. PICK y \in Work : y = verifier[x] /\ WorkOK(y)
    BY DEF WorkInv, WorkTypes
  <2>2. PICK z : z = verifier'[x] /\ (z = u \/ z = y)
    BY <1>12, <2>1
  <2>3. WorkOK(z)'
    BY <1>18, <1>19, <2>1, <2>2
  <2> QED
    BY <2>2, <2>3 DEF WorkOK
<1> QED
  BY <1>9, <1>13, <1>16, <1>17, <1>20 DEF WorkInv

(***************************************************************************)
(* Uploads and reservations.                                               *)
(***************************************************************************)
\* An upload that is reported: its photo was stored, and its attempt reserved.
LEMMA HandleMediaUploadedKeeps ==
    ASSUME EvidenceInv, NEW a \in Assets, HandleMediaUploaded(a)
    PROVE  EvidenceInv'
<1>1. PICK t \in Attempt : t = attempt[a]
  BY DEF EvidenceInv, WorkInv, WorkTypes
<1>2. PICK e \in UploadEvent : e = event[a]
  BY DEF EvidenceInv, WorkInv, WorkTypes
<1>3. /\ upload[a] = "committed" /\ upload' = [upload EXCEPT ![a] = "idle"]
      /\ UNCHANGED <<damaged, asset, due, blob, deletion, sweep, late>>
      /\ UNCHANGED <<mission, answer, verifier, lapsed>>
  BY DEF HandleMediaUploaded, UploadEnds
<1>4. PICK verdict : verdict = IF t.verdict = "pending" THEN "queued" ELSE t.verdict
  OBVIOUS
<1>5. PICK at : at = IF t.verdict = "pending" THEN "ready" ELSE e.at
  OBVIOUS
<1>6. PICK s : s = [[t EXCEPT !.uploaded = TRUE] EXCEPT !.verdict = verdict]
  OBVIOUS
<1>7. PICK f : f = [e EXCEPT !.at = at]
  OBVIOUS
<1>8. /\ s \in Attempt /\ s.number = t.number /\ s.uploaded /\ s.loser = t.loser
      /\ s.verdict = verdict
  BY <1>4, <1>6 DEF Attempt
<1>9. f \in UploadEvent /\ f.at = at
  BY <1>5, <1>7 DEF UploadEvent
<1>10. attempt' = [attempt EXCEPT ![a] = s]
  BY <1>1, <1>4, <1>6 DEF HandleMediaUploaded
<1>11. event' = [event EXCEPT ![a] = f]
  BY <1>1, <1>2, <1>5, <1>7 DEF HandleMediaUploaded
<1>12. /\ attempt' \in [Assets -> Attempt] /\ event' \in [Assets -> UploadEvent]
       /\ \A b \in Assets : /\ attempt'[b] = IF b = a THEN s ELSE attempt[b]
                            /\ event'[b] = IF b = a THEN f ELSE event[b]
  BY <1>8, <1>9, <1>10, <1>11 DEF EvidenceInv, WorkInv, WorkTypes
<1>13. /\ upload' \in [Assets -> {"idle", "put", "committed"}]
       /\ \A b \in Assets : upload'[b] = IF b = a THEN "idle" ELSE upload[b]
  BY <1>3 DEF EvidenceInv, PhotosInv, MediaTypes
<1>14. PICK p \in {"queued", "token", "sending", "sent", "settled", "discarded"} :
          p = (IF phone[a] = "sending" THEN "sent" ELSE phone[a])
  BY DEF EvidenceInv, WorkInv, WorkTypes
<1>15. phone' = [phone EXCEPT ![a] = p] /\ (p = "discarded" => phone[a] = "discarded")
  BY <1>14 DEF HandleMediaUploaded
<1>16. /\ phone' \in [Assets -> {"queued", "token", "sending", "sent", "settled", "discarded"}]
       /\ \A b \in Assets : phone'[b] = "discarded" => phone[b] = "discarded"
  BY <1>15 DEF EvidenceInv, WorkInv, WorkTypes
<1>17. PhotoOK(a) /\ AttemptOK(a) /\ WinnerOK(a)
  BY DEF EvidenceInv, PhotosInv, WorkInv
<1>18. asset[a] # "none" /\ t.number # 0 /\ t.verdict # "none"
  BY <1>1, <1>3, <1>17 DEF PhotoOK, AttemptOK
<1>19. /\ verdict \in {"queued", "accepted", "rejected"}
       /\ t.verdict # "pending" => verdict = t.verdict
  BY <1>4, <1>18 DEF Attempt
<1>20. PhotosInv'
  <2>1. \A b \in Assets : PhotoOK(b)'
    BY <1>1, <1>3, <1>8, <1>12, <1>13, <1>18 DEF EvidenceInv, PhotosInv, PhotoOK
  <2>2. SweepOK' /\ (\A x \in Deleters : DeletionOK(x)')
    BY <1>3 DEF EvidenceInv, PhotosInv, SweepOK, DeletionOK
  <2>3. MediaTypes'
    BY <1>3, <1>13 DEF EvidenceInv, PhotosInv, MediaTypes
  <2> QED
    BY <2>1, <2>2, <2>3 DEF PhotosInv
<1>21. Attempts' = Attempts
  BY <1>1, <1>8, <1>12 DEF Attempts
<1>22. WorkTypes'
  BY <1>3, <1>12, <1>16, <1>21 DEF EvidenceInv, WorkInv, WorkTypes
<1>23. ASSUME NEW b \in Assets
       PROVE  AttemptOK(b)' /\ WinnerOK(b)' /\ (Granted(b) => Granted(b)')
  <2>1. AttemptOK(b) /\ WinnerOK(b)
    BY DEF EvidenceInv, WorkInv
  <2>2. CASE b # a
    <3>1. attempt'[b] = attempt[b] /\ event'[b] = event[b]
      BY <1>12, <2>2
    <3> QED
      BY <1>3, <1>16, <2>1, <3>1 DEF AttemptOK, WinnerOK, Granted, Judged
  <2>3. CASE b = a
    <3>1. attempt'[b] = s /\ event'[b] = f
      BY <1>12, <2>3
    <3>2. Granted(b) => Granted(b)'
      BY <1>1, <1>3, <1>8, <1>19, <2>3, <3>1 DEF Granted, Judged
    <3>3. WinnerOK(b)'
      BY <1>1, <1>3, <1>8, <1>16, <2>1, <2>3, <3>1 DEF WinnerOK
    <3>4. f.at = "done" => e.at = "done"
      BY <1>5, <1>9
    <3>5. t.verdict = "accepted" => s.verdict = "accepted"
      BY <1>8, <1>19
    <3>6. s.number # 0 /\ s.verdict \in {"queued", "accepted", "rejected"} /\ s.loser = t.loser
      BY <1>8, <1>18, <1>19
    <3>7. AttemptOK(b)'
      BY <1>1, <1>2, <1>3, <1>16, <2>1, <2>3, <3>1, <3>2, <3>4, <3>5, <3>6 DEF AttemptOK
    <3> QED
      BY <3>2, <3>3, <3>7
  <2> QED
    BY <2>2, <2>3
<1>24. \A b \in Assets : \/ attempt'[b].verdict = attempt[b].verdict
                         \/ attempt[b].verdict = "pending"
  BY <1>1, <1>8, <1>12, <1>19
<1>25. ASSUME NEW x \in Work, WorkOK(x)
       PROVE  WorkOK(x)'
  BY <1>3, <1>12, <1>8, <1>19, <1>23, <1>24, <1>25 DEF WorkOK
<1>26. ASSUME NEW w \in Verifiers
       PROVE  WorkOK(verifier[w])'
  <2>1. PICK y \in Work : y = verifier[w] /\ WorkOK(y)
    BY DEF EvidenceInv, WorkInv, WorkTypes
  <2>2. WorkOK(y)' /\ y = verifier'[w]
    BY <1>3, <1>25, <2>1
  <2> QED
    BY <2>2 DEF WorkOK
<1> QED
  BY <1>20, <1>22, <1>23, <1>26 DEF EvidenceInv, WorkInv

\* A reservation: the row and the attempt are made in one transaction.
LEMMA ReserveKeeps ==
    ASSUME EvidenceInv, NEW a \in Assets, Reserve(a)
    PROVE  EvidenceInv'
<1>1. phone' = [phone EXCEPT ![a] = "token"]
      /\ UNCHANGED <<mission, answer, event, verifier, lapsed>>
  BY DEF Reserve
<1>2. /\ phone' \in [Assets -> {"queued", "token", "sending", "sent", "settled", "discarded"}]
      /\ \A b \in Assets : phone'[b] = "discarded" => phone[b] = "discarded"
  BY <1>1 DEF EvidenceInv, WorkInv, WorkTypes
<1>3. CASE a \in Attempts
  <2>1. UNCHANGED mediaVars /\ UNCHANGED attempt
    BY <1>3 DEF Reserve, AuthorizeReservation, AuthorizeUpload
  <2>2. SameAttempts /\ UNCHANGED phoneOnly
    BY <1>1, <2>1 DEF SameAttempts, phoneOnly
  <2>3. PhotosInv'
    BY <2>1, <2>2, PhotosStill DEF EvidenceInv
  <2>4. WorkInv'
    BY <1>2, <2>2, PhoneMoves DEF EvidenceInv
  <2> QED
    BY <2>3, <2>4 DEF EvidenceInv
<1>4. CASE a \notin Attempts
  <2>1. /\ NewAttemptAllowed
        /\ attempt' = [attempt EXCEPT ![a] = [NoAttempt EXCEPT
                         !.number = Cardinality(Attempts) + 1, !.verdict = "pending"]]
        /\ asset' = [asset EXCEPT ![a] = "active"]
        /\ UNCHANGED <<damaged, due, blob, upload, deletion, sweep, late>>
    BY <1>4 DEF Reserve, AuthorizeReservation
  <2>2. PICK t \in Attempt : t = attempt[a]
    BY DEF EvidenceInv, WorkInv, WorkTypes
  <2>3. t.number = 0
    BY <1>4, <2>2 DEF Attempts
  <2>4. PhotoOK(a) /\ AttemptOK(a) /\ WinnerOK(a)
    BY DEF EvidenceInv, PhotosInv, WorkInv
  <2>5. /\ asset[a] = "none" /\ upload[a] = "idle" /\ t.verdict = "none"
        /\ event[a].at = "none" /\ answer[a] = "none" /\ mission.by # a
    BY <2>2, <2>3, <2>4 DEF PhotoOK, AttemptOK
  <2>6. PICK n \in Nat : n = Cardinality(Attempts)
    BY FS_CardinalityType DEF EvidenceInv, WorkInv, WorkTypes
  <2>7. n + 1 \in 0 .. AttemptLimit /\ n + 1 # 0
    BY <2>1, <2>6, LimitsAssumption DEF NewAttemptAllowed
  <2>8. PICK c : c = NoAttempt
    OBVIOUS
  <2>9. c \in Attempt /\ ~c.uploaded /\ ~c.loser
    BY <2>8, LimitsAssumption DEF NoAttempt, Attempt
  <2>10. PICK s : s = [[c EXCEPT !.number = n + 1] EXCEPT !.verdict = "pending"]
    OBVIOUS
  <2>11. s \in Attempt /\ s.number # 0 /\ ~s.uploaded /\ ~s.loser /\ s.verdict = "pending"
    BY <2>7, <2>10, <2>9 DEF Attempt
  <2>12. attempt' = [attempt EXCEPT ![a] = s]
    BY <2>1, <2>6, <2>10, <2>8
  <2>13. /\ attempt' \in [Assets -> Attempt]
         /\ \A b \in Assets : attempt'[b] = IF b = a THEN s ELSE attempt[b]
    BY <2>11, <2>12 DEF EvidenceInv, WorkInv, WorkTypes
  <2>14. /\ asset' \in [Assets -> {"none", "active", "deleting", "deleted"}]
         /\ \A b \in Assets : asset'[b] = IF b = a THEN "active" ELSE asset[b]
    BY <2>1 DEF EvidenceInv, PhotosInv, MediaTypes
  <2>15. PhotosInv'
    <3>1. \A b \in Assets : PhotoOK(b)'
      BY <2>1, <2>5, <2>11, <2>13, <2>14 DEF EvidenceInv, PhotosInv, PhotoOK
    <3>2. SweepOK'
      BY <2>1, <2>5, <2>14 DEF EvidenceInv, PhotosInv, SweepOK, MediaTypes
    <3>3. \A x \in Deleters : DeletionOK(x)'
      BY <2>1, <2>5, <2>14 DEF EvidenceInv, PhotosInv, DeletionOK
    <3>4. MediaTypes'
      BY <2>1, <2>14 DEF EvidenceInv, PhotosInv, MediaTypes
    <3> QED
      BY <3>1, <3>2, <3>3, <3>4 DEF PhotosInv
  <2>16. IsFiniteSet(Attempts')
    <3>1. Attempts' = Attempts \cup {a}
      BY <2>11, <2>13 DEF Attempts
    <3> QED
      BY <3>1, FS_AddElement DEF EvidenceInv, WorkInv, WorkTypes
  <2>17. WorkTypes'
    BY <1>1, <1>2, <2>13, <2>16 DEF EvidenceInv, WorkInv, WorkTypes
  <2>18. ASSUME NEW b \in Assets
         PROVE  AttemptOK(b)' /\ WinnerOK(b)' /\ (Granted(b) => Granted(b)')
    <3>1. AttemptOK(b) /\ WinnerOK(b)
      BY DEF EvidenceInv, WorkInv
    <3>2. CASE b # a
      <4>1. attempt'[b] = attempt[b]
        BY <2>13, <3>2
      <4> QED
        BY <1>1, <1>2, <3>1, <4>1 DEF AttemptOK, WinnerOK, Granted, Judged
    <3>3. CASE b = a
      <4>1. attempt'[b] = s
        BY <2>13, <3>3
      <4>2. AttemptOK(b)' /\ WinnerOK(b)'
        BY <1>1, <1>2, <2>2, <2>5, <2>11, <3>1, <3>3, <4>1 DEF AttemptOK, WinnerOK
      <4>3. ~Granted(b)
        BY <2>2, <2>5, <3>3 DEF Granted, Judged
      <4> QED
        BY <4>2, <4>3
    <3> QED
      BY <3>2, <3>3
  <2>19. \A b \in Assets : attempt'[b].verdict = attempt[b].verdict \/ attempt[b].verdict = "none"
    BY <2>2, <2>5, <2>13
  <2>20. ASSUME NEW x \in Work, WorkOK(x)
         PROVE  WorkOK(x)'
    BY <1>1, <2>18, <2>19, <2>20 DEF WorkOK
  <2>21. ASSUME NEW w \in Verifiers
         PROVE  WorkOK(verifier[w])'
    <3>1. PICK y \in Work : y = verifier[w] /\ WorkOK(y)
      BY DEF EvidenceInv, WorkInv, WorkTypes
    <3>2. WorkOK(y)' /\ y = verifier'[w]
      BY <1>1, <2>20, <3>1
    <3> QED
      BY <3>2 DEF WorkOK
  <2> QED
    BY <2>15, <2>17, <2>18, <2>21 DEF EvidenceInv, WorkInv
<1> QED
  BY <1>3, <1>4

\* The phone's other steps: a photo is discarded when the mission was completed
\* before it was reserved, or when it lost.
LEMMA PhoneStepsKeep ==
    ASSUME WorkInv, NEW a \in Assets,
           \/ ReserveTooLate(a) \/ StartUpload(a) \/ Put(a)
           \/ TakeResult(a) \/ StartOver(a) \/ UploadFails(a)
    PROVE  WorkInv'
<1>1. UNCHANGED phoneOnly
  BY DEF ReserveTooLate, StartUpload, Put, TakeResult, StartOver, UploadFails
<1>2. AttemptOK(a) /\ WinnerOK(a)
  BY DEF WorkInv
<1>3. PICK p \in {"queued", "token", "sending", "sent", "settled", "discarded"} :
         /\ phone' = [phone EXCEPT ![a] = p]
         /\ \/ p # "discarded" \/ p = phone[a]
            \/ a \notin Attempts /\ mission.done
            \/ attempt[a].loser
  <2> USE DEF WorkInv, WorkTypes
  <2>1. CASE Put(a)
    BY <2>1 DEF Put
  <2>2. CASE UploadFails(a)
    BY <2>2 DEF UploadFails
  <2>3. CASE TakeResult(a)
    BY <2>3 DEF TakeResult
  <2>4. CASE ReserveTooLate(a) \/ StartUpload(a) \/ StartOver(a)
    BY <2>4 DEF ReserveTooLate, StartUpload, StartOver
  <2> QED
    BY <2>1, <2>2, <2>3, <2>4
<1>4. p = "discarded" => \/ phone[a] = "discarded"
                         \/ mission.done /\ (a \notin lapsed => mission.by # a)
  BY <1>2, <1>3 DEF AttemptOK, WinnerOK, Attempts
<1>5. phone' \in [Assets -> {"queued", "token", "sending", "sent", "settled", "discarded"}]
  BY <1>3 DEF WorkInv, WorkTypes
<1>6. \A b \in Assets : phone'[b] = IF b = a THEN p ELSE phone[b]
  BY <1>3 DEF WorkInv, WorkTypes
<1> QED
  BY <1>1, <1>4, <1>5, <1>6, PhoneMoves

\* An answer that expires.
LEMMA AnswerExpiresKeeps ==
    ASSUME WorkInv, NEW a \in Assets, AnswerExpires(a)
    PROVE  WorkInv'
<1>1. /\ answer' = [answer EXCEPT ![a] = "none"] /\ lapsed' = lapsed \cup {a}
      /\ UNCHANGED <<attempt, mission, event, verifier, phone>>
  BY DEF AnswerExpires
<1>2. /\ answer' \in [Assets -> {"none", "completed", "already_completed"}]
      /\ \A b \in Assets : answer'[b] = IF b = a THEN "none" ELSE answer[b]
  BY <1>1 DEF WorkInv, WorkTypes
<1>3. WorkTypes'
  BY <1>1, <1>2 DEF WorkInv, WorkTypes, Attempts
<1>4. \A b \in Assets : AttemptOK(b)' /\ WinnerOK(b)'
  BY <1>1, <1>2 DEF WorkInv, AttemptOK, WinnerOK, Granted, Judged
<1>5. ASSUME NEW w \in Verifiers
      PROVE  WorkOK(verifier[w])'
  BY <1>1 DEF WorkInv, WorkOK, Granted, Judged
<1> QED
  BY <1>3, <1>4, <1>5 DEF WorkInv

\* The user completes the mission, or deletes it.
LEMMA UserKeeps ==
    ASSUME WorkInv, LoseMission \/ \E mode : CompleteByWord(mode)
    PROVE  WorkInv'
<1>1. PICK m \in MissionState : m = mission
  BY DEF WorkInv, WorkTypes
<1>2. UNCHANGED <<attempt, answer, event, verifier, phone, lapsed>>
  BY DEF LoseMission, CompleteByWord, aside
<1>3. PICK n \in MissionState :
         /\ n = mission' /\ (m.done => n.done)
         /\ n.by = m.by \/ (~m.done /\ n.by = User /\ n.done)
  <2>1. CASE LoseMission
    <3>1. mission' = [m EXCEPT !.gone = TRUE]
      BY <1>1, <2>1 DEF LoseMission
    <3>2. mission' \in MissionState /\ mission'.done = m.done /\ mission'.by = m.by
      BY <3>1 DEF MissionState
    <3> QED
      BY <3>2
  <2>2. CASE \E mode : CompleteByWord(mode)
    <3>1. PICK evidence \in {"rejected", "not_required"} :
             mission' = [[[m EXCEPT !.done = TRUE] EXCEPT !.evidence = evidence] EXCEPT !.by = User]
      BY <1>1, <2>2 DEF CompleteByWord, CompletedBy
    <3>2. ~m.done
      BY <1>1, <2>2 DEF CompleteByWord
    <3>3. mission' \in MissionState /\ mission'.done /\ mission'.by = User
      BY <3>1 DEF MissionState, Verdicts
    <3> QED
      BY <3>2, <3>3
  <2> QED
    BY <2>1, <2>2
<1>4. WorkTypes'
  BY <1>2, <1>3 DEF WorkInv, WorkTypes, Attempts
<1>5. \A b \in Assets : AttemptOK(b)' /\ WinnerOK(b)'
  BY <1>1, <1>2, <1>3, UserAssumption DEF WorkInv, AttemptOK, WinnerOK, Granted, Judged
<1>6. ASSUME NEW w \in Verifiers
      PROVE  WorkOK(verifier[w])'
  BY <1>1, <1>2, <1>3 DEF WorkInv, WorkOK, Granted, Judged
<1> QED
  BY <1>4, <1>5, <1>6 DEF WorkInv

(***************************************************************************)
(* The invariant and what it gives.                                        *)
(***************************************************************************)
LEMMA EvidenceInvInit == EvidenceInit => EvidenceInv
<1> SUFFICES ASSUME EvidenceInit PROVE EvidenceInv
  OBVIOUS
<1>1. /\ damaged \in SUBSET Assets /\ asset = [a \in Assets |-> "none"]
      /\ due = {} /\ blob = {} /\ late = {}
      /\ upload = [a \in Assets |-> "idle"]
      /\ deletion = [x \in Deleters |-> NoDeletion] /\ sweep = NoSweep
  BY DEF EvidenceInit, MediaInit
<1>2. /\ attempt = [a \in Assets |-> NoAttempt]
      /\ mission = [done |-> FALSE, gone |-> FALSE, evidence |-> "not_submitted", by |-> NoAsset]
      /\ answer = [a \in Assets |-> "none"]
      /\ event = [a \in Assets |-> NoUploadEvent]
      /\ verifier = [w \in Verifiers |-> Resting]
      /\ phone = [a \in Assets |-> "queued"]
      /\ lapsed = {}
  BY DEF EvidenceInit
<1>3. NoDeletion \in Deleting /\ NoDeletion.at = "idle"
  BY DEF NoDeletion, Deleting
<1>4. /\ NoSweep \in [of : Assets \cup {NoAsset}, wiped : BOOLEAN]
      /\ NoSweep.of = NoAsset /\ ~NoSweep.wiped
  BY DEF NoSweep
<1>5. NoAttempt \in Attempt /\ NoAttempt.number = 0 /\ ~NoAttempt.uploaded
      /\ ~NoAttempt.loser /\ NoAttempt.verdict = "none"
  BY LimitsAssumption DEF NoAttempt, Attempt
<1>6. NoUploadEvent \in UploadEvent /\ NoUploadEvent.at = "none"
  BY LimitsAssumption DEF NoUploadEvent, UploadEvent
<1>7. Resting \in Work /\ Resting.at = "idle"
  BY DEF Resting, Work, Steps
<1>8. mission \in MissionState /\ ~mission.done /\ mission.by = NoAsset
  BY <1>2 DEF MissionState, Verdicts
<1>9. PhotosInv
  <2>1. MediaTypes /\ SweepOK
    BY <1>1, <1>3, <1>4 DEF MediaTypes, SweepOK
  <2>2. \A x \in Deleters : DeletionOK(x)
    BY <1>1, <1>3 DEF DeletionOK
  <2>3. \A a \in Assets : PhotoOK(a)
    BY <1>1, <1>2, <1>5 DEF PhotoOK
  <2> QED
    BY <2>1, <2>2, <2>3 DEF PhotosInv
<1>10. WorkInv
  <2>1. Attempts = {}
    BY <1>2, <1>5 DEF Attempts
  <2>2. WorkTypes
    BY <1>2, <1>5, <1>6, <1>7, <1>8, <2>1, FS_EmptySet DEF WorkTypes
  <2>3. \A a \in Assets : AttemptOK(a) /\ WinnerOK(a)
    BY <1>2, <1>5, <1>6, <1>8, NoAssetAssumption DEF AttemptOK, WinnerOK
  <2>4. ASSUME NEW w \in Verifiers
        PROVE  WorkOK(verifier[w])
    BY <1>2, <1>7 DEF WorkOK
  <2> QED
    BY <2>2, <2>3, <2>4 DEF WorkInv
<1> QED
  BY <1>9, <1>10 DEF EvidenceInv

\* A step of a phone or of the user on one photo.
LEMMA PhotoStepsKeep ==
    ASSUME EvidenceInv, NEW a \in Assets,
           PhoneNext(a) \/ LeaseExpires(a) \/ AnswerExpires(a) \/ DeleteMedia(a) \/ MediaIsDue(a)
    PROVE  EvidenceInv'
<1> USE DEF EvidenceInv
<1>1. CASE Reserve(a) \/ HandleMediaUploaded(a)
  BY <1>1, ReserveKeeps, HandleMediaUploadedKeeps
<1>2. CASE StartUpload(a) \/ Put(a) \/ UploadFails(a)
  <2>1. SameAttempts
    BY <1>2 DEF StartUpload, Put, UploadFails, phoneOnly, SameAttempts
  <2>2. UploadSelect(a) \/ UploadPut(a) \/ UploadDies(a)
    BY <1>2 DEF StartUpload, Put, UploadFails
  <2> QED
    BY <1>2, <2>1, <2>2, UploadsKeep, PhoneStepsKeep
<1>3. CASE ReserveTooLate(a) \/ TakeResult(a) \/ StartOver(a)
  <2>1. SameAttempts /\ UNCHANGED mediaVars
    BY <1>3 DEF ReserveTooLate, TakeResult, StartOver, phoneOnly, SameAttempts
  <2> QED
    BY <1>3, <2>1, PhotosStill, PhoneStepsKeep
<1>4. CASE LeaseExpires(a)
  <2>1. SameAttempts /\ UNCHANGED mediaVars
    BY <1>4 DEF LeaseExpires, SameAttempts
  <2>2. WorkInv'
    <3>1. UNCHANGED <<attempt, mission, answer, verifier, phone, lapsed>>
      BY <1>4 DEF LeaseExpires
    <3> QED
      BY <1>4, <3>1, LeasesKeep
  <2> QED
    BY <2>1, <2>2, PhotosStill
<1>5. CASE AnswerExpires(a)
  <2>1. SameAttempts /\ UNCHANGED mediaVars
    BY <1>5 DEF AnswerExpires, SameAttempts
  <2> QED
    BY <1>5, <2>1, PhotosStill, AnswerExpiresKeeps
<1>6. CASE DeleteMedia(a) \/ MediaIsDue(a)
  <2>1. /\ DeleteMark(User, a) \/ DeadlinePasses(a)
        /\ UNCHANGED phoneOnly /\ UNCHANGED phone
    BY <1>6 DEF DeleteMedia, MediaIsDue
  <2>2. SameAttempts
    BY <2>1 DEF phoneOnly, SameAttempts
  <2>3. WorkInv'
    BY <2>1, StillWorks
  <2> QED
    BY <2>1, <2>2, <2>3, DeletersAssumption, DeletionsKeep, SweepsKeep
<1> QED
  BY <1>1, <1>2, <1>3, <1>4, <1>5, <1>6 DEF PhoneNext

\* A step of a worker.
LEMMA WorkerStepsKeep ==
    ASSUME EvidenceInv, NEW w \in Verifiers, WorkerNext(w)
    PROVE  EvidenceInv'
<1> USE DEF EvidenceInv
<1>1. CASE WriteVerdict(w) \/ MarkLoser(w)
  <2>1. UNCHANGED mediaVars
    BY <1>1 DEF WriteVerdict, MarkLoser
  <2> QED
    BY <1>1, <2>1, PhotosStill, WriteVerdictKeeps, MarkLoserKeeps
<1>2. CASE \/ GrantCompletion(w) \/ AskFails(w) \/ Finish(w) \/ Fail(w)
           \/ \E a \in Assets : Claim(w, a)
  <2>1. UNCHANGED mediaVars /\ SameAttempts
    BY <1>2 DEF GrantCompletion, AskFails, Finish, Fail, Claim, serverOnly, SameAttempts
  <2>2. WorkInv'
    BY <1>2, GrantCompletionKeeps, DiscardsKeep, FinishKeeps, FailKeeps, ClaimKeeps
  <2> QED
    BY <2>1, <2>2, PhotosStill
<1>3. CASE DiscardLoser(w)
  <2>1. SameAttempts /\ DeleteMark(w, verifier[w].of) /\ verifier[w].at = "discard"
    BY <1>3 DEF DiscardLoser, Doing, serverOnly, SameAttempts
  <2>2. verifier[w].of \in Assets
    BY <2>1 DEF WorkInv, WorkOK
  <2> QED
    BY <1>3, <2>1, <2>2, DeletersAssumption, DeletionsKeep, DiscardsKeep
<1>4. CASE DiscardBlobs(w) \/ DiscardRow(w) \/ DiscardFails(w)
  <2>1. SameAttempts /\ (DeleteBlobs(w) \/ DeleteRow(w) \/ DeleteDies(w))
    BY <1>4 DEF DiscardBlobs, DiscardRow, DiscardFails, serverOnly, SameAttempts
  <2> QED
    BY <1>4, <2>1, DeletersAssumption, DeletionsKeep, DiscardsKeep
<1>5. CASE WorkerDies(w)
  <2>1. SameAttempts /\ (UNCHANGED mediaVars \/ DeleteDies(w))
    BY <1>5 DEF WorkerDies, SameAttempts
  <2>2. WorkInv'
    BY <1>5, LeasesKeep
  <2> QED
    BY <2>1, <2>2, DeletersAssumption, DeletionsKeep, PhotosStill
<1> QED
  BY <1>1, <1>2, <1>3, <1>4, <1>5 DEF WorkerNext

LEMMA EvidenceInvNext == EvidenceInv /\ [EvidenceNext]_evidenceVars => EvidenceInv'
<1> SUFFICES ASSUME EvidenceInv, [EvidenceNext]_evidenceVars PROVE EvidenceInv'
  OBVIOUS
<1> USE DEF EvidenceInv
<1>1. CASE UNCHANGED evidenceVars
  <2>1. SameAttempts /\ UNCHANGED mediaVars /\ UNCHANGED phoneOnly /\ UNCHANGED phone
    BY <1>1 DEF evidenceVars, phoneOnly, SameAttempts
  <2> QED
    BY <2>1, PhotosStill, StillWorks
<1>2. CASE LoseMission \/ \E mode : CompleteByWord(mode)
  <2>1. SameAttempts /\ UNCHANGED mediaVars
    BY <1>2 DEF LoseMission, CompleteByWord, SameAttempts
  <2> QED
    BY <1>2, <2>1, PhotosStill, UserKeeps
<1>3. CASE DeleteMediaGoesOn \/ DeleteMediaFails \/ Sweep \/ SweepGivesUp
  <2>1. /\ UNCHANGED phoneOnly /\ UNCHANGED phone
        /\ \/ DeleteBlobs(User) \/ DeleteRow(User) \/ DeleteDies(User)
           \/ (\E a \in Assets : SweepLock(a))
           \/ SweepDelete \/ SweepCommit \/ SweepFails \/ SweepAborts
    BY <1>3 DEF DeleteMediaGoesOn, DeleteMediaFails, Sweep, SweepGivesUp
  <2>2. SameAttempts
    BY <2>1 DEF phoneOnly, SameAttempts
  <2> QED
    BY <2>1, <2>2, StillWorks, DeletersAssumption, DeletionsKeep, SweepsKeep
<1> QED
  BY <1>1, <1>2, <1>3, PhotoStepsKeep, WorkerStepsKeep DEF EvidenceNext

LEMMA EvidenceInvAlways == EvidenceSpec => []EvidenceInv
BY EvidenceInvInit, EvidenceInvNext, PTL DEF EvidenceSpec

\* An event that is done has had its effect: an accepted verdict has completed the
\* mission, whoever died or was overtaken on the way (evidence-verification.ts:196-333).
THEOREM ProcessedIsGrantedAlways == EvidenceSpec => []ProcessedIsGranted
<1>1. EvidenceInv => ProcessedIsGranted
  BY DEF EvidenceInv, WorkInv, AttemptOK, Granted, ProcessedIsGranted
<1> QED
  BY <1>1, EvidenceInvAlways, PTL

\* The attempt that completed the mission is not taken for a duplicate of itself, by the
\* server or by its phone, as long as the stored answer is kept
\* (evidence-verification.ts:172-188, evidence-offline-queue.ts:177-183).
THEOREM WinnerIsNotLoserAlways == EvidenceSpec => []WinnerIsNotLoser
<1>1. EvidenceInv => WinnerIsNotLoser
  BY DEF EvidenceInv, WorkInv, AttemptOK, WinnerOK, WinnerIsNotLoser
<1> QED
  BY <1>1, EvidenceInvAlways, PTL

\* What a Story may show is in the store, unless the cleanup job had to do with it
\* (evidence-attempt.ts:274-324).
THEOREM SourcesAreReadableAlways == EvidenceSpec => []SourcesAreReadable
<1>1. EvidenceInv => SourcesAreReadable
  BY DEF EvidenceInv, PhotosInv, PhotoOK, StorySources, SourcesAreReadable
<1> QED
  BY <1>1, EvidenceInvAlways, PTL

\* Nothing of a deleted photo stays in the store but what an upload wrote after the
\* deletion had begun (protected-media.ts:660-797, product-media-cleanup.ts:148).
THEOREM DeletedIsGoneAlways == EvidenceSpec => []DeletedIsGone
<1>1. EvidenceInv => DeletedIsGone
  <2> SUFFICES ASSUME EvidenceInv, NEW a \in blob, asset[a] = "deleted" PROVE a \in late
    BY DEF DeletedIsGone
  <2>1. a \in Assets
    BY DEF EvidenceInv, PhotosInv, MediaTypes
  <2> QED
    BY <2>1 DEF EvidenceInv, PhotosInv, PhotoOK
<1> QED
  BY <1>1, EvidenceInvAlways, PTL

(***************************************************************************)
(* Google's calendar.  What every step keeps: rows and batches are what    *)
(* they should be, a batch is what Google had when it was asked, a mission *)
(* of the calendar's has one link, what was dismissed is hidden, and what  *)
(* ImportsAreCurrent leaves out is in unseen.                              *)
(***************************************************************************)
MissionRow == [at : {"none", "active", "completed", "cancelled", "deleted"}, source : {"internal", "external"},
               own : BOOLEAN, sync : {"synced", "failed"}, slot : Slots, text : Nat]
Answer == [at : {"confirmed", "cancelled"}, own : BOOLEAN, slot : Slots, text : Nat]
EventRow == [at : {"none", "confirmed", "cancelled"}, own : BOOLEAN, slot : Slots, text : Nat, updated : Nat]
Link == [event : Events, scope : Scopes \cup {"event"}, mission : Missions]
HiddenEvent == [event : Events, scope : Scopes, from : Nat, to : Nat]

Gone == {"none", "deleted"}
Known(e) == gevent[e].at # "none"
External(row) == row.source = "external"
ByTheApp(m) == occurrence[m].at # "none" /\ ~External(occurrence[m])

RowsFit ==
    /\ clock \in Nat /\ calendar.cursor \in 0 .. clock
    /\ calendar = [state |-> calendar.state, cursor |-> calendar.cursor]
    /\ gevent \in [Events -> EventRow] /\ occurrence \in [Missions -> MissionRow]
    /\ links \subseteq Link /\ hidden \subseteq HiddenEvent
    /\ run = [r \in SyncRuns |-> run[r]]
    /\ dismissed \in [Events -> {0} \cup Slots]
    /\ \A e \in Events : gevent[e].updated <= clock /\ (Known(e) <=> gevent[e].updated # 0)
    /\ \A m \in Missions : occurrence[m].at \in Gone => ~External(occurrence[m])

\* What a run carries from one step to the next.
Shaped(b) == b = [at |-> b.at, first |-> b.first, batch |-> b.batch, since |-> b.since, upto |-> b.upto]
BatchFits(r) ==
    /\ Shaped(run[r])
    /\ At(r, "apply") \/ At(r, "replace") =>
          /\ DOMAIN run[r].batch \subseteq Events /\ run[r].upto \in 0 .. clock /\ run[r].since \in Nat
          /\ \A e \in DOMAIN run[r].batch :
                /\ Known(e) /\ run[r].batch[e] \in Answer /\ run[r].batch[e].own = gevent[e].own
                /\ gevent[e].updated <= run[r].upto => run[r].batch[e] = Normalized(e)
    /\ At(r, "apply") =>
          \A e \in Events \ DOMAIN run[r].batch :
              gevent[e].updated <= run[r].upto => gevent[e].updated <= run[r].since
    /\ At(r, "send") \/ At(r, "record") =>
          DOMAIN run[r].batch \subseteq {m \in Missions : ByTheApp(m)}
    /\ At(r, "send") => \A m \in DOMAIN run[r].batch : run[r].batch[m] \in MissionRow
    /\ At(r, "record") =>
          \A m \in DOMAIN run[r].batch :
              LET e == run[r].batch[m]
              IN  e # NoOne => e \in Events /\ Known(e) /\ gevent[e].own

RestoreFits ==
    restoring # NoRestore =>
        /\ restoring.of \in HiddenEvent /\ restoring.scope \in Scopes
        /\ Known(restoring.of.event)
        /\ restoring.event \in Answer /\ restoring.event.at = "confirmed"
        /\ restoring.event.own = gevent[restoring.of.event].own

\* A link, and the mission it leads to; one of the calendar's has no other.
LinkFits(l) ==
    /\ Known(l.event) /\ occurrence[l.mission].at \notin Gone
    /\ External(occurrence[l.mission]) =>
          LinksOf(l.mission) = {l} /\ occurrence[l.mission].own = gevent[l.event].own

\* What was dismissed is hidden, whether or not it is at another time by now.
StaysHidden(e) ==
    dismissed[e] # 0 => IsHidden(e, dismissed[e]) /\ ~gevent[e].own /\ e \notin Shared(links)

GoogleInv ==
    /\ RowsFit /\ RestoreFits
    /\ \A r \in SyncRuns : BatchFits(r)
    /\ \A l \in links : LinkFits(l)
    /\ \A h \in hidden : Known(h.event) /\ ~gevent[h.event].own
    /\ \A e \in Events : StaysHidden(e)
    /\ Shared(links) \subseteq unseen
    /\ ImportsAreCurrent
(***************************************************************************)
(* What a batch makes of the rows.  Reconciled is defined by recursion over *)
(* the sets of events; the first lemmas show that what it defines exists,   *)
(* and give the induction the rest needs, as a fact about a set G of rows.  *)
(***************************************************************************)

(***************************************************************************)
(* What a batch does is a function of the set of events done so far.  What *)
(* holds of the rows before it, and is kept by each event, holds after it: *)
(* the least set of events for which it did not would have one event less. *)
(***************************************************************************)
LEMMA LeastSubset ==
    ASSUME NEW D, IsFiniteSet(D), NEW T \in SUBSET SUBSET D, T # {}
    PROVE  \E s \in T : \A t \in T : t \subseteq s => t = s
<1>1. FiniteSubsetsOf(D) = SUBSET D
  BY FS_FiniteSubsetsOfFinite
<1>2. IsWellFoundedOn(StrictSubsetOrdering(D), SUBSET D)
  BY <1>1, FS_StrictSubsetOrderingWellFounded
<1>3. PICK s \in T : \A t \in T : ~ (<<t, s>> \in StrictSubsetOrdering(D))
  BY <1>2, WFMin
<1> QED
  BY <1>3 DEF StrictSubsetOrdering

Rows == [occurrence |-> occurrence, links |-> links]
Each(S, e, batch, begun) == {ReconcileChange(e, batch[e], begun, st) : st \in S}
After(f, s, batch, begun) ==
    IF s = {} THEN {Rows} ELSE UNION {Each(f[s \ {e}], e, batch, begun) : e \in s}
IsFold(f, D, batch, begun) == f = [s \in SUBSET D |-> After(f, s, batch, begun)]

LEMMA InAfter ==
    ASSUME NEW batch, NEW begun, NEW f, NEW s, s # {}, NEW x
    PROVE  x \in After(f, s, batch, begun) <=> \E e \in s : x \in Each(f[s \ {e}], e, batch, begun)
BY DEF After

LEMMA AfterSame ==
    ASSUME NEW batch, NEW begun, NEW f, NEW g, NEW s, \A e \in s : f[s \ {e}] = g[s \ {e}]
    PROVE  After(f, s, batch, begun) = After(g, s, batch, begun)
<1>1. CASE s = {}
  BY <1>1 DEF After
<1>2. CASE s # {}
  <2>1. PICK X, Y : X = After(f, s, batch, begun) /\ Y = After(g, s, batch, begun)
    OBVIOUS
  <2>2. \A x : x \in X <=> \E e \in s : x \in Each(f[s \ {e}], e, batch, begun)
    BY <1>2, <2>1, InAfter
  <2>3. \A x : x \in Y <=> \E e \in s : x \in Each(g[s \ {e}], e, batch, begun)
    BY <1>2, <2>1, InAfter
  <2>4. \A x : x \in X <=> x \in Y
    BY <2>2, <2>3
  <2> QED
    BY <2>1, <2>4
<1> QED
  BY <1>1, <1>2

LEMMA FoldUnique ==
    ASSUME NEW batch, NEW begun, NEW D, IsFiniteSet(D), NEW E, NEW f, NEW g,
           IsFold(f, D, batch, begun), IsFold(g, E, batch, begun), NEW s \in SUBSET D, s \in SUBSET E
    PROVE  f[s] = g[s]
<1> SUFFICES ASSUME f[s] # g[s] PROVE FALSE
  OBVIOUS
<1>0. PICK T : T = {t \in SUBSET s : f[t] # g[t]}
  OBVIOUS
<1>1. T \in SUBSET SUBSET D /\ T # {}
  BY <1>0
<1>2. PICK t \in T : \A u \in T : u \subseteq t => u = t
  BY <1>1, LeastSubset
<1>3. t \in SUBSET s /\ t \in SUBSET D /\ t \in SUBSET E /\ f[t] # g[t]
  BY <1>0, <1>2
<1>4. f[t] = After(f, t, batch, begun) /\ g[t] = After(g, t, batch, begun)
  BY <1>3, Zenon DEF IsFold
<1>5. \A e \in t : f[t \ {e}] = g[t \ {e}]
  BY <1>0, <1>2, <1>3
<1>6. After(f, t, batch, begun) = After(g, t, batch, begun)
  BY <1>5, AfterSame
<1> QED
  BY <1>3, <1>4, <1>6

LEMMA FoldExists ==
    ASSUME NEW batch, NEW begun, NEW D, IsFiniteSet(D)
    PROVE  \E f : IsFold(f, D, batch, begun)
<1> SUFFICES ASSUME ~\E f : IsFold(f, D, batch, begun) PROVE FALSE
  OBVIOUS
<1>0. PICK T : T = {t \in SUBSET D : ~\E f : IsFold(f, t, batch, begun)}
  OBVIOUS
<1>1. T \in SUBSET SUBSET D /\ T # {}
  BY <1>0
<1>2. PICK s \in T : \A u \in T : u \subseteq s => u = s
  BY <1>1, LeastSubset
<1>3. PICK F : F = [t \in SUBSET s |-> CHOOSE f : IsFold(f, t, batch, begun)]
  OBVIOUS
<1>4. ASSUME NEW t \in SUBSET s, t # s PROVE IsFold(F[t], t, batch, begun) /\ IsFiniteSet(t)
  <2>1. t \notin T /\ t \in SUBSET D
    BY <1>0, <1>2, <1>4
  <2>2. \E f : IsFold(f, t, batch, begun)
    BY <1>0, <2>1
  <2>3. F[t] = CHOOSE f : IsFold(f, t, batch, begun)
    BY <1>3
  <2> QED
    BY <2>1, <2>2, <2>3, FS_Subset
<1>5. PICK g : g = [t \in SUBSET s |-> F[t][t]]
  OBVIOUS
<1>6. PICK h : h = [t \in SUBSET s |-> IF t = s THEN After(g, s, batch, begun) ELSE g[t]]
  OBVIOUS
<1>7. ASSUME NEW t \in SUBSET s PROVE After(h, t, batch, begun) = After(g, t, batch, begun)
  <2>1. \A e \in t : t \ {e} \in SUBSET s /\ t \ {e} # s
    OBVIOUS
  <2>2. \A e \in t : h[t \ {e}] = g[t \ {e}]
    BY <2>1, <1>6
  <2> QED
    BY <2>2, AfterSame
<1>8. ASSUME NEW t \in SUBSET s, t # s PROVE g[t] = After(g, t, batch, begun)
  <2>1. g[t] = F[t][t] /\ F[t][t] = After(F[t], t, batch, begun)
    <3>1. IsFold(F[t], t, batch, begun) /\ t \in SUBSET t
      BY <1>4, <1>8
    <3> QED
      BY <1>5, <3>1, Zenon DEF IsFold
  <2>2. ASSUME NEW e \in t PROVE F[t][t \ {e}] = g[t \ {e}]
    <3>1. t \ {e} \in SUBSET s /\ t \ {e} # s /\ t \ {e} \in SUBSET t
      BY <1>8
    <3>2. g[t \ {e}] = F[t \ {e}][t \ {e}]
      BY <3>1, <1>5
    <3>3. IsFold(F[t], t, batch, begun) /\ IsFold(F[t \ {e}], t \ {e}, batch, begun) /\ IsFiniteSet(t)
      BY <1>4, <1>8, <3>1
    <3> QED
      BY <3>1, <3>2, <3>3, FoldUnique
  <2> QED
    BY <2>1, <2>2, AfterSame
<1>9. \A t \in SUBSET s : h[t] = After(h, t, batch, begun)
  BY <1>6, <1>7, <1>8
<1>10. IsFold(h, s, batch, begun)
  BY <1>6, <1>9 DEF IsFold
<1> QED
  BY <1>0, <1>2, <1>10

LEMMA ReconciledIn ==
    ASSUME NEW batch, NEW begun, IsFiniteSet(DOMAIN batch), NEW G, Rows \in G[{}],
           \A s \in SUBSET DOMAIN batch : \A e \in DOMAIN batch \ s : \A st \in G[s] :
               ReconcileChange(e, batch[e], begun, st) \in G[s \cup {e}],
           NEW st \in Reconciled(batch, begun)
    PROVE  st \in G[DOMAIN batch]
<1> DEFINE D == DOMAIN batch
<1>1. PICK f : IsFold(f, D, batch, begun) /\ Reconciled(batch, begun) = f[D]
  <2>1. PICK f : f = CHOOSE g : IsFold(g, D, batch, begun)
    OBVIOUS
  <2>2. IsFold(f, D, batch, begun)
    BY <2>1, FoldExists
  <2>3. Reconciled(batch, begun) = f[D]
    BY <2>1 DEF Reconciled, IsFold, After, Each, Rows
  <2> QED
    BY <2>2, <2>3
<1>2. \A s \in SUBSET D : f[s] = After(f, s, batch, begun)
  BY <1>1, Zenon DEF IsFold
<1>0. PICK T : T = {s \in SUBSET D : ~(f[s] \subseteq G[s])}
  OBVIOUS
<1>3. ASSUME T # {} PROVE FALSE
  <2>1. T \in SUBSET SUBSET D
    BY <1>0
  <2>2. PICK s \in T : \A u \in T : u \subseteq s => u = s
    BY <1>3, <2>1, LeastSubset
  <2>3. s \in SUBSET D /\ ~(f[s] \subseteq G[s])
    BY <1>0, <2>2
  <2>4. s # {}
    BY <1>2, <2>3 DEF After
  <2>5. PICK x \in f[s] : x \notin G[s]
    BY <2>3
  <2>6. PICK e \in s : \E y \in f[s \ {e}] : x = ReconcileChange(e, batch[e], begun, y)
    <3>1. x \in After(f, s, batch, begun)
      BY <1>2, <2>3, <2>5
    <3>2. PICK e \in s : x \in Each(f[s \ {e}], e, batch, begun)
      BY <2>4, <3>1, InAfter
    <3> QED
      BY <3>2 DEF Each
  <2>7. s \ {e} \in SUBSET D /\ s \ {e} # s /\ e \in D \ (s \ {e}) /\ (s \ {e}) \cup {e} = s
    BY <2>3, <2>6
  <2>8. f[s \ {e}] \subseteq G[s \ {e}]
    BY <1>0, <2>2, <2>7
  <2>9. PICK y \in G[s \ {e}] : x = ReconcileChange(e, batch[e], begun, y)
    BY <2>6, <2>8
  <2>10. ReconcileChange(e, batch[e], begun, y) \in G[(s \ {e}) \cup {e}]
    BY <2>7, <2>9
  <2> QED
    BY <2>5, <2>7, <2>9, <2>10
<1>4. f[D] \subseteq G[D]
  BY <1>0, <1>3
<1> QED
  BY <1>1, <1>4

(***************************************************************************)
(* The rows in the middle of a batch, after the events of s.               *)
(***************************************************************************)
RowsState == [occurrence : [Missions -> MissionRow], links : SUBSET Link]
Mirrors(row, said) ==
    IF said.at = "cancelled" THEN row.at = "cancelled" ELSE row.at = "active" /\ row.text = said.text

\* The missions of the app stay what they are.
MissionsAfter(st) ==
    \A m \in Missions : /\ st.occurrence[m].at \in Gone => ~External(st.occurrence[m])
                        /\ occurrence[m].at # "none" => st.occurrence[m].at # "none"
                        /\ ByTheApp(m) => ~External(st.occurrence[m])

\* A link after the events of s: its mission is there, and no other event's if it
\* came from outside.
LeadsOn(l, st) ==
    /\ Known(l.event) /\ st.occurrence[l.mission].at \notin Gone
    /\ External(st.occurrence[l.mission]) =>
          /\ \A k \in st.links : k.mission = l.mission => k = l
          /\ st.occurrence[l.mission].own = gevent[l.event].own

\* It is of an event of s that was not linked, and not hidden at its time ...
IsNew(l, s, batch, st) ==
    /\ l.event \in s /\ occurrence[l.mission].at = "none"
    /\ Mirrors(st.occurrence[l.mission], batch[l.event])
    /\ st.occurrence[l.mission].slot = batch[l.event].slot /\ ~IsHidden(l.event, batch[l.event].slot)
    /\ \A k \in st.links : k.event = l.event => k = l

\* ... or was there, and its mission is as it was or as the batch says.
WasThere(l, s, batch, st) ==
    /\ l \in links
    /\ External(st.occurrence[l.mission]) =>
          IF l.event \in s
          THEN l.event \in Shared(links) \/ st.occurrence[l.mission].at = "completed"
               \/ Mirrors(st.occurrence[l.mission], batch[l.event])
          ELSE st.occurrence[l.mission] = occurrence[l.mission]

Unlinked(s, batch) == {e \in DOMAIN batch \ s : ~Alone(e)}
RoomAfter(s, batch, st) ==
    /\ Cardinality(Unlinked(s, batch)) <= Cardinality(Unused(Missions, st.occurrence))
    /\ \A l \in links : l.event \notin s /\ LinksOf(l.mission) = {l} => l \in st.links

AfterBatch(s, batch, st) ==
    /\ MissionsAfter(st) /\ RoomAfter(s, batch, st)
    /\ \A l \in st.links : LeadsOn(l, st) /\ (IsNew(l, s, batch, st) \/ WasThere(l, s, batch, st))

\* What the lemmas assume of the batch.
BatchIs(batch) ==
    /\ DOMAIN batch \subseteq Events /\ RoomFor(batch)
    /\ \A e \in DOMAIN batch : batch[e] \in Answer /\ batch[e].own = gevent[e].own /\ Known(e)

LEMMA BeforeBatch ==
    ASSUME GoogleInv, NEW batch, BatchIs(batch)
    PROVE  Rows \in RowsState /\ AfterBatch({}, batch, Rows)
<1>1. Rows \in RowsState
  BY DEF Rows, RowsState, GoogleInv, RowsFit
<1>2. Rows.occurrence = occurrence /\ Rows.links = links
  BY DEF Rows
<1>3. MissionsAfter(Rows)
  BY <1>2 DEF MissionsAfter, GoogleInv, RowsFit, ByTheApp
<1>4. RoomAfter({}, batch, Rows)
  <2>1. Unlinked({}, batch) = {e \in DOMAIN batch : ~Alone(e)}
    BY DEF Unlinked
  <2> QED
    BY <1>2, <2>1 DEF RoomAfter, BatchIs, RoomFor
<1>5. ASSUME NEW l \in links PROVE LeadsOn(l, Rows) /\ WasThere(l, {}, batch, Rows)
  <2>1. LinkFits(l)
    BY <1>5 DEF GoogleInv
  <2> QED
    BY <1>2, <1>5, <2>1 DEF LeadsOn, WasThere, LinkFits, LinksOf
<1> QED
  BY <1>1, <1>2, <1>3, <1>4, <1>5 DEF AfterBatch

\* The mission that a linked event leads to.
LEMMA LinkedMissionIs ==
    ASSUME NEW st \in RowsState, NEW e \in Events
    PROVE  \/ LinkedMission(st, e) = NoOne /\ \A l \in st.links : l.event # e
           \/ \E l \in st.links : l.event = e /\ LinkedMission(st, e) = l.mission
BY Zenon DEF LinkedMission

\* Less room is needed for what is left.
LEMMA LessUnlinked ==
    ASSUME GoogleInv, NEW batch, BatchIs(batch), NEW s, NEW e \in DOMAIN batch \ s
    PROVE  /\ IsFiniteSet(Unlinked(s, batch)) /\ IsFiniteSet(Unlinked(s \cup {e}, batch))
           /\ Unlinked(s \cup {e}, batch) = Unlinked(s, batch) \ {e}
           /\ Cardinality(Unlinked(s, batch)) \in Nat
           /\ Cardinality(Unlinked(s \cup {e}, batch)) <= Cardinality(Unlinked(s, batch))
           /\ ~Alone(e) => Cardinality(Unlinked(s \cup {e}, batch)) = Cardinality(Unlinked(s, batch)) - 1
<1>1. PICK X, Y : X = Unlinked(s, batch) /\ Y = Unlinked(s \cup {e}, batch)
  OBVIOUS
<1>2. X \subseteq Events /\ IsFiniteSet(Events)
  BY <1>1, FiniteAssumption DEF Unlinked, BatchIs
<1>3. IsFiniteSet(X)
  BY <1>2, FS_Subset
<1>4. Y = X \ {e}
  BY <1>1 DEF Unlinked
<1>5. Cardinality(X) \in Nat /\ IsFiniteSet(Y) /\ Cardinality(Y) = IF e \in X THEN Cardinality(X) - 1 ELSE Cardinality(X)
  BY <1>3, <1>4, FS_CardinalityType, FS_RemoveElement
<1>6. ~Alone(e) => e \in X
  BY <1>1 DEF Unlinked
<1>7. PICK x, y : x = Cardinality(X) /\ y = Cardinality(Y)
  OBVIOUS
<1>8. x \in Nat /\ y <= x /\ (~Alone(e) => y = x - 1)
  BY <1>5, <1>6, <1>7
<1>9. Unlinked(s, batch) = X /\ Unlinked(s \cup {e}, batch) = Y
  BY <1>1
<1> QED
  BY <1>3, <1>4, <1>5, <1>7, <1>8, <1>9

\* An event that is not there, or may not change anything.
LEMMA ChangesNothing ==
    ASSUME GoogleInv, NEW batch, BatchIs(batch), NEW s, NEW e \in DOMAIN batch \ s, NEW st \in RowsState,
           AfterBatch(s, batch, st),
           \A l \in st.links : l.event = e => e \in Shared(links) \/ st.occurrence[l.mission].at = "completed"
    PROVE  AfterBatch(s \cup {e}, batch, st)
<1>1. RoomAfter(s \cup {e}, batch, st)
  <2>1. PICK a, b, c : a = Cardinality(Unlinked(s \cup {e}, batch)) /\ b = Cardinality(Unlinked(s, batch))
                       /\ c = Cardinality(Unused(Missions, st.occurrence))
    OBVIOUS
  <2>2. IsFiniteSet(Unused(Missions, st.occurrence))
    BY FS_Subset, FiniteAssumption DEF Unused
  <2>3. c \in Nat
    BY <2>1, <2>2, FS_CardinalityType
  <2>4. a \in Nat /\ a <= b /\ b \in Nat
    BY <2>1, LessUnlinked, FS_CardinalityType
  <2>5. b <= c
    BY <2>1 DEF AfterBatch, RoomAfter
  <2>6. a <= c
    BY <2>3, <2>4, <2>5
  <2> QED
    BY <2>1, <2>6 DEF AfterBatch, RoomAfter
<1>2. ASSUME NEW l \in st.links
      PROVE  IsNew(l, s \cup {e}, batch, st) \/ WasThere(l, s \cup {e}, batch, st)
  <2>1. CASE IsNew(l, s, batch, st)
    BY <2>1 DEF IsNew
  <2>2. CASE WasThere(l, s, batch, st)
    <3>1. CASE l.event = e
      BY <1>2, <2>2, <3>1 DEF WasThere
    <3>2. CASE l.event # e
      BY <2>2, <3>2 DEF WasThere
    <3> QED
      BY <3>1, <3>2
  <2> QED
    BY <1>2, <2>1, <2>2 DEF AfterBatch
<1> QED
  BY <1>1, <1>2 DEF AfterBatch

\* An event is imported as a mission of its own.
LEMMA ImportsOne ==
    ASSUME GoogleInv, NEW batch, BatchIs(batch), NEW s \in SUBSET DOMAIN batch, NEW e \in DOMAIN batch \ s,
           NEW st \in RowsState, AfterBatch(s, batch, st), \A l \in st.links : l.event # e,
           batch[e].at # "cancelled", ~IsHidden(e, batch[e].slot)
    PROVE  /\ Imported(e, batch[e], "event", st) \in RowsState
           /\ AfterBatch(s \cup {e}, batch, Imported(e, batch[e], "event", st))
<1>1. PICK U : U = Unused(Missions, st.occurrence)
  OBVIOUS
<1>2. PICK a, b, c : a = Cardinality(Unlinked(s \cup {e}, batch)) /\ b = Cardinality(Unlinked(s, batch))
                     /\ c = Cardinality(U)
  OBVIOUS
<1>3. IsFiniteSet(U) /\ c \in Nat
  <2>1. IsFiniteSet(U)
    BY <1>1, FS_Subset, FiniteAssumption DEF Unused
  <2> QED
    BY <1>2, <2>1, FS_CardinalityType
<1>4. ~Alone(e)
  BY DEF AfterBatch, RoomAfter, Alone
<1>5. a = b - 1 /\ b \in Nat /\ a \in Nat /\ b <= c
  <2>1. a = b - 1 /\ b \in Nat
    BY <1>2, <1>4, LessUnlinked
  <2>2. a \in Nat
    BY <1>2, LessUnlinked, FS_CardinalityType
  <2> QED
    BY <1>1, <1>2, <2>1, <2>2 DEF AfterBatch, RoomAfter
<1>6. U # {}
  BY <1>2, <1>5, FS_EmptySet
<1>7. PICK m : m = CHOOSE x \in U : TRUE
  OBVIOUS
<1>8. m \in U /\ m \in Missions /\ st.occurrence[m].at = "none"
  BY <1>1, <1>6, <1>7 DEF Unused
<1>9. e \in Events /\ batch[e] \in Answer /\ batch[e].own = gevent[e].own /\ Known(e) /\ batch[e].at = "confirmed"
  BY DEF BatchIs, Answer
<1>10. PICK row : row = ActiveRow("external", batch[e].own, batch[e].slot, batch[e].text)
  OBVIOUS
<1>11. /\ row \in MissionRow /\ row.at = "active" /\ External(row) /\ row.own = gevent[e].own
       /\ row.slot = batch[e].slot /\ row.text = batch[e].text
  BY <1>9, <1>10 DEF ActiveRow, MissionRow, External, Answer
<1>12. PICK new : new = LinkRow(e, "event", m)
  OBVIOUS
<1>13. new \in Link /\ new.event = e /\ new.mission = m
  BY <1>8, <1>9, <1>12 DEF LinkRow, Link
<1>14. PICK nxt : nxt = Imported(e, batch[e], "event", st)
  OBVIOUS
<1>15. nxt = [occurrence |-> [st.occurrence EXCEPT ![m] = row], links |-> st.links \cup {new}]
  BY <1>1, <1>7, <1>10, <1>12, <1>14 DEF Imported
<1>16. /\ nxt \in RowsState /\ nxt.links = st.links \cup {new}
       /\ nxt.occurrence = [st.occurrence EXCEPT ![m] = row]
  BY <1>11, <1>13, <1>15 DEF RowsState
<1>17. nxt.occurrence[m] = row /\ \A x \in Missions \ {m} : nxt.occurrence[x] = st.occurrence[x]
  BY <1>8, <1>16 DEF RowsState
<1>18. \A l \in st.links : l \in Link /\ l.mission \in Missions \ {m} /\ l.event # e
  <2>1. \A l \in st.links : LeadsOn(l, st) /\ l \in Link
    BY DEF AfterBatch, RowsState
  <2> QED
    BY <1>8, <2>1 DEF LeadsOn, Gone, Link
<1>19. MissionsAfter(nxt)
  <2>1. ~ByTheApp(m)
    BY <1>8 DEF AfterBatch, MissionsAfter, ByTheApp
  <2> QED
    BY <1>11, <1>17, <2>1 DEF AfterBatch, MissionsAfter, Gone
<1>20. RoomAfter(s \cup {e}, batch, nxt)
  <2>1. Unused(Missions, nxt.occurrence) = U \ {m}
    BY <1>1, <1>11, <1>17 DEF Unused
  <2>2. Cardinality(Unused(Missions, nxt.occurrence)) = c - 1
    BY <1>2, <1>3, <1>8, <2>1, FS_RemoveElement
  <2>3. a <= c - 1
    BY <1>3, <1>5
  <2>4. Cardinality(Unlinked(s \cup {e}, batch)) <= Cardinality(Unused(Missions, nxt.occurrence))
    BY <1>2, <2>2, <2>3
  <2> QED
    BY <1>16, <2>4 DEF AfterBatch, RoomAfter
<1>21. ASSUME NEW l \in st.links
       PROVE  LeadsOn(l, nxt) /\ (IsNew(l, s \cup {e}, batch, nxt) \/ WasThere(l, s \cup {e}, batch, nxt))
  <2>1. nxt.occurrence[l.mission] = st.occurrence[l.mission] /\ l.event # e
    BY <1>17, <1>18
  <2>2. LeadsOn(l, nxt)
    <3>1. LeadsOn(l, st)
      BY DEF AfterBatch
    <3> QED
      BY <1>13, <1>16, <1>18, <2>1, <3>1 DEF LeadsOn
  <2>3. CASE IsNew(l, s, batch, st)
    BY <1>13, <1>16, <1>18, <2>1, <2>2, <2>3 DEF IsNew
  <2>4. CASE WasThere(l, s, batch, st)
    BY <2>1, <2>2, <2>4 DEF WasThere
  <2> QED
    BY <2>3, <2>4 DEF AfterBatch
<1>22. LeadsOn(new, nxt)
  BY <1>9, <1>11, <1>13, <1>16, <1>17, <1>18 DEF LeadsOn, Gone
<1>23. IsNew(new, s \cup {e}, batch, nxt)
  <2>1. occurrence[m].at = "none"
    BY <1>8 DEF AfterBatch, MissionsAfter
  <2>2. \A k \in nxt.links : k.event = e => k = new
    BY <1>16, <1>18
  <2>3. Mirrors(row, batch[e])
    BY <1>9, <1>11 DEF Mirrors
  <2> QED
    BY <1>11, <1>13, <1>17, <2>1, <2>2, <2>3 DEF IsNew
<1>24. AfterBatch(s \cup {e}, batch, nxt)
  BY <1>16, <1>19, <1>20, <1>21, <1>22, <1>23 DEF AfterBatch
<1> QED
  BY <1>14, <1>16, <1>24

\* The mission of an event is given another row.
LEMMA ChangesOne ==
    ASSUME GoogleInv, NEW batch, BatchIs(batch), NEW s \in SUBSET DOMAIN batch, NEW e \in DOMAIN batch \ s,
           NEW st \in RowsState, AfterBatch(s, batch, st), NEW l0 \in st.links, l0.event = e,
           NEW m, m = l0.mission, NEW row \in MissionRow, row.at \notin Gone, row.source = st.occurrence[m].source,
           Mirrors(row, batch[e]), External(row) => row.own = gevent[e].own
    PROVE  LET nxt == [st EXCEPT !.occurrence[m] = row]
           IN  nxt \in RowsState /\ AfterBatch(s \cup {e}, batch, nxt)
<1>1. PICK nxt : nxt = [st EXCEPT !.occurrence[m] = row]
  OBVIOUS
<1>2. m \in Missions /\ l0 \in Link /\ LeadsOn(l0, st) /\ e \in Events
  BY DEF AfterBatch, RowsState, Link, BatchIs
<1>3. nxt \in RowsState /\ nxt.links = st.links /\ nxt.occurrence = [st.occurrence EXCEPT ![m] = row]
  BY <1>1, <1>2 DEF RowsState
<1>4. nxt.occurrence[m] = row /\ \A x \in Missions \ {m} : nxt.occurrence[x] = st.occurrence[x]
  BY <1>2, <1>3 DEF RowsState
<1>5. External(row) <=> External(st.occurrence[m])
  BY DEF External
<1>6. External(row) => \A k \in st.links : k.mission = m => k = l0
  BY <1>2, <1>5 DEF LeadsOn
<1>7. \A l \in st.links : l \in Link /\ l.mission \in Missions
  BY DEF RowsState, Link
<1>8. l0 \in links /\ occurrence[m].at # "none"
  <2>1. ~IsNew(l0, s, batch, st)
    BY DEF IsNew
  <2>2. l0 \in links
    BY <2>1 DEF AfterBatch, WasThere
  <2> QED
    BY <2>2 DEF GoogleInv, LinkFits, Gone
<1>9. MissionsAfter(nxt)
  BY <1>4, <1>5 DEF AfterBatch, MissionsAfter, Gone
<1>10. RoomAfter(s \cup {e}, batch, nxt)
  <2>1. st.occurrence[m].at # "none"
    BY <1>2 DEF LeadsOn, Gone
  <2>2. Unused(Missions, nxt.occurrence) = Unused(Missions, st.occurrence)
    BY <1>4, <2>1 DEF Unused, Gone
  <2>3. PICK a, b, c : a = Cardinality(Unlinked(s \cup {e}, batch)) /\ b = Cardinality(Unlinked(s, batch))
                       /\ c = Cardinality(Unused(Missions, st.occurrence))
    OBVIOUS
  <2>4. IsFiniteSet(Unused(Missions, st.occurrence))
    BY FS_Subset, FiniteAssumption DEF Unused
  <2>5. c \in Nat /\ a \in Nat /\ a <= b /\ b \in Nat
    BY <2>3, <2>4, LessUnlinked, FS_CardinalityType
  <2>6. b <= c
    BY <2>3 DEF AfterBatch, RoomAfter
  <2>7. a <= c
    BY <2>5, <2>6
  <2> QED
    BY <1>3, <2>2, <2>3, <2>7 DEF AfterBatch, RoomAfter
<1>11. ASSUME NEW l \in st.links
       PROVE  LeadsOn(l, nxt) /\ (IsNew(l, s \cup {e}, batch, nxt) \/ WasThere(l, s \cup {e}, batch, nxt))
  <2>1. LeadsOn(l, st)
    BY DEF AfterBatch
  <2>2. CASE l.mission # m
    <3>1. nxt.occurrence[l.mission] = st.occurrence[l.mission]
      BY <1>4, <1>7, <2>2
    <3>2. LeadsOn(l, nxt)
      BY <1>3, <2>1, <3>1 DEF LeadsOn
    <3>3. CASE IsNew(l, s, batch, st)
      BY <1>3, <3>1, <3>2, <3>3 DEF IsNew
    <3>4. CASE WasThere(l, s, batch, st)
      <4>1. CASE l.event = e
        <5>1. l \in links /\ l0 \in links /\ l # l0 /\ l.event = e
          BY <1>8, <2>2, <3>4, <4>1 DEF WasThere
        <5>2. e \in Shared(links)
          BY <1>2, <5>1 DEF Shared
        <5> QED
          BY <3>2, <4>1, <5>1, <5>2 DEF WasThere
      <4>2. CASE l.event # e
        BY <3>1, <3>2, <3>4, <4>2 DEF WasThere
      <4> QED
        BY <4>1, <4>2
    <3> QED
      BY <3>3, <3>4 DEF AfterBatch
  <2>3. CASE l.mission = m
    <3>1. LeadsOn(l, nxt)
      BY <1>2, <1>3, <1>4, <1>5, <1>6, <2>1, <2>3 DEF LeadsOn
    <3>2. WasThere(l, s, batch, st)
      BY <1>8, <2>3 DEF AfterBatch, IsNew
    <3>3. WasThere(l, s \cup {e}, batch, nxt)
      BY <1>4, <1>6, <2>3, <3>2 DEF WasThere
    <3> QED
      BY <3>1, <3>3
  <2> QED
    BY <2>2, <2>3
<1>12. AfterBatch(s \cup {e}, batch, nxt)
  BY <1>3, <1>9, <1>10, <1>11 DEF AfterBatch
<1> QED
  BY <1>1, <1>3, <1>12

\* The mission of an event is deleted, and its links with it.
LEMMA DeletesOne ==
    ASSUME GoogleInv, NEW batch, BatchIs(batch), NEW s \in SUBSET DOMAIN batch, NEW e \in DOMAIN batch \ s,
           NEW st \in RowsState, AfterBatch(s, batch, st), NEW l0 \in st.links, l0.event = e,
           NEW m, m = l0.mission
    PROVE  LET nxt == [occurrence |-> [st.occurrence EXCEPT ![m] = [NoMission EXCEPT !.at = "deleted"]],
                       links |-> {l \in st.links : l.mission # m}]
           IN  nxt \in RowsState /\ AfterBatch(s \cup {e}, batch, nxt)
<1>1. PICK row : row = [NoMission EXCEPT !.at = "deleted"]
  OBVIOUS
<1>2. row \in MissionRow /\ row.at = "deleted" /\ ~External(row)
  <2>1. row = [at |-> "deleted", source |-> "internal", own |-> TRUE, sync |-> "synced", slot |-> 1, text |-> 0]
    BY <1>1 DEF NoMission
  <2> QED
    BY <2>1 DEF MissionRow, Slots, External
<1>3. PICK nxt : nxt = [occurrence |-> [st.occurrence EXCEPT ![m] = row],
                        links |-> {l \in st.links : l.mission # m}]
  OBVIOUS
<1>4. m \in Missions /\ l0 \in Link /\ LeadsOn(l0, st) /\ e \in Events
  BY DEF AfterBatch, RowsState, Link, BatchIs
<1>5. /\ nxt \in RowsState /\ nxt.links = {l \in st.links : l.mission # m}
      /\ nxt.occurrence = [st.occurrence EXCEPT ![m] = row]
  BY <1>2, <1>3, <1>4 DEF RowsState
<1>6. nxt.occurrence[m] = row /\ \A x \in Missions \ {m} : nxt.occurrence[x] = st.occurrence[x]
  BY <1>4, <1>5 DEF RowsState
<1>7. \A l \in st.links : l \in Link /\ l.mission \in Missions
  BY DEF RowsState, Link
<1>8. l0 \in links
  BY DEF AfterBatch, IsNew, WasThere
<1>9. MissionsAfter(nxt)
  BY <1>2, <1>6 DEF AfterBatch, MissionsAfter, Gone
<1>10. RoomAfter(s \cup {e}, batch, nxt)
  <2>1. st.occurrence[m].at # "none"
    BY <1>4 DEF LeadsOn, Gone
  <2>2. Unused(Missions, nxt.occurrence) = Unused(Missions, st.occurrence)
    BY <1>2, <1>6, <2>1 DEF Unused, Gone
  <2>3. PICK a, b, c : a = Cardinality(Unlinked(s \cup {e}, batch)) /\ b = Cardinality(Unlinked(s, batch))
                       /\ c = Cardinality(Unused(Missions, st.occurrence))
    OBVIOUS
  <2>4. IsFiniteSet(Unused(Missions, st.occurrence))
    BY FS_Subset, FiniteAssumption DEF Unused
  <2>5. c \in Nat /\ a \in Nat /\ a <= b /\ b \in Nat
    BY <2>3, <2>4, LessUnlinked, FS_CardinalityType
  <2>6. b <= c
    BY <2>3 DEF AfterBatch, RoomAfter
  <2>7. a <= c
    BY <2>5, <2>6
  <2>8. ASSUME NEW l \in links, l.event \notin s \cup {e}, LinksOf(l.mission) = {l} PROVE l \in nxt.links
    <3>1. l \in st.links
      BY <2>8 DEF AfterBatch, RoomAfter
    <3>2. l.mission # m
      BY <1>8, <2>8 DEF LinksOf
    <3> QED
      BY <1>5, <3>1, <3>2
  <2> QED
    BY <2>2, <2>3, <2>7, <2>8 DEF RoomAfter
<1>11. ASSUME NEW l \in nxt.links
       PROVE  LeadsOn(l, nxt) /\ (IsNew(l, s \cup {e}, batch, nxt) \/ WasThere(l, s \cup {e}, batch, nxt))
  <2>1. l \in st.links /\ LeadsOn(l, st) /\ l.mission # m
    BY <1>5, <1>11 DEF AfterBatch
  <2>2. nxt.occurrence[l.mission] = st.occurrence[l.mission]
    BY <1>6, <1>7, <2>1
  <2>3. LeadsOn(l, nxt)
    BY <1>5, <2>1, <2>2 DEF LeadsOn
  <2>4. CASE IsNew(l, s, batch, st)
    BY <1>5, <2>2, <2>3, <2>4 DEF IsNew
  <2>5. CASE WasThere(l, s, batch, st)
    <3>1. CASE l.event = e
      <4>1. l \in links /\ l0 \in links /\ l # l0 /\ l.event = e
        BY <1>8, <2>1, <2>5, <3>1 DEF WasThere
      <4>2. e \in Shared(links)
        BY <1>4, <4>1 DEF Shared
      <4> QED
        BY <2>3, <3>1, <4>1, <4>2 DEF WasThere
    <3>2. CASE l.event # e
      BY <2>2, <2>3, <2>5, <3>2 DEF WasThere
    <3> QED
      BY <3>1, <3>2
  <2> QED
    BY <2>1, <2>4, <2>5 DEF AfterBatch
<1>12. AfterBatch(s \cup {e}, batch, nxt)
  BY <1>9, <1>10, <1>11 DEF AfterBatch
<1> QED
  BY <1>1, <1>3, <1>5, <1>12

LEMMA OneEvent ==
    ASSUME GoogleInv, NEW batch, BatchIs(batch), NEW begun, NEW s \in SUBSET DOMAIN batch, NEW e \in DOMAIN batch \ s,
           NEW st \in RowsState, AfterBatch(s, batch, st)
    PROVE  /\ ReconcileChange(e, batch[e], begun, st) \in RowsState
           /\ AfterBatch(s \cup {e}, batch, ReconcileChange(e, batch[e], begun, st))
<1>1. e \in Events /\ batch[e] \in Answer /\ batch[e].own = gevent[e].own
  BY DEF BatchIs
<1>2. PICK m : m = LinkedMission(st, e)
  OBVIOUS
<1>3. CASE m = NoOne
  <2>1. \A l \in st.links : l.event # e
    <3>1. \A l \in st.links : l.mission # NoOne
      BY NoOneAssumption DEF RowsState, Link
    <3>2. \/ m = NoOne /\ \A l \in st.links : l.event # e
          \/ \E l \in st.links : l.event = e /\ m = l.mission
      BY <1>1, <1>2, LinkedMissionIs
    <3> QED
      BY <1>3, <3>1, <3>2
  <2>2. AfterBatch(s \cup {e}, batch, st)
    BY <2>1, ChangesNothing
  <2>3. CASE batch[e].at = "cancelled" \/ IsHidden(e, batch[e].slot)
    BY <1>2, <1>3, <2>2, <2>3 DEF ReconcileChange, ReconcileDelete, ReconcileUpsert, InsertImportedEvent
  <2>4. CASE batch[e].at # "cancelled" /\ ~IsHidden(e, batch[e].slot)
    <3>1. ReconcileChange(e, batch[e], begun, st) = Imported(e, batch[e], "event", st)
      BY <1>2, <1>3, <2>4 DEF ReconcileChange, ReconcileUpsert, InsertImportedEvent
    <3> QED
      BY <2>1, <2>4, <3>1, ImportsOne
  <2> QED
    BY <2>3, <2>4
<1>4. CASE m # NoOne
  <2>1. PICK l0 \in st.links : l0.event = e /\ m = l0.mission
    BY <1>1, <1>2, <1>4, LinkedMissionIs
  <2>2. PICK old : old = st.occurrence[m]
    OBVIOUS
  <2>3. m \in Missions /\ old \in MissionRow /\ old.at \notin Gone
        /\ (External(old) => old.own = gevent[e].own)
    <3>1. LeadsOn(l0, st) /\ m \in Missions
      BY <2>1 DEF AfterBatch, RowsState, Link
    <3> QED
      BY <2>1, <2>2, <3>1 DEF LeadsOn, RowsState
  <2>4. CASE ~MayChange(old)
    <3>1. old.at = "completed"
      BY <2>3, <2>4 DEF MayChange, ProviderIsNewerThanLocal, MissionRow
    <3>2. ASSUME NEW l \in st.links, l.event = e
          PROVE  e \in Shared(links) \/ st.occurrence[l.mission].at = "completed"
      <4>1. l \in links /\ l0 \in links
        BY <2>1, <3>2 DEF AfterBatch, IsNew, WasThere
      <4>2. CASE l = l0
        BY <2>1, <2>2, <3>1, <4>2
      <4>3. CASE l # l0
        BY <1>1, <2>1, <3>2, <4>1, <4>3 DEF Shared
      <4> QED
        BY <4>2, <4>3
    <3>3. AfterBatch(s \cup {e}, batch, st)
      BY <3>2, ChangesNothing
    <3> QED
      BY <1>2, <1>4, <2>2, <2>4, <3>3
         DEF ReconcileChange, ReconcileDelete, ReconcileUpsert, UpdateImportedEvent
  <2>5. CASE MayChange(old) /\ batch[e].at # "cancelled"
    <3>1. PICK row : row = [old EXCEPT !.at = "active", !.own = batch[e].own,
                                       !.sync = "synced", !.slot = batch[e].slot, !.text = batch[e].text]
      OBVIOUS
    <3>2. /\ row \in MissionRow /\ row.at \notin Gone /\ row.source = old.source
          /\ row.own = gevent[e].own /\ Mirrors(row, batch[e])
      BY <1>1, <2>3, <2>5, <3>1 DEF MissionRow, Answer, Gone, Mirrors
    <3>3. ReconcileChange(e, batch[e], begun, st) = [st EXCEPT !.occurrence[m] = row]
      BY <1>2, <1>4, <2>2, <2>5, <3>1 DEF ReconcileChange, ReconcileUpsert, UpdateImportedEvent
    <3> QED
      BY <2>1, <2>2, <3>2, <3>3, ChangesOne
  <2>6. CASE MayChange(old) /\ batch[e].at = "cancelled" /\ m \in begun
    <3>1. PICK row : row = [old EXCEPT !.at = "cancelled"]
      OBVIOUS
    <3>2. /\ row \in MissionRow /\ row.at \notin Gone /\ row.source = old.source
          /\ row.own = old.own /\ Mirrors(row, batch[e]) /\ (External(row) => External(old))
      BY <1>1, <2>3, <2>6, <3>1 DEF MissionRow, Answer, Gone, Mirrors, External
    <3>3. ReconcileChange(e, batch[e], begun, st) = [st EXCEPT !.occurrence[m] = row]
      BY <1>2, <1>4, <2>2, <2>6, <3>1 DEF ReconcileChange, ReconcileDelete
    <3> QED
      BY <2>1, <2>2, <2>3, <3>2, <3>3, ChangesOne
  <2>7. CASE MayChange(old) /\ batch[e].at = "cancelled" /\ m \notin begun
    <3>1. ReconcileChange(e, batch[e], begun, st)
          = [occurrence |-> [st.occurrence EXCEPT ![m] = [NoMission EXCEPT !.at = "deleted"]],
             links |-> {l \in st.links : l.mission # m}]
      BY <1>2, <1>4, <2>2, <2>7 DEF ReconcileChange, ReconcileDelete
    <3> QED
      BY <2>1, <3>1, DeletesOne
  <2> QED
    BY <2>4, <2>5, <2>6, <2>7
<1> QED
  BY <1>3, <1>4

LEMMA BatchLeaves ==
    ASSUME GoogleInv, NEW batch, BatchIs(batch), NEW begun, NEW st \in Reconciled(batch, begun)
    PROVE  st \in RowsState /\ AfterBatch(DOMAIN batch, batch, st)
<1>1. PICK G : G = [s \in SUBSET DOMAIN batch |-> {x \in RowsState : AfterBatch(s, batch, x)}]
  OBVIOUS
<1>2. Rows \in G[{}]
  <2>1. Rows \in RowsState /\ AfterBatch({}, batch, Rows)
    BY BeforeBatch
  <2> QED
    BY <1>1, <2>1
<1>3. ASSUME NEW s \in SUBSET DOMAIN batch, NEW e \in DOMAIN batch \ s, NEW x \in G[s]
      PROVE  ReconcileChange(e, batch[e], begun, x) \in G[s \cup {e}]
  <2>1. x \in RowsState /\ AfterBatch(s, batch, x) /\ s \cup {e} \in SUBSET DOMAIN batch
    BY <1>1
  <2>2. /\ ReconcileChange(e, batch[e], begun, x) \in RowsState
        /\ AfterBatch(s \cup {e}, batch, ReconcileChange(e, batch[e], begun, x))
    BY <2>1, OneEvent
  <2> QED
    BY <1>1, <2>1, <2>2
<1>4. IsFiniteSet(DOMAIN batch)
  BY FiniteAssumption, FS_Subset DEF BatchIs
<1>5. st \in G[DOMAIN batch]
  BY <1>2, <1>3, <1>4, ReconciledIn
<1> QED
  BY <1>1, <1>5

(***************************************************************************)
(* The steps.                                                              *)
(***************************************************************************)

(***************************************************************************)
(* The steps.  First those that leave missions, links and what is hidden   *)
(* alone.                                                                  *)
(***************************************************************************)
LEMMA GoogleInvInit == SyncInit => GoogleInv
<1> SUFFICES ASSUME SyncInit PROVE GoogleInv
  OBVIOUS
<1> USE DEF SyncInit
<1>1. RowsFit
  <2>1. NoEvent \in EventRow /\ NoEvent.at = "none" /\ NoEvent.updated = 0
    BY DEF NoEvent, EventRow, Slots
  <2>2. NoMission \in MissionRow /\ ~External(NoMission)
    BY DEF NoMission, MissionRow, Slots, External
  <2> QED
    BY <2>1, <2>2 DEF RowsFit, Connection, Known
<1>2. RestoreFits
  BY DEF RestoreFits
<1>3. \A r \in SyncRuns : BatchFits(r)
  BY DEF BatchFits, At, NoRun, Shaped
<1>4. /\ \A l \in links : LinkFits(l)
      /\ \A h \in hidden : Known(h.event) /\ ~gevent[h.event].own
      /\ \A e \in Events : StaysHidden(e)
      /\ Shared(links) \subseteq unseen
      /\ ImportsAreCurrent
  BY DEF StaysHidden, Shared, ImportsAreCurrent
<1> QED
  BY <1>1, <1>2, <1>3, <1>4 DEF GoogleInv

\* A run that does nothing, while missions of the app stay what they are.
LEMMA BatchStays ==
    ASSUME GoogleInv, clock' \in Nat, clock <= clock', gevent' = gevent,
           \A m \in Missions : ByTheApp(m) => ByTheApp(m)',
           NEW r \in SyncRuns, run'[r] = run[r]
    PROVE  BatchFits(r)'
<1>1. PICK b : b = run[r]
  OBVIOUS
<1>2. BatchFits(r) /\ clock \in Nat /\ run[r] = b /\ run'[r] = b
  BY <1>1 DEF GoogleInv, RowsFit
<1>3. b.at \in {"send", "record"} => DOMAIN b.batch \subseteq {m \in Missions : ByTheApp(m)'}
  BY <1>2 DEF BatchFits, At
<1> QED
  BY <1>2, <1>3 DEF BatchFits, At, Known, Normalized

\* A run that goes on without a batch.
LEMMA NoBatchFits ==
    ASSUME NEW r \in SyncRuns, Shaped(run'[r]), run'[r].at \notin {"apply", "replace", "send", "record"}
    PROVE  BatchFits(r)'
BY DEF BatchFits, At

\* Nothing but runs and the connection moves.
LEMMA RunsMove ==
    ASSUME GoogleInv, UNCHANGED <<google, occurrence, links, hidden, restoring, unseen, dismissed>>,
           calendar'.cursor \in {calendar.cursor, 0}, calendar' = [state |-> calendar'.state, cursor |-> calendar'.cursor],
           run' = [r \in SyncRuns |-> run'[r]],
           \A r \in SyncRuns : run'[r] = run[r] \/ BatchFits(r)'
    PROVE  GoogleInv'
<1>1. RowsFit'
  BY DEF GoogleInv, RowsFit, google, Known
<1>2. RestoreFits'
  BY DEF GoogleInv, RestoreFits, google, Known
<1>3. \A r \in SyncRuns : BatchFits(r)'
  <2>1. \A m \in Missions : ByTheApp(m) => ByTheApp(m)'
    BY DEF ByTheApp
  <2>2. clock' = clock /\ clock \in Nat /\ gevent' = gevent
    BY DEF google, GoogleInv, RowsFit
  <2> QED
    BY <2>1, <2>2, BatchStays
<1>4. /\ \A l \in links' : LinkFits(l)'
      /\ \A h \in hidden' : Known(h.event)' /\ ~gevent'[h.event].own
      /\ \A e \in Events : StaysHidden(e)'
      /\ Shared(links') \subseteq unseen'
  BY DEF GoogleInv, google, LinkFits, LinksOf, Known, StaysHidden, IsHidden
<1>5. ImportsAreCurrent'
  <2> SUFFICES ASSUME NEW l \in links, l.event \notin unseen, occurrence[l.mission].source = "external",
                      occurrence[l.mission].at # "completed", gevent[l.event].updated <= calendar'.cursor
               PROVE  IF gevent[l.event].at = "cancelled" THEN occurrence[l.mission].at = "cancelled"
                      ELSE occurrence[l.mission].at = "active" /\ occurrence[l.mission].text = gevent[l.event].text
    BY DEF ImportsAreCurrent, google
  <2>1. gevent[l.event].updated <= calendar.cursor
    <3>1. l.event \in Events /\ gevent[l.event].updated \in Nat /\ calendar.cursor \in Nat
      BY DEF GoogleInv, RowsFit, Link, EventRow
    <3> QED
      BY <3>1
  <2> QED
    BY <2>1 DEF GoogleInv, ImportsAreCurrent
<1> QED
  BY <1>1, <1>2, <1>3, <1>4, <1>5 DEF GoogleInv

\* Events change at Google; one that does has its time.
EventsMove ==
    /\ clock' = clock + 1 /\ gevent' \in [Events -> EventRow]
    /\ \A e \in Events :
          \/ gevent'[e] = gevent[e]
          \/ /\ gevent'[e].updated = clock + 1 /\ gevent'[e].at # "none"
             /\ Known(e) => gevent'[e].own = gevent[e].own

LEMMA BatchOutlives ==
    ASSUME GoogleInv, EventsMove, occurrence' = occurrence, NEW r \in SyncRuns, run'[r] = run[r]
    PROVE  BatchFits(r)'
<1>1. PICK b : b = run[r]
  OBVIOUS
<1>2. BatchFits(r) /\ clock \in Nat /\ run[r] = b /\ run'[r] = b
  BY <1>1 DEF GoogleInv, RowsFit
<1>3. \A e \in Events : gevent'[e] = gevent[e] \/ gevent'[e].updated = clock + 1
  BY DEF EventsMove
<1>4. \A e \in Events : Known(e) => Known(e)' /\ gevent'[e].own = gevent[e].own
  BY DEF EventsMove, Known
<1>5. \A e \in Events : gevent'[e].updated \in Nat
  BY DEF EventsMove, EventRow
<1>6. clock' = clock + 1
  BY DEF EventsMove
<1>7. ASSUME b.at \in {"apply", "replace"}
      PROVE  /\ DOMAIN b.batch \subseteq Events /\ b.upto \in 0 .. clock' /\ b.since \in Nat
             /\ \A e \in DOMAIN b.batch :
                   /\ Known(e)' /\ b.batch[e] \in Answer /\ b.batch[e].own = gevent'[e].own
                   /\ gevent'[e].updated <= b.upto => b.batch[e] = Normalized(e)'
  <2>1. DOMAIN b.batch \subseteq Events /\ b.upto \in 0 .. clock /\ b.since \in Nat
    BY <1>2, <1>7 DEF BatchFits, At
  <2>2. ASSUME NEW e \in DOMAIN b.batch
        PROVE  /\ Known(e)' /\ b.batch[e] \in Answer /\ b.batch[e].own = gevent'[e].own
               /\ gevent'[e].updated <= b.upto => b.batch[e] = Normalized(e)'
    <3>1. Known(e) /\ b.batch[e] \in Answer /\ b.batch[e].own = gevent[e].own /\ e \in Events
          /\ (gevent[e].updated <= b.upto => b.batch[e] = Normalized(e))
      BY <1>2, <1>7, <2>2 DEF BatchFits, At
    <3>2. CASE gevent'[e] = gevent[e]
      BY <3>1, <3>2 DEF Known, Normalized
    <3>3. CASE gevent'[e].updated = clock + 1
      BY <1>2, <1>4, <2>1, <3>1, <3>3
    <3> QED
      BY <1>3, <3>1, <3>2, <3>3
  <2> QED
    BY <1>2, <1>6, <2>1, <2>2
<1>8. ASSUME b.at = "apply", NEW e \in Events \ DOMAIN b.batch, gevent'[e].updated <= b.upto
      PROVE  gevent'[e].updated <= b.since
  BY <1>2, <1>3, <1>8 DEF BatchFits, At
<1>9. ASSUME b.at \in {"send", "record"}
      PROVE  DOMAIN b.batch \subseteq {m \in Missions : ByTheApp(m)'}
  BY <1>2, <1>9 DEF BatchFits, At, ByTheApp
<1>10. ASSUME b.at = "record", NEW m \in DOMAIN b.batch, b.batch[m] # NoOne
       PROVE  b.batch[m] \in Events /\ Known(b.batch[m])' /\ gevent'[b.batch[m]].own
  BY <1>2, <1>4, <1>10 DEF BatchFits, At
<1> QED
  BY <1>2, <1>7, <1>8, <1>9, <1>10 DEF BatchFits, At

LEMMA GoogleMoves ==
    ASSUME GoogleInv, EventsMove, UNCHANGED <<rows, calendar, restoring, unseen, dismissed>>,
           run' = [r \in SyncRuns |-> run'[r]], \A r \in SyncRuns : run'[r] = run[r] \/ BatchFits(r)'
    PROVE  GoogleInv'
<1>1. UNCHANGED <<occurrence, links, hidden>> /\ clock \in Nat /\ clock' = clock + 1
  BY DEF rows, GoogleInv, RowsFit, EventsMove
<1>2. \A e \in Events : gevent'[e] = gevent[e] \/ (gevent'[e].updated = clock + 1 /\ gevent'[e].at # "none")
  BY DEF EventsMove
<1>3. \A e \in Events : Known(e) => Known(e)' /\ gevent'[e].own = gevent[e].own
  BY DEF EventsMove, Known
<1>4. RowsFit'
  <2>1. RowsFit
    BY DEF GoogleInv
  <2>2. calendar'.cursor \in 0 .. clock'
    BY <1>1, <2>1 DEF RowsFit
  <2>3. ASSUME NEW e \in Events PROVE gevent'[e].updated <= clock' /\ (Known(e)' <=> gevent'[e].updated # 0)
    <3>1. gevent[e].updated <= clock /\ (Known(e) <=> gevent[e].updated # 0) /\ gevent[e].updated \in Nat
      BY <2>1, <2>3 DEF RowsFit, EventRow
    <3> QED
      BY <1>1, <1>2, <3>1 DEF Known
  <2>4. gevent' \in [Events -> EventRow]
    BY DEF EventsMove
  <2> QED
    BY <1>1, <2>1, <2>2, <2>3, <2>4 DEF RowsFit
<1>5. RestoreFits'
  <2>1. restoring # NoRestore => restoring.of.event \in Events
    BY DEF GoogleInv, RestoreFits, HiddenEvent
  <2> QED
    BY <1>3, <2>1 DEF GoogleInv, RestoreFits
<1>6. \A r \in SyncRuns : BatchFits(r)'
  BY <1>1, BatchOutlives
<1>7. \A l \in links : l.event \in Events
  BY DEF GoogleInv, RowsFit, Link
<1>8. \A l \in links' : LinkFits(l)'
  <2>1. \A l \in links : LinkFits(l)
    BY DEF GoogleInv
  <2> QED
    BY <1>1, <1>3, <1>7, <2>1 DEF LinkFits, LinksOf
<1>9. \A h \in hidden' : Known(h.event)' /\ ~gevent'[h.event].own
  <2>1. \A h \in hidden : h.event \in Events
    BY DEF GoogleInv, RowsFit, HiddenEvent
  <2> QED
    BY <1>1, <1>3, <2>1 DEF GoogleInv
<1>10. ASSUME NEW e \in Events PROVE StaysHidden(e)'
  <2>1. SUFFICES ASSUME dismissed[e] # 0 PROVE IsHidden(e, dismissed[e])' /\ ~gevent'[e].own /\ e \notin Shared(links)
    BY <1>1 DEF StaysHidden, Shared
  <2>2. IsHidden(e, dismissed[e]) /\ ~gevent[e].own /\ e \notin Shared(links)
    BY <2>1 DEF GoogleInv, StaysHidden
  <2>3. Known(e)
    BY <2>2 DEF IsHidden, GoogleInv
  <2> QED
    BY <1>1, <1>3, <2>2, <2>3 DEF IsHidden
<1>11. Shared(links') \subseteq unseen'
  BY <1>1 DEF GoogleInv
<1>12. ImportsAreCurrent'
  <2> SUFFICES ASSUME NEW l \in links, l.event \notin unseen, occurrence[l.mission].source = "external",
                      occurrence[l.mission].at # "completed", gevent'[l.event].updated <= calendar.cursor
               PROVE  IF gevent'[l.event].at = "cancelled" THEN occurrence[l.mission].at = "cancelled"
                      ELSE occurrence[l.mission].at = "active" /\ occurrence[l.mission].text = gevent'[l.event].text
    BY <1>1 DEF ImportsAreCurrent
  <2>1. calendar.cursor \in 0 .. clock
    BY DEF GoogleInv, RowsFit
  <2>2. gevent'[l.event] = gevent[l.event]
    BY <1>1, <1>2, <1>7, <2>1
  <2> QED
    BY <2>2 DEF GoogleInv, ImportsAreCurrent
<1> QED
  BY <1>4, <1>5, <1>6, <1>8, <1>9, <1>10, <1>11, <1>12 DEF GoogleInv

\* One run goes on; the others stay.
LEMMA OneRuns ==
    ASSUME GoogleInv, NEW r \in SyncRuns, NEW b, run' = [run EXCEPT ![r] = b]
    PROVE  /\ run' = [x \in SyncRuns |-> run'[x]] /\ run'[r] = b
           /\ \A x \in SyncRuns : x # r => run'[x] = run[x]
BY DEF GoogleInv, RowsFit

\* ... without a batch.
LEMMA RunGoesOn ==
    ASSUME GoogleInv, UNCHANGED <<google, occurrence, links, hidden, restoring, unseen, dismissed>>,
           calendar'.cursor \in {calendar.cursor, 0}, calendar' = [state |-> calendar'.state, cursor |-> calendar'.cursor],
           NEW r \in SyncRuns, NEW b, run' = [run EXCEPT ![r] = b], Shaped(b),
           b.at \notin {"apply", "replace", "send", "record"}
    PROVE  GoogleInv'
<1>1. run' = [x \in SyncRuns |-> run'[x]] /\ run'[r] = b /\ \A x \in SyncRuns : x # r => run'[x] = run[x]
  BY OneRuns
<1>2. BatchFits(r)'
  BY <1>1, NoBatchFits
<1> QED
  BY <1>1, <1>2, RunsMove

LEMMA NormalizedIs ==
    ASSUME GoogleInv, NEW e \in Events, Known(e)
    PROVE  Normalized(e) \in Answer /\ Normalized(e).own = gevent[e].own /\ Normalized(e).at = gevent[e].at
           /\ Normalized(e).slot = gevent[e].slot /\ Normalized(e).text = gevent[e].text
<1>1. gevent[e] \in EventRow /\ gevent[e].at # "none"
  BY DEF GoogleInv, RowsFit, Known
<1>2. gevent[e].at \in {"confirmed", "cancelled"} /\ gevent[e].own \in BOOLEAN /\ gevent[e].slot \in Slots /\ gevent[e].text \in Nat
  BY <1>1 DEF EventRow
<1> QED
  BY <1>2 DEF Normalized, Answer

LEMMA ConnectionKeeps ==
    ASSUME GoogleInv,
           \/ Connect \/ Disconnect
           \/ \E r \in SyncRuns : Begin(r) \/ Refused(r) \/ RunFails(r)
    PROVE  GoogleInv'
<1>1. ASSUME Connect PROVE GoogleInv'
  <2>1. PICK r \in SyncRuns :
           run[r] = NoRun /\ run' = [run EXCEPT ![r].first = TRUE, ![r].at = IF outward' THEN "list" ELSE "import"]
    BY <1>1 DEF Connect
  <2>2. PICK b : b = [run[r] EXCEPT !.first = TRUE, !.at = IF outward' THEN "list" ELSE "import"]
    OBVIOUS
  <2>3. run' = [run EXCEPT ![r] = b]
    BY <2>1, <2>2 DEF GoogleInv, RowsFit
  <2>4. b.at \in {"list", "import"} /\ Shaped(b)
    BY <2>1, <2>2 DEF NoRun, Shaped
  <2>5. /\ calendar'.cursor \in {calendar.cursor, 0} /\ calendar' = [state |-> calendar'.state, cursor |-> calendar'.cursor]
        /\ UNCHANGED <<google, occurrence, links, hidden, restoring, unseen, dismissed>>
    BY <1>1 DEF Connect, Connection
  <2> QED
    BY <2>3, <2>4, <2>5, RunGoesOn
<1>2. ASSUME Disconnect PROVE GoogleInv'
  <2>1. /\ calendar'.cursor \in {calendar.cursor, 0} /\ calendar' = [state |-> calendar'.state, cursor |-> calendar'.cursor]
        /\ UNCHANGED <<google, occurrence, links, hidden, restoring, unseen, dismissed>> /\ run' = run
    BY <1>2 DEF Disconnect, Connection
  <2>2. run' = [r \in SyncRuns |-> run'[r]]
    BY <2>1 DEF GoogleInv, RowsFit
  <2> QED
    BY <2>1, <2>2, RunsMove
<1>3. ASSUME NEW r \in SyncRuns, Begin(r) PROVE GoogleInv'
  <2>1. PICK b : b = [NoRun EXCEPT !.at = "pull", !.first = run[r].first]
    OBVIOUS
  <2>2. b.at = "pull" /\ Shaped(b)
    BY <2>1 DEF NoRun, Shaped
  <2>3. /\ run' = [run EXCEPT ![r] = b] /\ calendar'.cursor \in {calendar.cursor, 0}
        /\ calendar' = [state |-> calendar'.state, cursor |-> calendar'.cursor]
        /\ UNCHANGED <<google, occurrence, links, hidden, restoring, unseen, dismissed>>
    <3>1. calendar' = [calendar EXCEPT !.state = "connected"]
      BY <1>3 DEF Begin
    <3>2. calendar'.cursor = calendar.cursor /\ calendar' = [state |-> calendar'.state, cursor |-> calendar'.cursor]
      BY <3>1 DEF GoogleInv, RowsFit
    <3> QED
      BY <1>3, <2>1, <3>2 DEF Begin, Go, rows
  <2> QED
    BY <2>2, <2>3, RunGoesOn
<1>4. ASSUME NEW r \in SyncRuns, Refused(r) \/ RunFails(r) PROVE GoogleInv'
  <2>1. calendar'.cursor = calendar.cursor /\ calendar' = [state |-> calendar'.state, cursor |-> calendar'.cursor]
    <3>0. calendar = [state |-> calendar.state, cursor |-> calendar.cursor]
      BY DEF GoogleInv, RowsFit
    <3>1. \/ calendar' = calendar \/ \E state : calendar' = [calendar EXCEPT !.state = state]
      BY <1>4 DEF Refused, RunFails
    <3> QED
      BY <3>0, <3>1
  <2>2. /\ run' = [run EXCEPT ![r] = NoRun]
        /\ UNCHANGED <<google, occurrence, links, hidden, restoring, unseen, dismissed>>
    BY <1>4 DEF Refused, RunFails, rows
  <2> QED
    BY <2>1, <2>2, RunGoesOn DEF NoRun, Shaped
<1> QED
  BY <1>1, <1>2, <1>3, <1>4

\* The connection, as it was.
LEMMA SameConnection ==
    ASSUME GoogleInv, UNCHANGED calendar
    PROVE  calendar'.cursor \in {calendar.cursor, 0} /\ calendar' = [state |-> calendar'.state, cursor |-> calendar'.cursor]
BY DEF GoogleInv, RowsFit

\* A run takes a batch from Google.
LEMMA TakesBatch ==
    ASSUME GoogleInv, UNCHANGED <<google, occurrence, links, hidden, restoring, unseen, dismissed, calendar>>,
           NEW r \in SyncRuns, NEW step \in {"apply", "replace"}, NEW batch, NEW since \in Nat,
           Takes(r, step, batch, since), DOMAIN batch \subseteq Events,
           \A e \in DOMAIN batch : Known(e) /\ batch[e] = Normalized(e),
           step = "apply" => \A e \in Events \ DOMAIN batch : gevent[e].updated <= since
    PROVE  GoogleInv'
<1>1. PICK b : b = [run[r] EXCEPT !.at = step, !.batch = batch, !.since = since, !.upto = clock]
  OBVIOUS
<1>2. run' = [run EXCEPT ![r] = b]
  BY <1>1 DEF Takes, GoogleInv, RowsFit
<1>3. Shaped(b) /\ b.at = step /\ b.batch = batch /\ b.since = since /\ b.upto = clock
  <2>1. Shaped(run[r])
    BY DEF GoogleInv, BatchFits
  <2> QED
    BY <1>1, <2>1 DEF Shaped
<1>4. /\ run' = [x \in SyncRuns |-> run'[x]] /\ run'[r] = b
      /\ \A x \in SyncRuns : x # r => run'[x] = run[x]
  BY <1>2, OneRuns
<1>5. clock \in Nat /\ clock' = clock /\ gevent' = gevent
  BY DEF GoogleInv, RowsFit, google
<1>6. \A e \in DOMAIN batch : Known(e) /\ batch[e] \in Answer /\ batch[e].own = gevent[e].own
  BY NormalizedIs
<1>7. BatchFits(r)'
  BY <1>3, <1>4, <1>5, <1>6 DEF BatchFits, At, Known, Normalized
<1> QED
  BY <1>4, <1>7, SameConnection, RunsMove

LEMMA PullKeeps == ASSUME GoogleInv, NEW r \in SyncRuns, PullChanges(r) PROVE GoogleInv'
<1>1. UNCHANGED <<google, occurrence, links, hidden, restoring, unseen, dismissed>>
  BY DEF PullChanges, rows
<1>2. CASE Takes(r, "apply", Changed(calendar.cursor), calendar.cursor) /\ UNCHANGED calendar
  <2>1. PICK batch : batch = Changed(calendar.cursor)
    OBVIOUS
  <2>2. calendar.cursor \in Nat /\ \A e \in Events : gevent[e].updated \in Nat /\ (Known(e) <=> gevent[e].updated # 0)
    BY DEF GoogleInv, RowsFit, EventRow
  <2>3. DOMAIN batch = {x \in Events : gevent[x].updated > calendar.cursor}
        /\ \A e \in DOMAIN batch : batch[e] = Normalized(e)
    BY <2>1 DEF Changed
  <2>4. \A e \in DOMAIN batch : Known(e)
    BY <2>2, <2>3
  <2>5. \A e \in Events \ DOMAIN batch : gevent[e].updated <= calendar.cursor
    BY <2>2, <2>3
  <2> QED
    BY <1>1, <1>2, <2>1, <2>2, <2>3, <2>4, <2>5, TakesBatch
<1>3. CASE Go(r, "import")
  <2>1. PICK b : b = [NoRun EXCEPT !.at = "import", !.first = run[r].first]
    OBVIOUS
  <2>2. b.at = "import" /\ Shaped(b) /\ run' = [run EXCEPT ![r] = b]
    BY <1>3, <2>1 DEF NoRun, Shaped, Go
  <2>3. calendar'.cursor \in {calendar.cursor, 0} /\ calendar' = [state |-> calendar'.state, cursor |-> calendar'.cursor]
    <3>1. calendar' = calendar \/ calendar' = [calendar EXCEPT !.cursor = 0]
      BY DEF PullChanges
    <3>2. calendar = [state |-> calendar.state, cursor |-> calendar.cursor]
      BY DEF GoogleInv, RowsFit
    <3> QED
      BY <3>1, <3>2
  <2> QED
    BY <1>1, <2>2, <2>3, RunGoesOn
<1> QED
  BY <1>2, <1>3 DEF PullChanges

LEMMA ImportKeeps == ASSUME GoogleInv, NEW r \in SyncRuns, InitialImport(r) PROVE GoogleInv'
<1>1. PICK over \in SUBSET DOMAIN Standing :
         Takes(r, "replace", [e \in DOMAIN Standing \ over |-> Standing[e]], 0)
  BY DEF InitialImport
<1>2. PICK batch : batch = [e \in DOMAIN Standing \ over |-> Standing[e]]
  OBVIOUS
<1>3. DOMAIN batch \subseteq {x \in Events : gevent[x].at = "confirmed"}
      /\ \A e \in DOMAIN batch : batch[e] = Normalized(e)
  BY <1>2 DEF Standing
<1>4. DOMAIN batch \subseteq Events /\ \A e \in DOMAIN batch : Known(e) /\ batch[e] = Normalized(e)
  BY <1>3 DEF Known
<1>5. UNCHANGED <<google, occurrence, links, hidden, restoring, unseen, dismissed, calendar>>
  BY DEF InitialImport, rows
<1> QED
  BY <1>1, <1>2, <1>4, <1>5, TakesBatch

LEMMA ListKeeps == ASSUME GoogleInv, NEW r \in SyncRuns, ListPending(r) PROVE GoogleInv'
<1>1. UNCHANGED <<google, occurrence, links, hidden, restoring, unseen, dismissed, calendar>>
  BY DEF ListPending, rows
<1>2. PICK over : LET cmds == [m \in PendingCommands \ over |-> occurrence[m]]
                  IN  IF cmds # << >> THEN Takes(r, "send", cmds, 0)
                      ELSE IF run[r].first THEN Go(r, "import") ELSE run' = [run EXCEPT ![r] = NoRun]
  BY DEF ListPending
<1>3. PICK cmds : cmds = [m \in PendingCommands \ over |-> occurrence[m]]
  OBVIOUS
<1>4. CASE Takes(r, "send", cmds, 0)
  <2>1. PICK b : b = [run[r] EXCEPT !.at = "send", !.batch = cmds, !.since = 0, !.upto = clock]
    OBVIOUS
  <2>2. run' = [run EXCEPT ![r] = b]
    BY <1>4, <2>1 DEF Takes, GoogleInv, RowsFit
  <2>3. Shaped(b) /\ b.at = "send" /\ b.batch = cmds
    <3>1. Shaped(run[r])
      BY DEF GoogleInv, BatchFits
    <3> QED
      BY <2>1, <3>1 DEF Shaped
  <2>4. /\ run' = [x \in SyncRuns |-> run'[x]] /\ run'[r] = b
        /\ \A x \in SyncRuns : x # r => run'[x] = run[x]
    BY <2>2, OneRuns
  <2>5. ASSUME NEW m \in PendingCommands PROVE m \in Missions /\ ByTheApp(m) /\ occurrence[m] \in MissionRow
    <3>1. m \in Missions /\ occurrence[m] \in MissionRow /\ occurrence[m].at = "active"
      BY <2>5 DEF PendingCommands, GoogleInv, RowsFit
    <3>2. occurrence[m].sync # "pending"
      BY <3>1 DEF MissionRow
    <3>3. occurrence[m].source = "internal"
      BY <2>5, <3>2 DEF PendingCommands
    <3> QED
      BY <3>1, <3>3 DEF ByTheApp, External
  <2>6. DOMAIN cmds \subseteq {m \in Missions : ByTheApp(m)} /\ \A m \in DOMAIN cmds : cmds[m] \in MissionRow
    BY <1>3, <2>5
  <2>7. BatchFits(r)'
    BY <1>1, <2>3, <2>4, <2>6 DEF BatchFits, At, ByTheApp
  <2> QED
    BY <1>1, <2>4, <2>7, SameConnection, RunsMove
<1>5. CASE Go(r, "import") \/ run' = [run EXCEPT ![r] = NoRun]
  <2>1. PICK b : b = [NoRun EXCEPT !.at = "import", !.first = run[r].first]
    OBVIOUS
  <2>2. b.at = "import" /\ Shaped(b) /\ NoRun.at = "idle" /\ Shaped(NoRun)
    BY <2>1 DEF NoRun, Shaped
  <2>3. run' = [run EXCEPT ![r] = b] \/ run' = [run EXCEPT ![r] = NoRun]
    BY <1>5, <2>1 DEF Go
  <2> QED
    BY <1>1, <2>2, <2>3, RunGoesOn, SameConnection
<1> QED
  BY <1>2, <1>3, <1>4, <1>5

LEMMA EventsChange ==
    ASSUME GoogleInv,
           \/ \E own \in BOOLEAN : GoogleCreates(own)
           \/ \E e \in Events : GoogleCancels(e) \/ \E slot \in Slots : GoogleEdits(e, slot)
    PROVE  GoogleInv'
<1>5. PICK e \in Events : \E new : gevent' = [gevent EXCEPT ![e] = new] /\ new \in EventRow
          /\ new.updated = clock + 1 /\ new.at # "none" /\ (Known(e) => new.own = gevent[e].own)
  <2>1. clock' = clock + 1 /\ clock' \in Nat /\ clock \in Nat /\ gevent \in [Events -> EventRow]
    <3>1. GoogleChanges
      BY Zenon DEF GoogleCreates, GoogleCancels, GoogleEdits
    <3> QED
      BY <3>1 DEF GoogleChanges, Tick, GoogleInv, RowsFit
  <2>2. ASSUME NEW own \in BOOLEAN, GoogleCreates(own)
        PROVE  \E e \in Events : \E new : gevent' = [gevent EXCEPT ![e] = new] /\ new \in EventRow
                 /\ new.updated = clock + 1 /\ new.at # "none" /\ (Known(e) => new.own = gevent[e].own)
    <3>1. PICK e : e = CHOOSE x \in Unused(Events, gevent) : TRUE
      OBVIOUS
    <3>2. e \in Unused(Events, gevent)
      BY <2>2, <3>1 DEF GoogleCreates
    <3>3. e \in Events /\ ~Known(e)
      BY <3>2 DEF Unused, Known
    <3>4. PICK new : new = [NoEvent EXCEPT !.at = "confirmed", !.own = own, !.text = clock', !.updated = clock']
      OBVIOUS
    <3>5. gevent' = [gevent EXCEPT ![e] = new]
      BY <2>2, <3>1, <3>4, Zenon DEF GoogleCreates
    <3>6. new \in EventRow
      <4>1. new = [at |-> "confirmed", own |-> own, slot |-> 1, text |-> clock', updated |-> clock']
        BY <3>4 DEF NoEvent
      <4> QED
        BY <2>1, <4>1 DEF EventRow, Slots
    <3>7. new.updated = clock + 1 /\ new.at # "none"
      BY <2>1, <3>4 DEF NoEvent
    <3> QED
      BY <3>3, <3>5, <3>6, <3>7
  <2>3. ASSUME NEW e \in Events, GoogleCancels(e) \/ \E slot \in Slots : GoogleEdits(e, slot)
        PROVE  \E new : gevent' = [gevent EXCEPT ![e] = new] /\ new \in EventRow
                 /\ new.updated = clock + 1 /\ new.at # "none" /\ (Known(e) => new.own = gevent[e].own)
    <3>1. CASE GoogleCancels(e)
      <4>1. PICK new : new = [gevent[e] EXCEPT !.at = "cancelled", !.updated = clock']
        OBVIOUS
      <4>2. gevent' = [gevent EXCEPT ![e] = new]
        BY <2>1, <3>1, <4>1 DEF GoogleCancels
      <4>3. new \in EventRow /\ new.updated = clock + 1 /\ new.at # "none" /\ new.own = gevent[e].own
        BY <2>1, <4>1 DEF EventRow
      <4> QED
        BY <4>2, <4>3
    <3>2. ASSUME NEW slot \in Slots, GoogleEdits(e, slot)
          PROVE  \E new : gevent' = [gevent EXCEPT ![e] = new] /\ new \in EventRow
                   /\ new.updated = clock + 1 /\ new.at # "none" /\ (Known(e) => new.own = gevent[e].own)
      <4>1. PICK new : new = [gevent[e] EXCEPT !.text = clock', !.updated = clock', !.slot = slot]
        OBVIOUS
      <4>2. gevent' = [gevent EXCEPT ![e] = new]
        BY <2>1, <3>2, <4>1 DEF GoogleEdits
      <4>3. new \in EventRow /\ new.updated = clock + 1 /\ new.at # "none" /\ new.own = gevent[e].own
        <5>1. gevent[e] \in EventRow /\ gevent[e].at = "confirmed"
          BY <2>1, <3>2 DEF GoogleEdits
        <5>2. new = [at |-> "confirmed", own |-> gevent[e].own, slot |-> slot, text |-> clock', updated |-> clock']
          BY <4>1, <5>1 DEF EventRow
        <5> QED
          BY <2>1, <5>1, <5>2 DEF EventRow
      <4> QED
        BY <4>2, <4>3
    <3> QED
      BY <2>3, <3>1, <3>2
  <2> QED
    BY <2>2, <2>3
<1>1. PICK new : gevent' = [gevent EXCEPT ![e] = new] /\ new \in EventRow
          /\ new.updated = clock + 1 /\ new.at # "none" /\ (Known(e) => new.own = gevent[e].own)
  BY <1>5
<1>2. EventsMove
  <2>1. clock' = clock + 1 /\ gevent \in [Events -> EventRow]
    BY DEF GoogleCreates, GoogleCancels, GoogleEdits, GoogleChanges, Tick, GoogleInv, RowsFit
  <2> QED
    BY <1>1, <2>1 DEF EventsMove
<1>3. UNCHANGED <<rows, calendar, restoring, unseen, dismissed, run>>
  BY DEF GoogleCreates, GoogleCancels, GoogleEdits, GoogleChanges, service
<1>4. run' = [r \in SyncRuns |-> run'[r]]
  BY <1>3 DEF GoogleInv, RowsFit
<1> QED
  BY <1>2, <1>3, <1>4, GoogleMoves

LEMMA ApplyKeeps == ASSUME GoogleInv, NEW r \in SyncRuns, ApplyCommands(r) PROVE GoogleInv'
<1>1. PICK cmds : cmds = run[r].batch
  OBVIOUS
<1>17. PICK made \in SUBSET DOMAIN run[r].batch : \E new \in Injection(made, Unused(Events, gevent)) :
         /\ IF made = DOMAIN run[r].batch THEN UNCHANGED troubles ELSE Trouble
         /\ gevent' = [e \in Events |->
                IF \E m \in made : new[m] = e
                THEN LET m == CHOOSE x \in made : new[x] = e
                     IN  [at |-> "confirmed", own |-> TRUE, slot |-> run[r].batch[m].slot,
                          text |-> run[r].batch[m].text, updated |-> clock']
                ELSE gevent[e]]
         /\ run' = [run EXCEPT ![r].at = "record", ![r].batch =
                [m \in DOMAIN run[r].batch |-> IF m \in made THEN new[m] ELSE NoOne]]
  BY Zenon DEF ApplyCommands
<1>2. PICK new \in Injection(made, Unused(Events, gevent)) :
         /\ gevent' = [e \in Events |->
                IF \E m \in made : new[m] = e
                THEN LET m == CHOOSE x \in made : new[x] = e
                     IN  [at |-> "confirmed", own |-> TRUE, slot |-> cmds[m].slot,
                          text |-> cmds[m].text, updated |-> clock']
                ELSE gevent[e]]
         /\ run' = [run EXCEPT ![r].at = "record", ![r].batch =
                [m \in DOMAIN cmds |-> IF m \in made THEN new[m] ELSE NoOne]]
  BY <1>1, <1>17
<1>3. new \in [made -> Unused(Events, gevent)]
  BY DEF Injection
<1>4. /\ DOMAIN cmds \subseteq {m \in Missions : ByTheApp(m)}
      /\ \A m \in DOMAIN cmds : cmds[m] \in MissionRow
      /\ clock \in Nat /\ clock' = clock + 1 /\ gevent \in [Events -> EventRow]
  BY <1>1 DEF ApplyCommands, GoogleInv, BatchFits, RowsFit, Tick
<1>5. ASSUME NEW e \in Events, \E m \in made : new[m] = e
      PROVE  /\ ~Known(e) /\ gevent'[e] \in EventRow /\ gevent'[e].updated = clock + 1
             /\ gevent'[e].at # "none" /\ gevent'[e].own
  <2>1. PICK m : m = CHOOSE x \in made : new[x] = e
    OBVIOUS
  <2>2. m \in made /\ new[m] = e
    BY <1>5, <2>1
  <2>3. gevent'[e] = [at |-> "confirmed", own |-> TRUE, slot |-> cmds[m].slot, text |-> cmds[m].text, updated |-> clock']
    <3>1. gevent'[e] = LET m0 == CHOOSE x \in made : new[x] = e
                       IN  [at |-> "confirmed", own |-> TRUE, slot |-> cmds[m0].slot, text |-> cmds[m0].text, updated |-> clock']
      BY <1>2, <1>5
    <3> QED
      BY <2>1, <3>1, Zenon
  <2>4. cmds[m].slot \in Slots /\ cmds[m].text \in Nat /\ clock + 1 \in Nat
    <3>1. cmds[m] \in MissionRow
      BY <1>1, <1>4, <1>17, <2>2
    <3> QED
      BY <1>4, <3>1 DEF MissionRow
  <2>5. ~Known(e)
    BY <1>3, <2>2 DEF Unused, Known
  <2> QED
    BY <1>4, <2>3, <2>4, <2>5 DEF EventRow
<1>6. \A e \in Events : (~\E m \in made : new[m] = e) => gevent'[e] = gevent[e]
  BY <1>2
<1>7. EventsMove
  <2>1. gevent' \in [Events -> EventRow]
    <3>1. gevent' = [e \in Events |-> gevent'[e]]
      BY <1>2
    <3>2. \A e \in Events : gevent'[e] \in EventRow
      BY <1>4, <1>5, <1>6
    <3> QED
      BY <3>1, <3>2
  <2> QED
    BY <1>4, <1>5, <1>6, <2>1 DEF EventsMove
<1>8. PICK said : said = [m \in DOMAIN cmds |-> IF m \in made THEN new[m] ELSE NoOne]
  OBVIOUS
<1>9. PICK b : b = [run[r] EXCEPT !.at = "record", !.batch = said]
  OBVIOUS
<1>10. run' = [run EXCEPT ![r] = b]
  BY <1>2, <1>8, <1>9 DEF GoogleInv, RowsFit
<1>11. Shaped(b) /\ b.at = "record" /\ b.batch = said
  <2>1. Shaped(run[r])
    BY DEF GoogleInv, BatchFits
  <2> QED
    BY <1>9, <2>1 DEF Shaped
<1>12. /\ run' = [x \in SyncRuns |-> run'[x]] /\ run'[r] = b
       /\ \A x \in SyncRuns : x # r => run'[x] = run[x]
  BY <1>10, OneRuns
<1>13. UNCHANGED <<rows, calendar, restoring, unseen, dismissed>>
  BY DEF ApplyCommands
<1>14. ASSUME NEW m \in DOMAIN said, said[m] # NoOne
       PROVE  said[m] \in Events /\ Known(said[m])' /\ gevent'[said[m]].own
  <2>1. m \in made /\ said[m] = new[m]
    BY <1>8, <1>14
  <2>2. said[m] \in Events
    BY <1>3, <2>1 DEF Unused
  <2> QED
    BY <1>5, <2>1, <2>2 DEF Known
<1>15. DOMAIN said \subseteq {m \in Missions : ByTheApp(m)'}
  BY <1>4, <1>8, <1>13 DEF rows, ByTheApp
<1>16. BatchFits(r)'
  BY <1>11, <1>12, <1>14, <1>15 DEF BatchFits, At
<1> QED
  BY <1>7, <1>12, <1>13, <1>16, GoogleMoves

\* A mission of the app changes, or one of the calendar's is completed.
LEMMA OneMission ==
    ASSUME GoogleInv, UNCHANGED <<gevent, links, hidden, dismissed, unseen, calendar, run, restoring>>,
           clock \in Nat, clock' = clock + 1, NEW m \in Missions, NEW row \in MissionRow,
           occurrence' = [occurrence EXCEPT ![m] = row], row.at \notin Gone,
           row.source = occurrence[m].source, External(row) => row.at = "completed" /\ row.own = occurrence[m].own
    PROVE  GoogleInv'
<1>1. occurrence'[m] = row /\ \A x \in Missions \ {m} : occurrence'[x] = occurrence[x]
  BY DEF GoogleInv, RowsFit
<1>2. External(row) <=> External(occurrence[m])
  BY DEF External
<1>3. RowsFit'
  <2>1. RowsFit
    BY DEF GoogleInv
  <2>2. calendar.cursor \in 0 .. clock'
    BY <2>1 DEF RowsFit
  <2>3. \A e \in Events : gevent[e].updated <= clock'
    BY <2>1 DEF RowsFit, EventRow
  <2> QED
    BY <1>1, <2>1, <2>2, <2>3 DEF RowsFit, Known
<1>4. RestoreFits' /\ \A h \in hidden' : Known(h.event)' /\ ~gevent'[h.event].own
  BY DEF GoogleInv, RestoreFits, Known
<1>5. \A r \in SyncRuns : BatchFits(r)'
  <2>1. \A x \in Missions : ByTheApp(x) => ByTheApp(x)'
    BY <1>1, <1>2 DEF ByTheApp, Gone
  <2> QED
    BY <2>1, BatchStays
<1>6. ASSUME NEW l \in links PROVE LinkFits(l)'
  <2>1. LinkFits(l) /\ l.mission \in Missions
    BY DEF GoogleInv, RowsFit, Link
  <2> QED
    BY <1>1, <1>2, <2>1 DEF LinkFits, LinksOf, Known
<1>7. \A e \in Events : StaysHidden(e)'
  BY DEF GoogleInv, StaysHidden, IsHidden, Shared
<1>8. Shared(links') \subseteq unseen'
  BY DEF GoogleInv
<1>9. ImportsAreCurrent'
  <2> SUFFICES ASSUME NEW l \in links, l.event \notin unseen, occurrence'[l.mission].source = "external",
                      occurrence'[l.mission].at # "completed", gevent[l.event].updated <= calendar.cursor
               PROVE  IF gevent[l.event].at = "cancelled" THEN occurrence'[l.mission].at = "cancelled"
                      ELSE occurrence'[l.mission].at = "active" /\ occurrence'[l.mission].text = gevent[l.event].text
    BY DEF ImportsAreCurrent
  <2>1. l.mission \in Missions \ {m}
    BY <1>1 DEF GoogleInv, RowsFit, Link, External
  <2> QED
    BY <1>1, <2>1 DEF GoogleInv, ImportsAreCurrent
<1> QED
  BY <1>3, <1>4, <1>5, <1>6, <1>7, <1>8, <1>9 DEF GoogleInv

LEMMA MissionsChange ==
    ASSUME GoogleInv, CreateMission \/ \E m \in Missions : EditMission(m) \/ CompleteMission(m)
    PROVE  GoogleInv'
<1>1. /\ UNCHANGED <<gevent, links, hidden, dismissed, unseen, calendar, run, restoring>>
      /\ clock \in Nat /\ clock' = clock + 1 /\ occurrence \in [Missions -> MissionRow]
  BY DEF GoogleInv, RowsFit, CreateMission, EditMission, CompleteMission, UserChanges, Tick, service
<1>2. CASE CreateMission
  <2>1. PICK m : m = CHOOSE x \in Unused(Missions, occurrence) : TRUE
    OBVIOUS
  <2>2. m \in Unused(Missions, occurrence)
    BY <1>2, <2>1 DEF CreateMission
  <2>3. m \in Missions /\ occurrence[m].at = "none" /\ ~External(occurrence[m])
    BY <2>2 DEF Unused, GoogleInv, RowsFit, Gone
  <2>4. PICK row : row = NewMission(occurrence[m].slot, clock')
    OBVIOUS
  <2>5. occurrence' = [occurrence EXCEPT ![m] = row]
    BY <1>2, <2>1, <2>4 DEF CreateMission
  <2>6. row \in MissionRow /\ row.at \notin Gone /\ ~External(row) /\ row.source = occurrence[m].source
    BY <1>1, <2>3, <2>4 DEF NewMission, ActiveRow, MissionRow, Gone, External
  <2> QED
    BY <1>1, <2>3, <2>5, <2>6, OneMission
<1>3. ASSUME NEW m \in Missions, EditMission(m) PROVE GoogleInv'
  <2>1. PICK row : row = [occurrence[m] EXCEPT !.text = clock', !.sync = "synced"]
    OBVIOUS
  <2>2. occurrence' = [occurrence EXCEPT ![m] = row]
    BY <1>1, <1>3, <2>1 DEF EditMission
  <2>3. row \in MissionRow /\ row.at \notin Gone /\ ~External(row) /\ row.source = occurrence[m].source
    BY <1>1, <1>3, <2>1 DEF EditMission, MissionRow, Gone, External
  <2> QED
    BY <1>1, <2>2, <2>3, OneMission
<1>4. ASSUME NEW m \in Missions, CompleteMission(m) PROVE GoogleInv'
  <2>1. PICK row : row = [occurrence[m] EXCEPT !.at = "completed", !.sync = "synced"]
    OBVIOUS
  <2>2. occurrence' = [occurrence EXCEPT ![m] = row]
    BY <1>1, <1>4, <2>1 DEF CompleteMission
  <2>3. row \in MissionRow /\ row.at \notin Gone /\ row.at = "completed" /\ row.source = occurrence[m].source
        /\ row.own = occurrence[m].own
    BY <1>1, <1>4, <2>1 DEF CompleteMission, MissionRow, Gone
  <2> QED
    BY <1>1, <2>2, <2>3, OneMission
<1> QED
  BY <1>2, <1>3, <1>4

\* Missions and links change in a way that keeps the rest; what is hidden is another matter.
LEMMA RowsMove ==
    ASSUME GoogleInv, gevent' = gevent, clock' \in Nat, clock <= clock', calendar'.cursor \in 0 .. clock',
           calendar' = [state |-> calendar'.state, cursor |-> calendar'.cursor],
           occurrence' \in [Missions -> MissionRow], links' \subseteq Link, hidden' \subseteq HiddenEvent,
           run' = [r \in SyncRuns |-> run'[r]], dismissed' \in [Events -> {0} \cup Slots],
           restoring' \in {restoring, NoRestore},
           \A m \in Missions : occurrence'[m].at \in Gone => ~External(occurrence'[m]),
           \A m \in Missions : ByTheApp(m) => ByTheApp(m)',
           \A r \in SyncRuns : run'[r] = run[r] \/ BatchFits(r)'
    PROVE  RowsFit' /\ RestoreFits' /\ \A r \in SyncRuns : BatchFits(r)'
<1>1. RowsFit'
  <2>1. RowsFit
    BY DEF GoogleInv
  <2>2. \A e \in Events : gevent[e].updated <= clock'
    BY <2>1 DEF RowsFit, EventRow
  <2> QED
    BY <2>1, <2>2 DEF RowsFit, Known
<1>2. RestoreFits'
  BY DEF GoogleInv, RestoreFits, Known
<1>3. \A r \in SyncRuns : BatchFits(r)'
  BY BatchStays
<1> QED
  BY <1>1, <1>2, <1>3

\* What the deletion of an imported mission hides, at the time it had.
LEMMA DismissalIs ==
    ASSUME GoogleInv, NEW l \in links, NEW scope \in Scopes \cup {"event"}
    PROVE  LET d == Dismissal([l EXCEPT !.scope = scope])
               slot == occurrence[l.mission].slot
           IN  /\ d \in HiddenEvent /\ d.event = l.event
               /\ d.scope # "entire_series" => d.from <= slot
               /\ d.scope = "this_occurrence" => (d.to = 0 \/ slot < d.to)
<1>1. PICK slot : slot = occurrence[l.mission].slot
  OBVIOUS
<1>2. l \in Link
  BY DEF GoogleInv, RowsFit
<1>3. slot \in {1, 2}
  BY <1>1, <1>2 DEF GoogleInv, RowsFit, Link, MissionRow, Slots
<1>4. PICK k : k = [l EXCEPT !.scope = scope]
  OBVIOUS
<1>5. k.event = l.event /\ k.mission = l.mission /\ k.scope = scope /\ l.event \in Events
  BY <1>2, <1>4 DEF Link
<1>6. PICK d : d = Dismissal(k)
  OBVIOUS
<1>7. d = [event |-> l.event, scope |-> IF scope = "event" THEN "this_occurrence" ELSE scope,
           from |-> IF scope \in {"this_occurrence", "this_and_future"} THEN slot ELSE 0,
           to |-> IF scope = "this_occurrence" THEN slot + 1 ELSE 0]
  BY <1>1, <1>5, <1>6 DEF Dismissal, HiddenRow
<1>8. d \in HiddenEvent
  BY <1>3, <1>5, <1>7 DEF HiddenEvent, Scopes
<1>9. d.event = l.event /\ (d.scope # "entire_series" => d.from <= slot) /\ (d.scope = "this_occurrence" => (d.to = 0 \/ slot < d.to))
  BY <1>3, <1>7 DEF Scopes
<1> QED
  BY <1>1, <1>4, <1>6, <1>8, <1>9

\* What it is for h to hide its event at slot.
Hides(h, slot) ==
    /\ h.scope # "entire_series" => h.from <= slot
    /\ h.scope = "this_occurrence" => (h.to = 0 \/ slot < h.to)

LEMMA DeletionKeeps ==
    ASSUME GoogleInv, NEW m \in Missions, NEW scope \in Scopes \cup {"event"}, DeleteMission(m, scope)
    PROVE  GoogleInv'
<1>1. PICK row, organizers : row = occurrence[m] /\ organizers = (row.source = "external" /\ ~row.own)
  OBVIOUS
<1>2. PICK gone : gone = [NoMission EXCEPT !.at = "deleted"]
  OBVIOUS
<1>3. gone \in MissionRow /\ gone.at = "deleted" /\ ~External(gone)
  <2>1. gone = [at |-> "deleted", source |-> "internal", own |-> TRUE, sync |-> "synced", slot |-> 1, text |-> 0]
    BY <1>2 DEF NoMission
  <2> QED
    BY <2>1 DEF MissionRow, External, Slots
<1>4. UserChanges
  BY DEF DeleteMission
<1>5. /\ UNCHANGED <<gevent, unseen, calendar, run, restoring>> /\ clock \in Nat /\ clock' = clock + 1
      /\ calendar.cursor \in 0 .. clock /\ calendar = [state |-> calendar.state, cursor |-> calendar.cursor]
      /\ run = [r \in SyncRuns |-> run[r]]
  BY <1>4 DEF UserChanges, Tick, service, GoogleInv, RowsFit
<1>6. /\ occurrence \in [Missions -> MissionRow] /\ links \subseteq Link /\ hidden \subseteq HiddenEvent
      /\ dismissed \in [Events -> {0} \cup Slots]
      /\ \A l \in links : LinkFits(l)
      /\ \A x \in Missions : occurrence[x].at \in Gone => ~External(occurrence[x])
  BY DEF GoogleInv, RowsFit
<1>7. /\ row.at \in {"active", "cancelled", "completed"}
      /\ occurrence' = [occurrence EXCEPT ![m] = gone]
      /\ links' = links \ LinksOf(m)
      /\ hidden' = IF organizers THEN Upsert(hidden, DeletionHides(m, scope)) ELSE hidden
      /\ dismissed' = [e \in Events |->
            IF organizers /\ Linked(e) /\ {l \in links : l.event = e} \subseteq LinksOf(m)
            THEN row.slot ELSE dismissed[e]]
  BY <1>1, <1>2 DEF DeleteMission
<1>8. occurrence'[m] = gone /\ \A x \in Missions \ {m} : occurrence'[x] = occurrence[x]
  BY <1>6, <1>7
<1>9. occurrence' \in [Missions -> MissionRow] /\ row \in MissionRow
  BY <1>1, <1>3, <1>6, <1>7
<1>10. \A l \in links : l \in links' <=> l.mission # m
  BY <1>7 DEF LinksOf
<1>11. links' \subseteq links
  BY <1>7
<1>12. Shared(links') \subseteq Shared(links)
  BY <1>11 DEF Shared
\* What is hidden now, and dismissed.
<1>13. /\ hidden' \subseteq HiddenEvent /\ dismissed' \in [Events -> {0} \cup Slots]
       /\ \A h \in hidden' : Known(h.event) /\ ~gevent[h.event].own
       /\ \A e \in Events : StaysHidden(e)'
  <2>1. CASE organizers /\ LinksOf(m) # {}
    <3>1. PICK l \in links : l.mission = m
      BY <2>1 DEF LinksOf
    <3>2. LinksOf(m) = {l} /\ gevent[l.event].own = row.own /\ Known(l.event)
      BY <1>1, <1>6, <2>1, <3>1 DEF LinkFits, External
    <3>3. PICK d : d = Dismissal([l EXCEPT !.scope = scope])
      OBVIOUS
    <3>4. /\ d \in HiddenEvent /\ d.event = l.event
          /\ d.scope # "entire_series" => d.from <= row.slot
          /\ d.scope = "this_occurrence" => (d.to = 0 \/ row.slot < d.to)
      BY <1>1, <3>1, <3>3, DismissalIs
    <3>5. DeletionHides(m, scope) = {d}
      BY <3>2, <3>3 DEF DeletionHides
    <3>6. hidden' = {d} \cup {h \in hidden : d.event # h.event \/ d.scope # h.scope}
      BY <1>7, <2>1, <3>5 DEF Upsert
    <3>7. hidden' \subseteq HiddenEvent
      BY <1>6, <3>4, <3>6
    <3>8. dismissed' \in [Events -> {0} \cup Slots]
      <4>1. row.slot \in Slots
        BY <1>9 DEF MissionRow
      <4> QED
        BY <1>6, <1>7, <4>1
    <3>9. \A h \in hidden' : Known(h.event) /\ ~gevent[h.event].own
      BY <1>1, <2>1, <3>2, <3>4, <3>6 DEF GoogleInv
    <3>10. ASSUME NEW e \in Events PROVE StaysHidden(e)'
      <4>1. SUFFICES ASSUME dismissed'[e] # 0
                     PROVE  /\ \E h \in hidden' : h.event = e /\ Hides(h, dismissed'[e])
                            /\ ~gevent[e].own /\ e \notin Shared(links')
        BY <1>5 DEF StaysHidden, IsHidden, Hides, Shared
      <4>2. CASE e = l.event
        <5>1. {k \in links : k.event = e} \subseteq LinksOf(m)
          <6>1. SUFFICES ASSUME e \in Shared(links) PROVE FALSE
            BY <3>1, <3>2, <4>2 DEF Shared
          <6>2. dismissed'[e] = dismissed[e]
            BY <1>7, <3>2, <6>1 DEF Shared
          <6> QED
            BY <4>1, <6>1, <6>2 DEF GoogleInv, StaysHidden
        <5>2. dismissed'[e] = row.slot
          BY <1>7, <2>1, <3>1, <4>2, <5>1 DEF Linked
        <5>3. e \notin Shared(links')
          BY <1>7, <5>1 DEF Shared
        <5>4. d \in hidden'
          BY <3>6
        <5>5. \E h \in hidden' : h.event = e /\ Hides(h, dismissed'[e])
          BY <3>4, <4>2, <5>2, <5>4 DEF Hides
        <5> QED
          BY <1>1, <2>1, <3>2, <4>2, <5>3, <5>5
      <4>3. CASE e # l.event
        <5>1. dismissed'[e] = dismissed[e]
          <6>1. ~(Linked(e) /\ {k \in links : k.event = e} \subseteq LinksOf(m))
            BY <3>2, <4>3 DEF Linked
          <6> QED
            BY <1>7, <6>1
        <5>2. IsHidden(e, dismissed[e]) /\ ~gevent[e].own /\ e \notin Shared(links)
          BY <4>1, <5>1 DEF GoogleInv, StaysHidden
        <5>3. \A h \in hidden : h.event = e => h \in hidden'
          BY <3>4, <3>6, <4>3
        <5> QED
          BY <1>12, <5>1, <5>2, <5>3 DEF IsHidden, Hides
      <4> QED
        BY <4>2, <4>3
    <3> QED
      BY <3>7, <3>8, <3>9, <3>10
  <2>2. CASE ~(organizers /\ LinksOf(m) # {})
    <3>1. hidden' = hidden
      BY <1>7, <2>2 DEF Upsert, DeletionHides
    <3>2. ASSUME NEW e \in Events PROVE dismissed'[e] = dismissed[e]
      <4>1. ~(organizers /\ Linked(e) /\ {l \in links : l.event = e} \subseteq LinksOf(m))
        BY <2>2 DEF Linked
      <4> QED
        BY <1>7, <4>1
    <3>3. dismissed' = dismissed
      BY <1>6, <1>7, <3>2
    <3> QED
      BY <1>5, <1>6, <1>12, <3>1, <3>3 DEF GoogleInv, StaysHidden, IsHidden
  <2> QED
    BY <2>1, <2>2
<1>14. RowsFit' /\ RestoreFits' /\ \A r \in SyncRuns : BatchFits(r)'
  <2>1. \A x \in Missions : occurrence'[x].at \in Gone => ~External(occurrence'[x])
    BY <1>3, <1>6, <1>8
  <2>2. \A x \in Missions : ByTheApp(x) => ByTheApp(x)'
    BY <1>3, <1>8 DEF ByTheApp
  <2>3. links' \subseteq Link
    BY <1>6, <1>11
  <2>4. clock' \in Nat /\ clock <= clock' /\ calendar'.cursor \in 0 .. clock'
    BY <1>5
  <2> QED
    BY <1>5, <1>9, <1>13, <2>1, <2>2, <2>3, <2>4, RowsMove
<1>15. ASSUME NEW l \in links' PROVE LinkFits(l)'
  <2>1. l \in links /\ l.mission \in Missions \ {m}
    BY <1>6, <1>10, <1>11 DEF Link
  <2>2. LinksOf(l.mission)' = LinksOf(l.mission)
    BY <1>10, <1>11, <2>1 DEF LinksOf
  <2> QED
    BY <1>5, <1>6, <1>8, <2>1, <2>2 DEF LinkFits, Known
<1>16. \A h \in hidden' : Known(h.event)' /\ ~gevent'[h.event].own
  BY <1>5, <1>13 DEF Known
<1>17. Shared(links') \subseteq unseen'
  BY <1>5, <1>12 DEF GoogleInv
<1>18. ImportsAreCurrent'
  <2>1. \A l \in links' : l \in links /\ occurrence'[l.mission] = occurrence[l.mission]
    BY <1>6, <1>8, <1>10, <1>11 DEF Link
  <2> QED
    BY <1>5, <2>1 DEF GoogleInv, ImportsAreCurrent
<1> QED
  BY <1>13, <1>14, <1>15, <1>16, <1>17, <1>18 DEF GoogleInv

LEMMA StartKeeps ==
    ASSUME GoogleInv, NEW h \in hidden, NEW scope \in Scopes, StartRestore(h, scope)
    PROVE  GoogleInv'
<1>1. UNCHANGED <<google, occurrence, links, hidden, calendar, run, unseen, dismissed>>
  BY DEF StartRestore, rows
<1>2. UNCHANGED <<clock, gevent>> /\ h \in HiddenEvent /\ Known(h.event)
  BY <1>1 DEF google, GoogleInv, RowsFit
<1>3. h.event \in Events /\ gevent[h.event].at = "confirmed"
  BY <1>2 DEF HiddenEvent, StartRestore
<1>4. PICK said : said = Normalized(h.event)
  OBVIOUS
<1>5. said \in Answer /\ said.at = "confirmed" /\ said.own = gevent[h.event].own
  BY <1>2, <1>3, <1>4, NormalizedIs
<1>6. restoring' = [of |-> h, scope |-> scope, event |-> said]
  BY <1>4 DEF StartRestore
<1>7. RestoreFits'
  BY <1>2, <1>5, <1>6 DEF RestoreFits, Known
<1>8. RowsFit'
  BY <1>1, <1>2 DEF GoogleInv, RowsFit, Known
<1>9. \A r \in SyncRuns : BatchFits(r)'
  <2>1. clock' \in Nat /\ clock <= clock' /\ \A m \in Missions : ByTheApp(m) => ByTheApp(m)'
    BY <1>1, <1>2 DEF GoogleInv, RowsFit, ByTheApp
  <2> QED
    BY <1>1, <1>2, <2>1, BatchStays
<1>10. /\ \A l \in links' : LinkFits(l)'
       /\ \A x \in hidden' : Known(x.event)' /\ ~gevent'[x.event].own
       /\ \A e \in Events : StaysHidden(e)'
       /\ Shared(links') \subseteq unseen'
  BY <1>1, <1>2 DEF GoogleInv, LinkFits, LinksOf, Known, StaysHidden, IsHidden, Shared
<1>11. ImportsAreCurrent'
  BY <1>1, <1>2 DEF GoogleInv, ImportsAreCurrent
<1> QED
  BY <1>7, <1>8, <1>9, <1>10, <1>11 DEF GoogleInv

\* What stays hidden is of the event, and fits.
LEMMA RemainderIs ==
    ASSUME NEW h \in HiddenEvent, NEW scope \in Scopes \ {"entire_series"}, NEW start \in Slots, NEW x \in Remainder(h, scope, start)
    PROVE  x \in HiddenEvent /\ x.event = h.event
<1>1. x = [h EXCEPT !.scope = "this_occurrence", !.from = 0, !.to = start]
      \/ x = [h EXCEPT !.scope = "this_and_future", !.from = start + 1, !.to = 0]
  <2>1. PICK before, after : before = [h EXCEPT !.scope = "this_occurrence", !.from = 0, !.to = start]
                             /\ after = [h EXCEPT !.scope = "this_and_future", !.from = start + 1, !.to = 0]
    OBVIOUS
  <2>2. CASE scope = "this_and_future"
    BY <2>1, <2>2 DEF Remainder
  <2>3. CASE scope = "this_occurrence"
    BY <2>1, <2>3 DEF Remainder
  <2> QED
    BY <2>2, <2>3 DEF Scopes
<1>2. start \in Nat /\ start + 1 \in Nat
  BY DEF Slots
<1>3. CASE x = [h EXCEPT !.scope = "this_occurrence", !.from = 0, !.to = start]
  <2>1. x = [event |-> h.event, scope |-> "this_occurrence", from |-> 0, to |-> start]
    BY <1>3 DEF HiddenEvent
  <2> QED
    BY <1>2, <2>1 DEF HiddenEvent, Scopes
<1>4. CASE x = [h EXCEPT !.scope = "this_and_future", !.from = start + 1, !.to = 0]
  <2>1. x = [event |-> h.event, scope |-> "this_and_future", from |-> start + 1, to |-> 0]
    BY <1>4 DEF HiddenEvent
  <2> QED
    BY <1>2, <2>1 DEF HiddenEvent, Scopes
<1> QED
  BY <1>1, <1>3, <1>4

\* What a restore that finds its row does: a new mission with a link of its own.
LEMMA RestoredIs ==
    ASSUME GoogleInv, FinishRestore
    PROVE  \/ UNCHANGED <<hidden, occurrence, links, dismissed, unseen>>
           \/ \E e \in Events, m \in Missions, row \in MissionRow, scope \in Scopes :
                /\ Known(e) /\ occurrence[m].at = "none" /\ row.at = "active" /\ row.own = gevent[e].own
                /\ External(row) /\ occurrence' = [occurrence EXCEPT ![m] = row]
                /\ links' = links \cup {LinkRow(e, scope, m)}
                /\ hidden' \subseteq HiddenEvent
                /\ \A h \in hidden' : h \in hidden \/ h.event = e
                /\ \A h \in hidden : h.event # e => h \in hidden'
                /\ ~gevent[e].own
                /\ dismissed' = [dismissed EXCEPT ![e] = 0]
                /\ unseen \cup Shared(links') \subseteq unseen'
                /\ e \notin unseen' => gevent[e].at = "confirmed" /\ row.text = gevent[e].text
<1>1. PICK h, e, said, scope : h = restoring.of /\ e = h.event /\ said = restoring.event /\ scope = restoring.scope
  OBVIOUS
<1>2. PICK st : st = FreshMission(e, said, scope)
  OBVIOUS
<1>3. restoring # NoRestore /\ h \in HiddenEvent /\ scope \in Scopes /\ Known(e) /\ said \in Answer
      /\ said.at = "confirmed" /\ said.own = gevent[e].own
  <2>1. restoring # NoRestore
    BY DEF FinishRestore
  <2> QED
    BY <1>1, <2>1 DEF GoogleInv, RestoreFits
<1>4. PICK there \in BOOLEAN : there <=> (h \in hidden /\ Connected
                 /\ \A l \in links : l.event # e \/ l.scope # scope)
  OBVIOUS
<1>5. IF there
      THEN /\ Unused(Missions, occurrence) # {}
           /\ hidden' = IF scope = "entire_series"
                        THEN {x \in hidden : x.event # e}
                        ELSE Upsert(hidden \ {h}, Remainder(h, scope, said.slot))
           /\ occurrence' = st.occurrence /\ links' = st.links
           /\ dismissed' = [dismissed EXCEPT ![e] = 0]
           /\ unseen' = unseen \cup Shared(links') \cup (IF said = Normalized(e) THEN {} ELSE {e})
      ELSE UNCHANGED <<hidden, occurrence, links, dismissed, unseen>>
  BY <1>1, <1>2, <1>4, Zenon DEF FinishRestore
<1>6. CASE there
  <2>1. h \in hidden /\ e \in Events /\ ~gevent[e].own
    BY <1>1, <1>3, <1>4, <1>6 DEF HiddenEvent, GoogleInv
  <2>2. PICK m : m = CHOOSE x \in Unused(Missions, occurrence) : TRUE
    OBVIOUS
  <2>3. m \in Missions /\ occurrence[m].at = "none"
    <3>1. m \in Unused(Missions, occurrence)
      BY <1>5, <1>6, <2>2
    <3> QED
      BY <3>1 DEF Unused
  <2>4. PICK row : row = ActiveRow("external", said.own, said.slot, said.text)
    OBVIOUS
  <2>5. row \in MissionRow /\ row.at = "active" /\ External(row) /\ row.own = gevent[e].own /\ row.text = said.text
    BY <1>3, <2>4 DEF ActiveRow, MissionRow, Answer, External
  <2>6. st = [occurrence |-> [occurrence EXCEPT ![m] = row], links |-> links \cup {LinkRow(e, scope, m)}]
    BY <1>2, <2>2, <2>4 DEF FreshMission, Imported
  <2>7. occurrence' = [occurrence EXCEPT ![m] = row] /\ links' = links \cup {LinkRow(e, scope, m)}
    BY <1>5, <1>6, <2>6
  <2>8. scope # "entire_series" => \A x \in Remainder(h, scope, said.slot) : x \in HiddenEvent /\ x.event = e
    BY <1>1, <1>3, RemainderIs DEF Answer
  <2>9. /\ hidden' \subseteq HiddenEvent
        /\ \A x \in hidden' : x \in hidden \/ x.event = e
        /\ \A x \in hidden : x.event # e => x \in hidden'
    <3>1. hidden \subseteq HiddenEvent
      BY DEF GoogleInv, RowsFit
    <3>2. CASE scope = "entire_series"
      BY <1>5, <1>6, <3>1, <3>2
    <3>3. CASE scope # "entire_series"
      <4>1. hidden' = Upsert(hidden \ {h}, Remainder(h, scope, said.slot))
        BY <1>5, <1>6, <3>3
      <4> QED
        BY <1>1, <2>8, <3>1, <3>3, <4>1 DEF Upsert
    <3> QED
      BY <3>2, <3>3
  <2>10. unseen \cup Shared(links') \subseteq unseen'
    BY <1>5, <1>6
  <2>11. e \notin unseen' => gevent[e].at = "confirmed" /\ row.text = gevent[e].text
    <3>1. Normalized(e).at = gevent[e].at /\ Normalized(e).text = gevent[e].text
      BY DEF Normalized
    <3>2. e \notin unseen' => said = Normalized(e)
      BY <1>5, <1>6
    <3> QED
      BY <1>3, <2>5, <3>1, <3>2
  <2>12. dismissed' = [dismissed EXCEPT ![e] = 0]
    BY <1>5, <1>6
  <2> QED
    BY <1>3, <2>1, <2>3, <2>5, <2>7, <2>9, <2>10, <2>11, <2>12
<1>7. CASE ~there
  BY <1>5, <1>7
<1> QED
  BY <1>4, <1>6, <1>7

LEMMA RestoreKeeps == ASSUME GoogleInv, FinishRestore PROVE GoogleInv'
<1>1. restoring' = NoRestore /\ UNCHANGED <<clock, gevent, calendar, run>>
  BY DEF FinishRestore, google
<1>2. /\ occurrence \in [Missions -> MissionRow] /\ links \subseteq Link /\ hidden \subseteq HiddenEvent
      /\ dismissed \in [Events -> {0} \cup Slots] /\ clock \in Nat /\ calendar.cursor \in 0 .. clock
      /\ calendar = [state |-> calendar.state, cursor |-> calendar.cursor] /\ run = [r \in SyncRuns |-> run[r]]
      /\ \A l \in links : LinkFits(l)
      /\ \A x \in Missions : occurrence[x].at \in Gone => ~External(occurrence[x])
  BY DEF GoogleInv, RowsFit
<1>3. CASE UNCHANGED <<hidden, occurrence, links, dismissed, unseen>>
  <2>1. RowsFit' /\ RestoreFits' /\ \A r \in SyncRuns : BatchFits(r)'
    <3>1. \A m \in Missions : ByTheApp(m) => ByTheApp(m)'
      BY <1>3 DEF ByTheApp
    <3>2. clock' \in Nat /\ clock <= clock'
      BY <1>1, <1>2
    <3> QED
      BY <1>1, <1>2, <1>3, <3>1, <3>2, RowsMove
  <2>2. /\ \A l \in links' : LinkFits(l)'
        /\ \A x \in hidden' : Known(x.event)' /\ ~gevent'[x.event].own
        /\ \A e \in Events : StaysHidden(e)'
        /\ Shared(links') \subseteq unseen'
    BY <1>1, <1>3 DEF GoogleInv, LinkFits, LinksOf, Known, StaysHidden, IsHidden, Shared
  <2>3. ImportsAreCurrent'
    BY <1>1, <1>3 DEF GoogleInv, ImportsAreCurrent
  <2> QED
    BY <2>1, <2>2, <2>3 DEF GoogleInv
<1>4. CASE \E e \in Events, m \in Missions, row \in MissionRow, scope \in Scopes :
             /\ Known(e) /\ occurrence[m].at = "none" /\ row.at = "active" /\ row.own = gevent[e].own
             /\ External(row) /\ occurrence' = [occurrence EXCEPT ![m] = row]
             /\ links' = links \cup {LinkRow(e, scope, m)}
             /\ hidden' \subseteq HiddenEvent
             /\ \A h \in hidden' : h \in hidden \/ h.event = e
             /\ \A h \in hidden : h.event # e => h \in hidden'
             /\ ~gevent[e].own
             /\ dismissed' = [dismissed EXCEPT ![e] = 0]
             /\ unseen \cup Shared(links') \subseteq unseen'
             /\ e \notin unseen' => gevent[e].at = "confirmed" /\ row.text = gevent[e].text
  <2>1. PICK e \in Events, m \in Missions, row \in MissionRow, scope \in Scopes :
             /\ Known(e) /\ occurrence[m].at = "none" /\ row.at = "active" /\ row.own = gevent[e].own
             /\ External(row) /\ occurrence' = [occurrence EXCEPT ![m] = row]
             /\ links' = links \cup {LinkRow(e, scope, m)}
             /\ hidden' \subseteq HiddenEvent
             /\ \A h \in hidden' : h \in hidden \/ h.event = e
             /\ \A h \in hidden : h.event # e => h \in hidden'
             /\ ~gevent[e].own
             /\ dismissed' = [dismissed EXCEPT ![e] = 0]
             /\ unseen \cup Shared(links') \subseteq unseen'
             /\ e \notin unseen' => gevent[e].at = "confirmed" /\ row.text = gevent[e].text
    BY <1>4
  <2>2. PICK k : k = LinkRow(e, scope, m)
    OBVIOUS
  <2>3. k \in Link /\ k.event = e /\ k.mission = m /\ links' = links \cup {k}
    BY <2>1, <2>2 DEF LinkRow, Link
  <2>4. occurrence'[m] = row /\ \A x \in Missions \ {m} : occurrence'[x] = occurrence[x]
    BY <1>2, <2>1
  <2>5. \A l \in links : l.mission \in Missions \ {m}
    BY <1>2, <2>1 DEF LinkFits, Link, Gone
  <2>6. RowsFit' /\ RestoreFits' /\ \A r \in SyncRuns : BatchFits(r)'
    <3>1. \A x \in Missions : ByTheApp(x) => ByTheApp(x)'
      BY <2>1, <2>4 DEF ByTheApp
    <3>2. \A x \in Missions : occurrence'[x].at \in Gone => ~External(occurrence'[x])
      BY <1>2, <2>1, <2>4 DEF Gone
    <3>3. occurrence' \in [Missions -> MissionRow] /\ links' \subseteq Link
      BY <1>2, <2>1, <2>3
    <3>4. clock' \in Nat /\ clock <= clock' /\ calendar'.cursor \in 0 .. clock'
      BY <1>1, <1>2
    <3>5. dismissed' \in [Events -> {0} \cup Slots]
      BY <1>2, <2>1
    <3> QED
      BY <1>1, <1>2, <2>1, <3>1, <3>2, <3>3, <3>4, <3>5, RowsMove
  <2>7. ASSUME NEW l \in links' PROVE LinkFits(l)'
    <3>1. CASE l = k
      <4>1. LinksOf(m)' = {k}
        BY <2>3, <2>5 DEF LinksOf
      <4> QED
        BY <1>1, <2>1, <2>3, <2>4, <3>1, <4>1 DEF LinkFits, Known, Gone
    <3>2. CASE l # k
      <4>1. l \in links
        BY <2>3, <2>7, <3>2
      <4>2. LinksOf(l.mission)' = LinksOf(l.mission)
        BY <2>3, <2>5, <4>1 DEF LinksOf
      <4> QED
        BY <1>1, <1>2, <2>4, <2>5, <4>1, <4>2 DEF LinkFits, Known
    <3> QED
      BY <3>1, <3>2
  <2>8. \A x \in hidden' : Known(x.event)' /\ ~gevent'[x.event].own
    BY <1>1, <2>1 DEF GoogleInv, Known
  <2>9. ASSUME NEW x \in Events PROVE StaysHidden(x)'
    <3>1. SUFFICES ASSUME dismissed'[x] # 0
                   PROVE  /\ \E h \in hidden' : h.event = x /\ Hides(h, dismissed'[x])
                          /\ ~gevent[x].own /\ x \notin Shared(links')
      BY <1>1 DEF StaysHidden, IsHidden, Hides, Shared
    <3>2. x # e /\ dismissed'[x] = dismissed[x]
      BY <1>2, <2>1, <3>1
    <3>3. IsHidden(x, dismissed[x]) /\ ~gevent[x].own /\ x \notin Shared(links)
      BY <3>1, <3>2 DEF GoogleInv, StaysHidden
    <3>4. x \notin Shared(links')
      BY <2>3, <3>2, <3>3 DEF Shared
    <3> QED
      BY <2>1, <3>2, <3>3, <3>4 DEF IsHidden, Hides
  <2>10. ImportsAreCurrent'
    <3> SUFFICES ASSUME NEW l \in links', l.event \notin unseen', occurrence'[l.mission].source = "external",
                        occurrence'[l.mission].at # "completed", gevent[l.event].updated <= calendar.cursor
                 PROVE  IF gevent[l.event].at = "cancelled" THEN occurrence'[l.mission].at = "cancelled"
                        ELSE occurrence'[l.mission].at = "active" /\ occurrence'[l.mission].text = gevent[l.event].text
      BY <1>1 DEF ImportsAreCurrent
    <3>1. CASE l = k
      BY <2>1, <2>3, <2>4, <3>1
    <3>2. CASE l # k
      <4>1. l \in links /\ occurrence'[l.mission] = occurrence[l.mission] /\ l.event \notin unseen
        BY <2>1, <2>3, <2>4, <2>5, <3>2
      <4> QED
        BY <4>1 DEF GoogleInv, ImportsAreCurrent
    <3> QED
      BY <3>1, <3>2
  <2>11. Shared(links') \subseteq unseen'
    BY <2>1
  <2> QED
    BY <2>6, <2>7, <2>8, <2>9, <2>10, <2>11 DEF GoogleInv
<1> QED
  BY <1>3, <1>4, RestoredIs

LEMMA RecordKeeps == ASSUME GoogleInv, NEW r \in SyncRuns, RecordResults(r) PROVE GoogleInv'
<1>1. PICK said : said = run[r].batch
  OBVIOUS
<1>2. PICK made : made = {m \in DOMAIN said : said[m] # NoOne}
  OBVIOUS
<1>3. UNCHANGED <<clock, gevent, hidden, calendar, restoring, dismissed>> /\ unseen' = unseen \cup Shared(links')
  BY DEF RecordResults, google
<1>4. /\ occurrence \in [Missions -> MissionRow] /\ links \subseteq Link /\ hidden \subseteq HiddenEvent
      /\ dismissed \in [Events -> {0} \cup Slots] /\ clock \in Nat /\ calendar.cursor \in 0 .. clock
      /\ calendar = [state |-> calendar.state, cursor |-> calendar.cursor]
      /\ \A l \in links : LinkFits(l)
      /\ \A x \in Missions : occurrence[x].at \in Gone => ~External(occurrence[x])
  BY DEF GoogleInv, RowsFit
<1>5. DOMAIN said \subseteq {m \in Missions : ByTheApp(m)}
      /\ \A m \in made : said[m] \in Events /\ Known(said[m]) /\ gevent[said[m]].own
  BY <1>1, <1>2 DEF RecordResults, GoogleInv, BatchFits
\* The rows after it.
<1>6. /\ \A m \in Missions :
            /\ m \notin DOMAIN said => occurrence'[m] = occurrence[m]
            /\ occurrence'[m].at = occurrence[m].at /\ occurrence'[m].source = occurrence[m].source
      /\ occurrence' \in [Missions -> MissionRow]
      /\ \A l \in links' : l \in links \/ \E m \in made : l = LinkRow(said[m], "event", m) /\ MayBeUpdated(m)
  <2>1. CASE \A m \in DOMAIN said : MayBeUpdated(m)
    <3>1. /\ occurrence' = [m \in Missions |->
               IF m \notin DOMAIN said THEN occurrence[m]
               ELSE [occurrence[m] EXCEPT !.sync = IF m \in made THEN "synced" ELSE "failed"]]
          /\ links' = {l \in links : \A m \in made : l.event # said[m] \/ l.scope # "event"}
                      \cup {LinkRow(said[m], "event", m) : m \in made}
      BY <1>1, <1>2, <2>1 DEF RecordResults
    <3>2. ASSUME NEW m \in Missions
          PROVE  /\ m \notin DOMAIN said => occurrence'[m] = occurrence[m]
                 /\ occurrence'[m].at = occurrence[m].at /\ occurrence'[m].source = occurrence[m].source
                 /\ occurrence'[m] \in MissionRow
      <4>1. occurrence[m] \in MissionRow
        BY <1>4
      <4>2. CASE m \notin DOMAIN said
        BY <3>1, <4>1, <4>2
      <4>3. CASE m \in DOMAIN said
        <5>1. PICK sync \in {"synced", "failed"} : sync = IF m \in made THEN "synced" ELSE "failed"
          OBVIOUS
        <5>2. occurrence'[m] = [occurrence[m] EXCEPT !.sync = sync]
          BY <3>1, <4>3, <5>1
        <5> QED
          BY <4>1, <4>3, <5>1, <5>2 DEF MissionRow
      <4> QED
        BY <4>2, <4>3
    <3>3. occurrence' \in [Missions -> MissionRow]
      BY <3>1, <3>2
    <3>4. \A l \in links' : l \in links \/ \E m \in made : l = LinkRow(said[m], "event", m) /\ MayBeUpdated(m)
      BY <1>2, <2>1, <3>1
    <3> QED
      BY <3>2, <3>3, <3>4
  <2>2. CASE ~\A m \in DOMAIN said : MayBeUpdated(m)
    <3>1. UNCHANGED <<occurrence, links>>
      BY <1>1, <2>2 DEF RecordResults
    <3> QED
      BY <1>4, <3>1
  <2> QED
    BY <2>1, <2>2
<1>7. ASSUME NEW m \in made PROVE LinkRow(said[m], "event", m) \in Link
  <2>1. m \in Missions /\ said[m] \in Events
    BY <1>2, <1>5
  <2> QED
    BY <2>1 DEF LinkRow, Link
<1>8. /\ run' = [x \in SyncRuns |-> run'[x]] /\ BatchFits(r)'
      /\ \A x \in SyncRuns : x # r => run'[x] = run[x]
  <2>1. PICK b : b = [NoRun EXCEPT !.at = "import", !.first = run[r].first]
    OBVIOUS
  <2>2. b.at = "import" /\ Shaped(b) /\ NoRun.at = "idle" /\ Shaped(NoRun)
    BY <2>1 DEF NoRun, Shaped
  <2>3. run' = [run EXCEPT ![r] = b] \/ run' = [run EXCEPT ![r] = NoRun]
    BY <2>1 DEF RecordResults, Go
  <2> QED
    BY <2>2, <2>3, OneRuns, NoBatchFits
<1>9. RowsFit' /\ RestoreFits' /\ \A x \in SyncRuns : BatchFits(x)'
  <2>1. \A m \in Missions : ByTheApp(m) => ByTheApp(m)'
    BY <1>6 DEF ByTheApp, External
  <2>2. \A m \in Missions : occurrence'[m].at \in Gone => ~External(occurrence'[m])
    BY <1>4, <1>6 DEF External
  <2>3. links' \subseteq Link
    BY <1>4, <1>6, <1>7
  <2>4. clock' \in Nat /\ clock <= clock' /\ calendar'.cursor \in 0 .. clock'
    BY <1>3, <1>4
  <2>5. \A x \in SyncRuns : run'[x] = run[x] \/ BatchFits(x)'
    BY <1>8
  <2> QED
    BY <1>3, <1>4, <1>6, <1>8, <2>1, <2>2, <2>3, <2>4, <2>5, RowsMove
<1>10. ASSUME NEW l \in links', External(occurrence'[l.mission])
       PROVE  l \in links /\ l.mission \in Missions /\ occurrence'[l.mission] = occurrence[l.mission]
  <2>1. l.mission \in Missions
    BY <1>4, <1>6, <1>7 DEF Link
  <2>2. l.mission \notin DOMAIN said
    BY <1>5, <1>6, <1>10, <2>1 DEF ByTheApp, External
  <2> QED
    BY <1>2, <1>6, <2>1, <2>2 DEF LinkRow
<1>11. ASSUME NEW l \in links' PROVE LinkFits(l)'
  <2>1. l.event \in Events /\ l.mission \in Missions
    BY <1>4, <1>6, <1>7 DEF Link
  <2>2. CASE l \in links
    <3>1. LinkFits(l)
      BY <1>4, <2>2
    <3>2. ASSUME External(occurrence'[l.mission]) PROVE LinksOf(l.mission)' = {l}
      <4>1. LinksOf(l.mission) = {l}
        BY <1>10, <3>1, <3>2 DEF LinkFits
      <4>2. \A k \in links' : k.mission = l.mission => k \in links
        BY <1>10, <3>2
      <4> QED
        BY <4>1, <4>2 DEF LinksOf
    <3> QED
      BY <1>3, <1>6, <1>10, <2>1, <3>1, <3>2 DEF LinkFits, Known
  <2>3. ASSUME NEW m \in made, l = LinkRow(said[m], "event", m), MayBeUpdated(m) PROVE LinkFits(l)'
    <3>1. l.mission = m /\ l.event = said[m] /\ ByTheApp(m)
      BY <1>2, <1>5, <2>3 DEF LinkRow
    <3>2. ~External(occurrence'[m]) /\ occurrence'[m].at \notin Gone
      BY <1>6, <2>1, <2>3, <3>1 DEF ByTheApp, External, MayBeUpdated, Gone
    <3> QED
      BY <1>3, <1>5, <3>1, <3>2 DEF LinkFits, Known
  <2> QED
    BY <1>6, <2>2, <2>3
<1>12. \A x \in hidden' : Known(x.event)' /\ ~gevent'[x.event].own
  BY <1>3 DEF GoogleInv, Known
<1>13. ASSUME NEW e \in Events PROVE StaysHidden(e)'
  <2>1. SUFFICES ASSUME dismissed[e] # 0
                 PROVE  IsHidden(e, dismissed[e]) /\ ~gevent[e].own /\ e \notin Shared(links')
    BY <1>3 DEF StaysHidden, IsHidden, Shared
  <2>2. IsHidden(e, dismissed[e]) /\ ~gevent[e].own /\ e \notin Shared(links)
    BY <2>1 DEF GoogleInv, StaysHidden
  <2>3. \A l \in links' : l.event = e => l \in links
    BY <1>5, <1>6, <2>2 DEF LinkRow
  <2> QED
    BY <2>2, <2>3 DEF Shared
<1>14. Shared(links') \subseteq unseen'
  BY <1>3
<1>15. ImportsAreCurrent'
  BY <1>3, <1>10 DEF GoogleInv, ImportsAreCurrent, External
<1> QED
  BY <1>9, <1>11, <1>12, <1>13, <1>14, <1>15 DEF GoogleInv

\* A batch's rows, as the step leaves them.
LEMMA BatchApplied ==
    ASSUME GoogleInv, NEW r \in SyncRuns, Reconcile(r)
    PROVE  \E st \in RowsState :
              /\ BatchIs(run[r].batch) /\ AfterBatch(DOMAIN run[r].batch, run[r].batch, st)
              /\ occurrence' = st.occurrence /\ links' = st.links
<1>1. BatchIs(run[r].batch)
  BY DEF BatchIs, Reconcile, GoogleInv, BatchFits, At
<1>2. PICK begun : \E st \in Reconciled(run[r].batch, begun) : occurrence' = st.occurrence /\ links' = st.links
  BY DEF Reconcile
<1>3. PICK st \in Reconciled(run[r].batch, begun) : occurrence' = st.occurrence /\ links' = st.links
  BY <1>2
<1>4. st \in RowsState /\ AfterBatch(DOMAIN run[r].batch, run[r].batch, st)
  BY <1>1, BatchLeaves
<1> QED
  BY <1>1, <1>3, <1>4

LEMMA ReconcileKeeps == ASSUME GoogleInv, NEW r \in SyncRuns, Reconcile(r) PROVE GoogleInv'
<1>1. PICK batch : batch = run[r].batch
  OBVIOUS
<1>2. PICK st \in RowsState : /\ BatchIs(batch) /\ AfterBatch(DOMAIN batch, batch, st)
                              /\ occurrence' = st.occurrence /\ links' = st.links
  BY <1>1, BatchApplied
<1>3. /\ UNCHANGED <<clock, gevent, hidden, restoring, dismissed>> /\ (At(r, "apply") \/ At(r, "replace"))
      /\ calendar' = [calendar EXCEPT !.cursor = run[r].upto]
      /\ unseen' = (unseen \ (DOMAIN batch \ Shared(links))) \cup
            (IF At(r, "replace") THEN (Events \ DOMAIN batch) \ Unused(Events, gevent)
             ELSE {e \in Events : gevent[e].updated \in calendar.cursor + 1 .. run[r].since})
  BY <1>1 DEF Reconcile, google, CursorAfter, At
<1>4. /\ links \subseteq Link /\ hidden \subseteq HiddenEvent /\ dismissed \in [Events -> {0} \cup Slots]
      /\ clock \in Nat /\ calendar.cursor \in 0 .. clock
      /\ calendar = [state |-> calendar.state, cursor |-> calendar.cursor]
      /\ gevent \in [Events -> EventRow] /\ Shared(links) \subseteq unseen
  BY DEF GoogleInv, RowsFit
<1>5. /\ run[r].upto \in 0 .. clock /\ run[r].since \in Nat /\ DOMAIN batch \subseteq Events
      /\ \A e \in DOMAIN batch : gevent[e].updated <= run[r].upto => batch[e] = Normalized(e)
      /\ At(r, "apply") => \A e \in Events \ DOMAIN batch :
                               gevent[e].updated <= run[r].upto => gevent[e].updated <= run[r].since
  BY <1>1, <1>3 DEF GoogleInv, BatchFits
<1>6. calendar' = [state |-> calendar'.state, cursor |-> calendar'.cursor] /\ calendar'.cursor = run[r].upto
  BY <1>3, <1>4
<1>7. /\ \A m \in Missions : st.occurrence[m].at \in Gone => ~External(st.occurrence[m])
      /\ \A m \in Missions : ByTheApp(m) => ByTheApp(m)'
      /\ \A l \in links' : LeadsOn(l, st) /\ (IsNew(l, DOMAIN batch, batch, st) \/ WasThere(l, DOMAIN batch, batch, st))
  BY <1>2 DEF AfterBatch, MissionsAfter, ByTheApp
<1>8. occurrence' \in [Missions -> MissionRow] /\ links' \subseteq Link
  BY <1>2 DEF RowsState
<1>9. /\ run' = [x \in SyncRuns |-> run'[x]] /\ BatchFits(r)'
      /\ \A x \in SyncRuns : x # r => run'[x] = run[x]
  <2>1. PICK b : b = [NoRun EXCEPT !.at = "list", !.first = run[r].first]
    OBVIOUS
  <2>2. b.at = "list" /\ Shaped(b) /\ NoRun.at = "idle" /\ Shaped(NoRun)
    BY <2>1 DEF NoRun, Shaped
  <2>3. run' = [run EXCEPT ![r] = b] \/ run' = [run EXCEPT ![r] = NoRun]
    BY <2>1 DEF Reconcile, Go
  <2> QED
    BY <2>2, <2>3, OneRuns, NoBatchFits
<1>10. RowsFit' /\ RestoreFits' /\ \A x \in SyncRuns : BatchFits(x)'
  <2>1. \A m \in Missions : occurrence'[m].at \in Gone => ~External(occurrence'[m])
    BY <1>2, <1>7
  <2>2. clock' \in Nat /\ clock <= clock' /\ calendar'.cursor \in 0 .. clock'
    BY <1>3, <1>4, <1>5, <1>6
  <2>3. \A x \in SyncRuns : run'[x] = run[x] \/ BatchFits(x)'
    BY <1>9
  <2> QED
    BY <1>3, <1>4, <1>6, <1>7, <1>8, <1>9, <2>1, <2>2, <2>3, RowsMove
<1>11. \A l \in links' : LinkFits(l)'
  BY <1>2, <1>3, <1>7 DEF LeadsOn, LinkFits, LinksOf, Known
<1>12. \A x \in hidden' : Known(x.event)' /\ ~gevent'[x.event].own
  BY <1>3 DEF GoogleInv, Known
\* An event has no more links than before, or one.
<1>13. Shared(links') \subseteq Shared(links)
  <2>1. SUFFICES ASSUME NEW e \in Events, NEW k \in links', NEW l \in links', k # l, k.event = e, l.event = e
                 PROVE  e \in Shared(links)
    BY DEF Shared
  <2>2. k \in links /\ l \in links
    BY <1>2, <1>7, <2>1 DEF IsNew, WasThere
  <2> QED
    BY <2>1, <2>2 DEF Shared
<1>14. \A e \in Events : StaysHidden(e)'
  BY <1>3, <1>13 DEF GoogleInv, StaysHidden, IsHidden
<1>15. Shared(links') \subseteq unseen'
  BY <1>3, <1>4, <1>13
<1>16. ImportsAreCurrent'
  <2> SUFFICES ASSUME NEW l \in links', l.event \notin unseen', st.occurrence[l.mission].source = "external",
                      st.occurrence[l.mission].at # "completed", gevent[l.event].updated <= run[r].upto
               PROVE  IF gevent[l.event].at = "cancelled" THEN st.occurrence[l.mission].at = "cancelled"
                      ELSE st.occurrence[l.mission].at = "active" /\ st.occurrence[l.mission].text = gevent[l.event].text
    BY <1>2, <1>3, <1>6 DEF ImportsAreCurrent
  <2>1. PICK e \in Events : e = l.event
    BY <1>8 DEF Link
  <2>2. Known(e)
    BY <1>7, <2>1 DEF LeadsOn
  <2>3. CASE e \in DOMAIN batch
    <3>1. Mirrors(st.occurrence[l.mission], batch[e])
      <4>1. e \notin Shared(links)
        BY <1>3, <1>4, <2>1
      <4> QED
        BY <1>7, <2>1, <2>3, <4>1 DEF IsNew, WasThere, External
    <3>2. batch[e] = Normalized(e)
      BY <1>5, <2>1, <2>3
    <3> QED
      BY <2>1, <3>1, <3>2 DEF Mirrors, Normalized
  <2>4. CASE e \notin DOMAIN batch
    <3>1. l \in links /\ st.occurrence[l.mission] = occurrence[l.mission]
      BY <1>7, <2>1, <2>4 DEF IsNew, WasThere, External
    <3>2. e \notin unseen
      BY <1>3, <2>1, <2>4
    <3>3. ~At(r, "replace")
      BY <1>3, <2>1, <2>2, <2>4 DEF Unused, Known
    <3>4. gevent[e].updated <= calendar.cursor
      <4>1. gevent[e].updated \in Nat /\ calendar.cursor \in Nat /\ run[r].since \in Nat
        BY <1>4, <1>5 DEF EventRow
      <4>2. gevent[e].updated <= run[r].since
        BY <1>3, <1>5, <2>1, <2>4, <3>3
      <4>3. gevent[e].updated \notin calendar.cursor + 1 .. run[r].since
        BY <1>3, <2>1, <3>3
      <4> QED
        BY <4>1, <4>2, <4>3
    <3> QED
      BY <2>1, <3>1, <3>2, <3>4 DEF GoogleInv, ImportsAreCurrent
  <2> QED
    BY <2>3, <2>4
<1> QED
  BY <1>10, <1>11, <1>12, <1>14, <1>15, <1>16 DEF GoogleInv

(***************************************************************************)
(* The theorems.                                                           *)
(***************************************************************************)
LEMMA GoogleInvNext == GoogleInv /\ [SyncNext]_syncVars => GoogleInv'
<1> SUFFICES ASSUME GoogleInv, [SyncNext]_syncVars PROVE GoogleInv'
  OBVIOUS
<1>1. CASE UNCHANGED syncVars
  <2>1. UNCHANGED <<google, occurrence, links, hidden, restoring, unseen, dismissed, calendar, run>>
    BY <1>1 DEF syncVars, rows, service
  <2>2. run' = [r \in SyncRuns |-> run'[r]] /\ \A r \in SyncRuns : run'[r] = run[r]
    BY <2>1 DEF GoogleInv, RowsFit
  <2> QED
    BY <2>1, <2>2, SameConnection, RunsMove
<1>2. CASE \/ \E own \in BOOLEAN : GoogleCreates(own)
           \/ \E e \in Events : GoogleCancels(e) \/ \E slot \in Slots : GoogleEdits(e, slot)
  BY <1>2, EventsChange
<1>3. CASE CreateMission \/ \E m \in Missions : EditMission(m) \/ CompleteMission(m)
  BY <1>3, MissionsChange
<1>4. CASE \E m \in Missions, scope \in Scopes \cup {"event"} : DeleteMission(m, scope)
  BY <1>4, DeletionKeeps
<1>5. CASE \/ Connect \/ Disconnect
           \/ \E r \in SyncRuns : Begin(r) \/ Refused(r) \/ RunFails(r)
  BY <1>5, ConnectionKeeps
<1>6. ASSUME NEW r \in SyncRuns,
             \/ PullChanges(r) \/ InitialImport(r) \/ ListPending(r)
             \/ Reconcile(r) \/ ApplyCommands(r) \/ RecordResults(r)
      PROVE  GoogleInv'
  BY <1>6, PullKeeps, ImportKeeps, ListKeeps, ReconcileKeeps, ApplyKeeps, RecordKeeps
<1>7. CASE FinishRestore \/ \E h \in hidden, scope \in Scopes : StartRestore(h, scope)
  BY <1>7, RestoreKeeps, StartKeeps
<1> QED
  BY <1>1, <1>2, <1>3, <1>4, <1>5, <1>6, <1>7 DEF SyncNext

LEMMA GoogleInvAlways == SyncSpec => []GoogleInv
<1>1. SyncInit => GoogleInv
  BY GoogleInvInit
<1>2. GoogleInv /\ [SyncNext]_syncVars => GoogleInv'
  BY GoogleInvNext
<1> QED
  BY <1>1, <1>2, PTL DEF SyncSpec

\* The cursor does not pass a change that has not reached its mission, in
\* whatever order two runs' pulls, imports, uploads and transactions, restores
\* and the user's deletions come (google-calendar-sync-store.ts:774, :859-883).
THEOREM ImportsAreCurrentAlways == SyncSpec => []ImportsAreCurrent
<1>1. GoogleInv => ImportsAreCurrent
  BY DEF GoogleInv
<1> QED
  BY <1>1, GoogleInvAlways, PTL

\* A link leads to a mission that is there, though the mission may be deleted
\* while its event is created at Google (google-calendar-sync-store.ts:974-1018).
THEOREM LinksAreLiveAlways == SyncSpec => []LinksAreLive
<1>1. GoogleInv => LinksAreLive
  BY DEF GoogleInv, LinkFits, LinksAreLive, Gone
<1> QED
  BY <1>1, GoogleInvAlways, PTL

\* Uploads link only events of the app.
LEMMA RecordedAreOwn ==
    ASSUME GoogleInv, NEW r \in SyncRuns, RecordResults(r), NEW l \in links', l \notin links
    PROVE  gevent[l.event].own
<1>1. PICK said : said = run[r].batch
  OBVIOUS
<1>2. links' = links
      \/ \A k \in links' : k \in links \/ \E m \in DOMAIN said : said[m] # NoOne /\ k = LinkRow(said[m], "event", m)
  BY <1>1 DEF RecordResults
<1>3. PICK m \in DOMAIN said : said[m] # NoOne /\ l = LinkRow(said[m], "event", m)
  BY <1>2
<1>4. gevent[said[m]].own
  BY <1>1, <1>3 DEF RecordResults, GoogleInv, BatchFits
<1> QED
  BY <1>3, <1>4 DEF LinkRow

LEMMA LinksComeFrom ==
    ASSUME GoogleInv, [SyncNext]_syncVars, NEW l \in links', l \notin links
    PROVE  \/ \E r \in SyncRuns : Reconcile(r) \/ RecordResults(r)
           \/ FinishRestore
<1>1. CASE UNCHANGED syncVars
  BY <1>1 DEF syncVars, rows
<1>2. CASE \/ \E own \in BOOLEAN : GoogleCreates(own)
           \/ \E e \in Events : GoogleCancels(e) \/ \E slot \in Slots : GoogleEdits(e, slot)
  BY <1>2 DEF GoogleCreates, GoogleCancels, GoogleEdits, GoogleChanges, rows
<1>3. CASE CreateMission \/ \E m \in Missions : EditMission(m) \/ CompleteMission(m)
  BY <1>3 DEF CreateMission, EditMission, CompleteMission
<1>4. CASE \E m \in Missions, scope \in Scopes \cup {"event"} : DeleteMission(m, scope)
  BY <1>4 DEF DeleteMission
<1>5. CASE \/ Connect \/ Disconnect
           \/ \E r \in SyncRuns : Begin(r) \/ Refused(r) \/ RunFails(r)
  BY <1>5 DEF Connect, Disconnect, Begin, Refused, RunFails, rows
<1>6. CASE \E r \in SyncRuns : PullChanges(r) \/ InitialImport(r) \/ ListPending(r) \/ ApplyCommands(r)
  BY <1>6 DEF PullChanges, InitialImport, ListPending, ApplyCommands, rows
<1>7. CASE \E h \in hidden, scope \in Scopes : StartRestore(h, scope)
  BY <1>7 DEF StartRestore, rows
<1> QED
  BY <1>1, <1>2, <1>3, <1>4, <1>5, <1>6, <1>7 DEF SyncNext

\* An invitation the user has deleted does not come back at the time it had
\* until it is restored, whatever is imported, in whatever order, by however
\* many runs (google-calendar-sync-store.ts:367-394,
\* 0012_hidden_external_event_metadata.sql:46).
THEOREM DismissedStaysAwayAlways == SyncSpec => DismissedStaysAway
<1>1. ASSUME GoogleInv, [SyncNext]_syncVars, NEW e \in Events, dismissed[e] # 0, ~Linked(e), dismissed'[e] # 0,
             NEW l \in links', l.event = e
      PROVE  occurrence'[l.mission].slot # dismissed[e]
  <2>1. IsHidden(e, dismissed[e]) /\ ~gevent[e].own
    BY <1>1 DEF GoogleInv, StaysHidden
  <2>2. l \notin links
    BY <1>1 DEF Linked
  <2>3. ASSUME NEW r \in SyncRuns, Reconcile(r) PROVE occurrence'[l.mission].slot # dismissed[e]
    <3>1. PICK batch : batch = run[r].batch
      OBVIOUS
    <3>2. PICK st \in RowsState : /\ BatchIs(batch) /\ AfterBatch(DOMAIN batch, batch, st)
                                  /\ occurrence' = st.occurrence /\ links' = st.links
      BY <1>1, <2>3, <3>1, BatchApplied
    <3>3. IsNew(l, DOMAIN batch, batch, st)
      BY <1>1, <2>2, <3>2 DEF AfterBatch, WasThere
    <3>4. occurrence'[l.mission].slot = batch[e].slot /\ ~IsHidden(e, batch[e].slot)
      BY <1>1, <3>2, <3>3 DEF IsNew
    <3> QED
      BY <2>1, <3>4
  <2>4. ASSUME NEW r \in SyncRuns, RecordResults(r) PROVE FALSE
    BY <1>1, <2>1, <2>2, <2>4, RecordedAreOwn
  <2>5. ASSUME FinishRestore PROVE FALSE
    <3>1. PICK x \in Events : \E m, scope : links' = links \cup {LinkRow(x, scope, m)} /\ dismissed' = [dismissed EXCEPT ![x] = 0]
      BY <1>1, <2>2, <2>5, RestoredIs
    <3>2. x = e
      BY <1>1, <2>2, <3>1 DEF LinkRow
    <3>3. dismissed \in [Events -> {0} \cup Slots]
      BY <1>1 DEF GoogleInv, RowsFit
    <3> QED
      BY <1>1, <3>1, <3>2, <3>3
  <2> QED
    BY <1>1, <2>2, <2>3, <2>4, <2>5, LinksComeFrom
<1>2. GoogleInv /\ [SyncNext]_syncVars =>
        \A e \in Events : (dismissed[e] # 0 /\ ~Linked(e) /\ dismissed'[e] # 0)
                          => \A l \in links' : l.event = e => occurrence'[l.mission].slot # dismissed[e]
  BY <1>1
<1> QED
  BY <1>2, GoogleInvAlways, PTL DEF SyncSpec, DismissedStaysAway

==============================================================================

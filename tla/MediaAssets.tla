----------------------------- MODULE MediaAssets -----------------------------
(***************************************************************************)
(* Protected media: the row of an asset (media_assets), its original in the *)
(* blob store, the API handlers that upload and delete it                   *)
(* (apps/api/src/protected-media.ts) and the cleanup job                    *)
(* (apps/worker/src/product-media-cleanup.ts).                              *)
(*                                                                         *)
(* A transaction is a step and a call of the blob store is a step.  The    *)
(* cleanup job alone keeps its row lock across the call; a plain SELECT     *)
(* does not wait for that lock.                                            *)
(***************************************************************************)
EXTENDS Naturals, FiniteSets

CONSTANTS
    Assets,     \* the assets, one for each photo
    Deleters,   \* API requests and workers that delete an asset
    NoAsset     \* not an asset

ASSUME NoAssetAssumption == NoAsset \notin Assets

VARIABLES
    damaged,   \* photos whose bytes are not an image the API accepts
    asset,     \* asset[a]: deletion_state, "none" before the row is there
    due,       \* assets past deletion_due_at
    blob,      \* assets whose original is in the blob store
    upload,    \* upload[a]: an upload handler between its steps
    deletion,  \* deletion[x]: a deleteAsset call between its steps
    sweep,     \* the row the cleanup job has locked, and whether its blob is gone
    late       \* assets stored after their deletion began (not in code)

mediaVars == <<damaged, asset, due, blob, upload, deletion, sweep, late>>

NoDeletion == [at |-> "idle", of |-> NoAsset]
NoSweep == [of |-> NoAsset, wiped |-> FALSE]

MediaInit ==
    /\ damaged \in SUBSET Assets
    /\ asset = [a \in Assets |-> "none"]
    /\ due = {} /\ blob = {} /\ late = {}
    /\ upload = [a \in Assets |-> "idle"]
    /\ deletion = [x \in Deleters |-> NoDeletion]
    /\ sweep = NoSweep

(***************************************************************************)
(* Uploads.                                                                *)
(***************************************************************************)
\* isValidImagePayload: type, dimensions and size of the image.
IsValidImagePayload(a) == a \notin damaged

\* authorizeUpload locks the row of an asset that is there already.
AuthorizeUpload(a) == asset[a] = "active" /\ sweep.of # a /\ UNCHANGED mediaVars

\* upload: the token is checked and the row read, without a lock.
UploadSelect(a) ==
    /\ upload[a] = "idle"
    /\ IsValidImagePayload(a) /\ asset[a] = "active"
    /\ upload' = [upload EXCEPT ![a] = "put"]
    /\ UNCHANGED <<damaged, asset, due, blob, deletion, sweep, late>>

\* blobStore.put: an original that is there already stays as it is.
UploadPut(a) ==
    /\ upload[a] = "put"
    /\ upload' = [upload EXCEPT ![a] = "committed"]
    /\ blob' = blob \cup {a}
    /\ late' = IF asset[a] = "active" /\ sweep.of # a THEN late ELSE late \cup {a}
    /\ UNCHANGED <<damaged, asset, due, deletion, sweep>>

\* The handler ends; its callback is of the module that extends this one.
UploadEnds(a) ==
    /\ upload[a] = "committed"
    /\ upload' = [upload EXCEPT ![a] = "idle"]
    /\ UNCHANGED <<damaged, asset, due, blob, deletion, sweep, late>>

\* The store refuses, or the API process dies.
UploadDies(a) ==
    /\ upload[a] # "idle"
    /\ upload' = [upload EXCEPT ![a] = "idle"]
    /\ UNCHANGED <<damaged, asset, due, blob, deletion, sweep, late>>

(***************************************************************************)
(* deleteAsset: mark, delete the blobs, mark again.                         *)
(***************************************************************************)
\* Mutant: the row is marked only after the blobs.
DeleteUnmarked(x, a) ==
    /\ deletion[x].at = "idle" /\ asset[a] = "active" /\ sweep.of # a
    /\ deletion' = [deletion EXCEPT ![x] = [at |-> "blobs", of |-> a]]
    /\ UNCHANGED <<damaged, asset, due, blob, upload, sweep, late>>

DeleteMark(x, a) ==
    /\ deletion[x].at = "idle" /\ asset[a] # "none" /\ sweep.of # a
    /\ IF asset[a] = "deleted"
       THEN UNCHANGED <<damaged, asset, deletion>>
       ELSE /\ asset' = [asset EXCEPT ![a] = "deleting"]
            /\ deletion' = [deletion EXCEPT ![x] = [at |-> "blobs", of |-> a]]
    /\ UNCHANGED <<damaged, due, blob, upload, sweep, late>>

\* Mutant: the blob store is not called.
DeleteBlobsUnheeded(x) ==
    /\ deletion[x].at = "blobs"
    /\ deletion' = [deletion EXCEPT ![x].at = "row"]
    /\ UNCHANGED <<damaged, asset, due, blob, upload, sweep, late>>

\* blobStore.delete: a blob that is not there is a success.
Wipe(a) == blob' = blob \ {a}

DeleteBlobs(x) ==
    /\ deletion[x].at = "blobs"
    /\ Wipe(deletion[x].of)
    /\ deletion' = [deletion EXCEPT ![x].at = "row"]
    /\ UNCHANGED <<damaged, asset, due, upload, sweep, late>>

DeleteRow(x) ==
    LET a == deletion[x].of
    IN  /\ deletion[x].at = "row" /\ sweep.of # a
        /\ asset' = [asset EXCEPT ![a] = IF @ = "deleting" THEN "deleted" ELSE @]
        /\ deletion' = [deletion EXCEPT ![x] = NoDeletion]
        /\ UNCHANGED <<damaged, due, blob, upload, sweep, late>>

\* The store fails (retry_pending, the row stays "deleting") or the process dies.
DeleteDies(x) ==
    /\ deletion[x].at # "idle"
    /\ deletion' = [deletion EXCEPT ![x] = NoDeletion]
    /\ UNCHANGED <<damaged, asset, due, blob, upload, sweep, late>>

(***************************************************************************)
(* The cleanup job, one asset at a time.                                    *)
(***************************************************************************)
\* calculateMediaDeletionDeadline: thirty days after the row was made.
DeadlinePasses(a) ==
    /\ asset[a] # "none" /\ a \notin due
    /\ due' = due \cup {a}
    /\ UNCHANGED <<damaged, asset, blob, upload, deletion, sweep, late>>

IsEligibleForCleanup(a) == asset[a] = "deleting" \/ (asset[a] = "active" /\ a \in due)

SweepLock(a) ==
    /\ sweep = NoSweep /\ IsEligibleForCleanup(a)
    /\ sweep' = [NoSweep EXCEPT !.of = a]
    /\ UNCHANGED <<damaged, asset, due, blob, upload, deletion, late>>

SweepDelete ==
    /\ sweep # NoSweep /\ ~sweep.wiped
    /\ Wipe(sweep.of)
    /\ sweep' = [sweep EXCEPT !.wiped = TRUE]
    /\ UNCHANGED <<damaged, asset, due, upload, deletion, late>>

SweepCommit ==
    /\ sweep.wiped
    /\ asset' = [asset EXCEPT ![sweep.of] = "deleted"]
    /\ sweep' = NoSweep
    /\ UNCHANGED <<damaged, due, blob, upload, deletion, late>>

\* The store fails: "deleting" with retry_pending is committed.
SweepFails ==
    /\ sweep # NoSweep /\ ~sweep.wiped
    /\ asset' = [asset EXCEPT ![sweep.of] = "deleting"]
    /\ sweep' = NoSweep
    /\ UNCHANGED <<damaged, due, blob, upload, deletion, late>>

\* The database fails or the job dies: rolled back, and the run is over.
SweepAborts ==
    /\ sweep # NoSweep
    /\ sweep' = NoSweep
    /\ UNCHANGED <<damaged, asset, due, blob, upload, deletion, late>>
=============================================================================

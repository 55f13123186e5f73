-------------------------------- MODULE Story --------------------------------
(***************************************************************************)
(* The Story draft of one completed mission: sync-store.ts and              *)
(* story-image-generation.ts on the server, app/story.tsx,                  *)
(* story-offline-draft.ts and the Story part of authenticated-sync-         *)
(* runtime.ts on the phones.                                                *)
(*                                                                         *)
(* "now" counts what users do and is every clock: the id of a draft is when *)
(* it was made, a text stands for when it was written. What was made before *)
(* "cutoff" is older than the retention period.                             *)
(***************************************************************************)
EXTENDS Naturals, Sequences, FiniteSets

CONSTANTS
    Editors,        \* phones of the account
    MaxGenerations, \* MAX_GENERATIONS
    MaxNow,         \* bound: what users do
    MaxLosses       \* bound: answers that are lost, apps that are killed

ASSUME GenerationsAssumption == MaxGenerations \in Nat

VARIABLES
    story,      \* story_drafts, story_image_versions, story_compositions
    storyLog,   \* account_change_log, of this story; redacted entries stay as gaps
    accepted,   \* device_sync_mutations
    usage,      \* story_generation_usage
    generated,  \* images that were generated (not in code)
    local,      \* local[p]: story_drafts of the phone
    tomb,       \* tomb[p]: story_retention_tombstones, the id of a draft
    queue,      \* queue[p]: mutation_queue, a set of saves in the order of "by"
    readTo,     \* readTo[p]: the cursor
    run,        \* run[p]: a synchronization
    editor,     \* editor[p]: editorState of the open screen
    task,       \* task[p]: a generation or deletion the screen waits for
    now, cutoff, losses,
    behind      \* behind[p]: why it may lack the server's draft (not in code)

serverStory == <<story, storyLog, accepted, usage, generated>>
phoneStory == <<local, tomb, queue, behind>>
storyVars == <<serverStory, phoneStory, readTo, run, editor, task, now, cutoff, losses>>

NoStory == [id |-> 0, replaces |-> 0, since |-> 0, text |-> 0, images |-> {}, at |-> 0, by |-> 0]
NoRun == [at |-> "none", expired |-> 0, batch |-> {}, sent |-> {}, conflict |-> 0, on |-> 0,
          page |-> << >>]
NoImage == [no |-> 0, made |-> 0]
NoTask == [at |-> "none", on |-> NoStory, image |-> NoImage]
Tick == now < MaxNow /\ now' = now + 1
Loss == losses < MaxLosses /\ losses' = losses + 1
Old(t) == t <= cutoff

\* newestCompositionSaveTime
SavedAt(s) == LET times == {s.text} \cup {i.made : i \in s.images}
              IN  CHOOSE t \in times : \A u \in times : u <= t

StoryInit ==
    /\ story = NoStory /\ storyLog = << >> /\ accepted = {} /\ usage = 0 /\ generated = {}
    /\ local = [p \in Editors |-> NoStory] /\ tomb = [p \in Editors |-> 0]
    /\ queue = [p \in Editors |-> {}] /\ behind = [p \in Editors |-> "no"]
    /\ readTo = [p \in Editors |-> 0]
    /\ run = [p \in Editors |-> NoRun]
    /\ editor = [p \in Editors |-> NoStory] /\ task = [p \in Editors |-> NoTask]
    /\ now = 0 /\ cutoff = 0 /\ losses = 0

(***************************************************************************)
(* The phone's store.                                                       *)
(***************************************************************************)
MaySave(p, s) ==
    /\ tomb[p] # s.id
    /\ local[p].id \in {0, s.id, s.replaces}

\* save: the row, its mutation and the tombstone in one transaction; the
\* screen ignores a save that fails.  What save reads before the transaction
\* is read with it: that the draft expires or is replaced in between is left out.
Save(p, s) ==
    IF MaySave(p, s)
    THEN /\ local' = [local EXCEPT ![p] = [s EXCEPT !.since =
                         IF local[p].id = s.id THEN local[p].since ELSE s.since]]
         /\ queue' = [queue EXCEPT ![p] = @ \cup {[s EXCEPT !.by = now', !.at = SavedAt(s)]}]
         /\ tomb' = [tomb EXCEPT ![p] = IF @ = s.id THEN @ ELSE 0]
         /\ behind' = [behind EXCEPT ![p] = "no"]
    ELSE UNCHANGED phoneStory

Show(p, s) == editor' = [editor EXCEPT ![p] = s]

\* pruneExpiredStoryDrafts, of the draft that was read.
Prune(p, id) ==
    IF id = 0 THEN UNCHANGED phoneStory
    ELSE /\ local' = [local EXCEPT ![p] = NoStory]
         /\ tomb' = [tomb EXCEPT ![p] = id]
         /\ queue' = [queue EXCEPT ![p] = {}]
         /\ behind' = [behind EXCEPT ![p] = "pruned"]

ExpiredOn(p) == IF local[p].id # 0 /\ Old(local[p].since) THEN local[p].id ELSE 0

(***************************************************************************)
(* The screen.                                                              *)
(***************************************************************************)
\* createEmptyStoryPayload.
NewStory(replaced) ==
    [NoStory EXCEPT !.id = now', !.since = now', !.text = now', !.replaces = replaced]

\* restore: a new draft when none is stored.
OpenStory(p) ==
    /\ editor[p] = NoStory /\ task[p] = NoTask /\ ExpiredOn(p) = 0
    /\ IF local[p].id # 0
       THEN Show(p, local[p]) /\ UNCHANGED <<phoneStory, now>>
       ELSE /\ Tick
            /\ Save(p, NewStory(0)) /\ Show(p, NewStory(0))
    /\ UNCHANGED <<serverStory, readTo, run, task, cutoff, losses>>

PruneOnOpen(p) ==
    /\ editor[p] = NoStory /\ ExpiredOn(p) # 0
    /\ Prune(p, ExpiredOn(p))
    /\ UNCHANGED <<serverStory, readTo, run, editor, task, now, cutoff, losses>>

EditComposition(p) ==
    /\ editor[p].id # 0 /\ Tick
    /\ LET next == [editor[p] EXCEPT !.text = now'] IN Save(p, next) /\ Show(p, next)
    /\ UNCHANGED <<serverStory, readTo, run, task, cutoff, losses>>

StartOver(p) ==
    /\ editor[p].id # 0 /\ task[p] = NoTask /\ Tick
    /\ LET next == NewStory(editor[p].id)
       IN  MaySave(p, next) /\ Save(p, next) /\ Show(p, next)
    /\ UNCHANGED <<serverStory, readTo, run, task, cutoff, losses>>

\* The current payload is saved on leaving.
CloseStory(p) ==
    /\ editor[p].id # 0 /\ task[p] = NoTask /\ Tick
    /\ Save(p, editor[p]) /\ Show(p, NoStory)
    /\ UNCHANGED <<serverStory, readTo, run, task, cutoff, losses>>

\* generate and deleteVersion of the phone's API, with the payload kept meanwhile.
Call(p, what, image) == task' = [task EXCEPT ![p] = [at |-> what, on |-> editor[p], image |-> image]]

\* onGenerateVersion, onDeleteImageVersion: the handler keeps the payload it
\* was called with until the server has answered.
AskForImage(p) ==
    /\ editor[p].id # 0 /\ task[p] = NoTask
    /\ \/ Call(p, "generate", NoImage) /\ Tick
       \/ \E i \in editor[p].images : Call(p, "delete", i) /\ UNCHANGED now
    /\ UNCHANGED <<serverStory, phoneStory, readTo, run, editor, cutoff, losses>>

\* Mutant: what the asking phone shows counts.
SpentAsShown(p) == Cardinality(task[p].on.images)

\* The budget belongs to the mission.
Spent(p) == usage

\* generate: the draft and the usage are locked while the gateway works.
GenerateImage(p) ==
    /\ task[p].at = "generate"
    /\ story.id = task[p].on.id /\ Spent(p) < MaxGenerations
    /\ usage' = usage + 1
    /\ LET image == [no |-> usage', made |-> now]
       IN  /\ generated' = generated \cup {image}
           /\ story' = [story EXCEPT !.images = @ \cup {image}]
           /\ task' = [task EXCEPT ![p].at = "generated", ![p].image = image]
    /\ UNCHANGED <<storyLog, accepted, phoneStory, readTo, run, editor, now, cutoff, losses>>

\* deleteVersion: the blob and the row.
DeleteImage(p) ==
    /\ task[p].at = "delete" /\ story.id = task[p].on.id /\ task[p].image \in story.images
    /\ story' = [story EXCEPT !.images = @ \ {task[p].image}]
    /\ task' = [task EXCEPT ![p].at = "deleted"]
    /\ UNCHANGED <<storyLog, accepted, usage, generated, phoneStory, readTo, run, editor,
                   now, cutoff, losses>>

ShowImage(p) ==
    /\ task[p].at \in {"generated", "deleted"} /\ editor[p].id # 0 /\ Tick
    /\ LET kept == task[p].on
           next == [kept EXCEPT !.images = IF task[p].at = "generated" THEN @ \cup {task[p].image}
                                           ELSE @ \ {task[p].image}]
       IN  Save(p, next) /\ Show(p, next)
    /\ task' = [task EXCEPT ![p] = NoTask]
    /\ UNCHANGED <<serverStory, readTo, run, cutoff, losses>>

\* The gateway or the call fails; a failed generation is rolled back, and not
\* counted.
ImageFails(p) ==
    /\ task[p] # NoTask /\ task' = [task EXCEPT ![p] = NoTask]
    /\ \/ task[p].at \in {"generate", "delete"} /\ UNCHANGED losses
       \/ task[p].at \in {"generated", "deleted"} /\ Loss
    /\ UNCHANGED <<serverStory, phoneStory, readTo, run, editor, now, cutoff>>

(***************************************************************************)
(* The server takes a save.                                                 *)
(***************************************************************************)
Redacted(log) == [i \in DOMAIN log |-> IF log[i].op = "upsert" THEN [log[i] EXCEPT !.op = "gap"]
                                       ELSE log[i]]
Upsert(s) == [op |-> "upsert", content |-> s]
\* appendStoryRetentionDelete
Deletion(id) == [op |-> "delete", content |-> [NoStory EXCEPT !.id = id]]
RetiredFrom(log, id) == Append(Redacted(log), Deletion(id))
RetiredIn(log, id) == \E i \in DOMAIN log : log[i] = Deletion(id)

\* storySaveIsNewer: equal times are decided by the receipt.
SaveIsNewer(m) == m.at >= story.at

\* A conflict names the draft it is about.
Outcome(s, log, conflict) == [story |-> s, log |-> log, conflict |-> conflict, refused |-> FALSE]
Refusal == [Outcome(story, storyLog, 0) EXCEPT !.refused = TRUE]

\* created_at is the time of the save, as its phone told it.
Inserted(m, log) ==
    LET s == [m EXCEPT !.since = m.at, !.replaces = 0] IN Outcome(s, Append(log, Upsert(s)), 0)

\* With no draft in the way: a retired one does not come back.
FirstSave(m, log) ==
    IF RetiredIn(log, m.id) THEN Outcome(NoStory, log, m.id)
    ELSE IF Old(m.at) THEN Outcome(NoStory, RetiredFrom(log, m.id), m.id)
    ELSE Inserted(m, log)

\* Images the server generated stay when a save does not name them.
LaterSave(m) ==
    LET s == [m EXCEPT !.since = story.since, !.replaces = 0, !.images = @ \cup story.images]
    IN  IF SaveIsNewer(m) THEN Outcome(s, Append(storyLog, Upsert(s)), 0)
        ELSE Outcome(story, Append(storyLog, Upsert(story)), m.id)

\* applyStoryMutation
Applied(m) ==
    IF story.id = 0 THEN FirstSave(m, storyLog)
    ELSE IF Old(story.since)
    THEN IF story.id = m.id THEN Outcome(NoStory, RetiredFrom(storyLog, m.id), m.id)
         ELSE FirstSave(m, RetiredFrom(storyLog, story.id))
    ELSE IF story.id = m.id THEN LaterSave(m)
    ELSE IF m.replaces = story.id THEN Inserted(m, storyLog)
    ELSE Refusal

\* storyConflictForMutation: it names the draft there is, also when that is
\* not the one that was saved.
ConflictNow(m) ==
    IF story.id = 0 THEN IF RetiredIn(storyLog, m.id) THEN m.id ELSE 0
    ELSE IF story.by = m.by THEN 0 ELSE story.id

\* acceptMutation: what was accepted before is only looked up.
AcceptedSave(m) == IF m.by \in accepted THEN Outcome(story, storyLog, ConflictNow(m)) ELSE Applied(m)

TakeSave(m) ==
    /\ story' = AcceptedSave(m).story /\ storyLog' = AcceptedSave(m).log
    /\ accepted' = IF AcceptedSave(m).refused THEN accepted ELSE accepted \cup {m.by}
    /\ UNCHANGED <<usage, generated>>

\* The worker's sweep.
RetireDraft ==
    /\ story.id # 0 /\ Old(story.since)
    /\ story' = NoStory /\ storyLog' = RetiredFrom(storyLog, story.id)
    /\ UNCHANGED <<accepted, usage, generated, phoneStory, readTo, run, editor, task,
                   now, cutoff, losses>>

(***************************************************************************)
(* A synchronization of a phone.                                            *)
(***************************************************************************)
\* pushQueuedMutations: all that is queued is a batch, until nothing is.
Listed(q) == [NoRun EXCEPT !.at = IF q = {} THEN "read" ELSE "send", !.batch = q]

\* The expired draft is read before the transaction that removes it.
StartSync(p) ==
    /\ run[p] = NoRun
    /\ queue[p] # {} \/ readTo[p] < Len(storyLog) \/ ExpiredOn(p) # 0
    /\ run' = [run EXCEPT ![p] = IF ExpiredOn(p) = 0 THEN Listed(queue[p])
                                 ELSE [NoRun EXCEPT !.at = "prune", !.expired = ExpiredOn(p)]]
    /\ UNCHANGED <<serverStory, phoneStory, readTo, editor, task, now, cutoff, losses>>

PruneExpired(p) ==
    /\ run[p].at = "prune" /\ Prune(p, run[p].expired)
    /\ run' = [run EXCEPT ![p].at = "push", ![p].expired = 0]
    /\ UNCHANGED <<serverStory, readTo, editor, task, now, cutoff, losses>>

Earliest(q) == CHOOSE m \in q : \A n \in q : m.by <= n.by

ListSaves(p) ==
    /\ run[p].at = "push"
    /\ run' = [run EXCEPT ![p] = Listed(queue[p])]
    /\ UNCHANGED <<serverStory, phoneStory, readTo, editor, task, now, cutoff, losses>>

\* pushQueuedMutationsWithCompletions: one by one.  The batch leaves the queue
\* when all of it was accepted; after a conflict, what was settled leaves it
\* when the pull is done; a refusal or a lost answer ends the run, and all of
\* the batch stays.
PushSave(p) ==
    /\ run[p].at = "send"
    /\ LET m == Earliest(run[p].batch)
           r == AcceptedSave(m)
           sent == run[p].sent \cup {m.by}
       IN  /\ TakeSave(m)
           /\ \/ /\ UNCHANGED losses
                 /\ IF r.refused THEN run' = [run EXCEPT ![p] = NoRun] /\ UNCHANGED queue
                    ELSE IF r.conflict # 0
                    THEN /\ run' = [run EXCEPT ![p] = [NoRun EXCEPT !.at = "read", !.sent = sent,
                                                         !.conflict = m.by, !.on = r.conflict]]
                         /\ UNCHANGED queue
                    ELSE IF run[p].batch = {m}
                    THEN /\ queue' = [queue EXCEPT ![p] = {n \in @ : n.by \notin sent}]
                         /\ run' = [run EXCEPT ![p] = Listed(queue'[p])]
                    ELSE /\ run' = [run EXCEPT ![p].batch = @ \ {m}, ![p].sent = sent]
                         /\ UNCHANGED queue
              \/ Loss /\ run' = [run EXCEPT ![p] = NoRun] /\ UNCHANGED queue
    /\ UNCHANGED <<local, tomb, behind, readTo, editor, task, now, cutoff>>

\* Mutant: a save that is in flight counts as pending.
PendingOrInFlight(q, p) == q # {}

\* hasPendingStoryMutation: saves that were settled are still in flight, and do
\* not count.
HasPending(q, p) == \E m \in q : m.by \notin run[p].sent

\* What was saved since is on its way, but the server has all of it already.
Overtaken(q, p) == \A m \in q : m.by \notin run[p].sent => m.by \in accepted

\* applyAuthoritativeChanges, of one entry: row, tombstone, queue.
Projected(w, e, p) ==
    CASE e.op = "delete" ->
            [w EXCEPT !.local = IF @.id \in {0, e.content.id} THEN NoStory ELSE @,
                      !.tomb = e.content.id,
                      !.queue = {m \in @ : m.id # e.content.id \/ m.by \in run[p].sent}]
      [] e.op = "upsert" /\ ~HasPending(w.queue, p) /\ w.tomb # e.content.id ->
            [w EXCEPT !.local = [e.content EXCEPT !.at = 0, !.by = 0], !.tomb = 0,
                      !.behind = "no"]
      [] e.op = "upsert" /\ (\E m \in w.queue : m.by \notin run[p].sent) /\ Overtaken(w.queue, p) ->
            [w EXCEPT !.behind = "passed over"]
      [] OTHER -> w

\* What is new is one page; when nothing is, there is nothing to apply.
ReadPage(p) ==
    /\ run[p].at = "read"
    /\ LET page == SubSeq(storyLog, readTo[p] + 1, Len(storyLog))
       IN  run' = [run EXCEPT ![p] = IF page # << >> THEN [@ EXCEPT !.at = "apply", !.page = page]
                                     ELSE IF @.conflict = 0 THEN NoRun ELSE [@ EXCEPT !.at = "settle"]]
    /\ UNCHANGED <<serverStory, phoneStory, readTo, editor, task, now, cutoff, losses>>

\* Its changes, one after the other.
AfterPage(p) ==
    LET page == run[p].page
        pulled[i \in 0..Len(page)] ==
            IF i = 0
            THEN [local |-> local[p], tomb |-> tomb[p], queue |-> queue[p], behind |-> behind[p]]
            ELSE Projected(pulled[i - 1], page[i], p)
    IN  pulled[Len(page)]

\* The page and the cursor in one transaction, on what the phone has by then.
PullStory(p) ==
    /\ run[p].at = "apply"
    /\ LET w == AfterPage(p)
       IN  /\ local' = [local EXCEPT ![p] = w.local]
           /\ tomb' = [tomb EXCEPT ![p] = w.tomb]
           /\ queue' = [queue EXCEPT ![p] = w.queue]
           /\ behind' = [behind EXCEPT ![p] = w.behind]
    /\ readTo' = [readTo EXCEPT ![p] = @ + Len(run[p].page)]
    /\ run' = [run EXCEPT ![p] = IF @.conflict = 0 THEN NoRun
                                 ELSE [@ EXCEPT !.at = "settle", !.page = << >>]]
    /\ UNCHANGED <<serverStory, editor, task, now, cutoff, losses>>

\* applyAuthenticatedConflicts: the save must be queued still, and of the draft
\* that the conflict names; the screen takes the row the pull wrote.  If not,
\* the run fails and the batch stays.
SettleConflict(p) ==
    /\ run[p].at = "settle"
    /\ IF \E m \in queue[p] : m.by = run[p].conflict /\ m.id = run[p].on
       THEN /\ IF editor[p].id = run[p].on /\ local[p].id = run[p].on THEN Show(p, local[p])
               ELSE UNCHANGED editor
            /\ queue' = [queue EXCEPT ![p] = {m \in @ : m.by \notin run[p].sent}]
       ELSE UNCHANGED <<editor, queue>>
    /\ run' = [run EXCEPT ![p] = NoRun]
    /\ UNCHANGED <<serverStory, local, tomb, behind, readTo, task, now, cutoff, losses>>

StoryAppDies(p) ==
    /\ run[p] # NoRun \/ task[p] # NoTask
    /\ Loss
    /\ Show(p, NoStory) /\ run' = [run EXCEPT ![p] = NoRun] /\ task' = [task EXCEPT ![p] = NoTask]
    /\ UNCHANGED <<serverStory, phoneStory, readTo, now, cutoff>>

\* The retention period passes for all that was made so far.
MonthPasses ==
    /\ cutoff = 0 /\ now > 0 /\ cutoff' = now
    /\ UNCHANGED <<serverStory, phoneStory, readTo, run, editor, task, now, losses>>

StoryNext ==
    \/ \E p \in Editors :
          \/ OpenStory(p) \/ PruneOnOpen(p) \/ EditComposition(p) \/ StartOver(p) \/ CloseStory(p)
          \/ AskForImage(p) \/ GenerateImage(p) \/ DeleteImage(p) \/ ShowImage(p) \/ ImageFails(p)
          \/ StartSync(p) \/ PruneExpired(p) \/ ListSaves(p) \/ PushSave(p) \/ ReadPage(p)
          \/ PullStory(p) \/ SettleConflict(p) \/ StoryAppDies(p)
    \/ RetireDraft \/ MonthPasses

StorySpec == StoryInit /\ [][StoryNext]_storyVars

(***************************************************************************)
(* Properties.                                                             *)
(***************************************************************************)
\* A phone with nothing queued that has read the whole log holds the draft the
\* server has: whichever saves were older, refused as replacing, lost on the way,
\* sent again or skipped while another was queued, and whatever expired
\* meanwhile (authenticated-sync-runtime.ts:592-745, sync-store.ts:1455-1705,
\* server-sync.ts:231-314). Excepted are a phone whose own draft has expired
\* since it last held one; and one that passed over a row for saves it had
\* queued, all of which the server had accepted before: sent again they add no
\* entry, and what was passed over does not come back (a finding;
\* authenticated-sync-runtime.ts:799, sync-store.ts:2198-2245).
StoriesConverge ==
    \A p \in Editors :
        run[p] = NoRun /\ queue[p] = {} /\ readTo[p] = Len(storyLog) /\ story.id # 0
        => \/ local[p].id = story.id /\ local[p].text = story.text
           \/ local[p].id = 0 /\ behind[p] = "pruned"
           \/ behind[p] = "passed over"

\* A mission gets at most MAX_GENERATIONS images, on whichever phones, however
\* often its Story is started over or expires (story-image-generation.ts
\* :183-330).
GenerationBudget == Cardinality(generated) <= MaxGenerations
=============================================================================

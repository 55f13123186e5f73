# A TLA+ development of Mission-to-Story (misyra)

Mission-to-Story is a local-first calendar of missions. An Expo app keeps a
SQLite store, works offline and queues what its user does; a Fastify API
accepts the queued mutations into Postgres and gives every account one ordered
change log; a worker cleans up after retention. The hard part of the program is
not any one of these but what they do to each other: retries that overlap,
transactions that commit out of order, pages read in several statements, rows
that change while an edit is open, runs cut off in the middle.

This directory holds TLA+ modules translated from that code, TLC
configurations that check them on small instances, and TLAPS proofs for every
instance. `PROJECT.json` says line by line which code a definition stands for,
which runs check which property, and which mutation of the model each property
detects.

    tlasany M.tla                         parse a module
    tlc -workers 2 -config X.cfg M        check one run of PROJECT.json
    tlapm ChangeLogProofs.tla             check the proofs (also the other *Proofs.tla)

## 1. Inventory

Paths are below `src/`. `db` is `packages/database/src`, `api` is
`apps/api/src`, `mobile` is `apps/mobile/src`, `domain` is `packages/domain/src`.

| component | state it keeps | operations | what makes it hard | what makes it correct | status |
|---|---|---|---|---|---|
| Account change log (`db/account-change-log.ts`) | `account_change_log`: numbered rows per account | append under an advisory lock; pull (3 statements); snapshot (2 statements); retention redaction | READ COMMITTED: commits and redactions between statements | no number twice, no row appears behind a cursor, a replica is faithful at its cursor | modelled, proved |
| Mission mutations (`db/sync-store.ts`, `api/sync-service.ts`) | `mission_occurrences`, tombstones, `device_sync_mutations` | create, update, delete; replay of a known mutation; conflicts | the same mutation served twice at once; several devices on one version | applied at most once, no lost update, log and row agree, answers true | partly: missions (MissionServer), drafts (Story, Planner); not preferences |
| Authoritative completion (`api/authoritative-completion.ts`, `db/idempotency-outbox.ts`) | `idempotency_keys`, completion columns, streak and reward rows | complete under a key; replay; key expiry | keys expire; two keys for one mission | one completion per mission, ever | partly: the command; not amounts |
| Mobile queue and mission commands (`mobile/calendar/*`, `mobile/sync/no-evidence-completion-queue.ts`) | `mutation_queue`, cached missions, local tombstones | create, edit, delete, undo, complete, each with its queued mutation | edits computed from a row that changes meanwhile; undo against a running sync | nothing queued is lost; deleted stays deleted | partly: one mission (MissionDevice, proved), recurring scopes (SeriesEdits, proved); not external destinations |
| Mobile sync run (`mobile/sync/server-sync.ts`, `authenticated-sync-*.ts`) | cursor, in-flight flags, the run's batch | list, mark, push, settle, pull, apply, reconcile, settle what was refused | lost answers, restarts and user actions at every await | order kept, queues drain, replicas converge | partly: missions (MissionDevice, MissionSync; order proved), drafts (Story, Planner) |
| Idempotency and outbox (`db/idempotency-outbox.ts`) | keys, `outbox_events` with a lease | claim, complete, fail, dead-letter | lease shorter than the work | an event is done at least once, and done twice is harmless | partly: as completions and evidence use them |
| Evidence (`api/evidence-attempt.ts`, `api/evidence-verification.ts`, `mobile/evidence/*`) | attempts, media, outbox event, upload queue | reserve, upload, verify, complete | verdict and completion in two transactions; leases that run out | done is granted; the winner is not a loser | partly: Evidence, its safety proved; not the gateway and the camera |
| Protected media and worker (`api/protected-media.ts`, `apps/worker/src/*`) | blobs, media rows, deletion marks | upload with callback, delete in three steps, recover, retention | blob and row are not one transaction | no row without a blob, no blob without a row, for ever | partly: MediaAssets (proved), ChangeLog |
| Story drafts and images (`db/sync-store.ts`, `app/story.tsx`, `mobile/story/*`, `api/story-image-generation.ts`) | drafts with save times, image versions, usage | save (last writer wins), start over, expire, generate | expiry and replacement against queued saves; a gateway call inside a transaction | the latest save wins everywhere; usage counts what was generated | modelled: Story; images partly |
| Apple calendar (`db/apple-*.ts`, `mobile/sync/apple-*`) | device commands with claims, links on server and phone | claim, execute, settle; scan, upload, reconcile | a claim expires while its phone executes; creation before the link is saved | one event per mission; the calendar catches up | commands modelled, one event per mission proved, upload partly: AppleCalendar |
| Google calendar (`db/google-*.ts`, `api/google-calendar-*.ts`) | connection, cursor, links, hidden events | pull, push, dismiss, restore | two runs at once; results of a mission that has changed | imports are current; what was dismissed stays away | partly: GoogleSync |
| Google watch channels (`api/google-calendar-watch.ts`) | channels, claims, pull events | open, renew, repair, notify | notifications lost, twice, late; channels that overlap | a change leads to a pull | modelled, proved: GoogleWatch |
| Sessions and account deletion (`db/auth-store.ts`, `api/auth.ts`, `mobile/auth/*`, `db/account-deletion.ts`) | families with rotated token hashes, the phone's storage | sign in, refresh, revoke, sign out, delete | a lost refresh answer looks like reuse; sign-out during refresh | signed out is final; only loss signs out | modelled, proved: Sessions; the deletion's cascade is not |
| AI planner (`api/planner-confirmation.ts`, `mobile/ai-planner/*`) | drafts on server and phones, confirmations | write, list, confirm, pull, snapshot | drafts of two phones and a confirmation; queued work dropped on the phone | drafts converge | modelled, proved: Planner |
| Notifications (`mobile/notifications/*`) | registry against the native scheduler | rebuild, cancel, schedule | everything awaits; reasons come meanwhile | one reminder per instant | modelled, proved: Reminders |
| Schedules and recurrence (`domain`, `api/google-calendar-initial-window.ts`, `mobile/calendar/*`) | series and occurrences | expand, project, split, save, delete | month ends, counts, scopes, saves cut short | what is kept is what the rule says | partly: Recurrence, SeriesEdits, proved; not times of day and zones |
| Feedback (`api/retained-feedback.ts`, `mobile/feedback/*`) | one draft with key and version, reports | write, submit, retry | edits during a submission; lost answers | reported once, never lost | modelled, proved: Feedback |
| Devices and settings (`db/device-settings-store.ts`, `mobile/settings/*`) | devices with time zones, one row of settings, copies on each phone and screen | register, read, change, synchronize, show | answers that replace all settings; a switch set from three places | what a phone keeps is never older; phone, screen and account come to agree | Settings; not the notice of a new zone |
| Reward, streak, progress (`domain`) | none (functions of rows) | compute | boundaries of days and streaks | equal to a reference definition | not modelled: inside one step of MissionServer |
| API shell, screens, search, rate tables | none that others rely on | routing, rendering | none of it concurrent | not a matter of states | not modelled |

How they interact: the app changes its SQLite rows and its queue in one
transaction; a sync run sends the queue to the API, mission, story and planner
mutations to `/v1/sync/push`, completions and evidence to endpoints of their own; each
of them appends to the change log in the transaction that changes the row; the
app pulls the log, projects it on its rows and moves its cursor in one local
transaction. Calendar providers are reached through command rows the same
transactions write; the worker deletes what is past its retention and appends
that to the same log.

The hazards, each at the line where it bites, are the list `hazards` of
`PROJECT.json`; those without a property are the work ahead.

## 2. Modules

    AccountFeed        what a device is promised of the account's changes
      ^ implemented by
    ChangeLog          the table, its writers, its readers, retention
      ChangeLogProofs  theorems;  MCChangeLog  instances

    MissionTypes       mutations and mission rows
    MissionLedger      what an account is promised about its missions
      ^ implemented by
    MissionServer      the handlers of the API
      MissionServerProofs  theorems;  MCServer  with Sessions, Reminders
    MissionDevice      SQLite store, user, sync run of a device
    MissionSync        MissionDevice + INSTANCE MissionServer
      MissionSyncProofs  theorems;  MCMissionSync, MCMissionSettled  instances

    MediaAssets        blobs and their rows
    Evidence           MediaAssets + attempts, verdicts, completion
    GoogleSync         one Google calendar;  MCGoogle
      EvidenceProofs   theorems on Evidence, GoogleSync
      MCEvidence       Evidence, GoogleSync

    GoogleWatch        its watch channels
    AppleCalendar      the phone's calendar and its commands
    Recurrence         rules as sets of dates
    SeriesEdits        Recurrence + what is done to recurring missions
      CalendarProofs   theorems on GoogleWatch, AppleCalendar
      SeriesProofs     theorems on Recurrence, SeriesEdits
      MCCalendars      GoogleWatch, AppleCalendar, SeriesEdits

    Sessions, Reminders
      SessionProofs    theorems
    Story, Planner, Feedback
      AccountProofs    theorems
      MCAccount        Story, Planner, Feedback

    Settings           devices, settings, language, diagnostics, time zone
      ChangeLogProofs  theorem;  MCSettings

Every module below `MediaAssets` models one part of the product with all the
sides it has: server, phones and what is external to both. They do not refer to
each other, since the parts meet in state that other modules have: the queue,
the log and the idempotency keys. `MCServer`, `MCEvidence`, `MCCalendars` and `MCAccount` put
several of them in one instance, in which a behaviour moves one part and leaves the others
as they begin: that is one run for several questions, not a composition.

### AccountFeed and ChangeLog

`table`, `lock`, `pc`, `next`, `added` and `removed` are the Postgres side: the
committed rows, the advisory lock of the account, and for each open transaction
the number it read and its uncommitted inserts and deletes. An append is three
actions because it is three statements (`Lock`, `Number`, `Insert`); several
appends in a transaction repeat them under the lock it holds. `Insert` includes
the redaction of older Story rows that `redactStoryRetentionHistory` does in the
same call. `Commit` and `Rollback` end the transaction. A reader has the cursor
it stores and `held`, for each entity the number of the change it last applied.
`ReadLatest`, `ReadOldest` and `ApplyPage`/`RejectPage` are the three statements
of `pullAccountChanges`, which has no transaction around them;
`SnapshotLatest` and `ApplySnapshot` are the two of `getAccountSnapshot`. The last
one is merged with the device's own transaction: until then only the serialised
run of this device uses what it read. `history` and `appended` are not in the
code; they record what was committed, in order, for the properties.

`AccountFeed` knows no database: a feed only grows at its end, a reader only
moves forward and after a move holds, for every entity, the last change up to
its position, except for what retention withdraws later on.

### MissionLedger and MissionServer

A handler (`phase`, `request`, `answer`) serves one mutation. What has not the
shape of its operation (`Shaped`: a creation has no base version, everything else has
one) is refused. A push is two steps: `FindRecorded` (`existingMutationMatches`, whose `FOR UPDATE` locks
nothing when there is no row) and then the transaction's end under the lock of
the mission row (`CreateMission`, `UpdateMission`, `DeleteMission`,
`RefuseDeleted`, `RefuseWithError`). Others may commit in between, the same
mutation included. A completion is one step, since inserting its idempotency
key blocks an equal request and the row lock the others: `ReplayCompletion`,
`CompleteMission`, `CompletedElsewhere`, `CompletionOfDeleted`,
`RejectCompletion`. Whether a completion is rejected depends on the schedule,
the clock and evidence, which are not here: it is a free choice. `Abort` is any
error that rolls back. `ExpireKey` may take any key at any time.

A row is its stage, whether it is completed, its version and its content, named
by the mutation that wrote it. Left out: the fields themselves, recurrence,
progress log entries, calendar sources, and the story, planner and feedback
branches of the same push.

`MissionLedger` is the promise: one sequence of entries, each legal after the
ones before it, none twice, none taken back.

### MissionDevice and MissionSync

A SQLite transaction is one action; an await between two transactions is a
point where the user acts, the server moves on or the app is killed. `OpenEdit`
and `SaveEdit` are the read and the write of `saveCalendarMissionDetails`;
deletion and completion read again in their transaction and are one action.
The sync run is a state machine in `run[d].at`: `List`, `Mark`, `Send`,
`Receive`, `Settle`, then `Pull` and `Apply` page by page; a refused mutation
leads through `Unmark` to the pull and then `Reconcile` and `SettleRefused`; an
error or a lost answer through `Fail`. `Crash` keeps the store, in-flight flags
included, and forgets the rest. `issued` and `dropped` are not in the code: what
a user did, and what left the queue other than by being accepted.

`MissionSync` connects them: `SendTo` hands a mutation to a free handler,
`ReceiveFrom` takes its answer, `GiveUp` leaves the handler running, so that the
next attempt may meet the first at the server. The log is read in one step
here; `ChangeLog` is where reading it in several is shown to be as good.
Users do one thing at a time on a device (a save is awaited before the next can
be started). Snapshots, evidence and external calendars are not part of this
composition.

### MediaAssets and Evidence

An asset is a row with its stage and a blob; an upload puts the blob before its
transaction commits, and a deletion is three steps (mark, delete the blob, write
the row). `Evidence` adds the attempt, its outbox event with lease and tries,
the verification worker statement by statement, the completion under its stored
answer, and the phone's queue. Nothing in the repository starts the verification
worker: it is modelled as its service would run it.

### GoogleSync and GoogleWatch

`gevent` is Google's side. A run pulls (`PullChanges`, or everything in
`InitialImport`), writes a batch and its cursor in one transaction (`Reconcile`),
lists pending commands, applies them at Google and records the results; two runs
of a connection may overlap, since nothing keeps them apart. The triggers of the
migrations are part of the actions that fire them: a deletion writes the
dismissal and removes the links, a completed row cannot be updated. Nothing in
the repository calls `incrementalSync`; runs begin at any time.
A page is one transaction that takes its events one after the other, and Google
lists them in any order: `Reconciled` is the set of what that may come to, which is
not one thing, since an event's deletion may remove the link of another event to the
same mission. `dismissed` and `unseen` are not in the code: what the user said
and what a run cannot know. An event that has several links (`Shared`) counts as
unseen, as a batch reaches one of its missions only.

`GoogleWatch` has channels at Google and rows in the store, signals that are
lost, doubled and reordered, and the service's three callers step by step.

### AppleCalendar

Server (`mission`, `eventLink`, `outbox`, `link`), phones (`phone`, `cached`,
`retained`, `uploads`) and the calendar (`event`). Saving, completing and
deleting a mission include what the triggers of migration 0014 queue. A phone
claims the oldest due command, calls EventKit, saves the identifier in its local
link and settles; the claim may time out at any point and another phone may take
the command over. A scan queues a mutation for each event it finds new, linked
or missing; `AcceptCreate`, `AcceptUpdate` and `AcceptDelete` are the server's
reconciliation.

### Recurrence and SeriesEdits

Dates are day numbers of a calendar of twelve years; a step of a month or year past
it is none (`HasStep`), as one past year 9999 is in the code. `ValidPattern` and
`ValidEnd` are the rules that `validatePattern` lets pass. `StepDates` is the
expansion of each kind of rule, `firstOccurrenceOnOrAfter` the arithmetic by
which a first import jumps to what is not over; `ProjectionIsTail` compares the
two. `SeriesEdits` has creation, and saves, drags and deletions of one
occurrence, the later ones or all: a plan, then one transaction per occurrence
(`SaveOne`, `DeleteOne`), which `SaveBreaks` may cut short. Occurrences are known by
the date they were made for. A details save may move what it affects by the
difference of the dates in its form (`Shifts`; a start at 24:00 moves to the next day
only those that reach it), and the rule is not moved with them. `shifted` is not
in the code: the series for which that was done, and those split off from them.

### Sessions, Story, Planner, Reminders, Feedback

`Sessions`: families of tokens on the server, the phone's storage and memory,
refreshes that share one call, and sign-out in its three awaits. A call its phone gives
up on, by a timeout or because the app is killed, may still be under way: it goes
to `adrift`, from where the server may get it at any later time (`LateRefresh`,
`LateSignOut`, `LateDeletion`) or never.
`Story`: one mission's draft on the server and on each phone with tombstone,
queue and log position; the image handlers keep what they were called with. The
queue is a set that is ordered by when its saves were made. A run is `run[p].at`: it
prunes, lists, sends save by save, reads a page, applies it to what the phone has by
then and settles a conflict; a batch leaves the queue when all of it was
accepted, or with the conflict that ended it, and stays when any call fails. A
conflict names the draft the server has, and is settled only if that is the draft of
the save. `behind` is not in the code: why a phone may lack the server's draft, because
its own expired there or because it passed over a row for saves that were accepted before.
`Planner`: text and list of a draft, confirmation under a key, pulls and the
snapshot that may not remove what is queued.
`Reminders`: the coordinator's reasons, a rebuild await by await, the registry
against what the system has scheduled, restarts and sign-out. Screens, and with them
what asks for rebuilds, are there while somebody is signed in; `AuthGate` asks who
signs in only when the app starts, so that a phone that signed out keeps its screens
till then (`appState`: "gate").
`Feedback`: the form, the stored draft with its key and version, submissions
that outlive the screen, and the server's keys. Choosing or removing a screenshot and
discarding the draft are chores in two steps: what they write when they are done is
the draft they began with, and typing, leaving and submitting go on meanwhile where the screen
allows it. `mixed` is not in the code: what has overlapped so far.
In `Story`, `Planner` and `Feedback` one number counts what users do and stands
for texts, times and identifiers made then; that keeps "later" and "the same"
and nothing else.

### Settings

The row of settings with a number that grows with each change (`edition`, not in
the code), the zone of each registered phone, and per phone: the calls of its
settings screen (`calls`, each asked, answered, then waiting for a
synchronization), its synchronizations (`runs`: register, read the settings,
apply them, the rest), what the screen shows (`seen`), what SQLite keeps
(`kept`), whether diagnostics are captured, and the language. Calls and answers
are steps of their own, and so are the transactions of the server. A run is one
at a time as `runTail` makes it; a change waits for the run it asked for.
`applyAccountSettings` and the switch before it are one step: nothing reads what
is kept between them.

## 3. What the runs show

Properties are stated in the modules, each with the code it is about. Bounds are
constants of the modules or sets of the MC modules.

| run | instance | shows |
|---|---|---|
| `changelog_safety` | 2 transactions, 1 device, 1 Story and 1 mission, pages of 2, 4 numbers | `TypeOK`, `NumbersAreFree`, `TableIsHistory`, `ReplicaIsFaithful`, `CommitsInOrder`, `FeedSpec` (refinement), `OnlyHolesStop` |
| `changelog_retention` | 1 transaction, otherwise alike | `CatchesUp` is violated |
| `server_safety` | missions: 2 handlers, 2 missions, 9 requests, resent at will | `LogIsAuthoritative`, `AppliedOnce`, `NoLostUpdate`, `AnswersAreTrue`, `LedgerSpec` (refinement) |
| | sessions: 2 phones, 2 sessions, 3 tokens, 1 mishap | `SignedOutStaysOut`, `OnlyLossSignsOut` |
| | reminders: 2 missions, 1 instant, 3 changes, 1 breakdown | `RemindersMatch` |
| `missionsync_devices` | 2 devices, 2 operations each on a shared mission, rejections | `Converges`, `DeletionSticks` |
| `missionsync_faults` | 1 device, all five operations, 3 of them, batches of 2, 2 handlers, 2 faults | `NothingIsLost`, `AppliedInOrder`, `DeletionSticks` |
| `missionsync_settled` | 2 devices, create, complete and either edit or delete, 1 fault, rejections | `OnlyRefusalsBlock` |
| `missionsync_conflict` | 2 devices, 1 edit each | `QueueDrains` is violated |
| `evidence_google` | evidence: 2 photos, 2 workers, 1 mishap | `ProcessedIsGranted`, `WinnerIsNotLoser`, `SourcesAreReadable`, `DeletedIsGone` |
| | Google: 1 event, 2 mission ids, 2 runs, 3 changes, 1 trouble | `ImportsAreCurrent`, `LinksAreLive`, `DismissedStaysAway` |
| `google_edits` | Google alone, alike | `LatestEditWins` is violated |
| `calendars` | Apple: 2 phones, 1 mission, 2 events, 3 commands, 1 hitch | `CalendarCatchesUp`, `OneEventEach` |
| | watch: 2 channels, 2 callers, 2 changes, 1 setback | `ChangesArePulled` |
| | series: 9 patterns, 4 ends, 2 anchors, 12 moments; 3 visits, 3 series, 2 shifts | `ProjectionIsTail`, `SplitKeepsDates` |
| `account` | Story: 2 phones, 3 things done, 1 image, 1 loss | `StoriesConverge`, `GenerationBudget` |
| | planner: 2 phones, 3 things done, 1 lost answer | `PlannersConverge` |
| | feedback: 3 edits, 2 submissions, 2 slips | `ReportedOnce`, `DraftKept` |
| `settings` | 1 phone, 3 settings, 2 calls at a time, 3 uses of the screen, 1 journey, 1 fault | `KeptIsNewest`, `SettingsSettle` |

Why these bounds are enough. Four numbers and pages of two let a device be one
page behind, two pages behind, and behind a hole, with another transaction open
on each side; a third transaction only waits for the same lock. Two handlers
are the pair that can overlap, and a mutation needs at most one other mutation
of its mission to be overtaken by; the requests include an update on the first
and on the second version, two completions under different keys and one id used
for two missions. Three operations of a device fill more than one batch, so
that an error falls before, in and after a batch boundary; two faults give a
lost answer followed by a restart, an expired key after an abort, and so on.
`MaxFaults` counts lost answers, aborts, failed pulls, expired keys and
restarts; `MaxIssued` what a device ever queues; `UserOps` what its user does;
`Seeded` the missions that exist from the start; `Rejections` whether the
schedule may reject a completion; `MaxSequence` the numbers of the log.
`missionsync_devices` treats devices and handlers as interchangeable: nothing in
it names one of them, and it checks no liveness. `missionsync_settled` leaves
out behaviours with both an edit and a deletion; `missionsync_devices` has them.

In the other modules the pairs are what can overlap: two runs of a connection,
two photos of a mission, two phones of an account, two channels at a renewal.
The run has one event of `GoogleSync`; two meet only in a page, at a mission that both
are linked to, and the theorems cover any number. Two mission ids let it be imported again after its mission is gone; `MaxClock` counts
changes by anybody, so that three are an import, an edit on either side and a
deletion in any order, and `MaxTroubles` failed steps, lost cursors,
disconnections and deaths of a run. Apple's two texts give a command that is older than the
mission; three commands let one be claimed, one wait and one be queued behind;
`MaxAttempts` is 2 instead of 5, so that commands die; `MaxHitches` counts crashes,
lost calls, timeouts and disconnections, `MaxUploads` the mutations a phone queues. Three
tokens let a token be exchanged, sent again after that and used in a second
session; one mishap lets a refresh be given up on, repeated and still arrive. Three edits are a text, a
screenshot and a text again, so that each chore can be overtaken, and two submissions the one
that is crossed and the one after it. `MaxNow`, `MaxToday` and `MaxTurns` count what users do; with three of
them a draft is written, replaced on the other phone and edited there.
`MaxLosses`, `MaxMisses`, `MaxMishaps`, `MaxBreakdowns`, `MaxSetbacks` and
`MaxSlips` count lost calls, failures and killed apps. The patterns of
`SeriesEdits` are one or two of each kind, with days that some months lack, last
weekdays, intervals and the 29th of February; its anchors lie in a leap and a
common year, its moments before, at and after occurrences and ends. A shift of three days takes daily occurrences to
where others are; `MaxShifted` bounds how many series have been moved when another save moves
dates, and one suffices for the series beside it to be split further. Expansions are
compared over `Horizon`, 1000 days after an import: with the latest moment that
ends within the calendar, in which the 29th of February comes up twice.
Phones, runs, channels and events are interchangeable where no property names
one of them; these runs check no liveness.

Two calls of one settings screen let an answer be overtaken by a change and by
another answer, and three uses are an opening and two changes. `MaxCalls`,
`MaxTaps`, `MaxTrips` and `MaxFaults` bound calls under way, uses, journeys and
failures. The instance has one phone: another one is, to this one, a row that
changes; `SettingsNeverOlder` is proved for any number of them.

Deadlock is checked where the system goes on for ever, in the runs of the log,
of the missions of devices and of settings, because devices go on syncing. In the others all bounds may be
used up and everybody at rest, and the runs say `CHECK_DEADLOCK FALSE`.

### Fairness

`ChangeLog!FairSpec`: a device that has begun a pull finishes it and begins
another (`WF` of `ReaderStep`); runs are triggered on foreground, after local
changes and when the network comes back. Nothing is assumed of writers.

`MissionSync!FairSpec`: the same of a device's sync run; an edit whose save was
started is written; a handler answers what it received; and a device that wants
to send is not starved for ever by others (`SF` of `SendTo`): with one handler
in the model, weak fairness would let another device take it every time, which
a pool of connections does not do. Users are not fair: they may stop anywhere.
Faults are bounded, which for liveness says that they end at some time.

`Settings!FairSettings`: a call is answered or fails (`WF` of `CallStep`), a run goes
on (`WF` of `RunStep`), and the gate asks for a run each minute, which `runTail`
serves in its turn, so that it does not wait for ever (`SF` of `Start` for the
gate, and for it alone); the language is read again each minute (`WF` of
`RefreshLanguage`). Users, journeys and faults are not fair.

The other modules state no fairness. What their properties say of the end of
things (`CalendarCatchesUp`, `ChangesArePulled`, `StoriesConverge`,
`PlannersConverge`, `RemindersMatch`, `Converges`) they say of states in which
nothing is under way any more, so that nothing is assumed of phones that may
stay in a drawer.

### What the violated properties say

Each is a case where the code does not do what a document of the repository
says; `findings` in `PROJECT.json` quotes both.

* `CatchesUp`: retention deletes rows from the middle of the log, a device takes
  the gap for a broken page, and nothing makes it ask for a snapshot.
  `OnlyHolesStop` shows that this is the only way to be left behind.
* `QueueDrains`: an update on an old version is an error that ends each run
  before its pull. The other way to block a queue is a rejected completion of a
  row that was edited before, which cannot be rolled back and ends each run
  before the mutation is removed. `OnlyRefusalsBlock` shows that there is no third
  way: overlapping retries, lost answers, expired keys, restarts, and deletions
  or completions elsewhere never block a queue.
* `LatestEditWins`: no statement marks an edited mission as pending, so the next
  pull writes the older event over it.

Where a property of a passing run would be false of the code as it is, its
comment names the exception and `findings` describes it, without a run of its
own: a deletion undone while a run sends it, a change pulled behind a local
tombstone, a reminder that outlives its mission, a refresh that ends after a
sign-out, one that arrives after its retry and signs the phone out, a draft that was
discarded beside its submission and is reported twice, text typed while a screenshot is chosen, a
Story row passed over for saves that were accepted before, occurrences whose dates were moved away from their
rule, an event created twice after a crash, an account that stays in UTC
until its phone travels, diagnostics turned on again by an answer that was late,
and others.

## 4. What is proved

`ChangeLogProofs` proves about `ChangeLog`, for every set of transactions,
devices and entities, every page limit and every bound on the numbers, from the
assumptions the module names (`NoWriter` is no writer, `PageLimit` is positive,
`MaxSequence` is a natural number; that retained entities are entities is not
even needed):

| theorem | states |
|---|---|
| `TypeCorrect` | `Spec => []TypeOK` |
| `NumbersAreFreeAlways` | an append never meets its number taken |
| `TableIsHistoryAlways` | the table is the history but for withdrawn Story rows |
| `CommitsInOrderAlways` | no row appears behind another or behind a cursor |
| `ReplicaIsFaithfulAlways` | replicas are faithful at their cursors, torn reads included |
| `ImplementsFeed` | `Spec => FeedSpec`: the log implements `AccountFeed` |

The argument. None of the properties is inductive. What carries them is

* `LogInv`: the table is the history's table, and for each open transaction
  (`WriterInv`) that has appended or numbered anything the lock is its own, the
  number it read is one more than the history with its own changes behind it,
  and what it sees is the table of that longer history. The lock makes the last
  part survive commits of others: there are none while it is held.
* `NumberRead`: a number that was read is not 0.
* `ReaderInv`: no cursor and no snapshot bound is past the history. It needs
  `LogInv` for the newest row never to be redacted, so that `max(sequence)` is the
  length of the history.

`InsertKeepsTable` is the centre: a change put behind a table of `h`, less what
the change redacts, is the table of `h` with the change behind it. From these,
`FreeNumbers` and `CommitOrderStep` follow directly; `ReplicaIsFaithful` is
preserved because the last change of an entity among contiguous rows is its last
change in the history up to there (`TakingIsFaithful`), and because what grows
the history only adds ways to be withdrawn (`FaithfulAsLogGrows`). `FeedStep`
then maps `Commit` to `Publish`, a page or snapshot that moves the cursor to
`Advance`, and everything else to a stutter.

It also proves `SettingsNeverOlder` about `Settings`, `SettingsSpec => KeptIsNewest`, for
every number of phones, settings and faults. `KeptIsNewest` is about steps; its
invariant `Newest` says that rows only grow (`RowOrGrows`), that a phone has one
run at most, and that what a run has read lies between what its phone keeps and
the row (`Current`). A second run beside the first would break it, and without
it an older answer could be written last.

`MissionServerProofs` proves about `MissionServer`, for every set of handlers,
missions, mutations and requests, from the assumption that what is sent is a
mutation (`RequestsAssumption`):

| theorem | states |
|---|---|
| `TypesAlways` | `Spec => []TypeOK` |
| `LogIsAuthoritativeAlways` | the row of a mission is what its last log entry says |
| `AppliedOnceAlways` | no mutation is in the log twice |
| `NoLostUpdateAlways` | versions rise by one, an update follows the version it was made against |
| `AnswersAreTrueAlways` | every answer is true of its mutation |
| `ImplementsLedger` | `Spec => LedgerSpec`: the server implements `MissionLedger` |

The argument. Four actions change a mission; `PushApplies` and `CompletionApplies`
show that each of them is a step of one kind, `Applied(mut)`, which is exactly
what the ledger permits, so everything else is shown once, of `Applied`. None of
the properties is inductive; `ServerInv` adds

* `RecordedOK`: what is recorded is what the log has that is no completion. This
  and not the lookup is why a retry that overlaps the first request cannot apply
  its mutation again: the primary key refuses it (`~Recorded` in `Accept`).
* `RowsOK`: a mission is done exactly if its completion is in the log, and deleted
  only if its deletion is. This is why a completion happens once though its key
  expires, which `KeysOK` alone could not give.
* `KeysOK`: a stored response is true; the log only grows, so it stays true.
* `LogOK`: every mission with an entry has a last one (`RowOf` chooses it) and no
  entry leaves a mission absent; hence an absent mission was never created.

`MissionSyncProofs` proves about the composition `MissionSync`, for every set of
devices, missions, handlers and seeded missions, every number of mutations and
faults and every batch size, from the assumptions the modules name (ids are pairs of a
device and a number, or seeds, and never both; a batch is not empty; `NoHandler` is no
handler, `NoId` no id):

| theorem | states |
|---|---|
| `NothingIsLostAlways` | a mutation is queued, in the log, taken back, or refused for a reason that holds |
| `DeletionSticksAlways` | a mission whose deletion was pulled stays away |
| `AppliedInOrderAlways` | the log has each device's mutations in the order they were made |
| `ConvergesAlways` | a quiet device shows what the server has, if users take no deletion back |

The argument. `SyncInv` is `ServerInv` of the server here (a step of the composition
is one of the server alone, or leaves it as it is: `ServerSteps`), with, for each device,

* `QueueOK` and `DroppedOK`: the queue is in the order of the numbers, and what is in
  neither queue, log nor `dropped` was never made. Only `Refuted` mutations are dropped,
  and never a creation: `CompletionOfDeleted` answers like a refusal also where the mission
  is absent, which would be untrue, but no mutation meets its mission absent
  (`IssuedOK`, `TurnIsGrounded`).
* `RunOK`: the batch has every mutation before the one it sends that is not done with
  (`BatchInOrder`), and what is settled of it is in the log, the last, refused one apart.
  `List` takes the head of the queue and the queue loses nothing but what is settled
  while the run goes on, or what a user takes back. It follows that what a device sends has its
  turn (`NextHasTurn`): those before it are done with, `Past`.
* `HandlerOK` and `CallOK`: a handler, waited for or not, has a mutation that has its
  turn (`InTurn`), and an answer that is right. Turns are never lost, since log, `issued` and
  `dropped` only grow (`Grows`, `TurnStays`); so a request that its device gave up on
  still finds those before it in the log or dropped, and what it appends is in order
  (`LogAppended`).
* `CursorOK` and `ScreenOK`: what was deleted before the cursor is absent and has a
  tombstone, which an edit, an undo or a page respects; what is shown was created.

The 24 actions then fall into a few kinds, each shown once to keep the invariant: steps of a run
that move flags (`RunMoves`), shrink the queue (`QueueShrinks`) or change what is shown
(`ViewMoves`), transactions of the user (`EnqueueKeeps`), steps of a handler
(`HandlerKeeps`) and exchanges between a device and a handler (`ExchangeKeeps`). For the
proofs, `Without` gives the queue without some mutations position by position (`Nth`),
so that no induction over a sequence is needed.

`ConvergesAlways` assumes `"undo" \notin UserOps`, as the run `missionsync_devices` does, since the code
does not converge with it (`findings`: a deletion undone while a run sends it). `Converges` is
about quiet devices; the invariant `ConvInv` says of every device at any time what explains
what it shows of a mission (`Shown`):

* it is what the log says up to the cursor (`AsLogged`, `Says`), with nothing pending; or
* a mutation other than a completion is on its way back (`Changed`): it is queued or
  in the log (`Out`), and the cursor has not passed it, so that a page will replace the row;
  this covers a row that was changed blindly, or hidden by a tombstone; or
* a completion is (`Open`, `CompletedBy`), and the row still is the one of the log but for
  `done`. Of a completion it may turn out that it is rejected, so that no entry ever comes: then
  `Reconcile` must be able to put the row back. Several completions of one row are told
  apart by what the first one found (`BeforeOf`).

The rest says what a run that settles a refusal has pulled (`RefusalOK`, `PulledBy`): the
deletion or the completion that was in the way, and everything accepted before it,
so that what leaves the queue explains nothing any more (`SettleRefusedShows`). `LogEnds` adds that
a deletion is the last entry of its mission and that a completed mission stays
completed, and `GoneOK` that a tombstone is of a deletion that came back or will. When a device is
quiet nothing is `Out`, only the first case is left, and `LogIsAuthoritative` makes it the server's row.

`SessionProofs` proves `SignedOutStaysOut` and `OnlyLossSignsOut` of `Sessions`, for
every set of phones and every number of sessions, tokens, lost calls and killed
apps; no assumption on a constant is needed. Its invariant `SessionInv` is
about who holds which token:

* `BooksOK`: tokens are numbered as they are issued, and the two properties.
* `PhoneOK`: a token that a phone may still send (stored, under way in a refresh,
  answered, or of a sign-in) is `Safe`: no family has rotated it, except one
  that is excused since an answer was lost or a given-up request arrived. The exception is the
  stored token whose refresh was answered and is not written yet. Whoever has left has `Ended`.
* `Apart`: no two phones have one token, nor has a phone one in two places.

A token that was rotated and is sent again revokes its family; rotating a token takes
it from `Safe`. `Apart` says that nobody but the refresh that sent it has it, so that
only a lost answer or a late request, which excuse the family, leads to a second use. What is
`adrift` only presents tokens that were issued (`AdriftOK`); whatever it does to a family is excused
when it arrives.

It also proves `RemindersMatch` of `Reminders`, for every number of missions, changes and
failures; that instants are numbers (`ReminderAssumption`) is assumed. The property speaks of
settled states only; `ReminderInv` says how they are reached:

* `OneId`, `Known`: a reminder and its row are known by one id, which `NewReminder` takes from
  what nothing has (`NewReminderIs`), and what the system will show has a row, is about to
  get one or is a stray.
* `Backed`: a row of the future has its reminder, is being deleted, is a stray, or is
  `Forced`: a reason to replace it is pending, is that of a rebuild that has not swept it, or
  will be when the app, the permission or the account come back. So a device that lost
  its reminders in a restart gets them again, however often a rebuild is dropped before.
* `StillWanted`, `SweptIsKept`, `RowsAreWanted`: while nothing has changed since a rebuild
  loaded the missions (`Quiet`), the rows it has swept and `kept` are the same, one for one;
  when it ends, that is all it wanted. What changes something makes the state not
  `Quiet`, and is seen by another round, as reasons are taken before the rebuild and not after.

`EvidenceProofs` proves about `Evidence`, for every set of photos and workers, every limit
of attempts and claims and every number of mishaps, from the assumptions that the
user is neither a worker nor a photo, that limits are positive and that `NoAsset` is no photo:

| theorem | states |
|---|---|
| `ProcessedIsGrantedAlways` | an event that is done had its effect |
| `WinnerIsNotLoserAlways` | what completed the mission is not its own duplicate |
| `SourcesAreReadableAlways` | what a Story may show is in the store, or was due for cleanup |
| `DeletedIsGoneAlways` | what is left of a deleted photo was uploaded late |

The argument. `EvidenceInv` has two parts that touch in the attempts' numbers and reports.

* `PhotosInv`: whoever deletes a photo has marked its row before the store is called
  (`DeletionOK`), the cleanup job holds the row of a photo that is marked or due
  (`SweepOK`), and a photo that was stored and neither marked nor due is there still
  (`PhotoOK`). The three lemmas `UploadsKeep`, `DeletionsKeep` and `SweepsKeep` are about
  `MediaAssets` alone; every action of `Evidence` is one of its steps or leaves it
  as it is.
* `WorkInv`: a verdict is written once, so what a worker read of it stays true
  (`WorkOK`), and it finishes its event only for a verdict that is granted, which stays so as
  no mission is made incomplete again (`AttemptOK`). Until it expires, the stored
  answer of the winner is "completed" (`WinnerOK`): a second worker is told so, not that the
  mission is complete already, and marks no loser.

`AccountProofs` proves `ReportedOnce` and `DraftKept` of `Feedback`, for any number of edits,
submissions and slips. Both have exceptions (`mixed`, described under `findings`); the
invariant `FeedbackInv` says nothing once a form was opened again beside something or a chore crossed a
submission, and is `Calm` otherwise. While `Calm`, there is one
submission at most and no chore beside it (`SubmissionOK`), the
stored draft is what the form shows (`ScreenOK`) and what the submission sends, and the
requests of one version have one key (`KeysOK`): an edit drops the key and
nothing else does, and each edit makes a version of its own (`Numbered`; that of a chore is taken
when it begins and used when it writes), so the server meets a key twice only for the same text. As long as
no edit was made beside a chore either, the stored draft, the form and what a chore began with
are what was wanted last (`WantedOK`).

It also proves `GenerationBudget` of `Story` and `PlannersConverge` of `Planner`.
The budget holds because the images are numbered by the usage that the same
transaction raises (`BudgetInv`); its constant has to be a natural number
(`GenerationsAssumption`), nothing else. For the planner, `PlannerInv` has the property itself (a phone that shows something
else has a mutation queued, an entry of the log to read, or cleared its draft after its
confirmation) and three facts: the last entry of the log is the draft
(`LastIsDraft`); a mutation is made once and queued on one phone (`MadeOnce`); and one
that was taken while its answer was lost has an entry its phone has yet to read, and
is sent again before that phone reads (`LostAnswer`). `PullEntries` gives the effect of a page in closed form, its
last entry that counts, and no recursion over it.

`EvidenceProofs` proves all three properties of `GoogleSync`, for every set of runs and every
bound, and for finitely many events and missions (`FiniteAssumption`: a page is finite, as is
the room for it) of which `NoOne` is none (`NoOneAssumption`). `GoogleInv` says that

* a batch is what Google had at its time: an event in it that has not changed since is as
  the batch says, and one that is not in it has not changed since the batch's beginning
  (`BatchFits`); a result to record is of a mission of the app and an event of the app's;
* a link leads to a mission that is there, and a mission of the calendar's has no other link
  (`LinkFits`), so that its deletion dismisses that event and no other;
* what was dismissed is still hidden at the time it had, is an organizer's event and has not
  several links (`StaysHidden`), whatever rows later deletions and restores replace.

The centre is what a page leaves (`AfterBatch`): each link after it is a new one, of an event that
was not hidden at its time, to a mission that is as the batch says (`IsNew`), or was there,
to a mission that is as before or as the batch says (`WasThere`). It is proved event by event
(`OneEvent`), and then for every order: the library's induction theorems take
operators and are out of reach, but `LeastSubset` is not. A finite set has a least subset for which a
claim fails, if it has one at all; that gives the recursive function of `Reconciled` its one value
(`FoldUnique`, `FoldExists`) and what holds of it (`ReconciledIn`).

These proofs failed at first, and TLC showed why with two events: the order of a page had been left
to `CHOOSE`, and the bound `RoomFor` did not count events that lose their link in the page itself.
The third failure is the code's: an event restored twice has two missions, a page reaches one
of them, and when the event is cancelled the other stays active. No document speaks of
it; `ImportsAreCurrent` leaves such events out (`Shared`).

`CalendarProofs` proves `ChangesArePulled` of `GoogleWatch`, and `OneEventEach` and
`CalendarCatchesUp` of `AppleCalendar`, for every set of phones, missions, events and
channels and every bound. The values that stand for none are none (`NoChannelAssumption`,
`NobodyAssumption`); for `CalendarCatchesUp`, missions and events are finitely many
(`FiniteAssumption`: `SetToSeq` of an infinite set is nothing) and the attempts of a command are a number
(`AttemptsAssumption`).

* `WatchInv`: a message whose number a channel has passed is of a change that was
  pulled (`NumbersInOrder`), and the latest change was pulled, could not be told, is on
  its way to a channel with a row, or some registration will end with a pull
  (`LatestIsTold`).
* `MakerInv`: a phone that made an event for a mission saves its id, retains it,
  has lost it, or makes no other because the mission is deleted (`Remembered`).
  What is retained is an event and its mission has a row on the phone
  (`Known`), so that a pull drops a local link only with its mission, and a deleted
  mission is never given out for creation (`Eligible`). That the phone looks up the
  retained id before it creates then excludes the second event, whether or not
  the claim was lost, repeated or taken over meanwhile.
* `CatchUpInv` extends `MakerInv`. `ServerFits`, `EventsFit` and `PhonesFit` say of links,
  events, commands, local copies and uploads of a mission the app made that they name
  only events made for that mission, and that two phones with one row have
  different tokens. The rest is about a `Live` mission: eligible, with no dead command, in an
  account that never disconnected. It is `Followed`:
  its commands run one after the other, and one that is done has linked an event (`InTurn`);
  the phone that may still settle a command writes, or wrote, what the mission is, or else
  a newer command waits (`HolderKnows`); so does an event that no link tells
  of yet (`UnlinkedShows`), and the linked one when nothing waits (`LinkedShows`, which is the property).

  An action leaves all of that alone (`FollowedOn`), queues a newer command for the mission it
  writes (`FollowedAfter`), or belongs to one phone (`PhoneSide`). For the last case `OneHolder` says that
  no other phone may settle: a mission has one command that runs, and each claim
  of it a token of its own. The proof failed at first for a reason: an event made for one
  mission, once scanned as another one's, had its mark `touched` cleared by that
  upload, after which the property was false (TLC shows it with two missions and two uploads).
  `AcceptUpdate` clears the mark only for the mission the event was made for.

`SeriesProofs` proves `SplitKeepsDates` and `ProjectionIsTail`, both properties of
`SeriesEdits`, for every set of patterns, ends, first days and moments and every bound, from
`RulesAssumption` (the patterns and ends are valid ones: any interval, any set of weekdays,
any day, ordinal and count) and `DaysAssumption` (first days, and what a moment leads
to, are days of the calendar). The model's calendar itself is what it is, 144 months.

* The calendar. `MonthStarts` is a recursive function; that it has its values
  (`StartsAre`) follows from a closed form that satisfies the recursion, `DaysBefore`.
  From it, later days are in later months, a date is in one month, and a step's
  dates precede those of the next (`StepsOrdered`).
* The dates of a rule. `Occurs` are the dates a pattern has at all, `Leaves` what the
  end leaves of them. `ExpansionIs` is the centre: what `expandRecurrenceDates` has in a
  window are the dates of `Occurs` in it that `Leaves` leaves. It needs that
  the steps which are tried reach the window's end (`StepsReach`), and that a count
  counts the same from any window. `WindowsAgree` is its consequence.
* A rule anchored anew. A pattern anchored at one of its dates has the dates from there on
  (`TailIs`, from `StepsShift`: its steps are the old ones, so many later), and with that
  many off its count it leaves the same ones (`TailLeaves`).
* Splits. `SplitInv` orders the series in time: of two that recur and were not moved (`Recurs`), one ends before the other
  begins (`SeriesOK`), and an open occurrence that a save need not move any more is a date its own
  series leaves (`VisitsOK`). Between the first transaction and the last one of a split, the occurrences
  still to be moved are outside their series and inside the new one (`Moved`). The count that
  remains is reckoned from cached occurrences and not from the rule: the cache may lack
  some (a pull removes deleted ones), so that a split series may promise dates past
  those of the one it comes from, but never fewer, and never one that another series has, since the
  other one ends before it. The invariant speaks of saves that were not cut short, as the
  property does. Moved series are outside it: what is split off from one is moved too, so no save
  of theirs touches the others (`Planned`, `WorkOK`).
* The jump. `JumpFinds` says of `firstOccurrenceOnOrAfter` that it comes to the first date
  on or after its target with the number of dates before it, or to nothing when the rule leaves
  none; `DailyFinds`, `WeeklyFinds`, `OrdinalFinds` and `DateFinds` prove it for each kind of pattern.
  The weekly index is a product of blocks and weekdays (`CountBlocks`, `CountWeekly`), those by month count
  steps (`CountSteps`), less the first when its date is before the anchor (`FirstStepIs`).
  `JumpAgrees` says the same in the code's own terms, without `Occurs`. `KeptIs` is
  `futureOnlyEvent`: at most one occurrence on or after its target is over, so that two attempts are enough.
  `ImportInv`, that what was kept is what `futureOnlyEvent` makes of the event, then gives
  `ProjectionIsTail`.

These proofs failed at first where the model was wrong, on instances the run does not have: the
arithmetic by months and years left the calendar where `expandRecurrenceDates` did not,
`dateCandidate` gave up after 60 steps where the code tries a whole cycle, and years
were taken for 365 days when it was asked how many fit. The patterns and days that are valid
had not been said.

Only model-checked is what is out of the prover's reach: liveness (`OnlyHolesStop`,
`OnlyRefusalsBlock`, `SettingsSettle`), and `StoriesConverge`, whose invariant would have to follow a
save through every await of a run. Every other safety property of a passing run is a theorem. The
violated properties (`CatchesUp`, `QueueDrains`, `LatestEditWins`) are false, of course. The inductive
invariant of `SeriesProofs` was not checked by TLC, which cannot enumerate `Occurs`; its consequence
`SplitKeepsDates` was.

## 5. Plan

What is left to a later version: how a mission's evidence attempts are counted while other devices
reserve (the hazard without a property), time zones and times of day in `Recurrence`, and
a composition of `MissionSync` with `AppleCalendar`, which meet in the queue.

Not modelled. Time zone tables, formatting, search text, screens, request
schemas and the contents of payloads: data on which no ordering or concurrency
depends. Rewards, streaks and levels: functions computed in one transaction,
which `MissionServer` has as one step. The notice of a new zone, settings mutations, the manual override of
the time zone and registration without a zone, which no client calls. The cascade of an account's deletion, OAuth, the
model gateway, the extraction of missions from text, image rendering and
EventKit's own recurrence are external or without state that others rely on.

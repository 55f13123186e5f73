------------------------------ MODULE GoogleSync ------------------------------
(***************************************************************************)
(* The Google calendar of an account: the synchronization service           *)
(* (apps/api/src/google-calendar-sync.ts), its provider adapter             *)
(* (google-calendar-sync-provider.ts), its store                            *)
(* (packages/database/src/google-calendar-sync-store.ts), the events a user *)
(* has hidden (google-calendar-hidden-event-store.ts) and the database      *)
(* triggers all of them rely on (packages/database/migrations).             *)
(*                                                                         *)
(* A transaction is a step and a call of Google is a step.  Nothing keeps   *)
(* two runs of one connection apart.  Nothing in the repository calls       *)
(* incrementalSync: when it runs is the contract of                         *)
(* google_calendar_pull_requested.  The text of a mission or an event       *)
(* stands for all that is synchronized; its start is a slot.                *)
(***************************************************************************)
EXTENDS Naturals, FiniteSets, Functions

CONSTANTS
    Events,       \* ids of events at Google
    Missions,     \* ids of missions
    SyncRuns,     \* runs of the service
    NoOne,        \* no event, no mission
    MaxClock,     \* bound: changes on either side
    MaxTroubles   \* bound: failed steps, lost cursors, disconnections

ASSUME NoOneAssumption == NoOne \notin Events \cup Missions
ASSUME FiniteAssumption == IsFiniteSet(Events) /\ IsFiniteSet(Missions)

VARIABLES
    outward,     \* initialSyncDirection is misyra_to_external
    clock,       \* the time: a change takes the next
    gevent,      \* gevent[e]: an event as Google has it
    occurrence,  \* occurrence[m]: a row of mission_occurrences
    links,       \* external_event_links
    hidden,      \* hidden_external_events
    dated,       \* missions not updated since provider_command_cutoff_at
    calendar,    \* connection state, sync cursor (0: none)
    run,         \* run[r]: a run between its steps
    restoring,   \* a restore between Google's answer and its transaction
    troubles,    \* troubles so far (the bound)
    unseen,      \* events a mission of which no pull so far has brought up to date (not in code)
    dismissed    \* dismissed[e]: slot at which e was dismissed (not in code)

google == <<clock, gevent>>
rows == <<occurrence, links, hidden, dated>>
service == <<outward, calendar, run, restoring, troubles>>
syncVars == <<google, rows, service, unseen, dismissed>>

Scopes == {"this_occurrence", "this_and_future", "entire_series"}
Slots == 1 .. 2

NoEvent == [at |-> "none", own |-> FALSE, slot |-> 1, text |-> 0, updated |-> 0]
NoMission == [at |-> "none", source |-> "internal", own |-> TRUE, sync |-> "synced",
              slot |-> 1, text |-> 0]
NoRun == [at |-> "idle", first |-> FALSE, batch |-> << >>, since |-> 0, upto |-> 0]
NoRestore == [of |-> NoOne, scope |-> "none", event |-> NoEvent]

\* Rows as they are written: of external_event_links, of mission_occurrences, of
\* hidden_external_events, of external_calendar_connections without a cursor.
LinkRow(e, scope, m) == [event |-> e, scope |-> scope, mission |-> m]
ActiveRow(source, own, slot, text) ==
    [at |-> "active", source |-> source, own |-> own, sync |-> "synced", slot |-> slot, text |-> text]
HiddenRow(e, scope, from, to) == [event |-> e, scope |-> scope, from |-> from, to |-> to]
Connection(state) == [state |-> state, cursor |-> 0]

SyncInit ==
    /\ outward \in BOOLEAN
    /\ clock = 0 /\ troubles = 0
    /\ gevent = [e \in Events |-> NoEvent]
    /\ occurrence = [m \in Missions |-> NoMission]
    /\ links = {} /\ hidden = {} /\ dated = {} /\ unseen = {}
    /\ calendar = Connection("new")
    /\ run = [r \in SyncRuns |-> NoRun]
    /\ restoring = NoRestore
    /\ dismissed = [e \in Events |-> 0]

Tick == clock < MaxClock /\ clock' = clock + 1
Trouble == troubles < MaxTroubles /\ troubles' = troubles + 1
Unused(S, thing) == {x \in S : thing[x].at = "none"}
LinksOf(m) == {l \in links : l.mission = m}
Linked(e) == \E l \in links : l.event = e

\* Events with more than one link, as ls has them: a batch reaches one of their missions.
Shared(ls) == {e \in Events : \E k, l \in ls : k # l /\ k.event = e /\ l.event = e}

(***************************************************************************)
(* Google, and the user in the Google calendar.                             *)
(***************************************************************************)
GoogleChanges ==
    /\ Tick
    /\ UNCHANGED <<rows, service, unseen, dismissed>>

GoogleCreates(own) ==
    /\ GoogleChanges /\ (outward => calendar.state # "new")
    /\ Unused(Events, gevent) # {}
    /\ LET e == CHOOSE x \in Unused(Events, gevent) : TRUE
       IN  gevent' = [gevent EXCEPT ![e] = [NoEvent EXCEPT
              !.at = "confirmed", !.own = own, !.text = clock', !.updated = clock']]

GoogleEdits(e, slot) ==
    /\ GoogleChanges /\ gevent[e].at = "confirmed"
    /\ gevent' = [gevent EXCEPT ![e].text = clock', ![e].updated = clock', ![e].slot = slot]

GoogleCancels(e) ==
    /\ GoogleChanges /\ gevent[e].at = "confirmed"
    /\ gevent' = [gevent EXCEPT ![e].at = "cancelled", ![e].updated = clock']

(***************************************************************************)
(* The user in the app: what the mission mutations do to these rows.        *)
(***************************************************************************)
UserChanges == Tick /\ UNCHANGED <<gevent, service, unseen>>

\* parseMissionCreatePayload takes missions of the app's own, and no others.
NewMission(slot, text) == ActiveRow("internal", TRUE, slot, text)

CreateMission ==
    /\ UserChanges /\ Unused(Missions, occurrence) # {}
    /\ LET m == CHOOSE x \in Unused(Missions, occurrence) : TRUE
       IN  /\ occurrence' = [occurrence EXCEPT ![m] = NewMission(@.slot, clock')]
           /\ dated' = dated \ {m}
    /\ UNCHANGED <<links, hidden, dismissed>>

\* A mission that came from outside is not edited; an edit leaves "synced".
EditMission(m) ==
    /\ UserChanges /\ occurrence[m].at = "active" /\ occurrence[m].source = "internal"
    /\ occurrence' = [occurrence EXCEPT ![m].text = clock', ![m].sync = "synced"]
    /\ dated' = dated \ {m}
    /\ UNCHANGED <<links, hidden, dismissed>>

CompleteMission(m) ==
    /\ UserChanges /\ occurrence[m].at = "active"
    /\ occurrence' = [occurrence EXCEPT ![m].at = "completed", ![m].sync = "synced"]
    /\ UNCHANGED <<links, hidden, dated, dismissed>>

\* The row misyra_scrub_deleted_occurrence writes for a link: a single event is
\* hidden wherever it is moved, a scope from the start that the mission had.
Dismissal(l) ==
    LET scope == IF l.scope = "event" THEN "this_occurrence" ELSE l.scope
        start == occurrence[l.mission].slot
    IN  HiddenRow(l.event, scope,
                  IF l.scope \in {"this_occurrence", "this_and_future"} THEN start ELSE 0,
                  IF l.scope = "this_occurrence" THEN start + 1 ELSE 0)

\* One row for an event and a scope: a later one takes the place of the former.
Upsert(rowsOld, new) ==
    new \cup {h \in rowsOld : \A n \in new : n.event # h.event \/ n.scope # h.scope}

\* Mutant: an organizer's event is not hidden when it has a recurrence scope.
DeletionHidesNoScope(m, scope) ==
    {Dismissal([l EXCEPT !.scope = scope]) : l \in {x \in LinksOf(m) : scope = "event"}}

\* What a deletion hides: every link of an organizer's event.  The user's
\* choice of a scope replaces that of the link.
DeletionHides(m, scope) == {Dismissal([l EXCEPT !.scope = scope]) : l \in LinksOf(m)}

\* The trigger removes the links; the event of an app-owned mission stays at
\* Google, where nothing handles external_calendar.event.delete_requested.
DeleteMission(m, scope) ==
    LET row == occurrence[m]
        organizers == row.source = "external" /\ ~row.own
    IN  /\ UserChanges /\ row.at \in {"active", "cancelled", "completed"}
        /\ scope \in {l.scope : l \in LinksOf(m)} \cup
                     (IF organizers /\ LinksOf(m) # {} THEN Scopes ELSE {"event"})
        /\ occurrence' = [occurrence EXCEPT ![m] = [NoMission EXCEPT !.at = "deleted"]]
        /\ links' = links \ LinksOf(m)
        /\ hidden' = IF organizers THEN Upsert(hidden, DeletionHides(m, scope)) ELSE hidden
        /\ dismissed' = [e \in Events |->
              IF organizers /\ Linked(e) /\ {l \in links : l.event = e} \subseteq LinksOf(m)
              THEN row.slot ELSE dismissed[e]]
        /\ dated' = dated \ {m}

(***************************************************************************)
(* Reconciling.  A batch is a function from event ids to what Google said;  *)
(* st holds the rows a transaction has changed so far.                      *)
(***************************************************************************)
IsHidden(e, slot) ==
    \E h \in hidden :
        /\ h.event = e
        /\ h.scope # "entire_series" => h.from <= slot
        /\ h.scope = "this_occurrence" => (h.to = 0 \/ slot < h.to)

LinkedMission(st, e) ==
    IF \E l \in st.links : l.event = e
    THEN (CHOOSE l \in st.links : l.event = e).mission ELSE NoOne

\* Only a pending mission could be newer, and no statement writes pending.
ProviderIsNewerThanLocal(row) == row.sync # "pending"
MayChange(row) == row.at # "completed" /\ ProviderIsNewerThanLocal(row)

Imported(e, said, scope, st) ==
    LET m == CHOOSE x \in Unused(Missions, st.occurrence) : TRUE
    IN  [occurrence |-> [st.occurrence EXCEPT
                           ![m] = ActiveRow("external", said.own, said.slot, said.text)],
         links |-> st.links \cup {LinkRow(e, scope, m)}]

InsertImportedEvent(e, said, st) ==
    IF IsHidden(e, said.slot) THEN st ELSE Imported(e, said, "event", st)

UpdateImportedEvent(m, said, st) ==
    IF ~MayChange(st.occurrence[m]) THEN st
    ELSE [st EXCEPT !.occurrence[m] = [@ EXCEPT !.at = "active", !.own = said.own,
             !.sync = "synced", !.slot = said.slot, !.text = said.text]]

ReconcileUpsert(e, said, st) ==
    LET m == LinkedMission(st, e)
    IN  IF m = NoOne THEN InsertImportedEvent(e, said, st) ELSE UpdateImportedEvent(m, said, st)

\* A mission that has not begun is deleted, another one only cancelled.
ReconcileDelete(e, begun, st) ==
    LET m == LinkedMission(st, e)
    IN  IF m = NoOne \/ ~MayChange(st.occurrence[m]) THEN st
        ELSE IF m \in begun THEN [st EXCEPT !.occurrence[m].at = "cancelled"]
        ELSE [occurrence |-> [st.occurrence EXCEPT ![m] = [NoMission EXCEPT !.at = "deleted"]],
              links |-> {l \in st.links : l.mission # m}]

ReconcileChange(e, said, begun, st) ==
    IF said.at = "cancelled" THEN ReconcileDelete(e, begun, st) ELSE ReconcileUpsert(e, said, st)

\* What the rows may be after a batch, in whatever order Google has listed it.
Reconciled(batch, begun) ==
    LET after[done \in SUBSET DOMAIN batch] ==
          IF done = {} THEN {[occurrence |-> occurrence, links |-> links]}
          ELSE UNION {{ReconcileChange(e, batch[e], begun, st) : st \in after[done \ {e}]} : e \in done}
    IN  after[DOMAIN batch]

\* Bound: there are ids for the missions of the batch, also for those of events
\* that lose their link to another event's deletion.
Alone(e) == \E l \in links : l.event = e /\ LinksOf(l.mission) = {l}
RoomFor(batch) ==
    Cardinality({e \in DOMAIN batch : ~Alone(e)}) <= Cardinality(Unused(Missions, occurrence))

(***************************************************************************)
(* A run of the service.                                                    *)
(***************************************************************************)
At(r, step) == run[r].at = step
Connected == calendar.state = "connected"
Go(r, step) == run' = [run EXCEPT ![r] = [NoRun EXCEPT !.at = step, !.first = run[r].first]]

\* completeOAuth, or the same calendar once more; then initialSync.
Connect ==
    /\ calendar.state \in {"new", "disconnected"}
    /\ calendar' = Connection("connected")
    /\ dated' = IF calendar.state = "new" THEN dated ELSE Missions
    /\ outward' = (outward /\ calendar.state = "new")
    /\ \E r \in SyncRuns :
          /\ run[r] = NoRun
          /\ run' = [run EXCEPT ![r].first = TRUE, ![r].at = IF outward' THEN "list" ELSE "import"]
    /\ UNCHANGED <<google, occurrence, links, hidden, restoring, troubles, unseen, dismissed>>

Disconnect ==
    /\ calendar.state \notin {"new", "disconnected"} /\ Trouble
    /\ calendar' = Connection("disconnected")
    /\ dated' = Missions
    /\ UNCHANGED <<google, occurrence, links, hidden, outward, run, restoring, unseen, dismissed>>

\* incrementalSync starts: whatever the state was, it is connected now.
Begin(r) ==
    /\ run[r] = NoRun /\ calendar.state \notin {"new", "disconnected"}
    /\ calendar' = [calendar EXCEPT !.state = "connected"]
    /\ Go(r, "pull")
    /\ UNCHANGED <<google, rows, outward, restoring, troubles, unseen, dismissed>>

\* What Google answers, and the token for what comes after.
\* normalizeEvent: what is read of an event; when it was changed is not.
Normalized(e) ==
    [at |-> gevent[e].at, own |-> gevent[e].own, slot |-> gevent[e].slot, text |-> gevent[e].text]
Changed(after) == [e \in {x \in Events : gevent[x].updated > after} |-> Normalized(e)]
Standing == [e \in {x \in Events : gevent[x].at = "confirmed"} |-> Normalized(e)]
Takes(r, step, batch, since) ==
    run' = [run EXCEPT ![r].at = step, ![r].batch = batch, ![r].since = since, ![r].upto = clock]

\* A cursor that is not there, or that Google does not know any more, is
\* cleared, and everything is imported.
PullChanges(r) ==
    /\ At(r, "pull") /\ Connected
    /\ \/ /\ calendar.cursor # 0 \/ clock = 0
          /\ Takes(r, "apply", Changed(calendar.cursor), calendar.cursor)
          /\ UNCHANGED <<calendar, troubles>>
       \/ /\ calendar.cursor = 0 /\ Go(r, "import")
          /\ UNCHANGED <<calendar, troubles>>
       \/ /\ calendar.cursor # 0 /\ Trouble /\ Go(r, "import")
          /\ calendar' = [calendar EXCEPT !.cursor = 0]
    /\ UNCHANGED <<google, rows, outward, restoring, unseen, dismissed>>

\* The first import keeps what is not over (projectFutureOnlyInitialImport).
InitialImport(r) ==
    /\ At(r, "import") /\ Connected
    /\ \E over \in SUBSET (IF run[r].first THEN DOMAIN Standing ELSE {}) :
          Takes(r, "replace", [e \in DOMAIN Standing \ over |-> Standing[e]], 0)
    /\ UNCHANGED <<google, rows, outward, calendar, restoring, troubles, unseen, dismissed>>

\* Mutant: the cursor is that of the moment of the transaction.
CursorAfterNow(r) == clock

\* The cursor a batch is saved with: the one Google gave with it.
CursorAfter(r) == run[r].upto

\* applyProviderChanges and reconcileFullImport: the batch and its cursor are
\* one transaction.
Reconcile(r) ==
    LET batch == run[r].batch
    IN  /\ run[r].at \in {"apply", "replace"} /\ Connected /\ RoomFor(batch)
        /\ \E begun \in SUBSET {m \in Missions : LinksOf(m) # {}} :
              \E st \in Reconciled(batch, begun) : occurrence' = st.occurrence /\ links' = st.links
        /\ calendar' = [calendar EXCEPT !.cursor = CursorAfter(r)]
        /\ dated' = {m \in dated : occurrence'[m] = occurrence[m]}
        /\ unseen' = (unseen \ (DOMAIN batch \ Shared(links))) \cup
              (IF At(r, "replace") THEN (Events \ DOMAIN batch) \ Unused(Events, gevent)
               ELSE {e \in Events : gevent[e].updated \in calendar.cursor + 1 .. run[r].since})
        /\ IF run[r].first THEN run' = [run EXCEPT ![r] = NoRun] ELSE Go(r, "list")
        /\ UNCHANGED <<google, hidden, outward, restoring, troubles, dismissed>>

\* listPendingCommands: internal missions without a link.  (A linked mission
\* would have to be pending.)
PendingCommands ==
    {m \in Missions \ dated :
        /\ occurrence[m].at = "active" /\ occurrence[m].own
        /\ IF LinksOf(m) = {} THEN occurrence[m].source = "internal"
           ELSE occurrence[m].sync = "pending"}

ListPending(r) ==
    /\ At(r, "list") /\ Connected
    /\ \E over \in SUBSET (IF run[r].first THEN PendingCommands ELSE {}) :
          LET cmds == [m \in PendingCommands \ over |-> occurrence[m]]
          IN  IF cmds # << >> THEN Takes(r, "send", cmds, 0)
              ELSE IF run[r].first THEN Go(r, "import") ELSE run' = [run EXCEPT ![r] = NoRun]
    /\ UNCHANGED <<google, rows, outward, calendar, restoring, troubles, unseen, dismissed>>

\* provider.applyCommands: each command creates an event, or fails.
ApplyCommands(r) ==
    LET cmds == run[r].batch
    IN  /\ At(r, "send") /\ Connected /\ Tick
        /\ \E made \in SUBSET DOMAIN cmds :
            \E new \in Injection(made, Unused(Events, gevent)) :
              /\ IF made = DOMAIN cmds THEN UNCHANGED troubles ELSE Trouble
              /\ gevent' = [e \in Events |->
                    IF \E m \in made : new[m] = e
                    THEN LET m == CHOOSE x \in made : new[x] = e
                         IN  [at |-> "confirmed", own |-> TRUE, slot |-> cmds[m].slot,
                              text |-> cmds[m].text, updated |-> clock']
                    ELSE gevent[e]]
              /\ run' = [run EXCEPT ![r].at = "record", ![r].batch =
                    [m \in DOMAIN cmds |-> IF m \in made THEN new[m] ELSE NoOne]]
        /\ UNCHANGED <<rows, outward, calendar, restoring, unseen, dismissed>>

\* Mutant: a mission that is gone takes its link nevertheless.
MayBeUpdatedAlways(m) == TRUE

\* misyra_reject_tombstoned_occurrence, misyra_protect_completed_occurrence.
MayBeUpdated(m) == occurrence[m].at \in {"active", "cancelled"}

\* applyCommandResults: one transaction, rolled back when one of the missions
\* may not be updated any more.
RecordResults(r) ==
    LET said == run[r].batch
        made == {m \in DOMAIN said : said[m] # NoOne}
    IN  /\ At(r, "record") /\ Connected
        /\ IF \A m \in DOMAIN said : MayBeUpdated(m)
           THEN /\ occurrence' = [m \in Missions |->
                      IF m \notin DOMAIN said THEN occurrence[m]
                      ELSE [occurrence[m] EXCEPT !.sync = IF m \in made THEN "synced" ELSE "failed"]]
                /\ links' = {l \in links : \A m \in made : l.event # said[m] \/ l.scope # "event"}
                            \cup {LinkRow(said[m], "event", m) : m \in made}
                /\ dated' = dated \ DOMAIN said
                /\ IF run[r].first THEN Go(r, "import") ELSE run' = [run EXCEPT ![r] = NoRun]
           ELSE run' = [run EXCEPT ![r] = NoRun] /\ UNCHANGED <<occurrence, links, dated>>
        /\ unseen' = unseen \cup Shared(links')
        /\ UNCHANGED <<google, hidden, outward, calendar, restoring, troubles, dismissed>>

\* The connection is not there for a step: no session is permission_revoked.
Refused(r) ==
    /\ run[r] # NoRun /\ ~Connected
    /\ calendar' = IF calendar.state # "disconnected" /\ run[r].at \in {"pull", "import", "send"}
                   THEN [calendar EXCEPT !.state = "permission_revoked"] ELSE calendar
    /\ run' = [run EXCEPT ![r] = NoRun]
    /\ UNCHANGED <<google, rows, outward, restoring, troubles, unseen, dismissed>>

\* Google fails, and persistProviderFailure says so; or the process dies.
RunFails(r) ==
    /\ run[r] # NoRun /\ Trouble
    /\ \E state \in {"provider_unavailable", "permission_revoked", calendar.state} :
          calendar' = IF calendar.state = "disconnected" THEN calendar
                      ELSE [calendar EXCEPT !.state = state]
    /\ run' = [run EXCEPT ![r] = NoRun]
    /\ UNCHANGED <<google, rows, outward, restoring, unseen, dismissed>>

(***************************************************************************)
(* Restoring a hidden event.                                                *)
(***************************************************************************)
\* The provider's answer: the event as it is now, with the start of its series.
StartRestore(h, scope) ==
    /\ restoring = NoRestore /\ Connected /\ gevent[h.event].at = "confirmed"
    /\ restoring' = [of |-> h, scope |-> scope, event |-> Normalized(h.event)]
    /\ UNCHANGED <<google, rows, outward, calendar, run, troubles, unseen, dismissed>>

\* consumeDismissalForRestore: what stays hidden of h.
Remainder(h, scope, start) ==
    LET before == [h EXCEPT !.scope = "this_occurrence", !.from = 0, !.to = start]
        after == [h EXCEPT !.scope = "this_and_future", !.from = start + 1, !.to = 0]
        series == h.scope = "entire_series"
    IN  CASE scope = "this_and_future" -> IF series THEN {before} ELSE {}
          [] scope = "this_occurrence" ->
                (IF series THEN {before} ELSE {}) \cup
                (IF h.scope # "this_occurrence" THEN {after} ELSE {})

\* insertFreshMission: a mission of its own, with a link of the scope.
FreshMission(e, said, scope) ==
    Imported(e, said, scope, [occurrence |-> occurrence, links |-> links])

\* restoreHiddenEventById: a new mission, or nothing when the row is gone or a
\* mission has the event and the scope already.
FinishRestore ==
    LET h == restoring.of
        e == h.event
        row == [event |-> e, scope |-> restoring.scope]
        there == h \in hidden /\ Connected
                 /\ \A l \in links : l.event # e \/ l.scope # restoring.scope
        st == FreshMission(e, restoring.event, restoring.scope)
    IN  /\ restoring # NoRestore
        /\ restoring' = NoRestore
        /\ IF there
           THEN /\ Unused(Missions, occurrence) # {}
                /\ hidden' = IF restoring.scope = "entire_series"
                             THEN {x \in hidden : x.event # e}
                             ELSE Upsert(hidden \ {h}, Remainder(h, restoring.scope, restoring.event.slot))
                /\ occurrence' = st.occurrence /\ links' = st.links
                /\ dismissed' = [dismissed EXCEPT ![e] = 0]
                /\ unseen' = unseen \cup Shared(links')
                               \cup (IF restoring.event = Normalized(e) THEN {} ELSE {e})
           ELSE UNCHANGED <<hidden, occurrence, links, dismissed, unseen>>
        /\ UNCHANGED <<google, dated, outward, calendar, run, troubles>>

SyncNext ==
    \/ \E own \in BOOLEAN : GoogleCreates(own)
    \/ \E e \in Events : GoogleCancels(e) \/ \E slot \in Slots : GoogleEdits(e, slot)
    \/ CreateMission
    \/ \E m \in Missions : EditMission(m) \/ CompleteMission(m)
                            \/ \E scope \in Scopes \cup {"event"} : DeleteMission(m, scope)
    \/ Connect \/ Disconnect
    \/ \E r \in SyncRuns : \/ Begin(r) \/ PullChanges(r) \/ InitialImport(r) \/ Reconcile(r)
                            \/ ListPending(r) \/ ApplyCommands(r) \/ RecordResults(r)
                            \/ Refused(r) \/ RunFails(r)
    \/ \E h \in hidden, scope \in Scopes : StartRestore(h, scope)
    \/ FinishRestore

SyncSpec == SyncInit /\ [][SyncNext]_syncVars

(***************************************************************************)
(* Properties.                                                             *)
(***************************************************************************)
\* The cursor does not pass a change that has not reached its mission: an
\* imported mission is as the event was at the cursor, whichever of two runs
\* wrote last.  Left out are events that a full import does not list, events
\* restored from an older answer or twice, and events changed between the
\* cursor and the one another run's batch began at (google-calendar-sync-store.ts:774,
\* :859-883).
ImportsAreCurrent ==
    \A l \in links :
        LET e == l.event
            row == occurrence[l.mission]
        IN  (e \notin unseen /\ row.source = "external" /\ row.at # "completed"
             /\ gevent[e].updated <= calendar.cursor)
            => IF gevent[e].at = "cancelled" THEN row.at = "cancelled"
               ELSE row.at = "active" /\ row.text = gevent[e].text

\* An invitation that the user has deleted does not come back at the time it
\* had, whatever is imported, until it is restored
\* (google-calendar-sync-store.ts:367-394, 0012_hidden_external_event_metadata.sql:46).
DismissedStaysAway ==
    [][\A e \in Events :
          (dismissed[e] # 0 /\ ~Linked(e) /\ dismissed'[e] # 0)
          => \A l \in links' : l.event = e => occurrence'[l.mission].slot # dismissed[e]]_syncVars

\* No link leads to a mission that was deleted while its event was being
\* created at Google (google-calendar-sync-store.ts:974-1018).
LinksAreLive == \A l \in links : occurrence[l.mission].at \notin {"none", "deleted"}

\* What the specification says of a conflict: the latest valid edit wins.  A
\* text is the time it was written at (product-specification.md:778,
\* google-calendar-sync-store.ts:396-404, :627-692).
LatestEditWins ==
    [][\A m \in Missions :
          (occurrence[m].source = "internal"
             /\ occurrence[m].at = "active" /\ occurrence'[m].at = "active")
          => occurrence'[m].text >= occurrence[m].text]_syncVars
=============================================================================

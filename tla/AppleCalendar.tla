---------------------------- MODULE AppleCalendar ----------------------------
(***************************************************************************)
(* The Apple calendar of an account.  The server writes commands to its     *)
(* outbox (packages/database/migrations/0014), a phone claims one at a time *)
(* (apple-calendar-device-command-store.ts), applies it with EventKit       *)
(* (apple-calendar-remote-command-executor.ts) and settles it; the phone    *)
(* also uploads what the calendar holds (apple-calendar-mobile-sync.ts) as  *)
(* mutations the server reconciles (apple-eventkit-sync-store.ts).          *)
(*                                                                         *)
(* The phones of the account see one calendar.  Each transaction is a step, *)
(* and so is each call of EventKit.  A text stands for all the fields that  *)
(* are synchronized.  Commands with the destination external_calendar are   *)
(* left out: no code queues one.                                            *)
(***************************************************************************)
EXTENDS Naturals, Sequences, FiniteSets, SequencesExt, Functions

CONSTANTS
    Phones,        \* devices of the account
    AppleMissions, \* ids of missions
    AppleEvents,   \* ids of events in the calendar
    Nobody,        \* no phone, mission or event
    MaxAttempts,   \* attempts of a command before it is dead (5 in the code)
    MaxTexts,      \* bound: edits, by the user or in the calendar
    MaxCommands,   \* bound: rows in the outbox
    MaxUploads,    \* bound: mutations a scan queues
    MaxHitches     \* bound: crashes, lost calls, timeouts, disconnections

ASSUME NobodyAssumption == Nobody \notin Phones \cup AppleMissions \cup AppleEvents
ASSUME FiniteAssumption == IsFiniteSet(AppleMissions) /\ IsFiniteSet(AppleEvents)
ASSUME AttemptsAssumption == MaxAttempts \in Nat

VARIABLES
    link,      \* state of the connection, and provider_command_cutoff_at
    mission,   \* mission[m]: a row of mission_occurrences
    eventLink, \* external_event_links
    outbox,    \* outbox_events of the two types, in the order of created_at
    event,     \* event[e]: an event of the calendar; "for", "by": not in code
    phone,     \* phone[p]: the command being run
    cached,    \* cached[p][m]: the row of cached_mission_occurrences
    retained,  \* retained[p]: local external_links, mission -> event
    uploads,   \* uploads[p]: queued mutations of the calendar's changes
    texts, uploaded, hitches,   \* bounds
    unsaved,   \* <<p, m>>: p lost the id of an event it made (not in code)
    touched    \* events that differ for another reason (not in code)

server == <<link, mission, eventLink, outbox>>
device == <<phone, cached, retained, uploads>>
ghosts == <<unsaved, touched>>
appleVars == <<server, device, event, texts, uploaded, hitches, ghosts>>

AbsentMission == [at |-> "none", own |-> "none", text |-> 0, version |-> 0]
AbsentEvent == [at |-> "none", text |-> 0, for |-> Nobody, by |-> Nobody]
NoCommand == [at |-> "idle", row |-> 0, token |-> 0, op |-> "none", mission |-> Nobody,
              event |-> Nobody, text |-> 0]

\* The connection's record, and a command as it is given to a phone.
Connection(state, cutoff) == [state |-> state, cutoff |-> cutoff]
Command(i, tries, op, m, e) ==
    [at |-> "apply", row |-> i, token |-> tries, op |-> op, mission |-> m, event |-> e,
     text |-> mission[m].text]

AppleInit ==
    /\ link = Connection("new", 0)
    /\ mission = [m \in AppleMissions |-> AbsentMission]
    /\ eventLink = {} /\ outbox = << >> /\ unsaved = {} /\ touched = {}
    /\ event = [e \in AppleEvents |-> AbsentEvent]
    /\ phone = [p \in Phones |-> NoCommand]
    /\ cached = [p \in Phones |-> [m \in AppleMissions |-> AbsentMission]]
    /\ retained = [p \in Phones |-> << >>]
    /\ uploads = [p \in Phones |-> << >>]
    /\ texts = 0 /\ uploaded = 0 /\ hitches = 0

NewText == texts < MaxTexts /\ texts' = texts + 1
Hitch == hitches < MaxHitches /\ hitches' = hitches + 1
OnServer == UNCHANGED <<device, event, uploaded>>
LinkUp == link.state = "connected"
InCalendar(e) == event[e].at = "there"
LinkedEvents(m) == {l.event : l \in {x \in eventLink : x.mission = m}}

(***************************************************************************)
(* The server: what a change of a mission queues.                           *)
(***************************************************************************)
Row(kind, m, e) ==
    [kind |-> kind, mission |-> m, event |-> e, at |-> "queued", tries |-> 0]

Eligible(row) == row.at = "active" /\ row.own = "app"

\* misyra_queue_apple_calendar_upsert, after a row of the mission was written.
Queued(row, m) ==
    IF Eligible(row) /\ link.state = "connected"
    THEN outbox \o <<Row("upsert", m, Nobody)>> ELSE outbox

Write(m, row) ==
    /\ mission' = [mission EXCEPT ![m] = row]
    /\ outbox' = Queued(row, m)
    /\ Len(outbox') <= MaxCommands

SaveMission(m) ==
    /\ \/ Eligible(mission[m])
       \/ mission[m].at = "none" /\ \A p \in Phones : cached[p][m].at = "none"
    /\ NewText
    /\ Write(m, [at |-> "active", own |-> "app", text |-> texts', version |-> mission[m].version + 1])
    /\ OnServer /\ UNCHANGED <<link, eventLink, hitches, ghosts>>

\* Completing is no update the trigger watches.
FinishMission(m) ==
    /\ mission[m].at = "active"
    /\ mission' = [mission EXCEPT ![m].at = "completed", ![m].version = @ + 1]
    /\ OnServer /\ UNCHANGED <<link, eventLink, outbox, texts, hitches, ghosts>>

\* misyra_scrub_deleted_occurrence: a delete command for every link of an
\* app-owned mission.
DeletionRows(m, gone) ==
    IF mission[m].own = "app"
    THEN SetToSeq({Row("delete", m, e) : e \in LinkedEvents(m) \ gone}) ELSE << >>

Erase(m, gone) ==
    /\ mission' = [mission EXCEPT ![m] = [AbsentMission EXCEPT !.at = "deleted"]]
    /\ eventLink' = {l \in eventLink : l.mission # m}
    /\ outbox' = outbox \o DeletionRows(m, gone)
    /\ Len(outbox') <= MaxCommands

RemoveMission(m) ==
    /\ mission[m].at \in {"active", "completed"}
    /\ Erase(m, {})
    /\ OnServer /\ UNCHANGED <<link, texts, hitches, ghosts>>

\* connect: with the direction misyra_to_external every eligible mission that
\* waits in no command is exported.
Waiting(r) == r.at \in {"queued", "claimed", "stale"}

ConnectApple(export) ==
    /\ link.state # "connected"
    /\ link' = [link EXCEPT !.state = "connected"]
    /\ outbox' = outbox \o
          (IF export
           THEN SetToSeq({Row("upsert", m, Nobody) :
                    m \in {x \in AppleMissions : Eligible(mission[x])
                             /\ \A i \in DOMAIN outbox : outbox[i].mission # x
                                   \/ outbox[i].kind # "upsert" \/ ~Waiting(outbox[i])}})
           ELSE << >>)
    /\ Len(outbox') <= MaxCommands
    /\ OnServer /\ UNCHANGED <<mission, eventLink, texts, hitches, ghosts>>

\* disconnectConnection: everything queued until now is over.
DisconnectApple ==
    /\ link.state = "connected" /\ Hitch
    /\ link' = Connection("disconnected", Len(outbox))
    /\ outbox' = [i \in DOMAIN outbox |->
                    IF outbox[i].at = "dead" THEN outbox[i] ELSE [outbox[i] EXCEPT !.at = "done"]]
    /\ OnServer /\ UNCHANGED <<mission, eventLink, texts, ghosts>>

(***************************************************************************)
(* Claiming a command.                                                      *)
(***************************************************************************)
\* Mutant: a second command of a mission is given out while one is running.
ClaimableBeside(rows, i) ==
    /\ rows[i].at \in {"queued", "stale"} /\ i > link.cutoff
    /\ rows[i].tries < MaxAttempts

\* claimOutboxRow: due, not running, and no other command of the mission is.
Claimable(rows, i) ==
    /\ rows[i].at \in {"queued", "stale"} /\ i > link.cutoff
    /\ rows[i].tries < MaxAttempts
    /\ \A j \in DOMAIN rows : rows[j].mission = rows[i].mission => rows[j].at # "claimed"

\* Commands that were given up too often are dead.
Buried(rows) ==
    [i \in DOMAIN rows |->
        IF rows[i].at \in {"queued", "stale"} /\ rows[i].tries >= MaxAttempts
        THEN [rows[i] EXCEPT !.at = "dead"] ELSE rows[i]]

\* claimNext passes over commands of missions that may not be written any more.
Idle(r) == r.kind # "delete" /\ ~Eligible(mission[r.mission])

Skipped(rows, i) ==
    [j \in DOMAIN rows |->
        IF j < i /\ Claimable(rows, j) THEN [rows[j] EXCEPT !.at = "done", !.tries = @ + 1]
        ELSE rows[j]]

\* An attempt stands for the claim token: each claim makes a new one.
ClaimNext(p) ==
    LET rows == Buried(outbox)
    IN  /\ phone[p].at = "idle" /\ LinkUp
        /\ \E i \in DOMAIN rows :
              /\ Claimable(rows, i) /\ ~Idle(rows[i])
              /\ \A j \in 1 .. i - 1 : Claimable(rows, j) => Idle(rows[j])
              /\ outbox' = [Skipped(rows, i) EXCEPT ![i].at = "claimed", ![i].tries = @ + 1]
              /\ LET r == rows[i]
                     linked == LinkedEvents(r.mission)
                 IN  \E e \in IF r.kind = "delete" THEN {r.event}
                              ELSE IF linked = {} THEN {Nobody} ELSE linked :
                       phone' = [phone EXCEPT ![p] =
                          Command(i, r.tries + 1,
                                  IF r.kind = "delete" THEN "delete"
                                  ELSE IF e = Nobody THEN "create" ELSE "update",
                                  r.mission, e)]
        /\ UNCHANGED <<link, mission, eventLink, cached, retained, uploads, event, texts,
                       uploaded, hitches, ghosts>>

\* Nothing is left but commands to pass over.
PassOver(p) ==
    LET rows == Buried(outbox)
    IN  /\ phone[p].at = "idle" /\ LinkUp
        /\ \A i \in DOMAIN rows : Claimable(rows, i) => Idle(rows[i])
        /\ outbox' = Skipped(rows, Len(rows) + 1)
        /\ outbox' # outbox
        /\ UNCHANGED <<link, mission, eventLink, device, event, texts, uploaded, hitches, ghosts>>

\* Five minutes after the claim; the phone may still be at work.
ClaimTimesOut(i) ==
    /\ outbox[i].at = "claimed" /\ Hitch
    /\ outbox' = [outbox EXCEPT ![i].at = "stale"]
    /\ touched' = touched \cup {e \in AppleEvents : \E p \in Phones :
                      phone[p].at # "idle" /\ phone[p].row = i /\ event[e].for = outbox[i].mission}
    /\ OnServer /\ UNCHANGED <<link, mission, eventLink, texts, unsaved>>

(***************************************************************************)
(* Running a command on the phone.                                          *)
(***************************************************************************)
At(p, step) == phone[p].at = step
OnPhone == UNCHANGED <<link, mission, eventLink, cached, uploads, texts, uploaded>>

\* Mutant: the identifier retained from an earlier attempt is not looked up.
ForgottenTarget(p, m) == phone[p].event

\* The local link comes before the event that the command names.
Target(p, m) == IF m \in DOMAIN retained[p] THEN retained[p][m] ELSE phone[p].event

Ends(p, i, tries) == outbox[i].at \in {"claimed", "stale"} /\ outbox[i].tries = tries /\ i > link.cutoff

\* settle, with the status failed: the command is due again after a minute.
SettleFailed(p) ==
    /\ outbox' = IF Ends(p, phone[p].row, phone[p].token)
                 THEN [outbox EXCEPT ![phone[p].row].at = "queued"] ELSE outbox
    /\ phone' = [phone EXCEPT ![p] = NoCommand]

ApplyCreate(p) ==
    LET m == phone[p].mission
        e == Target(p, m)
    IN  /\ At(p, "apply") /\ phone[p].op = "create"
        /\ IF e # Nobody
           THEN /\ phone' = [phone EXCEPT ![p].at = "settle", ![p].event = e]
                /\ UNCHANGED <<event, touched>>
           ELSE \E new \in {x \in AppleEvents : event[x].at = "none"} :
                /\ event' = [event EXCEPT ![new] = [at |-> "there", text |-> phone[p].text,
                                                     for |-> m, by |-> p]]
                /\ phone' = [phone EXCEPT ![p].at = "save", ![p].event = new]
                /\ touched' = IF outbox[phone[p].row].at = "claimed" /\ outbox[phone[p].row].tries = phone[p].token
                              THEN touched ELSE touched \cup {new}
        /\ OnPhone /\ UNCHANGED <<outbox, retained, hitches, unsaved>>

ApplyUpdate(p) ==
    LET e == Target(p, phone[p].mission)
    IN  /\ At(p, "apply") /\ phone[p].op = "update"
        /\ IF InCalendar(e)
           THEN /\ event' = [event EXCEPT ![e].text = phone[p].text]
                /\ phone' = [phone EXCEPT ![p].at = "save", ![p].event = e]
                /\ touched' = IF Ends(p, phone[p].row, phone[p].token) /\ outbox[phone[p].row].at = "claimed"
                              THEN touched \ {e} ELSE touched \cup {e}
                /\ UNCHANGED outbox
           ELSE SettleFailed(p) /\ UNCHANGED <<event, touched>>
        /\ OnPhone /\ UNCHANGED <<retained, hitches, unsaved>>

\* An event that is not there counts as deleted.
ApplyDelete(p) ==
    LET e == Target(p, phone[p].mission)
    IN  /\ At(p, "apply") /\ phone[p].op = "delete"
        /\ event' = [event EXCEPT ![e].at = "gone"]
        /\ phone' = [phone EXCEPT ![p].at = "settle", ![p].event = e]
        /\ OnPhone /\ UNCHANGED <<outbox, retained, hitches, ghosts>>

\* linkStore.save: a mission the phone has not pulled has no row to refer to,
\* and an event has one link; the command fails after the event was made.
SaveLocalLink(p) ==
    LET m == phone[p].mission
        e == phone[p].event
        kept == cached[p][m].at # "none" /\ \A x \in DOMAIN retained[p] \ {m} : retained[p][x] # e
    IN  /\ At(p, "save")
        /\ IF kept
           THEN /\ retained' = [retained EXCEPT ![p] = [x \in DOMAIN @ \cup {m} |-> IF x = m THEN e ELSE @[x]]]
                /\ phone' = [phone EXCEPT ![p].at = "settle"]
                /\ UNCHANGED <<outbox, unsaved>>
           ELSE /\ SettleFailed(p)
                /\ unsaved' = unsaved \cup {<<p, m>>}
                /\ UNCHANGED retained
        /\ OnPhone /\ UNCHANGED <<event, hitches, touched>>

\* settle, with the status applied: refused when the command was claimed again,
\* or the calendar disconnected, meanwhile.  Whether the mission still is there
\* is not asked.
SettleApplied(p) ==
    LET i == phone[p].row
        e == phone[p].event
    IN  /\ At(p, "settle")
        /\ phone' = [phone EXCEPT ![p] = NoCommand]
        /\ IF Ends(p, i, phone[p].token)
           THEN /\ outbox' = [outbox EXCEPT ![i].at = "done"]
                /\ eventLink' = IF outbox[i].kind = "delete" THEN eventLink
                                ELSE {l \in eventLink : l.event # e}
                                     \cup {[mission |-> phone[p].mission, event |-> e]}
           ELSE UNCHANGED <<outbox, eventLink>>
        /\ UNCHANGED <<link, mission, cached, retained, uploads, event, texts, uploaded, hitches, ghosts>>

\* The app is killed, or a request does not arrive; the claim goes on.
RunBreaks(p) ==
    /\ phone[p].at # "idle" /\ Hitch
    /\ phone' = [phone EXCEPT ![p] = NoCommand]
    /\ unsaved' = IF At(p, "save") THEN unsaved \cup {<<p, phone[p].mission>>} ELSE unsaved
    /\ OnPhone /\ UNCHANGED <<outbox, retained, event, touched>>

\* appleProviderLinkFromPayload: one event for each linked mission of a page.
LinksToTell(linked) ==
    {f \in [linked -> AppleEvents] : \A m \in linked : f[m] \in LinkedEvents(m)}

\* The phone pulls: its rows and links become those of the server, and a link
\* goes with its mission.  A pull that would link an event twice fails.
PullMissions(p) ==
    LET gone == {m \in AppleMissions : mission[m].at = "deleted"}
        known == {m \in AppleMissions : cached[p][m].at # "none" \/ mission[m].at # "none"} \ gone
        linked == {m \in AppleMissions : LinkedEvents(m) # {}} \ gone
    IN  /\ At(p, "idle")
        /\ cached' = [cached EXCEPT ![p] = [m \in AppleMissions |->
              IF m \in gone THEN AbsentMission
              ELSE IF mission[m].at = "none" THEN cached[p][m] ELSE mission[m]]]
        /\ \E said \in LinksToTell(linked) :
              retained' = [retained EXCEPT ![p] =
                 [m \in (DOMAIN retained[p] \cup linked) \cap known |->
                    IF m \in linked THEN said[m] ELSE retained[p][m]]]
        /\ IsInjective(retained'[p])
        /\ <<cached, retained>>' # <<cached, retained>>
        /\ UNCHANGED <<server, phone, uploads, event, texts, uploaded, hitches, ghosts>>

(***************************************************************************)
(* The user in the calendar, and what the phone uploads.                    *)
(***************************************************************************)
UserAddsEvent(e) ==
    /\ event[e].at = "none" /\ link.state = "connected" /\ NewText
    /\ event' = [event EXCEPT ![e] = [AbsentEvent EXCEPT !.at = "there", !.text = texts']]
    /\ UNCHANGED <<server, device, uploaded, hitches, ghosts>>

UserEditsEvent(e) ==
    /\ InCalendar(e) /\ NewText
    /\ event' = [event EXCEPT ![e].text = texts']
    /\ touched' = touched \cup {e}
    /\ UNCHANGED <<server, device, uploaded, hitches, unsaved>>

UserRemovesEvent(e) ==
    /\ InCalendar(e) /\ NewText
    /\ event' = [event EXCEPT ![e].at = "gone"]
    /\ UNCHANGED <<server, device, uploaded, hitches, ghosts>>

\* The runtime scans when its commands are done, a calendar that was connected
\* when it read the connection.
Resting(p) == phone[p].at = "idle"
Scanning(p) == Resting(p) /\ link.state # "new"
HasLocalLink(p, m) == m \in DOMAIN retained[p] /\ cached[p][m].at # "none"
\* normalizedProviderEvent: what is read of an event; the row the phone makes of
\* it; and the mutation, as parseAppleMutation takes it.
Normalized(e) == event[e].text
OrganizerRow(text, version) ==
    [at |-> "active", own |-> "organizer", text |-> text, version |-> version]
Upload(kind, m, e, base) ==
    [kind |-> kind, mission |-> m, event |-> e, text |-> Normalized(e), base |-> base]
Enqueue(p, kind, m, e, base) ==
    /\ uploaded < MaxUploads /\ uploaded' = uploaded + 1
    /\ uploads' = [uploads EXCEPT ![p] = Append(@, Upload(kind, m, e, base))]
    /\ UNCHANGED <<server, phone, event, texts, hitches, ghosts>>
\* Its transaction also writes the cached row and the link.
ApplyLocal(p, m, e, row) ==
    /\ cached' = [cached EXCEPT ![p][m] = row]
    /\ retained' = [retained EXCEPT ![p] = [x \in DOMAIN @ \cup {m} |-> IF x = m THEN e ELSE @[x]]]

\* processProviderEvent and enqueueProviderMutation for an event nobody knows:
\* a mission of the phone's own making.
ScanNew(p, e) ==
    LET fresh == {m \in AppleMissions : mission[m].at = "none" /\ \A q \in Phones : cached[q][m].at = "none"}
    IN  /\ Scanning(p) /\ InCalendar(e)
        /\ \A m \in DOMAIN retained[p] : ~(HasLocalLink(p, m) /\ retained[p][m] = e)
        /\ fresh # {}
        /\ LET m == CHOOSE x \in fresh : TRUE
           IN  /\ Enqueue(p, "create", m, e, 0)
               /\ ApplyLocal(p, m, e, OrganizerRow(Normalized(e), 0))

\* ... and for one with a link: every scan queues an update, changed or not.
ScanKnown(p, m) ==
    LET e == retained[p][m]
    IN  /\ Scanning(p) /\ HasLocalLink(p, m) /\ InCalendar(e)
        /\ cached[p][m].at = "active" /\ cached[p][m].version # 0
        /\ Enqueue(p, "update", m, e, cached[p][m].version)
        /\ cached' = [cached EXCEPT ![p][m].text = Normalized(e)]
        /\ UNCHANGED retained

\* ... and for a linked event that is not there any more.
ScanMissing(p, m) ==
    LET e == retained[p][m]
    IN  /\ Scanning(p) /\ HasLocalLink(p, m) /\ event[e].at = "gone"
        /\ cached[p][m].at # "completed" /\ cached[p][m].version # 0
        /\ Enqueue(p, "delete", m, e, cached[p][m].version)
        /\ UNCHANGED <<cached, retained>>

(***************************************************************************)
(* acceptAppleMutation: a refused mutation stays at the head of the queue.  *)
(***************************************************************************)
\* persistLink: an event belongs to one mission.
MayLink(m, e) == \A l \in eventLink : l.event = e => l.mission = m
Linked(m, e) == eventLink \cup {[mission |-> m, event |-> e]}

Accepted(p) ==
    /\ At(p, "idle") /\ uploads[p] # << >> /\ LinkUp
    /\ uploads' = [uploads EXCEPT ![p] = Tail(@)]
    /\ UNCHANGED <<link, phone, cached, retained, event, texts, uploaded, hitches, unsaved>>

AcceptCreate(p) ==
    /\ Accepted(p)
    /\ LET u == Head(uploads[p])
       IN  /\ u.kind = "create" /\ mission[u.mission].at = "none" /\ MayLink(u.mission, u.event)
           /\ Write(u.mission, OrganizerRow(u.text, 1))
           /\ eventLink' = Linked(u.mission, u.event)
           /\ UNCHANGED touched

\* readCurrentMission, under the lock of the row.
CurrentMission(u) == mission[u.mission]

AcceptUpdate(p) ==
    /\ Accepted(p)
    /\ LET u == Head(uploads[p])
           row == CurrentMission(u)
       IN  /\ u.kind = "update" /\ row.at \in {"active", "completed"}
           /\ row.version = u.base /\ MayLink(u.mission, u.event)
           /\ eventLink' = Linked(u.mission, u.event)
           /\ IF row.at = "completed" THEN UNCHANGED <<mission, outbox, touched>>
              ELSE /\ Write(u.mission, [row EXCEPT !.text = u.text, !.version = @ + 1])
                   /\ touched' = IF event[u.event].text = u.text /\ event[u.event].for = u.mission
                                 THEN touched \ {u.event} ELSE touched

\* A mission that has not begun is deleted, another cancelled; a completed one
\* stays.
AcceptDelete(p) ==
    /\ Accepted(p) /\ UNCHANGED touched
    /\ LET u == Head(uploads[p])
           row == CurrentMission(u)
       IN  /\ u.kind = "delete" /\ row.at \in {"active", "completed", "cancelled"}
           /\ row.version = u.base /\ u.event \in LinkedEvents(u.mission)
           /\ \/ row.at = "completed" /\ UNCHANGED <<mission, eventLink, outbox>>
              \/ row.at # "completed" /\ Erase(u.mission, {u.event})
              \/ /\ row.at # "completed"
                 /\ mission' = [mission EXCEPT ![u.mission].at = "cancelled", ![u.mission].version = @ + 1]
                 /\ UNCHANGED <<eventLink, outbox>>

AppleNext ==
    \/ \E m \in AppleMissions : SaveMission(m) \/ FinishMission(m) \/ RemoveMission(m)
    \/ \E export \in BOOLEAN : ConnectApple(export)
    \/ DisconnectApple
    \/ \E p \in Phones : \/ ClaimNext(p) \/ PassOver(p) \/ ApplyCreate(p) \/ ApplyUpdate(p)
                          \/ ApplyDelete(p) \/ SaveLocalLink(p) \/ SettleApplied(p) \/ RunBreaks(p)
                          \/ PullMissions(p) \/ AcceptCreate(p) \/ AcceptUpdate(p) \/ AcceptDelete(p)
                          \/ \E e \in AppleEvents : ScanNew(p, e)
                          \/ \E m \in AppleMissions : ScanKnown(p, m) \/ ScanMissing(p, m)
    \/ \E i \in DOMAIN outbox : ClaimTimesOut(i)
    \/ \E e \in AppleEvents : UserAddsEvent(e) \/ UserEditsEvent(e) \/ UserRemovesEvent(e)

AppleSpec == AppleInit /\ [][AppleNext]_appleVars

(***************************************************************************)
(* Properties.                                                             *)
(***************************************************************************)
Busy(m) ==
    \/ \E i \in DOMAIN outbox : outbox[i].mission = m /\ (Waiting(outbox[i]) \/ outbox[i].at = "dead")
    \/ \E p \in Phones : ~At(p, "idle") /\ phone[p].mission = m

\* When the commands of a mission are done, the calendar shows the mission as it
\* is: the last command read it after its last change, and no earlier command
\* wrote after it.  Left out are events the user has changed and no scan has
\* uploaded for the mission, and commands that ran longer than their claim
\* (apple-calendar-device-command-store.ts:263-274, :284).
CalendarCatchesUp ==
    \A l \in eventLink :
        (link.state = "connected" /\ link.cutoff = 0 /\ Eligible(mission[l.mission]) /\ ~Busy(l.mission)
            /\ Cardinality(LinkedEvents(l.mission)) = 1
            /\ InCalendar(l.event) /\ l.event \notin touched)
        => event[l.event].text = mission[l.mission].text

\* However often a command is given out, fails, is lost or taken over, a phone
\* makes one event for a mission, unless it could not save the event's id
\* (apple-calendar-remote-command-executor.ts:168-183).
OneEventEach ==
    \A p \in Phones, m \in AppleMissions :
        <<p, m>> \in unsaved
        \/ Cardinality({e \in AppleEvents : event[e].by = p /\ event[e].for = m}) <= 1
=============================================================================

----------------------------- MODULE GoogleWatch -----------------------------
(***************************************************************************)
(* The watch channels of one connected Google calendar: the service         *)
(* (apps/api/src/google-calendar-watch.ts) and its store                    *)
(* (packages/database/src/google-calendar-watch-store.ts).  Google tells a   *)
(* change on every channel that it has open and that has not expired; its    *)
(* notifications are duplicated, reordered and lost.  A pull event brings    *)
(* everything up to the moment it was written.                              *)
(***************************************************************************)
EXTENDS Naturals, FiniteSets

CONSTANTS
    Channels,       \* channel ids
    Watchers,       \* calls of ensureChannel, repair and renewal
    NoChannel,      \* not a channel
    MaxChanges,     \* bound: changes of the calendar
    MaxSetbacks     \* bound: lost notifications, failed calls, expired claims

ASSUME NoChannelAssumption == NoChannel \notin Channels

VARIABLES
    changes,     \* changes of the calendar so far
    open,        \* open[c]: how many notifications Google sent; 0: not open
    expired,     \* channels past their expiry
    saved,       \* rows: channel -> superseded or not
    signals,     \* signals[c]: highest message number recorded
    mail,        \* notifications on their way
    pulled,      \* changes at the latest pull event
    watcher,     \* watcher[w]: a call between its steps
    claims,      \* channels and (NoChannel) the connection under a claim
    setbacks,    \* setbacks so far (the bound)
    untold       \* latest change nobody could be told of (not in code)

watchVars == <<changes, open, expired, saved, signals, mail, pulled, watcher, claims,
               setbacks, untold>>
mailOnly == <<changes, open, expired, saved, watcher, claims>>

IdleWatcher == [at |-> "idle", old |-> NoChannel, new |-> NoChannel]

WatchInit ==
    /\ changes = 0 /\ pulled = 0 /\ untold = 0 /\ setbacks = 0
    /\ open = [c \in Channels |-> 0] /\ signals = [c \in Channels |-> 0]
    /\ expired = {} /\ saved = << >> /\ mail = {} /\ claims = {}
    /\ watcher = [w \in Watchers |-> IdleWatcher]

Setback == setbacks < MaxSetbacks /\ setbacks' = setbacks + 1
Later(a, b) == IF a > b THEN a ELSE b
Current(c) == c \in DOMAIN saved /\ saved[c] = "current"
Ready(w, step) == watcher[w].at = step
Step(w, step) == watcher' = [watcher EXCEPT ![w].at = step]
Rest(w) == watcher' = [watcher EXCEPT ![w] = IdleWatcher]

(***************************************************************************)
(* Google.                                                                 *)
(***************************************************************************)
Listening == {c \in Channels : open[c] > 0} \ expired

\* Somebody will ask for a pull: the channel is known, or a registration that
\* ends with a pull event is under way.
Heard(c) ==
    c \in DOMAIN saved \/ \E w \in Watchers : Ready(w, "save") /\ watcher[w].new = c

Message(c, number, change) == [channel |-> c, number |-> number, change |-> change]

CalendarChanges ==
    /\ changes < MaxChanges /\ changes' = changes + 1
    /\ open' = [c \in Channels |-> IF c \in Listening THEN open[c] + 1 ELSE open[c]]
    /\ mail' = mail \cup {Message(c, open'[c], changes') : c \in Listening}
    /\ untold' = IF \E c \in Listening : Heard(c) THEN untold ELSE changes'
    /\ UNCHANGED <<expired, saved, signals, pulled, watcher, claims, setbacks>>

ChannelExpires(c) ==
    /\ c \in Listening
    /\ expired' = expired \cup {c}
    /\ UNCHANGED <<changes, open, saved, signals, mail, pulled, watcher, claims, setbacks, untold>>

MessageIsLost(m) ==
    /\ Setback
    /\ mail' = mail \ {m}
    /\ untold' = Later(untold, m.change)
    /\ UNCHANGED <<mailOnly, signals, pulled>>

(***************************************************************************)
(* handleWebhook.                                                          *)
(***************************************************************************)
\* Mutant: message numbers are compared across channels.
FreshForAll(m) == \A c \in Channels : m.number > signals[c]

\* schedulePullOnce: under the lock of the channel's row.
Fresh(m) == m.number > signals[m.channel]

AcceptedSignal(m) == m.channel \in DOMAIN saved /\ m.channel \notin expired

HandleWebhook(m) ==
    /\ AcceptedSignal(m)
    /\ \E again \in BOOLEAN : mail' = IF again THEN mail ELSE mail \ {m}
    /\ IF Fresh(m)
       THEN signals' = [signals EXCEPT ![m.channel] = m.number] /\ pulled' = changes
       ELSE UNCHANGED <<signals, pulled>>
    /\ UNCHANGED <<mailOnly, setbacks, untold>>

\* The channel is not known, or has expired.
RefuseWebhook(m) ==
    /\ ~AcceptedSignal(m)
    /\ mail' = mail \ {m}
    /\ untold' = IF m.channel \in expired THEN Later(untold, m.change) ELSE untold
    /\ UNCHANGED <<mailOnly, signals, pulled, setbacks>>

(***************************************************************************)
(* ensureChannel: look, open at Google, save; three steps.                   *)
(***************************************************************************)
HasCurrentChannel == \E c \in Channels \ expired : Current(c)

EnsureChannel(w) ==
    /\ watcher[w] = IdleWatcher /\ ~HasCurrentChannel
    /\ Step(w, "ensure")
    /\ UNCHANGED <<changes, open, expired, saved, signals, mail, pulled, claims, setbacks, untold>>

\* claimConnectionMissingChannel: no row but superseded ones, and no claim of
\* the last fifteen minutes; then ensureChannel.
ClaimRepair(w) ==
    /\ watcher[w] = IdleWatcher /\ NoChannel \notin claims
    /\ \A c \in Channels : ~Current(c)
    /\ claims' = claims \cup {NoChannel}
    /\ Step(w, "ensure")
    /\ UNCHANGED <<changes, open, expired, saved, signals, mail, pulled, setbacks, untold>>

\* watchEvents: an id that was not used yet; Google's first message follows.
WatchEvents(c) ==
    /\ open[c] = 0 /\ open' = [open EXCEPT ![c] = 1]
    /\ mail' = mail \cup {Message(c, 1, changes)}

\* createRegistration: Google's first notification tells that the channel is
\* open.
CreateRegistration(w) ==
    /\ watcher[w].at \in {"ensure", "renew"}
    /\ \E c \in Channels :
          /\ WatchEvents(c)
          /\ watcher' = [watcher EXCEPT ![w].new = c,
                            ![w].at = IF @ = "ensure" THEN "save" ELSE "replace"]
    /\ UNCHANGED <<changes, expired, saved, signals, pulled, claims, setbacks, untold>>

\* saveChannel: the row and a pull event.
SaveChannel(w) ==
    /\ Ready(w, "save")
    /\ saved' = [c \in DOMAIN saved \cup {watcher[w].new} |->
                    IF c = watcher[w].new THEN "current" ELSE saved[c]]
    /\ pulled' = changes
    /\ Rest(w)
    /\ UNCHANGED <<changes, open, expired, signals, mail, claims, setbacks, untold>>

(***************************************************************************)
(* Renewal.                                                                *)
(***************************************************************************)
\* listChannelsDueForRenewal: due at any time here; claimed for fifteen minutes.
ClaimRenewal(w, c) ==
    /\ watcher[w] = IdleWatcher /\ Current(c) /\ c \notin claims
    /\ claims' = claims \cup {c}
    /\ watcher' = [watcher EXCEPT ![w] = [at |-> "renew", old |-> c, new |-> NoChannel]]
    /\ UNCHANGED <<changes, open, expired, saved, signals, mail, pulled, setbacks, untold>>

\* markRenewed: nothing is saved when the old row is not current any more.  A
\* superseded channel is answered until it expires; no pull event is written.
MarkRenewed(w) ==
    LET old == watcher[w].old
        new == watcher[w].new
    IN  /\ Ready(w, "replace")
        /\ saved' = IF Current(old)
                    THEN [c \in DOMAIN saved \cup {new} |->
                            IF c = new THEN "current" ELSE IF c = old THEN "superseded" ELSE saved[c]]
                    ELSE saved
        /\ Rest(w)
        /\ UNCHANGED <<changes, open, expired, signals, mail, pulled, claims, setbacks, untold>>

CallFails(w) ==
    /\ watcher[w] # IdleWatcher /\ Setback
    /\ untold' = IF Ready(w, "save") THEN changes ELSE untold
    /\ Rest(w)
    /\ UNCHANGED <<changes, open, expired, saved, signals, mail, pulled, claims>>

ClaimExpires(c) ==
    /\ c \in claims /\ Setback
    /\ claims' = claims \ {c}
    /\ UNCHANGED <<changes, open, expired, saved, signals, mail, pulled, watcher, untold>>

WatchNext ==
    \/ CalendarChanges
    \/ \E c \in Channels : ChannelExpires(c)
    \/ \E m \in mail : MessageIsLost(m) \/ HandleWebhook(m) \/ RefuseWebhook(m)
    \/ \E w \in Watchers : \/ EnsureChannel(w) \/ ClaimRepair(w) \/ CreateRegistration(w)
                            \/ SaveChannel(w) \/ MarkRenewed(w) \/ CallFails(w)
                            \/ \E c \in Channels : ClaimRenewal(w, c)
    \/ \E c \in Channels \cup {NoChannel} : ClaimExpires(c)

WatchSpec == WatchInit /\ [][WatchNext]_watchVars

\* A change that Google could tell leads to a pull: once no notification is on
\* its way and no registration is under way, the latest pull event is younger
\* than every change but those that came when no known channel was open, were
\* lost, or arrived after the expiry (google-calendar-watch-store.ts:86-211).
ChangesArePulled ==
    (mail = {} /\ \A w \in Watchers : ~Ready(w, "save"))
    => changes <= Later(pulled, untold)
=============================================================================

--------------------------- MODULE CalendarProofs ---------------------------
(***************************************************************************)
(* Proofs about GoogleWatch and AppleCalendar, for any number of channels,  *)
(* calls, phones, missions, events and failures: a change that Google could *)
(* tell is pulled, a phone makes one event for a mission, and the Apple     *)
(* calendar shows the mission as it is when its commands are done.          *)
(***************************************************************************)
EXTENDS GoogleWatch, AppleCalendar, FiniteSetTheorems, SequenceTheorems, TLAPS

(***************************************************************************)
(* Google watch channels.                                                  *)
(***************************************************************************)
Notification == [channel : Channels, number : Nat, change : Nat]

Call == [at : {"idle", "ensure", "save", "renew", "replace"}, old : Channels \cup {NoChannel},
         new : Channels \cup {NoChannel}]

WatchTypes ==
    /\ changes \in Nat /\ pulled \in Nat /\ untold \in Nat
    /\ open \in [Channels -> Nat] /\ signals \in [Channels -> Nat]
    /\ mail \in SUBSET Notification
    /\ pulled <= changes /\ untold <= changes
    /\ watcher \in [Watchers -> Call]

\* A message whose number was passed is of a change that was pulled.
NumbersInOrder ==
    /\ \A c \in Channels : signals[c] <= open[c]
    /\ \A m \in mail : /\ m.number <= open[m.channel] /\ m.change <= changes
                       /\ m.number <= signals[m.channel] => m.change <= pulled

\* The latest change was pulled or could not be told, or it is on its way to a row,
\* or a registration will end with a pull event.
LatestIsTold ==
    \/ changes <= Later(pulled, untold)
    \/ \E w \in Watchers : Ready(w, "save")
    \/ \E m \in mail : m.change = changes /\ m.channel \in DOMAIN saved

\* The inductive invariant.
WatchInv == WatchTypes /\ NumbersInOrder /\ LatestIsTold

\* The later of two numbers.
LEMMA LaterIs ==
    ASSUME NEW a \in Nat, NEW b \in Nat
    PROVE  Later(a, b) \in Nat /\ a <= Later(a, b) /\ b <= Later(a, b) /\ Later(a, b) \in {a, b}
BY DEF Later

\* A call moves on.
LEMMA CallMoves ==
    ASSUME watcher \in [Watchers -> Call], NEW w \in Watchers,
           \/ Step(w, "ensure")
           \/ Rest(w)
           \/ \E c \in Channels : watcher' = [watcher EXCEPT ![w] = [at |-> "renew", old |-> c, new |-> NoChannel]]
           \/ \E c \in Channels : /\ watcher[w].at \in {"ensure", "renew"}
                                  /\ watcher' = [watcher EXCEPT ![w].new = c,
                                        ![w].at = IF @ = "ensure" THEN "save" ELSE "replace"]
    PROVE  watcher' \in [Watchers -> Call] /\ \A v \in Watchers : v # w => watcher'[v] = watcher[v]
<1>1. watcher[w] \in Call
  OBVIOUS
<1>2. CASE Step(w, "ensure")
  BY <1>1, <1>2 DEF Step, Call
<1>3. CASE Rest(w)
  BY <1>3 DEF Rest, IdleWatcher, Call
<1>4. ASSUME NEW c \in Channels, watcher' = [watcher EXCEPT ![w] = [at |-> "renew", old |-> c, new |-> NoChannel]]
      PROVE  watcher' \in [Watchers -> Call] /\ \A v \in Watchers : v # w => watcher'[v] = watcher[v]
  BY <1>4 DEF Call
<1>5. ASSUME NEW c \in Channels, watcher[w].at \in {"ensure", "renew"},
             watcher' = [watcher EXCEPT ![w].new = c,
                                        ![w].at = IF @ = "ensure" THEN "save" ELSE "replace"]
      PROVE  watcher' \in [Watchers -> Call] /\ \A v \in Watchers : v # w => watcher'[v] = watcher[v]
  <2>1. PICK g \in Call : g = watcher[w]
    BY <1>1
  <2>2. PICK n : n = [g EXCEPT !.new = c, !.at = IF @ = "ensure" THEN "save" ELSE "replace"]
    OBVIOUS
  <2>3. n \in Call
    BY <2>2 DEF Call
  <2>4. watcher' = [watcher EXCEPT ![w] = n]
    BY <1>5, <2>1, <2>2
  <2> QED
    BY <2>3, <2>4
<1> QED
  BY <1>2, <1>3, <1>4, <1>5

\* The calendar changes: the message is newer than every signal.
LEMMA ChangeKeeps == ASSUME WatchInv, CalendarChanges PROVE WatchInv'
<1>1. /\ changes' = changes + 1 /\ changes \in Nat
      /\ open' = [c \in Channels |-> IF c \in Listening THEN open[c] + 1 ELSE open[c]]
      /\ mail' = mail \cup {Message(c, open'[c], changes') : c \in Listening}
      /\ untold' = IF \E c \in Listening : Heard(c) THEN untold ELSE changes'
      /\ UNCHANGED <<saved, signals, pulled, watcher>>
  BY DEF CalendarChanges, WatchInv, WatchTypes
<1>2. PICK n \in Nat : n = changes' /\ n = changes + 1
  BY <1>1
<1>3. /\ open \in [Channels -> Nat] /\ signals \in [Channels -> Nat] /\ mail \in SUBSET Notification
      /\ open' \in [Channels -> Nat] /\ Listening \subseteq Channels
      /\ \A c \in Channels : open[c] <= open'[c]
      /\ \A c \in Listening : signals[c] < open'[c]
  BY <1>1 DEF WatchInv, WatchTypes, NumbersInOrder, Listening
<1>4. ASSUME NEW m \in mail'
      PROVE  /\ m \in Notification /\ m.number <= open'[m.channel] /\ m.change <= n
             /\ m \in mail \/ m.number > signals[m.channel]
  <2>1. CASE m \in mail
    BY <1>2, <1>3, <2>1 DEF WatchInv, WatchTypes, NumbersInOrder, Notification
  <2>2. CASE m \notin mail
    <3>1. PICK c \in Listening : m = Message(c, open'[c], n)
      BY <1>1, <1>2, <1>4, <2>2
    <3>2. PICK k \in Nat : k = open'[c] /\ c \in Channels
      BY <1>3
    <3>3. m = [channel |-> c, number |-> k, change |-> n]
      BY <3>1, <3>2 DEF Message
    <3> QED
      BY <1>3, <3>1, <3>2, <3>3 DEF Notification
  <2> QED
    BY <2>1, <2>2
<1>5. untold' \in Nat /\ untold' <= n /\ pulled <= n
  BY <1>1, <1>2 DEF WatchInv, WatchTypes
<1>6. WatchTypes'
  BY <1>1, <1>2, <1>3, <1>4, <1>5 DEF WatchInv, WatchTypes
<1>7. NumbersInOrder'
  <2>1. \A c \in Channels : signals[c] <= open'[c]
    BY <1>3 DEF WatchInv, NumbersInOrder
  <2>2. ASSUME NEW m \in mail', m.number <= signals[m.channel] PROVE m.change <= pulled
    BY <1>3, <1>4, <2>2 DEF WatchInv, NumbersInOrder, Notification
  <2> QED
    BY <1>1, <1>2, <1>4, <2>1, <2>2 DEF NumbersInOrder
<1>8. LatestIsTold'
  <2>1. CASE \A c \in Listening : ~Heard(c)
    <3>1. untold' = n
      BY <1>1, <1>2, <2>1
    <3> QED
      BY <1>1, <1>2, <1>5, <3>1, LaterIs DEF LatestIsTold, WatchInv, WatchTypes
  <2>2. ASSUME NEW c \in Listening, Heard(c) PROVE LatestIsTold'
    <3>1. CASE c \in DOMAIN saved
      <4>1. Message(c, open'[c], n) \in mail'
        BY <1>1, <1>2
      <4>2. Message(c, open'[c], n).change = n /\ Message(c, open'[c], n).channel = c
        BY DEF Message
      <4> QED
        BY <1>1, <1>2, <3>1, <4>1, <4>2 DEF LatestIsTold
    <3>2. CASE \E w \in Watchers : Ready(w, "save")
      BY <1>1, <3>2 DEF LatestIsTold, Ready
    <3> QED
      BY <2>2, <3>1, <3>2 DEF Heard
  <2> QED
    BY <2>1, <2>2
<1> QED
  BY <1>6, <1>7, <1>8 DEF WatchInv

\* Steps that add no change and lose no message: a pull may come, a row be added.
LEMMA QuietWatch ==
    ASSUME WatchInv, UNCHANGED <<changes, signals, open>>,
           watcher' \in [Watchers -> Call], mail' = mail,
           pulled' = pulled \/ pulled' = changes,
           untold' = untold \/ untold' = changes,
           DOMAIN saved \subseteq DOMAIN saved',
           \/ \A w \in Watchers : Ready(w, "save") => watcher'[w].at = "save"
           \/ pulled' = changes \/ untold' = changes
    PROVE  WatchInv'
<1>1. WatchTypes'
  BY DEF WatchInv, WatchTypes
<1>2. NumbersInOrder'
  BY DEF WatchInv, WatchTypes, NumbersInOrder, Notification
<1>3. LatestIsTold'
  <2>1. CASE pulled' = changes \/ untold' = changes
    BY <1>1, <2>1, LaterIs DEF LatestIsTold, WatchTypes, WatchInv
  <2>2. CASE pulled' = pulled /\ untold' = untold /\ \A w \in Watchers : Ready(w, "save") => watcher'[w].at = "save"
    BY <2>2 DEF WatchInv, LatestIsTold, Ready
  <2> QED
    BY <2>1, <2>2
<1> QED
  BY <1>1, <1>2, <1>3 DEF WatchInv

\* A message is lost, refused or handled.
LEMMA MessageKeeps ==
    ASSUME WatchInv, NEW m \in mail, MessageIsLost(m) \/ RefuseWebhook(m) \/ HandleWebhook(m)
    PROVE  WatchInv'
<1>1. /\ m \in Notification /\ m.change \in Nat /\ m.change <= changes
      /\ mail \in SUBSET Notification /\ changes \in Nat /\ pulled \in Nat /\ untold \in Nat
      /\ pulled <= changes /\ untold <= changes /\ signals \in [Channels -> Nat]
      /\ open \in [Channels -> Nat] /\ m.channel \in Channels /\ m.number \in Nat
      /\ m.number <= open[m.channel]
  BY DEF WatchInv, WatchTypes, NumbersInOrder, Notification
<1>2. UNCHANGED <<changes, open, saved, watcher>> /\ mail' \subseteq mail /\ mail \ {m} \subseteq mail'
  BY DEF MessageIsLost, RefuseWebhook, HandleWebhook, mailOnly
<1>3. CASE MessageIsLost(m) \/ RefuseWebhook(m)
  <2>1. UNCHANGED <<pulled, signals>>
    BY <1>3 DEF MessageIsLost, RefuseWebhook
  <2>2. PICK l \in Nat : l = Later(untold, m.change) /\ untold <= l /\ m.change <= l /\ l <= changes
    BY <1>1, LaterIs
  <2>3. /\ untold' = untold \/ untold' = l
        /\ m.channel \in DOMAIN saved => untold' = l
    BY <1>3, <2>2 DEF MessageIsLost, RefuseWebhook, AcceptedSignal
  <2>4. WatchTypes'
    BY <1>1, <1>2, <2>1, <2>2, <2>3 DEF WatchInv, WatchTypes
  <2>5. NumbersInOrder'
    BY <1>2, <2>1 DEF WatchInv, NumbersInOrder
  <2>6. LatestIsTold'
    <3>1. CASE changes <= Later(pulled, untold)
      <4>1. Later(pulled, untold) <= Later(pulled', untold')
        BY <1>1, <2>1, <2>2, <2>3 DEF Later
      <4> QED
        BY <1>1, <1>2, <2>1, <2>2, <2>3, <3>1, <4>1 DEF LatestIsTold, Later
    <3>2. CASE \E w \in Watchers : Ready(w, "save")
      BY <1>2, <3>2 DEF LatestIsTold, Ready
    <3>3. ASSUME NEW k \in mail, k.change = changes, k.channel \in DOMAIN saved PROVE LatestIsTold'
      <4>1. CASE k # m
        BY <1>2, <3>3, <4>1 DEF LatestIsTold
      <4>2. CASE k = m
        <5>1. untold' = changes
          BY <1>1, <2>2, <2>3, <3>3, <4>2
        <5>2. changes <= Later(pulled, changes)
          BY <1>1, LaterIs
        <5> QED
          BY <1>2, <2>1, <5>1, <5>2 DEF LatestIsTold
      <4> QED
        BY <4>1, <4>2
    <3> QED
      BY <3>1, <3>2, <3>3 DEF WatchInv, LatestIsTold
  <2> QED
    BY <2>4, <2>5, <2>6 DEF WatchInv
<1>4. CASE HandleWebhook(m) /\ Fresh(m)
  <2>1. /\ signals' = [signals EXCEPT ![m.channel] = m.number] /\ pulled' = changes /\ untold' = untold
    BY <1>4 DEF HandleWebhook
  <2>2. WatchTypes'
    BY <1>1, <1>2, <2>1 DEF WatchInv, WatchTypes
  <2>3. NumbersInOrder'
    BY <1>1, <1>2, <2>1 DEF WatchInv, NumbersInOrder
  <2>4. changes <= Later(changes, untold)
    BY <1>1, LaterIs
  <2> QED
    BY <1>2, <2>1, <2>2, <2>3, <2>4 DEF WatchInv, LatestIsTold
<1>5. CASE HandleWebhook(m) /\ ~Fresh(m)
  <2>1. UNCHANGED <<signals, pulled, untold>>
    BY <1>5 DEF HandleWebhook
  <2>2. m.change <= pulled
    BY <1>1, <1>5 DEF Fresh, WatchInv, NumbersInOrder
  <2>3. WatchTypes' /\ NumbersInOrder'
    BY <1>2, <2>1 DEF WatchInv, WatchTypes, NumbersInOrder
  <2>4. LatestIsTold'
    <3>1. ASSUME m.change = changes PROVE changes <= Later(pulled, untold)
      BY <1>1, <2>2, <3>1 DEF Later
    <3> QED
      BY <1>2, <2>1, <3>1 DEF WatchInv, LatestIsTold, Ready
  <2> QED
    BY <2>3, <2>4 DEF WatchInv
<1> QED
  BY <1>3, <1>4, <1>5

\* A channel is opened: its first message is newer than its signal.
LEMMA OpenKeeps == ASSUME WatchInv, NEW w \in Watchers, CreateRegistration(w) PROVE WatchInv'
<1>1. PICK c \in Channels :
         /\ WatchEvents(c) /\ watcher[w].at \in {"ensure", "renew"}
         /\ watcher' = [watcher EXCEPT ![w].new = c,
                            ![w].at = IF @ = "ensure" THEN "save" ELSE "replace"]
         /\ UNCHANGED <<changes, expired, saved, signals, pulled, claims, setbacks, untold>>
  BY DEF CreateRegistration
<1>2. /\ watcher' \in [Watchers -> Call]
      /\ \A v \in Watchers : v # w => watcher'[v] = watcher[v]
  BY <1>1, CallMoves DEF WatchInv, WatchTypes
<1>3. /\ open[c] = 0 /\ open' = [open EXCEPT ![c] = 1] /\ mail' = mail \cup {Message(c, 1, changes)}
      /\ open \in [Channels -> Nat] /\ signals \in [Channels -> Nat] /\ changes \in Nat
      /\ mail \in SUBSET Notification
  BY <1>1 DEF WatchEvents, WatchInv, WatchTypes
<1>4. PICK m : m = Message(c, 1, changes)
  OBVIOUS
<1>5. m \in Notification /\ m.number = 1 /\ m.channel = c /\ m.change = changes
  BY <1>3, <1>4 DEF Message, Notification
<1>6. WatchTypes'
  BY <1>1, <1>2, <1>3, <1>4, <1>5 DEF WatchInv, WatchTypes
<1>7. NumbersInOrder'
  <2>1. signals[c] = 0
    BY <1>3 DEF WatchInv, NumbersInOrder
  <2>2. open' \in [Channels -> Nat] /\ \A d \in Channels : open[d] <= open'[d]
    BY <1>3
  <2> QED
    BY <1>1, <1>3, <1>4, <1>5, <2>1, <2>2 DEF WatchInv, NumbersInOrder, Notification
<1>8. LatestIsTold'
  <2>1. \A v \in Watchers : Ready(v, "save") => watcher'[v].at = "save"
    BY <1>1, <1>2 DEF Ready
  <2> QED
    BY <1>1, <1>3, <2>1 DEF WatchInv, LatestIsTold, Ready
<1> QED
  BY <1>6, <1>7, <1>8 DEF WatchInv

\* Every step keeps the invariant.
LEMMA WatchInvNext == WatchInv /\ [WatchNext]_watchVars => WatchInv'
<1> SUFFICES ASSUME WatchInv, [WatchNext]_watchVars PROVE WatchInv'
  OBVIOUS
<1>1. watcher \in [Watchers -> Call] /\ changes \in Nat
  BY DEF WatchInv, WatchTypes
<1>2. CASE UNCHANGED watchVars
  BY <1>1, <1>2, QuietWatch DEF watchVars, Ready
<1>3. ASSUME NEW c \in Channels \cup {NoChannel},
             (c \in Channels /\ ChannelExpires(c)) \/ ClaimExpires(c) PROVE WatchInv'
  <2>1. UNCHANGED <<changes, open, saved, signals, mail, pulled, watcher, untold>>
    BY <1>3 DEF ChannelExpires, ClaimExpires
  <2> QED
    BY <1>1, <2>1, QuietWatch DEF Ready
<1>4. ASSUME NEW w \in Watchers,
             EnsureChannel(w) \/ ClaimRepair(w) \/ \E c \in Channels : ClaimRenewal(w, c)
      PROVE  WatchInv'
  <2>1. /\ UNCHANGED <<changes, open, saved, signals, mail, pulled, untold>>
        /\ watcher[w] = IdleWatcher
        /\ \/ Step(w, "ensure")
           \/ \E c \in Channels : watcher' = [watcher EXCEPT ![w] = [at |-> "renew", old |-> c, new |-> NoChannel]]
    BY <1>4 DEF EnsureChannel, ClaimRepair, ClaimRenewal
  <2>2. watcher' \in [Watchers -> Call] /\ \A v \in Watchers : v # w => watcher'[v] = watcher[v]
    BY <1>1, <2>1, CallMoves
  <2>3. \A v \in Watchers : Ready(v, "save") => watcher'[v].at = "save"
    BY <2>1, <2>2 DEF Ready, IdleWatcher
  <2> QED
    BY <2>1, <2>2, <2>3, QuietWatch
<1>5. ASSUME NEW w \in Watchers, SaveChannel(w) \/ MarkRenewed(w) \/ CallFails(w) PROVE WatchInv'
  <2>1. /\ UNCHANGED <<changes, open, signals, mail>> /\ Rest(w)
        /\ pulled' = pulled \/ pulled' = changes
        /\ untold' = untold \/ untold' = changes
        /\ Ready(w, "save") => pulled' = changes \/ untold' = changes
    BY <1>5 DEF SaveChannel, MarkRenewed, CallFails, Ready
  <2>2. DOMAIN saved \subseteq DOMAIN saved'
    BY <1>5 DEF SaveChannel, MarkRenewed, CallFails
  <2>3. watcher' \in [Watchers -> Call] /\ \A v \in Watchers : v # w => watcher'[v] = watcher[v]
    BY <1>1, <2>1, CallMoves
  <2>4. \/ \A v \in Watchers : Ready(v, "save") => watcher'[v].at = "save"
        \/ pulled' = changes \/ untold' = changes
    BY <2>1, <2>3 DEF Ready
  <2> QED
    BY <2>1, <2>2, <2>3, <2>4, QuietWatch
<1>6. CASE WatchNext
  BY <1>3, <1>4, <1>5, <1>6, ChangeKeeps, MessageKeeps, OpenKeeps DEF WatchNext
<1> QED
  BY <1>2, <1>6

\* A change that Google could tell is pulled once nothing is on its way, however its
\* notifications are repeated, reordered or sent on several channels
\* (google-calendar-watch-store.ts:86-211).
THEOREM ChangesArePulledAlways == WatchSpec => []ChangesArePulled
<1>1. WatchInit => WatchInv
  <2> SUFFICES ASSUME WatchInit PROVE WatchInv
    OBVIOUS
  <2>1. IdleWatcher \in Call
    BY DEF IdleWatcher, Call
  <2> QED
    BY <2>1 DEF WatchInit, WatchInv, WatchTypes, NumbersInOrder, LatestIsTold, Later
<1>2. WatchInv => ChangesArePulled
  BY DEF WatchInv, LatestIsTold, ChangesArePulled
<1> QED
  BY <1>1, <1>2, WatchInvNext, PTL DEF WatchSpec

(***************************************************************************)
(* The events a phone makes in the Apple calendar.                          *)
(***************************************************************************)
\* The fields of a row, an event and a command, whatever they hold.
IsRow(r) == r \in [at : {r.at}, own : {r.own}, text : {r.text}, version : {r.version}]
IsEvent(e) == e \in [at : {e.at}, text : {e.text}, for : {e.for}, by : {e.by}]
IsCommand(c) == c \in [at : {c.at}, row : {c.row}, token : {c.token}, op : {c.op},
                       mission : {c.mission}, event : {c.event}, text : {c.text}]

AppleShapes ==
    /\ phone = [p \in Phones |-> phone[p]] /\ retained = [p \in Phones |-> retained[p]]
    /\ cached = [p \in Phones |-> [m \in AppleMissions |-> cached[p][m]]]
    /\ mission = [m \in AppleMissions |-> mission[m]] /\ event = [e \in AppleEvents |-> event[e]]
    /\ \A p \in Phones : IsCommand(phone[p])
    /\ \A m \in AppleMissions : IsRow(mission[m])
    /\ \A p \in Phones : \A m \in AppleMissions : IsRow(cached[p][m])
    /\ \A e \in AppleEvents : IsEvent(event[e])

Saving(p, m) == phone[p].at = "save" /\ phone[p].mission = m
Creating(p, m) == phone[p].at = "apply" /\ phone[p].op = "create" /\ phone[p].mission = m
MadeFor(p, m, e) == event[e].by = p /\ event[e].for = m

\* What is retained is an event, and its mission has a row on the phone; what is
\* saved or updated is an event.
Known ==
    \A p \in Phones :
        /\ \A m \in DOMAIN retained[p] : retained[p][m] # Nobody
        /\ \A m \in AppleMissions : m \in DOMAIN retained[p] => cached[p][m].at # "none"
        /\ phone[p].at = "save" \/ phone[p].op = "update" => phone[p].event # Nobody

\* A phone that made an event for a mission is saving its id or has it, has lost it,
\* or makes no other since the mission is deleted.
Remembered ==
    \A p \in Phones, m \in AppleMissions : (\E e \in AppleEvents : MadeFor(p, m, e)) =>
        \/ <<p, m>> \in unsaved \/ Saving(p, m) \/ m \in DOMAIN retained[p]
        \/ mission[m].at = "deleted" /\ ~Creating(p, m)

OnlyOne ==
    \A p \in Phones, m \in AppleMissions :
        <<p, m>> \in unsaved
        \/ \A e, f \in AppleEvents : MadeFor(p, m, e) /\ MadeFor(p, m, f) => e = f

\* The inductive invariant.
MakerInv == AppleShapes /\ Known /\ Remembered /\ OnlyOne

\* What a row becomes.
LEMMA RowChanges ==
    ASSUME NEW r, IsRow(r), NEW x
    PROVE  /\ [r EXCEPT !.at = x] = [at |-> x, own |-> r.own, text |-> r.text, version |-> r.version]
           /\ [r EXCEPT !.text = x] = [at |-> r.at, own |-> r.own, text |-> x, version |-> r.version]
           /\ [r EXCEPT !.version = x] = [at |-> r.at, own |-> r.own, text |-> r.text, version |-> x]
           /\ IsRow([r EXCEPT !.at = x]) /\ IsRow([r EXCEPT !.text = x]) /\ IsRow([r EXCEPT !.version = x])
BY DEF IsRow

\* What an event becomes.
LEMMA EventChanges ==
    ASSUME NEW e, IsEvent(e), NEW x
    PROVE  /\ [e EXCEPT !.at = x] = [at |-> x, text |-> e.text, for |-> e.for, by |-> e.by]
           /\ [e EXCEPT !.text = x] = [at |-> e.at, text |-> x, for |-> e.for, by |-> e.by]
BY DEF IsEvent

\* What a command becomes.
LEMMA CommandChanges ==
    ASSUME NEW c, IsCommand(c), NEW x
    PROVE  /\ [c EXCEPT !.at = x] = [at |-> x, row |-> c.row, token |-> c.token, op |-> c.op,
                                     mission |-> c.mission, event |-> c.event, text |-> c.text]
           /\ [c EXCEPT !.event = x] = [at |-> c.at, row |-> c.row, token |-> c.token, op |-> c.op,
                                        mission |-> c.mission, event |-> x, text |-> c.text]
           /\ IsCommand([c EXCEPT !.at = x]) /\ IsCommand([c EXCEPT !.event = x])
BY DEF IsCommand

\* What a step must show, if it makes no event.
LEMMA MakerStep ==
    ASSUME MakerInv, AppleShapes', Known', unsaved \subseteq unsaved',
           \A e \in AppleEvents : \/ event'[e].by = event[e].by /\ event'[e].for = event[e].for
                                  \/ event'[e].by = Nobody,
           \A m \in AppleMissions : mission[m].at = "deleted" => mission'[m].at = "deleted",
           \A p \in Phones, m \in AppleMissions :
              /\ Saving(p, m) => Saving(p, m)' \/ m \in DOMAIN retained'[p] \/ <<p, m>> \in unsaved'
              /\ m \in DOMAIN retained[p] =>
                    m \in DOMAIN retained'[p] \/ (mission'[m].at = "deleted" /\ ~Creating(p, m)')
              /\ Creating(p, m)' => Creating(p, m) \/ mission'[m].at # "deleted"
    PROVE  MakerInv'
<1>1. Nobody \notin Phones
  BY NobodyAssumption
<1>2. ASSUME NEW p \in Phones, NEW m \in AppleMissions, NEW e \in AppleEvents, MadeFor(p, m, e)'
      PROVE  MadeFor(p, m, e)
  BY <1>1, <1>2 DEF MadeFor
<1>3. Remembered'
  <2>1. ASSUME NEW p \in Phones, NEW m \in AppleMissions, \E e \in AppleEvents : MadeFor(p, m, e)'
        PROVE  \/ <<p, m>> \in unsaved' \/ Saving(p, m)' \/ m \in DOMAIN retained'[p]
               \/ mission'[m].at = "deleted" /\ ~Creating(p, m)'
    <3>1. \/ <<p, m>> \in unsaved \/ Saving(p, m) \/ m \in DOMAIN retained[p]
          \/ mission[m].at = "deleted" /\ ~Creating(p, m)
      BY <1>2, <2>1 DEF MakerInv, Remembered
    <3> QED
      BY <3>1
  <2> QED
    BY <2>1 DEF Remembered, MadeFor
<1>4. OnlyOne'
  <2> SUFFICES ASSUME NEW p \in Phones, NEW m \in AppleMissions, <<p, m>> \notin unsaved',
                      NEW e \in AppleEvents, NEW f \in AppleEvents, MadeFor(p, m, e)', MadeFor(p, m, f)'
               PROVE  e = f
    BY DEF OnlyOne
  <2> QED
    BY <1>2 DEF MakerInv, OnlyOne
<1> QED
  BY <1>3, <1>4 DEF MakerInv

\* The server's steps: a deleted mission stays deleted.
LEMMA ServerKeeps ==
    ASSUME MakerInv, UNCHANGED <<phone, cached, retained, event, unsaved>>,
           mission' = [m \in AppleMissions |-> mission'[m]],
           \A m \in AppleMissions : IsRow(mission'[m]),
           \A m \in AppleMissions : mission[m].at = "deleted" => mission'[m].at = "deleted"
    PROVE  MakerInv'
<1>1. AppleShapes'
  <2>1. \A m \in AppleMissions : IsRow(mission[m])'
    BY DEF IsRow
  <2> QED
    BY <2>1 DEF MakerInv, AppleShapes, IsRow, IsCommand, IsEvent
<1>2. Known'
  BY DEF MakerInv, Known
<1>3. \A p \in Phones, m \in AppleMissions :
         (Saving(p, m)' <=> Saving(p, m)) /\ (Creating(p, m)' <=> Creating(p, m))
  BY DEF Saving, Creating
<1> QED
  BY <1>1, <1>2, <1>3, MakerStep

\* One mission is written: it was not deleted, or stays so.
LEMMA WrittenKeeps ==
    ASSUME MakerInv, UNCHANGED <<phone, cached, retained, event, unsaved>>,
           NEW m, NEW row, m \in AppleMissions => IsRow(row), mission' = [mission EXCEPT ![m] = row],
           mission[m].at = "deleted" => row.at = "deleted"
    PROVE  MakerInv'
<1>1. mission = [n \in AppleMissions |-> mission[n]] /\ \A n \in AppleMissions : IsRow(mission[n])
  BY DEF MakerInv, AppleShapes
<1>2. /\ mission' = [n \in AppleMissions |-> mission'[n]]
      /\ \A n \in AppleMissions : mission'[n] = IF n = m THEN row ELSE mission[n]
  BY <1>1
<1>3. \A n \in AppleMissions : IsRow(mission'[n])
  BY <1>1, <1>2 DEF IsRow
<1> QED
  BY <1>2, <1>3, ServerKeeps

\* SaveMission, FinishMission, RemoveMission.
LEMMA MissionsKeep ==
    ASSUME MakerInv, NEW m \in AppleMissions, SaveMission(m) \/ FinishMission(m) \/ RemoveMission(m)
    PROVE  MakerInv'
<1>1. UNCHANGED <<phone, cached, retained, event, unsaved>>
  BY DEF SaveMission, FinishMission, RemoveMission, OnServer, device, ghosts
<1>2. PICK r : r = mission[m] /\ IsRow(r)
  BY DEF MakerInv, AppleShapes
<1>3. CASE SaveMission(m)
  <2>1. PICK row : row = [at |-> "active", own |-> "app", text |-> texts', version |-> mission[m].version + 1]
    OBVIOUS
  <2>2. mission' = [mission EXCEPT ![m] = row] /\ mission[m].at # "deleted"
    BY <1>3, <2>1 DEF SaveMission, Write, Eligible
  <2>3. IsRow(row)
    BY <2>1 DEF IsRow
  <2> QED
    BY <1>1, <2>2, <2>3, WrittenKeeps
<1>4. CASE FinishMission(m)
  <2>1. PICK v : v = r.version + 1
    OBVIOUS
  <2>2. PICK row : row = [r EXCEPT !.at = "completed", !.version = v]
    OBVIOUS
  <2>3. mission' = [mission EXCEPT ![m] = row] /\ mission[m].at # "deleted"
    BY <1>2, <1>4, <2>1, <2>2 DEF FinishMission
  <2>4. row = [at |-> "completed", own |-> r.own, text |-> r.text, version |-> v]
    <3>1. PICK s : s = [r EXCEPT !.at = "completed"]
      OBVIOUS
    <3>2. IsRow(r)
      BY <1>2
    <3>3. s = [at |-> "completed", own |-> r.own, text |-> r.text, version |-> r.version]
      BY ONLY <3>1, <3>2 DEF IsRow
    <3>4. row = [s EXCEPT !.version = v]
      BY <2>2, <3>1, Zenon
    <3> QED
      BY ONLY <3>3, <3>4
  <2>5. IsRow(row)
    BY <2>4 DEF IsRow
  <2> QED
    BY <1>1, <2>3, <2>5, WrittenKeeps
<1>5. CASE RemoveMission(m)
  <2>1. PICK row : row = [AbsentMission EXCEPT !.at = "deleted"]
    OBVIOUS
  <2>2. mission' = [mission EXCEPT ![m] = row]
    BY <1>5, <2>1 DEF RemoveMission, Erase
  <2>3. IsRow(AbsentMission)
    BY DEF IsRow, AbsentMission
  <2>4. row = [at |-> "deleted", own |-> AbsentMission.own, text |-> AbsentMission.text,
               version |-> AbsentMission.version]
    BY <2>1, <2>3, RowChanges
  <2>5. IsRow(row) /\ row.at = "deleted"
    BY <2>4 DEF IsRow
  <2> QED
    BY <1>1, <2>2, <2>5, WrittenKeeps
<1> QED
  BY <1>3, <1>4, <1>5

\* AcceptCreate, AcceptUpdate, AcceptDelete.
LEMMA AcceptKeeps ==
    ASSUME MakerInv, NEW p \in Phones, AcceptCreate(p) \/ AcceptUpdate(p) \/ AcceptDelete(p)
    PROVE  MakerInv'
<1>1. UNCHANGED <<phone, cached, retained, event, unsaved>>
  BY DEF AcceptCreate, AcceptUpdate, AcceptDelete, Accepted
<1>2. PICK u : u = Head(uploads[p])
  OBVIOUS
<1>3. PICK m : m = u.mission
  OBVIOUS
<1>4. PICK r : r = mission[m] /\ (m \in AppleMissions => IsRow(r))
  BY DEF MakerInv, AppleShapes
<1>5. CASE UNCHANGED mission
  <2>1. /\ mission' = [n \in AppleMissions |-> mission'[n]]
        /\ \A n \in AppleMissions : IsRow(mission'[n])
    BY <1>5 DEF MakerInv, AppleShapes, IsRow
  <2> QED
    BY <1>1, <1>5, <2>1, ServerKeeps
<1>6. CASE \E row : (m \in AppleMissions => IsRow(row)) /\ mission' = [mission EXCEPT ![m] = row]
                    /\ (r.at = "deleted" => row.at = "deleted")
  BY <1>1, <1>4, <1>6, WrittenKeeps
<1>7. CASE AcceptCreate(p)
  <2>1. PICK row : row = OrganizerRow(u.text, 1)
    OBVIOUS
  <2>2. mission' = [mission EXCEPT ![m] = row] /\ r.at = "none"
    BY <1>2, <1>3, <1>4, <1>7, <2>1 DEF AcceptCreate, Write
  <2>3. IsRow(row)
    BY <2>1 DEF IsRow, OrganizerRow
  <2> QED
    BY <1>6, <2>2, <2>3
<1>8. CASE AcceptUpdate(p)
  <2>1. PICK s : s = [r EXCEPT !.text = u.text]
    OBVIOUS
  <2>2. PICK row : row = [s EXCEPT !.version = @ + 1]
    OBVIOUS
  <2>3. UNCHANGED mission \/ mission' = [mission EXCEPT ![m] = row]
    <3>1. row = [r EXCEPT !.text = u.text, !.version = @ + 1]
      BY <2>1, <2>2, Zenon
    <3>2. UNCHANGED mission \/ Write(m, [r EXCEPT !.text = u.text, !.version = @ + 1])
      BY <1>2, <1>3, <1>4, <1>8, Zenon DEF AcceptUpdate, CurrentMission
    <3>3. UNCHANGED mission \/ Write(m, row)
      BY <3>1, <3>2, Zenon
    <3> QED
      BY <3>3 DEF Write
  <2>4. r.at \in {"active", "completed"}
    BY <1>2, <1>3, <1>4, <1>8 DEF AcceptUpdate, CurrentMission
  <2>5. m \in AppleMissions => IsRow(row)
    BY <1>4, <2>1, <2>2, RowChanges
  <2> QED
    BY <1>5, <1>6, <2>3, <2>4, <2>5
<1>9. CASE AcceptDelete(p)
  <2>1. CASE Erase(m, {u.event})
    <3>1. PICK row : row = [AbsentMission EXCEPT !.at = "deleted"]
      OBVIOUS
    <3>2. mission' = [mission EXCEPT ![m] = row]
      BY <2>1, <3>1 DEF Erase
    <3>3. IsRow(row) /\ row.at = "deleted"
      BY <3>1 DEF IsRow, AbsentMission
    <3> QED
      BY <1>6, <3>2, <3>3
  <2>2. CASE mission' = [mission EXCEPT ![m].at = "cancelled", ![m].version = @ + 1]
    <3>1. PICK s : s = [r EXCEPT !.at = "cancelled"]
      OBVIOUS
    <3>2. PICK row : row = [s EXCEPT !.version = @ + 1]
      OBVIOUS
    <3>3. m \in AppleMissions => IsRow(row)
      BY <1>4, <3>1, <3>2, RowChanges
    <3>4. PICK g : g = [mission EXCEPT ![m].at = "cancelled"]
      OBVIOUS
    <3>5. mission' = [g EXCEPT ![m].version = @ + 1]
      BY <2>2, <3>4, Zenon
    <3>6. mission = [n \in AppleMissions |-> mission[n]]
      BY DEF MakerInv, AppleShapes
    <3>7. mission' = [mission EXCEPT ![m] = row]
      BY <1>4, <3>1, <3>2, <3>4, <3>5, <3>6
    <3>8. r.at # "deleted"
      BY <1>2, <1>3, <1>4, <1>9 DEF AcceptDelete, CurrentMission
    <3> QED
      BY <1>6, <3>3, <3>7, <3>8
  <2>3. \/ UNCHANGED mission \/ Erase(m, {u.event})
        \/ mission' = [mission EXCEPT ![m].at = "cancelled", ![m].version = @ + 1]
    BY <1>2, <1>3, <1>9, Zenon DEF AcceptDelete
  <2> QED
    BY <1>5, <2>1, <2>2, <2>3
<1> QED
  BY <1>7, <1>8, <1>9

\* ConnectApple, DisconnectApple, PassOver, ClaimTimesOut.
LEMMA OutboxKeeps ==
    ASSUME MakerInv,
           \/ (\E export \in BOOLEAN : ConnectApple(export)) \/ DisconnectApple
           \/ (\E p \in Phones : PassOver(p)) \/ (\E i \in DOMAIN outbox : ClaimTimesOut(i))
    PROVE  MakerInv'
<1>1. UNCHANGED <<mission, phone, cached, retained, event, unsaved>>
  BY DEF ConnectApple, DisconnectApple, PassOver, ClaimTimesOut, OnServer, device, ghosts
<1>2. /\ mission' = [n \in AppleMissions |-> mission'[n]]
      /\ \A n \in AppleMissions : IsRow(mission'[n])
  BY <1>1 DEF MakerInv, AppleShapes, IsRow
<1> QED
  BY <1>1, <1>2, ServerKeeps

\* A step of one phone that makes no event and changes only its command.
LEMMA PhoneKeeps ==
    ASSUME MakerInv, NEW p \in Phones, NEW c, IsCommand(c), phone' = [phone EXCEPT ![p] = c],
           UNCHANGED <<mission, cached, retained>>, unsaved \subseteq unsaved',
           event' = [e \in AppleEvents |-> event'[e]], \A e \in AppleEvents : IsEvent(event'[e]),
           \A e \in AppleEvents : event'[e].by = event[e].by /\ event'[e].for = event[e].for,
           c.at = "save" \/ c.op = "update" => c.event # Nobody,
           \A m \in AppleMissions :
              /\ Saving(p, m) => (c.at = "save" /\ c.mission = m) \/ <<p, m>> \in unsaved'
              /\ c.at = "apply" /\ c.op = "create" /\ c.mission = m => mission[m].at # "deleted"
    PROVE  MakerInv'
<1>1. phone = [q \in Phones |-> phone[q]] /\ \A q \in Phones : IsCommand(phone[q])
  BY DEF MakerInv, AppleShapes
<1>2. /\ phone' = [q \in Phones |-> phone'[q]] /\ phone'[p] = c
      /\ \A q \in Phones : q # p => phone'[q] = phone[q]
  BY <1>1
<1>3. \A q \in Phones : IsCommand(phone'[q])
  BY <1>1, <1>2 DEF IsCommand
<1>4. AppleShapes'
  <2>1. \A m \in AppleMissions : IsRow(mission'[m])
    BY DEF MakerInv, AppleShapes, IsRow
  <2>2. \A q \in Phones : \A m \in AppleMissions : IsRow(cached'[q][m])
    BY DEF MakerInv, AppleShapes, IsRow
  <2>3. /\ retained' = [q \in Phones |-> retained'[q]] /\ mission' = [m \in AppleMissions |-> mission'[m]]
        /\ cached' = [q \in Phones |-> [m \in AppleMissions |-> cached'[q][m]]]
    BY DEF MakerInv, AppleShapes
  <2> QED
    BY <1>2, <1>3, <2>1, <2>2, <2>3 DEF AppleShapes, IsRow, IsCommand, IsEvent
<1>5. Known'
  BY <1>2 DEF MakerInv, Known
<1>6. \A q \in Phones, m \in AppleMissions :
         /\ Saving(q, m) => Saving(q, m)' \/ <<q, m>> \in unsaved'
         /\ Creating(q, m)' => Creating(q, m) \/ mission'[m].at # "deleted"
  BY <1>2 DEF Saving, Creating
<1> QED
  BY <1>4, <1>5, <1>6, MakerStep

\* ClaimNext: only a mission that may be written is made an event.
LEMMA ClaimKeeps ==
    ASSUME MakerInv, NEW p \in Phones, ClaimNext(p)
    PROVE  MakerInv'
<1>1. phone[p].at = "idle" /\ UNCHANGED <<mission, cached, retained, event, unsaved>>
  BY DEF ClaimNext, ghosts
<1>2. PICK r, e, i, op :
         /\ phone' = [phone EXCEPT ![p] = Command(i, r.tries + 1, op, r.mission, e)]
         /\ op = (IF r.kind = "delete" THEN "delete" ELSE IF e = Nobody THEN "create" ELSE "update")
         /\ ~Idle(r)
  <2>1. PICK i \in DOMAIN Buried(outbox) :
           /\ ~Idle(Buried(outbox)[i])
           /\ LET r == Buried(outbox)[i]
                  linked == LinkedEvents(r.mission)
              IN  \E e \in IF r.kind = "delete" THEN {r.event}
                           ELSE IF linked = {} THEN {Nobody} ELSE linked :
                    phone' = [phone EXCEPT ![p] =
                       Command(i, r.tries + 1,
                               IF r.kind = "delete" THEN "delete"
                               ELSE IF e = Nobody THEN "create" ELSE "update",
                               r.mission, e)]
    BY DEF ClaimNext
  <2>2. PICK r : r = Buried(outbox)[i]
    OBVIOUS
  <2>3. PICK e : phone' = [phone EXCEPT ![p] =
                       Command(i, r.tries + 1,
                               IF r.kind = "delete" THEN "delete"
                               ELSE IF e = Nobody THEN "create" ELSE "update",
                               r.mission, e)]
    BY <2>1, <2>2
  <2>4. PICK op : op = (IF r.kind = "delete" THEN "delete" ELSE IF e = Nobody THEN "create" ELSE "update")
    OBVIOUS
  <2> QED
    BY <2>1, <2>2, <2>3, <2>4
<1>3. PICK c : c = Command(i, r.tries + 1, op, r.mission, e)
  OBVIOUS
<1>4. IsCommand(c) /\ c.at = "apply" /\ c.op = op /\ c.mission = r.mission /\ c.event = e
  BY <1>3 DEF Command, IsCommand
<1>5. \A m \in AppleMissions :
         c.at = "apply" /\ c.op = "create" /\ c.mission = m => mission[m].at # "deleted"
  BY <1>2, <1>4 DEF Idle, Eligible
<1>6. /\ event' = [x \in AppleEvents |-> event'[x]] /\ \A x \in AppleEvents : IsEvent(event'[x])
      /\ \A x \in AppleEvents : event'[x].by = event[x].by /\ event'[x].for = event[x].for
  BY <1>1 DEF MakerInv, AppleShapes, IsEvent
<1>7. \A m \in AppleMissions : ~Saving(p, m)
  BY <1>1 DEF Saving
<1>8. c.at = "save" \/ c.op = "update" => c.event # Nobody
  BY <1>2, <1>4
<1>9. phone' = [phone EXCEPT ![p] = c]
  BY <1>2, <1>3
<1> QED
  BY <1>1, <1>4, <1>5, <1>6, <1>7, <1>8, <1>9, PhoneKeeps

\* An event written in place is by the phone it was by.
LEMMA EventWritten ==
    ASSUME MakerInv, NEW e, NEW x,
           event' = [event EXCEPT ![e].at = x] \/ event' = [event EXCEPT ![e].text = x]
    PROVE  /\ event' = [f \in AppleEvents |-> event'[f]] /\ \A f \in AppleEvents : IsEvent(event'[f])
           /\ \A f \in AppleEvents : event'[f].by = event[f].by /\ event'[f].for = event[f].for
<1>1. event = [f \in AppleEvents |-> event[f]] /\ \A f \in AppleEvents : IsEvent(event[f])
  BY DEF MakerInv, AppleShapes
<1>2. event' = [f \in AppleEvents |-> event'[f]]
  BY <1>1
<1>3. \A f \in AppleEvents : event'[f] \in {event[f], [event[f] EXCEPT !.at = x], [event[f] EXCEPT !.text = x]}
  BY <1>1
<1>4. ASSUME NEW f \in AppleEvents
      PROVE  IsEvent(event'[f]) /\ event'[f].by = event[f].by /\ event'[f].for = event[f].for
  <2>1. PICK g : g = event[f] /\ IsEvent(g)
    BY <1>1
  <2>2. PICK h : h = event'[f] /\ h \in {g, [g EXCEPT !.at = x], [g EXCEPT !.text = x]}
    BY <1>3, <2>1
  <2>3. IsEvent(h) /\ h.by = g.by /\ h.for = g.for
    <3>1. IsEvent(g)
      BY <2>1
    <3>2. /\ [g EXCEPT !.at = x] = [at |-> x, text |-> g.text, for |-> g.for, by |-> g.by]
          /\ [g EXCEPT !.text = x] = [at |-> g.at, text |-> x, for |-> g.for, by |-> g.by]
      BY ONLY <3>1, EventChanges
    <3> QED
      BY ONLY <2>2, <3>1, <3>2 DEF IsEvent
  <2> QED
    BY <2>1, <2>2, <2>3 DEF IsEvent
<1> QED
  BY <1>2, <1>4

\* A phone's command goes on to another step, with an event.
CommandGoes(p, step, e) == phone' = [phone EXCEPT ![p].at = step, ![p].event = e]

\* What it becomes.
LEMMA CommandMoves ==
    ASSUME MakerInv, NEW p \in Phones, NEW x, NEW e, CommandGoes(p, x, e)
    PROVE  \E c : /\ IsCommand(c) /\ phone' = [phone EXCEPT ![p] = c]
                  /\ c.at = x /\ c.event = e /\ c.op = phone[p].op /\ c.mission = phone[p].mission
                  /\ c.row = phone[p].row /\ c.token = phone[p].token
<1>1. PICK b : b = phone[p] /\ IsCommand(b)
  BY DEF MakerInv, AppleShapes
<1>2. PICK d : d = [b EXCEPT !.at = x]
  OBVIOUS
<1>3. PICK c : c = [d EXCEPT !.event = e]
  OBVIOUS
<1>4. /\ IsCommand(d)
      /\ d = [at |-> x, row |-> b.row, token |-> b.token, op |-> b.op,
              mission |-> b.mission, event |-> b.event, text |-> b.text]
  BY <1>1, <1>2, CommandChanges
<1>5. /\ IsCommand(c)
      /\ c = [at |-> d.at, row |-> d.row, token |-> d.token, op |-> d.op,
              mission |-> d.mission, event |-> e, text |-> d.text]
  BY <1>3, <1>4, CommandChanges
<1>6. phone = [q \in Phones |-> phone[q]]
  BY DEF MakerInv, AppleShapes
<1>7. phone' = [phone EXCEPT ![p] = c]
  <2>1. PICK g : g = [phone EXCEPT ![p] = d]
    OBVIOUS
  <2>2. phone' = [g EXCEPT ![p].event = e]
    <3>1. PICK h : h = [phone EXCEPT ![p].at = x]
      OBVIOUS
    <3>2. phone' = [h EXCEPT ![p].event = e]
      BY <3>1, Zenon DEF CommandGoes
    <3>3. h = g
      BY <1>1, <1>2, <2>1, <3>1
    <3> QED
      BY <3>2, <3>3
  <2>3. g[p] = d /\ g = [q \in Phones |-> g[q]]
    BY <1>6, <2>1
  <2>4. phone' = [g EXCEPT ![p] = c]
    BY <1>3, <2>2, <2>3
  <2> QED
    BY <1>6, <2>1, <2>4
<1>8. /\ c.at = x /\ c.event = e /\ c.op = b.op /\ c.mission = b.mission
      /\ c.row = b.row /\ c.token = b.token
  BY <1>4, <1>5
<1> QED
  BY <1>1, <1>5, <1>7, <1>8

\* The end of a command's run, when the phone is saving nothing or has lost the id.
LEMMA EndKeeps ==
    ASSUME MakerInv, NEW p \in Phones, phone' = [phone EXCEPT ![p] = NoCommand],
           UNCHANGED <<mission, cached, retained, event>>, unsaved \subseteq unsaved',
           phone[p].at = "save" => <<p, phone[p].mission>> \in unsaved'
    PROVE  MakerInv'
<1>1. PICK c : c = NoCommand
  OBVIOUS
<1>2. IsCommand(c) /\ c.at = "idle" /\ c.op = "none"
  BY <1>1 DEF NoCommand, IsCommand
<1>3. /\ event' = [x \in AppleEvents |-> event'[x]] /\ \A x \in AppleEvents : IsEvent(event'[x])
      /\ \A x \in AppleEvents : event'[x].by = event[x].by /\ event'[x].for = event[x].for
  BY DEF MakerInv, AppleShapes, IsEvent
<1>4. \A m \in AppleMissions : Saving(p, m) => <<p, m>> \in unsaved'
  BY DEF Saving
<1> QED
  BY <1>1, <1>2, <1>3, <1>4, PhoneKeeps

\* ApplyUpdate, ApplyDelete, SettleApplied, RunBreaks.
LEMMA StepKeeps ==
    ASSUME MakerInv, NEW p \in Phones,
           ApplyUpdate(p) \/ ApplyDelete(p) \/ SettleApplied(p) \/ RunBreaks(p)
    PROVE  MakerInv'
<1>1. UNCHANGED <<mission, cached, retained>>
  BY DEF ApplyUpdate, ApplyDelete, SettleApplied, RunBreaks, OnPhone
<1>2. PICK e : e = Target(p, phone[p].mission)
  OBVIOUS
<1>3. CASE ApplyUpdate(p)
  <2>1. phone[p].at = "apply" /\ phone[p].op = "update" /\ unsaved' = unsaved
    BY <1>3 DEF ApplyUpdate, At
  <2>2. CASE SettleFailed(p) /\ UNCHANGED event
    BY <1>1, <2>1, <2>2, EndKeeps DEF SettleFailed
  <2>3. CASE /\ event' = [event EXCEPT ![e].text = phone[p].text]
             /\ phone' = [phone EXCEPT ![p].at = "save", ![p].event = e]
    <3>2. CommandGoes(p, "save", e)
      BY <2>3, Zenon DEF CommandGoes
    <3>3. PICK c : /\ IsCommand(c) /\ phone' = [phone EXCEPT ![p] = c]
                   /\ c.at = "save" /\ c.event = e /\ c.op = phone[p].op /\ c.mission = phone[p].mission
      BY <3>2, CommandMoves
    <3>4. PICK t : t = phone[p].text
      OBVIOUS
    <3>5. /\ event' = [f \in AppleEvents |-> event'[f]] /\ \A f \in AppleEvents : IsEvent(event'[f])
          /\ \A f \in AppleEvents : event'[f].by = event[f].by /\ event'[f].for = event[f].for
      BY <2>3, <3>4, EventWritten
    <3>6. e # Nobody
      BY <1>2, <2>1 DEF Target, MakerInv, Known
    <3>7. \A m \in AppleMissions : ~Saving(p, m)
      BY <2>1 DEF Saving
    <3> QED
      BY <1>1, <2>1, <3>3, <3>5, <3>6, <3>7, PhoneKeeps
  <2> QED
    BY <1>2, <1>3, <2>2, <2>3, Zenon DEF ApplyUpdate
<1>4. CASE ApplyDelete(p)
  <2>1. phone[p].at = "apply" /\ phone[p].op = "delete" /\ unsaved' = unsaved
    BY <1>4 DEF ApplyDelete, At, ghosts
  <2>2. event' = [event EXCEPT ![e].at = "gone"]
    BY <1>2, <1>4 DEF ApplyDelete
  <2>4. CommandGoes(p, "settle", e)
    BY <1>2, <1>4, Zenon DEF ApplyDelete, CommandGoes
  <2>5. PICK c : /\ IsCommand(c) /\ phone' = [phone EXCEPT ![p] = c]
                 /\ c.at = "settle" /\ c.event = e /\ c.op = phone[p].op /\ c.mission = phone[p].mission
    BY <2>4, CommandMoves
  <2>6. /\ event' = [f \in AppleEvents |-> event'[f]] /\ \A f \in AppleEvents : IsEvent(event'[f])
        /\ \A f \in AppleEvents : event'[f].by = event[f].by /\ event'[f].for = event[f].for
    BY <2>2, EventWritten
  <2>7. \A m \in AppleMissions : ~Saving(p, m)
    BY <2>1 DEF Saving
  <2> QED
    BY <1>1, <2>1, <2>5, <2>6, <2>7, PhoneKeeps
<1>5. CASE SettleApplied(p)
  <2>1. /\ phone[p].at = "settle" /\ phone' = [phone EXCEPT ![p] = NoCommand]
        /\ UNCHANGED <<event, unsaved>>
    BY <1>5 DEF SettleApplied, At, ghosts
  <2> QED
    BY <1>1, <2>1, EndKeeps
<1>6. CASE RunBreaks(p)
  <2>1. /\ phone' = [phone EXCEPT ![p] = NoCommand] /\ UNCHANGED event
        /\ unsaved' = IF At(p, "save") THEN unsaved \cup {<<p, phone[p].mission>>} ELSE unsaved
    BY <1>6 DEF RunBreaks
  <2>2. unsaved \subseteq unsaved' /\ (phone[p].at = "save" => <<p, phone[p].mission>> \in unsaved')
    BY <2>1 DEF At
  <2> QED
    BY <1>1, <2>1, <2>2, EndKeeps
<1> QED
  BY <1>3, <1>4, <1>5, <1>6

\* SaveLocalLink: the id is retained, or lost.
LEMMA SaveKeeps ==
    ASSUME MakerInv, NEW p \in Phones, SaveLocalLink(p)
    PROVE  MakerInv'
<1>1. phone[p].at = "save" /\ UNCHANGED <<mission, cached, event>>
  BY DEF SaveLocalLink, At, OnPhone
<1>2. PICK m : m = phone[p].mission
  OBVIOUS
<1>3. PICK e : e = phone[p].event
  OBVIOUS
<1>4. e # Nobody
  BY <1>1, <1>3 DEF MakerInv, Known
<1>5. CASE SettleFailed(p) /\ unsaved' = unsaved \cup {<<p, m>>} /\ UNCHANGED retained
  BY <1>1, <1>2, <1>5, EndKeeps DEF SettleFailed
<1>6. CASE /\ cached[p][m].at # "none"
           /\ retained' = [retained EXCEPT ![p] = [x \in DOMAIN @ \cup {m} |-> IF x = m THEN e ELSE @[x]]]
           /\ phone' = [phone EXCEPT ![p].at = "settle"]
           /\ UNCHANGED unsaved
  <2>1. PICK b : b = phone[p] /\ IsCommand(b)
    BY DEF MakerInv, AppleShapes
  <2>2. PICK c : c = [b EXCEPT !.at = "settle"]
    OBVIOUS
  <2>3. IsCommand(c) /\ c.at = "settle" /\ c.op = b.op /\ c.event = b.event /\ c.mission = b.mission
    <3>1. IsCommand(b)
      BY <2>1
    <3>2. [b EXCEPT !.at = "settle"] =
             [at |-> "settle", row |-> b.row, token |-> b.token, op |-> b.op,
              mission |-> b.mission, event |-> b.event, text |-> b.text]
      BY ONLY <3>1, CommandChanges
    <3> QED
      BY ONLY <2>2, <3>2 DEF IsCommand
  <2>4. phone' = [phone EXCEPT ![p] = c]
    BY <1>6, <2>1, <2>2
  <2>5. /\ phone = [q \in Phones |-> phone[q]] /\ \A q \in Phones : IsCommand(phone[q])
        /\ retained = [q \in Phones |-> retained[q]]
    BY DEF MakerInv, AppleShapes
  <2>6. /\ phone' = [q \in Phones |-> phone'[q]] /\ phone'[p] = c
        /\ \A q \in Phones : q # p => phone'[q] = phone[q]
    BY <2>4, <2>5
  <2>7. PICK k : k = [x \in DOMAIN retained[p] \cup {m} |-> IF x = m THEN e ELSE retained[p][x]]
    OBVIOUS
  <2>8. /\ retained' = [q \in Phones |-> retained'[q]] /\ retained'[p] = k
        /\ \A q \in Phones : q # p => retained'[q] = retained[q]
    BY <1>6, <2>5, <2>7
  <2>9. /\ DOMAIN k = DOMAIN retained[p] \cup {m} /\ k[m] = e
        /\ \A x \in DOMAIN retained[p] : x # m => k[x] = retained[p][x]
    BY <2>7
  <2>10. AppleShapes'
    <3>1. \A n \in AppleMissions : IsRow(mission'[n])
      BY <1>1 DEF MakerInv, AppleShapes, IsRow
    <3>2. \A q \in Phones : \A n \in AppleMissions : IsRow(cached'[q][n])
      BY <1>1 DEF MakerInv, AppleShapes, IsRow
    <3>3. \A f \in AppleEvents : IsEvent(event'[f])
      BY <1>1 DEF MakerInv, AppleShapes, IsEvent
    <3>4. \A q \in Phones : IsCommand(phone'[q])
      BY <2>3, <2>5, <2>6 DEF IsCommand
    <3>5. /\ mission' = [n \in AppleMissions |-> mission'[n]] /\ event' = [f \in AppleEvents |-> event'[f]]
          /\ cached' = [q \in Phones |-> [n \in AppleMissions |-> cached'[q][n]]]
      BY <1>1 DEF MakerInv, AppleShapes
    <3> QED
      BY <2>6, <2>8, <3>1, <3>2, <3>3, <3>4, <3>5 DEF AppleShapes, IsRow, IsCommand, IsEvent
  <2>11. Known'
    <3>1. ASSUME NEW q \in Phones
          PROVE  /\ \A n \in DOMAIN retained'[q] : retained'[q][n] # Nobody
                 /\ \A n \in AppleMissions : n \in DOMAIN retained'[q] => cached'[q][n].at # "none"
                 /\ phone'[q].at = "save" \/ phone'[q].op = "update" => phone'[q].event # Nobody
      <4>1. CASE q = p
        <5>1. \A n \in DOMAIN k : k[n] # Nobody
          BY <1>4, <2>9 DEF MakerInv, Known
        <5>2. \A n \in AppleMissions : n \in DOMAIN k => cached[p][n].at # "none"
          BY <1>6, <2>9 DEF MakerInv, Known
        <5>3. c.event # Nobody
          BY <1>3, <1>4, <2>1, <2>3
        <5> QED
          BY <1>1, <2>6, <2>8, <4>1, <5>1, <5>2, <5>3
      <4>2. CASE q # p
        BY <1>1, <2>6, <2>8, <4>2 DEF MakerInv, Known
      <4> QED
        BY <4>1, <4>2
    <3> QED
      BY <3>1 DEF Known
  <2>12. ASSUME NEW q \in Phones, NEW n \in AppleMissions
         PROVE  /\ Saving(q, n) => Saving(q, n)' \/ n \in DOMAIN retained'[q]
                /\ n \in DOMAIN retained[q] => n \in DOMAIN retained'[q]
                /\ Creating(q, n)' => Creating(q, n)
    <3>1. CASE q = p
      BY <1>2, <2>3, <2>6, <2>8, <2>9, <3>1 DEF Saving, Creating
    <3>2. CASE q # p
      BY <2>6, <2>8, <3>2 DEF Saving, Creating
    <3> QED
      BY <3>1, <3>2
  <2> QED
    BY <1>1, <1>6, <2>10, <2>11, <2>12, MakerStep
<1> QED
  BY <1>2, <1>3, <1>5, <1>6, Zenon DEF SaveLocalLink

\* ApplyCreate: who makes an event for a mission has made none, or lost its id.
LEMMA CreateKeeps ==
    ASSUME MakerInv, NEW p \in Phones, ApplyCreate(p)
    PROVE  MakerInv'
<1>1. /\ phone[p].at = "apply" /\ phone[p].op = "create"
      /\ UNCHANGED <<mission, cached, retained, unsaved>>
  BY DEF ApplyCreate, At, OnPhone
<1>2. PICK m : m = phone[p].mission
  OBVIOUS
<1>3. PICK e : e = Target(p, m)
  OBVIOUS
<1>4. \A n \in AppleMissions : ~Saving(p, n)
  BY <1>1 DEF Saving
<1>5. CASE e # Nobody
  <2>1. CommandGoes(p, "settle", e) /\ UNCHANGED event
    BY <1>2, <1>3, <1>5, Zenon DEF ApplyCreate, CommandGoes
  <2>2. PICK c : /\ IsCommand(c) /\ phone' = [phone EXCEPT ![p] = c]
                 /\ c.at = "settle" /\ c.event = e /\ c.op = phone[p].op /\ c.mission = phone[p].mission
    BY <2>1, CommandMoves
  <2>3. /\ event' = [x \in AppleEvents |-> event'[x]] /\ \A x \in AppleEvents : IsEvent(event'[x])
        /\ \A x \in AppleEvents : event'[x].by = event[x].by /\ event'[x].for = event[x].for
    BY <2>1 DEF MakerInv, AppleShapes, IsEvent
  <2> QED
    BY <1>1, <1>4, <2>2, <2>3, PhoneKeeps
<1>6. CASE e = Nobody
  <2>1. PICK new \in AppleEvents :
           /\ event' = [event EXCEPT ![new] = [at |-> "there", text |-> phone[p].text,
                                                for |-> m, by |-> p]]
           /\ CommandGoes(p, "save", new)
    BY <1>2, <1>3, <1>6, Zenon DEF ApplyCreate, CommandGoes
  <2>2. PICK c : /\ IsCommand(c) /\ phone' = [phone EXCEPT ![p] = c]
                 /\ c.at = "save" /\ c.event = new /\ c.op = phone[p].op /\ c.mission = phone[p].mission
    BY <2>1, CommandMoves
  <2>3. PICK made : made = [at |-> "there", text |-> phone[p].text, for |-> m, by |-> p]
    OBVIOUS
  <2>4. IsEvent(made) /\ made.for = m /\ made.by = p
    BY <2>3 DEF IsEvent
  <2>5. /\ event = [x \in AppleEvents |-> event[x]] /\ phone = [q \in Phones |-> phone[q]]
        /\ \A q \in Phones : IsCommand(phone[q])
    BY DEF MakerInv, AppleShapes
  <2>6. /\ event' = [x \in AppleEvents |-> event'[x]] /\ event'[new] = made
        /\ \A x \in AppleEvents : x # new => event'[x] = event[x]
    BY <2>1, <2>3, <2>5
  <2>7. /\ phone' = [q \in Phones |-> phone'[q]] /\ phone'[p] = c
        /\ \A q \in Phones : q # p => phone'[q] = phone[q]
    BY <2>2, <2>5
  <2>8. AppleShapes'
    <3>1. \A n \in AppleMissions : IsRow(mission'[n])
      BY <1>1 DEF MakerInv, AppleShapes, IsRow
    <3>2. \A q \in Phones : \A n \in AppleMissions : IsRow(cached'[q][n])
      BY <1>1 DEF MakerInv, AppleShapes, IsRow
    <3>3. \A f \in AppleEvents : IsEvent(event'[f])
      BY <2>4, <2>6 DEF MakerInv, AppleShapes, IsEvent
    <3>4. \A q \in Phones : IsCommand(phone'[q])
      BY <2>2, <2>5, <2>7 DEF IsCommand
    <3>5. /\ mission' = [n \in AppleMissions |-> mission'[n]] /\ retained' = [q \in Phones |-> retained'[q]]
          /\ cached' = [q \in Phones |-> [n \in AppleMissions |-> cached'[q][n]]]
      BY <1>1 DEF MakerInv, AppleShapes
    <3> QED
      BY <2>6, <2>7, <3>1, <3>2, <3>3, <3>4, <3>5 DEF AppleShapes, IsRow, IsCommand, IsEvent
  <2>9. Known'
    <3>1. c.event # Nobody
      BY <2>2, NobodyAssumption
    <3> QED
      BY <1>1, <2>7, <3>1 DEF MakerInv, Known
  <2>10. ASSUME NEW q \in Phones, NEW n \in AppleMissions
         PROVE  /\ \A x \in AppleEvents : MadeFor(q, n, x)' => MadeFor(q, n, x) \/ (x = new /\ q = p /\ n = m)
                /\ Saving(q, n) => Saving(q, n)'
                /\ Creating(q, n)' => Creating(q, n)
                /\ q = p /\ n = m => Saving(q, n)'
    <3>1. \A x \in AppleEvents : MadeFor(q, n, x)' => MadeFor(q, n, x) \/ (x = new /\ q = p /\ n = m)
      <4>1. ASSUME NEW x \in AppleEvents, MadeFor(q, n, x)'
            PROVE  MadeFor(q, n, x) \/ (x = new /\ q = p /\ n = m)
        <5>1. event'[x].by = q /\ event'[x].for = n
          BY <4>1 DEF MadeFor
        <5>2. CASE x = new
          BY <2>4, <2>6, <5>1, <5>2
        <5>3. CASE x # new
          <6>1. event'[x] = event[x]
            BY <2>6, <5>3
          <6> QED
            BY <5>1, <6>1 DEF MadeFor
        <5> QED
          BY <5>2, <5>3
      <4> QED
        BY <4>1
    <3>2. CASE q = p
      BY <1>1, <1>2, <2>2, <2>7, <3>1, <3>2 DEF Saving, Creating
    <3>3. CASE q # p
      BY <2>7, <3>1, <3>3 DEF Saving, Creating
    <3> QED
      BY <3>2, <3>3
  <2>11. Remembered'
    <3>1. ASSUME NEW q \in Phones, NEW n \in AppleMissions, \E x \in AppleEvents : MadeFor(q, n, x)'
          PROVE  \/ <<q, n>> \in unsaved' \/ Saving(q, n)' \/ n \in DOMAIN retained'[q]
                 \/ mission'[n].at = "deleted" /\ ~Creating(q, n)'
      <4>1. CASE q = p /\ n = m
        BY <2>10, <4>1
      <4>2. CASE ~(q = p /\ n = m)
        <5>1. \E x \in AppleEvents : MadeFor(q, n, x)
          BY <2>10, <3>1, <4>2
        <5>2. \/ <<q, n>> \in unsaved \/ Saving(q, n) \/ n \in DOMAIN retained[q]
              \/ mission[n].at = "deleted" /\ ~Creating(q, n)
          BY <5>1 DEF MakerInv, Remembered
        <5> QED
          BY <1>1, <2>10, <5>2
      <4> QED
        BY <4>1, <4>2
    <3> QED
      BY <3>1 DEF Remembered, MadeFor
  <2>12. OnlyOne'
    <3> SUFFICES ASSUME NEW q \in Phones, NEW n \in AppleMissions, <<q, n>> \notin unsaved',
                        NEW x \in AppleEvents, NEW y \in AppleEvents,
                        MadeFor(q, n, x)', MadeFor(q, n, y)'
                 PROVE  x = y
      BY DEF OnlyOne
    <3>1. CASE q = p /\ n = m
      <4>1. ~Saving(p, m)
        BY <1>1 DEF Saving
      <4>2. m \notin DOMAIN retained[p]
        BY <1>3, <1>6 DEF Target, MakerInv, Known
      <4>3. Creating(p, m)
        BY <1>1, <1>2 DEF Creating
      <4>4. \A z \in AppleEvents : ~MadeFor(p, m, z)
        BY <1>1, <3>1, <4>1, <4>2, <4>3 DEF MakerInv, Remembered
      <4> QED
        BY <2>10, <3>1, <4>4
    <3>2. CASE ~(q = p /\ n = m)
      <4>1. MadeFor(q, n, x) /\ MadeFor(q, n, y)
        BY <2>10, <3>2
      <4> QED
        BY <1>1, <4>1 DEF MakerInv, OnlyOne
    <3> QED
      BY <3>1, <3>2
  <2> QED
    BY <2>8, <2>9, <2>11, <2>12 DEF MakerInv
<1> QED
  BY <1>5, <1>6

\* A phone's copies and links change: a link is dropped only if its mission is deleted.
LEMMA CopiesKeep ==
    ASSUME MakerInv, NEW p \in Phones, NEW rows, NEW k,
           cached' = [cached EXCEPT ![p] = rows], retained' = [retained EXCEPT ![p] = k],
           rows = [m \in AppleMissions |-> rows[m]], \A m \in AppleMissions : IsRow(rows[m]),
           UNCHANGED <<phone, mission, event, unsaved>>,
           \A m \in DOMAIN k : k[m] # Nobody,
           \A m \in AppleMissions : m \in DOMAIN k => rows[m].at # "none",
           \A m \in AppleMissions :
              m \in DOMAIN retained[p] => m \in DOMAIN k \/ (mission[m].at = "deleted" /\ ~Creating(p, m))
    PROVE  MakerInv'
<1>1. /\ retained = [q \in Phones |-> retained[q]]
      /\ cached = [q \in Phones |-> [m \in AppleMissions |-> cached[q][m]]]
  BY DEF MakerInv, AppleShapes
<1>2. /\ retained' = [q \in Phones |-> retained'[q]] /\ retained'[p] = k
      /\ \A q \in Phones : q # p => retained'[q] = retained[q]
  BY <1>1
<1>3. /\ cached'[p] = rows /\ \A q \in Phones : q # p => cached'[q] = cached[q]
      /\ cached' = [q \in Phones |-> cached'[q]]
  BY <1>1
<1>4. \A q \in Phones : cached'[q] = [m \in AppleMissions |-> cached'[q][m]]
  BY <1>1, <1>3
<1>5. AppleShapes'
  <2>1. \A m \in AppleMissions : IsRow(mission'[m])
    BY DEF MakerInv, AppleShapes, IsRow
  <2>2. \A q \in Phones : \A m \in AppleMissions : IsRow(cached'[q][m])
    BY <1>3 DEF MakerInv, AppleShapes, IsRow
  <2>3. \A e \in AppleEvents : IsEvent(event'[e])
    BY DEF MakerInv, AppleShapes, IsEvent
  <2>4. \A q \in Phones : IsCommand(phone'[q])
    BY DEF MakerInv, AppleShapes, IsCommand
  <2>5. /\ mission' = [m \in AppleMissions |-> mission'[m]] /\ event' = [e \in AppleEvents |-> event'[e]]
        /\ phone' = [q \in Phones |-> phone'[q]]
    BY DEF MakerInv, AppleShapes
  <2>6. cached' = [q \in Phones |-> [m \in AppleMissions |-> cached'[q][m]]]
    BY <1>3, <1>4
  <2> QED
    BY <1>2, <2>1, <2>2, <2>3, <2>4, <2>5, <2>6 DEF AppleShapes, IsRow, IsCommand, IsEvent
<1>6. Known'
  BY <1>2, <1>3 DEF MakerInv, Known
<1>7. \A q \in Phones, m \in AppleMissions :
         /\ (Saving(q, m) => Saving(q, m)') /\ (Creating(q, m)' => Creating(q, m))
         /\ m \in DOMAIN retained[q] =>
               m \in DOMAIN retained'[q] \/ (mission'[m].at = "deleted" /\ ~Creating(q, m)')
  BY <1>2 DEF Saving, Creating
<1> QED
  BY <1>5, <1>6, <1>7, MakerStep

\* PullMissions: what the server has is an event, and what it does not have is kept.
LEMMA PullKeeps ==
    ASSUME MakerInv, NEW p \in Phones, PullMissions(p)
    PROVE  MakerInv'
<1>1. phone[p].at = "idle" /\ UNCHANGED <<phone, mission, event, unsaved>>
  BY DEF PullMissions, At, server, ghosts
<1> DEFINE gone == {m \in AppleMissions : mission[m].at = "deleted"}
           known == {m \in AppleMissions : cached[p][m].at # "none" \/ mission[m].at # "none"} \ gone
           linked == {m \in AppleMissions : LinkedEvents(m) # {}} \ gone
<1>2. PICK rows : rows = [m \in AppleMissions |->
              IF m \in gone THEN AbsentMission
              ELSE IF mission[m].at = "none" THEN cached[p][m] ELSE mission[m]]
  OBVIOUS
<1>3. cached' = [cached EXCEPT ![p] = rows]
  BY <1>2 DEF PullMissions
<1>4. PICK said \in [linked -> AppleEvents] :
         retained' = [retained EXCEPT ![p] =
                 [m \in (DOMAIN retained[p] \cup linked) \cap known |->
                    IF m \in linked THEN said[m] ELSE retained[p][m]]]
  BY Zenon DEF PullMissions, LinksToTell
<1>5. \A m \in AppleMissions : m \in gone <=> mission[m].at = "deleted"
  OBVIOUS
<1>6. /\ known \subseteq AppleMissions
      /\ \A m \in known : m \notin gone /\ (cached[p][m].at # "none" \/ mission[m].at # "none")
      /\ \A m \in AppleMissions : m \notin gone /\ cached[p][m].at # "none" => m \in known
  OBVIOUS
<1> HIDE DEF gone, known, linked
<1>8. PICK k : k = [m \in (DOMAIN retained[p] \cup linked) \cap known |->
                      IF m \in linked THEN said[m] ELSE retained[p][m]]
  OBVIOUS
<1>9. retained' = [retained EXCEPT ![p] = k]
  BY <1>4, <1>8
<1>10. rows = [m \in AppleMissions |-> rows[m]] /\ \A m \in AppleMissions : IsRow(rows[m])
  <2>1. IsRow(AbsentMission)
    BY DEF IsRow, AbsentMission
  <2>2. \A m \in AppleMissions : IsRow(mission[m]) /\ IsRow(cached[p][m])
    BY DEF MakerInv, AppleShapes
  <2>3. \A m \in AppleMissions : rows[m] \in {AbsentMission, mission[m], cached[p][m]}
    BY <1>2
  <2> QED
    BY <1>2, <2>1, <2>2, <2>3
<1>11. \A m \in DOMAIN k : k[m] # Nobody
  BY <1>8, NobodyAssumption DEF MakerInv, Known
<1>12. \A m \in AppleMissions : m \in DOMAIN k => rows[m].at # "none"
  BY <1>6, <1>2, <1>8
<1>13. ASSUME NEW m \in AppleMissions, m \in DOMAIN retained[p]
       PROVE  m \in DOMAIN k \/ (mission[m].at = "deleted" /\ ~Creating(p, m))
  <2>1. cached[p][m].at # "none"
    BY <1>13 DEF MakerInv, Known
  <2>2. ~Creating(p, m)
    BY <1>1 DEF Creating
  <2> QED
    BY <1>5, <1>6, <1>8, <1>13, <2>1, <2>2
<1> QED
  BY <1>1, <1>3, <1>9, <1>10, <1>11, <1>12, <1>13, CopiesKeep

\* ScanNew, ScanKnown, ScanMissing.
LEMMA ScanKeeps ==
    ASSUME MakerInv, NEW p \in Phones,
           \/ \E e \in AppleEvents : ScanNew(p, e)
           \/ \E m \in AppleMissions : ScanKnown(p, m) \/ ScanMissing(p, m)
    PROVE  MakerInv'
<1>1. UNCHANGED <<phone, mission, event, unsaved>>
  BY DEF ScanNew, ScanKnown, ScanMissing, Enqueue, server, ghosts
<1>2. PICK old : /\ old = cached[p] /\ old = [m \in AppleMissions |-> old[m]]
                 /\ \A m \in AppleMissions : IsRow(old[m])
  BY DEF MakerInv, AppleShapes
<1>3. PICK kept : /\ kept = retained[p] /\ \A m \in DOMAIN kept : kept[m] # Nobody
                  /\ \A m \in AppleMissions : m \in DOMAIN kept => old[m].at # "none"
  BY <1>2 DEF MakerInv, Known
<1>4. cached = [cached EXCEPT ![p] = old] /\ retained = [retained EXCEPT ![p] = kept]
  BY <1>2, <1>3 DEF MakerInv, AppleShapes
<1>5. CASE \E e \in AppleEvents : ScanNew(p, e)
  <2>1. PICK e \in AppleEvents, m \in AppleMissions :
           /\ cached' = [cached EXCEPT ![p][m] = OrganizerRow(Normalized(e), 0)]
           /\ retained' = [retained EXCEPT ![p] =
                      [x \in DOMAIN @ \cup {m} |-> IF x = m THEN e ELSE @[x]]]
    <3>1. PICK e \in AppleEvents : ScanNew(p, e)
      BY <1>5
    <3>2. PICK fresh : fresh = {m \in AppleMissions : mission[m].at = "none"
                                  /\ \A q \in Phones : cached[q][m].at = "none"}
      OBVIOUS
    <3>3. fresh # {} /\ (CHOOSE x \in fresh : TRUE) \in fresh
      BY <3>1, <3>2 DEF ScanNew
    <3>4. PICK m : m = CHOOSE x \in fresh : TRUE
      OBVIOUS
    <3>5. m \in AppleMissions
      BY <3>2, <3>3, <3>4
    <3>6. /\ cached' = [cached EXCEPT ![p][m] = OrganizerRow(Normalized(e), 0)]
          /\ retained' = [retained EXCEPT ![p] =
                     [x \in DOMAIN @ \cup {m} |-> IF x = m THEN e ELSE @[x]]]
      BY <3>1, <3>2, <3>4, Zenon DEF ScanNew, ApplyLocal
    <3> QED
      BY <3>5, <3>6
  <2>2. PICK row : row = OrganizerRow(Normalized(e), 0)
    OBVIOUS
  <2>3. PICK rows : rows = [old EXCEPT ![m] = row]
    OBVIOUS
  <2>4. PICK k : k = [x \in DOMAIN kept \cup {m} |-> IF x = m THEN e ELSE kept[x]]
    OBVIOUS
  <2>5. cached' = [cached EXCEPT ![p] = rows] /\ retained' = [retained EXCEPT ![p] = k]
    BY <1>2, <1>3, <2>1, <2>2, <2>3, <2>4
  <2>6. IsRow(row) /\ row.at = "active"
    BY <2>2 DEF IsRow, OrganizerRow
  <2>7. /\ rows = [n \in AppleMissions |-> rows[n]]
        /\ \A n \in AppleMissions : rows[n] = IF n = m THEN row ELSE old[n]
    BY <1>2, <2>3
  <2>8. \A n \in AppleMissions : IsRow(rows[n])
    BY <1>2, <2>6, <2>7
  <2>9. \A n \in DOMAIN k : k[n] # Nobody
    BY <1>3, <2>4, NobodyAssumption
  <2>10. /\ \A n \in AppleMissions : n \in DOMAIN k => rows[n].at # "none"
         /\ \A n \in AppleMissions : n \in DOMAIN retained[p] => n \in DOMAIN k
    BY <1>3, <2>4, <2>6, <2>7
  <2> QED
    BY <1>1, <2>5, <2>7, <2>8, <2>9, <2>10, CopiesKeep
<1>6. CASE \E m \in AppleMissions : ScanKnown(p, m)
  <2>1. PICK m \in AppleMissions : ScanKnown(p, m)
    BY <1>6
  <2>2. PICK t : cached' = [cached EXCEPT ![p][m].text = t] /\ retained' = retained
    BY <2>1 DEF ScanKnown
  <2>3. PICK r : r = old[m] /\ IsRow(r)
    BY <1>2
  <2>4. PICK row : row = [r EXCEPT !.text = t]
    OBVIOUS
  <2>5. PICK rows : rows = [old EXCEPT ![m] = row]
    OBVIOUS
  <2>6. cached' = [cached EXCEPT ![p] = rows]
    BY <1>2, <2>2, <2>3, <2>4, <2>5
  <2>7. IsRow(row) /\ row.at = r.at
    BY <2>3, <2>4 DEF IsRow
  <2>8. /\ rows = [n \in AppleMissions |-> rows[n]]
        /\ \A n \in AppleMissions : rows[n] = IF n = m THEN row ELSE old[n]
    BY <1>2, <2>5
  <2>9. /\ \A n \in AppleMissions : IsRow(rows[n])
        /\ \A n \in AppleMissions : n \in DOMAIN kept => rows[n].at # "none"
    BY <1>2, <1>3, <2>3, <2>7, <2>8
  <2>10. retained' = [retained EXCEPT ![p] = kept]
    BY <1>4, <2>2
  <2>11. /\ \A n \in DOMAIN kept : kept[n] # Nobody
         /\ \A n \in AppleMissions : n \in DOMAIN retained[p] => n \in DOMAIN kept
    BY <1>3
  <2> QED
    BY <1>1, <2>6, <2>8, <2>9, <2>10, <2>11, CopiesKeep
<1>7. CASE \E m \in AppleMissions : ScanMissing(p, m)
  <2>1. cached' = [cached EXCEPT ![p] = old] /\ retained' = [retained EXCEPT ![p] = kept]
    BY <1>4, <1>7 DEF ScanMissing
  <2>2. /\ old = [m \in AppleMissions |-> old[m]] /\ \A m \in AppleMissions : IsRow(old[m])
        /\ \A m \in DOMAIN kept : kept[m] # Nobody
        /\ \A m \in AppleMissions : m \in DOMAIN kept => old[m].at # "none"
        /\ \A m \in AppleMissions : m \in DOMAIN retained[p] => m \in DOMAIN kept
    BY <1>2, <1>3
  <2> QED
    BY <1>1, <2>1, <2>2, CopiesKeep
<1> QED
  BY <1>5, <1>6, <1>7

\* UserAddsEvent, UserEditsEvent, UserRemovesEvent: no event becomes a phone's.
LEMMA UserKeeps ==
    ASSUME MakerInv, NEW e \in AppleEvents,
           UserAddsEvent(e) \/ UserEditsEvent(e) \/ UserRemovesEvent(e)
    PROVE  MakerInv'
<1>1. UNCHANGED <<mission, phone, cached, retained, unsaved>>
  BY DEF UserAddsEvent, UserEditsEvent, UserRemovesEvent, server, device, ghosts
<1>2. /\ event' = [f \in AppleEvents |-> event'[f]] /\ \A f \in AppleEvents : IsEvent(event'[f])
      /\ \A f \in AppleEvents : \/ event'[f].by = event[f].by /\ event'[f].for = event[f].for
                                \/ event'[f].by = Nobody
  <2>1. CASE UserAddsEvent(e)
    <3>1. PICK a : a = [AbsentEvent EXCEPT !.at = "there", !.text = texts']
      OBVIOUS
    <3>2. a = [at |-> "there", text |-> texts', for |-> Nobody, by |-> Nobody]
      BY <3>1 DEF AbsentEvent
    <3>3. IsEvent(a) /\ a.by = Nobody
      BY <3>2 DEF IsEvent
    <3>4. event' = [event EXCEPT ![e] = a]
      BY <2>1, <3>1, Zenon DEF UserAddsEvent
    <3>5. event = [f \in AppleEvents |-> event[f]] /\ \A f \in AppleEvents : IsEvent(event[f])
      BY DEF MakerInv, AppleShapes
    <3>6. /\ event' = [f \in AppleEvents |-> event'[f]]
          /\ \A f \in AppleEvents : event'[f] = IF f = e THEN a ELSE event[f]
      BY <3>4, <3>5
    <3> QED
      BY <3>3, <3>5, <3>6 DEF IsEvent
  <2>2. CASE UserEditsEvent(e) \/ UserRemovesEvent(e)
    <3>1. PICK x : event' = [event EXCEPT ![e].at = x] \/ event' = [event EXCEPT ![e].text = x]
      BY <2>2 DEF UserEditsEvent, UserRemovesEvent
    <3> QED
      BY <3>1, EventWritten
  <2> QED
    BY <2>1, <2>2
<1>3. AppleShapes'
  <2>1. \A m \in AppleMissions : IsRow(mission'[m])
    BY <1>1 DEF MakerInv, AppleShapes, IsRow
  <2>2. \A q \in Phones : \A m \in AppleMissions : IsRow(cached'[q][m])
    BY <1>1 DEF MakerInv, AppleShapes, IsRow
  <2>3. \A q \in Phones : IsCommand(phone'[q])
    BY <1>1 DEF MakerInv, AppleShapes, IsCommand
  <2>4. /\ mission' = [m \in AppleMissions |-> mission'[m]] /\ phone' = [q \in Phones |-> phone'[q]]
        /\ retained' = [q \in Phones |-> retained'[q]]
        /\ cached' = [q \in Phones |-> [m \in AppleMissions |-> cached'[q][m]]]
    BY <1>1 DEF MakerInv, AppleShapes
  <2> QED
    BY <1>2, <2>1, <2>2, <2>3, <2>4 DEF AppleShapes, IsRow, IsCommand, IsEvent
<1>4. Known'
  BY <1>1 DEF MakerInv, Known
<1>5. \A q \in Phones, m \in AppleMissions :
         (Saving(q, m)' <=> Saving(q, m)) /\ (Creating(q, m)' <=> Creating(q, m))
  BY <1>1 DEF Saving, Creating
<1> QED
  BY <1>1, <1>2, <1>3, <1>4, <1>5, MakerStep

\* No step breaks the invariant.
LEMMA MakerInvNext ==
    ASSUME MakerInv, [AppleNext]_appleVars
    PROVE  MakerInv'
<1>1. CASE UNCHANGED appleVars
  <2>1. UNCHANGED <<mission, phone, cached, retained, event, unsaved>>
    BY <1>1 DEF appleVars, server, device, ghosts
  <2>2. /\ mission' = [m \in AppleMissions |-> mission'[m]] /\ \A m \in AppleMissions : IsRow(mission'[m])
    BY <2>1 DEF MakerInv, AppleShapes, IsRow
  <2> QED
    BY <2>1, <2>2, ServerKeeps
<1>2. CASE \E m \in AppleMissions : SaveMission(m) \/ FinishMission(m) \/ RemoveMission(m)
  BY <1>2, MissionsKeep
<1>3. CASE \/ (\E export \in BOOLEAN : ConnectApple(export)) \/ DisconnectApple
           \/ (\E p \in Phones : PassOver(p)) \/ (\E i \in DOMAIN outbox : ClaimTimesOut(i))
  BY <1>3, OutboxKeeps
<1>4. CASE \E p \in Phones : ClaimNext(p)
  BY <1>4, ClaimKeeps
<1>5. CASE \E p \in Phones : ApplyCreate(p)
  BY <1>5, CreateKeeps
<1>6. CASE \E p \in Phones : ApplyUpdate(p) \/ ApplyDelete(p) \/ SettleApplied(p) \/ RunBreaks(p)
  BY <1>6, StepKeeps
<1>7. CASE \E p \in Phones : SaveLocalLink(p)
  BY <1>7, SaveKeeps
<1>8. CASE \E p \in Phones : PullMissions(p)
  BY <1>8, PullKeeps
<1>9. CASE \E p \in Phones : AcceptCreate(p) \/ AcceptUpdate(p) \/ AcceptDelete(p)
  BY <1>9, AcceptKeeps
<1>10. CASE \E p \in Phones : \/ \E e \in AppleEvents : ScanNew(p, e)
                              \/ \E m \in AppleMissions : ScanKnown(p, m) \/ ScanMissing(p, m)
  BY <1>10, ScanKeeps
<1>11. CASE \E e \in AppleEvents : UserAddsEvent(e) \/ UserEditsEvent(e) \/ UserRemovesEvent(e)
  BY <1>11, UserKeeps
<1> QED
  BY <1>1, <1>2, <1>3, <1>4, <1>5, <1>6, <1>7, <1>8, <1>9, <1>10, <1>11 DEF AppleNext

\* At first there is no event.
LEMMA MakerInvInit == AppleInit => MakerInv
<1> SUFFICES ASSUME AppleInit PROVE MakerInv
  OBVIOUS
<1>1. IsRow(AbsentMission) /\ AbsentMission.at = "none"
  BY DEF IsRow, AbsentMission
<1>2. IsEvent(AbsentEvent) /\ AbsentEvent.by = Nobody
  BY DEF IsEvent, AbsentEvent
<1>3. IsCommand(NoCommand) /\ NoCommand.at = "idle" /\ NoCommand.op = "none"
  BY DEF IsCommand, NoCommand
<1>4. /\ phone = [p \in Phones |-> NoCommand] /\ retained = [p \in Phones |-> << >>]
      /\ cached = [p \in Phones |-> [m \in AppleMissions |-> AbsentMission]]
      /\ mission = [m \in AppleMissions |-> AbsentMission] /\ event = [e \in AppleEvents |-> AbsentEvent]
  BY DEF AppleInit
<1>5. AppleShapes
  BY <1>1, <1>2, <1>3, <1>4 DEF AppleShapes
<1>6. Known
  BY <1>3, <1>4 DEF Known
<1>7. \A p \in Phones, m \in AppleMissions, e \in AppleEvents : ~MadeFor(p, m, e)
  BY <1>2, <1>4, NobodyAssumption DEF MadeFor
<1> QED
  BY <1>5, <1>6, <1>7 DEF MakerInv, Remembered, OnlyOne

\* However a command fails, is given out again or taken over, a phone makes one
\* event for a mission, unless it lost the id of one
\* (apple-calendar-remote-command-executor.ts:168-183).
THEOREM OneEventEachAlways == AppleSpec => []OneEventEach
<1>1. MakerInv => OneEventEach
  <2> SUFFICES ASSUME MakerInv, NEW p \in Phones, NEW m \in AppleMissions, <<p, m>> \notin unsaved
               PROVE  Cardinality({e \in AppleEvents : event[e].by = p /\ event[e].for = m}) <= 1
    BY DEF OneEventEach
  <2>1. PICK made : made = {e \in AppleEvents : event[e].by = p /\ event[e].for = m}
    OBVIOUS
  <2>2. \A e, f \in made : e = f
    BY <2>1 DEF MakerInv, OnlyOne, MadeFor
  <2>3. made = {} \/ \E e : made = {e}
    BY <2>2
  <2>4. Cardinality(made) <= 1
    <3>1. CASE made = {}
      BY <3>1, FS_EmptySet
    <3>2. CASE \E e : made = {e}
      <4>1. Cardinality(made) = 1
        BY <3>2, FS_Singleton
      <4> QED
        BY <4>1
    <3> QED
      BY <2>3, <3>1, <3>2
  <2> QED
    BY <2>1, <2>4
<1> QED
  BY <1>1, MakerInvInit, MakerInvNext, PTL DEF AppleSpec

(***************************************************************************)
(* What the calendar shows of a mission.                                    *)
(***************************************************************************)
Line == [kind : {"upsert", "delete"}, mission : AppleMissions, event : AppleEvents \cup {Nobody},
         at : {"queued", "claimed", "stale", "done", "dead"}, tries : Nat]

Entries(s) == {s[i] : i \in DOMAIN s}
Newer(m, i) == \E j \in DOMAIN outbox : outbox[j].mission = m /\ i < j

\* A mission of the app that is on its way to the calendar, or was.
AppMade(m) == mission[m].own = "app" \/ \E i \in DOMAIN outbox : outbox[i].mission = m

ServerFits ==
    /\ outbox \in Seq(Line)
    /\ link = Connection(link.state, link.cutoff) /\ link.cutoff \in Nat
    /\ \A l \in eventLink : /\ l = [mission |-> l.mission, event |-> l.event]
                            /\ l.mission \in AppleMissions /\ l.event \in AppleEvents
                            /\ mission[l.mission].at # "none"
                            /\ AppMade(l.mission) => event[l.event].for = l.mission
    /\ \A i \in DOMAIN outbox : /\ mission[outbox[i].mission].at # "none"
                                /\ outbox[i].kind = "delete" => mission[outbox[i].mission].at = "deleted"
    /\ \A m \in AppleMissions : mission[m].at = "none" => mission[m].own # "app"
    /\ link.state # "connected" /\ link.cutoff = 0 => outbox = << >>

EventsFit ==
    \A e \in AppleEvents :
        /\ event[e].at = "none" => event[e].for = Nobody
        /\ event[e].for # Nobody => \E i \in DOMAIN outbox : outbox[i].mission = event[e].for

\* A command as the phone runs it.
CommandFits(c) ==
    c.at # "idle" =>
       /\ c.row \in DOMAIN outbox /\ c.mission = outbox[c.row].mission
       /\ c.token \in Nat /\ c.token <= outbox[c.row].tries
       /\ c.op = "delete" <=> outbox[c.row].kind = "delete"
       /\ c.at = "save" => c.op # "delete"
       /\ c.op # "delete" =>
             /\ c.event = Nobody \/ (c.event \in AppleEvents /\ event[c.event].for = c.mission)
             /\ c.op = "update" \/ c.at \in {"save", "settle"} => c.event # Nobody
             /\ c.op = "create" /\ c.at = "apply" => c.event = Nobody

\* What a phone retains of the links, and what it has scanned.
CopiesFit(p) ==
    /\ \A m \in DOMAIN retained[p] : /\ m \in AppleMissions /\ retained[p][m] \in AppleEvents
                                     /\ AppMade(m) => event[retained[p][m]].for = m
    /\ uploads[p] \in Seq(Entries(uploads[p]))
    /\ \A u \in Entries(uploads[p]) :
          /\ u.mission \in AppleMissions /\ u.event \in AppleEvents
          /\ AppMade(u.mission) => event[u.event].for = u.mission
          /\ mission[u.mission].at = "none" => cached[p][u.mission].at # "none"

PhonesFit ==
    /\ uploads = [p \in Phones |-> uploads[p]]
    /\ \A p \in Phones : CommandFits(phone[p]) /\ CopiesFit(p)
    /\ \A p, q \in Phones : p # q /\ phone[p].at # "idle" /\ phone[q].at # "idle"
                            /\ phone[p].row = phone[q].row => phone[p].token # phone[q].token

\* A mission the property is about.
Live(m) ==
    /\ link.cutoff = 0 /\ Eligible(mission[m])
    /\ \A i \in DOMAIN outbox : outbox[i].mission = m => outbox[i].at # "dead"

\* The event shows the mission, or the property leaves it out.
Excused(e) == e \in touched \/ event[e].at # "there"
Shows(e, m) == Excused(e) \/ event[e].text = mission[m].text

\* The commands of a mission are done one after the other, and a command that is
\* done has linked an event.
InTurn(m) ==
    \A i \in DOMAIN outbox : outbox[i].mission = m =>
        /\ outbox[i].at # "queued" => outbox[i].tries > 0
        /\ outbox[i].at = "done" => LinkedEvents(m) # {}
        /\ \A j \in DOMAIN outbox : j < i /\ outbox[j].mission = m /\ outbox[i].tries > 0
                                       => outbox[j].at = "done"

\* A phone that may still settle its command.
Holds(p, m) == /\ phone[p].at # "idle" /\ phone[p].mission = m
               /\ outbox[phone[p].row].at \in {"claimed", "stale"}
               /\ outbox[phone[p].row].tries = phone[p].token

\* What it wrote is what the mission is, unless a newer command waits.
HolderKnows(p, m) ==
    Newer(m, phone[p].row) \/
        /\ phone[p].at = "apply" /\ outbox[phone[p].row].at = "claimed" => phone[p].text = mission[m].text
        /\ phone[p].at \in {"save", "settle"} => Shows(phone[p].event, m)
        /\ phone[p].at = "apply" /\ phone[p].op = "create" => LinkedEvents(m) = {}
        /\ outbox[phone[p].row].at = "stale" =>
              \A e \in AppleEvents : event[e].for = m => Excused(e)

\* An event that no link tells of yet shows the mission, if it has one command.
UnlinkedShows(m) ==
    LinkedEvents(m) = {} =>
        \A e \in AppleEvents : event[e].for = m =>
            Shows(e, m) \/ \E i \in DOMAIN outbox : outbox[i].mission = m /\ Newer(m, i)

LinkedShows(m) ==
    (\A i \in DOMAIN outbox : outbox[i].mission = m => ~Waiting(outbox[i])) =>
        \A e : LinkedEvents(m) = {e} => Shows(e, m)

Followed(m) ==
    /\ InTurn(m) /\ UnlinkedShows(m) /\ LinkedShows(m)
    /\ \A p \in Phones : Holds(p, m) => HolderKnows(p, m)

\* The inductive invariant.
CatchUpInv ==
    /\ MakerInv /\ ServerFits /\ EventsFit /\ PhonesFit
    /\ \A m \in AppleMissions : Live(m) => Followed(m)

\* What a line becomes.
LEMMA LineChanges ==
    ASSUME NEW r \in Line, NEW a \in {"queued", "claimed", "stale", "done", "dead"}, NEW s,
           s = [r EXCEPT !.at = a]
    PROVE  /\ s \in Line /\ s.at = a /\ s.tries = r.tries
           /\ s.kind = r.kind /\ s.mission = r.mission /\ s.event = r.event
BY DEF Line

LEMMA LineTried ==
    ASSUME NEW r \in Line, NEW s, s = [r EXCEPT !.tries = @ + 1]
    PROVE  /\ s \in Line /\ s.at = r.at /\ s.tries = r.tries + 1
           /\ s.kind = r.kind /\ s.mission = r.mission /\ s.event = r.event
BY DEF Line

\* The lines of the outbox.
LEMMA LineIs ==
    ASSUME ServerFits, NEW i \in DOMAIN outbox
    PROVE  /\ outbox[i] \in Line /\ outbox[i].mission \in AppleMissions /\ outbox[i].tries \in Nat
           /\ i \in Nat /\ Len(outbox) \in Nat /\ DOMAIN outbox = 1 .. Len(outbox)
<1>1. /\ outbox[i] \in Line
      /\ i \in Nat /\ Len(outbox) \in Nat /\ DOMAIN outbox = 1 .. Len(outbox)
  BY DEF ServerFits
<1> QED
  BY <1>1 DEF Line

\* A set of lines as a sequence.
LEMMA LinesOf ==
    ASSUME NEW S, IsFiniteSet(S)
    PROVE  SetToSeq(S) \in Seq(S)
<1> DEFINE n == Cardinality(S)
           s == SetToSeq(S)
<1>1. n \in Nat /\ ExistsBijection(1 .. n, S)
  BY FS_CardinalityType
<1>2. \E f \in [1 .. n -> S] : IsInjective(f)
  BY <1>1 DEF ExistsBijection, Bijection, Injection
<1>3. s \in [1 .. n -> S]
  BY <1>2 DEF SetToSeq
<1> HIDE DEF n, s
<1>4. s \in Seq(S)
  BY <1>1, <1>3
<1> QED
  BY <1>4 DEF s

\* What a queue becomes.
LEMMA Entered ==
    ASSUME NEW s, s \in Seq(Entries(s)), NEW x
    PROVE  /\ Append(s, x) \in Seq(Entries(Append(s, x)))
           /\ \A y \in Entries(Append(s, x)) : y \in Entries(s) \/ y = x
<1>1. PICK T : T = Entries(s) \cup {x}
  OBVIOUS
<1>2. s \in Seq(T) /\ x \in T
  BY <1>1
<1>3. PICK t : t = Append(s, x)
  OBVIOUS
<1>4. /\ t \in Seq(T) /\ Len(t) = Len(s) + 1 /\ Len(s) \in Nat
      /\ \A i \in DOMAIN t : t[i] = IF i \in DOMAIN s THEN s[i] ELSE x
  BY <1>2, <1>3
<1>5. t \in Seq(Entries(t))
  BY <1>4 DEF Entries
<1>6. \A y \in Entries(t) : y \in Entries(s) \/ y = x
  BY <1>4 DEF Entries
<1> QED
  BY <1>3, <1>5, <1>6

LEMMA Left ==
    ASSUME NEW s, s \in Seq(Entries(s)), s # << >>
    PROVE  /\ Tail(s) \in Seq(Entries(Tail(s))) /\ Head(s) \in Entries(s)
           /\ \A y \in Entries(Tail(s)) : y \in Entries(s)
<1>1. PICK T : T = Entries(s)
  OBVIOUS
<1>2. s \in Seq(T)
  BY <1>1
<1>3. PICK t : t = Tail(s)
  OBVIOUS
<1>4. /\ t \in Seq(T) /\ Len(t) = Len(s) - 1 /\ Len(s) \in Nat /\ Len(s) > 0
      /\ \A i \in DOMAIN t : t[i] = s[i + 1] /\ i + 1 \in DOMAIN s
      /\ Head(s) = s[1] /\ 1 \in DOMAIN s
  BY <1>2, <1>3
<1>5. t \in Seq(Entries(t))
  BY <1>4 DEF Entries
<1>6. \A y \in Entries(t) : y \in Entries(s)
  BY <1>4 DEF Entries
<1>7. Head(s) \in Entries(s)
  BY <1>4 DEF Entries
<1> QED
  BY <1>3, <1>5, <1>6, <1>7

\* Lines stay, and are tried again; new ones are queued for missions of the app.
Unknown(m) == mission[m].at = "none" /\ \A p \in Phones : cached[p][m].at = "none"

LinesGo ==
    /\ outbox' \in Seq(Line) /\ DOMAIN outbox \subseteq DOMAIN outbox'
    /\ \A i \in DOMAIN outbox : /\ outbox'[i].kind = outbox[i].kind
                                /\ outbox'[i].mission = outbox[i].mission
                                /\ outbox[i].tries <= outbox'[i].tries
    /\ \A i \in DOMAIN outbox' \ DOMAIN outbox :
          /\ mission[outbox'[i].mission].own = "app" \/ mission'[outbox'[i].mission].own = "app"
          /\ mission'[outbox'[i].mission].at # "none"
          /\ outbox'[i].kind = "delete" => mission'[outbox'[i].mission].at = "deleted"

MissionsGo ==
    \A m \in AppleMissions :
        /\ mission[m].at # "none" => mission'[m].at # "none"
        /\ mission[m].at = "deleted" => mission'[m].at = "deleted"
        /\ mission'[m].at = "none" => mission'[m].own # "app"
        /\ mission'[m].own = "app" => mission[m].own = "app" \/ Unknown(m)

\* An event is for whom it was, unless it is new.
EventsGo ==
    \A e \in AppleEvents :
        \/ event'[e].for = event[e].for /\ (event'[e].at = "none" => event[e].at = "none")
        \/ /\ event[e].at = "none" /\ event'[e].at # "none"
           /\ event'[e].for = Nobody \/ \E i \in DOMAIN outbox : outbox[i].mission = event'[e].for

\* A mission of the app was one, or nobody knew it.
LEMMA AppMadeWas ==
    ASSUME ServerFits, LinesGo, MissionsGo, NEW m \in AppleMissions, AppMade(m)'
    PROVE  AppMade(m) \/ Unknown(m)
<1>1. CASE mission'[m].own = "app"
  BY <1>1 DEF MissionsGo, AppMade
<1>2. ASSUME NEW i \in DOMAIN outbox', outbox'[i].mission = m PROVE AppMade(m) \/ Unknown(m)
  <2>1. CASE i \in DOMAIN outbox
    BY <1>2, <2>1 DEF LinesGo, AppMade
  <2>2. CASE i \notin DOMAIN outbox
    BY <1>2, <2>2 DEF LinesGo, AppMade, MissionsGo
  <2> QED
    BY <2>1, <2>2
<1> QED
  BY <1>1, <1>2 DEF AppMade

\* An event made for a mission stays so.
LEMMA ForStays ==
    ASSUME EventsFit, EventsGo, NEW e \in AppleEvents, event[e].for \in AppleMissions
    PROVE  event'[e].for = event[e].for
BY NobodyAssumption DEF EventsFit, EventsGo

\* What the server keeps fits.
LEMMA ServerFitsOn ==
    ASSUME ServerFits, EventsFit, LinesGo, MissionsGo, EventsGo,
           link' = Connection(link'.state, link'.cutoff), link'.cutoff \in Nat,
           link'.state # "connected" /\ link'.cutoff = 0 => outbox' = << >>,
           \A l \in eventLink' : l \in eventLink \/
              /\ l = [mission |-> l.mission, event |-> l.event]
              /\ l.mission \in AppleMissions /\ l.event \in AppleEvents
              /\ mission'[l.mission].at # "none"
              /\ AppMade(l.mission)' => event'[l.event].for = l.mission
    PROVE  ServerFits' /\ EventsFit'
<1>1. ASSUME NEW l \in eventLink'
      PROVE  /\ l = [mission |-> l.mission, event |-> l.event]
             /\ l.mission \in AppleMissions /\ l.event \in AppleEvents
             /\ mission'[l.mission].at # "none"
             /\ AppMade(l.mission)' => event'[l.event].for = l.mission
  <2>1. CASE l \in eventLink
    <3>1. PICK m, e : m = l.mission /\ e = l.event
      OBVIOUS
    <3>2. /\ l = [mission |-> m, event |-> e] /\ m \in AppleMissions /\ e \in AppleEvents
          /\ mission[m].at # "none" /\ (AppMade(m) => event[e].for = m)
      BY <2>1, <3>1 DEF ServerFits
    <3>3. mission'[m].at # "none" /\ ~Unknown(m)
      BY <3>2 DEF MissionsGo, Unknown
    <3>4. AppMade(m)' => event'[e].for = m
      BY <3>2, <3>3, AppMadeWas, ForStays
    <3> QED
      BY <3>1, <3>2, <3>3, <3>4
  <2>2. CASE l \notin eventLink
    BY <2>2
  <2> QED
    BY <2>1, <2>2
<1>2. ASSUME NEW i \in DOMAIN outbox'
      PROVE  /\ mission'[outbox'[i].mission].at # "none"
             /\ outbox'[i].kind = "delete" => mission'[outbox'[i].mission].at = "deleted"
  <2>1. CASE i \in DOMAIN outbox
    <3>1. outbox[i].mission \in AppleMissions
      BY <2>1, LineIs
    <3> QED
      BY <2>1, <3>1 DEF ServerFits, LinesGo, MissionsGo
  <2>2. CASE i \notin DOMAIN outbox
    BY <2>2 DEF LinesGo
  <2> QED
    BY <2>1, <2>2
<1>3. ServerFits'
  BY <1>1, <1>2 DEF ServerFits, LinesGo, MissionsGo
<1>4. EventsFit'
  <2> SUFFICES ASSUME NEW e \in AppleEvents
               PROVE  /\ event'[e].at = "none" => event'[e].for = Nobody
                      /\ event'[e].for # Nobody => \E i \in DOMAIN outbox' : outbox'[i].mission = event'[e].for
    BY DEF EventsFit
  <2>1. ASSUME NEW m, \E i \in DOMAIN outbox : outbox[i].mission = m
        PROVE  \E i \in DOMAIN outbox' : outbox'[i].mission = m
    BY <2>1 DEF LinesGo
  <2>2. PICK f, g : f = event[e].for /\ g = event'[e].for
    OBVIOUS
  <2>3. /\ event'[e].at = "none" => event[e].at = "none" /\ g = f
        /\ g = f \/ g = Nobody \/ \E i \in DOMAIN outbox : outbox[i].mission = g
    BY <2>2 DEF EventsGo
  <2>4. /\ event[e].at = "none" => f = Nobody
        /\ f # Nobody => \E i \in DOMAIN outbox : outbox[i].mission = f
    BY <2>2 DEF EventsFit
  <2>5. g # Nobody => \E i \in DOMAIN outbox : outbox[i].mission = g
    BY <2>3, <2>4
  <2> QED
    BY <2>1, <2>2, <2>3, <2>4, <2>5
<1> QED
  BY <1>3, <1>4

\* A command that the phone goes on with fits.
LEMMA CommandFitsOn ==
    ASSUME ServerFits, EventsFit, LinesGo, EventsGo, NEW c, CommandFits(c)
    PROVE  CommandFits(c)'
<1> SUFFICES ASSUME c.at # "idle"
             PROVE  CommandFits(c)'
  BY DEF CommandFits
<1>1. PICK i : i = c.row
  OBVIOUS
<1>2. i \in DOMAIN outbox /\ i \in DOMAIN outbox' /\ outbox[i] \in Line /\ outbox'[i] \in Line
  BY <1>1 DEF CommandFits, ServerFits, LinesGo
<1>3. /\ outbox'[i].kind = outbox[i].kind /\ outbox'[i].mission = outbox[i].mission
      /\ outbox[i].tries <= outbox'[i].tries /\ outbox[i].tries \in Nat /\ outbox'[i].tries \in Nat
      /\ outbox[i].mission \in AppleMissions
  BY <1>2 DEF LinesGo, Line
<1>4. c.event \in AppleEvents /\ event[c.event].for = c.mission => event'[c.event].for = c.mission
  BY <1>1, <1>3, ForStays DEF CommandFits
<1> QED
  BY <1>1, <1>2, <1>3, <1>4 DEF CommandFits

\* What a phone retains and uploads fits.
LEMMA CopiesFitOn ==
    ASSUME MakerInv, ServerFits, EventsFit, LinesGo, MissionsGo, EventsGo,
           NEW p \in Phones, CopiesFit(p),
           \A m \in DOMAIN retained'[p] :
              \/ m \in DOMAIN retained[p] /\ retained'[p][m] = retained[p][m]
              \/ /\ m \in AppleMissions /\ retained'[p][m] \in AppleEvents
                 /\ AppMade(m)' => event'[retained'[p][m]].for = m,
           uploads'[p] \in Seq(Entries(uploads'[p])),
           \A u \in Entries(uploads'[p]) :
              \/ u \in Entries(uploads[p])
              \/ /\ u.mission \in AppleMissions /\ u.event \in AppleEvents
                 /\ AppMade(u.mission)' => event'[u.event].for = u.mission
                 /\ mission'[u.mission].at = "none" => cached'[p][u.mission].at # "none",
           \A m \in AppleMissions :
              cached[p][m].at # "none" /\ mission'[m].at = "none" => cached'[p][m].at # "none"
    PROVE  CopiesFit(p)'
<1>1. ASSUME NEW m \in AppleMissions, NEW e \in AppleEvents, AppMade(m) => event[e].for = m,
             ~Unknown(m), AppMade(m)'
      PROVE  event'[e].for = m
  BY <1>1, AppMadeWas, ForStays
<1>2. ASSUME NEW m \in DOMAIN retained'[p]
      PROVE  /\ m \in AppleMissions /\ retained'[p][m] \in AppleEvents
             /\ AppMade(m)' => event'[retained'[p][m]].for = m
  <2>1. CASE m \in DOMAIN retained[p] /\ retained'[p][m] = retained[p][m]
    <3>1. PICK e : e = retained[p][m]
      OBVIOUS
    <3>2. m \in AppleMissions /\ e \in AppleEvents /\ (AppMade(m) => event[e].for = m)
      BY <2>1, <3>1 DEF CopiesFit
    <3>3. ~Unknown(m)
      BY <2>1, <3>2 DEF Unknown, MakerInv, Known
    <3> QED
      BY <1>1, <2>1, <3>1, <3>2, <3>3
  <2> QED
    BY <1>2, <2>1
<1>3. ASSUME NEW u \in Entries(uploads'[p])
      PROVE  /\ u.mission \in AppleMissions /\ u.event \in AppleEvents
             /\ AppMade(u.mission)' => event'[u.event].for = u.mission
             /\ mission'[u.mission].at = "none" => cached'[p][u.mission].at # "none"
  <2>1. CASE u \in Entries(uploads[p])
    <3>1. PICK m, e : m = u.mission /\ e = u.event
      OBVIOUS
    <3>2. /\ m \in AppleMissions /\ e \in AppleEvents /\ (AppMade(m) => event[e].for = m)
          /\ mission[m].at = "none" => cached[p][m].at # "none"
      BY <2>1, <3>1 DEF CopiesFit
    <3>3. ~Unknown(m)
      BY <3>2 DEF Unknown
    <3>4. mission'[m].at = "none" => mission[m].at = "none"
      BY <3>2 DEF MissionsGo
    <3> QED
      BY <1>1, <3>1, <3>2, <3>3, <3>4
  <2> QED
    BY <1>3, <2>1
<1> QED
  BY <1>2, <1>3 DEF CopiesFit

\* A command of a mission that may be written is not a deletion, and its event is
\* the mission's.
HeldFits(p, m) ==
    /\ phone[p].row \in DOMAIN outbox /\ outbox[phone[p].row].mission = m
    /\ outbox[phone[p].row].kind = "upsert" /\ phone[p].op # "delete"
    /\ phone[p].event = Nobody \/ (phone[p].event \in AppleEvents /\ event[phone[p].event].for = m)
    /\ phone[p].op = "update" \/ phone[p].at \in {"save", "settle"} =>
          phone[p].event \in AppleEvents /\ event[phone[p].event].for = m

LEMMA HeldIs ==
    ASSUME ServerFits, PhonesFit, NEW p \in Phones, NEW m \in AppleMissions, Eligible(mission[m]),
           phone[p].at # "idle", phone[p].mission = m
    PROVE  HeldFits(p, m)
<1>1. CommandFits(phone[p])
  BY DEF PhonesFit
<1>2. PICK i : i = phone[p].row
  OBVIOUS
<1>3. i \in DOMAIN outbox /\ outbox[i].mission = m
  BY <1>1, <1>2 DEF CommandFits
<1>4. outbox[i] \in Line
  BY <1>3, LineIs
<1>5. outbox[i].kind = "upsert"
  BY <1>3, <1>4 DEF ServerFits, Eligible, Line
<1> QED
  BY <1>1, <1>2, <1>3, <1>5 DEF CommandFits, HeldFits

LEMMA HeldWillBe ==
    ASSUME ServerFits', PhonesFit', NEW p \in Phones, NEW m \in AppleMissions, Eligible(mission[m])',
           phone'[p].at # "idle", phone'[p].mission = m
    PROVE  HeldFits(p, m)'
<1>1. CommandFits(phone[p])'
  BY DEF PhonesFit
<1>2. PICK i : i = phone'[p].row
  OBVIOUS
<1>3. i \in DOMAIN outbox' /\ outbox'[i].mission = m
  BY <1>1, <1>2 DEF CommandFits
<1>4. outbox'[i] \in Line
  BY <1>3 DEF ServerFits
<1>5. outbox'[i].kind = "upsert"
  BY <1>3, <1>4 DEF ServerFits, Eligible, Line
<1> QED
  BY <1>1, <1>2, <1>3, <1>5 DEF CommandFits, HeldFits

\* The events linked to a mission of the app are made for it.
LEMMA LinkedIs ==
    ASSUME ServerFits, NEW m \in AppleMissions, AppMade(m), NEW e \in LinkedEvents(m)
    PROVE  e \in AppleEvents /\ event[e].for = m
<1>1. PICK l \in eventLink : l.mission = m /\ l.event = e
  BY DEF LinkedEvents
<1> QED
  BY <1>1 DEF ServerFits

LEMMA LinkedWillBe ==
    ASSUME ServerFits', NEW m \in AppleMissions, AppMade(m)', NEW e \in LinkedEvents(m)'
    PROVE  e \in AppleEvents /\ event'[e].for = m
<1>1. PICK l \in eventLink' : l.mission = m /\ l.event = e
  BY DEF LinkedEvents
<1> QED
  BY <1>1 DEF ServerFits

\* The lines of a mission: the same, but a command may wait again.
SameLines(m) ==
    \A i \in DOMAIN outbox' : outbox'[i].mission = m =>
        /\ i \in DOMAIN outbox /\ outbox[i].mission = m /\ outbox'[i].tries = outbox[i].tries
        /\ \/ outbox'[i].at = outbox[i].at
           \/ outbox[i].at \in {"claimed", "stale"} /\ outbox'[i].at = "queued"

\* What is shown of a mission is shown still.
StillShows(m) ==
    \A e \in AppleEvents : event'[e].for = m =>
        /\ event[e].for = m
        /\ Excused(e) => Excused(e)'
        /\ Shows(e, m) => Shows(e, m)'

LEMMA NewerStays ==
    ASSUME LinesGo, NEW m, NEW i, Newer(m, i)
    PROVE  Newer(m, i)'
BY DEF LinesGo, Newer

\* A step that changes nothing of what is said of a mission, but may end a run.
LEMMA FollowedOn ==
    ASSUME CatchUpInv, ServerFits', PhonesFit', LinesGo,
           NEW m \in AppleMissions, Live(m), Live(m)',
           SameLines(m), StillShows(m), LinkedEvents(m)' = LinkedEvents(m),
           mission'[m].text = mission[m].text,
           \A p \in Phones : phone'[p].at # "idle" /\ phone'[p].mission = m =>
                             phone'[p] = phone[p] \/ (Holds(p, m)' => HolderKnows(p, m)')
    PROVE  Followed(m)'
<1>1. Followed(m) /\ ServerFits /\ PhonesFit
  BY DEF CatchUpInv
<1>2. AppMade(m)' /\ Eligible(mission[m])'
  BY DEF Live, Eligible, AppMade
<1>3. \A i \in DOMAIN outbox : i \in DOMAIN outbox' /\ outbox'[i].mission = outbox[i].mission
  BY DEF LinesGo
<1>4. InTurn(m)'
  <2> SUFFICES ASSUME NEW i \in DOMAIN outbox', outbox'[i].mission = m
               PROVE  /\ outbox'[i].at # "queued" => outbox'[i].tries > 0
                      /\ outbox'[i].at = "done" => LinkedEvents(m)' # {}
                      /\ \A j \in DOMAIN outbox' : j < i /\ outbox'[j].mission = m /\ outbox'[i].tries > 0
                                                     => outbox'[j].at = "done"
    BY DEF InTurn
  <2>1. /\ i \in DOMAIN outbox /\ outbox[i].mission = m /\ outbox'[i].tries = outbox[i].tries
        /\ outbox'[i].at # "queued" => outbox[i].at # "queued"
        /\ outbox'[i].at = "done" => outbox[i].at = "done"
    BY DEF SameLines
  <2>2. /\ outbox[i].at # "queued" => outbox[i].tries > 0
        /\ outbox[i].at = "done" => LinkedEvents(m) # {}
        /\ \A j \in DOMAIN outbox : j < i /\ outbox[j].mission = m /\ outbox[i].tries > 0
                                       => outbox[j].at = "done"
    BY <1>1, <2>1 DEF Followed, InTurn
  <2>3. ASSUME NEW j \in DOMAIN outbox', j < i, outbox'[j].mission = m, outbox'[i].tries > 0
        PROVE  outbox'[j].at = "done"
    <3>1. /\ j \in DOMAIN outbox /\ outbox[j].mission = m
          /\ outbox'[j].at = outbox[j].at \/ outbox[j].at \in {"claimed", "stale"}
      BY <2>3 DEF SameLines
    <3> QED
      BY <2>1, <2>2, <2>3, <3>1
  <2> QED
    BY <2>1, <2>2, <2>3
<1>5. UnlinkedShows(m)'
  <2> SUFFICES ASSUME LinkedEvents(m)' = {}, NEW e \in AppleEvents, event'[e].for = m
               PROVE  Shows(e, m)' \/ \E i \in DOMAIN outbox' : outbox'[i].mission = m /\ Newer(m, i)'
    BY DEF UnlinkedShows
  <2>1. /\ event[e].for = m
        /\ Shows(e, m) \/ \E i \in DOMAIN outbox : outbox[i].mission = m /\ Newer(m, i)
    BY <1>1 DEF StillShows, Followed, UnlinkedShows
  <2> QED
    BY <1>3, <2>1, NewerStays DEF StillShows
<1>6. LinkedShows(m)'
  <2> SUFFICES ASSUME \A i \in DOMAIN outbox' : outbox'[i].mission = m => ~Waiting(outbox'[i]),
                      NEW e, LinkedEvents(m)' = {e}
               PROVE  Shows(e, m)'
    BY DEF LinkedShows, Waiting
  <2>1. e \in AppleEvents /\ event'[e].for = m
    BY <1>2, LinkedWillBe
  <2>2. ASSUME NEW i \in DOMAIN outbox, outbox[i].mission = m PROVE ~Waiting(outbox[i])
    <3>1. i \in DOMAIN outbox' /\ outbox'[i].mission = m
      BY <1>3, <2>2
    <3>2. outbox'[i].at = outbox[i].at \/ outbox'[i].at = "queued"
      BY <3>1 DEF SameLines
    <3> QED
      BY <3>1, <3>2 DEF Waiting
  <2>3. Shows(e, m)
    BY <1>1, <2>2 DEF Followed, LinkedShows
  <2> QED
    BY <2>1, <2>3 DEF StillShows
<1>7. ASSUME NEW p \in Phones, Holds(p, m)'
      PROVE  HolderKnows(p, m)'
  <2> SUFFICES ASSUME phone'[p] = phone[p]
               PROVE  HolderKnows(p, m)'
    BY <1>7 DEF Holds
  <2>1. PICK c : c = phone[p] /\ c = phone'[p]
    OBVIOUS
  <2>2. c.at # "idle" /\ c.mission = m /\ outbox'[c.row].at \in {"claimed", "stale"}
        /\ outbox'[c.row].tries = c.token
    BY <1>7, <2>1 DEF Holds
  <2>3. HeldFits(p, m)'
    BY <1>2, <2>1, <2>2, HeldWillBe
  <2>4. /\ c.row \in DOMAIN outbox' /\ outbox'[c.row].mission = m
        /\ c.event = Nobody \/ (c.event \in AppleEvents /\ event'[c.event].for = m)
        /\ c.at \in {"save", "settle"} => c.event \in AppleEvents /\ event'[c.event].for = m
    BY <2>1, <2>3 DEF HeldFits
  <2>5. outbox[c.row].at = outbox'[c.row].at /\ outbox[c.row].tries = c.token
    BY <2>2, <2>4 DEF SameLines
  <2>6. Holds(p, m)
    BY <2>1, <2>2, <2>5 DEF Holds
  <2>7. HolderKnows(p, m)
    BY <1>1, <2>6 DEF Followed
  <2>8. CASE Newer(m, c.row)
    BY <2>1, <2>8, NewerStays DEF HolderKnows
  <2>9. CASE ~Newer(m, c.row)
    <3>1. /\ c.at = "apply" /\ outbox[c.row].at = "claimed" => c.text = mission[m].text
          /\ c.at \in {"save", "settle"} => Shows(c.event, m)
          /\ c.at = "apply" /\ c.op = "create" => LinkedEvents(m) = {}
          /\ outbox[c.row].at = "stale" => \A e \in AppleEvents : event[e].for = m => Excused(e)
      BY <2>1, <2>7, <2>9 DEF HolderKnows
    <3>2. c.at \in {"save", "settle"} => Shows(c.event, m)'
      BY <2>4, <3>1 DEF StillShows
    <3>3. outbox'[c.row].at = "stale" => \A e \in AppleEvents : event'[e].for = m => Excused(e)'
      BY <2>5, <3>1 DEF StillShows
    <3> QED
      BY <2>1, <2>5, <3>1, <3>2, <3>3 DEF HolderKnows
  <2> QED
    BY <2>8, <2>9
<1> QED
  BY <1>4, <1>5, <1>6, <1>7 DEF Followed

\* The mission has changed: its newest command waits, and was not tried.
LEMMA FollowedAfter ==
    ASSUME ServerFits, ServerFits', PhonesFit', EventsFit, EventsFit', LinesGo,
           NEW m \in AppleMissions, Live(m)', Live(m) => Followed(m),
           Live(m) \/ ~\E i \in DOMAIN outbox : outbox[i].mission = m,
           NEW n \in DOMAIN outbox', n \notin DOMAIN outbox, outbox'[n].mission = m,
           outbox'[n].at = "queued", outbox'[n].tries = 0,
           \A i \in DOMAIN outbox : outbox'[i] = outbox[i],
           \A i \in DOMAIN outbox' : i \in DOMAIN outbox \/ i = n,
           LinkedEvents(m) \subseteq LinkedEvents(m)',
           \A e \in AppleEvents : event'[e].for = event[e].for,
           \A p \in Phones : phone'[p] = phone[p], PhonesFit
    PROVE  Followed(m)'
<1>1. /\ \A i \in DOMAIN outbox : i < n /\ i \in DOMAIN outbox' /\ i \in Nat
      /\ n \in Nat
  BY DEF ServerFits, LinesGo
<1>2. ASSUME NEW i \in DOMAIN outbox, outbox[i].mission = m
      PROVE  /\ Live(m) /\ Followed(m)
             /\ outbox[i].at # "queued" => outbox[i].tries > 0
             /\ outbox[i].at = "done" => LinkedEvents(m) # {}
             /\ \A j \in DOMAIN outbox : j < i /\ outbox[j].mission = m /\ outbox[i].tries > 0
                                       => outbox[j].at = "done"
  BY <1>2 DEF Followed, InTurn
<1>3. InTurn(m)'
  <2> SUFFICES ASSUME NEW i \in DOMAIN outbox', outbox'[i].mission = m
               PROVE  /\ outbox'[i].at # "queued" => outbox'[i].tries > 0
                      /\ outbox'[i].at = "done" => LinkedEvents(m)' # {}
                      /\ \A j \in DOMAIN outbox' : j < i /\ outbox'[j].mission = m /\ outbox'[i].tries > 0
                                                     => outbox'[j].at = "done"
    BY DEF InTurn
  <2>1. CASE i = n
    BY <2>1
  <2>2. CASE i \in DOMAIN outbox
    <3>1. outbox'[i] = outbox[i] /\ i < n /\ i \in Nat
      BY <1>1, <2>2
    <3>2. /\ outbox[i].at # "queued" => outbox[i].tries > 0
          /\ outbox[i].at = "done" => LinkedEvents(m) # {}
          /\ \A j \in DOMAIN outbox : j < i /\ outbox[j].mission = m /\ outbox[i].tries > 0
                                       => outbox[j].at = "done"
      BY <1>2, <2>2, <3>1
    <3>3. ASSUME NEW j \in DOMAIN outbox', j < i PROVE j \in DOMAIN outbox /\ outbox'[j] = outbox[j]
      BY <1>1, <3>1, <3>3
    <3> QED
      BY <3>1, <3>2, <3>3
  <2> QED
    BY <2>1, <2>2
<1>4. ASSUME NEW i \in DOMAIN outbox, outbox[i].mission = m
      PROVE  i \in DOMAIN outbox' /\ outbox'[i].mission = m /\ Newer(m, i)'
  BY <1>1, <1>4 DEF Newer
<1>5. UnlinkedShows(m)'
  <2> SUFFICES ASSUME NEW e \in AppleEvents, event'[e].for = m
               PROVE  \E i \in DOMAIN outbox' : outbox'[i].mission = m /\ Newer(m, i)'
    BY DEF UnlinkedShows
  <2>1. event[e].for = m /\ m # Nobody
    BY NobodyAssumption
  <2>2. PICK i \in DOMAIN outbox : outbox[i].mission = m
    BY <2>1 DEF EventsFit
  <2> QED
    BY <1>4, <2>2
<1>6. LinkedShows(m)'
  BY DEF LinkedShows, Waiting
<1>7. ASSUME NEW p \in Phones, Holds(p, m)'
      PROVE  HolderKnows(p, m)'
  <2>1. PICK i : i = phone[p].row /\ phone'[p] = phone[p]
    OBVIOUS
  <2>2. phone[p].at # "idle" /\ phone[p].mission = m
    BY <1>7, <2>1 DEF Holds
  <2>3. i \in DOMAIN outbox /\ outbox[i].mission = m
    BY <2>1, <2>2 DEF PhonesFit, CommandFits
  <2> QED
    BY <1>4, <2>1, <2>3 DEF HolderKnows
<1> QED
  BY <1>3, <1>5, <1>6, <1>7 DEF Followed

\* What the parts of the invariant need of a step.
LEMMA PhonesFitOn ==
    ASSUME CatchUpInv, LinesGo, EventsGo, uploads' = [p \in Phones |-> uploads'[p]],
           \A p \in Phones : CopiesFit(p)' /\ (phone'[p] = phone[p] \/ CommandFits(phone[p])'),
           \A p, q \in Phones : p # q /\ phone'[p].at # "idle" /\ phone'[q].at # "idle"
                                /\ phone'[p].row = phone'[q].row => phone'[p].token # phone'[q].token
    PROVE  PhonesFit'
<1>1. ASSUME NEW p \in Phones PROVE CommandFits(phone[p])'
  <2>1. CASE phone'[p] = phone[p]
    <3>1. PICK c : c = phone[p] /\ c = phone'[p]
      BY <2>1
    <3>2. CommandFits(c)
      BY <3>1 DEF CatchUpInv, PhonesFit
    <3>3. CommandFits(c)'
      BY <3>2, CommandFitsOn DEF CatchUpInv
    <3> QED
      BY <3>1, <3>3
  <2> QED
    BY <2>1
<1> QED
  BY <1>1 DEF PhonesFit

\* The server's steps, and those that take a mutation from a queue.
LEMMA ServerSide ==
    ASSUME CatchUpInv, LinesGo, MissionsGo, UNCHANGED <<phone, cached, retained, event>>,
           uploads' = uploads \/ \E p \in Phones : /\ uploads[p] # << >>
                                                   /\ uploads' = [uploads EXCEPT ![p] = Tail(@)],
           link' = Connection(link'.state, link'.cutoff), link'.cutoff \in Nat,
           link'.state # "connected" /\ link'.cutoff = 0 => outbox' = << >>,
           \A l \in eventLink' : l \in eventLink \/
              /\ l = [mission |-> l.mission, event |-> l.event]
              /\ l.mission \in AppleMissions /\ l.event \in AppleEvents
              /\ mission'[l.mission].at # "none"
              /\ AppMade(l.mission)' => event'[l.event].for = l.mission
    PROVE  ServerFits' /\ EventsFit' /\ PhonesFit'
<1>1. EventsGo
  BY DEF EventsGo
<1>2. ServerFits' /\ EventsFit'
  BY <1>1, ServerFitsOn DEF CatchUpInv
<1>3. /\ uploads = [p \in Phones |-> uploads[p]]
      /\ \A p \in Phones : uploads[p] \in Seq(Entries(uploads[p]))
  BY DEF CatchUpInv, PhonesFit, CopiesFit
<1>4. /\ uploads' = [p \in Phones |-> uploads'[p]]
      /\ \A p \in Phones : /\ uploads'[p] \in Seq(Entries(uploads'[p]))
                           /\ \A u \in Entries(uploads'[p]) : u \in Entries(uploads[p])
  <2>1. CASE uploads' = uploads
    BY <1>3, <2>1
  <2>2. ASSUME NEW q \in Phones, uploads[q] # << >>, uploads' = [uploads EXCEPT ![q] = Tail(@)]
        PROVE  /\ uploads' = [p \in Phones |-> uploads'[p]]
               /\ \A p \in Phones : /\ uploads'[p] \in Seq(Entries(uploads'[p]))
                                    /\ \A u \in Entries(uploads'[p]) : u \in Entries(uploads[p])
    <3>1. PICK s : s = uploads[q] /\ s \in Seq(Entries(s)) /\ s # << >>
      BY <1>3, <2>2
    <3>2. PICK t : t = Tail(s)
      OBVIOUS
    <3>3. t \in Seq(Entries(t)) /\ \A u \in Entries(t) : u \in Entries(s)
      BY <3>1, <3>2, Left
    <3>4. uploads' = [p \in Phones |-> IF p = q THEN t ELSE uploads[p]]
      BY <1>3, <2>2, <3>1, <3>2
    <3>5. /\ uploads' = [p \in Phones |-> uploads'[p]] /\ uploads'[q] = t
          /\ \A p \in Phones : p # q => uploads'[p] = uploads[p]
      BY <3>4
    <3> QED
      BY <1>3, <3>1, <3>3, <3>5
  <2> QED
    BY <2>1, <2>2
<1>5. ASSUME NEW p \in Phones PROVE CopiesFit(p)'
  <2>1. CopiesFit(p)
    BY DEF CatchUpInv, PhonesFit
  <2> QED
    BY <1>1, <1>4, <2>1, CopiesFitOn DEF CatchUpInv
<1>6. PhonesFit'
  <2>1. \A p, q \in Phones : p # q /\ phone'[p].at # "idle" /\ phone'[q].at # "idle"
                                /\ phone'[p].row = phone'[q].row => phone'[p].token # phone'[q].token
    BY DEF CatchUpInv, PhonesFit
  <2> QED
    BY <1>1, <1>4, <1>5, <2>1, PhonesFitOn
<1> QED
  BY <1>2, <1>6

\* Before the first line there is no event of the app's missions, and no run.
LEMMA FollowedAtFirst ==
    ASSUME ServerFits, EventsFit, PhonesFit, outbox = << >>, UNCHANGED <<event, phone, eventLink>>,
           NEW m \in AppleMissions, mission[m].at = "none" \/ AppMade(m),
           \A i \in DOMAIN outbox' : outbox'[i].at = "queued" /\ outbox'[i].tries = 0
    PROVE  Followed(m)'
<1>1. \A e \in AppleEvents : event[e].for = Nobody
  BY DEF EventsFit
<1>2. m # Nobody
  BY NobodyAssumption
<1>3. LinkedEvents(m)' = {}
  <2>1. LinkedEvents(m) = {}
    <3>1. CASE mission[m].at = "none"
      BY <3>1 DEF LinkedEvents, ServerFits
    <3>2. CASE AppMade(m)
      BY <1>1, <1>2, <3>2, LinkedIs
    <3> QED
      BY <3>1, <3>2
  <2> QED
    BY <2>1 DEF LinkedEvents
<1>4. \A p \in Phones : phone[p].at = "idle"
  BY DEF PhonesFit, CommandFits
<1>5. InTurn(m)'
  BY DEF InTurn
<1>6. UnlinkedShows(m)'
  BY <1>1, <1>2 DEF UnlinkedShows
<1>7. LinkedShows(m)'
  BY <1>3 DEF LinkedShows
<1>8. \A p \in Phones : ~Holds(p, m)'
  BY <1>4 DEF Holds
<1> QED
  BY <1>5, <1>6, <1>7, <1>8 DEF Followed

\* Lines are added, or one changes its state.
LEMMA Added ==
    ASSUME outbox \in Seq(Line), NEW new \in Seq(Line), outbox' = outbox \o new
    PROVE  /\ outbox' \in Seq(Line) /\ DOMAIN outbox \subseteq DOMAIN outbox'
           /\ \A i \in DOMAIN outbox : outbox'[i] = outbox[i]
           /\ \A i \in DOMAIN outbox' \ DOMAIN outbox : outbox'[i] \in Entries(new)
<1>1. outbox' \in Seq(Line)
  BY ConcatProperties
<1>2. /\ Len(outbox') = Len(outbox) + Len(new) /\ Len(outbox) \in Nat /\ Len(new) \in Nat
      /\ DOMAIN outbox' = 1 .. Len(outbox') /\ DOMAIN outbox = 1 .. Len(outbox) /\ DOMAIN new = 1 .. Len(new)
  BY <1>1, ConcatProperties
<1>3. \A i \in 1 .. Len(outbox') : outbox'[i] = IF i <= Len(outbox) THEN outbox[i] ELSE new[i - Len(outbox)]
  BY <1>2, ConcatProperties
<1>4. \A i \in DOMAIN outbox' \ DOMAIN outbox : i - Len(outbox) \in DOMAIN new
  BY <1>2
<1> QED
  BY <1>1, <1>2, <1>3, <1>4 DEF Entries

LEMMA Changed ==
    ASSUME outbox \in Seq(Line), NEW k \in DOMAIN outbox,
           NEW a \in {"queued", "claimed", "stale", "done", "dead"}, outbox' = [outbox EXCEPT ![k].at = a]
    PROVE  /\ outbox' \in Seq(Line) /\ DOMAIN outbox' = DOMAIN outbox
           /\ \A i \in DOMAIN outbox : /\ outbox'[i].kind = outbox[i].kind
                                       /\ outbox'[i].mission = outbox[i].mission
                                       /\ outbox'[i].tries = outbox[i].tries
                                       /\ outbox'[i].at = IF i = k THEN a ELSE outbox[i].at
<1>1. PICK r : r = outbox[k] /\ r \in Line
  OBVIOUS
<1>2. PICK s : s = [r EXCEPT !.at = a]
  OBVIOUS
<1>3. s \in Line /\ s.at = a /\ s.tries = r.tries /\ s.kind = r.kind /\ s.mission = r.mission
  BY <1>1, <1>2, LineChanges
<1>4. outbox' = [outbox EXCEPT ![k] = s]
  BY <1>1, <1>2
<1>5. /\ outbox' \in Seq(Line) /\ DOMAIN outbox' = DOMAIN outbox
      /\ \A i \in DOMAIN outbox : outbox'[i] = IF i = k THEN s ELSE outbox[i]
  BY <1>3, <1>4
<1> QED
  BY <1>1, <1>3, <1>5

\* The lines after burying and passing over.
LEMMA BuriedIs ==
    ASSUME outbox \in Seq(Line)
    PROVE  /\ Buried(outbox) \in Seq(Line) /\ DOMAIN Buried(outbox) = DOMAIN outbox
           /\ Len(Buried(outbox)) = Len(outbox)
           /\ \A i \in DOMAIN outbox :
                 LET b == Buried(outbox)[i] IN
                 /\ b.kind = outbox[i].kind /\ b.mission = outbox[i].mission /\ b.tries = outbox[i].tries
                 /\ b.event = outbox[i].event
                 /\ b.at = outbox[i].at \/ b.at = "dead"
<1>1. PICK rows : rows = Buried(outbox)
  OBVIOUS
<1>2. rows = [i \in DOMAIN outbox |->
        IF outbox[i].at \in {"queued", "stale"} /\ outbox[i].tries >= MaxAttempts
        THEN [outbox[i] EXCEPT !.at = "dead"] ELSE outbox[i]]
  BY <1>1 DEF Buried
<1>3. ASSUME NEW i \in DOMAIN outbox
      PROVE  /\ rows[i] \in Line
             /\ rows[i].kind = outbox[i].kind /\ rows[i].mission = outbox[i].mission
             /\ rows[i].tries = outbox[i].tries /\ rows[i].event = outbox[i].event
             /\ rows[i].at = outbox[i].at \/ rows[i].at = "dead"
  <2>1. PICK r : r = outbox[i] /\ r \in Line
    OBVIOUS
  <2>2. PICK s : s = [r EXCEPT !.at = "dead"]
    OBVIOUS
  <2>3. s \in Line /\ s.at = "dead" /\ s.tries = r.tries /\ s.kind = r.kind /\ s.mission = r.mission
        /\ s.event = r.event
    BY <2>1, <2>2, LineChanges
  <2>4. rows[i] = r \/ rows[i] = s
    BY <1>2, <2>1, <2>2
  <2> QED
    BY <2>1, <2>3, <2>4
<1>4. PICK n \in Nat : n = Len(outbox) /\ DOMAIN outbox = 1 .. n
  OBVIOUS
<1>5. rows \in [1 .. n -> Line]
  BY <1>2, <1>3, <1>4
<1>6. rows \in Seq(Line) /\ Len(rows) = n /\ DOMAIN rows = DOMAIN outbox
  BY <1>4, <1>5
<1> QED
  BY <1>1, <1>3, <1>4, <1>6

LEMMA SkippedIs ==
    ASSUME NEW rows \in Seq(Line), NEW k \in Nat
    PROVE  /\ Skipped(rows, k) \in Seq(Line) /\ DOMAIN Skipped(rows, k) = DOMAIN rows
           /\ \A i \in DOMAIN rows :
                 LET s == Skipped(rows, k)[i] IN
                 \/ s = rows[i]
                 \/ /\ i < k /\ Claimable(rows, i) /\ s.at = "done" /\ s.tries = rows[i].tries + 1
                    /\ s.kind = rows[i].kind /\ s.mission = rows[i].mission
<1>1. PICK done : done = Skipped(rows, k)
  OBVIOUS
<1>2. done = [j \in DOMAIN rows |->
        IF j < k /\ Claimable(rows, j) THEN [rows[j] EXCEPT !.at = "done", !.tries = @ + 1]
        ELSE rows[j]]
  BY <1>1 DEF Skipped
<1>3. ASSUME NEW i \in DOMAIN rows
      PROVE  /\ done[i] \in Line
             /\ \/ done[i] = rows[i]
                \/ /\ i < k /\ Claimable(rows, i) /\ done[i].at = "done" /\ done[i].tries = rows[i].tries + 1
                   /\ done[i].kind = rows[i].kind /\ done[i].mission = rows[i].mission
  <2>1. PICK r : r = rows[i] /\ r \in Line
    OBVIOUS
  <2>2. PICK s : s = [r EXCEPT !.at = "done"]
    OBVIOUS
  <2>3. PICK t : t = [s EXCEPT !.tries = @ + 1]
    OBVIOUS
  <2>4. s \in Line /\ s.at = "done" /\ s.tries = r.tries /\ s.kind = r.kind /\ s.mission = r.mission
    BY <2>1, <2>2, LineChanges
  <2>5. t \in Line /\ t.at = "done" /\ t.tries = r.tries + 1 /\ t.kind = r.kind /\ t.mission = r.mission
    BY <2>3, <2>4, LineTried
  <2>6. t = [r EXCEPT !.at = "done", !.tries = @ + 1]
    BY <2>2, <2>3, Zenon
  <2>7. done[i] = IF i < k /\ Claimable(rows, i) THEN t ELSE r
    BY <1>2, <2>1, <2>6
  <2> QED
    BY <2>1, <2>5, <2>7
<1>4. PICK n \in Nat : n = Len(rows) /\ DOMAIN rows = 1 .. n
  OBVIOUS
<1>5. done \in [1 .. n -> Line]
  BY <1>2, <1>3, <1>4
<1>6. done \in Seq(Line) /\ DOMAIN done = DOMAIN rows
  BY <1>4, <1>5
<1> QED
  BY <1>1, <1>3, <1>6

\* A step of the server that leaves a mission, its lines and its links alone.
LEMMA LeftAlone ==
    ASSUME CatchUpInv, ServerFits', PhonesFit', LinesGo, UNCHANGED <<phone, event>>,
           NEW m \in AppleMissions, Live(m)', link.cutoff = 0, mission'[m] = mission[m],
           LinkedEvents(m)' = LinkedEvents(m),
           \A i \in DOMAIN outbox : outbox[i].mission = m => outbox'[i].at = outbox[i].at
                                                             /\ outbox'[i].tries = outbox[i].tries,
           \A i \in DOMAIN outbox' : outbox'[i].mission = m => i \in DOMAIN outbox,
           \A e \in AppleEvents : event[e].for = m => (e \in touched' <=> e \in touched)
    PROVE  Followed(m)'
<1>1. SameLines(m)
  BY DEF SameLines, LinesGo
<1>2. Live(m)
  BY DEF Live, LinesGo
<1>3. StillShows(m)
  BY DEF StillShows, Shows, Excused
<1> QED
  BY <1>1, <1>2, <1>3, FollowedOn

\* A line for the outbox.
LEMMA RowIs ==
    ASSUME NEW k \in {"upsert", "delete"}, NEW m \in AppleMissions, NEW e \in AppleEvents \cup {Nobody}
    PROVE  /\ Row(k, m, e) \in Line /\ Row(k, m, e).kind = k /\ Row(k, m, e).mission = m
           /\ Row(k, m, e).at = "queued" /\ Row(k, m, e).tries = 0
BY DEF Row, Line

\* Write: a mission that may be written is queued.
LEMMA WriteAdds ==
    ASSUME ServerFits, NEW m \in AppleMissions, NEW row, Write(m, row)
    PROVE  /\ mission' = [mission EXCEPT ![m] = row]
           /\ outbox' \in Seq(Line) /\ DOMAIN outbox \subseteq DOMAIN outbox'
           /\ \A i \in DOMAIN outbox : outbox'[i] = outbox[i]
           /\ \A i \in DOMAIN outbox' \ DOMAIN outbox :
                 /\ Eligible(row) /\ outbox'[i].kind = "upsert" /\ outbox'[i].mission = m
                 /\ outbox'[i].at = "queued" /\ outbox'[i].tries = 0
           /\ ~(Eligible(row) /\ link.state = "connected") => outbox' = outbox
           /\ Eligible(row) /\ link.state = "connected" =>
                 \E n \in DOMAIN outbox' : n \notin DOMAIN outbox
                                           /\ \A i \in DOMAIN outbox' : i \in DOMAIN outbox \/ i = n
<1>1. mission' = [mission EXCEPT ![m] = row] /\ outbox' = Queued(row, m) /\ outbox \in Seq(Line)
  BY DEF Write, ServerFits
<1>2. PICK r : r = Row("upsert", m, Nobody)
  OBVIOUS
<1>3. r \in Line /\ r.kind = "upsert" /\ r.mission = m /\ r.at = "queued" /\ r.tries = 0
  BY <1>2, RowIs
<1>4. CASE ~(Eligible(row) /\ link.state = "connected")
  BY <1>1, <1>4 DEF Queued
<1>5. CASE Eligible(row) /\ link.state = "connected"
  <2>1. outbox' = outbox \o <<r>> /\ <<r>> \in Seq(Line)
    BY <1>1, <1>2, <1>3, <1>5 DEF Queued
  <2>2. /\ outbox' \in Seq(Line) /\ DOMAIN outbox \subseteq DOMAIN outbox'
        /\ \A i \in DOMAIN outbox : outbox'[i] = outbox[i]
        /\ \A i \in DOMAIN outbox' \ DOMAIN outbox : outbox'[i] \in Entries(<<r>>)
    BY <1>1, <2>1, Added
  <2>3. \A x \in Entries(<<r>>) : x = r
    BY DEF Entries
  <2>4. PICK k \in Nat : k = Len(outbox)
    BY <1>1
  <2>5. /\ Len(outbox') = k + 1 /\ DOMAIN outbox' = 1 .. (k + 1) /\ DOMAIN outbox = 1 .. k
    BY <1>1, <2>1, <2>2, <2>4
  <2>6. k + 1 \in DOMAIN outbox' /\ k + 1 \notin DOMAIN outbox
        /\ \A i \in DOMAIN outbox' : i \in DOMAIN outbox \/ i = k + 1
    BY <2>5
  <2> QED
    BY <1>1, <1>3, <1>5, <2>2, <2>3, <2>6
<1> QED
  BY <1>4, <1>5

\* SaveMission.
LEMMA SaveFollows ==
    ASSUME CatchUpInv, MakerInv', NEW m \in AppleMissions, SaveMission(m)
    PROVE  CatchUpInv'
<1>1. PICK row : row = [at |-> "active", own |-> "app", text |-> texts', version |-> mission[m].version + 1]
  OBVIOUS
<1>2. /\ Write(m, row) /\ UNCHANGED <<phone, cached, retained, uploads, event, link, eventLink, touched>>
      /\ Eligible(mission[m]) \/ Unknown(m)
  BY <1>1 DEF SaveMission, OnServer, device, ghosts, Unknown
<1>3. Eligible(row) /\ row.at = "active" /\ row.own = "app"
  BY <1>1 DEF Eligible
<1>4. ServerFits /\ EventsFit /\ PhonesFit /\ mission = [n \in AppleMissions |-> mission[n]]
  BY DEF CatchUpInv, MakerInv, AppleShapes
<1>5. /\ mission' = [mission EXCEPT ![m] = row]
      /\ outbox' \in Seq(Line) /\ DOMAIN outbox \subseteq DOMAIN outbox'
      /\ \A i \in DOMAIN outbox : outbox'[i] = outbox[i]
      /\ \A i \in DOMAIN outbox' \ DOMAIN outbox :
            /\ outbox'[i].kind = "upsert" /\ outbox'[i].mission = m
            /\ outbox'[i].at = "queued" /\ outbox'[i].tries = 0
      /\ link.state # "connected" => outbox' = outbox
      /\ link.state = "connected" =>
            \E n \in DOMAIN outbox' : n \notin DOMAIN outbox
                                      /\ \A i \in DOMAIN outbox' : i \in DOMAIN outbox \/ i = n
  BY <1>2, <1>3, <1>4, WriteAdds
<1>6. mission'[m] = row /\ \A n \in AppleMissions : n # m => mission'[n] = mission[n]
  BY <1>4, <1>5
<1>7. LinesGo
  <2>1. \A i \in DOMAIN outbox : outbox[i].tries \in Nat
    BY <1>4, LineIs
  <2> QED
    BY <1>3, <1>5, <1>6, <2>1 DEF LinesGo
<1>8. MissionsGo
  BY <1>2, <1>3, <1>4, <1>6 DEF MissionsGo, Eligible, Unknown, ServerFits
<1>9. ServerFits' /\ EventsFit' /\ PhonesFit'
  <2>1. link' = Connection(link'.state, link'.cutoff) /\ link'.cutoff \in Nat
        /\ (link'.state # "connected" /\ link'.cutoff = 0 => outbox' = << >>)
    BY <1>2, <1>4, <1>5 DEF ServerFits
  <2> QED
    BY <1>2, <1>7, <1>8, <2>1, ServerSide
<1>10. ASSUME NEW n \in AppleMissions, Live(n)' PROVE Followed(n)'
  <2>1. link.cutoff = 0 /\ LinkedEvents(n)' = LinkedEvents(n)
    BY <1>2, <1>10 DEF Live, LinkedEvents
  <2>2. CASE n # m
    BY <1>2, <1>5, <1>6, <1>7, <1>9, <1>10, <2>1, <2>2, LeftAlone DEF LinesGo
  <2>3. CASE n = m /\ link.state # "connected"
    <3>1. outbox = << >> /\ outbox' = << >>
      BY <1>4, <1>5, <2>1, <2>3 DEF ServerFits
    <3>2. mission[m].at = "none" \/ AppMade(m)
      BY <1>2 DEF Unknown, Eligible, AppMade
    <3> QED
      BY <1>2, <1>4, <2>3, <3>1, <3>2, FollowedAtFirst
  <2>4. CASE n = m /\ link.state = "connected"
    <3>1. PICK k \in DOMAIN outbox' : k \notin DOMAIN outbox /\ \A i \in DOMAIN outbox' : i \in DOMAIN outbox \/ i = k
      BY <1>5, <2>4
    <3>2. Live(m) => Followed(m)
      BY DEF CatchUpInv
    <3>3. Live(m) \/ ~\E i \in DOMAIN outbox : outbox[i].mission = m
      <4>1. CASE Eligible(mission[m])
        BY <1>5, <1>10, <2>1, <2>4, <4>1 DEF Live
      <4>2. CASE Unknown(m)
        BY <1>4, <4>2 DEF ServerFits, Unknown
      <4> QED
        BY <1>2, <4>1, <4>2
    <3>4. outbox'[k].mission = m /\ outbox'[k].at = "queued" /\ outbox'[k].tries = 0
      BY <1>5, <3>1
    <3> QED
      BY <1>2, <1>4, <1>5, <1>7, <1>9, <1>10, <2>1, <2>4, <3>1, <3>2, <3>3, <3>4, FollowedAfter
  <2> QED
    BY <2>2, <2>3, <2>4
<1> QED
  BY <1>9, <1>10 DEF CatchUpInv

\* A mission that may be written no more, and the lines and links that go with it.
LEMMA OneGoes ==
    ASSUME CatchUpInv, MissionsGo, NEW m \in AppleMissions, ~Eligible(mission'[m]),
           \A n \in AppleMissions : n # m => mission'[n] = mission[n],
           UNCHANGED <<phone, cached, retained, event, link, touched>>,
           uploads' = uploads \/ \E p \in Phones : /\ uploads[p] # << >>
                                                   /\ uploads' = [uploads EXCEPT ![p] = Tail(@)],
           eventLink' \subseteq eventLink, \A l \in eventLink : l.mission # m => l \in eventLink',
           outbox' \in Seq(Line), DOMAIN outbox \subseteq DOMAIN outbox',
           \A i \in DOMAIN outbox : outbox'[i] = outbox[i],
           \A i \in DOMAIN outbox' \ DOMAIN outbox :
              outbox'[i].mission = m /\ mission[m].own = "app" /\ mission'[m].at = "deleted",
           link.state # "connected" /\ outbox = << >> => outbox' = << >>, MakerInv'
    PROVE  CatchUpInv'
<1>1. ServerFits /\ EventsFit /\ PhonesFit
  BY DEF CatchUpInv
<1>2. LinesGo
  <2>1. \A i \in DOMAIN outbox : outbox[i].tries \in Nat
    BY <1>1, LineIs
  <2>2. ASSUME NEW i \in DOMAIN outbox' \ DOMAIN outbox
        PROVE  /\ mission[outbox'[i].mission].own = "app" \/ mission'[outbox'[i].mission].own = "app"
               /\ mission'[outbox'[i].mission].at # "none"
               /\ outbox'[i].kind = "delete" => mission'[outbox'[i].mission].at = "deleted"
    <3>1. outbox'[i].mission = m /\ mission[m].own = "app" /\ mission'[m].at = "deleted"
      BY <2>2
    <3> QED
      BY <3>1
  <2> QED
    BY <2>1, <2>2 DEF LinesGo
<1>3. ServerFits' /\ EventsFit' /\ PhonesFit'
  <2>1. link' = Connection(link'.state, link'.cutoff) /\ link'.cutoff \in Nat
        /\ (link'.state # "connected" /\ link'.cutoff = 0 => outbox' = << >>)
    BY <1>1 DEF ServerFits
  <2> QED
    BY <1>2, <2>1, ServerSide
<1>4. ASSUME NEW n \in AppleMissions, Live(n)' PROVE Followed(n)'
  <2>1. n # m /\ link.cutoff = 0
    BY <1>4 DEF Live
  <2>2. LinkedEvents(n)' = LinkedEvents(n)
    <3>1. ASSUME NEW l PROVE l \in eventLink /\ l.mission = n <=> l \in eventLink' /\ l.mission = n
      BY <2>1
    <3>2. {x \in eventLink : x.mission = n} = {x \in eventLink' : x.mission = n}
      BY <3>1
    <3> QED
      BY <3>2, Zenon DEF LinkedEvents
  <2> QED
    BY <1>2, <1>3, <1>4, <2>1, <2>2, LeftAlone
<1> QED
  BY <1>3, <1>4 DEF CatchUpInv

\* A deletion queues a line for every link of a mission of the app.
LEMMA DeletionsAre ==
    ASSUME ServerFits, EventsFit, NEW m \in AppleMissions, NEW gone
    PROVE  /\ DeletionRows(m, gone) \in Seq(Line)
           /\ \A x \in Entries(DeletionRows(m, gone)) : x.mission = m /\ mission[m].own = "app"
           /\ outbox = << >> => DeletionRows(m, gone) = << >>
<1>1. CASE mission[m].own # "app"
  BY <1>1 DEF DeletionRows, Entries
<1>2. CASE mission[m].own = "app"
  <2>1. PICK E : E = LinkedEvents(m) \ gone
    OBVIOUS
  <2>2. PICK S : S = {Row("delete", m, e) : e \in E}
    OBVIOUS
  <2>3. PICK s : s = SetToSeq(S)
    OBVIOUS
  <2>4. DeletionRows(m, gone) = s
    BY <1>2, <2>1, <2>2, <2>3 DEF DeletionRows
  <2>5. E \subseteq AppleEvents
    BY <2>1 DEF LinkedEvents, ServerFits
  <2>6. IsFiniteSet(S)
    <3>1. IsFiniteSet(E)
      BY <2>5, FiniteAssumption, FS_Subset
    <3>2. PICK f : f = [e \in E |-> Row("delete", m, e)]
      OBVIOUS
    <3>3. f \in Surjection(E, S)
      BY <2>2, <3>2 DEF Surjection
    <3> QED
      BY <3>1, <3>3, FS_Surjection
  <2>7. s \in Seq(S)
    BY <2>3, <2>6, LinesOf
  <2>8. \A x \in S : x \in Line /\ x.mission = m
    BY <2>2, <2>5, RowIs
  <2>9. s \in Seq(Line) /\ \A x \in Entries(s) : x \in S
    <3>1. S \subseteq Line
      BY <2>8
    <3> QED
      BY <2>7, <3>1, SeqMonotonic DEF Entries
  <2>10. ASSUME outbox = << >> PROVE s = << >>
    <3>1. \A e \in AppleEvents : event[e].for = Nobody
      BY <2>10 DEF EventsFit
    <3>2. AppMade(m) /\ m # Nobody
      BY <1>2, NobodyAssumption DEF AppMade
    <3>3. E = {}
      BY <2>1, <3>1, <3>2, LinkedIs
    <3>4. S = {}
      BY <2>2, <3>3
    <3> QED
      BY <2>7, <3>4
  <2> QED
    BY <1>2, <2>4, <2>8, <2>9, <2>10
<1> QED
  BY <1>1, <1>2

\* Erase: the mission is deleted.
LEMMA EraseFollows ==
    ASSUME CatchUpInv, MakerInv', NEW m \in AppleMissions, NEW gone, Erase(m, gone),
           mission[m].at # "none",
           UNCHANGED <<phone, cached, retained, event, link, touched>>,
           uploads' = uploads \/ \E p \in Phones : /\ uploads[p] # << >>
                                                   /\ uploads' = [uploads EXCEPT ![p] = Tail(@)]
    PROVE  CatchUpInv'
<1>1. ServerFits /\ EventsFit /\ mission = [n \in AppleMissions |-> mission[n]]
  BY DEF CatchUpInv, MakerInv, AppleShapes
<1>2. PICK row : row = [AbsentMission EXCEPT !.at = "deleted"]
  OBVIOUS
<1>3. row.at = "deleted" /\ row.own = "none"
  BY <1>2 DEF AbsentMission
<1>4. /\ mission' = [mission EXCEPT ![m] = row]
      /\ eventLink' = {l \in eventLink : l.mission # m}
      /\ outbox' = outbox \o DeletionRows(m, gone)
  BY <1>2 DEF Erase
<1>5. mission'[m] = row /\ \A n \in AppleMissions : n # m => mission'[n] = mission[n]
  BY <1>1, <1>4
<1>6. /\ DeletionRows(m, gone) \in Seq(Line)
      /\ \A x \in Entries(DeletionRows(m, gone)) : x.mission = m /\ mission[m].own = "app"
      /\ outbox = << >> => DeletionRows(m, gone) = << >>
  BY <1>1, DeletionsAre
<1>7. /\ outbox' \in Seq(Line) /\ DOMAIN outbox \subseteq DOMAIN outbox'
      /\ \A i \in DOMAIN outbox : outbox'[i] = outbox[i]
      /\ \A i \in DOMAIN outbox' \ DOMAIN outbox : outbox'[i] \in Entries(DeletionRows(m, gone))
  BY <1>1, <1>4, <1>6, Added DEF ServerFits
<1>8. outbox = << >> => outbox' = << >>
  BY <1>4, <1>6
<1>9. MissionsGo
  BY <1>1, <1>3, <1>5 DEF MissionsGo, ServerFits
<1>10. ~Eligible(mission'[m])
  BY <1>3, <1>5 DEF Eligible
<1>11. eventLink' \subseteq eventLink /\ \A l \in eventLink : l.mission # m => l \in eventLink'
  BY <1>4
<1>12. \A i \in DOMAIN outbox' \ DOMAIN outbox :
              outbox'[i].mission = m /\ mission[m].own = "app" /\ mission'[m].at = "deleted"
  BY <1>3, <1>5, <1>6, <1>7
<1> QED
  BY <1>5, <1>7, <1>8, <1>9, <1>10, <1>11, <1>12, OneGoes

\* The mission is completed or cancelled.
LEMMA EndsFollow ==
    ASSUME CatchUpInv, MakerInv', NEW m \in AppleMissions, NEW x, x \in {"completed", "cancelled"},
           mission' = [mission EXCEPT ![m].at = x, ![m].version = @ + 1],
           mission[m].at \notin {"none", "deleted"},
           UNCHANGED <<phone, cached, retained, event, link, eventLink, outbox, touched>>,
           uploads' = uploads \/ \E p \in Phones : /\ uploads[p] # << >>
                                                   /\ uploads' = [uploads EXCEPT ![p] = Tail(@)]
    PROVE  CatchUpInv'
<1>2. ServerFits /\ EventsFit /\ PhonesFit /\ mission = [n \in AppleMissions |-> mission[n]]
      /\ \A n \in AppleMissions : IsRow(mission[n])
  BY DEF CatchUpInv, MakerInv, AppleShapes
<1>3. PICK r : r = mission[m] /\ IsRow(r)
  BY <1>2
<1>4. PICK s : s = [r EXCEPT !.at = x]
  OBVIOUS
<1>5. PICK row : row = [s EXCEPT !.version = @ + 1]
  OBVIOUS
<1>6. row.at = x /\ row.own = r.own
  <2>1. s = [at |-> x, own |-> r.own, text |-> r.text, version |-> r.version] /\ IsRow(s)
    BY <1>3, <1>4, RowChanges
  <2>2. row = [at |-> s.at, own |-> s.own, text |-> s.text, version |-> s.version + 1]
    BY <1>5, <2>1, RowChanges
  <2> QED
    BY <2>1, <2>2
<1>7. mission' = [mission EXCEPT ![m] = row]
  <2>3. PICK g : g = [mission EXCEPT ![m].at = x]
    OBVIOUS
  <2>4. mission' = [g EXCEPT ![m].version = @ + 1]
    BY <2>3, Zenon
  <2> QED
    BY <1>2, <1>3, <1>4, <1>5, <2>3, <2>4
<1>8. mission'[m] = row /\ \A n \in AppleMissions : n # m => mission'[n] = mission[n]
  BY <1>2, <1>7
<1>9. MissionsGo
  BY <1>2, <1>3, <1>6, <1>8 DEF MissionsGo, ServerFits
<1>10. ~Eligible(mission'[m])
  BY <1>6, <1>8 DEF Eligible
<1>11. outbox' \in Seq(Line)
  BY <1>2 DEF ServerFits
<1> QED
  BY <1>8, <1>9, <1>10, <1>11, OneGoes

\* FinishMission, RemoveMission.
LEMMA FinishFollows ==
    ASSUME CatchUpInv, MakerInv', NEW m \in AppleMissions, FinishMission(m) \/ RemoveMission(m)
    PROVE  CatchUpInv'
<1>1. UNCHANGED <<phone, cached, retained, uploads, event, link, touched>>
  BY DEF FinishMission, RemoveMission, OnServer, device, ghosts
<1>2. CASE FinishMission(m)
  <2>1. /\ mission[m].at = "active" /\ UNCHANGED <<outbox, eventLink>>
        /\ mission' = [mission EXCEPT ![m].at = "completed", ![m].version = @ + 1]
    BY <1>2 DEF FinishMission
  <2>2. mission[m].at \notin {"none", "deleted"}
    BY <2>1
  <2> QED
    BY <1>1, <2>1, <2>2, EndsFollow
<1>3. CASE RemoveMission(m)
  <2>1. Erase(m, {}) /\ mission[m].at # "none"
    BY <1>3 DEF RemoveMission
  <2> QED
    BY <1>1, <2>1, EraseFollows
<1> QED
  BY <1>2, <1>3

\* What a phone has queued.
LEMMA UploadIs ==
    ASSUME PhonesFit, NEW p \in Phones, uploads[p] # << >>, NEW u, u = Head(uploads[p])
    PROVE  /\ u.mission \in AppleMissions /\ u.event \in AppleEvents
           /\ AppMade(u.mission) => event[u.event].for = u.mission
<1>1. PICK s : s = uploads[p]
  OBVIOUS
<1>2. s \in Seq(Entries(s)) /\ s # << >> /\ u = Head(s)
  BY <1>1 DEF PhonesFit, CopiesFit
<1>3. u \in Entries(s)
  BY <1>2, Left
<1> QED
  BY <1>1, <1>3 DEF PhonesFit, CopiesFit

\* Another mission's links are left when a mission is linked.
LEMMA LinkAdds ==
    ASSUME NEW m, NEW e, eventLink' = Linked(m, e), NEW n
    PROVE  /\ LinkedEvents(n) \subseteq LinkedEvents(n)'
           /\ n # m => LinkedEvents(n)' = LinkedEvents(n)
<1> DEFINE l == [mission |-> m, event |-> e]
<1>1. l.mission = m
  OBVIOUS
<1>2. eventLink' = eventLink \cup {l}
  BY DEF Linked
<1> HIDE DEF l
<1>3. LinkedEvents(n) \subseteq LinkedEvents(n)'
  BY <1>2 DEF LinkedEvents
<1>4. ASSUME n # m PROVE LinkedEvents(n)' = LinkedEvents(n)
  <2>1. {x \in eventLink : x.mission = n} = {x \in eventLink' : x.mission = n}
    BY <1>1, <1>2, <1>4
  <2> QED
    BY <2>1, Zenon DEF LinkedEvents
<1> QED
  BY <1>3, <1>4

\* A mission is linked: the server's part.
LEMMA LinkFits ==
    ASSUME CatchUpInv, LinesGo, MissionsGo, UNCHANGED <<phone, cached, retained, event, link>>,
           NEW p \in Phones, uploads[p] # << >>, uploads' = [uploads EXCEPT ![p] = Tail(@)],
           NEW m \in AppleMissions, NEW e \in AppleEvents, eventLink' = Linked(m, e),
           mission'[m].at # "none", AppMade(m)' => event[e].for = m,
           link.state = "connected"
    PROVE  ServerFits' /\ EventsFit' /\ PhonesFit'
<1>1. link' = Connection(link'.state, link'.cutoff) /\ link'.cutoff \in Nat
      /\ (link'.state # "connected" /\ link'.cutoff = 0 => outbox' = << >>)
  BY DEF CatchUpInv, ServerFits
<1>2. ASSUME NEW l \in eventLink', l \notin eventLink
      PROVE  /\ l = [mission |-> l.mission, event |-> l.event]
             /\ l.mission \in AppleMissions /\ l.event \in AppleEvents
             /\ mission'[l.mission].at # "none"
             /\ AppMade(l.mission)' => event'[l.event].for = l.mission
  <2>1. l = [mission |-> m, event |-> e]
    BY <1>2 DEF Linked
  <2>2. l.mission = m /\ l.event = e
    BY <2>1
  <2> QED
    BY <2>1, <2>2
<1> QED
  BY <1>1, <1>2, ServerSide

\* AcceptCreate: a mission of the calendar's is not the app's.
LEMMA CreateFollows ==
    ASSUME CatchUpInv, MakerInv', NEW p \in Phones, AcceptCreate(p)
    PROVE  CatchUpInv'
<1>1. PICK u : u = Head(uploads[p])
  OBVIOUS
<1>2. PICK m, e : m = u.mission /\ e = u.event
  OBVIOUS
<1>3. PICK row : row = OrganizerRow(u.text, 1)
  OBVIOUS
<1>4. /\ uploads[p] # << >> /\ uploads' = [uploads EXCEPT ![p] = Tail(@)] /\ link.state = "connected"
      /\ UNCHANGED <<phone, cached, retained, event, link, touched>>
      /\ mission[m].at = "none" /\ Write(m, row) /\ eventLink' = Linked(m, e)
  BY <1>1, <1>2, <1>3 DEF AcceptCreate, Accepted, LinkUp
<1>5. row.at = "active" /\ row.own = "organizer" /\ ~Eligible(row)
  BY <1>3 DEF OrganizerRow, Eligible
<1>6. ServerFits /\ EventsFit /\ PhonesFit /\ mission = [n \in AppleMissions |-> mission[n]]
  BY DEF CatchUpInv, MakerInv, AppleShapes
<1>7. m \in AppleMissions /\ e \in AppleEvents
  BY <1>1, <1>2, <1>4, <1>6, UploadIs
<1>8. mission' = [mission EXCEPT ![m] = row] /\ outbox' = outbox
  BY <1>4, <1>5, <1>6, <1>7, WriteAdds
<1>9. mission'[m] = row /\ \A n \in AppleMissions : n # m => mission'[n] = mission[n]
  BY <1>6, <1>7, <1>8
<1>10. LinesGo
  <2>1. \A i \in DOMAIN outbox : outbox[i].tries \in Nat
    BY <1>6, LineIs
  <2> QED
    BY <1>6, <1>8, <2>1 DEF LinesGo, ServerFits
<1>11. MissionsGo
  BY <1>4, <1>5, <1>6, <1>9 DEF MissionsGo, ServerFits
<1>12. ~AppMade(m)'
  BY <1>4, <1>5, <1>6, <1>8, <1>9 DEF AppMade, ServerFits
<1>13. ServerFits' /\ EventsFit' /\ PhonesFit'
  BY <1>4, <1>5, <1>7, <1>9, <1>10, <1>11, <1>12, LinkFits
<1>14. ASSUME NEW n \in AppleMissions, Live(n)' PROVE Followed(n)'
  <2>1. n # m /\ link.cutoff = 0
    BY <1>4, <1>5, <1>9, <1>14 DEF Live
  <2>2. LinkedEvents(n)' = LinkedEvents(n)
    BY <1>4, <2>1, LinkAdds
  <2> QED
    BY <1>4, <1>8, <1>9, <1>10, <1>13, <1>14, <2>1, <2>2, LeftAlone
<1> QED
  BY <1>13, <1>14 DEF CatchUpInv

\* AcceptUpdate: the mission is what was read of the event, and a command is queued.
LEMMA UpdateFollows ==
    ASSUME CatchUpInv, MakerInv', NEW p \in Phones, AcceptUpdate(p)
    PROVE  CatchUpInv'
<1>1. PICK u : u = Head(uploads[p])
  OBVIOUS
<1>2. PICK m, e : m = u.mission /\ e = u.event
  OBVIOUS
<1>3. PICK r : r = mission[m]
  OBVIOUS
<1>4. PICK s : s = [r EXCEPT !.text = u.text]
  OBVIOUS
<1>5. PICK row : row = [s EXCEPT !.version = @ + 1]
  OBVIOUS
<1>6. /\ uploads[p] # << >> /\ uploads' = [uploads EXCEPT ![p] = Tail(@)] /\ link.state = "connected"
      /\ UNCHANGED <<phone, cached, retained, event, link>>
      /\ r.at \in {"active", "completed"} /\ eventLink' = Linked(m, e)
  BY <1>1, <1>2, <1>3 DEF AcceptUpdate, Accepted, LinkUp, CurrentMission
<1>7. \/ r.at = "completed" /\ UNCHANGED <<mission, outbox, touched>>
      \/ /\ Write(m, row) /\ r.at = "active"
         /\ touched' = IF event[e].text = u.text /\ event[e].for = m THEN touched \ {e} ELSE touched
  <2>1. row = [r EXCEPT !.text = u.text, !.version = @ + 1]
    BY <1>4, <1>5, Zenon
  <2>2. IF r.at = "completed" THEN UNCHANGED <<mission, outbox, touched>>
        ELSE /\ Write(m, [r EXCEPT !.text = u.text, !.version = @ + 1])
             /\ touched' = IF event[e].text = u.text /\ event[e].for = m THEN touched \ {e} ELSE touched
    BY <1>1, <1>2, <1>3, Zenon DEF AcceptUpdate, CurrentMission
  <2> QED
    BY <1>6, <2>1, <2>2, Zenon
<1>8. /\ ServerFits /\ EventsFit /\ PhonesFit /\ mission = [n \in AppleMissions |-> mission[n]]
      /\ \A n \in AppleMissions : IsRow(mission[n])
  BY DEF CatchUpInv, MakerInv, AppleShapes
<1>9. m \in AppleMissions /\ e \in AppleEvents /\ (AppMade(m) => event[e].for = m)
  BY <1>1, <1>2, <1>6, <1>8, UploadIs
<1>10. row.at = r.at /\ row.own = r.own
  <2>1. s = [at |-> r.at, own |-> r.own, text |-> u.text, version |-> r.version] /\ IsRow(s)
    BY <1>3, <1>4, <1>8, <1>9, RowChanges
  <2>2. row = [at |-> s.at, own |-> s.own, text |-> s.text, version |-> s.version + 1]
    BY <1>5, <2>1, RowChanges
  <2> QED
    BY <2>1, <2>2
<1>11. \A i \in DOMAIN outbox : outbox[i].tries \in Nat
  BY <1>8, LineIs
<1>12. ~Unknown(m)
  BY <1>3, <1>6 DEF Unknown
<1>13. CASE r.at = "completed" /\ UNCHANGED <<mission, outbox, touched>>
  <2>1. LinesGo /\ MissionsGo
    BY <1>8, <1>11, <1>13 DEF LinesGo, MissionsGo, ServerFits
  <2>2. AppMade(m)' => event[e].for = m
    BY <1>8, <1>9, <1>12, <2>1, AppMadeWas
  <2>3. ServerFits' /\ EventsFit' /\ PhonesFit'
    BY <1>3, <1>6, <1>9, <1>13, <2>1, <2>2, LinkFits
  <2>4. ASSUME NEW n \in AppleMissions, Live(n)' PROVE Followed(n)'
    <3>1. n # m /\ link.cutoff = 0
      BY <1>3, <1>6, <1>13, <2>4 DEF Live, Eligible
    <3>2. LinkedEvents(n)' = LinkedEvents(n)
      BY <1>6, <3>1, LinkAdds
    <3> QED
      BY <1>6, <1>13, <2>1, <2>3, <2>4, <3>1, <3>2, LeftAlone
  <2> QED
    BY <2>3, <2>4 DEF CatchUpInv
<1>14. CASE /\ Write(m, row) /\ r.at = "active"
            /\ touched' = IF event[e].text = u.text /\ event[e].for = m THEN touched \ {e} ELSE touched
  <2>1. /\ mission' = [mission EXCEPT ![m] = row]
        /\ outbox' \in Seq(Line) /\ DOMAIN outbox \subseteq DOMAIN outbox'
        /\ \A i \in DOMAIN outbox : outbox'[i] = outbox[i]
        /\ \A i \in DOMAIN outbox' \ DOMAIN outbox :
              /\ Eligible(row) /\ outbox'[i].kind = "upsert" /\ outbox'[i].mission = m
              /\ outbox'[i].at = "queued" /\ outbox'[i].tries = 0
        /\ Eligible(row) /\ link.state = "connected" =>
              \E n \in DOMAIN outbox' : n \notin DOMAIN outbox
                                        /\ \A i \in DOMAIN outbox' : i \in DOMAIN outbox \/ i = n
    BY <1>8, <1>9, <1>14, WriteAdds
  <2>2. mission'[m] = row /\ \A n \in AppleMissions : n # m => mission'[n] = mission[n]
    BY <1>8, <1>9, <2>1
  <2>3. LinesGo
    <3>1. \A i \in DOMAIN outbox' \ DOMAIN outbox : mission'[outbox'[i].mission] = row
      BY <2>1, <2>2
    <3> QED
      BY <1>10, <1>11, <1>14, <2>1, <3>1 DEF LinesGo, Eligible
  <2>4. MissionsGo
    BY <1>3, <1>8, <1>10, <1>14, <2>2 DEF MissionsGo, ServerFits
  <2>5. AppMade(m)' => event[e].for = m
    BY <1>8, <1>9, <1>12, <2>3, <2>4, AppMadeWas
  <2>6. ServerFits' /\ EventsFit' /\ PhonesFit'
    BY <1>6, <1>9, <1>10, <1>14, <2>2, <2>3, <2>4, <2>5, LinkFits
  <2>7. ASSUME NEW n \in AppleMissions, Live(n)' PROVE Followed(n)'
    <3>1. link.cutoff = 0 /\ LinkedEvents(n) \subseteq LinkedEvents(n)' /\ (n # m => LinkedEvents(n)' = LinkedEvents(n))
      BY <1>6, <2>7, LinkAdds DEF Live
    <3>2. CASE n # m
      <4>1. \A f \in AppleEvents : event[f].for = n => (f \in touched' <=> f \in touched)
        BY <1>14, <3>2
      <4> QED
        BY <1>6, <2>1, <2>2, <2>3, <2>6, <2>7, <3>1, <3>2, <4>1, LeftAlone
    <3>3. CASE n = m
      <4>1. Eligible(row) /\ Eligible(mission[m])
        BY <1>3, <1>10, <2>2, <2>7, <3>3 DEF Live, Eligible
      <4>2. PICK k \in DOMAIN outbox' : k \notin DOMAIN outbox /\ \A i \in DOMAIN outbox' : i \in DOMAIN outbox \/ i = k
        BY <1>6, <2>1, <4>1
      <4>3. outbox'[k].mission = m /\ outbox'[k].at = "queued" /\ outbox'[k].tries = 0
        BY <2>1, <4>2
      <4>4. Live(m) /\ Followed(m)
        <5>1. Live(m)
          BY <2>1, <2>7, <3>1, <3>3, <4>1 DEF Live
        <5> QED
          BY <1>9, <5>1 DEF CatchUpInv
      <4> QED
        BY <1>6, <1>8, <1>9, <2>1, <2>3, <2>6, <2>7, <3>1, <3>3, <4>2, <4>3, <4>4, FollowedAfter
    <3> QED
      BY <3>2, <3>3
  <2> QED
    BY <2>6, <2>7 DEF CatchUpInv
<1> QED
  BY <1>7, <1>13, <1>14

\* AcceptDelete: the mission is deleted or cancelled, or stays completed.
LEMMA DeleteFollows ==
    ASSUME CatchUpInv, MakerInv', NEW p \in Phones, AcceptDelete(p)
    PROVE  CatchUpInv'
<1>1. PICK u : u = Head(uploads[p])
  OBVIOUS
<1>2. PICK m, e : m = u.mission /\ e = u.event
  OBVIOUS
<1>3. /\ uploads[p] # << >> /\ uploads' = [uploads EXCEPT ![p] = Tail(@)] /\ touched' = touched
      /\ UNCHANGED <<phone, cached, retained, event, link>>
      /\ mission[m].at \in {"active", "completed", "cancelled"}
      /\ \/ mission[m].at = "completed" /\ UNCHANGED <<mission, eventLink, outbox>>
         \/ Erase(m, {e})
         \/ /\ mission' = [mission EXCEPT ![m].at = "cancelled", ![m].version = @ + 1]
            /\ UNCHANGED <<eventLink, outbox>>
  BY <1>1, <1>2 DEF AcceptDelete, Accepted, CurrentMission
<1>4. PhonesFit /\ ServerFits
  BY DEF CatchUpInv
<1>5. m \in AppleMissions
  BY <1>1, <1>2, <1>3, <1>4, UploadIs
<1>6. CASE mission[m].at = "completed" /\ UNCHANGED <<mission, eventLink, outbox>>
  <2>1. MissionsGo /\ ~Eligible(mission'[m]) /\ outbox' \in Seq(Line)
    BY <1>4, <1>6 DEF MissionsGo, Eligible, ServerFits
  <2> QED
    BY <1>3, <1>5, <1>6, <2>1, OneGoes
<1>7. CASE Erase(m, {e})
  <2>1. mission[m].at # "none"
    BY <1>3
  <2> QED
    BY <1>3, <1>5, <1>7, <2>1, EraseFollows
<1>8. CASE /\ mission' = [mission EXCEPT ![m].at = "cancelled", ![m].version = @ + 1]
           /\ UNCHANGED <<eventLink, outbox>>
  <2>1. mission[m].at \notin {"none", "deleted"}
    BY <1>3
  <2> QED
    BY <1>3, <1>5, <1>8, <2>1, EndsFollow
<1> QED
  BY <1>3, <1>6, <1>7, <1>8

\* ConnectApple: while nothing was queued before, nothing is in the calendar.
LEMMA ConnectFollows ==
    ASSUME CatchUpInv, MakerInv', NEW export \in BOOLEAN, ConnectApple(export)
    PROVE  CatchUpInv'
<1>1. ServerFits /\ EventsFit /\ PhonesFit
  BY DEF CatchUpInv
<1>2. /\ link.state # "connected" /\ link' = [link EXCEPT !.state = "connected"]
      /\ UNCHANGED <<phone, cached, retained, uploads, event, mission, eventLink, touched>>
  BY DEF ConnectApple, OnServer, device, ghosts
<1>3. link'.state = "connected" /\ link'.cutoff = link.cutoff /\ link.cutoff \in Nat
      /\ link' = Connection("connected", link.cutoff)
  <2>1. PICK s, c : link = [state |-> s, cutoff |-> c] /\ c = link.cutoff /\ c \in Nat
    BY <1>1 DEF ServerFits, Connection
  <2> QED
    BY <1>2, <2>1 DEF Connection
<1>4. PICK X : X = {x \in AppleMissions : Eligible(mission[x])
                             /\ \A i \in DOMAIN outbox : outbox[i].mission # x
                                   \/ outbox[i].kind # "upsert" \/ ~Waiting(outbox[i])}
  OBVIOUS
<1>5. PICK S : S = {Row("upsert", m, Nobody) : m \in X}
  OBVIOUS
<1>6. PICK new : new = IF export THEN SetToSeq(S) ELSE << >>
  OBVIOUS
<1>7. outbox' = outbox \o new
  BY <1>4, <1>5, <1>6 DEF ConnectApple
<1>8. X \subseteq AppleMissions /\ \A m \in X : Eligible(mission[m])
  BY <1>4
<1>9. IsFiniteSet(S)
  <2>1. IsFiniteSet(X)
    BY <1>8, FiniteAssumption, FS_Subset
  <2>2. PICK f : f = [m \in X |-> Row("upsert", m, Nobody)]
    OBVIOUS
  <2>3. f \in Surjection(X, S)
    BY <1>5, <2>2 DEF Surjection
  <2> QED
    BY <2>1, <2>3, FS_Surjection
<1>10. \A x \in S : /\ x \in Line /\ x.kind = "upsert" /\ x.at = "queued" /\ x.tries = 0
                    /\ Eligible(mission[x.mission])
  BY <1>5, <1>8, RowIs
<1>11. new \in Seq(Line) /\ \A x \in Entries(new) : x \in S
  <2>1. SetToSeq(S) \in Seq(S) /\ S \subseteq Line
    BY <1>9, <1>10, LinesOf
  <2>2. new \in Seq(S)
    BY <1>6, <2>1
  <2> QED
    BY <2>1, <2>2, SeqMonotonic DEF Entries
<1>12. /\ outbox' \in Seq(Line) /\ DOMAIN outbox \subseteq DOMAIN outbox'
       /\ \A i \in DOMAIN outbox : outbox'[i] = outbox[i]
       /\ \A i \in DOMAIN outbox' \ DOMAIN outbox : outbox'[i] \in S
  BY <1>1, <1>7, <1>11, Added DEF ServerFits
<1>13. LinesGo
  <2>1. \A i \in DOMAIN outbox : outbox[i].tries \in Nat
    BY <1>1, LineIs
  <2>2. \A i \in DOMAIN outbox' \ DOMAIN outbox :
           outbox'[i].kind = "upsert" /\ Eligible(mission[outbox'[i].mission])
    BY <1>10, <1>12
  <2> QED
    BY <1>2, <1>12, <2>1, <2>2 DEF LinesGo, Eligible
<1>14. MissionsGo
  BY <1>1, <1>2 DEF MissionsGo, ServerFits
<1>15. ServerFits' /\ EventsFit' /\ PhonesFit'
  <2>1. link' = Connection(link'.state, link'.cutoff) /\ link'.cutoff \in Nat
        /\ (link'.state # "connected" /\ link'.cutoff = 0 => outbox' = << >>)
    BY <1>3
  <2> QED
    BY <1>2, <1>13, <1>14, <2>1, ServerSide
<1>16. ASSUME NEW n \in AppleMissions, Live(n)' PROVE Followed(n)'
  <2>1. outbox = << >>
    BY <1>1, <1>2, <1>3, <1>16 DEF Live, ServerFits
  <2>2. AppMade(n)
    BY <1>2, <1>16 DEF Live, Eligible, AppMade
  <2>3. \A i \in DOMAIN outbox' : outbox'[i].at = "queued" /\ outbox'[i].tries = 0
    BY <1>10, <1>12, <2>1
  <2> QED
    BY <1>1, <1>2, <2>1, <2>2, <2>3, FollowedAtFirst
<1> QED
  BY <1>15, <1>16 DEF CatchUpInv

\* DisconnectApple: what was queued is over.
LEMMA DisconnectFollows ==
    ASSUME CatchUpInv, MakerInv', DisconnectApple
    PROVE  CatchUpInv'
<1>1. ServerFits /\ EventsFit /\ PhonesFit /\ outbox \in Seq(Line)
  BY DEF CatchUpInv, ServerFits
<1>2. PICK n \in Nat : n = Len(outbox) /\ DOMAIN outbox = 1 .. n
  BY <1>1
<1>3. /\ link' = Connection("disconnected", n)
      /\ UNCHANGED <<phone, cached, retained, uploads, event, mission, eventLink, touched>>
      /\ outbox' = [i \in DOMAIN outbox |->
                    IF outbox[i].at = "dead" THEN outbox[i] ELSE [outbox[i] EXCEPT !.at = "done"]]
  BY <1>2 DEF DisconnectApple, OnServer, device, ghosts
<1>4. link'.state = "disconnected" /\ link'.cutoff = n /\ link' = Connection(link'.state, link'.cutoff)
  BY <1>3 DEF Connection
<1>5. ASSUME NEW i \in DOMAIN outbox
      PROVE  /\ outbox'[i] \in Line /\ outbox'[i].kind = outbox[i].kind
             /\ outbox'[i].mission = outbox[i].mission /\ outbox'[i].tries = outbox[i].tries
             /\ outbox[i].tries \in Nat
  <2>1. PICK r : r = outbox[i] /\ r \in Line
    BY <1>1
  <2>2. PICK s : s = [r EXCEPT !.at = "done"]
    OBVIOUS
  <2>3. s \in Line /\ s.tries = r.tries /\ s.kind = r.kind /\ s.mission = r.mission
    BY <2>1, <2>2, LineChanges
  <2>4. outbox'[i] = r \/ outbox'[i] = s
    BY <1>3, <2>1, <2>2
  <2>5. r.tries \in Nat
    BY <2>1 DEF Line
  <2> QED
    BY <2>1, <2>3, <2>4, <2>5
<1>6. outbox' \in [1 .. n -> Line]
  BY <1>2, <1>3, <1>5
<1>7. outbox' \in Seq(Line) /\ DOMAIN outbox' = DOMAIN outbox /\ Len(outbox') = n
  BY <1>2, <1>6
<1>8. LinesGo
  BY <1>5, <1>7 DEF LinesGo
<1>9. MissionsGo
  BY <1>1, <1>3 DEF MissionsGo, ServerFits
<1>10. n = 0 => outbox = << >> /\ outbox' = << >>
  BY <1>1, <1>2, <1>7
<1>11. ServerFits' /\ EventsFit' /\ PhonesFit'
  BY <1>3, <1>4, <1>8, <1>9, <1>10, ServerSide
<1>12. ASSUME NEW m \in AppleMissions, Live(m)' PROVE Followed(m)'
  <2>1. outbox = << >> /\ outbox' = << >>
    BY <1>4, <1>10, <1>12 DEF Live
  <2>2. AppMade(m)
    BY <1>3, <1>12 DEF Live, Eligible, AppMade
  <2>3. \A i \in DOMAIN outbox' : outbox'[i].at = "queued" /\ outbox'[i].tries = 0
    BY <2>1
  <2> QED
    BY <1>1, <1>3, <2>1, <2>2, <2>3, FollowedAtFirst
<1> QED
  BY <1>11, <1>12 DEF CatchUpInv

\* Steps that change the state of lines: the server's part.
LEMMA OutboxFits ==
    ASSUME CatchUpInv, UNCHANGED <<phone, cached, retained, uploads, event, mission, eventLink, link>>,
           outbox' \in Seq(Line), DOMAIN outbox' = DOMAIN outbox, link.state = "connected" \/ outbox # << >>,
           \A i \in DOMAIN outbox : /\ outbox'[i].kind = outbox[i].kind
                                    /\ outbox'[i].mission = outbox[i].mission
                                    /\ outbox[i].tries <= outbox'[i].tries
    PROVE  LinesGo /\ ServerFits' /\ EventsFit' /\ PhonesFit'
<1>1. ServerFits
  BY DEF CatchUpInv
<1>2. LinesGo /\ MissionsGo
  BY <1>1 DEF LinesGo, MissionsGo, ServerFits
<1>3. link' = Connection(link'.state, link'.cutoff) /\ link'.cutoff \in Nat
      /\ (link'.state # "connected" /\ link'.cutoff = 0 => outbox' = << >>)
  BY <1>1 DEF ServerFits
<1> QED
  BY <1>2, <1>3, ServerSide

\* PassOver: only commands of missions that are not written any more are passed over.
LEMMA PassFollows ==
    ASSUME CatchUpInv, MakerInv', NEW p \in Phones, PassOver(p)
    PROVE  CatchUpInv'
<1>1. ServerFits /\ outbox \in Seq(Line)
  BY DEF CatchUpInv, ServerFits
<1>2. PICK rows : rows = Buried(outbox)
  OBVIOUS
<1>3. /\ rows \in Seq(Line) /\ DOMAIN rows = DOMAIN outbox /\ Len(rows) \in Nat
      /\ \A i \in DOMAIN outbox :
            /\ rows[i].kind = outbox[i].kind /\ rows[i].mission = outbox[i].mission
            /\ rows[i].tries = outbox[i].tries
            /\ rows[i].at = outbox[i].at \/ rows[i].at = "dead"
  BY <1>1, <1>2, BuriedIs
<1>4. /\ link.state = "connected" /\ outbox' = Skipped(rows, Len(rows) + 1)
      /\ \A i \in DOMAIN rows : Claimable(rows, i) => Idle(rows[i])
      /\ UNCHANGED <<phone, cached, retained, uploads, event, mission, eventLink, link, touched>>
  BY <1>2 DEF PassOver, LinkUp, device, ghosts
<1>5. /\ outbox' \in Seq(Line) /\ DOMAIN outbox' = DOMAIN outbox
      /\ \A i \in DOMAIN rows :
            \/ outbox'[i] = rows[i]
            \/ /\ Claimable(rows, i) /\ outbox'[i].at = "done" /\ outbox'[i].tries = rows[i].tries + 1
               /\ outbox'[i].kind = rows[i].kind /\ outbox'[i].mission = rows[i].mission
  <2>1. PICK k \in Nat : k = Len(rows) + 1
    BY <1>3
  <2> QED
    BY <1>3, <1>4, <2>1, SkippedIs
<1>6. \A i \in DOMAIN outbox : outbox[i].tries \in Nat
  BY <1>1, LineIs
<1>7. \A i \in DOMAIN outbox : /\ outbox'[i].kind = outbox[i].kind
                               /\ outbox'[i].mission = outbox[i].mission
                               /\ outbox[i].tries <= outbox'[i].tries
  BY <1>3, <1>5, <1>6
<1>8. LinesGo /\ ServerFits' /\ EventsFit' /\ PhonesFit'
  BY <1>4, <1>5, <1>7, OutboxFits
<1>9. ASSUME NEW n \in AppleMissions, Live(n)' PROVE Followed(n)'
  <2>1. link.cutoff = 0 /\ LinkedEvents(n)' = LinkedEvents(n) /\ Eligible(mission[n])
    BY <1>4, <1>9 DEF Live, LinkedEvents
  <2>2. ASSUME NEW i \in DOMAIN outbox, outbox[i].mission = n
        PROVE  outbox'[i].at = outbox[i].at /\ outbox'[i].tries = outbox[i].tries
    <3>1. outbox'[i].mission = n /\ outbox'[i].at # "dead" /\ rows[i].mission = n
      BY <1>3, <1>5, <1>7, <1>9, <2>2 DEF Live
    <3>2. outbox'[i] = rows[i]
      BY <1>3, <1>4, <1>5, <2>1, <2>2, <3>1 DEF Idle
    <3> QED
      BY <1>3, <2>2, <3>1, <3>2
  <2>3. UNCHANGED <<phone, event, mission>> /\ \A i \in DOMAIN outbox' : i \in DOMAIN outbox
    BY <1>4, <1>5
  <2> QED
    BY <1>4, <1>8, <1>9, <2>1, <2>2, <2>3, LeftAlone
<1> QED
  BY <1>8, <1>9 DEF CatchUpInv

\* ClaimTimesOut: what a phone still at work may write is excused.
LEMMA TimeoutFollows ==
    ASSUME CatchUpInv, MakerInv', NEW k \in DOMAIN outbox, ClaimTimesOut(k)
    PROVE  CatchUpInv'
<1>1. ServerFits /\ outbox \in Seq(Line) /\ PhonesFit
  BY DEF CatchUpInv, ServerFits
<1>2. /\ outbox[k].at = "claimed" /\ outbox' = [outbox EXCEPT ![k].at = "stale"]
      /\ UNCHANGED <<phone, cached, retained, uploads, event, mission, eventLink, link>>
      /\ touched' = touched \cup {e \in AppleEvents : \E p \in Phones :
                      phone[p].at # "idle" /\ phone[p].row = k /\ event[e].for = outbox[k].mission}
  BY DEF ClaimTimesOut, OnServer, device
<1>3. /\ outbox' \in Seq(Line) /\ DOMAIN outbox' = DOMAIN outbox
      /\ \A i \in DOMAIN outbox : /\ outbox'[i].kind = outbox[i].kind
                                  /\ outbox'[i].mission = outbox[i].mission
                                  /\ outbox'[i].tries = outbox[i].tries
                                  /\ outbox'[i].at = IF i = k THEN "stale" ELSE outbox[i].at
  BY <1>1, <1>2, Changed
<1>4. \A i \in DOMAIN outbox : outbox[i].tries \in Nat
  BY <1>1, LineIs
<1>5. LinesGo /\ ServerFits' /\ EventsFit' /\ PhonesFit'
  <2>1. \A i \in DOMAIN outbox : /\ outbox'[i].kind = outbox[i].kind
                                 /\ outbox'[i].mission = outbox[i].mission
                                 /\ outbox[i].tries <= outbox'[i].tries
    BY <1>3, <1>4
  <2>2. outbox # << >>
    OBVIOUS
  <2> QED
    BY <1>2, <1>3, <2>1, <2>2, OutboxFits
<1>6. ASSUME NEW n \in AppleMissions, Live(n)' PROVE Followed(n)'
  <2>1. link.cutoff = 0 /\ LinkedEvents(n)' = LinkedEvents(n)
    BY <1>2, <1>6 DEF Live, LinkedEvents
  <2>2. CASE outbox[k].mission # n
    <3>1. \A i \in DOMAIN outbox : outbox[i].mission = n => outbox'[i].at = outbox[i].at
                                                             /\ outbox'[i].tries = outbox[i].tries
      BY <1>3, <2>2
    <3>2. \A e \in AppleEvents : event[e].for = n => (e \in touched' <=> e \in touched)
      BY <1>2, <2>2
    <3>3. UNCHANGED <<phone, event, mission>> /\ \A i \in DOMAIN outbox' : i \in DOMAIN outbox
      BY <1>2, <1>3
    <3> QED
      BY <1>5, <1>6, <2>1, <3>1, <3>2, <3>3, LeftAlone
  <2>3. CASE outbox[k].mission = n
    <3>1. Live(n)
      BY <1>2, <1>3, <1>6 DEF Live
    <3>2. Followed(n)
      BY <3>1 DEF CatchUpInv
    <3>3. InTurn(n)'
      <4>1. InTurn(n)
        BY <3>2 DEF Followed
      <4> QED
        BY <1>2, <1>3, <2>1, <4>1 DEF InTurn
    <3>4. \A e \in AppleEvents : /\ Excused(e) => Excused(e)'
                                 /\ Shows(e, n) => Shows(e, n)'
      BY <1>2 DEF Excused, Shows
    <3>5. \A i : Newer(n, i)' <=> Newer(n, i)
      BY <1>3 DEF Newer
    <3>6. UnlinkedShows(n)'
      <4>1. UnlinkedShows(n)
        BY <3>2 DEF Followed
      <4> QED
        BY <1>2, <1>3, <2>1, <3>4, <3>5, <4>1 DEF UnlinkedShows
    <3>7. LinkedShows(n)'
      BY <1>3, <2>3 DEF LinkedShows, Waiting
    <3>8. ASSUME NEW p \in Phones, Holds(p, n)' PROVE HolderKnows(p, n)'
      <4>1. PICK i : i = phone[p].row
        OBVIOUS
      <4>2. phone[p].at # "idle" /\ phone[p].mission = n
        BY <1>2, <3>8 DEF Holds
      <4>3. HeldFits(p, n)
        BY <1>1, <3>1, <4>2, HeldIs DEF Live
      <4>4. i \in DOMAIN outbox /\ outbox[i].mission = n
            /\ (phone[p].at \in {"save", "settle"} => phone[p].event \in AppleEvents)
        BY <4>1, <4>3 DEF HeldFits
      <4>5. Holds(p, n)
        BY <1>2, <1>3, <3>8, <4>1, <4>4 DEF Holds
      <4>6. HolderKnows(p, n)
        BY <3>2, <4>5 DEF Followed
      <4>7. CASE i = k
        <5>1. outbox'[i].at = "stale" /\ \A e \in AppleEvents : event[e].for = n => Excused(e)'
          BY <1>2, <1>3, <2>3, <4>1, <4>2, <4>4, <4>7 DEF Excused
        <5> QED
          BY <1>2, <2>1, <3>4, <3>5, <4>1, <4>4, <4>6, <5>1 DEF HolderKnows
      <4>8. CASE i # k
        <5>1. outbox'[i].at = outbox[i].at
          BY <1>3, <4>4, <4>8
        <5> QED
          BY <1>2, <2>1, <3>4, <3>5, <4>1, <4>4, <4>6, <5>1 DEF HolderKnows
      <4> QED
        BY <4>7, <4>8
    <3> QED
      BY <3>3, <3>6, <3>7, <3>8 DEF Followed
  <2> QED
    BY <2>2, <2>3
<1> QED
  BY <1>5, <1>6 DEF CatchUpInv

\* The phones' steps: the part of the server, and of the command that is run.
LEMMA PhoneSide ==
    ASSUME CatchUpInv, LinesGo, EventsGo, UNCHANGED <<mission, link, cached, uploads>>,
           DOMAIN outbox' = DOMAIN outbox,
           NEW p \in Phones, NEW c, phone' = [phone EXCEPT ![p] = c], CommandFits(c)',
           \A q \in Phones : q # p /\ c.at # "idle" /\ phone[q].at # "idle" /\ phone[q].row = c.row
                             => phone[q].token # c.token,
           \A q \in Phones : q # p => retained'[q] = retained[q],
           \A m \in DOMAIN retained'[p] :
              \/ m \in DOMAIN retained[p] /\ retained'[p][m] = retained[p][m]
              \/ /\ m \in AppleMissions /\ retained'[p][m] \in AppleEvents
                 /\ AppMade(m)' => event'[retained'[p][m]].for = m,
           \A l \in eventLink' : l \in eventLink \/
              /\ l = [mission |-> l.mission, event |-> l.event]
              /\ l.mission \in AppleMissions /\ l.event \in AppleEvents
              /\ mission'[l.mission].at # "none"
              /\ AppMade(l.mission)' => event'[l.event].for = l.mission
    PROVE  /\ ServerFits' /\ EventsFit' /\ PhonesFit'
           /\ phone'[p] = c /\ \A q \in Phones : q # p => phone'[q] = phone[q]
<1>1. /\ ServerFits /\ EventsFit /\ PhonesFit /\ MakerInv
      /\ phone = [q \in Phones |-> phone[q]]
  BY DEF CatchUpInv, MakerInv, AppleShapes
<1>2. phone'[p] = c /\ \A q \in Phones : q # p => phone'[q] = phone[q]
  BY <1>1
<1>3. MissionsGo
  BY <1>1 DEF MissionsGo, ServerFits
<1>4. link' = Connection(link'.state, link'.cutoff) /\ link'.cutoff \in Nat
      /\ (link'.state # "connected" /\ link'.cutoff = 0 => outbox' = << >>)
  BY <1>1 DEF ServerFits, LinesGo
<1>5. ServerFits' /\ EventsFit'
  BY <1>1, <1>3, <1>4, ServerFitsOn
<1>6. ASSUME NEW q \in Phones PROVE CopiesFit(q)'
  <2>1. CopiesFit(q)
    BY <1>1 DEF PhonesFit
  <2>2. \A m \in DOMAIN retained'[q] :
              \/ m \in DOMAIN retained[q] /\ retained'[q][m] = retained[q][m]
              \/ /\ m \in AppleMissions /\ retained'[q][m] \in AppleEvents
                 /\ AppMade(m)' => event'[retained'[q][m]].for = m
    OBVIOUS
  <2>3. uploads'[q] \in Seq(Entries(uploads'[q]))
    BY <2>1 DEF CopiesFit
  <2> QED
    BY <1>1, <1>3, <2>1, <2>2, <2>3, CopiesFitOn
<1>7. \A q \in Phones : phone'[q] = phone[q] \/ CommandFits(phone[q])'
  BY <1>2
<1>8. \A q, r \in Phones : q # r /\ phone'[q].at # "idle" /\ phone'[r].at # "idle"
                           /\ phone'[q].row = phone'[r].row => phone'[q].token # phone'[r].token
  BY <1>1, <1>2 DEF PhonesFit
<1>9. PhonesFit'
  <2>1. uploads' = [q \in Phones |-> uploads'[q]]
    BY <1>1 DEF PhonesFit
  <2> QED
    BY <1>6, <1>7, <1>8, <2>1, PhonesFitOn
<1> QED
  BY <1>2, <1>5, <1>9

\* A run is over, and the command may wait again.
LEMMA FailFollows ==
    ASSUME CatchUpInv, MakerInv', NEW p \in Phones, phone' = [phone EXCEPT ![p] = NoCommand],
           UNCHANGED <<mission, link, eventLink, cached, retained, uploads, event, touched>>,
           \/ outbox' = outbox
           \/ \E k \in DOMAIN outbox : /\ outbox[k].at \in {"claimed", "stale"}
                                       /\ outbox' = [outbox EXCEPT ![k].at = "queued"]
    PROVE  CatchUpInv'
<1>1. ServerFits /\ EventsFit /\ PhonesFit /\ outbox \in Seq(Line)
  BY DEF CatchUpInv, ServerFits
<1>2. \A i \in DOMAIN outbox : outbox[i].tries \in Nat
  BY <1>1, LineIs
<1>3. /\ outbox' \in Seq(Line) /\ DOMAIN outbox' = DOMAIN outbox
      /\ \A i \in DOMAIN outbox : /\ outbox'[i].kind = outbox[i].kind
                                  /\ outbox'[i].mission = outbox[i].mission
                                  /\ outbox'[i].tries = outbox[i].tries
                                  /\ \/ outbox'[i].at = outbox[i].at
                                     \/ outbox[i].at \in {"claimed", "stale"} /\ outbox'[i].at = "queued"
  <2>1. CASE outbox' = outbox
    BY <1>1, <2>1
  <2>2. ASSUME NEW k \in DOMAIN outbox, outbox[k].at \in {"claimed", "stale"},
               outbox' = [outbox EXCEPT ![k].at = "queued"]
        PROVE  /\ outbox' \in Seq(Line) /\ DOMAIN outbox' = DOMAIN outbox
               /\ \A i \in DOMAIN outbox :
                     /\ outbox'[i].kind = outbox[i].kind
                     /\ outbox'[i].mission = outbox[i].mission
                     /\ outbox'[i].tries = outbox[i].tries
                     /\ \/ outbox'[i].at = outbox[i].at
                        \/ outbox[i].at \in {"claimed", "stale"} /\ outbox'[i].at = "queued"
    <3>1. PICK a : a = "queued" /\ a \in {"queued", "claimed", "stale", "done", "dead"}
      OBVIOUS
    <3>2. outbox' = [outbox EXCEPT ![k].at = a]
      BY <2>2, <3>1, Zenon
    <3>3. /\ outbox' \in Seq(Line) /\ DOMAIN outbox' = DOMAIN outbox
          /\ \A i \in DOMAIN outbox :
                 /\ outbox'[i].kind = outbox[i].kind
                 /\ outbox'[i].mission = outbox[i].mission
                 /\ outbox'[i].tries = outbox[i].tries
                 /\ outbox'[i].at = IF i = k THEN a ELSE outbox[i].at
      BY ONLY <1>1, <3>1, <3>2, k \in DOMAIN outbox, Changed
    <3> QED
      BY <2>2, <3>1, <3>3
  <2> QED
    BY <2>1, <2>2
<1>4. LinesGo
  BY <1>2, <1>3 DEF LinesGo
<1>5. EventsGo
  BY DEF EventsGo
<1>6. PICK c : c = NoCommand
  OBVIOUS
<1>7. c.at = "idle" /\ CommandFits(c)' /\ phone' = [phone EXCEPT ![p] = c]
  BY <1>6 DEF NoCommand, CommandFits
<1>8. /\ ServerFits' /\ EventsFit' /\ PhonesFit'
      /\ phone'[p] = c /\ \A q \in Phones : q # p => phone'[q] = phone[q]
  BY <1>3, <1>4, <1>5, <1>7, PhoneSide
<1>9. ASSUME NEW n \in AppleMissions, Live(n)' PROVE Followed(n)'
  <2>1. SameLines(n) /\ Live(n)
    BY <1>3, <1>9 DEF SameLines, Live
  <2>2. StillShows(n) /\ LinkedEvents(n)' = LinkedEvents(n)
    BY DEF StillShows, Excused, Shows, LinkedEvents
  <2>3. \A q \in Phones : phone'[q].at # "idle" => phone'[q] = phone[q]
    BY <1>7, <1>8
  <2> QED
    BY <1>4, <1>8, <1>9, <2>1, <2>2, <2>3, FollowedOn
<1> QED
  BY <1>8, <1>9 DEF CatchUpInv

\* RunBreaks, and a command that failed.
LEMMA SettleFailedFollows ==
    ASSUME CatchUpInv, MakerInv', NEW p \in Phones, SettleFailed(p), phone[p].at # "idle",
           UNCHANGED <<mission, link, eventLink, cached, retained, uploads, event, touched>>
    PROVE  CatchUpInv'
<1>1. PICK k : k = phone[p].row
  OBVIOUS
<1>2. k \in DOMAIN outbox
  BY <1>1 DEF CatchUpInv, PhonesFit, CommandFits
<1>3. /\ phone' = [phone EXCEPT ![p] = NoCommand]
      /\ outbox' = outbox \/ (outbox[k].at \in {"claimed", "stale"} /\ outbox' = [outbox EXCEPT ![k].at = "queued"])
  BY <1>1 DEF SettleFailed, Ends
<1> QED
  BY <1>2, <1>3, FailFollows

LEMMA BreaksFollow ==
    ASSUME CatchUpInv, MakerInv', NEW p \in Phones, RunBreaks(p)
    PROVE  CatchUpInv'
<1>1. /\ phone' = [phone EXCEPT ![p] = NoCommand]
      /\ UNCHANGED <<mission, link, eventLink, cached, retained, uploads, event, touched, outbox>>
  BY DEF RunBreaks, OnPhone
<1> QED
  BY <1>1, FailFollows

\* One command of a mission is running.
LEMMA OneRow ==
    ASSUME ServerFits, NEW m, InTurn(m), NEW i \in DOMAIN outbox, NEW j \in DOMAIN outbox,
           outbox[i].mission = m, outbox[j].mission = m,
           outbox[i].at \in {"claimed", "stale"}, outbox[j].at \in {"claimed", "stale"}
    PROVE  i = j
<1>1. i \in Nat /\ j \in Nat
  BY LineIs
<1>2. outbox[i].tries > 0 /\ outbox[j].tries > 0
  BY DEF InTurn
<1>3. ~(i < j) /\ ~(j < i)
  BY <1>2 DEF InTurn
<1> QED
  BY <1>1, <1>3

\* One phone may settle it.
LEMMA OneHolder ==
    ASSUME ServerFits, PhonesFit, NEW m, InTurn(m), NEW p \in Phones, NEW q \in Phones,
           Holds(p, m), Holds(q, m)
    PROVE  p = q
<1>1. PICK i, j : i = phone[p].row /\ j = phone[q].row
  OBVIOUS
<1>2. CommandFits(phone[p]) /\ CommandFits(phone[q])
  BY DEF PhonesFit
<1>3. i \in DOMAIN outbox /\ j \in DOMAIN outbox /\ outbox[i].mission = m /\ outbox[j].mission = m
  BY <1>1, <1>2 DEF CommandFits, Holds
<1>4. i = j
  BY <1>1, <1>3, OneRow DEF Holds
<1>5. phone[p].row = phone[q].row /\ phone[p].token = phone[q].token
  BY <1>1, <1>4 DEF Holds
<1>6. phone[p].at # "idle" /\ phone[q].at # "idle"
  BY DEF Holds
<1> QED
  BY <1>5, <1>6 DEF PhonesFit

\* The mission and the event of a command.
LEMMA TargetIs ==
    ASSUME CatchUpInv, NEW p \in Phones, phone[p].at # "idle", NEW m, m = phone[p].mission,
           NEW e, e = Target(p, m)
    PROVE  /\ m \in AppleMissions /\ AppMade(m) /\ mission[m].at # "none"
           /\ phone[p].row \in DOMAIN outbox /\ outbox[phone[p].row].mission = m
           /\ phone[p].op # "delete" => e = Nobody \/ (e \in AppleEvents /\ event[e].for = m)
           /\ phone[p].op = "update" => e # Nobody
           /\ phone[p].op = "delete" => ~Eligible(mission[m])
<1>1. ServerFits /\ CommandFits(phone[p]) /\ CopiesFit(p)
  BY DEF CatchUpInv, PhonesFit
<1>2. PICK i : i = phone[p].row
  OBVIOUS
<1>3. i \in DOMAIN outbox /\ outbox[i].mission = m
  BY <1>1, <1>2 DEF CommandFits
<1>4. m \in AppleMissions
  BY <1>1, <1>3, LineIs
<1>5. AppMade(m) /\ mission[m].at # "none"
  BY <1>1, <1>3 DEF AppMade, ServerFits
<1>6. phone[p].op = "delete" => mission[m].at = "deleted"
  BY <1>1, <1>2, <1>3 DEF CommandFits, ServerFits
<1>7. CASE m \in DOMAIN retained[p]
  <2>1. e = retained[p][m]
    BY <1>7 DEF Target
  <2>2. e \in AppleEvents /\ event[e].for = m
    BY <1>1, <1>5, <1>7, <2>1 DEF CopiesFit
  <2> QED
    BY <1>2, <1>3, <1>4, <1>5, <1>6, <2>2, NobodyAssumption DEF Eligible
<1>8. CASE m \notin DOMAIN retained[p]
  <2>1. e = phone[p].event
    BY <1>8 DEF Target
  <2> QED
    BY <1>1, <1>2, <1>3, <1>4, <1>5, <1>6, <2>1 DEF CommandFits, Eligible
<1> QED
  BY <1>7, <1>8

\* A command that goes on with an event made for its mission.
LEMMA GoesOn ==
    ASSUME CatchUpInv, MakerInv', UNCHANGED <<mission, link, eventLink, cached, uploads, outbox>>, EventsGo,
           NEW p \in Phones, phone[p].at # "idle", NEW x \in {"save", "settle"}, NEW e,
           CommandGoes(p, x, e), x = "save" => phone[p].op # "delete",
           NEW m, m = phone[p].mission,
           phone[p].op # "delete" => e \in AppleEvents /\ event'[e].for = m,
           \A q \in Phones : q # p => retained'[q] = retained[q],
           \A n \in DOMAIN retained'[p] :
              \/ n \in DOMAIN retained[p] /\ retained'[p][n] = retained[p][n]
              \/ n \in AppleMissions /\ retained'[p][n] \in AppleEvents /\ event'[retained'[p][n]].for = n
    PROVE  /\ LinesGo /\ ServerFits' /\ EventsFit' /\ PhonesFit'
           /\ \A q \in Phones : q # p => phone'[q] = phone[q]
           /\ phone'[p].at = x /\ phone'[p].event = e /\ phone'[p].mission = m
           /\ phone'[p].row = phone[p].row /\ phone'[p].token = phone[p].token
<1>1. ServerFits /\ PhonesFit /\ MakerInv
  BY DEF CatchUpInv
<1>2. LinesGo
  <2>1. \A i \in DOMAIN outbox : outbox[i].tries \in Nat
    BY <1>1, LineIs
  <2> QED
    BY <1>1, <2>1 DEF LinesGo, ServerFits
<1>3. PICK c : /\ phone' = [phone EXCEPT ![p] = c]
               /\ c.at = x /\ c.event = e /\ c.op = phone[p].op /\ c.mission = m
               /\ c.row = phone[p].row /\ c.token = phone[p].token
  BY <1>1, CommandMoves
<1>4. CommandFits(c)'
  <2>1. CommandFits(phone[p])
    BY <1>1 DEF PhonesFit
  <2>2. phone[p].op # "delete" => e # Nobody
    BY NobodyAssumption
  <2> QED
    BY <1>3, <2>1, <2>2 DEF CommandFits
<1>5. \A q \in Phones : q # p /\ phone[q].at # "idle" /\ phone[q].row = c.row => phone[q].token # c.token
  BY <1>1, <1>3 DEF PhonesFit
<1>6. /\ ServerFits' /\ EventsFit' /\ PhonesFit'
      /\ phone'[p] = c /\ \A q \in Phones : q # p => phone'[q] = phone[q]
  BY <1>2, <1>3, <1>4, <1>5, PhoneSide
<1> QED
  BY <1>2, <1>3, <1>6

\* ApplyDelete: the event of a mission that is deleted.
LEMMA ApplyDeleteFollows ==
    ASSUME CatchUpInv, MakerInv', NEW p \in Phones, ApplyDelete(p)
    PROVE  CatchUpInv'
<1>1. PICK m, e : m = phone[p].mission /\ e = Target(p, m)
  OBVIOUS
<1>2. /\ phone[p].at = "apply" /\ phone[p].op = "delete" /\ event' = [event EXCEPT ![e].at = "gone"]
      /\ UNCHANGED <<mission, link, eventLink, cached, retained, uploads, outbox, touched>>
  BY <1>1 DEF ApplyDelete, At, OnPhone, ghosts
<1>3. CommandGoes(p, "settle", e)
  BY <1>1, Zenon DEF ApplyDelete, CommandGoes
<1>4. m \in AppleMissions /\ ~Eligible(mission[m])
  BY <1>1, <1>2, TargetIs
<1>5. \A f \in AppleEvents : /\ event'[f].for = event[f].for
                             /\ event'[f].at = event[f].at \/ event'[f].at = "gone"
                             /\ event'[f].text = event[f].text
  <2> SUFFICES ASSUME NEW f \in AppleEvents
               PROVE  /\ event'[f].for = event[f].for
                      /\ event'[f].at = event[f].at \/ event'[f].at = "gone"
                      /\ event'[f].text = event[f].text
    OBVIOUS
  <2>1. PICK g : g = event[f] /\ IsEvent(g)
    BY DEF CatchUpInv, MakerInv, AppleShapes
  <2>2. PICK h : h = [g EXCEPT !.at = "gone"]
    OBVIOUS
  <2>3. h = [at |-> "gone", text |-> g.text, for |-> g.for, by |-> g.by]
    BY ONLY <2>1, <2>2, EventChanges
  <2>4. event'[f] = g \/ event'[f] = h
    BY <1>2, <2>1, <2>2 DEF CatchUpInv, MakerInv, AppleShapes
  <2> QED
    BY <2>1, <2>3, <2>4
<1>6. EventsGo
  BY <1>5 DEF EventsGo
<1>7. /\ LinesGo /\ ServerFits' /\ EventsFit' /\ PhonesFit'
      /\ \A q \in Phones : q # p => phone'[q] = phone[q]
      /\ phone'[p].mission = m
  BY <1>1, <1>2, <1>3, <1>6, GoesOn
<1>8. ASSUME NEW n \in AppleMissions, Live(n)' PROVE Followed(n)'
  <2>1. Live(n) /\ SameLines(n) /\ LinkedEvents(n)' = LinkedEvents(n)
    BY <1>2, <1>8 DEF Live, SameLines, LinkedEvents
  <2>2. StillShows(n)
    BY <1>2, <1>5 DEF StillShows, Excused, Shows
  <2>3. n # m
    BY <1>4, <2>1 DEF Live
  <2> QED
    BY <1>2, <1>7, <1>8, <2>1, <2>2, <2>3, FollowedOn
<1> QED
  BY <1>7, <1>8 DEF CatchUpInv

\* SaveLocalLink: the event that is kept is the one that was written.
LEMMA SaveLinkFollows ==
    ASSUME CatchUpInv, MakerInv', NEW p \in Phones, SaveLocalLink(p)
    PROVE  CatchUpInv'
<1>1. PICK m, e : m = phone[p].mission /\ e = phone[p].event
  OBVIOUS
<1>2. /\ phone[p].at = "save"
      /\ UNCHANGED <<mission, link, eventLink, cached, uploads, event, touched>>
  BY DEF SaveLocalLink, At, OnPhone
<1>3. CASE SettleFailed(p) /\ UNCHANGED retained
  BY <1>2, <1>3, SettleFailedFollows
<1>4. CASE /\ retained' = [retained EXCEPT ![p] = [x \in DOMAIN @ \cup {m} |-> IF x = m THEN e ELSE @[x]]]
           /\ phone' = [phone EXCEPT ![p].at = "settle"] /\ UNCHANGED outbox
  <2>1. PICK b : b = phone[p] /\ IsCommand(b)
    BY DEF CatchUpInv, MakerInv, AppleShapes
  <2>2. CommandGoes(p, "settle", e)
    <3>1. PICK d : d = [b EXCEPT !.at = "settle"]
      OBVIOUS
    <3>2. PICK f : f = [d EXCEPT !.event = e]
      OBVIOUS
    <3>3. d = [at |-> "settle", row |-> b.row, token |-> b.token, op |-> b.op,
               mission |-> b.mission, event |-> b.event, text |-> b.text] /\ IsCommand(d)
      BY <2>1, <3>1, CommandChanges
    <3>4. f = d
      <4>1. f = [at |-> d.at, row |-> d.row, token |-> d.token, op |-> d.op,
                 mission |-> d.mission, event |-> e, text |-> d.text]
        BY <3>2, <3>3, CommandChanges
      <4> QED
        BY <1>1, <2>1, <3>3, <4>1
    <3>5. PICK g : g = [phone EXCEPT ![p].at = "settle"]
      OBVIOUS
    <3>6. phone = [q \in Phones |-> phone[q]]
      BY DEF CatchUpInv, MakerInv, AppleShapes
    <3>7. g[p] = d /\ g = [q \in Phones |-> g[q]]
      BY <2>1, <3>1, <3>5, <3>6
    <3>8. [g EXCEPT ![p].event = e] = g
      BY <3>2, <3>4, <3>7
    <3> QED
      BY <1>4, <3>5, <3>8, Zenon DEF CommandGoes
  <2>3. phone[p].op # "delete" /\ e \in AppleEvents /\ event[e].for = m /\ m \in AppleMissions
    <3>1. CommandFits(phone[p])
      BY DEF CatchUpInv, PhonesFit
    <3>2. m \in AppleMissions
      BY <1>1, <1>2, TargetIs
    <3> QED
      BY <1>1, <1>2, <3>1, <3>2 DEF CommandFits
  <2>4. EventsGo
    BY <1>2 DEF EventsGo
  <2>5. /\ \A q \in Phones : q # p => retained'[q] = retained[q]
        /\ \A n \in DOMAIN retained'[p] :
              \/ n \in DOMAIN retained[p] /\ retained'[p][n] = retained[p][n]
              \/ n \in AppleMissions /\ retained'[p][n] \in AppleEvents /\ event'[retained'[p][n]].for = n
    <3>1. retained = [q \in Phones |-> retained[q]]
      BY DEF CatchUpInv, MakerInv, AppleShapes
    <3>2. PICK old : old = retained[p]
      OBVIOUS
    <3>3. PICK k : k = [x \in DOMAIN old \cup {m} |-> IF x = m THEN e ELSE old[x]]
      OBVIOUS
    <3>4. retained' = [retained EXCEPT ![p] = k]
      BY <1>4, <3>1, <3>2, <3>3
    <3>5. retained'[p] = k /\ \A q \in Phones : q # p => retained'[q] = retained[q]
      BY <3>1, <3>4
    <3>6. \A n \in DOMAIN k : (n \in DOMAIN old /\ k[n] = old[n]) \/ (n = m /\ k[n] = e)
      BY <3>3
    <3> QED
      BY <1>2, <2>3, <3>2, <3>5, <3>6
  <2>6. /\ LinesGo /\ ServerFits' /\ EventsFit' /\ PhonesFit'
        /\ \A q \in Phones : q # p => phone'[q] = phone[q]
        /\ phone'[p].at = "settle" /\ phone'[p].event = e /\ phone'[p].mission = m
        /\ phone'[p].row = phone[p].row /\ phone'[p].token = phone[p].token
    BY <1>1, <1>2, <1>4, <2>2, <2>3, <2>4, <2>5, GoesOn
  <2>7. ASSUME NEW n \in AppleMissions, Live(n)' PROVE Followed(n)'
    <3>1. Live(n) /\ SameLines(n) /\ LinkedEvents(n)' = LinkedEvents(n)
      BY <1>2, <1>4, <2>7 DEF Live, SameLines, LinkedEvents
    <3>2. StillShows(n)
      BY <1>2 DEF StillShows, Excused, Shows
    <3>3. n = m /\ Holds(p, n)' => HolderKnows(p, n)'
      <4> SUFFICES ASSUME n = m, Holds(p, n)' PROVE HolderKnows(p, n)'
        OBVIOUS
      <4>1. Holds(p, n)
        BY <1>1, <1>2, <1>4, <2>6 DEF Holds
      <4>2. HolderKnows(p, n)
        BY <3>1, <4>1 DEF CatchUpInv, Followed
      <4> QED
        BY <1>1, <1>2, <1>4, <2>6, <4>2 DEF HolderKnows, Newer, Shows, Excused
    <3>4. \A q \in Phones : phone'[q].at # "idle" /\ phone'[q].mission = n =>
                             phone'[q] = phone[q] \/ (Holds(q, n)' => HolderKnows(q, n)')
      BY <2>6, <3>3
    <3> QED
      BY <1>2, <2>6, <2>7, <3>1, <3>2, <3>4, FollowedOn
  <2> QED
    BY <2>6, <2>7 DEF CatchUpInv
<1>5. \/ SettleFailed(p) /\ UNCHANGED retained
      \/ /\ retained' = [retained EXCEPT ![p] = [x \in DOMAIN @ \cup {m} |-> IF x = m THEN e ELSE @[x]]]
         /\ phone' = [phone EXCEPT ![p].at = "settle"] /\ UNCHANGED outbox
  BY <1>1, Zenon DEF SaveLocalLink
<1> QED
  BY <1>3, <1>4, <1>5

\* ApplyUpdate: the event is written as the mission was when the command was
\* claimed.
LEMMA ApplyUpdateFollows ==
    ASSUME CatchUpInv, MakerInv', NEW p \in Phones, ApplyUpdate(p)
    PROVE  CatchUpInv'
<1>1. PICK m, e, k : m = phone[p].mission /\ e = Target(p, m) /\ k = phone[p].row
  OBVIOUS
<1>2. /\ phone[p].at = "apply" /\ phone[p].op = "update"
      /\ UNCHANGED <<mission, link, eventLink, cached, retained, uploads>>
  BY DEF ApplyUpdate, At, OnPhone
<1>3. /\ m \in AppleMissions /\ k \in DOMAIN outbox /\ outbox[k].mission = m
      /\ e \in AppleEvents /\ event[e].for = m
  BY <1>1, <1>2, TargetIs
<1>4. ServerFits /\ PhonesFit
  BY DEF CatchUpInv
<1>5. CASE SettleFailed(p) /\ UNCHANGED <<event, touched>>
  BY <1>2, <1>5, SettleFailedFollows
<1>6. CASE /\ event' = [event EXCEPT ![e].text = phone[p].text]
           /\ CommandGoes(p, "save", e)
           /\ touched' = IF Ends(p, k, phone[p].token) /\ outbox[k].at = "claimed"
                         THEN touched \ {e} ELSE touched \cup {e}
           /\ UNCHANGED outbox
  <2>1. PICK t : t = phone[p].text
    OBVIOUS
  <2>2. \A f \in AppleEvents : /\ event'[f].for = event[f].for /\ event'[f].at = event[f].at
                               /\ event'[f].text = IF f = e THEN t ELSE event[f].text
    <3> SUFFICES ASSUME NEW f \in AppleEvents
                 PROVE  /\ event'[f].for = event[f].for /\ event'[f].at = event[f].at
                        /\ event'[f].text = IF f = e THEN t ELSE event[f].text
      OBVIOUS
    <3>1. PICK g : g = event[f] /\ IsEvent(g)
      BY DEF CatchUpInv, MakerInv, AppleShapes
    <3>2. PICK h : h = [g EXCEPT !.text = t]
      OBVIOUS
    <3>3. h = [at |-> g.at, text |-> t, for |-> g.for, by |-> g.by]
      BY ONLY <3>1, <3>2, EventChanges
    <3>4. event'[f] = IF f = e THEN h ELSE g
      BY <1>6, <2>1, <3>1, <3>2 DEF CatchUpInv, MakerInv, AppleShapes
    <3> QED
      BY <3>1, <3>3, <3>4
  <2>3. EventsGo
    BY <2>2 DEF EventsGo
  <2>4. /\ LinesGo /\ ServerFits' /\ EventsFit' /\ PhonesFit'
        /\ \A q \in Phones : q # p => phone'[q] = phone[q]
        /\ phone'[p].at = "save" /\ phone'[p].event = e /\ phone'[p].mission = m
        /\ phone'[p].row = k /\ phone'[p].token = phone[p].token
    BY <1>1, <1>2, <1>3, <1>6, <2>2, <2>3, GoesOn
  <2>5. ASSUME NEW n \in AppleMissions, Live(n)' PROVE Followed(n)'
    <3>1. Live(n) /\ SameLines(n) /\ LinkedEvents(n)' = LinkedEvents(n)
      BY <1>2, <1>6, <2>5 DEF Live, SameLines, LinkedEvents
    <3>2. Followed(n)
      BY <3>1 DEF CatchUpInv
    <3>3. CASE n # m
      <4>1. StillShows(n)
        BY <1>3, <1>6, <2>2, <3>3, <1>2 DEF StillShows, Excused, Shows
      <4> QED
        BY <1>2, <2>4, <2>5, <3>1, <3>3, <4>1, FollowedOn
    <3>4. CASE n = m /\ touched' = touched \cup {e} /\ ~(Ends(p, k, phone[p].token) /\ outbox[k].at = "claimed")
      <4>1. StillShows(n)
        BY <1>2, <2>2, <3>4 DEF StillShows, Excused, Shows
      <4>2. Holds(p, n)' => HolderKnows(p, n)'
        <5> SUFFICES ASSUME Holds(p, n)' PROVE HolderKnows(p, n)'
          OBVIOUS
        <5>1. Holds(p, n) /\ outbox[k].at \in {"claimed", "stale"} /\ outbox[k].tries = phone[p].token
          BY <1>1, <1>2, <1>6, <2>4, <3>4 DEF Holds
        <5>2. outbox[k].at = "stale"
          <6>1. link.cutoff = 0 /\ k > 0
            BY <1>3, <1>4, <3>1, LineIs DEF Live
          <6> QED
            BY <3>4, <5>1, <6>1 DEF Ends
        <5>3. HolderKnows(p, n)
          BY <3>2, <5>1 DEF Followed
        <5>4. Newer(n, k) \/ \A f \in AppleEvents : event[f].for = n => Excused(f)
          BY <1>1, <5>2, <5>3 DEF HolderKnows
        <5>5. Newer(n, k)' \/ \A f \in AppleEvents : event'[f].for = n => Excused(f)'
          BY <1>6, <2>2, <4>1, <5>4 DEF StillShows, Newer
        <5> QED
          BY <1>3, <1>6, <2>2, <2>4, <3>4, <5>2, <5>5 DEF HolderKnows, Shows
      <4> QED
        BY <1>2, <2>4, <2>5, <3>1, <4>1, <4>2, FollowedOn
    <3>5. CASE /\ n = m /\ touched' = touched \ {e}
               /\ Ends(p, k, phone[p].token) /\ outbox[k].at = "claimed"
      <4>1. InTurn(n) /\ UnlinkedShows(n)
        BY <3>2 DEF Followed
      <4>2. Holds(p, n)
        BY <1>1, <1>2, <3>5 DEF Holds, Ends
      <4>3. HolderKnows(p, n)
        BY <3>2, <4>2 DEF Followed
      <4>4. Newer(n, k)' <=> Newer(n, k)
        BY <1>6 DEF Newer
      <4>5. Newer(n, k) \/ t = mission[n].text
        BY <1>1, <1>2, <2>1, <3>5, <4>3 DEF HolderKnows
      <4>6. Newer(n, k)' \/ Shows(e, n)'
        BY <1>2, <1>3, <2>2, <4>4, <4>5 DEF Shows
      <4>7. InTurn(n)'
        BY <1>6, <3>1, <4>1 DEF InTurn
      <4>8. UnlinkedShows(n)'
        <5> SUFFICES ASSUME LinkedEvents(n) = {}, NEW f \in AppleEvents, event'[f].for = n
                     PROVE  Shows(f, n)' \/ \E i \in DOMAIN outbox : outbox[i].mission = n /\ Newer(n, i)
          BY <1>6, <3>1 DEF UnlinkedShows, Newer
        <5>1. CASE f = e
          BY <1>3, <3>5, <4>4, <4>6, <5>1
        <5>2. CASE f # e
          <6>1. Shows(f, n) \/ \E i \in DOMAIN outbox : outbox[i].mission = n /\ Newer(n, i)
            BY <2>2, <4>1 DEF UnlinkedShows
          <6> QED
            BY <1>2, <2>2, <3>5, <5>2, <6>1 DEF Shows, Excused
        <5> QED
          BY <5>1, <5>2
      <4>9. LinkedShows(n)'
        BY <1>3, <1>6, <3>5 DEF LinkedShows, Waiting
      <4>10. ASSUME NEW q \in Phones, Holds(q, n)' PROVE HolderKnows(q, n)'
        <5>1. q = p
          <6> SUFFICES ASSUME q # p PROVE FALSE
            OBVIOUS
          <6>1. phone'[q] = phone[q]
            BY <2>4
          <6>2. Holds(q, n)
            BY <1>6, <4>10, <6>1 DEF Holds
          <6> QED
            BY <1>4, <4>1, <4>2, <6>2, OneHolder
        <5> QED
          BY <1>6, <2>4, <3>5, <4>6, <5>1 DEF HolderKnows
      <4> QED
        BY <4>7, <4>8, <4>9, <4>10 DEF Followed
    <3> QED
      BY <1>6, <3>3, <3>4, <3>5
  <2> QED
    BY <2>4, <2>5 DEF CatchUpInv
<1>7. \/ SettleFailed(p) /\ UNCHANGED <<event, touched>>
      \/ /\ event' = [event EXCEPT ![e].text = phone[p].text]
         /\ phone' = [phone EXCEPT ![p].at = "save", ![p].event = e]
         /\ touched' = IF Ends(p, k, phone[p].token) /\ outbox[k].at = "claimed"
                       THEN touched \ {e} ELSE touched \cup {e}
         /\ UNCHANGED outbox
  BY <1>1, Zenon DEF ApplyUpdate
<1>8. phone' = [phone EXCEPT ![p].at = "save", ![p].event = e] => CommandGoes(p, "save", e)
  BY Zenon DEF CommandGoes
<1> QED
  BY <1>5, <1>6, <1>7, <1>8

\* ApplyCreate: an event is made, or the one that is retained is taken.
LEMMA ApplyCreateFollows ==
    ASSUME CatchUpInv, MakerInv', NEW p \in Phones, ApplyCreate(p)
    PROVE  CatchUpInv'
<1>1. PICK m, e, k : m = phone[p].mission /\ e = Target(p, m) /\ k = phone[p].row
  OBVIOUS
<1>2. /\ phone[p].at = "apply" /\ phone[p].op = "create" /\ phone[p].op # "delete"
      /\ UNCHANGED <<mission, link, eventLink, cached, retained, uploads, outbox>>
  BY DEF ApplyCreate, At, OnPhone
<1>3. /\ m \in AppleMissions /\ k \in DOMAIN outbox /\ outbox[k].mission = m
      /\ e = Nobody \/ (e \in AppleEvents /\ event[e].for = m)
      /\ AppMade(m) /\ m # Nobody
  BY <1>1, <1>2, TargetIs, NobodyAssumption
<1>4. ServerFits /\ EventsFit /\ PhonesFit
  BY DEF CatchUpInv
<1>5. ASSUME Live(m), Holds(p, m), ~Newer(m, k)
      PROVE  /\ LinkedEvents(m) = {}
             /\ \A i \in DOMAIN outbox : outbox[i].mission = m => ~Newer(m, i)
             /\ \A f \in AppleEvents : event[f].for = m => Shows(f, m)
             /\ outbox[k].at = "claimed" => phone[p].text = mission[m].text
  <2>1. Followed(m)
    BY <1>3, <1>5 DEF CatchUpInv
  <2>2. HolderKnows(p, m) /\ InTurn(m) /\ UnlinkedShows(m)
    BY <1>5, <2>1 DEF Followed
  <2>3. /\ LinkedEvents(m) = {}
        /\ outbox[k].at = "claimed" => phone[p].text = mission[m].text
    BY <1>1, <1>2, <1>5, <2>2 DEF HolderKnows
  <2>4. outbox[k].at # "queued" /\ outbox[k].tries > 0
    BY <1>1, <1>3, <1>5, <2>2 DEF Holds, InTurn
  <2>5. ASSUME NEW i \in DOMAIN outbox, outbox[i].mission = m PROVE ~Newer(m, i)
    <3>1. i \in Nat /\ k \in Nat /\ DOMAIN outbox = 1 .. Len(outbox) /\ Len(outbox) \in Nat
      BY <1>3, <1>4, LineIs
    <3>2. ~(i < k)
      BY <1>3, <2>2, <2>3, <2>4, <2>5 DEF InTurn
    <3> QED
      BY <1>5, <3>1, <3>2 DEF Newer
  <2> QED
    BY <2>2, <2>3, <2>5 DEF UnlinkedShows
<1>6. CASE e # Nobody /\ CommandGoes(p, "settle", e) /\ UNCHANGED <<event, touched>>
  <2>1. EventsGo
    BY <1>6 DEF EventsGo
  <2>2. /\ LinesGo /\ ServerFits' /\ EventsFit' /\ PhonesFit'
        /\ \A q \in Phones : q # p => phone'[q] = phone[q]
        /\ phone'[p].at = "settle" /\ phone'[p].event = e /\ phone'[p].mission = m
        /\ phone'[p].row = k /\ phone'[p].token = phone[p].token
    BY <1>1, <1>2, <1>3, <1>6, <2>1, GoesOn
  <2>3. ASSUME NEW n \in AppleMissions, Live(n)' PROVE Followed(n)'
    <3>1. Live(n) /\ SameLines(n) /\ LinkedEvents(n)' = LinkedEvents(n)
      BY <1>2, <2>3 DEF Live, SameLines, LinkedEvents
    <3>2. StillShows(n)
      BY <1>2, <1>6 DEF StillShows, Excused, Shows
    <3>3. n = m /\ Holds(p, n)' => HolderKnows(p, n)'
      <4> SUFFICES ASSUME n = m, Holds(p, n)' PROVE HolderKnows(p, n)'
        OBVIOUS
      <4>1. Holds(p, m)
        BY <1>1, <1>2, <2>2 DEF Holds
      <4>2. HolderKnows(p, m)
        BY <3>1, <4>1 DEF CatchUpInv, Followed
      <4>3. CASE Newer(m, k)
        BY <1>2, <2>2, <4>3 DEF HolderKnows, Newer
      <4>4. CASE ~Newer(m, k)
        <5>1. Shows(e, m)
          BY <1>3, <1>5, <1>6, <3>1, <4>1, <4>4
        <5>2. outbox[k].at = "stale" => \A f \in AppleEvents : event[f].for = m => Excused(f)
          BY <1>1, <4>2, <4>4 DEF HolderKnows
        <5> QED
          BY <1>2, <1>6, <2>2, <5>1, <5>2 DEF HolderKnows, Shows, Excused
      <4> QED
        BY <4>3, <4>4
    <3>4. \A q \in Phones : phone'[q].at # "idle" /\ phone'[q].mission = n =>
                             phone'[q] = phone[q] \/ (Holds(q, n)' => HolderKnows(q, n)')
      BY <2>2, <3>3
    <3> QED
      BY <1>2, <2>2, <2>3, <3>1, <3>2, <3>4, FollowedOn
  <2> QED
    BY <2>2, <2>3 DEF CatchUpInv
<1>7. ASSUME NEW new \in AppleEvents, event[new].at = "none", CommandGoes(p, "save", new),
             event' = [event EXCEPT ![new] = [at |-> "there", text |-> phone[p].text, for |-> m, by |-> p]],
             touched' = IF outbox[k].at = "claimed" /\ outbox[k].tries = phone[p].token
                        THEN touched ELSE touched \cup {new}
      PROVE  CatchUpInv'
  <2>1. PICK t : t = phone[p].text
    OBVIOUS
  <2>2. /\ event'[new].for = m /\ event'[new].at = "there" /\ event'[new].text = t
        /\ \A f \in AppleEvents : f # new => event'[f] = event[f]
        /\ event[new].for = Nobody
    BY <1>4, <1>7, <2>1 DEF CatchUpInv, MakerInv, AppleShapes, EventsFit
  <2>3. EventsGo
    BY <1>3, <1>7, <2>2 DEF EventsGo
  <2>4. /\ LinesGo /\ ServerFits' /\ EventsFit' /\ PhonesFit'
        /\ \A q \in Phones : q # p => phone'[q] = phone[q]
        /\ phone'[p].at = "save" /\ phone'[p].event = new /\ phone'[p].mission = m
        /\ phone'[p].row = k /\ phone'[p].token = phone[p].token
    BY <1>1, <1>2, <1>7, <2>2, <2>3, GoesOn
  <2>5. ASSUME NEW n \in AppleMissions, Live(n)' PROVE Followed(n)'
    <3>1. Live(n) /\ SameLines(n) /\ LinkedEvents(n)' = LinkedEvents(n)
      BY <1>2, <2>5 DEF Live, SameLines, LinkedEvents
    <3>2. CASE n # m
      <4>1. StillShows(n)
        <5> SUFFICES ASSUME NEW f \in AppleEvents, event'[f].for = n
                     PROVE  /\ event[f].for = n
                            /\ Excused(f) => Excused(f)'
                            /\ Shows(f, n) => Shows(f, n)'
          BY DEF StillShows
        <5>1. f # new /\ event'[f] = event[f]
          BY <2>2, <3>2
        <5> QED
          BY <1>2, <1>7, <5>1 DEF Excused, Shows
      <4> QED
        BY <1>2, <2>4, <2>5, <3>1, <3>2, <4>1, FollowedOn
    <3>3. CASE n = m
      <4>1. Followed(m)
        BY <3>1, <3>3 DEF CatchUpInv
      <4>2. InTurn(m) /\ UnlinkedShows(m) /\ LinkedShows(m)
        BY <4>1 DEF Followed
      <4>3. \A i : Newer(m, i)' <=> Newer(m, i)
        BY <1>2 DEF Newer
      <4>4. \A f \in AppleEvents : event'[f].for = m /\ f # new =>
               event[f].for = m /\ (Excused(f) => Excused(f)') /\ (Shows(f, m) => Shows(f, m)')
        BY <1>2, <1>7, <2>2 DEF Excused, Shows
      <4>5. \/ outbox[k].at = "claimed" /\ Holds(p, m) /\ touched' = touched
            \/ Excused(new)' /\ touched' = touched \cup {new}
        BY <1>1, <1>2, <1>7 DEF Holds, Excused
      <4>6. Newer(m, k) \/ Shows(new, m)'
        <5>1. CASE outbox[k].at = "claimed" /\ Holds(p, m)
          <6>1. Newer(m, k) \/ t = mission[m].text
            BY <1>5, <2>1, <3>1, <3>3, <5>1
          <6> QED
            BY <1>2, <2>2, <6>1 DEF Shows
        <5>2. CASE Excused(new)'
          BY <5>2 DEF Shows
        <5> QED
          BY <4>5, <5>1, <5>2
      <4>7. InTurn(m)'
        BY <1>2, <3>1, <3>3, <4>2 DEF InTurn
      <4>8. UnlinkedShows(m)'
        <5> SUFFICES ASSUME LinkedEvents(m) = {}, NEW f \in AppleEvents, event'[f].for = m
                     PROVE  Shows(f, m)' \/ \E i \in DOMAIN outbox : outbox[i].mission = m /\ Newer(m, i)
          BY <1>2, <3>1, <3>3, <4>3 DEF UnlinkedShows
        <5>1. CASE f = new
          BY <1>3, <4>6, <5>1
        <5>2. CASE f # new
          BY <4>2, <4>4, <5>2 DEF UnlinkedShows
        <5> QED
          BY <5>1, <5>2
      <4>9. LinkedShows(m)'
        <5> SUFFICES ASSUME \A i \in DOMAIN outbox : outbox[i].mission = m => ~Waiting(outbox[i]),
                            NEW f, LinkedEvents(m) = {f}
                     PROVE  Shows(f, m)'
          BY <1>2, <3>1, <3>3 DEF LinkedShows, Waiting
        <5>1. f \in AppleEvents /\ event[f].for = m
          BY <1>3, <1>4, LinkedIs
        <5>2. f # new /\ event'[f] = event[f]
          BY <1>3, <2>2, <5>1
        <5>3. Shows(f, m)
          BY <4>2 DEF LinkedShows
        <5> QED
          BY <4>4, <5>1, <5>2, <5>3
      <4>10. ASSUME NEW q \in Phones, Holds(q, m)' PROVE HolderKnows(q, m)'
        <5>1. CASE q = p
          <6>1. Holds(p, m)
            BY <1>1, <1>2, <2>4, <4>10, <5>1 DEF Holds
          <6>2. HolderKnows(p, m)
            BY <4>1, <6>1 DEF Followed
          <6>3. CASE Newer(m, k)
            BY <2>4, <4>3, <5>1, <6>3 DEF HolderKnows
          <6>4. CASE ~Newer(m, k)
            <7>1. outbox[k].at = "stale" => \A f \in AppleEvents : event[f].for = m => Excused(f)
              BY <1>1, <6>2, <6>4 DEF HolderKnows
            <7>2. outbox[k].at = "stale" => \A f \in AppleEvents : event'[f].for = m => Excused(f)'
              BY <4>4, <4>5, <7>1
            <7> QED
              BY <1>2, <2>4, <4>6, <5>1, <6>4, <7>2 DEF HolderKnows
          <6> QED
            BY <6>3, <6>4
        <5>2. CASE q # p
          <6>1. PICK c : c = phone[q] /\ c = phone'[q]
            BY <2>4, <5>2
          <6>2. Holds(q, m) /\ c.at # "idle" /\ c.mission = m
            BY <1>2, <4>10, <6>1 DEF Holds
          <6>3. HolderKnows(q, m)
            BY <4>1, <6>2 DEF Followed
          <6>4. HeldFits(q, m)
            BY <1>3, <1>4, <3>1, <3>3, <6>1, <6>2, HeldIs DEF Live
          <6>5. /\ c.row \in DOMAIN outbox /\ outbox[c.row].mission = m
                /\ c.at \in {"save", "settle"} => c.event \in AppleEvents /\ event[c.event].for = m
            BY <6>1, <6>4 DEF HeldFits
          <6>6. CASE Newer(m, c.row)
            BY <4>3, <6>1, <6>6 DEF HolderKnows
          <6>7. CASE ~Newer(m, c.row)
            <7>1. /\ c.at = "apply" /\ outbox[c.row].at = "claimed" => c.text = mission[m].text
                  /\ c.at \in {"save", "settle"} => Shows(c.event, m)
                  /\ c.at = "apply" /\ c.op = "create" => LinkedEvents(m) = {}
                  /\ outbox[c.row].at = "stale" => \A f \in AppleEvents : event[f].for = m => Excused(f)
              BY <6>1, <6>3, <6>7 DEF HolderKnows
            <7>2. ASSUME c.at \in {"save", "settle"} PROVE Shows(c.event, m)'
              <8>1. c.event # new /\ c.event \in AppleEvents /\ event'[c.event].for = m
                BY <1>3, <2>2, <6>5, <7>2
              <8> QED
                BY <4>4, <7>1, <7>2, <8>1
            <7>3. ASSUME outbox[c.row].at = "stale", NEW f \in AppleEvents, event'[f].for = m
                  PROVE  Excused(f)'
              <8>1. CASE f # new
                BY <4>4, <7>1, <7>3, <8>1
              <8>2. CASE f = new
                <9>1. ~Holds(p, m)
                  BY <1>4, <4>2, <5>2, <6>2, OneHolder
                <9> QED
                  BY <4>5, <8>2, <9>1
              <8> QED
                BY <8>1, <8>2
            <7> QED
              BY <1>2, <3>1, <3>3, <6>1, <7>1, <7>2, <7>3 DEF HolderKnows
          <6> QED
            BY <6>6, <6>7
        <5> QED
          BY <5>1, <5>2
      <4> QED
        BY <3>3, <4>7, <4>8, <4>9, <4>10 DEF Followed
    <3> QED
      BY <3>2, <3>3
  <2> QED
    BY <2>4, <2>5 DEF CatchUpInv
<1>8. CASE e # Nobody
  <2>1. /\ phone' = [phone EXCEPT ![p].at = "settle", ![p].event = e]
        /\ UNCHANGED <<event, touched>>
    BY <1>1, <1>8, Zenon DEF ApplyCreate
  <2>2. CommandGoes(p, "settle", e)
    BY <2>1, Zenon DEF CommandGoes
  <2> QED
    BY <1>6, <1>8, <2>1, <2>2
<1>9. CASE e = Nobody
  <2>1. PICK new \in {x \in AppleEvents : event[x].at = "none"} :
             /\ event' = [event EXCEPT ![new] = [at |-> "there", text |-> phone[p].text,
                                                     for |-> m, by |-> p]]
             /\ phone' = [phone EXCEPT ![p].at = "save", ![p].event = new]
             /\ touched' = IF outbox[k].at = "claimed" /\ outbox[k].tries = phone[p].token
                           THEN touched ELSE touched \cup {new}
    BY <1>1, <1>9, Zenon DEF ApplyCreate
  <2>2. CommandGoes(p, "save", new)
    BY <2>1, Zenon DEF CommandGoes
  <2> QED
    BY <1>7, <2>1, <2>2
<1> QED
  BY <1>8, <1>9

\* The links after a command is done.
LEMMA LinkMoves ==
    ASSUME ServerFits, NEW m \in AppleMissions, NEW e,
           eventLink' = {l \in eventLink : l.event # e} \cup {[mission |-> m, event |-> e]},
           NEW n \in AppleMissions, n # m => e \notin LinkedEvents(n)
    PROVE  LinkedEvents(n)' = IF n = m THEN LinkedEvents(n) \cup {e} ELSE LinkedEvents(n)
<1>1. PICK k : k = [mission |-> m, event |-> e] /\ k.mission = m /\ k.event = e
  <2> DEFINE k == [mission |-> m, event |-> e]
  <2>1. k.mission = m /\ k.event = e
    OBVIOUS
  <2> HIDE DEF k
  <2> QED
    BY <2>1 DEF k
<1>2. eventLink' = {l \in eventLink : l.event # e} \cup {k}
  BY <1>1
<1>3. \A f : f \in LinkedEvents(n) <=> \E l \in eventLink : l.mission = n /\ l.event = f
  BY DEF LinkedEvents
<1>4. \A f : f \in LinkedEvents(n)' <=> \E l \in eventLink' : l.mission = n /\ l.event = f
  BY DEF LinkedEvents
<1>5. CASE n = m
  <2>1. ASSUME NEW f PROVE f \in LinkedEvents(n)' <=> f \in LinkedEvents(n) \/ f = e
    BY <1>1, <1>2, <1>3, <1>4, <1>5
  <2> QED
    BY <1>5, <2>1
<1>6. CASE n # m
  <2>1. ASSUME NEW f PROVE f \in LinkedEvents(n)' <=> f \in LinkedEvents(n)
    BY <1>1, <1>2, <1>3, <1>4, <1>6
  <2> QED
    BY <1>6, <2>1
<1> QED
  BY <1>5, <1>6

\* SettleApplied: the event that the newest command wrote is linked.
LEMMA AppliedFollows ==
    ASSUME CatchUpInv, MakerInv', NEW p \in Phones, SettleApplied(p)
    PROVE  CatchUpInv'
<1>1. PICK m, e, k : m = phone[p].mission /\ e = phone[p].event /\ k = phone[p].row
  OBVIOUS
<1>2. /\ phone[p].at = "settle" /\ phone' = [phone EXCEPT ![p] = NoCommand]
      /\ UNCHANGED <<mission, link, cached, retained, uploads, event, touched>>
  BY DEF SettleApplied, At, ghosts
<1>3. CASE UNCHANGED <<outbox, eventLink>>
  BY <1>2, <1>3, FailFollows
<1>4. CASE /\ Ends(p, k, phone[p].token) /\ outbox' = [outbox EXCEPT ![k].at = "done"]
           /\ eventLink' = IF outbox[k].kind = "delete" THEN eventLink
                           ELSE {l \in eventLink : l.event # e} \cup {[mission |-> m, event |-> e]}
  <2>1. /\ ServerFits /\ EventsFit /\ PhonesFit /\ outbox \in Seq(Line) /\ CommandFits(phone[p])
    BY DEF CatchUpInv, ServerFits, PhonesFit
  <2>2. /\ m \in AppleMissions /\ AppMade(m) /\ mission[m].at # "none"
        /\ k \in DOMAIN outbox /\ outbox[k].mission = m
        /\ phone[p].op = "delete" => ~Eligible(mission[m])
    BY <1>1, <1>2, TargetIs
  <2>3. /\ phone[p].op = "delete" <=> outbox[k].kind = "delete"
        /\ outbox[k].kind # "delete" => e \in AppleEvents /\ event[e].for = m
    BY <1>1, <1>2, <2>1, NobodyAssumption DEF CommandFits
  <2>4. /\ outbox[k].at \in {"claimed", "stale"} /\ outbox[k].tries = phone[p].token
    BY <1>4 DEF Ends
  <2>5. /\ outbox' \in Seq(Line) /\ DOMAIN outbox' = DOMAIN outbox
        /\ \A i \in DOMAIN outbox : /\ outbox'[i].kind = outbox[i].kind
                                    /\ outbox'[i].mission = outbox[i].mission
                                    /\ outbox'[i].tries = outbox[i].tries
                                    /\ outbox'[i].at = IF i = k THEN "done" ELSE outbox[i].at
    <3>1. PICK a : a = "done" /\ a \in {"queued", "claimed", "stale", "done", "dead"}
      OBVIOUS
    <3>2. outbox' = [outbox EXCEPT ![k].at = a]
      BY <1>4, <3>1
    <3>3. /\ outbox' \in Seq(Line) /\ DOMAIN outbox' = DOMAIN outbox
          /\ \A i \in DOMAIN outbox : /\ outbox'[i].kind = outbox[i].kind
                                      /\ outbox'[i].mission = outbox[i].mission
                                      /\ outbox'[i].tries = outbox[i].tries
                                      /\ outbox'[i].at = IF i = k THEN a ELSE outbox[i].at
      BY ONLY <2>1, <2>2, <3>1, <3>2, Changed
    <3> QED
      BY <3>1, <3>3
  <2>6. LinesGo
    <3>1. \A i \in DOMAIN outbox : outbox[i].tries \in Nat
      BY <2>1, LineIs
    <3> QED
      BY <2>5, <3>1 DEF LinesGo
  <2>7. EventsGo
    BY <1>2 DEF EventsGo
  <2>8. PICK c : c = NoCommand
    OBVIOUS
  <2>9. c.at = "idle" /\ CommandFits(c)' /\ phone' = [phone EXCEPT ![p] = c]
    BY <1>2, <2>8 DEF NoCommand, CommandFits
  <2>10. \A l \in eventLink' : l \in eventLink \/
              /\ l = [mission |-> l.mission, event |-> l.event]
              /\ l.mission \in AppleMissions /\ l.event \in AppleEvents
              /\ mission'[l.mission].at # "none"
              /\ AppMade(l.mission)' => event'[l.event].for = l.mission
    <3> SUFFICES ASSUME NEW l \in eventLink', l \notin eventLink
                 PROVE  /\ l = [mission |-> l.mission, event |-> l.event]
                        /\ l.mission \in AppleMissions /\ l.event \in AppleEvents
                        /\ mission'[l.mission].at # "none"
                        /\ event'[l.event].for = l.mission
      OBVIOUS
    <3>1. l = [mission |-> m, event |-> e] /\ outbox[k].kind # "delete"
      BY <1>4
    <3>2. l.mission = m /\ l.event = e
      BY <3>1
    <3> QED
      BY <1>2, <2>2, <2>3, <3>1, <3>2
  <2>11. /\ ServerFits' /\ EventsFit' /\ PhonesFit'
         /\ phone'[p] = c /\ \A q \in Phones : q # p => phone'[q] = phone[q]
    BY <1>2, <2>5, <2>6, <2>7, <2>9, <2>10, PhoneSide
  <2>12. ASSUME NEW n \in AppleMissions, AppMade(n), n # m PROVE LinkedEvents(n)' = LinkedEvents(n)
    <3>1. CASE outbox[k].kind = "delete"
      BY <1>4, <3>1 DEF LinkedEvents
    <3>2. CASE outbox[k].kind # "delete"
      <4>1. e \notin LinkedEvents(n)
        BY <2>1, <2>3, <2>12, <3>2, LinkedIs
      <4> QED
        BY <1>4, <2>1, <2>2, <2>12, <3>2, <4>1, LinkMoves
    <3> QED
      BY <3>1, <3>2
  <2>13. ASSUME NEW n \in AppleMissions, Live(n)' PROVE Followed(n)'
    <3>1. Live(n) /\ AppMade(n)
      <4>1. \A i \in DOMAIN outbox : outbox[i].at = "dead" => outbox'[i].at = "dead"
        BY <2>4, <2>5
      <4>2. link' = link /\ mission'[n] = mission[n]
        BY <1>2
      <4> QED
        BY <2>5, <2>13, <4>1, <4>2 DEF Live, AppMade, Eligible
    <3>2. CASE n # m
      <4>1. SameLines(n)
        BY <2>2, <2>5, <3>2 DEF SameLines
      <4>2. StillShows(n)
        BY <1>2 DEF StillShows, Excused, Shows
      <4>3. LinkedEvents(n)' = LinkedEvents(n)
        BY <2>12, <3>1, <3>2
      <4>4. \A q \in Phones : phone'[q].at # "idle" => phone'[q] = phone[q]
        BY <2>9, <2>11
      <4> QED
        BY <1>2, <2>6, <2>11, <2>13, <3>1, <4>1, <4>2, <4>3, <4>4, FollowedOn
    <3>3. CASE n = m
      <4>1. Followed(m)
        BY <3>1, <3>3 DEF CatchUpInv
      <4>2. InTurn(m)
        BY <4>1 DEF Followed
      <4>3. Holds(p, m)
        BY <1>1, <1>2, <2>4 DEF Holds
      <4>4. Newer(m, k) \/ Shows(e, m)
        BY <1>1, <1>2, <4>1, <4>3 DEF Followed, HolderKnows
      <4>5. LinkedEvents(m)' = LinkedEvents(m) \cup {e}
        <5>1. eventLink' = {l \in eventLink : l.event # e} \cup {[mission |-> m, event |-> e]}
          BY <1>4, <2>2, <2>3, <3>1, <3>3 DEF Live
        <5> QED
          BY <2>1, <2>2, <5>1, LinkMoves
      <4>6. InTurn(m)'
        <5> SUFFICES ASSUME NEW i \in DOMAIN outbox, outbox[i].mission = m
                     PROVE  /\ outbox'[i].at # "queued" => outbox'[i].tries > 0
                            /\ \A j \in DOMAIN outbox : j < i /\ outbox[j].mission = m /\ outbox'[i].tries > 0
                                                           => outbox'[j].at = "done"
          BY <2>5, <4>5 DEF InTurn
        <5>1. /\ outbox[i].at # "queued" => outbox[i].tries > 0
              /\ \A j \in DOMAIN outbox : j < i /\ outbox[j].mission = m /\ outbox[i].tries > 0
                                             => outbox[j].at = "done"
              /\ outbox[k].at # "queued" => outbox[k].tries > 0
          BY <2>2, <4>2 DEF InTurn
        <5> QED
          BY <2>4, <2>5, <5>1
      <4>7. UnlinkedShows(m)'
        BY <4>5 DEF UnlinkedShows
      <4>8. LinkedShows(m)'
        <5> SUFFICES ASSUME \A i \in DOMAIN outbox' : outbox'[i].mission = m => ~Waiting(outbox'[i]),
                            NEW f, LinkedEvents(m)' = {f}
                     PROVE  Shows(f, m)'
          BY DEF LinkedShows, Waiting
        <5>1. f = e
          BY <4>5
        <5>2. ~Newer(m, k)
          <6> SUFFICES ASSUME NEW j \in DOMAIN outbox, outbox[j].mission = m, k < j PROVE FALSE
            BY DEF Newer
          <6>1. j # k /\ outbox'[j].at = outbox[j].at /\ outbox'[j] \in Line
            <7>1. j \in Nat /\ k \in Nat
              BY <2>1, <2>2, LineIs
            <7> QED
              BY <2>5, <7>1
          <6>2. ~Waiting(outbox'[j]) /\ outbox[j].at # "dead"
            BY <2>5, <3>1, <3>3 DEF Live
          <6>3. outbox[j].at = "done"
            BY <6>1, <6>2 DEF Waiting, Line
          <6>4. outbox[j].tries > 0
            BY <4>2, <6>3 DEF InTurn
          <6>5. outbox[k].at = "done"
            BY <2>2, <4>2, <6>4 DEF InTurn
          <6> QED
            BY <2>4, <6>5
        <5> QED
          BY <1>2, <4>4, <5>1, <5>2 DEF Shows, Excused
      <4>9. \A q \in Phones : ~Holds(q, m)'
        <5> SUFFICES ASSUME NEW q \in Phones, Holds(q, m)' PROVE FALSE
          OBVIOUS
        <5>1. q # p /\ phone'[q] = phone[q]
          BY <2>9, <2>11 DEF Holds
        <5>2. phone[q].at # "idle" /\ phone[q].mission = m
          BY <5>1 DEF Holds
        <5>3. phone[q].row \in DOMAIN outbox
          BY <2>1, <5>2 DEF PhonesFit, CommandFits
        <5>4. Holds(q, m)
          BY <2>5, <5>1, <5>3 DEF Holds
        <5> QED
          BY <2>1, <4>2, <4>3, <5>1, <5>4, OneHolder
      <4> QED
        BY <3>3, <4>6, <4>7, <4>8, <4>9 DEF Followed
    <3> QED
      BY <3>2, <3>3
  <2> QED
    BY <2>11, <2>13 DEF CatchUpInv
<1>5. \/ UNCHANGED <<outbox, eventLink>>
      \/ /\ Ends(p, k, phone[p].token) /\ outbox' = [outbox EXCEPT ![k].at = "done"]
         /\ eventLink' = IF outbox[k].kind = "delete" THEN eventLink
                         ELSE {l \in eventLink : l.event # e} \cup {[mission |-> m, event |-> e]}
  BY <1>1, Zenon DEF SettleApplied
<1> QED
  BY <1>3, <1>4, <1>5

\* ClaimNext: every earlier command of the mission is done, and the phone is given
\* the mission as it is.
LEMMA ClaimFollows ==
    ASSUME CatchUpInv, MakerInv', NEW p \in Phones, ClaimNext(p)
    PROVE  CatchUpInv'
<1>1. ServerFits /\ EventsFit /\ PhonesFit /\ outbox \in Seq(Line)
  BY DEF CatchUpInv, ServerFits
<1>2. PICK rows : rows = Buried(outbox)
  OBVIOUS
<1>3. /\ rows \in Seq(Line) /\ DOMAIN rows = DOMAIN outbox
      /\ \A j \in DOMAIN outbox :
            /\ rows[j].kind = outbox[j].kind /\ rows[j].mission = outbox[j].mission
            /\ rows[j].tries = outbox[j].tries
            /\ rows[j].at = outbox[j].at \/ rows[j].at = "dead"
  BY <1>1, <1>2, BuriedIs
<1>4. /\ phone[p].at = "idle"
      /\ UNCHANGED <<mission, link, eventLink, cached, retained, uploads, event, touched>>
  BY DEF ClaimNext, ghosts
<1>5. PICK i \in DOMAIN rows :
         /\ Claimable(rows, i) /\ ~Idle(rows[i])
         /\ \A j \in 1 .. i - 1 : Claimable(rows, j) => Idle(rows[j])
         /\ outbox' = [Skipped(rows, i) EXCEPT ![i].at = "claimed", ![i].tries = @ + 1]
         /\ LET r == rows[i]
                linked == LinkedEvents(r.mission)
            IN  \E e \in IF r.kind = "delete" THEN {r.event}
                         ELSE IF linked = {} THEN {Nobody} ELSE linked :
                  phone' = [phone EXCEPT ![p] =
                     Command(i, r.tries + 1,
                             IF r.kind = "delete" THEN "delete"
                             ELSE IF e = Nobody THEN "create" ELSE "update",
                             r.mission, e)]
  BY <1>2 DEF ClaimNext
<1>6. PICK r, m : r = rows[i] /\ r \in Line /\ m = r.mission
  BY <1>3
<1>7. PICK e : /\ e \in (IF r.kind = "delete" THEN {r.event}
                         ELSE IF LinkedEvents(m) = {} THEN {Nobody} ELSE LinkedEvents(m))
               /\ phone' = [phone EXCEPT ![p] =
                     Command(i, r.tries + 1,
                             IF r.kind = "delete" THEN "delete"
                             ELSE IF e = Nobody THEN "create" ELSE "update", m, e)]
  BY <1>5, <1>6
<1>8. PICK c : c = Command(i, r.tries + 1,
                           IF r.kind = "delete" THEN "delete"
                           ELSE IF e = Nobody THEN "create" ELSE "update", m, e)
  OBVIOUS
<1>9. /\ c.at = "apply" /\ c.row = i /\ c.token = r.tries + 1 /\ c.mission = m /\ c.event = e
      /\ c.text = mission[m].text
      /\ c.op = (IF r.kind = "delete" THEN "delete" ELSE IF e = Nobody THEN "create" ELSE "update")
  BY <1>8 DEF Command
<1>10. phone' = [phone EXCEPT ![p] = c]
  BY <1>7, <1>8
<1>11. /\ i \in DOMAIN outbox /\ outbox[i].mission = m /\ outbox[i].kind = r.kind
       /\ outbox[i].tries = r.tries /\ r.tries \in Nat /\ m \in AppleMissions /\ i \in Nat
       /\ r.at \in {"queued", "stale"} /\ outbox[i].at = r.at
       /\ DOMAIN outbox = 1 .. Len(outbox) /\ Len(outbox) \in Nat
  <2>1. i \in DOMAIN outbox /\ r.at \in {"queued", "stale"}
    BY <1>3, <1>5, <1>6 DEF Claimable
  <2>2. r.tries \in Nat /\ m \in AppleMissions
    BY <1>6 DEF Line
  <2> QED
    BY <1>1, <1>3, <1>6, <2>1, <2>2, LineIs
<1>12. /\ outbox' \in Seq(Line) /\ DOMAIN outbox' = DOMAIN outbox
       /\ outbox'[i].at = "claimed" /\ outbox'[i].tries = r.tries + 1
       /\ outbox'[i].kind = r.kind /\ outbox'[i].mission = m
       /\ \A j \in DOMAIN outbox : j # i =>
            \/ outbox'[j] = rows[j]
            \/ /\ j < i /\ Claimable(rows, j) /\ outbox'[j].at = "done" /\ outbox'[j].tries = rows[j].tries + 1
               /\ outbox'[j].kind = rows[j].kind /\ outbox'[j].mission = rows[j].mission
  <2>1. PICK s : s = Skipped(rows, i)
    OBVIOUS
  <2>2. /\ s \in Seq(Line) /\ DOMAIN s = DOMAIN rows
        /\ \A j \in DOMAIN rows :
                 \/ s[j] = rows[j]
                 \/ /\ j < i /\ Claimable(rows, j) /\ s[j].at = "done" /\ s[j].tries = rows[j].tries + 1
                    /\ s[j].kind = rows[j].kind /\ s[j].mission = rows[j].mission
    <3>1. rows \in Seq(Line) /\ i \in Nat
      BY <1>3, <1>11
    <3> QED
      BY ONLY <2>1, <3>1, SkippedIs
  <2>3. outbox' = [s EXCEPT ![i].at = "claimed", ![i].tries = @ + 1]
    BY <1>5, <2>1, Zenon
  <2>4. i \in DOMAIN s /\ s[i] = r
    BY <1>6, <1>11, <2>2
  <2>5. /\ outbox' \in Seq(Line) /\ DOMAIN outbox' = DOMAIN s
        /\ \A j \in DOMAIN s : j # i => outbox'[j] = s[j]
        /\ outbox'[i].at = "claimed" /\ outbox'[i].tries = s[i].tries + 1
        /\ outbox'[i].kind = s[i].kind /\ outbox'[i].mission = s[i].mission
    <3>1. PICK a : a = [r EXCEPT !.at = "claimed"]
      OBVIOUS
    <3>2. PICK t : t = [a EXCEPT !.tries = @ + 1]
      OBVIOUS
    <3>3. a \in Line /\ a.at = "claimed" /\ a.tries = r.tries /\ a.kind = r.kind /\ a.mission = r.mission
      <4>1. PICK x : x = "claimed" /\ x \in {"queued", "claimed", "stale", "done", "dead"}
        OBVIOUS
      <4> QED
        BY <1>6, <3>1, <4>1, LineChanges
    <3>4. t \in Line /\ t.at = "claimed" /\ t.tries = r.tries + 1 /\ t.kind = r.kind /\ t.mission = r.mission
      BY <3>2, <3>3, LineTried
    <3>5. outbox' = [s EXCEPT ![i] = t]
      <4>1. PICK g : g = [s EXCEPT ![i].at = "claimed"]
        OBVIOUS
      <4>2. outbox' = [g EXCEPT ![i].tries = @ + 1]
        BY <2>3, <4>1, Zenon
      <4>3. s \in Seq(Line)
        BY <2>2
      <4>4. g = [s EXCEPT ![i] = a]
        BY ONLY <2>4, <3>1, <4>1
      <4>5. g[i] = a
        BY ONLY <2>4, <4>3, <4>4
      <4>6. outbox' = [g EXCEPT ![i] = t]
        BY ONLY <3>2, <4>2, <4>5
      <4> QED
        BY ONLY <2>4, <4>3, <4>4, <4>6
    <3>6. /\ outbox' \in Seq(Line) /\ DOMAIN outbox' = DOMAIN s
          /\ \A j \in DOMAIN s : outbox'[j] = IF j = i THEN t ELSE s[j]
      <4>1. s \in Seq(Line)
        BY <2>2
      <4> QED
        BY ONLY <2>4, <3>4, <3>5, <4>1
    <3> QED
      BY <2>4, <3>4, <3>6
  <2> QED
    BY <1>3, <1>6, <2>2, <2>4, <2>5
<1>13. \A j \in DOMAIN outbox : /\ outbox'[j].kind = outbox[j].kind
                                /\ outbox'[j].mission = outbox[j].mission
                                /\ outbox[j].tries <= outbox'[j].tries
  <2> SUFFICES ASSUME NEW j \in DOMAIN outbox
               PROVE  /\ outbox'[j].kind = outbox[j].kind
                      /\ outbox'[j].mission = outbox[j].mission
                      /\ outbox[j].tries <= outbox'[j].tries
    OBVIOUS
  <2>1. outbox[j].tries \in Nat
    BY <1>1, LineIs
  <2>2. CASE j = i
    BY <1>11, <1>12, <2>2
  <2>3. CASE j # i
    BY <1>3, <1>12, <2>1, <2>3
  <2> QED
    BY <2>2, <2>3
<1>14. LinesGo
  BY <1>12, <1>13 DEF LinesGo
<1>15. EventsGo
  BY <1>4 DEF EventsGo
<1>16. CommandFits(c)'
  <2>1. AppMade(m)
    BY <1>11 DEF AppMade
  <2>2. LinkedEvents(m) # {} => \A f \in LinkedEvents(m) : f \in AppleEvents /\ event[f].for = m
    BY <1>1, <1>11, <2>1, LinkedIs
  <2>3. r.kind # "delete" => e = Nobody \/ (e \in AppleEvents /\ event[e].for = m)
    BY <1>7, <2>2
  <2> QED
    BY <1>4, <1>9, <1>11, <1>12, <2>3 DEF CommandFits
<1>17. \A q \in Phones : phone[q].at # "idle" /\ phone[q].row = i => phone[q].token # r.tries + 1
  <2> SUFFICES ASSUME NEW q \in Phones, phone[q].at # "idle", phone[q].row = i
               PROVE  phone[q].token # r.tries + 1
    OBVIOUS
  <2>1. phone[q].token \in Nat /\ phone[q].token <= outbox[i].tries
    BY <1>1 DEF PhonesFit, CommandFits
  <2> QED
    BY <1>11, <2>1
<1>18. /\ ServerFits' /\ EventsFit' /\ PhonesFit'
       /\ phone'[p] = c /\ \A q \in Phones : q # p => phone'[q] = phone[q]
  <2>1. \A q \in Phones : q # p /\ c.at # "idle" /\ phone[q].at # "idle" /\ phone[q].row = c.row
                             => phone[q].token # c.token
    BY <1>9, <1>17
  <2>2. /\ \A q \in Phones : q # p => retained'[q] = retained[q]
        /\ \A n \in DOMAIN retained'[p] : n \in DOMAIN retained[p] /\ retained'[p][n] = retained[p][n]
        /\ \A l \in eventLink' : l \in eventLink
        /\ UNCHANGED <<mission, link, cached, uploads>> /\ DOMAIN outbox' = DOMAIN outbox
    BY <1>4, <1>12
  <2> QED
    BY <1>10, <1>14, <1>15, <1>16, <2>1, <2>2, PhoneSide
<1>19. ASSUME NEW n \in AppleMissions, Live(n)' PROVE Followed(n)'
  <2>1. link.cutoff = 0 /\ LinkedEvents(n)' = LinkedEvents(n) /\ Eligible(mission[n])
    BY <1>4, <1>19 DEF Live, LinkedEvents
  <2>2. ASSUME NEW j \in DOMAIN outbox, outbox[j].mission = n, j # i
        PROVE  /\ outbox'[j].at = outbox[j].at /\ outbox'[j].tries = outbox[j].tries
               /\ rows[j].at = outbox[j].at /\ outbox[j].at # "dead"
    <3>1. outbox'[j].mission = n /\ outbox'[j].at # "dead" /\ rows[j].mission = n
      BY <1>3, <1>12, <1>13, <1>19, <2>2 DEF Live
    <3>2. outbox'[j] = rows[j]
      <4>1. ~Idle(rows[j])
        BY <2>1, <3>1 DEF Idle
      <4>2. j < i => ~Claimable(rows, j)
        BY <1>5, <1>11, <2>2, <4>1
      <4> QED
        BY <1>12, <2>2, <4>2
    <3> QED
      BY <1>3, <2>2, <3>1, <3>2
  <2>3. Live(n)
    BY <1>4, <1>11, <1>19, <2>1, <2>2 DEF Live
  <2>4. Followed(n)
    BY <2>3 DEF CatchUpInv
  <2>5. StillShows(n)
    BY <1>4 DEF StillShows, Excused, Shows
  <2>6. CASE n # m
    <3>1. SameLines(n)
      BY <1>11, <1>12, <1>13, <2>2, <2>6 DEF SameLines
    <3>2. \A q \in Phones : phone'[q].mission = n => phone'[q] = phone[q]
      BY <1>9, <1>18, <2>6
    <3> QED
      BY <1>4, <1>14, <1>18, <1>19, <2>1, <2>3, <2>5, <3>1, <3>2, FollowedOn
  <2>7. CASE n = m
    <3>1. InTurn(m) /\ UnlinkedShows(m)
      BY <2>4, <2>7 DEF Followed
    <3>2. ASSUME NEW j \in DOMAIN outbox, outbox[j].mission = m, j < i
          PROVE  outbox[j].at = "done"
      <4>1. j \in Nat /\ j # i /\ outbox[j] \in Line /\ j > 0
        BY <1>1, <1>11, <3>2, LineIs
      <4>2. /\ rows[j].at = outbox[j].at /\ outbox[j].at # "dead"
            /\ rows[j].mission = m /\ rows[j].tries \in Nat
        BY <1>3, <2>2, <2>7, <3>2, <4>1 DEF Line
      <4>3. ~Idle(rows[j])
        BY <2>1, <2>7, <4>2 DEF Idle
      <4>4. ~Claimable(rows, j)
        BY <1>5, <1>11, <3>2, <4>1, <4>3
      <4>5. \A k \in DOMAIN rows : rows[k].mission = m => rows[k].at # "claimed"
        BY <1>5, <1>6 DEF Claimable
      <4>6. rows[j].at \in {"queued", "stale"} => rows[j].tries < MaxAttempts
        <5>1. rows[j] = IF outbox[j].at \in {"queued", "stale"} /\ outbox[j].tries >= MaxAttempts
                        THEN [outbox[j] EXCEPT !.at = "dead"] ELSE outbox[j]
          BY <1>2, <3>2 DEF Buried
        <5>2. PICK b : b = outbox[j] /\ b \in Line
          BY <4>1
        <5>3. [b EXCEPT !.at = "dead"].at = "dead"
          BY <5>2 DEF Line
        <5>4. ~(outbox[j].at \in {"queued", "stale"} /\ outbox[j].tries >= MaxAttempts)
          BY <4>2, <5>1, <5>2, <5>3
        <5> QED
          BY <1>3, <3>2, <4>2, <5>4, AttemptsAssumption
      <4>7. rows[j].at \notin {"queued", "stale"}
        BY <2>1, <4>1, <4>2, <4>4, <4>5, <4>6 DEF Claimable
      <4>8. rows[j].at # "claimed"
        BY <1>3, <3>2, <4>2, <4>5
      <4> QED
        BY <4>1, <4>2, <4>7, <4>8 DEF Line
    <3>3. \A j : Newer(m, j)' <=> Newer(m, j)
      BY <1>12, <1>13 DEF Newer
    <3>4. InTurn(m)'
      <4> SUFFICES ASSUME NEW k \in DOMAIN outbox, outbox[k].mission = m
                   PROVE  /\ outbox'[k].at # "queued" => outbox'[k].tries > 0
                          /\ outbox'[k].at = "done" => LinkedEvents(m) # {}
                          /\ \A j \in DOMAIN outbox : j < k /\ outbox[j].mission = m /\ outbox'[k].tries > 0
                                                         => outbox'[j].at = "done"
        BY <1>12, <1>13, <2>1, <2>7 DEF InTurn
      <4>1. CASE k = i
        <5>1. outbox'[i].tries > 0 /\ outbox'[i].at = "claimed"
          BY <1>11, <1>12
        <5>2. \A j \in DOMAIN outbox : j < i /\ outbox[j].mission = m => outbox'[j].at = "done"
          <6> SUFFICES ASSUME NEW j \in DOMAIN outbox, j < i, outbox[j].mission = m PROVE outbox'[j].at = "done"
            OBVIOUS
          <6>1. j # i
            BY <1>11
          <6> QED
            BY <2>2, <2>7, <3>2, <6>1
        <5> QED
          BY <4>1, <5>1, <5>2
      <4>2. CASE k # i
        <5>1. outbox'[k].at = outbox[k].at /\ outbox'[k].tries = outbox[k].tries
          BY <2>2, <2>7, <4>2
        <5>2. /\ outbox[k].at # "queued" => outbox[k].tries > 0
              /\ outbox[k].at = "done" => LinkedEvents(m) # {}
              /\ \A j \in DOMAIN outbox : j < k /\ outbox[j].mission = m /\ outbox[k].tries > 0
                                             => outbox[j].at = "done"
          BY <3>1 DEF InTurn
        <5>3. ASSUME NEW j \in DOMAIN outbox, j < k, outbox[j].mission = m, outbox[k].tries > 0
              PROVE  outbox'[j].at = "done"
          <6>1. outbox[j].at = "done"
            BY <5>2, <5>3
          <6>2. j # i
            BY <1>11, <6>1
          <6> QED
            BY <2>2, <2>7, <5>3, <6>1, <6>2
        <5> QED
          BY <5>1, <5>2, <5>3
      <4> QED
        BY <4>1, <4>2
    <3>5. UnlinkedShows(m)'
      <4> SUFFICES ASSUME LinkedEvents(m) = {}, NEW f \in AppleEvents, event[f].for = m
                   PROVE  Shows(f, m)' \/ \E j \in DOMAIN outbox : outbox[j].mission = m /\ Newer(m, j)
        BY <1>4, <1>12, <1>13, <2>1, <2>7, <3>3 DEF UnlinkedShows
      <4>1. Shows(f, m) \/ \E j \in DOMAIN outbox : outbox[j].mission = m /\ Newer(m, j)
        BY <3>1 DEF UnlinkedShows
      <4> QED
        BY <1>4, <4>1 DEF Shows, Excused
    <3>6. LinkedShows(m)'
      BY <1>11, <1>12 DEF LinkedShows, Waiting
    <3>7. ASSUME NEW q \in Phones, Holds(q, m)' PROVE HolderKnows(q, m)'
      <4>1. CASE q = p
        <5>1. c.op = "create" => LinkedEvents(m) = {}
          <6>1. c.op = "create" => e = Nobody /\ r.kind # "delete"
            BY <1>9
          <6>2. AppMade(m)
            BY <1>11 DEF AppMade
          <6>3. Nobody \notin LinkedEvents(m)
            BY <1>1, <1>11, <6>2, LinkedIs, NobodyAssumption
          <6> QED
            BY <1>7, <6>1, <6>3
        <5> QED
          BY <1>4, <1>9, <1>12, <1>18, <2>1, <2>7, <4>1, <5>1 DEF HolderKnows
      <4>2. CASE q # p
        <5>1. PICK d, k : d = phone[q] /\ d = phone'[q] /\ k = d.row
          BY <1>18, <4>2
        <5>2. /\ d.at # "idle" /\ d.mission = m /\ outbox'[k].at \in {"claimed", "stale"}
              /\ outbox'[k].tries = d.token
          BY <3>7, <5>1 DEF Holds
        <5>3. k \in DOMAIN outbox /\ outbox[k].mission = m
          BY <1>1, <5>1, <5>2 DEF PhonesFit, CommandFits
        <5>4. k # i
          <6> SUFFICES ASSUME k = i PROVE FALSE
            OBVIOUS
          <6>1. d.token = r.tries + 1
            BY <1>12, <5>2
          <6>2. phone[q].at # "idle" /\ phone[q].row = i /\ phone[q].token = r.tries + 1
            BY <5>1, <5>2, <6>1
          <6> QED
            BY <1>17, <6>2
        <5>5. outbox'[k].at = outbox[k].at /\ outbox'[k].tries = outbox[k].tries
          BY <2>2, <2>7, <5>3, <5>4
        <5>6. Holds(q, m)
          BY <5>1, <5>2, <5>5 DEF Holds
        <5>7. HolderKnows(q, m)
          BY <2>4, <2>7, <5>6 DEF Followed
        <5>8. Newer(m, k)' <=> Newer(m, k)
          BY <3>3
        <5> QED
          BY <1>4, <2>1, <2>7, <5>1, <5>5, <5>7, <5>8 DEF HolderKnows, Shows, Excused
      <4> QED
        BY <4>1, <4>2
    <3> QED
      BY <2>7, <3>4, <3>5, <3>6, <3>7 DEF Followed
  <2> QED
    BY <2>6, <2>7
<1> QED
  BY <1>18, <1>19 DEF CatchUpInv

\* Steps of the user, and of a phone that reads: nothing of the server, and no
\* command.
LEMMA CopySide ==
    ASSUME CatchUpInv, MakerInv', UNCHANGED <<link, mission, eventLink, outbox, phone>>, EventsGo,
           uploads' = [q \in Phones |-> uploads'[q]],
           \A q \in Phones : CopiesFit(q)', \A n \in AppleMissions : StillShows(n)
    PROVE  CatchUpInv'
<1>1. ServerFits /\ EventsFit /\ PhonesFit
  BY DEF CatchUpInv
<1>2. LinesGo
  <2>1. \A i \in DOMAIN outbox : outbox[i].tries \in Nat
    BY <1>1, LineIs
  <2> QED
    BY <1>1, <2>1 DEF LinesGo, ServerFits
<1>3. MissionsGo
  BY <1>1 DEF MissionsGo, ServerFits
<1>4. ServerFits' /\ EventsFit'
  <2>1. link' = Connection(link'.state, link'.cutoff) /\ link'.cutoff \in Nat
        /\ (link'.state # "connected" /\ link'.cutoff = 0 => outbox' = << >>)
    BY <1>1 DEF ServerFits
  <2> QED
    BY <1>1, <1>2, <1>3, <2>1, ServerFitsOn
<1>5. PhonesFit'
  <2>1. \A q, r \in Phones : q # r /\ phone'[q].at # "idle" /\ phone'[r].at # "idle"
                             /\ phone'[q].row = phone'[r].row => phone'[q].token # phone'[r].token
    BY <1>1 DEF PhonesFit
  <2> QED
    BY <1>2, <2>1, PhonesFitOn
<1>6. ASSUME NEW n \in AppleMissions, Live(n)' PROVE Followed(n)'
  <2>1. Live(n) /\ SameLines(n) /\ LinkedEvents(n)' = LinkedEvents(n)
    BY <1>6 DEF Live, SameLines, LinkedEvents
  <2> QED
    BY <1>2, <1>4, <1>5, <1>6, <2>1, FollowedOn
<1> QED
  BY <1>4, <1>5, <1>6 DEF CatchUpInv

\* A phone that reads.
LEMMA ReadFollows ==
    ASSUME CatchUpInv, MakerInv', UNCHANGED <<link, mission, eventLink, outbox, phone, event, touched>>,
           NEW p \in Phones, uploads' = [q \in Phones |-> uploads'[q]],
           \A q \in Phones : q # p => /\ retained'[q] = retained[q] /\ uploads'[q] = uploads[q]
                                      /\ cached'[q] = cached[q],
           \A m \in DOMAIN retained'[p] :
              \/ m \in DOMAIN retained[p] /\ retained'[p][m] = retained[p][m]
              \/ /\ m \in AppleMissions /\ retained'[p][m] \in AppleEvents
                 /\ AppMade(m) => event[retained'[p][m]].for = m,
           uploads'[p] \in Seq(Entries(uploads'[p])),
           \A u \in Entries(uploads'[p]) :
              \/ u \in Entries(uploads[p])
              \/ /\ u.mission \in AppleMissions /\ u.event \in AppleEvents
                 /\ AppMade(u.mission) => event[u.event].for = u.mission
                 /\ mission[u.mission].at = "none" => cached'[p][u.mission].at # "none",
           \A m \in AppleMissions :
              cached[p][m].at # "none" /\ mission[m].at = "none" => cached'[p][m].at # "none"
    PROVE  CatchUpInv'
<1>1. ServerFits /\ EventsFit /\ PhonesFit /\ MakerInv
  BY DEF CatchUpInv
<1>2. LinesGo
  <2>1. \A i \in DOMAIN outbox : outbox[i].tries \in Nat
    BY <1>1, LineIs
  <2> QED
    BY <1>1, <2>1 DEF LinesGo, ServerFits
<1>3. MissionsGo /\ EventsGo
  BY <1>1 DEF MissionsGo, EventsGo, ServerFits
<1>4. ASSUME NEW q \in Phones PROVE CopiesFit(q)'
  <2>1. CopiesFit(q)
    BY <1>1 DEF PhonesFit
  <2>2. CASE q = p
    <3>1. \A m : AppMade(m)' <=> AppMade(m)
      BY DEF AppMade
    <3>2. \A m \in DOMAIN retained'[p] :
              \/ m \in DOMAIN retained[p] /\ retained'[p][m] = retained[p][m]
              \/ /\ m \in AppleMissions /\ retained'[p][m] \in AppleEvents
                 /\ AppMade(m)' => event'[retained'[p][m]].for = m
      BY <3>1
    <3>3. \A u \in Entries(uploads'[p]) :
              \/ u \in Entries(uploads[p])
              \/ /\ u.mission \in AppleMissions /\ u.event \in AppleEvents
                 /\ AppMade(u.mission)' => event'[u.event].for = u.mission
                 /\ mission'[u.mission].at = "none" => cached'[p][u.mission].at # "none"
      BY <3>1
    <3>4. \A m \in AppleMissions :
              cached[p][m].at # "none" /\ mission'[m].at = "none" => cached'[p][m].at # "none"
      OBVIOUS
    <3> QED
      BY <1>1, <1>2, <1>3, <2>1, <2>2, <3>2, <3>3, <3>4, CopiesFitOn
  <2>3. CASE q # p
    <3>1. uploads'[q] \in Seq(Entries(uploads'[q]))
      BY <2>1, <2>3 DEF CopiesFit
    <3> QED
      BY <1>1, <1>2, <1>3, <2>1, <2>3, <3>1, CopiesFitOn
  <2> QED
    BY <2>2, <2>3
<1>5. \A n \in AppleMissions : StillShows(n)
  BY DEF StillShows, Excused, Shows
<1> QED
  BY <1>3, <1>4, <1>5, CopySide

\* PullMissions: what is retained is a link of the server, or was retained.
LEMMA PullFollows ==
    ASSUME CatchUpInv, MakerInv', NEW p \in Phones, PullMissions(p)
    PROVE  CatchUpInv'
<1>1. UNCHANGED <<link, mission, eventLink, outbox, phone, event, touched, uploads>>
  BY DEF PullMissions, server, ghosts
<1>2. ServerFits /\ PhonesFit /\ MakerInv
  BY DEF CatchUpInv
<1> DEFINE gone == {m \in AppleMissions : mission[m].at = "deleted"}
           known == {m \in AppleMissions : cached[p][m].at # "none" \/ mission[m].at # "none"} \ gone
           linked == {m \in AppleMissions : LinkedEvents(m) # {}} \ gone
<1>3. PICK rows : rows = [m \in AppleMissions |->
              IF m \in gone THEN AbsentMission
              ELSE IF mission[m].at = "none" THEN cached[p][m] ELSE mission[m]]
  OBVIOUS
<1>4. cached' = [cached EXCEPT ![p] = rows]
  BY <1>3 DEF PullMissions
<1>5. PICK said \in [linked -> AppleEvents] :
         /\ \A m \in linked : said[m] \in LinkedEvents(m)
         /\ retained' = [retained EXCEPT ![p] =
                 [m \in (DOMAIN retained[p] \cup linked) \cap known |->
                    IF m \in linked THEN said[m] ELSE retained[p][m]]]
  <2>1. PICK said \in {f \in [linked -> AppleEvents] : \A m \in linked : f[m] \in LinkedEvents(m)} :
           retained' = [retained EXCEPT ![p] =
                 [m \in (DOMAIN retained[p] \cup linked) \cap known |->
                    IF m \in linked THEN said[m] ELSE retained[p][m]]]
    BY Zenon DEF PullMissions, LinksToTell
  <2> QED
    BY <2>1
<1>6. \A m \in AppleMissions : m \in gone <=> mission[m].at = "deleted"
  OBVIOUS
<1>7. linked \subseteq AppleMissions
  OBVIOUS
<1> HIDE DEF gone, known, linked
<1>8. PICK k : k = [m \in (DOMAIN retained[p] \cup linked) \cap known |->
                      IF m \in linked THEN said[m] ELSE retained[p][m]]
  OBVIOUS
<1>9. retained' = [retained EXCEPT ![p] = k]
  BY <1>5, <1>8
<1>10. /\ retained'[p] = k /\ cached'[p] = rows
       /\ \A q \in Phones : q # p => retained'[q] = retained[q] /\ cached'[q] = cached[q]
  BY <1>2, <1>4, <1>9 DEF MakerInv, AppleShapes
<1>11. ASSUME NEW m \in DOMAIN k
       PROVE  \/ m \in DOMAIN retained[p] /\ k[m] = retained[p][m]
              \/ /\ m \in AppleMissions /\ k[m] \in AppleEvents
                 /\ AppMade(m) => event[k[m]].for = m
  <2>1. CASE m \in linked
    <3>1. k[m] = said[m] /\ m \in AppleMissions
      BY <1>7, <1>8, <1>11, <2>1
    <3>2. k[m] \in LinkedEvents(m) /\ k[m] \in AppleEvents
      BY <1>5, <2>1, <3>1
    <3> QED
      BY <1>2, <3>1, <3>2, LinkedIs
  <2>2. CASE m \notin linked
    BY <1>8, <1>11, <2>2
  <2> QED
    BY <2>1, <2>2
<1>12. \A m \in AppleMissions : cached[p][m].at # "none" /\ mission[m].at = "none" => rows[m].at # "none"
  BY <1>3, <1>6
<1>13. uploads' = [q \in Phones |-> uploads'[q]] /\ uploads'[p] \in Seq(Entries(uploads'[p]))
       /\ uploads'[p] = uploads[p]
  BY <1>1, <1>2 DEF PhonesFit, CopiesFit
<1> QED
  BY <1>1, <1>10, <1>11, <1>12, <1>13, ReadFollows

\* What a scan queues.
LEMMA EnqueueIs ==
    ASSUME CatchUpInv, NEW p \in Phones, NEW kind, NEW m \in AppleMissions, NEW e \in AppleEvents, NEW base,
           Enqueue(p, kind, m, e, base)
    PROVE  /\ UNCHANGED <<link, mission, eventLink, outbox, phone, event, touched>>
           /\ uploads' = [q \in Phones |-> uploads'[q]]
           /\ \A q \in Phones : q # p => uploads'[q] = uploads[q]
           /\ uploads'[p] \in Seq(Entries(uploads'[p]))
           /\ \A u \in Entries(uploads'[p]) : u \in Entries(uploads[p]) \/ (u.mission = m /\ u.event = e)
<1>1. UNCHANGED <<link, mission, eventLink, outbox, phone, event, touched>>
  BY DEF Enqueue, server, ghosts
<1>2. PICK x : x = Upload(kind, m, e, base) /\ x.mission = m /\ x.event = e
  <2>1. Upload(kind, m, e, base).mission = m /\ Upload(kind, m, e, base).event = e
    BY DEF Upload
  <2> QED
    BY <2>1
<1>3. PICK s : s = uploads[p] /\ s \in Seq(Entries(s))
  BY DEF CatchUpInv, PhonesFit, CopiesFit
<1>4. PICK t : t = Append(s, x)
  OBVIOUS
<1>5. t \in Seq(Entries(t)) /\ \A u \in Entries(t) : u \in Entries(s) \/ u = x
  BY <1>3, <1>4, Entered
<1>6. uploads' = [uploads EXCEPT ![p] = t] /\ uploads = [q \in Phones |-> uploads[q]]
  BY <1>2, <1>3, <1>4 DEF Enqueue, CatchUpInv, PhonesFit
<1>7. /\ uploads' = [q \in Phones |-> uploads'[q]] /\ uploads'[p] = t
      /\ \A q \in Phones : q # p => uploads'[q] = uploads[q]
  BY <1>6
<1> QED
  BY <1>1, <1>2, <1>3, <1>5, <1>7

\* ScanNew, ScanKnown, ScanMissing: a new mission is not the app's.
LEMMA ScanFollows ==
    ASSUME CatchUpInv, MakerInv', NEW p \in Phones,
           \/ \E e \in AppleEvents : ScanNew(p, e)
           \/ \E m \in AppleMissions : ScanKnown(p, m) \/ ScanMissing(p, m)
    PROVE  CatchUpInv'
<1>1. /\ ServerFits /\ PhonesFit /\ CopiesFit(p)
      /\ retained = [q \in Phones |-> retained[q]]
      /\ cached = [q \in Phones |-> [m \in AppleMissions |-> cached[q][m]]]
      /\ \A m \in AppleMissions : IsRow(cached[p][m])
  BY DEF CatchUpInv, PhonesFit, MakerInv, AppleShapes
<1>2. CASE \E e \in AppleEvents : ScanNew(p, e)
  <2>1. PICK e \in AppleEvents : ScanNew(p, e)
    BY <1>2
  <2>2. PICK fresh : fresh = {m \in AppleMissions : mission[m].at = "none"
                                /\ \A q \in Phones : cached[q][m].at = "none"}
    OBVIOUS
  <2>3. fresh # {} /\ (CHOOSE x \in fresh : TRUE) \in fresh
    BY <2>1, <2>2 DEF ScanNew
  <2>4. PICK m : m = CHOOSE x \in fresh : TRUE
    OBVIOUS
  <2>5. m \in AppleMissions /\ mission[m].at = "none"
    BY <2>2, <2>3, <2>4
  <2>6. /\ Enqueue(p, "create", m, e, 0)
        /\ cached' = [cached EXCEPT ![p][m] = OrganizerRow(Normalized(e), 0)]
        /\ retained' = [retained EXCEPT ![p] =
                   [x \in DOMAIN @ \cup {m} |-> IF x = m THEN e ELSE @[x]]]
    BY <2>1, <2>2, <2>4, Zenon DEF ScanNew, ApplyLocal
  <2>7. PICK row : row = OrganizerRow(Normalized(e), 0) /\ row.at = "active"
    <3>1. OrganizerRow(Normalized(e), 0).at = "active"
      BY DEF OrganizerRow
    <3> QED
      BY <3>1
  <2>8. PICK kept : kept = retained[p]
    OBVIOUS
  <2>9. PICK k : k = [x \in DOMAIN kept \cup {m} |-> IF x = m THEN e ELSE kept[x]]
    OBVIOUS
  <2>10. retained' = [retained EXCEPT ![p] = k]
    BY <1>1, <2>6, <2>8, <2>9
  <2>11. retained'[p] = k /\ \A q \in Phones : q # p => retained'[q] = retained[q] /\ cached'[q] = cached[q]
    BY <1>1, <2>6, <2>10
  <2>12. cached'[p][m].at = "active" /\ \A n \in AppleMissions : n # m => cached'[p][n] = cached[p][n]
    BY <1>1, <2>5, <2>6, <2>7
  <2>13. ~AppMade(m)
    BY <1>1, <2>5 DEF AppMade, ServerFits
  <2>14. \A n \in DOMAIN k : (n \in DOMAIN kept /\ k[n] = kept[n]) \/ (n = m /\ k[n] = e)
    BY <2>9
  <2>15. /\ UNCHANGED <<link, mission, eventLink, outbox, phone, event, touched>>
         /\ uploads' = [q \in Phones |-> uploads'[q]]
         /\ \A q \in Phones : q # p => uploads'[q] = uploads[q]
         /\ uploads'[p] \in Seq(Entries(uploads'[p]))
         /\ \A u \in Entries(uploads'[p]) : u \in Entries(uploads[p]) \/ (u.mission = m /\ u.event = e)
    BY <2>5, <2>6, EnqueueIs
  <2>16. \A n \in DOMAIN retained'[p] :
              \/ n \in DOMAIN retained[p] /\ retained'[p][n] = retained[p][n]
              \/ /\ n \in AppleMissions /\ retained'[p][n] \in AppleEvents
                 /\ AppMade(n) => event[retained'[p][n]].for = n
    BY <2>5, <2>8, <2>11, <2>13, <2>14
  <2>17. \A u \in Entries(uploads'[p]) :
              \/ u \in Entries(uploads[p])
              \/ /\ u.mission \in AppleMissions /\ u.event \in AppleEvents
                 /\ AppMade(u.mission) => event[u.event].for = u.mission
                 /\ mission[u.mission].at = "none" => cached'[p][u.mission].at # "none"
    BY <2>5, <2>12, <2>13, <2>15
  <2>18. \A n \in AppleMissions :
              cached[p][n].at # "none" /\ mission[n].at = "none" => cached'[p][n].at # "none"
    BY <2>12
  <2> QED
    BY <2>11, <2>15, <2>16, <2>17, <2>18, ReadFollows
<1>3. CASE \E m \in AppleMissions : ScanKnown(p, m) \/ ScanMissing(p, m)
  <2>1. PICK m \in AppleMissions : ScanKnown(p, m) \/ ScanMissing(p, m)
    BY <1>3
  <2>2. PICK e : e = retained[p][m]
    OBVIOUS
  <2>3. PICK kind, base : Enqueue(p, kind, m, e, base)
    BY <2>1, <2>2 DEF ScanKnown, ScanMissing
  <2>4. /\ m \in DOMAIN retained[p] /\ cached[p][m].at # "none" /\ retained' = retained
        /\ cached' = cached \/ cached' = [cached EXCEPT ![p][m].text = Normalized(e)]
    BY <2>1, <2>2 DEF ScanKnown, ScanMissing, HasLocalLink
  <2>5. e \in AppleEvents /\ (AppMade(m) => event[e].for = m)
    BY <1>1, <2>2, <2>4 DEF CopiesFit
  <2>6. /\ \A q \in Phones : q # p => cached'[q] = cached[q]
        /\ \A n \in AppleMissions : cached'[p][n].at = cached[p][n].at
    <3>1. CASE cached' = cached
      BY <3>1
    <3>2. CASE cached' = [cached EXCEPT ![p][m].text = Normalized(e)]
      <4>1. PICK t : t = Normalized(e)
        OBVIOUS
      <4>2. PICK r : r = cached[p][m] /\ IsRow(r)
        BY <1>1
      <4>3. PICK row : row = [r EXCEPT !.text = t]
        OBVIOUS
      <4>4. row.at = r.at
        BY <4>2, <4>3 DEF IsRow
      <4>5. PICK old : old = cached[p] /\ old = [n \in AppleMissions |-> old[n]]
        BY <1>1
      <4>6. PICK rows : rows = [old EXCEPT ![m] = row]
        OBVIOUS
      <4>7. cached' = [cached EXCEPT ![p] = rows]
        BY <1>1, <3>2, <4>1, <4>2, <4>3, <4>5, <4>6
      <4>8. \A n \in AppleMissions : rows[n].at = old[n].at
        BY <4>2, <4>4, <4>5, <4>6
      <4> QED
        BY <1>1, <4>5, <4>7, <4>8
    <3> QED
      BY <2>4, <3>1, <3>2
  <2>7. /\ UNCHANGED <<link, mission, eventLink, outbox, phone, event, touched>>
        /\ uploads' = [q \in Phones |-> uploads'[q]]
        /\ \A q \in Phones : q # p => uploads'[q] = uploads[q]
        /\ uploads'[p] \in Seq(Entries(uploads'[p]))
        /\ \A u \in Entries(uploads'[p]) : u \in Entries(uploads[p]) \/ (u.mission = m /\ u.event = e)
    BY <2>3, <2>5, EnqueueIs
  <2>8. \A u \in Entries(uploads'[p]) :
              \/ u \in Entries(uploads[p])
              \/ /\ u.mission \in AppleMissions /\ u.event \in AppleEvents
                 /\ AppMade(u.mission) => event[u.event].for = u.mission
                 /\ mission[u.mission].at = "none" => cached'[p][u.mission].at # "none"
    BY <2>4, <2>5, <2>6, <2>7
  <2>9. /\ \A q \in Phones : q # p => /\ retained'[q] = retained[q] /\ uploads'[q] = uploads[q]
                                      /\ cached'[q] = cached[q]
        /\ \A n \in DOMAIN retained'[p] : n \in DOMAIN retained[p] /\ retained'[p][n] = retained[p][n]
        /\ \A n \in AppleMissions :
              cached[p][n].at # "none" /\ mission[n].at = "none" => cached'[p][n].at # "none"
    BY <2>4, <2>6, <2>7
  <2> QED
    BY <2>7, <2>8, <2>9, ReadFollows
<1> QED
  BY <1>2, <1>3

\* UserAddsEvent, UserEditsEvent, UserRemovesEvent: what the user changed is excused.
LEMMA UserFollows ==
    ASSUME CatchUpInv, MakerInv', NEW e \in AppleEvents,
           UserAddsEvent(e) \/ UserEditsEvent(e) \/ UserRemovesEvent(e)
    PROVE  CatchUpInv'
<1>1. UNCHANGED <<link, mission, eventLink, outbox, phone, cached, retained, uploads>>
  BY DEF UserAddsEvent, UserEditsEvent, UserRemovesEvent, server, device
<1>2. /\ ServerFits /\ EventsFit /\ PhonesFit /\ MakerInv
      /\ event = [f \in AppleEvents |-> event[f]] /\ \A f \in AppleEvents : IsEvent(event[f])
  BY DEF CatchUpInv, MakerInv, AppleShapes
<1>3. /\ \A f \in AppleEvents : f # e => event'[f] = event[f]
      /\ touched \subseteq touched'
      /\ \/ event[e].at = "none" /\ event'[e].at # "none" /\ event'[e].for = Nobody
         \/ /\ event'[e].for = event[e].for /\ (event'[e].at = "none" => event[e].at = "none")
            /\ Excused(e)'
  <2>1. PICK g : g = event[e] /\ IsEvent(g)
    BY <1>2
  <2>2. CASE UserAddsEvent(e)
    <3>1. PICK a : a = [AbsentEvent EXCEPT !.at = "there", !.text = texts']
      OBVIOUS
    <3>2. a.at = "there" /\ a.for = Nobody
      BY <3>1 DEF AbsentEvent
    <3>3. event[e].at = "none" /\ event' = [event EXCEPT ![e] = a] /\ touched' = touched
      BY <2>2, <3>1, Zenon DEF UserAddsEvent, ghosts
    <3> QED
      BY <1>2, <3>2, <3>3
  <2>3. CASE UserEditsEvent(e)
    <3>1. PICK x : event' = [event EXCEPT ![e].text = x] /\ touched' = touched \cup {e}
      BY <2>3 DEF UserEditsEvent
    <3>2. PICK h : h = [g EXCEPT !.text = x]
      OBVIOUS
    <3>3. h = [at |-> g.at, text |-> x, for |-> g.for, by |-> g.by]
      BY ONLY <2>1, <3>2, EventChanges
    <3>4. event'[e] = h /\ \A f \in AppleEvents : f # e => event'[f] = event[f]
      BY <1>2, <2>1, <3>1, <3>2
    <3>5. h.at = g.at /\ h.for = g.for
      BY <3>3
    <3>6. Excused(e)'
      BY <3>1 DEF Excused
    <3> QED
      BY <2>1, <3>1, <3>4, <3>5, <3>6
  <2>4. CASE UserRemovesEvent(e)
    <3>1. event' = [event EXCEPT ![e].at = "gone"] /\ touched' = touched
      BY <2>4 DEF UserRemovesEvent, ghosts
    <3>2. PICK h : h = [g EXCEPT !.at = "gone"]
      OBVIOUS
    <3>3. h = [at |-> "gone", text |-> g.text, for |-> g.for, by |-> g.by]
      BY ONLY <2>1, <3>2, EventChanges
    <3>4. event'[e] = h /\ \A f \in AppleEvents : f # e => event'[f] = event[f]
      BY <1>2, <2>1, <3>1, <3>2
    <3>5. h.at = "gone" /\ h.for = g.for
      BY <3>3
    <3>6. Excused(e)'
      BY <3>4, <3>5 DEF Excused
    <3> QED
      BY <2>1, <3>1, <3>4, <3>5, <3>6
  <2> QED
    BY <2>2, <2>3, <2>4
<1>4. EventsGo
  BY <1>3 DEF EventsGo
<1>5. ASSUME NEW n \in AppleMissions PROVE StillShows(n)
  <2> SUFFICES ASSUME NEW f \in AppleEvents, event'[f].for = n
               PROVE  /\ event[f].for = n
                      /\ Excused(f) => Excused(f)'
                      /\ Shows(f, n) => Shows(f, n)'
    BY DEF StillShows
  <2>1. CASE f # e
    BY <1>1, <1>3, <2>1 DEF Excused, Shows
  <2>2. CASE f = e
    <3>1. event'[e].for # Nobody
      BY <2>2, NobodyAssumption
    <3> QED
      BY <1>3, <2>2, <3>1 DEF Shows
  <2> QED
    BY <2>1, <2>2
<1>6. LinesGo
  <2>1. \A i \in DOMAIN outbox : outbox[i].tries \in Nat
    BY <1>2, LineIs
  <2> QED
    BY <1>1, <1>2, <2>1 DEF LinesGo, ServerFits
<1>7. MissionsGo
  BY <1>1, <1>2 DEF MissionsGo, ServerFits
<1>8. ASSUME NEW q \in Phones PROVE CopiesFit(q)'
  <2>1. CopiesFit(q)
    BY <1>2 DEF PhonesFit
  <2>2. uploads'[q] \in Seq(Entries(uploads'[q]))
    BY <1>1, <2>1 DEF CopiesFit
  <2> QED
    BY <1>1, <1>2, <1>4, <1>6, <1>7, <2>1, <2>2, CopiesFitOn
<1>9. uploads' = [q \in Phones |-> uploads'[q]]
  BY <1>1, <1>2 DEF PhonesFit
<1> QED
  BY <1>1, <1>4, <1>5, <1>8, <1>9, CopySide

\* No step breaks the invariant.
LEMMA CatchUpInvNext ==
    ASSUME CatchUpInv, [AppleNext]_appleVars
    PROVE  CatchUpInv'
<1>1. MakerInv'
  BY MakerInvNext DEF CatchUpInv
<1>2. CASE UNCHANGED appleVars
  <2>1. /\ UNCHANGED <<link, mission, eventLink, outbox, phone, event, touched, retained, uploads, cached>>
    BY <1>2 DEF appleVars, server, device, ghosts
  <2>2. CatchUpInv /\ EventsGo
    BY <2>1 DEF EventsGo
  <2>3. uploads' = [q \in Phones |-> uploads'[q]]
    BY <2>1 DEF CatchUpInv, PhonesFit
  <2>4. \A q \in Phones : CopiesFit(q)'
    BY <2>1 DEF CatchUpInv, PhonesFit, CopiesFit, AppMade
  <2>5. \A n \in AppleMissions : StillShows(n)
    BY <2>1 DEF StillShows, Excused, Shows
  <2> QED
    BY <1>1, <2>1, <2>2, <2>3, <2>4, <2>5, CopySide
<1>3. CASE \E m \in AppleMissions : SaveMission(m) \/ FinishMission(m) \/ RemoveMission(m)
  BY <1>1, <1>3, SaveFollows, FinishFollows
<1>4. CASE (\E export \in BOOLEAN : ConnectApple(export)) \/ DisconnectApple
  BY <1>1, <1>4, ConnectFollows, DisconnectFollows
<1>5. CASE \E p \in Phones : \/ ClaimNext(p) \/ PassOver(p) \/ ApplyCreate(p) \/ ApplyUpdate(p)
                             \/ ApplyDelete(p) \/ SaveLocalLink(p) \/ SettleApplied(p) \/ RunBreaks(p)
  BY <1>1, <1>5, ClaimFollows, PassFollows, ApplyCreateFollows, ApplyUpdateFollows, ApplyDeleteFollows,
     SaveLinkFollows, AppliedFollows, BreaksFollow
<1>6. CASE \E p \in Phones : \/ PullMissions(p) \/ AcceptCreate(p) \/ AcceptUpdate(p) \/ AcceptDelete(p)
                             \/ \E e \in AppleEvents : ScanNew(p, e)
                             \/ \E m \in AppleMissions : ScanKnown(p, m) \/ ScanMissing(p, m)
  BY <1>1, <1>6, PullFollows, CreateFollows, UpdateFollows, DeleteFollows, ScanFollows
<1>7. CASE \E i \in DOMAIN outbox : ClaimTimesOut(i)
  BY <1>1, <1>7, TimeoutFollows
<1>8. CASE \E e \in AppleEvents : UserAddsEvent(e) \/ UserEditsEvent(e) \/ UserRemovesEvent(e)
  BY <1>1, <1>8, UserFollows
<1> QED
  BY <1>2, <1>3, <1>4, <1>5, <1>6, <1>7, <1>8 DEF AppleNext

\* At first nothing is queued, and no event is linked.
LEMMA CatchUpInvInit == AppleInit => CatchUpInv
<1> SUFFICES ASSUME AppleInit PROVE CatchUpInv
  OBVIOUS
<1>1. MakerInv
  BY MakerInvInit
<1>2. /\ eventLink = {} /\ outbox = << >> /\ link = Connection("new", 0)
      /\ mission = [m \in AppleMissions |-> AbsentMission]
      /\ event = [e \in AppleEvents |-> AbsentEvent]
      /\ phone = [p \in Phones |-> NoCommand]
      /\ retained = [p \in Phones |-> << >>] /\ uploads = [p \in Phones |-> << >>]
  BY DEF AppleInit
<1>3. link.state = "new" /\ link.cutoff = 0
  BY <1>2 DEF Connection
<1>4. AbsentMission.at = "none" /\ AbsentMission.own = "none"
  BY DEF AbsentMission
<1>5. AbsentEvent.for = Nobody
  BY DEF AbsentEvent
<1>6. NoCommand.at = "idle"
  BY DEF NoCommand
<1>7. ServerFits
  BY <1>2, <1>3, <1>4 DEF ServerFits
<1>8. EventsFit
  BY <1>2, <1>5 DEF EventsFit
<1>9. PhonesFit
  <2>1. \A p \in Phones : CommandFits(phone[p])
    BY <1>2, <1>6 DEF CommandFits
  <2>2. \A p \in Phones : CopiesFit(p)
    BY <1>2 DEF CopiesFit, Entries
  <2> QED
    BY <1>2, <1>6, <2>1, <2>2 DEF PhonesFit
<1>10. \A m \in AppleMissions : ~Live(m)
  BY <1>2, <1>4 DEF Live, Eligible
<1> QED
  BY <1>1, <1>7, <1>8, <1>9, <1>10 DEF CatchUpInv

\* When the commands of a mission are done, the calendar shows the mission as it
\* is, however many phones ran them, and whatever was lost on the way
\* (apple-calendar-device-command-store.ts:263-274, :284).
THEOREM CalendarCatchesUpAlways == AppleSpec => []CalendarCatchesUp
<1>1. CatchUpInv => CalendarCatchesUp
  <2> SUFFICES ASSUME CatchUpInv, NEW l \in eventLink, link.cutoff = 0, Eligible(mission[l.mission]),
                      ~Busy(l.mission), Cardinality(LinkedEvents(l.mission)) = 1,
                      InCalendar(l.event), l.event \notin touched
               PROVE  event[l.event].text = mission[l.mission].text
    BY DEF CalendarCatchesUp
  <2>1. PICK m, e : m = l.mission /\ e = l.event
    OBVIOUS
  <2>2. m \in AppleMissions /\ ServerFits
    BY <2>1 DEF CatchUpInv, ServerFits
  <2>3. AppMade(m)
    BY <2>1 DEF Eligible, AppMade
  <2>4. e \in LinkedEvents(m)
    BY <2>1 DEF LinkedEvents
  <2>5. LinkedEvents(m) = {e}
    <3>1. PICK S : S = LinkedEvents(m)
      OBVIOUS
    <3>2. S \subseteq AppleEvents /\ e \in S /\ Cardinality(S) = 1
      BY <2>1, <2>2, <2>3, <2>4, <3>1, LinkedIs
    <3>3. IsFiniteSet(S)
      BY <3>2, FiniteAssumption, FS_Subset
    <3>4. IsFiniteSet(S \ {e}) /\ Cardinality(S \ {e}) = 0
      BY <3>2, <3>3, FS_RemoveElement
    <3>5. S \ {e} = {}
      BY <3>4, FS_EmptySet
    <3> QED
      BY <3>1, <3>2, <3>5
  <2>6. \A i \in DOMAIN outbox : outbox[i].mission = m => ~Waiting(outbox[i]) /\ outbox[i].at # "dead"
    BY <2>1 DEF Busy
  <2>7. Live(m)
    BY <2>1, <2>6 DEF Live
  <2>8. LinkedShows(m)
    BY <2>2, <2>7 DEF CatchUpInv, Followed
  <2>9. Shows(e, m)
    BY <2>5, <2>6, <2>8 DEF LinkedShows
  <2> QED
    BY <2>1, <2>9 DEF Shows, Excused, InCalendar
<1> QED
  BY <1>1, CatchUpInvInit, CatchUpInvNext, PTL DEF AppleSpec
=============================================================================

------------------------------ MODULE ChangeLog ------------------------------
(***************************************************************************)
(* The account change log of packages/database (account-change-log.ts): a  *)
(* Postgres table of numbered rows that server transactions append to, and *)
(* that the devices of the account pull from.                              *)
(*                                                                         *)
(* The model keeps what several transactions and several readers can do to *)
(* each other under READ COMMITTED: a statement sees the rows committed    *)
(* before it began and the transaction's own.  An append is three          *)
(* statements (advisory lock, max + 1, insert); a pull is three statements *)
(* with no transaction around them; a snapshot is two.  Retention of Story *)
(* drafts (redactStoryRetentionHistory in sync-store.ts, runOnce in        *)
(* product-media-cleanup.ts) deletes rows from the middle of the log.      *)
(*                                                                         *)
(* A reader applies a page in one local transaction with its cursor        *)
(* (server-sync.ts pullAuthoritativeState).  The last statement of a pull  *)
(* and that local transaction are one step here: in between, only this     *)
(* reader's own state matters, and its runs are serialised.                *)
(***************************************************************************)
EXTENDS Integers, Sequences, FiniteSets, FiniteSetsExt

CONSTANTS
    Writers,       \* server transactions that may be open at once
    Readers,       \* devices of the account
    Entities,      \* entities changes are about
    Retained,      \* the entities under Story retention (a subset of Entities)
    PageLimit,     \* rows a pull returns at most
    MaxSequence,   \* bound: the last sequence number the model hands out
    NoWriter       \* nobody holds the advisory lock

ASSUME WritersAssumption == NoWriter \notin Writers
ASSUME RetainedAssumption == Retained \subseteq Entities
ASSUME PageLimitAssumption == PageLimit \in Nat \ {0}
ASSUME MaxSequenceAssumption == MaxSequence \in Nat

VARIABLES
    table,    \* committed rows: sequence number -> change
    lock,     \* writer holding pg_advisory_xact_lock of the account
    pc,       \* pc[w]: where writer w is in its transaction
    next,     \* next[w]: the number w read as max + 1
    added,    \* added[w]: rows w inserted and has not committed
    removed,  \* removed[w]: committed rows w deleted and has not committed
    cursor,   \* cursor[r]: the sync cursor stored on device r
    held,     \* held[r][e]: number of the change of e that r holds, 0 if none
    rpc,      \* rpc[r]: which statement of a pull or snapshot comes next
    latest,   \* latest[r]: max(sequence) as a snapshot of r read it
    appended, \* appended[w]: the changes w inserted, in order (not in code)
    history   \* every change ever committed, in order (not in code)

txVars == <<lock, pc, next, added, removed, appended>>
readerVars == <<cursor, held, rpc, latest>>
vars == <<table, history, txVars, readerVars>>

Change == [entity : Entities, op : {"upsert", "delete"}]

MaxOf(S) == IF S = {} THEN 0 ELSE CHOOSE m \in S : \A x \in S : x <= m
MinOf(S) == IF S = {} THEN 0 ELSE CHOOSE m \in S : \A x \in S : m <= x
EmptyRows == [s \in {} |-> {}]

Init ==
    /\ table = EmptyRows
    /\ lock = NoWriter
    /\ pc = [w \in Writers |-> "idle"]
    /\ next = [w \in Writers |-> 0]
    /\ added = [w \in Writers |-> EmptyRows]
    /\ removed = [w \in Writers |-> {}]
    /\ appended = [w \in Writers |-> <<>>]
    /\ cursor = [r \in Readers |-> 0]
    /\ held = [r \in Readers |-> [e \in Entities |-> 0]]
    /\ rpc = [r \in Readers |-> "idle"]
    /\ latest = [r \in Readers |-> 0]
    /\ history = <<>>

(***************************************************************************)
(* Writers.                                                                *)
(***************************************************************************)

\* What the statements of w see: committed rows and its own work.
Visible(w) == (DOMAIN table \ removed[w]) \cup DOMAIN added[w]
Seen(w) ==
    [s \in Visible(w) |-> IF s \in DOMAIN added[w] THEN added[w][s] ELSE table[s]]

\* Mutant: the advisory lock does not wait.
LockWithoutWaiting(w) ==
    /\ pc[w] \in {"idle", "appended"}
    /\ lock' = w
    /\ pc' = [pc EXCEPT ![w] = "locked"]
    /\ UNCHANGED <<table, history, next, added, removed, appended, readerVars>>

\* pg_advisory_xact_lock: waits for another holder, passes its own.
Lock(w) ==
    /\ pc[w] \in {"idle", "appended"}
    /\ lock \in {NoWriter, w}
    /\ lock' = w
    /\ pc' = [pc EXCEPT ![w] = "locked"]
    /\ UNCHANGED <<table, history, next, added, removed, appended, readerVars>>

\* SELECT coalesce(max(sequence), 0) + 1, holding the lock
Number(w) ==
    /\ pc[w] = "locked"
    /\ next' = [next EXCEPT ![w] = MaxOf(Visible(w)) + 1]
    /\ pc' = [pc EXCEPT ![w] = "numbered"]
    /\ UNCHANGED <<table, history, lock, added, removed, appended, readerVars>>

\* The unique constraint on (account_id, sequence) would reject n.
Taken(n) == n \in DOMAIN table \/ \E v \in Writers : n \in DOMAIN added[v]

\* Mutant: the redaction removes deletions as well.
StaleWithDeletes(c, rows) ==
    {s \in DOMAIN rows :
        c.op = "delete" /\ c.entity \in Retained /\ rows[s].entity = c.entity}

\* What the retention delete c redacts: the older rows of its entity that are
\* no deletes themselves.
Stale(c, rows) ==
    {s \in DOMAIN rows :
        /\ c.op = "delete" /\ c.entity \in Retained
        /\ rows[s] = [entity |-> c.entity, op |-> "upsert"]}

\* INSERT, and for a retention delete the redaction that follows it in the
\* same function.  A taken number would abort the transaction: NumbersAreFree
\* says that none is.
Insert(w, c) ==
    /\ pc[w] = "numbered"
    /\ next[w] <= MaxSequence
    /\ ~Taken(next[w])
    /\ added' = [added EXCEPT ![w] =
                    [s \in (DOMAIN @ \ Stale(c, @)) \cup {next[w]} |->
                        IF s = next[w] THEN c ELSE @[s]]]
    /\ removed' = [removed EXCEPT ![w] = @ \cup Stale(c, table)]
    /\ appended' = [appended EXCEPT ![w] = Append(@, c)]
    /\ pc' = [pc EXCEPT ![w] = "appended"]
    /\ UNCHANGED <<table, history, lock, next, readerVars>>

RolledBack(w) ==
    /\ pc' = [pc EXCEPT ![w] = "idle"]
    /\ added' = [added EXCEPT ![w] = EmptyRows]
    /\ removed' = [removed EXCEPT ![w] = {}]
    /\ appended' = [appended EXCEPT ![w] = <<>>]
    /\ lock' = IF lock = w THEN NoWriter ELSE lock

\* COMMIT makes the rows visible and ends the advisory lock.
Commit(w) ==
    /\ pc[w] = "appended"
    /\ table' = Seen(w)
    /\ history' = history \o appended[w]
    /\ RolledBack(w)
    /\ UNCHANGED <<next, readerVars>>

\* Any error in the transaction: ROLLBACK.
Rollback(w) ==
    /\ pc[w] # "idle"
    /\ RolledBack(w)
    /\ UNCHANGED <<table, history, next, readerVars>>

(***************************************************************************)
(* Readers.                                                                *)
(***************************************************************************)

\* pullAccountChanges, first statement: max(sequence).
ReadLatest(r) ==
    /\ rpc[r] = "idle"
    /\ rpc' = [rpc EXCEPT ![r] =
                  IF cursor[r] > MaxOf(DOMAIN table) THEN "snapshot" ELSE "oldest"]
    /\ UNCHANGED <<table, history, txVars, cursor, held, latest>>

\* Second statement: min(sequence); an older cursor must take a snapshot.
ReadOldest(r) ==
    /\ rpc[r] = "oldest"
    /\ LET oldest == MinOf(DOMAIN table)
       IN  rpc' = [rpc EXCEPT ![r] =
                      IF oldest > 0 /\ cursor[r] < oldest - 1 THEN "snapshot" ELSE "page"]
    /\ UNCHANGED <<table, history, txVars, cursor, held, latest>>

\* Third statement: the first PageLimit rows after the cursor.
Page(r) ==
    {s \in DOMAIN table :
        /\ s > cursor[r]
        /\ Cardinality({t \in DOMAIN table : cursor[r] < t /\ t < s}) < PageLimit}

\* validateIncrementalPage: the page must start at the cursor and have no gap.
Contiguous(r) == \A s \in Page(r) : \A n \in cursor[r] + 1 .. s : n \in Page(r)

\* Mutant: of several changes of one entity the oldest wins.
TakingOldest(r, S) ==
    [e \in Entities |->
        LET hits == {s \in S : table[s].entity = e}
        IN  IF hits = {} THEN held[r][e] ELSE MinOf(hits)]

\* What r holds of e after it takes the rows in S, in ascending order.
Taking(r, S) ==
    [e \in Entities |->
        LET hits == {s \in S : table[s].entity = e}
        IN  IF hits = {} THEN held[r][e] ELSE MaxOf(hits)]

\* Mutants: the cursor is the number after the last row; the cursor moves by
\* the page size whatever the page holds; only a full page moves the cursor.
PageCursorPastLast(r) == IF Page(r) = {} THEN cursor[r] ELSE MaxOf(Page(r)) + 1
PageCursorByLimit(r) == IF Page(r) = {} THEN cursor[r] ELSE cursor[r] + PageLimit
PageCursorIfFull(r) == IF Cardinality(Page(r)) < PageLimit THEN cursor[r] ELSE MaxOf(Page(r))

\* nextCursor of a page: its last row, or the cursor it was asked for.
PageCursor(r) == IF Page(r) = {} THEN cursor[r] ELSE MaxOf(Page(r))

ApplyPage(r) ==
    /\ rpc[r] = "page"
    /\ Contiguous(r)
    /\ held' = [held EXCEPT ![r] = Taking(r, Page(r))]
    /\ cursor' = [cursor EXCEPT ![r] = PageCursor(r)]
    /\ rpc' = [rpc EXCEPT ![r] = "idle"]
    /\ UNCHANGED <<table, history, txVars, latest>>

\* A page with a gap throws: nothing is applied, the cursor stays.
RejectPage(r) ==
    /\ rpc[r] = "page"
    /\ ~Contiguous(r)
    /\ rpc' = [rpc EXCEPT ![r] = "idle"]
    /\ UNCHANGED <<table, history, txVars, cursor, held, latest>>

\* getAccountSnapshot, first statement: max(sequence) again.
SnapshotLatest(r) ==
    /\ rpc[r] = "snapshot"
    /\ latest' = [latest EXCEPT ![r] = MaxOf(DOMAIN table)]
    /\ rpc' = [rpc EXCEPT ![r] = "entries"]
    /\ UNCHANGED <<table, history, txVars, cursor, held>>

\* Mutant: the snapshot's cursor is read after its rows.
SnapshotCursorReadLast(r) == MaxOf(DOMAIN table)

\* nextCursor of a snapshot: the number its rows were limited to.
SnapshotCursor(r) == latest[r]

\* Second statement: the newest row of each entity up to that number, applied
\* on the device together with the cursor.
ApplySnapshot(r) ==
    /\ rpc[r] = "entries"
    /\ held' = [held EXCEPT ![r] = Taking(r, {s \in DOMAIN table : s <= latest[r]})]
    /\ cursor' = [cursor EXCEPT ![r] = SnapshotCursor(r)]
    /\ rpc' = [rpc EXCEPT ![r] = "idle"]
    /\ UNCHANGED <<table, history, txVars, latest>>

WriterStep(w) ==
    \/ Lock(w)
    \/ Number(w)
    \/ \E c \in Change : Insert(w, c)
    \/ Commit(w)
    \/ Rollback(w)

ReaderStep(r) ==
    \/ ReadLatest(r)
    \/ ReadOldest(r)
    \/ ApplyPage(r)
    \/ RejectPage(r)
    \/ SnapshotLatest(r)
    \/ ApplySnapshot(r)

Next ==
    \/ \E w \in Writers : WriterStep(w)
    \/ \E r \in Readers : ReaderStep(r)

Spec == Init /\ [][Next]_vars

\* Devices keep running: a sync run is triggered again on foreground, after
\* local changes and on reconnection.  Nothing is assumed of the writers.
FairSpec == Spec /\ \A r \in Readers : WF_vars(ReaderStep(r))

(***************************************************************************)
(* Properties.                                                             *)
(***************************************************************************)

Rows == UNION {[S -> Change] : S \in SUBSET (1 .. MaxSequence)}

\* Every variable has the shape the tables and the device store give it.
TypeOK ==
    /\ table \in Rows
    /\ lock \in Writers \cup {NoWriter}
    /\ pc \in [Writers -> {"idle", "locked", "numbered", "appended"}]
    /\ next \in [Writers -> 0 .. MaxSequence + 1]
    /\ added \in [Writers -> Rows]
    /\ removed \in [Writers -> SUBSET (1 .. MaxSequence)]
    /\ appended \in [Writers -> Seq(Change)]
    /\ cursor \in [Readers -> 0 .. MaxSequence]
    /\ held \in [Readers -> [Entities -> 0 .. MaxSequence]]
    /\ rpc \in [Readers -> {"idle", "oldest", "page", "snapshot", "entries"}]
    /\ latest \in [Readers -> 0 .. MaxSequence]
    /\ history \in Seq(Change)

\* Between the SELECT of max + 1 and the INSERT no other transaction takes the
\* number: an append never fails on the unique constraint, whatever the
\* interleaving, because pg_advisory_xact_lock is held to the end (:57).
NumbersAreFree == \A w \in Writers : pc[w] = "numbered" => ~Taken(next[w])

\* Behind position n of the changes h a retention delete of e follows.
WithdrawnIn(h, e, n) ==
    /\ e \in Retained
    /\ \E i \in n + 1 .. Len(h) : h[i] = [entity |-> e, op |-> "delete"]

\* The rows are the changes h, but for what h itself withdraws.
IsTableOf(rows, h) ==
    /\ DOMAIN rows \subseteq 1 .. Len(h)
    /\ \A s \in DOMAIN rows : rows[s] = h[s]
    /\ \A s \in DOMAIN h \ DOMAIN rows :
          h[s].op = "upsert" /\ WithdrawnIn(h, h[s].entity, s)
    /\ Len(h) > 0 => Len(h) \in DOMAIN rows

\* The table is the history of the account with nothing lost, renumbered or
\* rewritten, except Story rows that a later retention delete withdraws; and
\* the newest row is never redacted, so max + 1 never reuses a number.
TableIsHistory == IsTableOf(table, history)

Withdrawn(e, n) == WithdrawnIn(history, e, n)

\* A row never becomes visible behind a reader: what a commit adds is newer
\* than every committed row and than every cursor, so no device skips a change
\* because a slower transaction committed a smaller number later.
CommitsInOrder ==
    [][\A s \in DOMAIN table' \ DOMAIN table :
          /\ \A t \in DOMAIN table : t < s
          /\ \A r \in Readers : cursor[r] < s]_vars

LastIndexOf(e, n) == MaxOf({i \in DOMAIN history : i <= n /\ history[i].entity = e})

\* At its cursor a device holds, of every entity, the last change up to there;
\* what it misses is Story content whose retention delete is still ahead of
\* it.  This holds across torn reads: rows committed or redacted between the
\* statements of a pull or of a snapshot.
ReplicaIsFaithful ==
    \A r \in Readers, e \in Entities :
        \/ held[r][e] = LastIndexOf(e, cursor[r])
        \/ Withdrawn(e, cursor[r])

\* Every device that keeps syncing ends at the end of the log (docs:
\* technical-specification.md 14.2, an incremental pull or, for an expired or
\* corrupt cursor, a full snapshot).
CatchesUp == \A r \in Readers : <>[](cursor[r] = Len(history))

\* What can keep a device from the end of the log is one thing only: the page
\* behind its cursor has a hole, left by a redaction (server-sync.ts:199-222).
\* Torn reads, commits meanwhile, a cursor older than the oldest row and a page
\* limit only delay it.
OnlyHolesStop == \A r \in Readers : <>[](cursor[r] = Len(history) \/ ~Contiguous(r))

\* The log implements the feed its readers are promised.
Feed == INSTANCE AccountFeed WITH feed <- history, position <- cursor
FeedSpec == Feed!Spec
=============================================================================

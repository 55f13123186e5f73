--------------------------- MODULE ChangeLogProofs ---------------------------
(***************************************************************************)
(* Proofs about ChangeLog for every number of transactions, devices,       *)
(* entities, page sizes and lengths of the log, and about Settings, whose  *)
(* row the devices copy one by one.                                        *)
(***************************************************************************)
EXTENDS ChangeLog, Settings, WellFoundedInduction, TLAPS

(***************************************************************************)
(* Least and greatest elements of bounded sets of numbers.                 *)
(***************************************************************************)
\* A non-empty set of naturals has a least element (what MinOf chooses).
LEMMA LeastExists ==
    ASSUME NEW T, T \subseteq Nat, T # {}
    PROVE  \E x \in T : \A y \in T : x <= y
<1> DEFINE R == {ss \in Nat \X Nat : ss[1] < ss[2]}
<1>1. IsWellFoundedOn(R, Nat)
  BY NatLessThanWellFounded DEF OpToRel
<1>2. PICK x \in T : \A y \in T : ~ (<<y, x>> \in R)
  <2> HIDE DEF R
  <2> QED BY <1>1, WFMin
<1>3. \A y \in T : x <= y
  <2> TAKE y \in T
  <2>1. x \in Nat /\ y \in Nat  OBVIOUS
  <2>2. <<y, x>> \in Nat \X Nat  BY <2>1
  <2>3. <<y, x>> \notin R  BY <1>2
  <2>4. ~ (y < x)  BY <2>2, <2>3
  <2> QED BY <2>1, <2>4
<1> QED BY <1>3

\* A non-empty set of numbers up to N has a greatest element.
LEMMA GreatestExists ==
    ASSUME NEW N \in Nat, NEW S \in SUBSET (0 .. N), S # {}
    PROVE  \E x \in S : \A y \in S : y <= x
<1> DEFINE T == {N - x : x \in S}
<1>1. \A x \in S : N - x \in Nat  OBVIOUS
<1>2. T \subseteq Nat  BY <1>1
<1>3. T # {}  OBVIOUS
<1>4. PICK t \in T : \A y \in T : t <= y  BY <1>2, <1>3, LeastExists
<1>5. PICK x \in S : t = N - x  OBVIOUS
<1>6. \A y \in S : y <= x  BY <1>4, <1>5
<1> QED BY <1>6

\* MaxOf is the greatest element, and 0 of nothing: SQL's coalesce(max, 0).
LEMMA MaxOfIsMax ==
    ASSUME NEW N \in Nat, NEW S \in SUBSET (0 .. N)
    PROVE  /\ MaxOf(S) \in 0 .. N
           /\ S # {} => MaxOf(S) \in S
           /\ \A x \in S : x <= MaxOf(S)
<1>1. CASE S = {}  BY <1>1 DEF MaxOf
<1>2. CASE S # {}
  <2>1. \E m \in S : \A x \in S : x <= m  BY <1>2, GreatestExists
  <2>2. MaxOf(S) \in S /\ \A x \in S : x <= MaxOf(S)  BY <1>2, <2>1 DEF MaxOf
  <2> QED BY <2>2
<1> QED BY <1>1, <1>2

\* MinOf is the least element, and 0 of nothing.
LEMMA MinOfIsMin ==
    ASSUME NEW N \in Nat, NEW S \in SUBSET (0 .. N)
    PROVE  /\ MinOf(S) \in 0 .. N
           /\ S # {} => MinOf(S) \in S
           /\ \A x \in S : MinOf(S) <= x
<1>1. CASE S = {}  BY <1>1 DEF MinOf
<1>2. CASE S # {}
  <2>0. S \subseteq Nat  OBVIOUS
  <2>1. \E m \in S : \A x \in S : m <= x  BY <1>2, <2>0, LeastExists
  <2>2. MinOf(S) \in S /\ \A x \in S : MinOf(S) <= x  BY <1>2, <2>1 DEF MinOf
  <2> QED BY <2>2
<1> QED BY <1>1, <1>2

\* A function on numbers of the log, with changes as values, is a set of rows.
LEMMA RowsIntro ==
    ASSUME NEW S \in SUBSET (1 .. MaxSequence), NEW f \in [S -> Change]
    PROVE  f \in Rows
BY DEF Rows

\* A set of rows is a function from numbers of the log to changes.
LEMMA RowsElim ==
    ASSUME NEW f \in Rows
    PROVE  DOMAIN f \subseteq 1 .. MaxSequence /\ f \in [DOMAIN f -> Change]
BY DEF Rows

\* No rows: the log of a new account, and what a fresh transaction has added.
LEMMA EmptyRowsType == EmptyRows \in Rows
<1>1. EmptyRows \in [{} -> Change]  BY DEF EmptyRows
<1> QED BY <1>1, RowsIntro

(***************************************************************************)
(* Type correctness.                                                       *)
(***************************************************************************)
\* What TypeOK needs to be inductive: a number that was read is no 0.
NumberRead == \A w \in Writers : pc[w] = "numbered" => next[w] # 0

\* A new account and idle devices are type correct.
LEMMA TypeInit == Init => TypeOK /\ NumberRead
BY EmptyRowsType, MaxSequenceAssumption DEF Init, TypeOK, NumberRead

\* What a statement of w sees has numbers of the log.
LEMMA VisibleNumbers ==
    ASSUME TypeOK, NEW w \in Writers
    PROVE  Visible(w) \subseteq 1 .. MaxSequence
BY RowsElim DEF TypeOK, Visible

\* A page and what it leaves on the device stay within the numbers of the log.
LEMMA PageType ==
    ASSUME TypeOK, NEW r \in Readers
    PROVE  /\ PageCursor(r) \in 0 .. MaxSequence
           /\ \A S \in SUBSET (DOMAIN table) : Taking(r, S) \in [Entities -> 0 .. MaxSequence]
<1> USE MaxSequenceAssumption
<1>1. DOMAIN table \subseteq 0 .. MaxSequence  BY RowsElim DEF TypeOK
<1>2. Page(r) \in SUBSET (0 .. MaxSequence)  BY <1>1 DEF Page
<1>3. PageCursor(r) \in 0 .. MaxSequence  BY <1>2, MaxOfIsMax DEF PageCursor, TypeOK
<1>4. ASSUME NEW S \in SUBSET (DOMAIN table)
      PROVE  Taking(r, S) \in [Entities -> 0 .. MaxSequence]
  <2>1. ASSUME NEW e \in Entities
        PROVE  MaxOf({s \in S : table[s].entity = e}) \in 0 .. MaxSequence
    BY <1>1, MaxOfIsMax
  <2>2. \A e \in Entities : held[r][e] \in 0 .. MaxSequence  BY DEF TypeOK
  <2> QED BY <2>1, <2>2 DEF Taking
<1> QED BY <1>3, <1>4

\* Numbers that are read stay numbers: max + 1 is never 0, and no step resets
\* the number of a transaction that is about to insert.
LEMMA NumberReadNext == TypeOK /\ NumberRead /\ [Next]_vars => NumberRead'
<1> SUFFICES ASSUME TypeOK, NumberRead, [Next]_vars, NEW v \in Writers, pc'[v] = "numbered"
             PROVE  next'[v] # 0
  BY DEF NumberRead
<1> USE MaxSequenceAssumption
<1>1. ASSUME NEW w \in Writers, Number(w) PROVE next'[v] # 0
  <2>1. Visible(w) \in SUBSET (0 .. MaxSequence)  BY VisibleNumbers
  <2>2. MaxOf(Visible(w)) \in 0 .. MaxSequence  BY <2>1, MaxOfIsMax
  <2> QED BY <1>1, <2>2 DEF Number, TypeOK, NumberRead
<1>2. ASSUME NEW w \in Writers, Lock(w) \/ (\E c \in Change : Insert(w, c))
                                \/ Commit(w) \/ Rollback(w)
      PROVE  next'[v] # 0
  BY <1>2 DEF Lock, Insert, Commit, Rollback, RolledBack, TypeOK, NumberRead
<1>3. CASE UNCHANGED txVars
  BY <1>3 DEF txVars, NumberRead
<1>4. ASSUME NEW r \in Readers, ReaderStep(r) PROVE UNCHANGED txVars
  BY <1>4 DEF ReaderStep, ReadLatest, ReadOldest, ApplyPage, RejectPage,
              SnapshotLatest, ApplySnapshot
<1>5. CASE UNCHANGED vars
  BY <1>3, <1>5 DEF vars
<1> QED BY <1>1, <1>2, <1>3, <1>4, <1>5 DEF Next, WriterStep

\* Every step of a writer or a reader keeps every variable in its type.
LEMMA TypeNext == TypeOK /\ NumberRead /\ [Next]_vars => TypeOK'
<1> SUFFICES ASSUME TypeOK, NumberRead, [Next]_vars PROVE TypeOK'
  OBVIOUS
<1> USE MaxSequenceAssumption
<1>1. ASSUME NEW w \in Writers, Lock(w) PROVE TypeOK'
  BY <1>1 DEF Lock, TypeOK, readerVars
<1>2. ASSUME NEW w \in Writers, Number(w) PROVE TypeOK'
  <2>1. MaxOf(Visible(w)) + 1 \in 0 .. MaxSequence + 1
    <3>1. Visible(w) \in SUBSET (0 .. MaxSequence)  BY VisibleNumbers
    <3>2. MaxOf(Visible(w)) \in 0 .. MaxSequence  BY <3>1, MaxOfIsMax
    <3> QED BY <3>2
  <2> QED BY <1>2, <2>1 DEF Number, TypeOK, readerVars
<1>3. ASSUME NEW w \in Writers, NEW c \in Change, Insert(w, c) PROVE TypeOK'
  <2> DEFINE S == (DOMAIN added[w] \ Stale(c, added[w])) \cup {next[w]}
             f == [s \in S |-> IF s = next[w] THEN c ELSE added[w][s]]
  <2>1. next[w] \in 1 .. MaxSequence
    BY <1>3 DEF Insert, TypeOK, NumberRead
  <2>2. added[w] \in Rows  BY DEF TypeOK
  <2>3. S \in SUBSET (1 .. MaxSequence)  BY <2>1, <2>2, RowsElim
  <2>4. f \in [S -> Change]  BY <2>2, RowsElim
  <2>5. f \in Rows  BY <2>3, <2>4, RowsIntro
  <2>6. added' = [added EXCEPT ![w] = f]  BY <1>3 DEF Insert, TypeOK
  <2>7. Stale(c, table) \subseteq 1 .. MaxSequence  BY RowsElim DEF TypeOK, Stale
  <2>8. removed' \in [Writers -> SUBSET (1 .. MaxSequence)]
    BY <1>3, <2>7 DEF Insert, TypeOK
  <2>9. appended' \in [Writers -> Seq(Change)]
    BY <1>3 DEF Insert, TypeOK
  <2> HIDE DEF f
  <2>10. added' \in [Writers -> Rows]  BY <2>5, <2>6 DEF TypeOK
  <2> QED BY <1>3, <2>8, <2>9, <2>10 DEF Insert, TypeOK, readerVars
<1>4. ASSUME NEW w \in Writers, Commit(w) PROVE TypeOK'
  <2>1. table' \in Rows
    <3>1. table' \in [Visible(w) -> Change]
      <4>1. added[w] \in Rows /\ table \in Rows  BY DEF TypeOK
      <4> QED BY <1>4, <4>1, RowsElim DEF Commit, Seen, Visible
    <3> QED BY <3>1, VisibleNumbers, RowsIntro
  <2>2. history' \in Seq(Change)  BY <1>4 DEF Commit, TypeOK
  <2> QED BY <1>4, <2>1, <2>2, EmptyRowsType DEF Commit, RolledBack, TypeOK, readerVars
<1>5. ASSUME NEW w \in Writers, Rollback(w) PROVE TypeOK'
  BY <1>5, EmptyRowsType DEF Rollback, RolledBack, TypeOK, readerVars
<1>6. ASSUME NEW r \in Readers, ReadLatest(r) PROVE TypeOK'
  BY <1>6 DEF ReadLatest, TypeOK, txVars
<1>7. ASSUME NEW r \in Readers, ReadOldest(r) PROVE TypeOK'
  BY <1>7 DEF ReadOldest, TypeOK, txVars
<1>8. ASSUME NEW r \in Readers, ApplyPage(r) PROVE TypeOK'
  <2>1. Page(r) \in SUBSET (DOMAIN table)  BY DEF Page
  <2>2. Taking(r, Page(r)) \in [Entities -> 0 .. MaxSequence]  BY <2>1, PageType
  <2>3. PageCursor(r) \in 0 .. MaxSequence  BY PageType
  <2> QED BY <1>8, <2>2, <2>3 DEF ApplyPage, TypeOK, txVars
<1>9. ASSUME NEW r \in Readers, RejectPage(r) PROVE TypeOK'
  BY <1>9 DEF RejectPage, TypeOK, txVars
<1>10. ASSUME NEW r \in Readers, SnapshotLatest(r) PROVE TypeOK'
  <2>1. DOMAIN table \in SUBSET (0 .. MaxSequence)  BY RowsElim DEF TypeOK
  <2>2. MaxOf(DOMAIN table) \in 0 .. MaxSequence  BY <2>1, MaxOfIsMax
  <2> QED BY <1>10, <2>2 DEF SnapshotLatest, TypeOK, txVars
<1>11. ASSUME NEW r \in Readers, ApplySnapshot(r) PROVE TypeOK'
  <2>1. Taking(r, {s \in DOMAIN table : s <= latest[r]}) \in [Entities -> 0 .. MaxSequence]
    BY PageType
  <2> QED BY <1>11, <2>1 DEF ApplySnapshot, SnapshotCursor, TypeOK, txVars
<1>12. CASE UNCHANGED vars
  BY <1>12 DEF TypeOK, vars, txVars, readerVars
<1> QED
  BY <1>1, <1>2, <1>3, <1>4, <1>5, <1>6, <1>7, <1>8, <1>9, <1>10, <1>11, <1>12
     DEF Next, WriterStep, ReaderStep

\* Every variable keeps the shape the tables and the device store give it.
THEOREM TypeCorrect == Spec => []TypeOK
<1>1. Init => TypeOK /\ NumberRead  BY TypeInit
<1>2. TypeOK /\ NumberRead /\ [Next]_vars => (TypeOK /\ NumberRead)'
  BY TypeNext, NumberReadNext
<1> QED BY <1>1, <1>2, PTL DEF Spec

(***************************************************************************)
(* The log under its writers.  The inductive invariant says of every open  *)
(* transaction that it holds the lock and that what it would commit is     *)
(* again a table of the history it would commit.                           *)
(***************************************************************************)
Full(w) == history \o appended[w]

WriterInv(w) ==
    /\ pc[w] = "idle" =>
          added[w] = EmptyRows /\ removed[w] = {} /\ appended[w] = <<>>
    /\ pc[w] # "idle" => lock = w /\ IsTableOf(Seen(w), Full(w))
    /\ pc[w] = "numbered" => next[w] = Len(Full(w)) + 1
    /\ pc[w] = "appended" => appended[w] # <<>>
    /\ DOMAIN added[w] \subseteq Len(history) + 1 .. Len(Full(w))

LogInv ==
    /\ TypeOK
    /\ TableIsHistory
    /\ \A w \in Writers : WriterInv(w)

\* Inserting row Len(h) + 1 with its redaction into a table of h gives a table
\* of h followed by that change.
LEMMA InsertKeepsTable ==
    ASSUME NEW h \in Seq(Change), NEW rows, IsTableOf(rows, h), NEW c \in Change, NEW after,
           DOMAIN after = (DOMAIN rows \ Stale(c, rows)) \cup {Len(h) + 1},
           \A s \in DOMAIN after : after[s] = IF s = Len(h) + 1 THEN c ELSE rows[s]
    PROVE  IsTableOf(after, Append(h, c))
<1> DEFINE H == Append(h, c)
<1>1. /\ Len(H) = Len(h) + 1 /\ DOMAIN H = 1 .. Len(h) + 1 /\ Len(h) \in Nat
      /\ H[Len(h) + 1] = c /\ \A i \in 1 .. Len(h) : H[i] = h[i]
  OBVIOUS
<1> HIDE DEF H
<1>2. DOMAIN after \subseteq 1 .. Len(H)
  BY <1>1 DEF IsTableOf
<1>3. \A s \in DOMAIN after : after[s] = H[s]
  BY <1>1 DEF IsTableOf
<1>4. ASSUME NEW s \in DOMAIN H \ DOMAIN after
      PROVE  H[s].op = "upsert" /\ WithdrawnIn(H, H[s].entity, s)
  <2>1. s \in 1 .. Len(h) /\ H[s] = h[s]  BY <1>1
  <2>2. CASE s \notin DOMAIN rows
    <3>1. h[s].op = "upsert" /\ WithdrawnIn(h, h[s].entity, s)
      BY <2>1, <2>2 DEF IsTableOf
    <3>2. PICK i \in s + 1 .. Len(h) : h[i] = [entity |-> h[s].entity, op |-> "delete"]
      BY <3>1 DEF WithdrawnIn
    <3>3. i \in s + 1 .. Len(H) /\ H[i] = h[i]  BY <1>1, <2>1
    <3> QED BY <2>1, <3>1, <3>2, <3>3 DEF WithdrawnIn
  <2>3. CASE s \in DOMAIN rows
    <3>1. s \in Stale(c, rows)  BY <2>1, <2>3
    <3>2. h[s] = [entity |-> c.entity, op |-> "upsert"]
      BY <2>3, <3>1 DEF Stale, IsTableOf
    <3>3. c = [entity |-> c.entity, op |-> "delete"] /\ c.entity \in Retained
      BY <3>1 DEF Stale, Change
    <3>4. Len(h) + 1 \in s + 1 .. Len(H)  BY <1>1, <2>1
    <3> QED BY <1>1, <2>1, <3>2, <3>3, <3>4 DEF WithdrawnIn
  <2> QED BY <2>2, <2>3
<1>5. Len(H) \in DOMAIN after  BY <1>1
<1> QED BY <1>2, <1>3, <1>4, <1>5 DEF IsTableOf, H

\* The greatest row of a table of h is the last change of h.
LEMMA NewestRow ==
    ASSUME NEW h \in Seq(Change), NEW rows, IsTableOf(rows, h)
    PROVE  MaxOf(DOMAIN rows) = Len(h)
<1>1. DOMAIN rows \in SUBSET (0 .. Len(h)) /\ Len(h) \in Nat  BY DEF IsTableOf
<1>2. /\ MaxOf(DOMAIN rows) \in 0 .. Len(h)
      /\ \A s \in DOMAIN rows : s <= MaxOf(DOMAIN rows)
  BY <1>1, MaxOfIsMax
<1>3. CASE Len(h) = 0  BY <1>2, <1>3
<1>4. CASE Len(h) > 0  BY <1>1, <1>2, <1>4 DEF IsTableOf
<1> QED BY <1>1, <1>3, <1>4

\* A transaction that has done nothing sees the table.
LEMMA IdleSees ==
    ASSUME TypeOK, NEW w \in Writers, added[w] = EmptyRows, removed[w] = {}
    PROVE  Seen(w) = table
<1>1. DOMAIN EmptyRows = {}  BY DEF EmptyRows
<1>2. Visible(w) = DOMAIN table  BY <1>1 DEF Visible
<1>3. table = [s \in DOMAIN table |-> table[s]]
  BY RowsElim DEF TypeOK
<1> QED BY <1>1, <1>2, <1>3 DEF Seen

\* The log as w would commit it: the history and then what w has appended.
LEMMA FullType ==
    ASSUME TypeOK, NEW w \in Writers
    PROVE  /\ Full(w) \in Seq(Change)
           /\ Len(Full(w)) = Len(history) + Len(appended[w])
           /\ Len(history) \in Nat /\ Len(appended[w]) \in Nat
           /\ appended[w] = <<>> => Full(w) = history
BY DEF Full, TypeOK

\* An empty table is the table of an empty history, and nobody holds the lock.
LEMMA LogInit == Init => LogInv
<1> SUFFICES ASSUME Init PROVE LogInv  OBVIOUS
<1>1. TypeOK  BY TypeInit
<1>2. DOMAIN EmptyRows = {}  BY DEF EmptyRows
<1>3. TableIsHistory  BY <1>2 DEF Init, TableIsHistory, IsTableOf
<1>4. ASSUME NEW w \in Writers PROVE WriterInv(w)
  BY <1>2 DEF Init, WriterInv
<1> QED BY <1>1, <1>3, <1>4 DEF LogInv

\* Steps that leave the writers' variables alone.
LEMMA LogStutter ==
    ASSUME LogInv, TypeOK', UNCHANGED <<table, history, txVars>>
    PROVE  LogInv'
<1>1. TableIsHistory'  BY DEF LogInv, TableIsHistory
<1>2. ASSUME NEW w \in Writers PROVE WriterInv(w)'
  <2>1. WriterInv(w)  BY DEF LogInv
  <2>2. Full(w)' = Full(w) /\ Seen(w)' = Seen(w)
    BY DEF txVars, Full, Seen, Visible
  <2> QED BY <2>1, <2>2 DEF WriterInv, txVars
<1> QED BY <1>1, <1>2 DEF LogInv

\* Every step keeps the table equal to its history and every open transaction
\* in line with the lock: one case for each statement of a writer.
LEMMA LogNext == LogInv /\ TypeOK' /\ [Next]_vars => LogInv'
<1> SUFFICES ASSUME LogInv, TypeOK', [Next]_vars PROVE LogInv'
  OBVIOUS
<1>1. ASSUME NEW w \in Writers, Lock(w) PROVE LogInv'
  <2>1. TableIsHistory'  BY <1>1 DEF Lock, LogInv, TableIsHistory
  <2>2. ASSUME NEW v \in Writers PROVE WriterInv(v)'
    <3>1. WriterInv(v) /\ TypeOK  BY DEF LogInv
    <3>2. Full(v)' = Full(v) /\ Seen(v)' = Seen(v)
      BY <1>1 DEF Lock, Full, Seen, Visible
    <3>3. CASE v = w
      <4>1. IsTableOf(Seen(w), Full(w))
        <5>1. CASE pc[w] = "idle"
          <6>1. Seen(w) = table  BY <3>1, <3>3, <5>1, IdleSees DEF WriterInv
          <6>2. Full(w) = history  BY <3>1, <3>3, <5>1, FullType DEF WriterInv
          <6> QED BY <6>1, <6>2 DEF LogInv, TableIsHistory
        <5>2. CASE pc[w] # "idle"  BY <3>1, <3>3, <5>2 DEF WriterInv
        <5> QED BY <5>1, <5>2
      <4> QED BY <1>1, <3>1, <3>2, <3>3, <4>1 DEF Lock, WriterInv, TypeOK
    <3>4. CASE v # w
      <4>1. pc[v] = "idle"
        BY <1>1, <3>1, <3>4, WritersAssumption DEF Lock, WriterInv
      <4> QED BY <1>1, <3>1, <3>2, <3>4, <4>1 DEF Lock, WriterInv, TypeOK
    <3> QED BY <3>3, <3>4
  <2> QED BY <2>1, <2>2 DEF LogInv
<1>2. ASSUME NEW w \in Writers, Number(w) PROVE LogInv'
  <2>1. TableIsHistory'  BY <1>2 DEF Number, LogInv, TableIsHistory
  <2>2. ASSUME NEW v \in Writers PROVE WriterInv(v)'
    <3>1. WriterInv(v) /\ TypeOK  BY DEF LogInv
    <3>2. Full(v)' = Full(v) /\ Seen(v)' = Seen(v)
      BY <1>2 DEF Number, Full, Seen, Visible
    <3>3. CASE v = w
      <4>1. IsTableOf(Seen(w), Full(w))  BY <1>2, <3>1, <3>3 DEF Number, WriterInv
      <4>2. Full(w) \in Seq(Change)  BY <3>1, FullType
      <4>3. MaxOf(Visible(w)) = Len(Full(w))
        BY <4>1, <4>2, NewestRow DEF Seen
      <4> QED BY <1>2, <3>1, <3>2, <3>3, <4>3 DEF Number, WriterInv, TypeOK
    <3>4. CASE v # w
      BY <1>2, <3>1, <3>2, <3>4 DEF Number, WriterInv, TypeOK
    <3> QED BY <3>3, <3>4
  <2> QED BY <2>1, <2>2 DEF LogInv
<1>3. ASSUME NEW w \in Writers, NEW c \in Change, Insert(w, c) PROVE LogInv'
  <2>1. TableIsHistory'  BY <1>3 DEF Insert, LogInv, TableIsHistory
  <2>2. TypeOK /\ WriterInv(w)  BY DEF LogInv
  <2>3. /\ Full(w) \in Seq(Change) /\ Len(history) \in Nat
        /\ Len(Full(w)) \in Nat /\ Len(Full(w)) >= Len(history)
        /\ next[w] = Len(Full(w)) + 1 /\ IsTableOf(Seen(w), Full(w))
    BY <1>3, <2>2, FullType DEF Insert, WriterInv
  <2>4. Full(w)' = Append(Full(w), c)
    BY <1>3, <2>2 DEF Insert, Full, TypeOK
  <2>5. DOMAIN table \cap DOMAIN added[w] = {}
    BY <2>2, <2>3 DEF LogInv, TableIsHistory, IsTableOf, WriterInv
  <2>6. /\ added'[w] = [s \in (DOMAIN added[w] \ Stale(c, added[w])) \cup {next[w]} |->
                           IF s = next[w] THEN c ELSE added[w][s]]
        /\ removed'[w] = removed[w] \cup Stale(c, table)
        /\ table' = table
    BY <1>3, <2>2 DEF Insert, TypeOK
  <2>7. DOMAIN Seen(w) = Visible(w) /\ DOMAIN Seen(w)' = Visible(w)'
    BY DEF Seen
  <2>8. Stale(c, Seen(w)) = (Stale(c, table) \ removed[w]) \cup Stale(c, added[w])
    BY <2>5 DEF Seen, Visible, Stale
  <2>9. next[w] \notin DOMAIN table
    BY <2>3 DEF LogInv, TableIsHistory, IsTableOf
  <2>10. DOMAIN Seen(w)' = (DOMAIN Seen(w) \ Stale(c, Seen(w))) \cup {Len(Full(w)) + 1}
    <3>1. Visible(w)' = (DOMAIN table \ (removed[w] \cup Stale(c, table)))
                          \cup (DOMAIN added[w] \ Stale(c, added[w])) \cup {next[w]}
      BY <2>6 DEF Visible
    <3>2. Stale(c, added[w]) \cap DOMAIN table = {}  BY <2>5 DEF Stale
    <3>3. Stale(c, table) \cap DOMAIN added[w] = {}  BY <2>5 DEF Stale
    <3> QED BY <2>3, <2>7, <2>8, <3>1, <3>2, <3>3 DEF Visible
  <2>11. \A s \in DOMAIN Seen(w)' :
            Seen(w)'[s] = IF s = Len(Full(w)) + 1 THEN c ELSE Seen(w)[s]
    <3> SUFFICES ASSUME NEW s \in DOMAIN Seen(w)'
                 PROVE  Seen(w)'[s] = IF s = Len(Full(w)) + 1 THEN c ELSE Seen(w)[s]
      OBVIOUS
    <3>1. Seen(w)'[s] = IF s \in DOMAIN added'[w] THEN added'[w][s] ELSE table[s]
      BY <2>6 DEF Seen
    <3>2. CASE s = Len(Full(w)) + 1
      BY <2>3, <2>6, <3>1, <3>2
    <3>3. CASE s # Len(Full(w)) + 1
      <4>1. s \in DOMAIN Seen(w) /\ s \notin Stale(c, Seen(w))  BY <2>10, <3>3
      <4>2. Seen(w)[s] = IF s \in DOMAIN added[w] THEN added[w][s] ELSE table[s]
        BY <4>1 DEF Seen
      <4>3. s \in DOMAIN added'[w] <=> s \in DOMAIN added[w]
        BY <2>3, <2>6, <2>8, <3>3, <4>1
      <4> QED BY <2>3, <2>6, <3>1, <3>3, <4>2, <4>3
    <3> QED BY <3>2, <3>3
  <2>12. IsTableOf(Seen(w)', Full(w)')
    <3> HIDE DEF Full, Seen
    <3>1. IsTableOf(Seen(w)', Append(Full(w), c))
      BY <2>3, <2>10, <2>11, InsertKeepsTable
    <3> QED BY <2>4, <3>1
  <2>13. WriterInv(w)'
    <3>1. Len(Full(w)') = Len(Full(w)) + 1  BY <2>3, <2>4
    <3>2. DOMAIN added'[w] \subseteq Len(history) + 1 .. Len(Full(w)')
      BY <2>2, <2>3, <2>6, <3>1 DEF WriterInv
    <3>3. pc'[w] = "appended" /\ lock' = w /\ history' = history
      BY <1>3, <2>2 DEF Insert, WriterInv, TypeOK
    <3>4. appended'[w] # <<>>
      <4>1. appended'[w] = Append(appended[w], c) /\ appended[w] \in Seq(Change)
        BY <1>3, <2>2 DEF Insert, TypeOK
      <4>2. Len(appended'[w]) = Len(appended[w]) + 1 /\ Len(appended[w]) \in Nat  BY <4>1
      <4> QED BY <4>2
    <3> QED BY <2>12, <3>2, <3>3, <3>4 DEF WriterInv
  <2>14. ASSUME NEW v \in Writers, v # w PROVE WriterInv(v)'
    <3>1. WriterInv(v) /\ pc[v] = "idle"
      BY <1>3, <2>2, <2>14 DEF LogInv, WriterInv, Insert
    <3>2. Full(v)' = Full(v)
      BY <1>3, <2>2, <2>14 DEF Insert, Full, TypeOK
    <3> QED BY <1>3, <2>2, <2>14, <3>1, <3>2 DEF Insert, WriterInv, TypeOK
  <2> QED BY <2>1, <2>13, <2>14 DEF LogInv
<1>4. ASSUME NEW w \in Writers, Commit(w) PROVE LogInv'
  <2>1. TypeOK /\ WriterInv(w)  BY DEF LogInv
  <2>2. IsTableOf(Seen(w), Full(w))  BY <1>4, <2>1 DEF Commit, WriterInv
  <2>3. TableIsHistory'
    BY <1>4, <2>2 DEF Commit, Full, TableIsHistory
  <2>4. ASSUME NEW v \in Writers PROVE WriterInv(v)'
    <3>1. /\ pc'[v] = "idle" /\ added'[v] = EmptyRows
          /\ removed'[v] = {} /\ appended'[v] = <<>>
      <4>1. CASE v = w  BY <1>4, <2>1, <4>1 DEF Commit, RolledBack, TypeOK
      <4>2. CASE v # w
        BY <1>4, <2>1, <4>2 DEF Commit, RolledBack, TypeOK, LogInv, WriterInv
      <4> QED BY <4>1, <4>2
    <3>2. DOMAIN EmptyRows = {}  BY DEF EmptyRows
    <3> QED BY <3>1, <3>2 DEF WriterInv
  <2> QED BY <2>3, <2>4 DEF LogInv
<1>5. ASSUME NEW w \in Writers, Rollback(w) PROVE LogInv'
  <2>1. TableIsHistory'  BY <1>5 DEF Rollback, LogInv, TableIsHistory
  <2>2. TypeOK /\ WriterInv(w)  BY DEF LogInv
  <2>3. ASSUME NEW v \in Writers PROVE WriterInv(v)'
    <3>1. /\ pc'[v] = "idle" /\ added'[v] = EmptyRows
          /\ removed'[v] = {} /\ appended'[v] = <<>>
      <4>1. CASE v = w  BY <1>5, <2>2, <4>1 DEF Rollback, RolledBack, TypeOK
      <4>2. CASE v # w
        BY <1>5, <2>2, <4>2 DEF Rollback, RolledBack, TypeOK, LogInv, WriterInv
      <4> QED BY <4>1, <4>2
    <3>2. DOMAIN EmptyRows = {}  BY DEF EmptyRows
    <3> QED BY <3>1, <3>2 DEF WriterInv
  <2> QED BY <2>1, <2>3 DEF LogInv
<1>6. ASSUME NEW r \in Readers, ReaderStep(r) PROVE LogInv'
  <2>1. UNCHANGED <<table, history, txVars>>
    BY <1>6 DEF ReaderStep, ReadLatest, ReadOldest, ApplyPage, RejectPage,
                SnapshotLatest, ApplySnapshot
  <2> QED BY <2>1, LogStutter
<1>7. CASE UNCHANGED vars
  BY <1>7, LogStutter DEF vars
<1> QED BY <1>1, <1>2, <1>3, <1>4, <1>5, <1>6, <1>7 DEF Next, WriterStep

\* The invariant of the writers holds in every reachable state.
LEMMA LogInvariant == Spec => [](LogInv /\ NumberRead)
<1>1. Init => LogInv /\ NumberRead  BY LogInit, TypeInit
<1>2. LogInv /\ NumberRead /\ [Next]_vars => (LogInv /\ NumberRead)'
  BY TypeNext, NumberReadNext, LogNext DEF LogInv
<1> QED BY <1>1, <1>2, PTL DEF Spec

\* However transactions interleave, commit or roll back, the rows of the log
\* are its history, and only withdrawn Story rows are missing.
THEOREM TableIsHistoryAlways == Spec => []TableIsHistory
BY LogInvariant, PTL DEF LogInv

\* The number an append is about to use is free: the holder of the advisory
\* lock numbers after everything it can see and nobody else inserts.
LEMMA FreeNumbers == LogInv => NumbersAreFree
<1> SUFFICES ASSUME LogInv, NEW w \in Writers, pc[w] = "numbered" PROVE ~Taken(next[w])
  BY DEF NumbersAreFree
<1>1. WriterInv(w) /\ TypeOK  BY DEF LogInv
<1>2. /\ next[w] = Len(Full(w)) + 1 /\ lock = w
      /\ Len(Full(w)) \in Nat /\ Len(history) \in Nat /\ Len(Full(w)) >= Len(history)
  BY <1>1, FullType DEF WriterInv
<1>3. next[w] \notin DOMAIN table
  BY <1>2 DEF LogInv, TableIsHistory, IsTableOf
<1>4. ASSUME NEW v \in Writers PROVE next[w] \notin DOMAIN added[v]
  <2>1. CASE v = w  BY <1>1, <1>2, <2>1 DEF WriterInv
  <2>2. CASE v # w
    <3>1. added[v] = EmptyRows  BY <1>2, <2>2 DEF LogInv, WriterInv
    <3> QED BY <3>1 DEF EmptyRows
  <2> QED BY <2>1, <2>2
<1> QED BY <1>3, <1>4 DEF Taken

\* An append never meets the unique constraint on (account_id, sequence)
\* (account-change-log.ts:57-77), for any number of concurrent transactions.
THEOREM NumbersAreFreeAlways == Spec => []NumbersAreFree
BY LogInvariant, FreeNumbers, PTL

(***************************************************************************)
(* The readers.                                                            *)
(***************************************************************************)
\* A device is never ahead of the log, and takes a snapshot only to move on.
ReaderInv ==
    \A r \in Readers :
        /\ cursor[r] <= Len(history)
        /\ latest[r] <= Len(history)
        /\ rpc[r] = "snapshot" => cursor[r] < Len(history)
        /\ rpc[r] = "entries" => cursor[r] < latest[r]

\* The log only grows.
LEMMA HistoryGrows ==
    ASSUME LogInv, [Next]_vars
    PROVE  /\ Len(history) \in Nat /\ Len(history') \in Nat
           /\ Len(history) <= Len(history')
           /\ \A i \in 1 .. Len(history) : history'[i] = history[i]
<1>1. TypeOK  BY DEF LogInv
<1>2. ASSUME NEW w \in Writers, Commit(w)
      PROVE  /\ Len(history) <= Len(history') /\ Len(history') \in Nat
             /\ \A i \in 1 .. Len(history) : history'[i] = history[i]
  BY <1>1, <1>2 DEF Commit, TypeOK
<1>3. CASE UNCHANGED history  BY <1>1, <1>3 DEF TypeOK
<1>4. UNCHANGED history \/ \E w \in Writers : Commit(w)
  BY DEF Next, WriterStep, ReaderStep, Lock, Number, Insert, Rollback, vars, ReadLatest,
         ReadOldest, ApplyPage, RejectPage, SnapshotLatest, ApplySnapshot
<1> QED BY <1>1, <1>2, <1>3, <1>4 DEF TypeOK

\* Devices start at the beginning of the log.
LEMMA ReaderInit == Init => ReaderInv
BY DEF Init, ReaderInv

\* No step takes a device beyond the log, and one that was told to take a
\* snapshot ends further on than it was.
LEMMA ReaderNext == LogInv /\ ReaderInv /\ [Next]_vars => ReaderInv'
<1> SUFFICES ASSUME LogInv, ReaderInv, [Next]_vars, NEW r \in Readers
             PROVE  /\ cursor'[r] <= Len(history')
                    /\ latest'[r] <= Len(history')
                    /\ rpc'[r] = "snapshot" => cursor'[r] < Len(history')
                    /\ rpc'[r] = "entries" => cursor'[r] < latest'[r]
  BY DEF ReaderInv
<1> DEFINE Goal == /\ cursor'[r] <= Len(history')
                   /\ latest'[r] <= Len(history')
                   /\ rpc'[r] = "snapshot" => cursor'[r] < Len(history')
                   /\ rpc'[r] = "entries" => cursor'[r] < latest'[r]
<1>1. /\ TypeOK /\ history \in Seq(Change) /\ IsTableOf(table, history)
      /\ cursor[r] \in Nat /\ latest[r] \in Nat /\ Len(history) \in Nat
  BY MaxSequenceAssumption DEF LogInv, TypeOK, TableIsHistory
<1>2. MaxOf(DOMAIN table) = Len(history)  BY <1>1, NewestRow
<1>3. /\ Len(history) <= Len(history') /\ Len(history') \in Nat
  BY HistoryGrows
<1>4. CASE UNCHANGED <<cursor, latest, rpc>>
  BY <1>1, <1>3, <1>4 DEF ReaderInv
<1>5. ASSUME NEW q \in Readers, ReadLatest(q) PROVE Goal
  BY <1>1, <1>2, <1>5 DEF ReadLatest, ReaderInv, TypeOK
<1>6. ASSUME NEW q \in Readers, ReadOldest(q) PROVE Goal
  <2>1. MinOf(DOMAIN table) <= Len(history) /\ MinOf(DOMAIN table) \in Nat
    BY <1>1, MinOfIsMin DEF IsTableOf
  <2> QED BY <1>1, <1>6, <2>1 DEF ReadOldest, ReaderInv, TypeOK
<1>7. ASSUME NEW q \in Readers, ApplyPage(q) PROVE Goal
  <2>1. Page(q) \in SUBSET (0 .. Len(history))  BY <1>1 DEF Page, IsTableOf
  <2>2. MaxOf(Page(q)) <= Len(history)  BY <1>1, <2>1, MaxOfIsMax
  <2>3. PageCursor(q) <= Len(history)  BY <2>2 DEF PageCursor, ReaderInv
  <2> QED BY <1>1, <1>7, <2>3 DEF ApplyPage, ReaderInv, TypeOK
<1>8. ASSUME NEW q \in Readers, RejectPage(q) PROVE Goal
  BY <1>1, <1>8 DEF RejectPage, ReaderInv, TypeOK
<1>9. ASSUME NEW q \in Readers, SnapshotLatest(q) PROVE Goal
  BY <1>1, <1>2, <1>9 DEF SnapshotLatest, ReaderInv, TypeOK
<1>10. ASSUME NEW q \in Readers, ApplySnapshot(q) PROVE Goal
  BY <1>1, <1>10 DEF ApplySnapshot, SnapshotCursor, ReaderInv, TypeOK
<1>11. ASSUME NEW w \in Writers, WriterStep(w) PROVE UNCHANGED <<cursor, latest, rpc>>
  BY <1>11 DEF WriterStep, Lock, Number, Insert, Commit, Rollback, readerVars
<1>12. CASE UNCHANGED vars  BY <1>4, <1>12 DEF vars, readerVars
<1> QED BY <1>4, <1>5, <1>6, <1>7, <1>8, <1>9, <1>10, <1>11, <1>12 DEF Next, ReaderStep

\* The invariants of writers and readers together, in every reachable state.
LEMMA LogAndReaders == Spec => [](LogInv /\ NumberRead /\ ReaderInv)
<1>1. Init => LogInv /\ NumberRead /\ ReaderInv  BY LogInit, TypeInit, ReaderInit
<1>2. LogInv /\ NumberRead /\ ReaderInv /\ [Next]_vars => (LogInv /\ NumberRead /\ ReaderInv)'
  BY TypeNext, NumberReadNext, LogNext, ReaderNext DEF LogInv
<1> QED BY <1>1, <1>2, PTL DEF Spec

\* Rows that become visible come after all visible rows and all cursors: their
\* numbers are those of the history's continuation, and cursors are within it.
LEMMA CommitOrderStep ==
    ASSUME LogInv, ReaderInv, [Next]_vars, NEW s \in DOMAIN table' \ DOMAIN table
    PROVE  /\ \A t \in DOMAIN table : t < s
           /\ \A r \in Readers : cursor[r] < s
<1>1. /\ TypeOK /\ Len(history) \in Nat /\ DOMAIN table \subseteq 1 .. Len(history)
      /\ \A r \in Readers : cursor[r] \in Nat
  BY MaxSequenceAssumption DEF LogInv, TypeOK, TableIsHistory, IsTableOf
<1>2. PICK w \in Writers : Commit(w)
  BY DEF Next, WriterStep, ReaderStep, Lock, Number, Insert, Rollback, vars, ReadLatest,
         ReadOldest, ApplyPage, RejectPage, SnapshotLatest, ApplySnapshot
<1>3. DOMAIN table' = Visible(w)  BY <1>2 DEF Commit, Seen
<1>4. s \in DOMAIN added[w]  BY <1>3 DEF Visible
<1>5. s \in Nat /\ Len(history) < s
  BY <1>1, <1>4, FullType DEF LogInv, WriterInv
<1> QED BY <1>1, <1>5 DEF ReaderInv

\* No row becomes visible behind another row or behind a device: the reason a
\* single cursor per device is enough.
THEOREM CommitsInOrderAlways == Spec => CommitsInOrder
<1>1. LogInv /\ ReaderInv /\ [Next]_vars =>
         [\A s \in DOMAIN table' \ DOMAIN table :
             /\ \A t \in DOMAIN table : t < s
             /\ \A r \in Readers : cursor[r] < s]_vars
  BY CommitOrderStep
<1> QED BY <1>1, LogAndReaders, PTL DEF Spec, CommitsInOrder

(***************************************************************************)
(* What the devices hold.                                                  *)
(***************************************************************************)
\* LastIndexOf is the greatest index up to n whose change is about e.
LEMMA LastIndexIs ==
    ASSUME TypeOK, NEW e, NEW n \in Nat
    PROVE  /\ LastIndexOf(e, n) \in Nat
           /\ \A i \in 1 .. Len(history) :
                 i <= n /\ history[i].entity = e => i <= LastIndexOf(e, n)
           /\ LastIndexOf(e, n) # 0 =>
                 /\ LastIndexOf(e, n) \in 1 .. Len(history)
                 /\ LastIndexOf(e, n) <= n
                 /\ history[LastIndexOf(e, n)].entity = e
<1> DEFINE hits == {i \in DOMAIN history : i <= n /\ history[i].entity = e}
<1>1. Len(history) \in Nat /\ DOMAIN history = 1 .. Len(history)  BY DEF TypeOK
<1>2. hits \in SUBSET (0 .. Len(history))  BY <1>1
<1>3. /\ MaxOf(hits) \in 0 .. Len(history)
      /\ hits # {} => MaxOf(hits) \in hits
      /\ \A x \in hits : x <= MaxOf(hits)
  BY <1>1, <1>2, MaxOfIsMax
<1>4. hits = {} => MaxOf(hits) = 0  BY DEF MaxOf
<1>5. LastIndexOf(e, n) = MaxOf(hits)  BY DEF LastIndexOf
<1> HIDE DEF hits
<1>6. \A i \in hits : i \in 1 .. Len(history) /\ i <= n /\ history[i].entity = e
  BY <1>1 DEF hits
<1>7. \A i \in 1 .. Len(history) : i <= n /\ history[i].entity = e => i \in hits
  BY <1>1 DEF hits
<1> QED BY <1>3, <1>4, <1>5, <1>6, <1>7

\* Conversely that describes LastIndexOf.
LEMMA LastIndexUnique ==
    ASSUME TypeOK, NEW e, NEW n \in Nat, NEW m \in Nat,
           \A i \in 1 .. Len(history) : i <= n /\ history[i].entity = e => i <= m,
           m # 0 => m \in 1 .. Len(history) /\ m <= n /\ history[m].entity = e
    PROVE  LastIndexOf(e, n) = m
<1>1. LastIndexOf(e, n) <= m  BY LastIndexIs
<1>2. m <= LastIndexOf(e, n)  BY LastIndexIs
<1> QED BY <1>1, <1>2, LastIndexIs

\* The rows of a set that reaches up to n and misses only redacted rows give
\* the device what the history says of every entity at n.
LEMMA TakingIsFaithful ==
    ASSUME LogInv, NEW r \in Readers, NEW e \in Entities, NEW n \in Nat, NEW S,
           S \subseteq DOMAIN table, cursor[r] <= n,
           \A s \in S : s <= n,
           \A s \in DOMAIN table : cursor[r] < s /\ s <= n => s \in S,
           \/ \A s \in DOMAIN table : s <= n => s \in S
           \/ \A s \in S : cursor[r] < s,
           held[r][e] = LastIndexOf(e, cursor[r]) \/ Withdrawn(e, cursor[r])
    PROVE  Taking(r, S)[e] = LastIndexOf(e, n) \/ Withdrawn(e, n)
<1> DEFINE hits == {s \in S : table[s].entity = e}
           last == LastIndexOf(e, n)
<1>1. /\ TypeOK /\ Len(history) \in Nat /\ DOMAIN history = 1 .. Len(history)
      /\ IsTableOf(table, history) /\ cursor[r] \in Nat
  BY MaxSequenceAssumption DEF LogInv, TypeOK, TableIsHistory
<1>2. Taking(r, S)[e] = IF hits = {} THEN held[r][e] ELSE MaxOf(hits)
  BY DEF Taking
<1>3. \A s \in hits : s \in 1 .. Len(history) /\ s <= n /\ history[s].entity = e
  BY <1>1 DEF IsTableOf
<1>4. last \in Nat
      /\ (\A i \in 1 .. Len(history) : i <= n /\ history[i].entity = e => i <= last)
      /\ (last # 0 => last \in 1 .. Len(history) /\ last <= n /\ history[last].entity = e)
  BY <1>1, LastIndexIs
<1>5. ASSUME last # 0, last \notin DOMAIN table PROVE Withdrawn(e, n)
  <2>1. WithdrawnIn(history, e, last)  BY <1>1, <1>4, <1>5 DEF IsTableOf
  <2>2. PICK i \in last + 1 .. Len(history) : history[i] = [entity |-> e, op |-> "delete"]
    BY <2>1 DEF WithdrawnIn
  <2>3. i > n  BY <1>4, <1>5, <2>2
  <2>4. i \in n + 1 .. Len(history)  BY <1>4, <2>2, <2>3
  <2> QED BY <2>1, <2>2, <2>4 DEF Withdrawn, WithdrawnIn
<1>6. CASE last # 0 /\ last \in DOMAIN table /\ last \in S
  <2>1. last \in hits  BY <1>1, <1>4, <1>6 DEF IsTableOf
  <2>2. hits \in SUBSET (0 .. Len(history))  BY <1>3
  <2>3. MaxOf(hits) \in hits /\ last <= MaxOf(hits)  BY <1>1, <2>1, <2>2, MaxOfIsMax
  <2>4. MaxOf(hits) <= last  BY <1>3, <1>4, <2>3
  <2> QED BY <1>2, <1>3, <1>4, <2>1, <2>3, <2>4
<1>7. CASE last # 0 /\ last \in DOMAIN table /\ last \notin S
  <2>1. last <= cursor[r]  BY <1>1, <1>4, <1>7
  <2>2. LastIndexOf(e, cursor[r]) = last
    <3>1. \A i \in 1 .. Len(history) : i <= cursor[r] /\ history[i].entity = e => i <= last
      BY <1>1, <1>4
    <3> QED BY <1>1, <1>4, <2>1, <3>1, LastIndexUnique
  <2>3. Withdrawn(e, cursor[r]) => Withdrawn(e, n)
    <3> SUFFICES ASSUME Withdrawn(e, cursor[r]) PROVE Withdrawn(e, n)  OBVIOUS
    <3>1. PICK i \in cursor[r] + 1 .. Len(history) :
              history[i] = [entity |-> e, op |-> "delete"]
      BY DEF Withdrawn, WithdrawnIn
    <3>2. ~ (i <= n)
      BY <1>1, <1>4, <2>1, <3>1
    <3>3. i \in n + 1 .. Len(history)  BY <1>1, <3>1, <3>2
    <3> QED BY <3>1, <3>3 DEF Withdrawn, WithdrawnIn
  <2>4. CASE hits = {}  BY <1>2, <2>2, <2>3, <2>4
  <2>5. CASE hits # {}
    <3>1. hits \in SUBSET (0 .. Len(history))  BY <1>3
    <3>2. MaxOf(hits) \in hits  BY <1>1, <2>5, <3>1, MaxOfIsMax
    <3>3. MaxOf(hits) <= last /\ cursor[r] < MaxOf(hits)
      BY <1>3, <1>4, <1>7, <3>2
    <3> QED BY <1>1, <1>3, <1>4, <2>1, <3>2, <3>3
  <2> QED BY <2>4, <2>5
<1>8. CASE last = 0
  <2>1. hits = {}  BY <1>3, <1>4, <1>8
  <2>2. LastIndexOf(e, cursor[r]) = 0
    <3>1. \A i \in 1 .. Len(history) : i <= cursor[r] /\ history[i].entity = e => i <= 0
      BY <1>1, <1>4, <1>8
    <3> QED BY <1>1, <3>1, LastIndexUnique
  <2>3. Withdrawn(e, cursor[r]) => Withdrawn(e, n)
    <3> SUFFICES ASSUME Withdrawn(e, cursor[r]) PROVE Withdrawn(e, n)  OBVIOUS
    <3>1. PICK i \in cursor[r] + 1 .. Len(history) :
              history[i] = [entity |-> e, op |-> "delete"]
      BY DEF Withdrawn, WithdrawnIn
    <3>2. ~ (i <= n)
      BY <1>1, <1>4, <1>8, <3>1
    <3>3. i \in n + 1 .. Len(history)  BY <1>1, <3>1, <3>2
    <3> QED BY <3>1, <3>3 DEF Withdrawn, WithdrawnIn
  <2> QED BY <1>2, <1>8, <2>1, <2>2, <2>3
<1> QED BY <1>5, <1>6, <1>7, <1>8

\* What a device holds stays right while the log grows behind its cursor.
LEMMA FaithfulAsLogGrows ==
    ASSUME LogInv, ReaderInv, TypeOK', [Next]_vars, NEW r \in Readers, NEW e \in Entities,
           held[r][e] = LastIndexOf(e, cursor[r]) \/ Withdrawn(e, cursor[r])
    PROVE  held[r][e] = LastIndexOf(e, cursor[r])' \/ Withdrawn(e, cursor[r])'
           \/ cursor'[r] # cursor[r]
<1> SUFFICES ASSUME cursor'[r] = cursor[r]
             PROVE  held[r][e] = LastIndexOf(e, cursor[r])' \/ Withdrawn(e, cursor[r])'
  OBVIOUS
<1>1. /\ Len(history) \in Nat /\ Len(history') \in Nat /\ Len(history) <= Len(history')
      /\ \A i \in 1 .. Len(history) : history'[i] = history[i]
  BY HistoryGrows
<1>2. /\ cursor[r] \in Nat /\ cursor[r] <= Len(history)
      /\ DOMAIN history = 1 .. Len(history) /\ DOMAIN history' = 1 .. Len(history')
  BY MaxSequenceAssumption DEF ReaderInv, LogInv, TypeOK
<1>3. {i \in DOMAIN history : i <= cursor[r] /\ history[i].entity = e}
        = {i \in DOMAIN history' : i <= cursor'[r] /\ history'[i].entity = e}
  BY <1>1, <1>2
<1>4. LastIndexOf(e, cursor[r])' = LastIndexOf(e, cursor[r])
  BY <1>3 DEF LastIndexOf
<1>5. ASSUME Withdrawn(e, cursor[r]) PROVE Withdrawn(e, cursor[r])'
  <2>1. PICK i \in cursor[r] + 1 .. Len(history) :
            history[i] = [entity |-> e, op |-> "delete"]
    BY <1>5 DEF Withdrawn, WithdrawnIn
  <2>2. i \in cursor'[r] + 1 .. Len(history') /\ history'[i] = history[i]
    BY <1>1, <1>2, <2>1
  <2> QED BY <1>5, <2>1, <2>2 DEF Withdrawn, WithdrawnIn
<1> QED BY <1>4, <1>5

\* Every step keeps devices faithful: a page without a gap and a snapshot both
\* bring all rows between the old and the new cursor; the rest moves no cursor.
LEMMA FaithfulNext ==
    LogInv /\ ReaderInv /\ TypeOK' /\ ReplicaIsFaithful /\ [Next]_vars => ReplicaIsFaithful'
<1> SUFFICES ASSUME LogInv, ReaderInv, TypeOK', ReplicaIsFaithful, [Next]_vars,
                    NEW r \in Readers, NEW e \in Entities
             PROVE  (held[r][e] = LastIndexOf(e, cursor[r]) \/ Withdrawn(e, cursor[r]))'
  BY DEF ReplicaIsFaithful
<1>1. /\ TypeOK /\ Len(history) \in Nat /\ IsTableOf(table, history)
      /\ \A q \in Readers : cursor[q] \in Nat /\ latest[q] \in Nat
  BY MaxSequenceAssumption DEF LogInv, TypeOK, TableIsHistory
<1>2. CASE held'[r] = held[r] /\ cursor'[r] = cursor[r]
  <2>1. held[r][e] = LastIndexOf(e, cursor[r]) \/ Withdrawn(e, cursor[r])
    BY DEF ReplicaIsFaithful
  <2>2. held[r][e] = LastIndexOf(e, cursor[r])' \/ Withdrawn(e, cursor[r])'
    BY <1>2, <2>1, FaithfulAsLogGrows
  <2> QED BY <1>2, <2>2
<1>3. ASSUME ApplyPage(r) PROVE (held[r][e] = LastIndexOf(e, cursor[r]) \/ Withdrawn(e, cursor[r]))'
  <2> DEFINE n == PageCursor(r)
  <2>1. Page(r) \in SUBSET (0 .. Len(history)) /\ Page(r) \subseteq DOMAIN table
    BY <1>1 DEF Page, IsTableOf
  <2>2. n \in Nat /\ cursor[r] <= n /\ \A s \in Page(r) : s <= n
    <3>1. CASE Page(r) = {}  BY <1>1, <3>1 DEF PageCursor
    <3>2. CASE Page(r) # {}
      <4>1. MaxOf(Page(r)) \in Page(r) /\ \A s \in Page(r) : s <= MaxOf(Page(r))
        BY <1>1, <2>1, <3>2, MaxOfIsMax
      <4>2. \A s \in Page(r) : cursor[r] < s  BY DEF Page
      <4>3. MaxOf(Page(r)) \in 0 .. Len(history)  BY <2>1, <4>1
      <4> QED BY <1>1, <3>2, <4>1, <4>2, <4>3 DEF PageCursor
    <3> QED BY <3>1, <3>2
  <2>3. \A s \in DOMAIN table : cursor[r] < s /\ s <= n => s \in Page(r)
    <3>1. CASE Page(r) = {}
      <4>1. n = cursor[r]  BY <3>1 DEF PageCursor
      <4> QED BY <1>1, <4>1 DEF IsTableOf
    <3>2. CASE Page(r) # {}
      <4>1. n \in Page(r)  BY <1>1, <2>1, <3>2, MaxOfIsMax DEF PageCursor
      <4>2. \A k \in cursor[r] + 1 .. n : k \in Page(r)
        BY <1>3, <4>1 DEF ApplyPage, Contiguous
      <4> QED BY <1>1, <2>2, <4>2 DEF IsTableOf
    <3> QED BY <3>1, <3>2
  <2>4. \A s \in Page(r) : cursor[r] < s  BY DEF Page
  <2>5. Taking(r, Page(r))[e] = LastIndexOf(e, n) \/ Withdrawn(e, n)
    <3>1. held[r][e] = LastIndexOf(e, cursor[r]) \/ Withdrawn(e, cursor[r])
      BY DEF ReplicaIsFaithful
    <3> HIDE DEF n
    <3> QED BY <2>1, <2>2, <2>3, <2>4, <3>1, TakingIsFaithful
  <2>6. held'[r] = Taking(r, Page(r)) /\ cursor'[r] = n /\ history' = history
    BY <1>1, <1>3 DEF ApplyPage, TypeOK
  <2>7. LastIndexOf(e, cursor[r])' = LastIndexOf(e, n)  BY <2>6 DEF LastIndexOf
  <2>8. Withdrawn(e, cursor[r])' = Withdrawn(e, n)  BY <2>6 DEF Withdrawn, WithdrawnIn
  <2> QED BY <2>5, <2>6, <2>7, <2>8
<1>4. ASSUME ApplySnapshot(r) PROVE (held[r][e] = LastIndexOf(e, cursor[r]) \/ Withdrawn(e, cursor[r]))'
  <2> DEFINE n == latest[r]
             S == {s \in DOMAIN table : s <= latest[r]}
  <2>1. cursor[r] <= n /\ n \in Nat
    BY <1>1, <1>4 DEF ApplySnapshot, ReaderInv
  <2>2. Taking(r, S)[e] = LastIndexOf(e, n) \/ Withdrawn(e, n)
    <3>1. held[r][e] = LastIndexOf(e, cursor[r]) \/ Withdrawn(e, cursor[r])
      BY DEF ReplicaIsFaithful
    <3>2. /\ S \subseteq DOMAIN table /\ \A s \in S : s <= n
          /\ \A s \in DOMAIN table : s <= n => s \in S
      OBVIOUS
    <3> HIDE DEF n, S
    <3> QED BY <2>1, <3>1, <3>2, TakingIsFaithful
  <2>3. held'[r] = Taking(r, S) /\ cursor'[r] = n /\ history' = history
    BY <1>1, <1>4 DEF ApplySnapshot, SnapshotCursor, TypeOK
  <2>4. LastIndexOf(e, cursor[r])' = LastIndexOf(e, n)  BY <2>3 DEF LastIndexOf
  <2>5. Withdrawn(e, cursor[r])' = Withdrawn(e, n)  BY <2>3 DEF Withdrawn, WithdrawnIn
  <2> QED BY <2>2, <2>3, <2>4, <2>5
<1>5. \/ held'[r] = held[r] /\ cursor'[r] = cursor[r]
      \/ ApplyPage(r) \/ ApplySnapshot(r)
  <2>1. ASSUME NEW w \in Writers, WriterStep(w) PROVE UNCHANGED <<held, cursor>>
    BY <2>1 DEF WriterStep, Lock, Number, Insert, Commit, Rollback, readerVars
  <2>2. ASSUME NEW q \in Readers, ReadLatest(q) \/ ReadOldest(q) \/ RejectPage(q) \/ SnapshotLatest(q)
        PROVE  UNCHANGED <<held, cursor>>
    BY <2>2 DEF ReadLatest, ReadOldest, RejectPage, SnapshotLatest
  <2>3. ASSUME NEW q \in Readers, ApplyPage(q) \/ ApplySnapshot(q), q # r
        PROVE  held'[r] = held[r] /\ cursor'[r] = cursor[r]
    BY <1>1, <2>3 DEF ApplyPage, ApplySnapshot, TypeOK
  <2>4. CASE UNCHANGED vars  BY <2>4 DEF vars, readerVars
  <2> QED BY <2>1, <2>2, <2>3, <2>4 DEF Next, ReaderStep
<1> QED BY <1>2, <1>3, <1>4, <1>5

\* A device with cursor 0 holds nothing, which is the account before its first
\* change.
LEMMA FaithfulInit == Init => ReplicaIsFaithful
<1> SUFFICES ASSUME Init, NEW e PROVE LastIndexOf(e, 0) = 0
  BY DEF Init, ReplicaIsFaithful
<1>1. {i \in DOMAIN history : i <= 0 /\ history[i].entity = e} = {}
  BY DEF Init
<1> QED BY <1>1 DEF LastIndexOf, MaxOf

\* At its cursor a device holds the last change of every entity, whatever
\* committed or was redacted between the statements of its pulls and snapshots.
THEOREM ReplicaIsFaithfulAlways == Spec => []ReplicaIsFaithful
<1>1. Init => ReplicaIsFaithful  BY FaithfulInit
<1>2. LogInv /\ ReaderInv /\ TypeOK' /\ ReplicaIsFaithful /\ [Next]_vars => ReplicaIsFaithful'
  BY FaithfulNext
<1>3. LogInv' => TypeOK'  BY DEF LogInv
<1> QED BY <1>1, <1>2, <1>3, LogAndReaders, PTL DEF Spec

(***************************************************************************)
(* The log implements the feed.                                            *)
(***************************************************************************)
\* AccountFeed's last index of an entity is ChangeLog's.
LEMMA SameLastIndex ==
    ASSUME TypeOK, NEW e, NEW n \in Nat
    PROVE  Feed!LastIndexOf(e, n) = LastIndexOf(e, n)
<1> DEFINE hits == {i \in DOMAIN history : i <= n /\ history[i].entity = e}
<1>1. CASE hits = {}
  BY <1>1 DEF Feed!LastIndexOf, LastIndexOf, MaxOf
<1>2. CASE hits # {}
  <2>1. hits \in SUBSET (0 .. Len(history)) /\ Len(history) \in Nat  BY DEF TypeOK
  <2> HIDE DEF hits
  <2>2. /\ MaxOf(hits) \in hits /\ MaxOf(hits) \in Nat
        /\ \A x \in hits : x <= MaxOf(hits) /\ x \in Nat
    BY <1>2, <2>1, MaxOfIsMax
  <2>3. /\ Feed!Max(hits) \in hits
        /\ \A x \in hits : Feed!Max(hits) >= x
    BY <2>2 DEF Feed!Max
  <2>4. Feed!Max(hits) = MaxOf(hits)  BY <2>2, <2>3
  <2> QED BY <1>2, <2>4 DEF hits, Feed!LastIndexOf, LastIndexOf
<1> QED BY <1>1, <1>2

\* Initial states of the log are initial states of the feed.
LEMMA FeedInit == Init => Feed!Init
BY DEF Init, Feed!Init

\* A commit publishes, a page with rows and a snapshot advance their device,
\* and every other step stutters.
LEMMA FeedStep ==
    ASSUME LogInv, ReaderInv, TypeOK', ReplicaIsFaithful', [Next]_vars
    PROVE  [Feed!Next]_(Feed!vars)
<1>1. /\ TypeOK /\ Len(history) \in Nat /\ IsTableOf(table, history)
      /\ \A q \in Readers : cursor[q] \in Nat /\ latest[q] \in Nat
  BY MaxSequenceAssumption DEF LogInv, TypeOK, TableIsHistory
<1>2. ASSUME NEW w \in Writers, Commit(w) PROVE Feed!Publish
  <2>1. history' = history \o appended[w] /\ appended[w] # <<>> /\ UNCHANGED <<cursor, held>>
    BY <1>2 DEF Commit, LogInv, WriterInv, readerVars
  <2>2. /\ appended[w] \in Seq(Change) /\ history \in Seq(Change) /\ Len(appended[w]) > 0
    BY <1>1, <2>1 DEF TypeOK
  <2>3. /\ Len(history') = Len(history) + Len(appended[w])
        /\ \A i \in 1 .. Len(history) : history'[i] = history[i]
    BY <2>1, <2>2
  <2>4. SubSeq(history, 1, Len(history)) = SubSeq(history', 1, Len(history))
    BY <2>1, <2>2, <2>3
  <2>5. Feed!IsStrictPrefix(history, history')
    BY <2>2, <2>3, <2>4 DEF Feed!IsStrictPrefix, Feed!IsPrefix
  <2>6. \A i \in DOMAIN history' : history'[i] \in Feed!Change
    <3>1. history' \in Seq(Change)  BY DEF TypeOK
    <3>2. Feed!Change = Change  BY DEF Change, Feed!Change
    <3> QED BY <3>1, <3>2
  <2> QED BY <2>1, <2>5, <2>6 DEF Feed!Publish
<1>3. ASSUME NEW r \in Readers, NEW n, cursor[r] < n, n \in 1 .. Len(history),
             cursor' = [cursor EXCEPT ![r] = n], NEW h, held' = [held EXCEPT ![r] = h],
             UNCHANGED history
      PROVE  Feed!Advance(r)
  <2>1. cursor'[r] = n /\ held'[r] = h  BY <1>1, <1>3 DEF TypeOK
  <2>2. ASSUME NEW e \in Entities
        PROVE  held'[r][e] = Feed!LastIndexOf(e, cursor'[r]) \/ Feed!Withdrawn(e, cursor'[r])
    <3>1. held'[r][e] = LastIndexOf(e, cursor[r])' \/ Withdrawn(e, cursor[r])'
      BY DEF ReplicaIsFaithful
    <3>2. LastIndexOf(e, cursor[r])' = LastIndexOf(e, n)
      BY <1>3, <2>1 DEF LastIndexOf
    <3>3. Withdrawn(e, cursor[r])' => Feed!Withdrawn(e, n)
      BY <1>3, <2>1 DEF Withdrawn, WithdrawnIn, Feed!Withdrawn
    <3>4. Feed!LastIndexOf(e, n) = LastIndexOf(e, n)  BY <1>1, <1>3, SameLastIndex
    <3> QED BY <2>1, <3>1, <3>2, <3>3, <3>4
  <2>3. cursor' = [cursor EXCEPT ![r] = cursor'[r]]  BY <1>3, <2>1
  <2>4. held' = [held EXCEPT ![r] = held'[r]]  BY <1>3, <2>1
  <2>5. cursor'[r] \in cursor[r] + 1 .. Len(history)  BY <1>1, <1>3, <2>1
  <2>6. history' = history  BY <1>3
  <2> QED BY <2>2, <2>3, <2>4, <2>5, <2>6 DEF Feed!Advance
<1>4. ASSUME NEW r \in Readers, ApplyPage(r) PROVE [Feed!Next]_(Feed!vars)
  <2>1. CASE Page(r) = {}
    <3>1. PageCursor(r) = cursor[r]  BY <2>1 DEF PageCursor
    <3>2. Taking(r, Page(r)) = held[r]  BY <1>1, <2>1 DEF Taking, TypeOK
    <3>3. UNCHANGED <<cursor, held, history>>
      BY <1>1, <1>4, <3>1, <3>2 DEF ApplyPage, TypeOK
    <3> QED BY <3>3 DEF Feed!vars
  <2>2. CASE Page(r) # {}
    <3>1. Page(r) \in SUBSET (0 .. Len(history))  BY <1>1 DEF Page, IsTableOf
    <3>2. PageCursor(r) \in Page(r)  BY <1>1, <2>2, <3>1, MaxOfIsMax DEF PageCursor
    <3>3. \A s \in Page(r) : cursor[r] < s  BY DEF Page
    <3>4. cursor[r] < PageCursor(r) /\ PageCursor(r) \in 1 .. Len(history)
      BY <1>1, <3>1, <3>2, <3>3
    <3> QED BY <1>3, <1>4, <3>4 DEF ApplyPage, Feed!Next
  <2> QED BY <2>1, <2>2
<1>5. ASSUME NEW r \in Readers, ApplySnapshot(r) PROVE Feed!Advance(r)
  <2>1. cursor[r] < latest[r] /\ latest[r] \in 1 .. Len(history)
    BY <1>1, <1>5 DEF ApplySnapshot, ReaderInv
  <2> QED BY <1>3, <1>5, <2>1 DEF ApplySnapshot, SnapshotCursor
<1>6. \/ \E w \in Writers : Commit(w)
      \/ \E r \in Readers : ApplyPage(r) \/ ApplySnapshot(r)
      \/ UNCHANGED <<history, cursor, held>>
  BY DEF Next, WriterStep, ReaderStep, Lock, Number, Insert, Rollback, vars, readerVars,
         ReadLatest, ReadOldest, RejectPage, SnapshotLatest
<1> QED BY <1>2, <1>4, <1>5, <1>6 DEF Feed!Next, Feed!vars

\* Numbering under the lock, gap checks and snapshots together implement the
\* single sequence of changes that AccountFeed promises each device.
THEOREM ImplementsFeed == Spec => FeedSpec
<1>1. Init => Feed!Init  BY FeedInit
<1>2. LogInv /\ ReaderInv /\ LogInv' /\ ReplicaIsFaithful' /\ [Next]_vars
        => [Feed!Next]_(Feed!vars)
  BY FeedStep DEF LogInv
<1> QED BY <1>1, <1>2, LogAndReaders, ReplicaIsFaithfulAlways, PTL DEF Spec, FeedSpec, Feed!Spec

(***************************************************************************)
(* Settings: no phone ever goes back to older ones, for any number of       *)
(* phones, settings, calls, changes and faults.                            *)
(*                                                                         *)
(* The rows of the account only grow, so that what a synchronization has    *)
(* read lies between what its phone keeps and the row.  That goes on while   *)
(* nothing else writes what the phone keeps, which is what runTail is for.  *)
(***************************************************************************)
\* What a run has read lies between two editions.
Between(r, low, high) ==
    /\ {"at", "row"} \subseteq DOMAIN r
    /\ r.at = "apply" => /\ r.row.edition \in Nat
                         /\ low <= r.row.edition /\ r.row.edition <= high
Current(h, r) == Between(r, kept[h].edition, row.edition)

RowOK == "edition" \in DOMAIN row /\ row.edition \in Nat
KeptOK ==
    /\ DOMAIN kept = Handsets
    /\ \A h \in Handsets : kept[h].edition \in Nat /\ kept[h].edition <= row.edition
RunsOK ==
    /\ DOMAIN runs = Handsets
    /\ \A h \in Handsets : \A q, r \in runs[h] : q = r
    /\ \A h \in Handsets : \A r \in runs[h] : Current(h, r)

\* The inductive invariant.
Newest == RowOK /\ KeptOK /\ RunsOK

USE DEF RowOK

LEMMA NewestInit == SettingsInit => Newest
BY DEF SettingsInit, Newest, KeptOK, RunsOK, NoRow

\* Making the row of an account counts as the first edition.
LEMMA RowOrGrows ==
    ASSUME RowOK, NEW zone
    PROVE  /\ "edition" \in DOMAIN RowOr(zone)
           /\ RowOr(zone).edition \in Nat
           /\ row.edition <= RowOr(zone).edition
BY DEF RowOr, NewRow, NoRow

\* The server may write a newer row while phones and runs stay as they are.
LEMMA RowAlone ==
    ASSUME Newest, UNCHANGED <<kept, runs>>,
           RowOK', row.edition <= row'.edition
    PROVE  Newest'
BY DEF Newest, KeptOK, RunsOK, Current, Between

\* A run takes the place of the run of its phone.
LEMMA RunInPlace ==
    ASSUME Newest, UNCHANGED kept, RowOK', row.edition <= row'.edition,
           NEW h \in Handsets, NEW r \in runs[h],
           NEW ACTION n, Between(n, kept[h].edition, row'.edition),
           runs' = [runs EXCEPT ![h] = (@ \ {r}) \union {n}]
    PROVE  Newest'
<1>1. KeptOK'
  BY DEF Newest, KeptOK
<1>2. DOMAIN runs' = Handsets
  BY DEF Newest, RunsOK
<1>3. runs'[h] = {n}
  BY DEF Newest, RunsOK
<1>4. \A g \in Handsets : g # h => runs'[g] = runs[g]
  BY DEF Newest, RunsOK
<1>5. \A g \in Handsets : \A q, s \in runs'[g] : q = s
  BY <1>3, <1>4 DEF Newest, RunsOK
<1>6. \A g \in Handsets : \A s \in runs'[g] : Current(g, s)'
  <2> SUFFICES ASSUME NEW g \in Handsets, NEW s \in runs'[g]
               PROVE  Current(g, s)'
    OBVIOUS
  <2>1. CASE g = h
    <3>1. s = n /\ kept' = kept
      BY <1>3, <2>1
    <3> QED
      BY <2>1, <3>1 DEF Current
  <2>2. CASE g # h
    <3>1. Current(g, s)
      BY <1>4, <2>2 DEF Newest, RunsOK
    <3> QED
      BY <3>1 DEF Newest, KeptOK, Current, Between
  <2> QED
    BY <2>1, <2>2
<1> QED
  BY <1>1, <1>2, <1>5, <1>6 DEF Newest, RunsOK

\* The run of a phone is over.
LEMMA RunLeaves ==
    ASSUME Newest, UNCHANGED <<row, kept>>,
           NEW h \in Handsets, NEW r, runs' = [runs EXCEPT ![h] = @ \ {r}]
    PROVE  Newest'
BY DEF Newest, KeptOK, RunsOK, Current, Between

LEMMA CallStepNewest ==
    ASSUME Newest, NEW h \in Handsets, CallStep(h)
    PROVE  Newest' /\ UNCHANGED kept
<1> PICK c \in calls[h] : \/ GetAccountSettings(h, c) \/ UpdateAccountSettings(h, c)
                          \/ LoadAccountSettings(h, c) \/ Updated(h, c)
  BY DEF CallStep
<1>1. CASE GetAccountSettings(h, c)
  BY <1>1, RowOrGrows, RowAlone DEF GetAccountSettings, Newest
<1>2. CASE UpdateAccountSettings(h, c)
  <2>1. RowOK' /\ row.edition <= row'.edition
    BY <1>2, RowOrGrows DEF UpdateAccountSettings, UpdatedRow, Newest
  <2> QED
    BY <1>2, <2>1, RowAlone DEF UpdateAccountSettings
<1>3. CASE LoadAccountSettings(h, c)
  BY <1>3, RowAlone DEF LoadAccountSettings, server, Newest
<1>4. CASE Updated(h, c)
  BY <1>4, RowAlone DEF Updated, server, Newest
<1> QED
  BY <1>1, <1>2, <1>3, <1>4

LEMMA RunStepNewest ==
    ASSUME Newest, NEW h \in Handsets, RunStep(h)
    PROVE  Newest' /\ \A g \in Handsets : kept'[g].edition >= kept[g].edition
<1> PICK r \in runs[h] : \/ RegisterDevice(h, r) \/ ReadSettings(h, r)
                         \/ ApplyAccountSettings(h, r) \/ EndRun(h, r)
  BY DEF RunStep
<1>0. Current(h, r)
  BY DEF Newest, RunsOK
<1>1. CASE RegisterDevice(h, r)
  <2> DEFINE n == [r EXCEPT !.at = "settings"]
  <2>1. RowOK' /\ row.edition <= row'.edition
    BY <1>1, RowOrGrows DEF RegisterDevice, RegisteredRow, Newest
  <2>2. Between(n, kept[h].edition, row'.edition)
    BY <1>0 DEF Current, Between
  <2>3. UNCHANGED kept /\ runs' = [runs EXCEPT ![h] = (@ \ {r}) \union {n}]
    BY <1>1 DEF RegisterDevice
  <2>4. Newest'
    BY <2>1, <2>2, <2>3, RunInPlace
  <2> QED
    BY <2>3, <2>4 DEF Newest, KeptOK
<1>2. CASE ReadSettings(h, r)
  <2> DEFINE n == [r EXCEPT !.at = "apply", !.row = row']
  <2>1. RowOK' /\ row.edition <= row'.edition
    BY <1>2, RowOrGrows DEF ReadSettings, Newest
  <2>2. UNCHANGED kept /\ runs' = [runs EXCEPT ![h] = (@ \ {r}) \union {n}]
    BY <1>2 DEF ReadSettings
  <2>3. Between(n, kept[h].edition, row'.edition)
    BY <1>0, <2>1 DEF Current, Between, Newest, KeptOK
  <2>4. Newest'
    BY <2>1, <2>2, <2>3, RunInPlace
  <2> QED
    BY <2>2, <2>4 DEF Newest, KeptOK
<1>3. CASE ApplyAccountSettings(h, r)
  <2> DEFINE n == [r EXCEPT !.at = "rest"]
  <2>1. UNCHANGED row /\ r.at = "apply"
    BY <1>3 DEF ApplyAccountSettings, server
  <2>2. kept' = [kept EXCEPT ![h] = r.row]
    BY <1>3 DEF ApplyAccountSettings, Keep
  <2>3. runs' = [runs EXCEPT ![h] = (@ \ {r}) \union {n}]
    BY <1>3 DEF ApplyAccountSettings
  <2>4. /\ DOMAIN kept' = Handsets /\ kept'[h] = r.row
        /\ \A g \in Handsets : g # h => kept'[g] = kept[g]
    BY <2>2 DEF Newest, KeptOK
  <2>5. KeptOK'
    BY <1>0, <2>1, <2>4 DEF Newest, KeptOK, Current, Between
  <2>6. /\ DOMAIN runs' = Handsets /\ runs'[h] = {n}
        /\ \A g \in Handsets : g # h => runs'[g] = runs[g]
    BY <2>3 DEF Newest, RunsOK
  <2>7. Between(n, kept'[h].edition, row'.edition)
    BY <1>0 DEF Current, Between
  <2>8. \A g \in Handsets : \A s \in runs'[g] : Current(g, s)'
    BY <2>1, <2>4, <2>6, <2>7 DEF Newest, RunsOK, Current, Between
  <2>9. \A g \in Handsets : \A q, s \in runs'[g] : q = s
    BY <2>6 DEF Newest, RunsOK
  <2>10. \A g \in Handsets : kept'[g].edition >= kept[g].edition
    BY <1>0, <2>1, <2>4 DEF Newest, KeptOK, Current, Between
  <2> QED
    BY <2>1, <2>5, <2>6, <2>8, <2>9, <2>10 DEF Newest, RunsOK
<1>4. CASE EndRun(h, r)
  <2>1. UNCHANGED <<row, kept>> /\ runs' = [runs EXCEPT ![h] = @ \ {r}]
    BY <1>4 DEF EndRun, server
  <2> QED
    <3>1. Newest'
      BY <2>1, RunLeaves
    <3> QED
      BY <2>1, <3>1 DEF Newest, KeptOK
<1> QED
  BY <1>1, <1>2, <1>3, <1>4

LEMMA StartNewest ==
    ASSUME Newest, NEW h \in Handsets, NEW by \in Callers, Start(h, by)
    PROVE  Newest' /\ UNCHANGED kept
<1>1. UNCHANGED <<row, kept>> /\ runs[h] = {}
  BY DEF Start, Turn, server
<1>2. runs' = [runs EXCEPT ![h] = @ \union {Run(by, here[h])}]
  BY DEF Start
<1>3. /\ DOMAIN runs' = Handsets /\ runs'[h] = {Run(by, here[h])}
      /\ \A g \in Handsets : g # h => runs'[g] = runs[g]
  BY <1>1, <1>2 DEF Newest, RunsOK
<1>4. Between(Run(by, here[h]), kept'[h].edition, row'.edition)
  BY DEF Run, Between
<1> QED
  BY <1>1, <1>3, <1>4 DEF Newest, KeptOK, RunsOK, Current, Between

\* Every step preserves the invariant and makes nothing older.
LEMMA NewestNext ==
    ASSUME Newest, [SettingsNext]_settingsVars
    PROVE  Newest' /\ \A g \in Handsets : kept'[g].edition >= kept[g].edition
<1>0. UNCHANGED kept => \A g \in Handsets : kept'[g].edition >= kept[g].edition
  BY DEF Newest, KeptOK
<1>1. CASE UNCHANGED settingsVars
  BY <1>0, <1>1, RowAlone DEF settingsVars, server, Newest
<1>2. CASE SettingsNext
  <2> PICK h \in Handsets :
        \/ CallStep(h) \/ RunStep(h) \/ RefreshLanguage(h)
        \/ \E by \in Callers : Start(h, by)
        \/ Refresh(h) \/ UpdateTrustMode(h) \/ UpdateLanguage(h)
        \/ UpdateDiagnostics(h) \/ ChooseSameLanguage(h)
        \/ \E c \in calls[h] : CallFails(h, c)
        \/ \E r \in runs[h] : RunFails(h, r)
        \/ Travel(h) \/ Restart(h)
    BY <1>2 DEF SettingsNext
  <2>1. CASE CallStep(h)
    BY <1>0, <2>1, CallStepNewest
  <2>2. CASE RunStep(h)
    BY <2>2, RunStepNewest
  <2>3. CASE \E by \in Callers : Start(h, by)
    BY <1>0, <2>3, StartNewest
  <2>4. CASE \E r \in runs[h] : RunFails(h, r)
    BY <1>0, <2>4, RunLeaves DEF RunFails, server
  <2>5. CASE Restart(h)
    <3>1. UNCHANGED <<row, kept>> /\ runs' = [runs EXCEPT ![h] = {}]
      BY <2>5 DEF Restart, server
    <3> QED
      BY <1>0, <3>1 DEF Newest, KeptOK, RunsOK, Current, Between
  <2>6. CASE UNCHANGED <<row, kept, runs>>
    BY <1>0, <2>6, RowAlone DEF Newest
  <2>7. CASE RefreshLanguage(h) \/ Refresh(h) \/ ChooseSameLanguage(h) \/ Travel(h)
    BY <2>6, <2>7 DEF RefreshLanguage, Refresh, ChooseSameLanguage, Travel, server
  <2>8. CASE UpdateTrustMode(h) \/ UpdateLanguage(h) \/ UpdateDiagnostics(h)
    BY <2>6, <2>8 DEF UpdateTrustMode, UpdateLanguage, UpdateDiagnostics, ChangeSwitch, server
  <2>9. CASE \E c \in calls[h] : CallFails(h, c)
    BY <2>6, <2>9 DEF CallFails, server
  <2> QED
    BY <2>1, <2>2, <2>3, <2>4, <2>5, <2>7, <2>8, <2>9
<1> QED
  BY <1>1, <1>2

\* What a phone keeps never gives way to older settings, whoever changes them
\* and whatever fails (runTail, applyAccountSettings).
THEOREM SettingsNeverOlder == SettingsSpec => KeptIsNewest
<1>1. SettingsInit => Newest
  BY NewestInit
<1>2. Newest /\ [SettingsNext]_settingsVars => Newest'
  BY NewestNext
<1>3. Newest /\ [SettingsNext]_settingsVars
        => [\A h \in Handsets : kept[h]'.edition >= kept[h].edition]_settingsVars
  BY NewestNext
<1> QED
  BY <1>1, <1>2, <1>3, PTL DEF SettingsSpec, KeptIsNewest
=============================================================================

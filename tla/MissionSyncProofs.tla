-------------------------- MODULE MissionSyncProofs --------------------------
(***************************************************************************)
(* Proofs about MissionSync for every number of devices, handlers,          *)
(* missions, mutations and faults, and every size of a batch.              *)
(***************************************************************************)
EXTENDS MissionSync, FiniteSetTheorems, SequenceTheorems, TLAPS

\* What is proved of the server alone, of the server here.
ServerProofs == INSTANCE MissionServerProofs WITH Requests <- Mutation

(***************************************************************************)
(* The inductive invariant.                                                *)
(***************************************************************************)
Queueing == [mut : Mutation, inFlight : BOOLEAN, before : BOOLEAN]
CachedRow == [row : MissionRow, pending : BOOLEAN]
Deletion == [mut : Mutation, was : CachedRow]
Refusals == {"mission_deleted", "completed_elsewhere", "mission_updated"}
Running ==
    [at : Phases, batch : Seq(Mutation), settled : Nat, conflict : Refusals \cup {"none"},
     upto : Nat, more : BOOLEAN]

\* What the devices store and hold.
DeviceTypes ==
    /\ queue \in [Devices -> Seq(Queueing)]
    /\ view \in [Devices -> [Missions -> CachedRow]]
    /\ tomb \in [Devices -> SUBSET Missions]
    /\ cursor \in [Devices -> Nat]
    /\ run \in [Devices -> Running]
    /\ draft \in [Devices -> Mutation \cup {Nothing}]
    /\ undo \in [Devices -> Deletion \cup {Nothing}]
    /\ issued \in [Devices -> Seq(Mutation)]
    /\ dropped \in [Devices -> SUBSET [mut : Mutation, why : Refusals \cup {"undone"}]]

\* The device made mut; its n-th mutation is done with; the device can know
\* of mission m; the refusal of mut was right.
Made(d, mut) == \E n \in DOMAIN issued[d] : issued[d][n] = mut
Past(d, n) == Applied(issued[d][n]) \/ \E x \in dropped[d] : x.mut = issued[d][n]
Creates(mut, m) == mut.op = "create" /\ mut.mission = m
Known(d, m) == InLog("create", m) \/ \E k \in DOMAIN issued[d] : Creates(issued[d][k], m)
Refuted(mut, why) ==
    /\ mut.op # "create"
    /\ \/ why = "mission_deleted" /\ InLog("delete", mut.mission)
       \/ why = "completed_elsewhere" /\ InLog("complete", mut.mission)
       \/ why = "mission_updated" /\ mut.op = "complete"

\* Mutations are numbered, and come after the creation of their mission.
IssuedOK(d) ==
    /\ Len(issued[d]) <= MaxIssued
    /\ \A n \in DOMAIN issued[d] :
          LET mut == issued[d][n]
          IN  /\ mut.id = <<d, n>>
              /\ mut.op # "create" =>
                    \/ InLog("create", mut.mission)
                    \/ \E k \in DOMAIN issued[d] : k < n /\ Creates(issued[d][k], mut.mission)

\* A creation is never dropped, another mutation with good reason.
DroppedOK(d) ==
    \A x \in dropped[d] :
        /\ Made(d, x.mut) /\ x.mut.op # "create"
        /\ x.why = "undone" \/ Refuted(x.mut, x.why)

\* The queue has the mutations that are not done with, in their order.
QueueOK(d) ==
    /\ \A i \in DOMAIN queue[d] : Made(d, queue[d][i].mut)
    /\ \A i, j \in DOMAIN queue[d] :
          i < j => queue[d][i].mut.id[2] < queue[d][j].mut.id[2]
    /\ \A n \in DOMAIN issued[d] :
          Past(d, n) \/ \E i \in DOMAIN queue[d] : queue[d][i].mut = issued[d][n]

\* An open edit is the next mutation, an undo is of a deletion made here, and
\* what is shown was created.
ScreenOK(d) ==
    /\ draft[d] # Nothing =>
          /\ draft[d].id = <<d, Len(issued[d]) + 1>> /\ Len(issued[d]) < MaxIssued
          /\ draft[d].op = "update" /\ Known(d, draft[d].mission)
    /\ undo[d] # Nothing => Made(d, undo[d].mut) /\ undo[d].mut.op = "delete"
    /\ \A m \in Missions : Row(d, m).stage # "absent" => Known(d, m)

\* The cursor and the end of a page are positions of the log; what was deleted
\* before the cursor is gone.
CursorOK(d) ==
    /\ cursor[d] <= Len(log)
    /\ At(d, "applying") => cursor[d] <= run[d].upto /\ run[d].upto <= Len(log)
    /\ \A m \in Missions :
          (\E i \in 1 .. cursor[d] : log[i].by.op = "delete" /\ log[i].by.mission = m)
          => Row(d, m).stage = "absent" /\ m \in tomb[d]

\* A run pushes what the device made, in order; what it has settled is in the
\* log, but for the last, refused one.
BatchInOrder(d) ==
    \A i \in DOMAIN run[d].batch, n \in DOMAIN issued[d] :
        n < run[d].batch[i].id[2] =>
            Past(d, n) \/ \E j \in DOMAIN run[d].batch : j < i /\ run[d].batch[j] = issued[d][n]
RunOK(d) ==
    /\ run[d].settled <= Len(run[d].batch)
    /\ \A i \in DOMAIN run[d].batch : Made(d, run[d].batch[i])
    /\ BatchInOrder(d)
    /\ \A i \in 1 .. run[d].settled :
          Applied(run[d].batch[i]) \/ (i = run[d].settled /\ run[d].conflict # "none")
    /\ run[d].conflict # "none" =>
          run[d].settled > 0 /\ Refuted(Refused(d), run[d].conflict)
    /\ run[d].at \in {"marking", "pushing", "waiting"} =>
          run[d].settled < Len(run[d].batch) /\ run[d].conflict = "none"
    /\ run[d].at = "settling" => run[d].conflict = "none"
    /\ run[d].at \in {"reconciling", "deferred"} => run[d].conflict # "none"

DeviceOK(d) ==
    IssuedOK(d) /\ DroppedOK(d) /\ QueueOK(d) /\ ScreenOK(d) /\ CursorOK(d) /\ RunOK(d)

\* A device waits for the handler that has its mutation.
CallOK(d) ==
    /\ call[d] # NoHandler <=> At(d, "waiting")
    /\ call[d] # NoHandler => phase[call[d]] # "free" /\ request[call[d]] = ToSend(d)

\* mut is a mutation of a device that is done with those before it.
InTurn(mut) ==
    \E d \in Devices : \E n \in DOMAIN issued[d] :
        mut = issued[d][n] /\ \A k \in DOMAIN issued[d] : k < n => Past(d, k)

\* What a handler serves has its turn, and the answer it has is right.
HandlerOK(h) ==
    /\ phase[h] # "free" => InTurn(request[h])
    /\ phase[h] = "answered" /\ answer[h] # "error" =>
          IF answer[h] = "accepted" THEN Applied(request[h]) ELSE Refuted(request[h], answer[h])

\* So had what is in the log, and each mission there was created.
LoggedOK ==
    \A i \in DOMAIN log :
        /\ log[i].by.id \in Seeded \/ InTurn(log[i].by)
        /\ InLog("create", log[i].by.mission)

SyncInv ==
    /\ ServerProofs!ServerInv
    /\ DeviceTypes
    /\ call \in [Devices -> Handlers \cup {NoHandler}]
    /\ \A d \in Devices : DeviceOK(d) /\ CallOK(d)
    /\ \A h \in Handlers : HandlerOK(h)
    /\ LoggedOK
    /\ AppliedInOrder


(***************************************************************************)
(* Positions and sequences.                                                *)
(***************************************************************************)
\* Each position of a finite set has its rank, another one another rank.
LEMMA Ranks ==
    ASSUME NEW S \in SUBSET Nat, IsFiniteSet(S)
    PROVE  /\ Cardinality(S) \in Nat
           /\ \A i \in S : Cardinality({k \in S : k <= i}) \in 1 .. Cardinality(S)
           /\ \A i, j \in S : i < j =>
                 Cardinality({k \in S : k <= i}) < Cardinality({k \in S : k <= j})
           /\ \A n \in 1 .. Cardinality(S) : \E i \in S : Cardinality({k \in S : k <= i}) = n
<1> DEFINE Below(i) == {k \in S : k <= i}
           rank == [i \in S |-> Cardinality(Below(i))]
<1>1. Cardinality(S) \in Nat
  BY FS_CardinalityType
<1>2. \A i \in S : IsFiniteSet(Below(i)) /\ Cardinality(Below(i)) <= Cardinality(S)
  <2> TAKE i \in S
  <2>1. Below(i) \in SUBSET S
    OBVIOUS
  <2> QED
    BY <2>1, FS_Subset
<1>3. \A i \in S : Cardinality(Below(i)) \in 1 .. Cardinality(S)
  <2> TAKE i \in S
  <2>1. i \in Below(i)
    OBVIOUS
  <2>2. Cardinality(Below(i)) \in Nat /\ Cardinality(Below(i)) # 0
    BY <1>2, <2>1, FS_EmptySet, FS_CardinalityType
  <2> QED
    BY <1>1, <1>2, <2>2
<1>4. \A i, j \in S : i < j => Cardinality(Below(i)) < Cardinality(Below(j))
  <2> SUFFICES ASSUME NEW i \in S, NEW j \in S, i < j
               PROVE  Cardinality(Below(i)) < Cardinality(Below(j))
    OBVIOUS
  <2>0. i \in Nat /\ j \in Nat
    OBVIOUS
  <2>a. \A k \in S : k \in Nat /\ (k <= i => k <= j)
    BY <2>0
  <2>b. j <= j /\ ~(j <= i)
    BY <2>0
  <2>1. Below(i) \in SUBSET Below(j) /\ j \in Below(j) /\ j \notin Below(i)
    BY <2>a, <2>b, Zenon
  <2>2. /\ Cardinality(Below(i)) <= Cardinality(Below(j))
        /\ Cardinality(Below(j)) = Cardinality(Below(i)) => Below(j) = Below(i)
    BY <1>2, <2>1, FS_Subset
  <2> HIDE DEF Below
  <2>3. Cardinality(Below(i)) \in Nat /\ Cardinality(Below(j)) \in Nat
    BY <1>1, <1>3
  <2> QED
    BY <2>1, <2>2, <2>3
<1>5. rank \in Injection(S, 1 .. Cardinality(S))
  <2>1. rank \in [S -> 1 .. Cardinality(S)]
    BY <1>3
  <2>2. \A i, j \in S : rank[i] = rank[j] => i = j
    <3> SUFFICES ASSUME NEW i \in S, NEW j \in S, rank[i] = rank[j], i # j
                 PROVE  FALSE
      OBVIOUS
    <3>1. i < j \/ j < i
      OBVIOUS
    <3>2. rank[i] < rank[j] \/ rank[j] < rank[i]
      BY <1>4, <3>1
    <3>3. rank[i] \in Nat
      BY <1>1, <1>3
    <3> QED
      BY <3>2, <3>3
  <2> QED
    BY <2>1, <2>2 DEF Injection, IsInjective
<1>6. IsFiniteSet(1 .. Cardinality(S)) /\ Cardinality(1 .. Cardinality(S)) = Cardinality(S)
  BY <1>1, FS_Interval
<1>7. rank \in Surjection(S, 1 .. Cardinality(S))
  BY <1>5, <1>6, FS_Injection
<1>8. \A n \in 1 .. Cardinality(S) : \E i \in S : rank[i] = n
  BY <1>7 DEF Surjection
<1> QED
  BY <1>1, <1>3, <1>4, <1>8

\* The n-th positions are all of them, in order.
LEMMA NthOf ==
    ASSUME NEW S \in SUBSET Nat, IsFiniteSet(S)
    PROVE  /\ \A n \in 1 .. Cardinality(S) : Nth(S, n) \in S
           /\ \A n, l \in 1 .. Cardinality(S) : n < l => Nth(S, n) < Nth(S, l)
           /\ \A i \in S : \E n \in 1 .. Cardinality(S) : Nth(S, n) = i
<1> DEFINE Rank(i) == Cardinality({k \in S : k <= i})
<1>1. /\ Cardinality(S) \in Nat
      /\ \A i \in S : Rank(i) \in 1 .. Cardinality(S)
      /\ \A i, j \in S : i < j => Rank(i) < Rank(j)
      /\ \A n \in 1 .. Cardinality(S) : \E i \in S : Rank(i) = n
  BY Ranks
<1>2. \A n \in 1 .. Cardinality(S) : Nth(S, n) \in S /\ Rank(Nth(S, n)) = n
  BY <1>1 DEF Nth
<1> HIDE DEF Rank
<1>3. \A i, j \in S : Rank(i) = Rank(j) => i = j
  <2> SUFFICES ASSUME NEW i \in S, NEW j \in S, Rank(i) = Rank(j), i # j
               PROVE  FALSE
    OBVIOUS
  <2>1. Rank(i) \in Nat /\ Rank(j) \in Nat /\ i \in Nat /\ j \in Nat
    BY <1>1
  <2>2. i < j \/ j < i
    BY <2>1
  <2> QED
    BY <1>1, <2>1, <2>2
<1>4. ASSUME NEW n \in 1 .. Cardinality(S), NEW l \in 1 .. Cardinality(S), n < l
      PROVE  Nth(S, n) < Nth(S, l)
  <2>1. Nth(S, n) \in S /\ Nth(S, l) \in S /\ Rank(Nth(S, n)) = n /\ Rank(Nth(S, l)) = l
    BY <1>2
  <2>a. \A i \in S : i \in Nat
    OBVIOUS
  <2>2. Nth(S, n) \in Nat /\ Nth(S, l) \in Nat /\ n \in Nat /\ l \in Nat
    <3>1. Nth(S, n) \in Nat /\ Nth(S, l) \in Nat
      BY <2>1, <2>a, Zenon
    <3> QED
      BY <1>1, <3>1
  <2>3. ~(Nth(S, l) < Nth(S, n)) /\ Nth(S, n) # Nth(S, l)
    BY <1>1, <1>4, <2>1, <2>2
  <2> QED
    BY <2>2, <2>3
<1>5. \A i \in S : \E n \in 1 .. Cardinality(S) : Nth(S, n) = i
  <2> TAKE i \in S
  <2>1. Rank(i) \in 1 .. Cardinality(S)
    BY <1>1
  <2>2. Nth(S, Rank(i)) = i
    BY <1>2, <1>3, <2>1
  <2> QED
    BY <2>1, <2>2
<1> QED
  BY <1>2, <1>4, <1>5

\* The greatest of some positions is one of them.
LEMMA MaxOf ==
    ASSUME NEW S \in SUBSET Nat, IsFiniteSet(S), S # {}
    PROVE  Max(S) \in S /\ \A i \in S : i <= Max(S)
<1> DEFINE last == Nth(S, Cardinality(S))
<1>1. Cardinality(S) \in Nat /\ Cardinality(S) # 0
  BY FS_CardinalityType, FS_EmptySet
<1>2. last \in S
  BY <1>1, NthOf
<1>3. \A i \in S : last >= i
  <2> TAKE i \in S
  <2>1. PICK n \in 1 .. Cardinality(S) : Nth(S, n) = i
    BY NthOf
  <2>2. n = Cardinality(S) \/ n < Cardinality(S)
    BY <1>1
  <2>3. n < Cardinality(S) => i < last
    BY <1>1, <2>1, NthOf
  <2> HIDE DEF last
  <2>4. n = Cardinality(S) => i = last
    BY <2>1 DEF last
  <2>5. i \in Nat /\ last \in Nat
    BY <1>2
  <2> QED
    BY <2>2, <2>3, <2>4, <2>5
<1> HIDE DEF last
<1>4. Max(S) \in S /\ \A i \in S : Max(S) >= i
  BY <1>2, <1>3 DEF Max
<1> QED
  BY <1>4

\* A queue without some mutations has the others, in the order they had.
LEMMA WithoutKeeps ==
    ASSUME NEW T, NEW s \in Seq(T), NEW muts
    PROVE  LET w == Without(s, muts)
           IN  /\ w \in Seq(T)
               /\ \A i \in DOMAIN w : \E k \in DOMAIN s : w[i] = s[k] /\ s[k].mut \notin muts
               /\ \A i, j \in DOMAIN w : i < j =>
                     \E k, l \in DOMAIN s : k < l /\ w[i] = s[k] /\ w[j] = s[l]
               /\ \A k \in DOMAIN s : s[k].mut \notin muts => \E i \in DOMAIN w : w[i] = s[k]
<1> DEFINE kept == {i \in DOMAIN s : s[i].mut \notin muts}
           c == Cardinality(kept)
           w == [n \in 1 .. c |-> s[Nth(kept, n)]]
<1>1. DOMAIN s = 1 .. Len(s) /\ Len(s) \in Nat /\ \A i \in DOMAIN s : s[i] \in T
  OBVIOUS
<1>2. kept \in SUBSET Nat /\ IsFiniteSet(kept)
  <2>1. IsFiniteSet(1 .. Len(s)) /\ kept \in SUBSET (1 .. Len(s))
    BY <1>1, FS_Interval
  <2> QED
    BY <2>1, FS_Subset
<1>3. c \in Nat
  BY <1>2, FS_CardinalityType
<1>4. /\ \A n \in 1 .. c : Nth(kept, n) \in kept
      /\ \A n, l \in 1 .. c : n < l => Nth(kept, n) < Nth(kept, l)
      /\ \A i \in kept : \E n \in 1 .. c : Nth(kept, n) = i
  BY <1>2, NthOf
<1>5. Without(s, muts) = w
  BY DEF Without
<1>6. kept \subseteq DOMAIN s /\ \A i \in kept : s[i].mut \notin muts
  OBVIOUS
<1>7. \A i \in DOMAIN s : s[i].mut \notin muts => i \in kept
  OBVIOUS
<1> HIDE DEF kept, c
<1>8. w \in Seq(T)
  <2>1. \A n \in 1 .. c : s[Nth(kept, n)] \in T
    BY <1>1, <1>4, <1>6
  <2> QED
    BY <1>3, <2>1, IsASeq
<1>9. \A i \in DOMAIN w : \E k \in DOMAIN s : w[i] = s[k] /\ s[k].mut \notin muts
  BY <1>4, <1>6
<1>10. \A i, j \in DOMAIN w : i < j =>
           \E k, l \in DOMAIN s : k < l /\ w[i] = s[k] /\ w[j] = s[l]
  BY <1>4, <1>6
<1>11. \A k \in DOMAIN s : s[k].mut \notin muts => \E i \in DOMAIN w : w[i] = s[k]
  BY <1>4, <1>7
<1> HIDE DEF w
<1> QED
  BY <1>5, <1>8, <1>9, <1>10, <1>11

\* A sequence without one of its entries has the others, in the order they had.
LEMMA RemoveAtKeeps ==
    ASSUME NEW T, NEW s \in Seq(T), NEW n \in DOMAIN s
    PROVE  LET w == RemoveAt(s, n)
           IN  /\ w \in Seq(T)
               /\ \A i \in DOMAIN w : \E k \in DOMAIN s : w[i] = s[k]
               /\ \A i, j \in DOMAIN w : i < j =>
                     \E k, l \in DOMAIN s : k < l /\ w[i] = s[k] /\ w[j] = s[l]
               /\ \A k \in DOMAIN s : k # n => \E i \in DOMAIN w : w[i] = s[k]
<1> DEFINE w == RemoveAt(s, n)
           s1 == SubSeq(s, 1, n - 1)
           s2 == SubSeq(s, n + 1, Len(s))
<1>1. Len(s) \in Nat /\ DOMAIN s = 1 .. Len(s) /\ n \in Nat /\ 1 <= n /\ n <= Len(s)
  OBVIOUS
<1>2. \A i \in 1 .. Len(s) : s[i] \in T
  OBVIOUS
<1>3. /\ s1 \in Seq(T) /\ Len(s1) = n - 1
      /\ \A i \in 1 .. n - 1 : s1[i] = s[i]
  <2>1. \A i \in 1 .. n - 1 : s[i] \in T
    BY <1>1, <1>2
  <2>2. /\ s1 \in Seq(T) /\ Len(s1) = IF 1 <= n - 1 THEN n - 1 - 1 + 1 ELSE 0
        /\ \A i \in 1 .. n - 1 - 1 + 1 : s1[i] = s[1 + i - 1]
    BY <1>1, <2>1, SubSeqProperties
  <2> HIDE DEF s1
  <2>3. \A i \in 1 .. n - 1 : s1[i] = s[i]
    BY <1>1, <2>2
  <2> QED
    BY <1>1, <2>2, <2>3
<1>4. /\ s2 \in Seq(T) /\ Len(s2) = Len(s) - n
      /\ \A i \in 1 .. Len(s) - n : s2[i] = s[n + i]
  <2>1. \A i \in n + 1 .. Len(s) : s[i] \in T
    BY <1>1, <1>2
  <2>2. /\ s2 \in Seq(T) /\ Len(s2) = IF n + 1 <= Len(s) THEN Len(s) - (n + 1) + 1 ELSE 0
        /\ \A i \in 1 .. Len(s) - (n + 1) + 1 : s2[i] = s[n + 1 + i - 1]
    BY <1>1, <2>1, SubSeqProperties
  <2> HIDE DEF s2
  <2>3. \A i \in 1 .. Len(s) - n : s2[i] = s[n + i]
    <3> TAKE i \in 1 .. Len(s) - n
    <3>1. i \in 1 .. Len(s) - (n + 1) + 1 /\ n + 1 + i - 1 = n + i
      BY <1>1
    <3> QED
      BY <2>2, <3>1
  <2> QED
    BY <1>1, <2>2, <2>3
<1>5. w = s1 \o s2
  BY DEF RemoveAt
<1> HIDE DEF w, s1, s2
<1>6. /\ w \in Seq(T) /\ Len(w) = Len(s) - 1
      /\ \A i \in 1 .. Len(s) - 1 : w[i] = IF i <= n - 1 THEN s1[i] ELSE s2[i - (n - 1)]
  <2>1. /\ s1 \o s2 \in Seq(T) /\ Len(s1 \o s2) = Len(s1) + Len(s2)
        /\ \A i \in 1 .. Len(s1) + Len(s2) :
              (s1 \o s2)[i] = IF i <= Len(s1) THEN s1[i] ELSE s2[i - Len(s1)]
    BY <1>3, <1>4, ConcatProperties
  <2>2. Len(s1) + Len(s2) = Len(s) - 1
    BY <1>1, <1>3, <1>4
  <2> QED
    BY <1>3, <1>5, <2>1, <2>2
<1>7. DOMAIN w = 1 .. Len(s) - 1
  BY <1>6
<1>8. \A i \in 1 .. Len(s) - 1 : w[i] = s[IF i < n THEN i ELSE i + 1]
  <2> TAKE i \in 1 .. Len(s) - 1
  <2>1. CASE i < n
    BY <1>1, <1>3, <1>6, <2>1
  <2>2. CASE ~(i < n)
    <3>1. i - (n - 1) \in 1 .. Len(s) - n /\ n + (i - (n - 1)) = i + 1
      BY <1>1, <2>2
    <3>2. w[i] = s2[i - (n - 1)]
      BY <1>1, <1>6, <2>2
    <3>3. s2[i - (n - 1)] = s[n + (i - (n - 1))]
      BY <1>4, <3>1
    <3> QED
      BY <2>2, <3>1, <3>2, <3>3
  <2> QED
    BY <2>1, <2>2
<1>9. \A i \in DOMAIN w : \E k \in DOMAIN s : w[i] = s[k]
  BY <1>1, <1>7, <1>8
<1>10. ASSUME NEW i \in DOMAIN w, NEW j \in DOMAIN w, i < j
       PROVE  \E k, l \in DOMAIN s : k < l /\ w[i] = s[k] /\ w[j] = s[l]
  <2> DEFINE at(p) == IF p < n THEN p ELSE p + 1
  <2>1. at(i) \in DOMAIN s /\ at(j) \in DOMAIN s /\ at(i) < at(j)
    BY <1>1, <1>7, <1>10
  <2>2. w[i] = s[at(i)] /\ w[j] = s[at(j)]
    BY <1>7, <1>8
  <2> QED
    BY <2>1, <2>2
<1>11. ASSUME NEW k \in DOMAIN s, k # n
       PROVE  \E i \in DOMAIN w : w[i] = s[k]
  <2> DEFINE i == IF k < n THEN k ELSE k - 1
  <2>1. i \in DOMAIN w /\ (IF i < n THEN i ELSE i + 1) = k
    BY <1>1, <1>7, <1>11
  <2> HIDE DEF i
  <2> QED
    BY <1>7, <1>8, <2>1
<1> QED
  BY <1>6, <1>9, <1>10, <1>11 DEF w

(***************************************************************************)
(* The server in the system takes its own steps.                           *)
(***************************************************************************)
\* The mutations the devices send are those of the server.
LEMMA SameMutations == \A r \in Mutation : r \in ServerProofs!Mutation
BY DEF Mutation, ServerProofs!Mutation

\* Requests arrive, their answers are read, transactions roll back and keys
\* expire as they do at the server alone.
LEMMA SameExchange ==
    ASSUME NEW h \in Handlers
    PROVE  /\ \A mut : Server!Submit(h, mut) => ServerProofs!Submit(h, mut)
           /\ Server!Release(h) => ServerProofs!Release(h)
           /\ Server!Abort(h) => ServerProofs!Abort(h)
           /\ \A k : Server!ExpireKey(k) => ServerProofs!ExpireKey(k)
<1>1. \A mut : Server!Submit(h, mut) => ServerProofs!Submit(h, mut)
  BY DEF Server!Submit, ServerProofs!Submit, Server!dbVars, ServerProofs!dbVars
<1>2. Server!Release(h) => ServerProofs!Release(h)
  BY DEF Server!Release, ServerProofs!Release, Server!dbVars, ServerProofs!dbVars,
         Server!NoMutation, ServerProofs!NoMutation
<1>3. Server!Abort(h) => ServerProofs!Abort(h)
  BY DEF Server!Abort, ServerProofs!Abort, Server!dbVars, ServerProofs!dbVars,
         Server!Respond, ServerProofs!Respond
<1>4. \A k : Server!ExpireKey(k) => ServerProofs!ExpireKey(k)
  BY DEF Server!ExpireKey, ServerProofs!ExpireKey
<1> QED
  BY <1>1, <1>2, <1>3, <1>4

\* So do the handlers.
LEMMA SameService ==
    ASSUME NEW h \in Handlers, Handle(h)
    PROVE  ServerProofs!Serve(h) \/ (Abandon(h) /\ ServerProofs!Release(h))
<1> USE DEF Server!dbVars, ServerProofs!dbVars, Server!Respond, ServerProofs!Respond,
            Server!Recorded, ServerProofs!Recorded, Server!Applying, ServerProofs!Applying,
            Server!Current, ServerProofs!Current, Server!Accept, ServerProofs!Accept,
            Server!Completing, ServerProofs!Completing, Server!KeyTaken, ServerProofs!KeyTaken,
            Server!StoreKey, ServerProofs!StoreKey, Server!Shaped, ServerProofs!Shaped
<1>1. Server!FindRecorded(h) => ServerProofs!FindRecorded(h)
  BY DEF Server!FindRecorded, ServerProofs!FindRecorded
<1>2. Server!CreateMission(h) => ServerProofs!CreateMission(h)
  BY DEF Server!CreateMission, ServerProofs!CreateMission
<1>3. Server!UpdateMission(h) => ServerProofs!UpdateMission(h)
  BY DEF Server!UpdateMission, ServerProofs!UpdateMission
<1>4. Server!DeleteMission(h) => ServerProofs!DeleteMission(h)
  BY DEF Server!DeleteMission, ServerProofs!DeleteMission
<1>5. Server!RefuseDeleted(h) => ServerProofs!RefuseDeleted(h)
  BY DEF Server!RefuseDeleted, ServerProofs!RefuseDeleted
<1>6. Server!RefuseWithError(h) => ServerProofs!RefuseWithError(h)
  BY DEF Server!RefuseWithError, ServerProofs!RefuseWithError
<1>7. Server!ReplayCompletion(h) => ServerProofs!ReplayCompletion(h)
  BY DEF Server!ReplayCompletion, ServerProofs!ReplayCompletion
<1>8. Server!CompleteMission(h) => ServerProofs!CompleteMission(h)
  BY DEF Server!CompleteMission, ServerProofs!CompleteMission
<1>9. Server!CompletedElsewhere(h) => ServerProofs!CompletedElsewhere(h)
  BY DEF Server!CompletedElsewhere, ServerProofs!CompletedElsewhere
<1>10. Server!CompletionOfDeleted(h) => ServerProofs!CompletionOfDeleted(h)
  BY DEF Server!CompletionOfDeleted, ServerProofs!CompletionOfDeleted
<1>11. Server!RejectCompletion(h) => ServerProofs!RejectCompletion(h)
  BY DEF Server!RejectCompletion, ServerProofs!RejectCompletion
<1>12. Abandon(h) => Abandon(h) /\ ServerProofs!Release(h)
  BY SameExchange DEF Abandon
<1>13. ServerProofs!FindRecorded(h) \/ ServerProofs!CreateMission(h)
          \/ ServerProofs!UpdateMission(h) \/ ServerProofs!DeleteMission(h)
          \/ ServerProofs!RefuseDeleted(h) \/ ServerProofs!RefuseWithError(h)
          \/ ServerProofs!ReplayCompletion(h) \/ ServerProofs!CompleteMission(h)
          \/ ServerProofs!CompletedElsewhere(h) \/ ServerProofs!CompletionOfDeleted(h)
          \/ ServerProofs!RejectCompletion(h)
          => ServerProofs!Serve(h)
  BY Zenon DEF ServerProofs!Serve
<1>14. \/ Server!FindRecorded(h) \/ Server!CreateMission(h) \/ Server!UpdateMission(h)
       \/ Server!DeleteMission(h) \/ Server!RefuseDeleted(h) \/ Server!RefuseWithError(h)
       \/ Server!ReplayCompletion(h) \/ Server!CompleteMission(h)
       \/ Server!CompletedElsewhere(h) \/ Server!CompletionOfDeleted(h)
       \/ Server!RejectCompletion(h) \/ Abandon(h)
  BY Zenon DEF Handle
<1> QED
  BY <1>1, <1>2, <1>3, <1>4, <1>5, <1>6, <1>7, <1>8, <1>9, <1>10, <1>11, <1>12, <1>13, <1>14, Zenon

(***************************************************************************)
(* What is never taken back.                                               *)
(***************************************************************************)
\* The log, what a device made and what it dropped only grow.
Grows ==
    /\ \A i \in DOMAIN log : i \in DOMAIN log' /\ log'[i] = log[i]
    /\ \A d \in Devices :
          /\ \A n \in DOMAIN issued[d] : n \in DOMAIN issued'[d] /\ issued'[d][n] = issued[d][n]
          /\ dropped[d] \subseteq dropped'[d]

\* What the log said of a mutation or a mission it still says.
LEMMA LogMonotone ==
    ASSUME Grows
    PROVE  /\ \A mut : Applied(mut) => Applied(mut)'
           /\ \A op, m : InLog(op, m) => InLog(op, m)'
           /\ \A mut, why : Refuted(mut, why) => Refuted(mut, why)'
<1>1. \A mut : Applied(mut) => Applied(mut)'
  BY DEF Grows, Applied
<1>2. \A op, m : InLog(op, m) => InLog(op, m)'
  BY DEF Grows, InLog
<1>3. \A mut, why : Refuted(mut, why) => Refuted(mut, why)'
  BY <1>2 DEF Refuted
<1> QED
  BY <1>1, <1>2, <1>3

\* What was true of a mutation or a mission on a device stays true.
LEMMA Monotone ==
    ASSUME Grows, NEW d \in Devices
    PROVE  /\ \A mut : Applied(mut) => Applied(mut)'
           /\ \A op, m : InLog(op, m) => InLog(op, m)'
           /\ \A mut, why : Refuted(mut, why) => Refuted(mut, why)'
           /\ \A n \in DOMAIN issued[d] : Past(d, n) => Past(d, n)'
           /\ \A mut : Made(d, mut) => Made(d, mut)'
           /\ \A m : Known(d, m) => Known(d, m)'
<1>1. \A mut : Applied(mut) => Applied(mut)'
  BY LogMonotone
<1>2. \A op, m : InLog(op, m) => InLog(op, m)'
  BY LogMonotone
<1>3. \A mut, why : Refuted(mut, why) => Refuted(mut, why)'
  BY LogMonotone
<1>4. \A n \in DOMAIN issued[d] : Past(d, n) => Past(d, n)'
  BY <1>1 DEF Grows, Past
<1>5. \A mut : Made(d, mut) => Made(d, mut)'
  BY DEF Grows, Made
<1>6. \A m : Known(d, m) => Known(d, m)'
  BY <1>2 DEF Grows, Known
<1> QED
  BY <1>1, <1>2, <1>3, <1>4, <1>5, <1>6

\* A mutation keeps its turn.
LEMMA TurnStays ==
    ASSUME Grows, DeviceTypes, DeviceTypes', NEW mut, InTurn(mut)
    PROVE  InTurn(mut)'
<1>0. PICK d \in Devices : \E n \in DOMAIN issued[d] :
          mut = issued[d][n] /\ \A k \in DOMAIN issued[d] : k < n => Past(d, k)
  BY DEF InTurn
<1>1. PICK n \in DOMAIN issued[d] :
          mut = issued[d][n] /\ \A k \in DOMAIN issued[d] : k < n => Past(d, k)
  BY <1>0
<1>2. /\ DOMAIN issued[d] = 1 .. Len(issued[d]) /\ Len(issued[d]) \in Nat
      /\ DOMAIN issued'[d] = 1 .. Len(issued'[d]) /\ Len(issued'[d]) \in Nat
  <2>1. issued[d] \in Seq(Mutation) /\ issued'[d] \in Seq(Mutation)
    BY DEF DeviceTypes
  <2> QED
    BY <2>1
<1>3. n \in DOMAIN issued'[d] /\ issued'[d][n] = mut
  BY <1>1 DEF Grows
<1>4. ASSUME NEW k \in DOMAIN issued'[d], k < n
      PROVE  Past(d, k)'
  <2>1. k \in DOMAIN issued[d]
    BY <1>2, <1>4
  <2> QED
    BY <1>1, <1>4, <2>1, Monotone
<1> QED
  BY <1>3, <1>4 DEF InTurn

\* A mutation that takes effect is new in the log, at its end, and is of a
\* mission the log has, if it does not create it.
LEMMA TakesEffect ==
    ASSUME ServerProofs!ServerInv, NEW mut, ServerProofs!Applied(mut)
    PROVE  /\ Len(log) \in Nat /\ DOMAIN log = 1 .. Len(log) /\ DOMAIN log' = 1 .. Len(log) + 1
           /\ \A i \in DOMAIN log : i \in DOMAIN log' /\ log'[i] = log[i] /\ log[i].by # mut
           /\ log'[Len(log) + 1].by = mut
           /\ mut.op = "create" \/ \E i \in DOMAIN log : log[i].by.mission = mut.mission
<1> DEFINE row == ServerProofs!Ledger!After(mission[mut.mission], mut)
           e == [by |-> mut, row |-> row]
<1>1. /\ log' = Append(log, e)
      /\ \A i \in DOMAIN log : log[i].by # mut
      /\ ServerProofs!Ledger!Permits(mission[mut.mission], mut)
      /\ mut \in ServerProofs!Mutation
  BY Zenon DEF ServerProofs!Applied
<1> HIDE DEF row
<1>2. log \in Seq(ServerProofs!Entry) /\ e.by = mut
  BY DEF ServerProofs!ServerInv, ServerProofs!Types
<1> HIDE DEF e
<1>3. /\ Len(log) \in Nat /\ DOMAIN log = 1 .. Len(log) /\ DOMAIN log' = 1 .. Len(log) + 1
      /\ \A i \in DOMAIN log : i \in DOMAIN log' /\ log'[i] = log[i]
      /\ log'[Len(log) + 1] = e
  BY <1>1, <1>2
<1>4. mut.op = "create" \/ \E i \in DOMAIN log : log[i].by.mission = mut.mission
  <2> SUFFICES ASSUME mut.op # "create", ~\E i \in DOMAIN log : log[i].by.mission = mut.mission
               PROVE  FALSE
    OBVIOUS
  <2>1. mut.mission \in Missions
    BY <1>1 DEF ServerProofs!Mutation
  <2>2. mission[mut.mission] = ServerProofs!Ledger!RowOf(mut.mission)
    BY <2>1 DEF ServerProofs!ServerInv, ServerProofs!LogOK, ServerProofs!LogIsAuthoritative
  <2>3. mission[mut.mission].stage = "absent"
    BY <2>2 DEF ServerProofs!Ledger!RowOf, ServerProofs!Ledger!NoRow
  <2> QED
    BY <1>1, <2>3 DEF ServerProofs!Ledger!Permits
<1> QED
  BY <1>1, <1>2, <1>3, <1>4

(***************************************************************************)
(* A handler.                                                              *)
(***************************************************************************)
\* A mutation that has its turn is of a mission that was created.
LEMMA TurnIsGrounded ==
    ASSUME NEW mut, InTurn(mut), mut.op # "create", \A d \in Devices : DeviceOK(d)
    PROVE  InLog("create", mut.mission)
<1>0. PICK d \in Devices : \E n \in DOMAIN issued[d] :
          mut = issued[d][n] /\ \A k \in DOMAIN issued[d] : k < n => Past(d, k)
  BY DEF InTurn
<1>1. PICK n \in DOMAIN issued[d] :
          mut = issued[d][n] /\ \A k \in DOMAIN issued[d] : k < n => Past(d, k)
  BY <1>0
<1>2. IssuedOK(d) /\ DroppedOK(d)
  BY DEF DeviceOK
<1>3. CASE \E k \in DOMAIN issued[d] : k < n /\ Creates(issued[d][k], mut.mission)
  <2>1. PICK k \in DOMAIN issued[d] : k < n /\ Creates(issued[d][k], mut.mission)
    BY <1>3
  <2>2. \A x \in dropped[d] : x.mut # issued[d][k]
    BY <1>2, <2>1 DEF DroppedOK, Creates
  <2>3. Applied(issued[d][k])
    BY <1>1, <2>1, <2>2 DEF Past
  <2> QED
    BY <2>1, <2>3 DEF Applied, InLog, Creates
<1> QED
  BY <1>1, <1>2, <1>3 DEF IssuedOK

\* The actions of a handler that give an answer, and which mutations they serve.
LEMMA Answering ==
    ASSUME ServerProofs!ServerInv, NEW h \in Handlers, ServerProofs!Serve(h)
    PROVE  /\ phase[h] \in {"received", "fresh"}
           /\ request' = request /\ phase'[h] # "free"
           /\ \A g \in Handlers : g # h => phase'[g] = phase[g] /\ answer'[g] = answer[g]
           /\ phase'[h] = "answered" =>
                 /\ answer'[h] \in {"completed_elsewhere", "mission_updated"}
                       => request[h].op = "complete"
                 /\ answer'[h] = "mission_deleted" => request[h].op # "create"
           /\ log' = log \/ ServerProofs!Applied(request[h])
<1>0. /\ phase \in [Handlers -> {"free", "received", "fresh", "answered"}]
      /\ answer \in [Handlers -> ServerProofs!Answer]
  BY DEF ServerProofs!ServerInv, ServerProofs!Types
<1> DEFINE Kept(a) ==
              /\ request' = request /\ phase'[h] = "answered" /\ answer'[h] = a
              /\ \A g \in Handlers : g # h => phase'[g] = phase[g] /\ answer'[g] = answer[g]
<1>1. ASSUME NEW a, ServerProofs!Respond(h, a)
      PROVE  Kept(a)
  BY <1>0, <1>1 DEF ServerProofs!Respond
<1> HIDE DEF Kept
<1>2. CASE ServerProofs!FindRecorded(h)
  <2>1. phase[h] = "received" /\ request[h].op # "complete" /\ log' = log
    BY <1>2 DEF ServerProofs!FindRecorded, ServerProofs!dbVars
  <2>2. \/ \E a \in {"accepted", "error"} : ServerProofs!Respond(h, a)
        \/ phase' = [phase EXCEPT ![h] = "fresh"] /\ request' = request /\ answer' = answer
    BY <1>2 DEF ServerProofs!FindRecorded
  <2>3. CASE \E a \in {"accepted", "error"} : ServerProofs!Respond(h, a)
    <3>1. PICK a \in {"accepted", "error"} : Kept(a)
      BY <1>1, <2>3
    <3> QED
      BY <2>1, <3>1 DEF Kept
  <2>4. CASE phase' = [phase EXCEPT ![h] = "fresh"] /\ request' = request /\ answer' = answer
    BY <1>0, <2>1, <2>4
  <2> QED
    BY <2>2, <2>3, <2>4
<1>3. CASE ServerProofs!CreateMission(h) \/ ServerProofs!UpdateMission(h)
             \/ ServerProofs!DeleteMission(h)
  <2>1. phase[h] = "fresh" /\ ServerProofs!Respond(h, "accepted")
    BY <1>3 DEF ServerProofs!CreateMission, ServerProofs!UpdateMission,
                ServerProofs!DeleteMission, ServerProofs!Accept, ServerProofs!Applying
  <2>2. ServerProofs!Applied(request[h])
    BY <1>3, SameMutations, NoIdAssumption, ServerProofs!PushApplies
  <2>3. Kept("accepted")
    BY <1>1, <2>1
  <2> QED
    BY <2>1, <2>2, <2>3 DEF Kept
<1>4. CASE ServerProofs!CompleteMission(h)
  <2>1. phase[h] = "received" /\ ServerProofs!Respond(h, "accepted")
    BY <1>4 DEF ServerProofs!CompleteMission, ServerProofs!Completing
  <2>2. ServerProofs!Applied(request[h])
    BY <1>4, SameMutations, NoIdAssumption, ServerProofs!CompletionApplies
  <2>3. Kept("accepted")
    BY <1>1, <2>1
  <2> QED
    BY <2>1, <2>2, <2>3 DEF Kept
<1>5. CASE ServerProofs!RefuseDeleted(h) \/ ServerProofs!RefuseWithError(h)
  <2>1. /\ phase[h] \in {"received", "fresh"} /\ log' = log
        /\ \/ ServerProofs!Respond(h, "error")
           \/ ServerProofs!Respond(h, "mission_deleted") /\ request[h].op # "create"
    BY <1>5 DEF ServerProofs!RefuseDeleted, ServerProofs!RefuseWithError,
                ServerProofs!Applying, ServerProofs!dbVars
  <2>2. Kept("error") \/ (Kept("mission_deleted") /\ request[h].op # "create")
    BY <1>1, <2>1
  <2> QED
    BY <2>1, <2>2 DEF Kept
<1>6. CASE ServerProofs!ReplayCompletion(h) \/ ServerProofs!CompletedElsewhere(h)
             \/ ServerProofs!CompletionOfDeleted(h) \/ ServerProofs!RejectCompletion(h)
  <2>1. /\ phase[h] = "received" /\ request[h].op = "complete" /\ log' = log
        /\ \E a : ServerProofs!Respond(h, a)
    BY <1>6 DEF ServerProofs!ReplayCompletion, ServerProofs!CompletedElsewhere,
                ServerProofs!CompletionOfDeleted, ServerProofs!RejectCompletion,
                ServerProofs!Completing, ServerProofs!dbVars
  <2>2. PICK a : Kept(a)
    BY <1>1, <2>1
  <2> QED
    BY <2>1, <2>2 DEF Kept
<1> QED
  BY <1>2, <1>3, <1>4, <1>5, <1>6 DEF ServerProofs!Serve

(***************************************************************************)
(* What a step leaves alone stays right.                                   *)
(***************************************************************************)
\* The mutations of a device that makes none.
LEMMA IssuedKept ==
    ASSUME Grows, NEW d \in Devices, IssuedOK(d), issued'[d] = issued[d]
    PROVE  IssuedOK(d)'
BY Monotone DEF IssuedOK

\* The dropped mutations of a device that drops none.
LEMMA DroppedKept ==
    ASSUME Grows, NEW d \in Devices, DroppedOK(d), dropped'[d] = dropped[d]
    PROVE  DroppedOK(d)'
BY Monotone DEF DroppedOK

\* A queue whose mutations are the ones it had.
LEMMA QueueKept ==
    ASSUME Grows, NEW d \in Devices, QueueOK(d), issued'[d] = issued[d],
           DOMAIN queue'[d] = DOMAIN queue[d],
           \A i \in DOMAIN queue[d] : queue'[d][i].mut = queue[d][i].mut
    PROVE  QueueOK(d)'
<1>1. \A i \in DOMAIN queue'[d] : \A mut : mut = queue'[d][i].mut => Made(d, mut)'
  BY Monotone DEF QueueOK
<1>2. \A i, j \in DOMAIN queue'[d] :
          i < j => queue'[d][i].mut.id[2] < queue'[d][j].mut.id[2]
  BY DEF QueueOK
<1>3. \A n \in DOMAIN issued'[d] :
          Past(d, n)' \/ \E i \in DOMAIN queue'[d] : queue'[d][i].mut = issued'[d][n]
  BY Monotone DEF QueueOK
<1> QED
  BY <1>1, <1>2, <1>3 DEF QueueOK, Made

\* What the user sees, when no row comes back.
LEMMA ScreenKept ==
    ASSUME Grows, NEW d \in Devices, ScreenOK(d), issued'[d] = issued[d],
           draft'[d] = draft[d] \/ draft'[d] = Nothing, undo'[d] = undo[d] \/ undo'[d] = Nothing,
           \A m \in Missions : Row(d, m)'.stage # "absent" => Row(d, m).stage # "absent"
    PROVE  ScreenOK(d)'
<1>1. \A mut : mut = draft'[d] /\ mut # Nothing =>
          /\ mut.id = <<d, Len(issued'[d]) + 1>> /\ Len(issued'[d]) < MaxIssued
          /\ mut.op = "update" /\ Known(d, mut.mission)'
  BY Monotone DEF ScreenOK
<1>2. \A u : u = undo'[d] /\ u # Nothing => Made(d, u.mut)' /\ u.mut.op = "delete"
  BY Monotone DEF ScreenOK
<1>3. \A m \in Missions : Row(d, m)'.stage # "absent" => Known(d, m)'
  BY Monotone DEF ScreenOK
<1> QED
  BY <1>1, <1>2, <1>3 DEF ScreenOK, Made, Known, InLog

\* The positions in the log, when what is gone stays so.
LEMMA CursorKept ==
    ASSUME Grows, NEW T, log \in Seq(T), log' \in Seq(T), DeviceTypes,
           NEW d \in Devices, CursorOK(d), cursor'[d] = cursor[d],
           run'[d].at = "applying" => run'[d] = run[d],
           \A m \in Missions : Row(d, m).stage = "absent" /\ m \in tomb[d]
               => Row(d, m)'.stage = "absent" /\ m \in tomb'[d]
    PROVE  CursorOK(d)'
<1>1. /\ Len(log) \in Nat /\ DOMAIN log = 1 .. Len(log)
      /\ Len(log') \in Nat /\ DOMAIN log' = 1 .. Len(log')
  OBVIOUS
<1>2. \A i \in DOMAIN log : i \in DOMAIN log' /\ log'[i] = log[i]
  BY DEF Grows
<1>3. Len(log) <= Len(log')
  BY <1>1, <1>2
<1>4. cursor[d] \in Nat /\ run[d].upto \in Nat
  BY DEF DeviceTypes, Running
<1>5. cursor[d] <= Len(log)
  BY DEF CursorOK
<1>6. cursor'[d] <= Len(log')
  BY <1>1, <1>3, <1>4, <1>5
<1>7. run'[d].at = "applying" => cursor'[d] <= run'[d].upto /\ run'[d].upto <= Len(log')
  BY <1>1, <1>3, <1>4 DEF CursorOK, At
<1>8. ASSUME NEW m \in Missions,
             \E i \in 1 .. cursor'[d] : log'[i].by.op = "delete" /\ log'[i].by.mission = m
      PROVE  Row(d, m)'.stage = "absent" /\ m \in tomb'[d]
  <2>1. PICK i \in 1 .. cursor[d] : log'[i].by.op = "delete" /\ log'[i].by.mission = m
    BY <1>8
  <2>2. log'[i] = log[i]
    BY <1>1, <1>2, <1>4, <1>5
  <2> QED
    BY <2>1, <2>2 DEF CursorOK
<1> QED
  BY <1>6, <1>7, <1>8 DEF CursorOK, At

\* A run that goes on with the batch, and what of it is settled, as it was; the
\* device may make more mutations.
LEMMA RunGoes ==
    ASSUME Grows, DeviceTypes, DeviceTypes', NEW d \in Devices, IssuedOK(d), RunOK(d),
           run'[d].batch = run[d].batch, run'[d].settled = run[d].settled,
           run'[d].conflict = run[d].conflict,
           run'[d].at \in {"marking", "pushing", "waiting"} =>
               run[d].settled < Len(run[d].batch) /\ run[d].conflict = "none",
           run'[d].at = "settling" => run[d].conflict = "none",
           run'[d].at \in {"reconciling", "deferred"} => run[d].conflict # "none"
    PROVE  RunOK(d)'
<1>1. PICK r \in Running : r = run[d]
  BY DEF DeviceTypes
<1>2. r.batch \in Seq(Mutation) /\ r.settled \in Nat
  BY DEF Running
<1>3. DOMAIN r.batch = 1 .. Len(r.batch) /\ Len(r.batch) \in Nat
  BY <1>2
<1>4. /\ r.settled <= Len(r.batch)
      /\ \A i \in DOMAIN r.batch : Made(d, r.batch[i])
      /\ \A i \in 1 .. r.settled :
            Applied(r.batch[i]) \/ (i = r.settled /\ r.conflict # "none")
      /\ r.conflict # "none" => r.settled > 0 /\ Refuted(r.batch[r.settled], r.conflict)
  BY <1>1 DEF RunOK, Refused
<1>5. run'[d].batch = r.batch /\ run'[d].settled = r.settled /\ run'[d].conflict = r.conflict
  BY <1>1
<1>6. BatchInOrder(d)'
  <2> SUFFICES ASSUME NEW i \in DOMAIN r.batch, NEW n \in DOMAIN issued'[d],
                      n < r.batch[i].id[2]
               PROVE  Past(d, n)' \/ \E j \in DOMAIN r.batch : j < i /\ r.batch[j] = issued'[d][n]
    BY <1>5 DEF BatchInOrder
  <2>1. PICK k \in DOMAIN issued[d] : issued[d][k] = r.batch[i]
    BY <1>4 DEF Made
  <2>2. issued[d] \in Seq(Mutation) /\ issued'[d] \in Seq(Mutation)
    BY DEF DeviceTypes
  <2>3. DOMAIN issued[d] = 1 .. Len(issued[d]) /\ DOMAIN issued'[d] = 1 .. Len(issued'[d])
        /\ Len(issued[d]) \in Nat /\ Len(issued'[d]) \in Nat
    BY <2>2
  <2>4. r.batch[i].id = <<d, k>>
    BY <2>1 DEF IssuedOK
  <2>5. n \in DOMAIN issued[d]
    BY <2>3, <2>4
  <2>6. issued'[d][n] = issued[d][n]
    BY <2>5 DEF Grows
  <2>7. Past(d, n) \/ \E j \in DOMAIN r.batch : j < i /\ r.batch[j] = issued[d][n]
    BY <1>1, <2>5 DEF RunOK, BatchInOrder
  <2> QED
    BY <2>5, <2>6, <2>7, Monotone
<1>7. \A i \in DOMAIN r.batch : Made(d, r.batch[i])'
  BY <1>4, Monotone
<1>8. \A i \in 1 .. r.settled :
          Applied(r.batch[i])' \/ (i = r.settled /\ r.conflict # "none")
  BY <1>4, Monotone
<1>9. r.conflict # "none" => r.settled > 0 /\ Refuted(r.batch[r.settled], r.conflict)'
  BY <1>4, Monotone
<1>10. /\ run'[d].at \in {"marking", "pushing", "waiting"} =>
             r.settled < Len(r.batch) /\ r.conflict = "none"
       /\ run'[d].at = "settling" => r.conflict = "none"
       /\ run'[d].at \in {"reconciling", "deferred"} => r.conflict # "none"
  BY <1>1
<1> QED
  BY <1>4, <1>5, <1>6, <1>7, <1>8, <1>9, <1>10
  DEF RunOK, Refused, Made, Applied, Refuted, InLog

\* A run that stays where it is.
LEMMA RunKept ==
    ASSUME Grows, DeviceTypes, DeviceTypes', NEW d \in Devices, IssuedOK(d), RunOK(d),
           run'[d] = run[d]
    PROVE  RunOK(d)'
BY RunGoes DEF RunOK

\* A run that is over.
LEMMA RunEnds ==
    ASSUME NEW d \in Devices, run'[d] = NoRun
    PROVE  RunOK(d)'
<1>1. /\ run'[d].batch = <<>> /\ run'[d].settled = 0 /\ run'[d].conflict = "none"
      /\ run'[d].at = "idle" /\ DOMAIN run'[d].batch = {} /\ Len(run'[d].batch) = 0
  BY DEF NoRun
<1>2. \A i \in 1 .. 0 : FALSE
  OBVIOUS
<1> QED
  BY <1>1, <1>2 DEF RunOK, BatchInOrder

\* A device that a step does not touch.
Unmoved(d) ==
    /\ queue'[d] = queue[d] /\ view'[d] = view[d] /\ tomb'[d] = tomb[d]
    /\ cursor'[d] = cursor[d] /\ run'[d] = run[d] /\ draft'[d] = draft[d]
    /\ undo'[d] = undo[d] /\ issued'[d] = issued[d] /\ dropped'[d] = dropped[d]

\* It stays as it was.
LEMMA UnmovedKept ==
    ASSUME Grows, NEW T, log \in Seq(T), log' \in Seq(T), DeviceTypes, DeviceTypes',
           NEW d \in Devices, DeviceOK(d), Unmoved(d)
    PROVE  DeviceOK(d)'
<1>1. \A m : Row(d, m)' = Row(d, m)
  BY DEF Unmoved, Row
<1>2. IssuedOK(d)' /\ DroppedOK(d)' /\ QueueOK(d)'
  BY IssuedKept, DroppedKept, QueueKept DEF Unmoved, DeviceOK
<1>3. ScreenOK(d)'
  BY <1>1, ScreenKept DEF Unmoved, DeviceOK
<1>4. CursorOK(d)'
  BY <1>1, CursorKept DEF Unmoved, DeviceOK
<1>5. RunOK(d)'
  BY RunKept DEF Unmoved, DeviceOK
<1> QED
  BY <1>2, <1>3, <1>4, <1>5 DEF DeviceOK

(***************************************************************************)
(* The log.                                                                *)
(***************************************************************************)
\* What a device made has a number no seed has.
LEMMA NumbersOf ==
    ASSUME DeviceTypes, NEW d \in Devices, IssuedOK(d), NEW n \in DOMAIN issued[d]
    PROVE  /\ issued[d][n].id = <<d, n>> /\ issued[d][n].id \notin Seeded
           /\ n \in Nat /\ issued[d][n] \in Mutation
<1>1. issued[d] \in Seq(Mutation)
  BY DEF DeviceTypes
<1>2. n \in 1 .. Len(issued[d]) /\ Len(issued[d]) \in Nat /\ issued[d][n] \in Mutation
  BY <1>1
<1>3. issued[d][n].id = <<d, n>> /\ Len(issued[d]) <= MaxIssued
  BY DEF IssuedOK
<1>4. n \in 1 .. MaxIssued
  BY <1>2, <1>3, MaxIssuedAssumption
<1>5. <<d, n>> \in Devices \X (1 .. MaxIssued)
  BY <1>4
<1> QED
  BY <1>2, <1>3, <1>5, SeededAssumption

\* Where a mutation that has its turn stands.
LEMMA TurnOf ==
    ASSUME DeviceTypes, \A e \in Devices : IssuedOK(e), NEW mut, InTurn(mut),
           NEW d \in Devices, NEW n, mut.id = <<d, n>>
    PROVE  /\ n \in DOMAIN issued[d] /\ issued[d][n] = mut
           /\ \A k \in DOMAIN issued[d] : k < n => Past(d, k)
<1>0. PICK e \in Devices : \E l \in DOMAIN issued[e] :
          mut = issued[e][l] /\ \A k \in DOMAIN issued[e] : k < l => Past(e, k)
  BY DEF InTurn
<1>1. PICK l \in DOMAIN issued[e] :
          mut = issued[e][l] /\ \A k \in DOMAIN issued[e] : k < l => Past(e, k)
  BY <1>0
<1>2. mut.id = <<e, l>>
  BY <1>1 DEF IssuedOK
<1>3. e = d /\ l = n
  BY <1>2
<1> QED
  BY <1>1, <1>3

\* A mutation in the log that a device made is one it had made when its turn
\* came, whatever the device makes after.
LEMMA LoggedIsIssued ==
    ASSUME DeviceTypes, \A e \in Devices : IssuedOK(e), LoggedOK, NEW i \in DOMAIN log,
           NEW d \in Devices, NEW n \in 1 .. MaxIssued, log[i].by.id = <<d, n>>
    PROVE  /\ n \in DOMAIN issued[d] /\ issued[d][n] = log[i].by
           /\ \A k \in DOMAIN issued[d] : k < n => Past(d, k)
<1>1. <<d, n>> \notin Seeded
  BY SeededAssumption
<1>2. InTurn(log[i].by)
  BY <1>1 DEF LoggedOK
<1>3. PICK mut : mut = log[i].by
  OBVIOUS
<1> QED
  BY <1>2, <1>3, TurnOf

\* While the log stays as it is, so does its order.
LEMMA LogStays ==
    ASSUME DeviceTypes, DeviceTypes', Grows, log' = log, LoggedOK, AppliedInOrder,
           \A e \in Devices : IssuedOK(e), \A e \in Devices : IssuedOK(e)'
    PROVE  LoggedOK' /\ AppliedInOrder'
<1>1. LoggedOK'
  <2>1. ASSUME NEW i \in DOMAIN log, NEW mut, mut = log[i].by
        PROVE  (mut.id \in Seeded \/ InTurn(mut)') /\ InLog("create", mut.mission)'
    <3>1. mut.id \in Seeded \/ InTurn(mut)
      BY <2>1 DEF LoggedOK
    <3>2. mut.id \in Seeded \/ InTurn(mut)'
      BY <3>1, TurnStays
    <3>3. InLog("create", mut.mission)'
      BY <2>1 DEF LoggedOK, InLog
    <3> QED
      BY <3>2, <3>3
  <2>2. \A i \in DOMAIN log : /\ log[i].by.id \in Seeded \/ InTurn(log[i].by)'
                             /\ InLog("create", log[i].by.mission)'
    BY <2>1
  <2> QED
    BY <2>2 DEF LoggedOK, InTurn, InLog
<1>2. ASSUME NEW d \in Devices, NEW i \in DOMAIN log, log[i].by \in InOrder(d)'
      PROVE  log[i].by \in InOrder(d)
  <2>1. PICK n \in DOMAIN issued'[d] : log[i].by = issued'[d][n]
    BY <1>2 DEF InOrder, ToSet
  <2>2. issued'[d] \in Seq(Mutation) /\ issued'[d][n].id = <<d, n>>
        /\ Len(issued'[d]) <= MaxIssued
    BY DEF IssuedOK, DeviceTypes
  <2>3. n \in 1 .. MaxIssued
    BY <2>2, MaxIssuedAssumption
  <2>4. n \in DOMAIN issued[d] /\ issued[d][n] = log[i].by
    BY <2>1, <2>2, <2>3, LoggedIsIssued
  <2>5. \A x \in dropped[d] : x.mut # log[i].by
    BY <1>2 DEF InOrder, Grows
  <2> QED
    BY <2>4, <2>5 DEF InOrder, ToSet
<1>3. AppliedInOrder'
  BY <1>2 DEF AppliedInOrder
<1> QED
  BY <1>1, <1>3

\* A mutation that has its turn and takes effect is in order.
LEMMA LogAppended ==
    ASSUME ServerProofs!ServerInv, NEW mut, ServerProofs!Applied(mut), InTurn(mut),
           DeviceTypes, DeviceTypes', Grows, \A e \in Devices : IssuedOK(e),
           issued' = issued, dropped' = dropped, LoggedOK, AppliedInOrder
    PROVE  LoggedOK' /\ AppliedInOrder'
<1> PICK n \in Nat \ {0} : n = Len(log) + 1
  BY TakesEffect
<1>1. /\ DOMAIN log = 1 .. n - 1 /\ DOMAIN log' = 1 .. n
      /\ \A i \in DOMAIN log : i \in DOMAIN log' /\ log'[i] = log[i] /\ log[i].by # mut
      /\ log'[n].by = mut
      /\ mut.op = "create" \/ \E i \in DOMAIN log : log[i].by.mission = mut.mission
  BY TakesEffect
<1>2. InLog("create", mut.mission)'
  <2>1. CASE mut.op = "create"
    BY <1>1, <2>1 DEF InLog
  <2>2. CASE \E i \in DOMAIN log : log[i].by.mission = mut.mission
    <3>1. InLog("create", mut.mission)
      BY <2>2 DEF LoggedOK
    <3> QED
      BY <3>1 DEF InLog, Grows
  <2> QED
    BY <1>1, <2>1, <2>2
<1>3. LoggedOK'
  <2>1. ASSUME NEW i \in DOMAIN log', NEW by, by = log'[i].by
        PROVE  (by.id \in Seeded \/ InTurn(by)') /\ InLog("create", by.mission)'
    <3>1. by.id \in Seeded \/ InTurn(by)
      BY <1>1, <2>1 DEF LoggedOK
    <3>2. by.id \in Seeded \/ InTurn(by)'
      BY <3>1, TurnStays
    <3>3. CASE by = mut
      BY <1>2, <3>2, <3>3
    <3>4. CASE i \in DOMAIN log
      <4>1. InLog("create", by.mission)
        BY <1>1, <2>1, <3>4 DEF LoggedOK
      <4>2. InLog("create", by.mission)'
        BY <4>1 DEF InLog, Grows
      <4> QED
        BY <3>2, <4>2
    <3> QED
      BY <1>1, <2>1, <3>3, <3>4
  <2> QED
    BY <2>1 DEF LoggedOK, InTurn, InLog
<1>4. AppliedInOrder'
  <2> SUFFICES ASSUME NEW d \in Devices, NEW i \in DOMAIN log', NEW j \in DOMAIN log', i < j,
                      log'[i].by \in InOrder(d), log'[j].by \in InOrder(d)
               PROVE  log'[i].by.id[2] < log'[j].by.id[2]
    BY DEF AppliedInOrder, InOrder
  <2>1. i \in DOMAIN log /\ log'[i] = log[i]
    BY <1>1
  <2>2. CASE j \in DOMAIN log
    BY <1>1, <2>1, <2>2 DEF AppliedInOrder
  <2>3. CASE j = n
    <3>1. mut \in InOrder(d)
      BY <1>1, <2>3
    <3>2. PICK l \in DOMAIN issued[d] : issued[d][l] = mut
      BY <3>1 DEF InOrder, ToSet
    <3>3. PICK k \in DOMAIN issued[d] : issued[d][k] = log[i].by
      BY <2>1 DEF InOrder, ToSet
    <3>4. l \in Nat /\ k \in Nat /\ mut.id = <<d, l>> /\ log[i].by.id = <<d, k>>
      BY <3>2, <3>3, NumbersOf
    <3>5. k # l
      BY <1>1, <2>1, <3>2, <3>3
    <3>6. ~Past(d, l)
      <4>1. ~Applied(mut)
        BY <1>1 DEF Applied
      <4>2. \A x \in dropped[d] : x.mut # mut
        BY <3>1 DEF InOrder
      <4> QED
        BY <3>2, <4>1, <4>2 DEF Past
    <3>7. k \in 1 .. MaxIssued
      <4>1. issued[d] \in Seq(Mutation) /\ Len(issued[d]) <= MaxIssued
        BY DEF DeviceTypes, IssuedOK
      <4> QED
        BY <4>1, MaxIssuedAssumption
    <3>8. ~(l < k)
      BY <2>1, <3>2, <3>4, <3>6, <3>7, LoggedIsIssued
    <3> QED
      BY <1>1, <2>1, <2>3, <3>4, <3>5, <3>8
  <2> QED
    BY <1>1, <2>2, <2>3
<1> QED
  BY <1>3, <1>4

(***************************************************************************)
(* The steps of the handlers.                                              *)
(***************************************************************************)
\* The answer of mut is right.
Right(mut, a) == IF a = "accepted" THEN Applied(mut) ELSE Refuted(mut, a)

\* A handler serves, rolls back or is done with a request nobody waits for.
HandlerMoves(h) ==
    /\ UNCHANGED <<deviceVars, call>>
    /\ request'[h] = request[h] \/ phase'[h] = "free"
    /\ \A g \in Handlers : g # h =>
          phase'[g] = phase[g] /\ request'[g] = request[g] /\ answer'[g] = answer[g]
    /\ log' = log \/ (phase[h] # "free" /\ ServerProofs!Applied(request[h]))
    /\ phase'[h] = "free" => ~Waited(h)
    /\ phase'[h] # "free" => phase[h] # "free"
    /\ \A mut, a : mut = request[h] /\ phase'[h] = "answered" /\ a = answer'[h] /\ a # "error"
          => Right(mut, a)'

\* What a handler that serves does.
LEMMA ServingMoves ==
    ASSUME SyncInv, NEW h \in Handlers, ServerProofs!Serve(h), UNCHANGED <<deviceVars, call>>,
           ServerProofs!ServerInv'
    PROVE  HandlerMoves(h)
<1>1. ServerProofs!ServerInv /\ HandlerOK(h) /\ \A d \in Devices : DeviceOK(d)
  BY DEF SyncInv
<1>2. /\ phase[h] \in {"received", "fresh"}
      /\ request' = request /\ phase'[h] # "free"
      /\ \A g \in Handlers : g # h => phase'[g] = phase[g] /\ answer'[g] = answer[g]
      /\ phase'[h] = "answered" =>
            /\ answer'[h] \in {"completed_elsewhere", "mission_updated"}
                  => request[h].op = "complete"
            /\ answer'[h] = "mission_deleted" => request[h].op # "create"
      /\ log' = log \/ ServerProofs!Applied(request[h])
  BY <1>1, Answering
<1>3. [ServerProofs!Next]_(ServerProofs!vars)
  BY DEF ServerProofs!Next
<1>4. phase'[h] = "answered" => ServerProofs!Truthful(request[h], answer'[h])
  BY <1>1, <1>2, <1>3, SameMutations, NoIdAssumption, ServerProofs!AnswersTrue
<1>5. \A op, m : InLog(op, m) => InLog(op, m)'
  BY <1>2, <1>1, TakesEffect DEF InLog
<1>6. ASSUME NEW mut, NEW a, mut = request[h], phase'[h] = "answered", a = answer'[h],
             a # "error"
      PROVE  Right(mut, a)'
  <2>1. InTurn(mut)
    BY <1>1, <1>2, <1>6 DEF HandlerOK
  <2>2. mut.op # "create" => InLog("create", mut.mission)
    BY <1>1, <2>1, TurnIsGrounded
  <2>3. /\ a = "accepted" => \E i \in DOMAIN log' : log'[i].by = mut
        /\ a = "completed_elsewhere" => InLog("complete", mut.mission)
        /\ a = "mission_deleted" => InLog("delete", mut.mission) \/ ~InLog("create", mut.mission)
    BY <1>4, <1>6 DEF ServerProofs!Truthful, ServerProofs!InLog, InLog
  <2>4. a \in {"accepted", "mission_deleted", "mission_updated", "completed_elsewhere"}
    BY <1>1, <1>6 DEF ServerProofs!ServerInv, ServerProofs!Types, ServerProofs!Answer
  <2>5. CASE a = "accepted"
    BY <2>3, <2>5 DEF Right, Applied
  <2>6. CASE a = "mission_deleted"
    <3>1. mut.op # "create" /\ InLog("delete", mut.mission)
      BY <1>2, <1>6, <2>2, <2>3, <2>6
    <3>2. InLog("delete", mut.mission)'
      BY <1>5, <3>1
    <3> QED
      BY <2>6, <3>1, <3>2 DEF Right, Refuted
  <2>7. CASE a = "completed_elsewhere"
    <3>1. mut.op = "complete" /\ InLog("complete", mut.mission)
      BY <1>2, <1>6, <2>3, <2>7
    <3>2. InLog("complete", mut.mission)'
      BY <1>5, <3>1
    <3> QED
      BY <2>7, <3>1, <3>2 DEF Right, Refuted
  <2>8. CASE a = "mission_updated"
    BY <1>2, <1>6, <2>8 DEF Right, Refuted
  <2> QED
    BY <2>4, <2>5, <2>6, <2>7, <2>8
<1> QED
  BY <1>2, <1>6 DEF HandlerMoves

\* Every step of a handler is such a move, and one of the server.
LEMMA HandlersMove ==
    ASSUME SyncInv, NEW h \in Handlers, HandlerStep(h) \/ HandlerAborts(h)
    PROVE  ServerProofs!ServerInv' /\ HandlerMoves(h)
<1>0. ServerProofs!ServerInv
  BY DEF SyncInv
<1>1. /\ phase \in [Handlers -> {"free", "received", "fresh", "answered"}]
      /\ answer \in [Handlers -> ServerProofs!Answer]
      /\ request \in [Handlers -> ServerProofs!Mutation \cup {ServerProofs!NoMutation}]
  BY <1>0 DEF ServerProofs!ServerInv, ServerProofs!Types
<1>2. UNCHANGED <<deviceVars, call>>
  BY DEF HandlerStep, HandlerAborts
<1>3. ASSUME ServerProofs!Next
      PROVE  ServerProofs!ServerInv'
  <2>1. ServerProofs!ServerInv /\ [ServerProofs!Next]_(ServerProofs!vars)
           => ServerProofs!ServerInv'
    BY SameMutations, NoIdAssumption, ServerProofs!ServerNext, Zenon
  <2> QED
    BY <1>0, <1>3, <2>1
<1>4. CASE ServerProofs!Serve(h)
  <2>1. ServerProofs!ServerInv'
    BY <1>3, <1>4 DEF ServerProofs!Next
  <2> QED
    BY <1>2, <1>4, <2>1, ServingMoves
<1>5. CASE Abandon(h) /\ ServerProofs!Release(h)
  <2>1. ServerProofs!ServerInv'
    BY <1>3, <1>5 DEF ServerProofs!Next
  <2>2. ~Waited(h)
    BY <1>5 DEF Abandon
  <2>3. /\ phase'[h] = "free" /\ log' = log
        /\ \A g \in Handlers : g # h =>
              phase'[g] = phase[g] /\ request'[g] = request[g] /\ answer'[g] = answer[g]
    BY <1>1, <1>5 DEF ServerProofs!Release, ServerProofs!dbVars
  <2> QED
    BY <1>2, <2>1, <2>2, <2>3 DEF HandlerMoves
<1>6. CASE ServerProofs!Abort(h)
  <2>1. ServerProofs!ServerInv'
    BY <1>3, <1>6 DEF ServerProofs!Next
  <2>2. /\ phase[h] # "free" /\ phase'[h] = "answered" /\ answer'[h] = "error"
        /\ log' = log /\ request' = request
        /\ \A g \in Handlers : g # h => phase'[g] = phase[g] /\ answer'[g] = answer[g]
    BY <1>1, <1>6 DEF ServerProofs!Abort, ServerProofs!Respond, ServerProofs!dbVars
  <2> QED
    BY <1>2, <2>1, <2>2 DEF HandlerMoves
<1> QED
  BY <1>4, <1>5, <1>6, SameService, SameExchange DEF HandlerStep, HandlerAborts

\* Such a move keeps the invariant.
LEMMA HandlerKeeps ==
    ASSUME SyncInv, NEW h \in Handlers, HandlerMoves(h), ServerProofs!ServerInv'
    PROVE  SyncInv'
<1>1. /\ ServerProofs!ServerInv /\ DeviceTypes /\ LoggedOK /\ AppliedInOrder
      /\ call \in [Devices -> Handlers \cup {NoHandler}]
      /\ \A d \in Devices : DeviceOK(d) /\ CallOK(d)
      /\ \A g \in Handlers : HandlerOK(g)
  BY DEF SyncInv
<1>2. /\ queue' = queue /\ view' = view /\ tomb' = tomb /\ cursor' = cursor /\ run' = run
      /\ draft' = draft /\ undo' = undo /\ issued' = issued /\ dropped' = dropped /\ call' = call
  BY DEF HandlerMoves, deviceVars, storeVars, uiVars
<1>3. DeviceTypes'
  BY <1>1, <1>2 DEF DeviceTypes
<1>4. log \in Seq(ServerProofs!Entry) /\ log' \in Seq(ServerProofs!Entry)
  BY <1>1 DEF ServerProofs!ServerInv, ServerProofs!Types
<1>5. log' = log \/ (phase[h] # "free" /\ ServerProofs!Applied(request[h]))
  BY DEF HandlerMoves
<1>6. Grows
  BY <1>1, <1>2, <1>5, TakesEffect DEF Grows
<1>7. \A d \in Devices : DeviceOK(d)'
  BY <1>1, <1>2, <1>3, <1>4, <1>6, UnmovedKept DEF Unmoved
<1>8. \A d \in Devices : IssuedOK(d) /\ IssuedOK(d)'
  BY <1>1, <1>7 DEF DeviceOK
<1>9. LoggedOK' /\ AppliedInOrder'
  <2>1. CASE log' = log
    BY <1>1, <1>3, <1>6, <1>8, <2>1, LogStays
  <2>2. CASE phase[h] # "free" /\ ServerProofs!Applied(request[h])
    <3>1. PICK mut : mut = request[h]
      OBVIOUS
    <3>2. InTurn(mut) /\ ServerProofs!Applied(mut)
      BY <1>1, <2>2, <3>1 DEF HandlerOK
    <3> QED
      BY <1>1, <1>2, <1>3, <1>6, <1>8, <3>2, LogAppended
  <2> QED
    BY <1>5, <2>1, <2>2
<1>10. ASSUME NEW d \in Devices
       PROVE  CallOK(d)'
  <2>1. ToSend(d)' = ToSend(d) /\ (At(d, "waiting")' <=> At(d, "waiting"))
    BY <1>2 DEF ToSend, At
  <2>2. CallOK(d) /\ call[d] \in Handlers \cup {NoHandler} /\ NoHandler \notin Handlers
    BY <1>1, NoHandlerAssumption
  <2>3. call[d] = h => phase'[h] # "free" /\ request'[h] = request[h]
    BY DEF HandlerMoves, Waited
  <2>4. \A g \in Handlers : g # h => phase'[g] = phase[g] /\ request'[g] = request[g]
    BY DEF HandlerMoves
  <2> QED
    BY <1>2, <2>1, <2>2, <2>3, <2>4 DEF CallOK
<1>11. ASSUME NEW g \in Handlers
       PROVE  HandlerOK(g)'
  <2>1. PICK mut, a : mut = request'[g] /\ a = answer'[g]
    OBVIOUS
  <2>2. phase'[g] # "free" => request[g] = mut /\ phase[g] # "free"
    BY <2>1 DEF HandlerMoves
  <2>3. phase'[g] # "free" => InTurn(mut)'
    BY <1>1, <1>3, <1>6, <2>2, TurnStays DEF HandlerOK
  <2>4. phase'[g] = "answered" /\ a # "error" => Right(mut, a)'
    <3>1. CASE g = h
      BY <2>1, <2>2, <3>1 DEF HandlerMoves
    <3>2. CASE g # h
      <4>1. phase'[g] = phase[g] /\ request[g] = mut /\ answer[g] = a
        BY <2>1, <3>2 DEF HandlerMoves
      <4>2. phase'[g] = "answered" /\ a # "error" => Right(mut, a)
        BY <1>1, <4>1 DEF HandlerOK, Right
      <4> QED
        BY <1>6, <4>2, LogMonotone DEF Right
    <3> QED
      BY <3>1, <3>2
  <2> QED
    BY <2>1, <2>3, <2>4 DEF HandlerOK, InTurn, Right, Applied, Refuted, InLog
<1> QED
  BY <1>1, <1>2, <1>3, <1>7, <1>9, <1>10, <1>11 DEF SyncInv

(***************************************************************************)
(* Steps that leave the log alone.                                         *)
(***************************************************************************)
\* When one device moves, the others and the log are as they were.
LEMMA DevicesKeep ==
    ASSUME SyncInv, ServerProofs!ServerInv', DeviceTypes', Grows, log' = log,
           NEW d \in Devices, DeviceOK(d)', \A e \in Devices : e # d => Unmoved(e)
    PROVE  (\A e \in Devices : DeviceOK(e)') /\ LoggedOK' /\ AppliedInOrder'
<1>1. /\ ServerProofs!ServerInv /\ DeviceTypes /\ LoggedOK /\ AppliedInOrder
      /\ \A e \in Devices : DeviceOK(e)
  BY DEF SyncInv
<1>2. log \in Seq(ServerProofs!Entry) /\ log' \in Seq(ServerProofs!Entry)
  BY <1>1 DEF ServerProofs!ServerInv, ServerProofs!Types
<1>3. \A e \in Devices : DeviceOK(e)'
  BY <1>1, <1>2, UnmovedKept
<1>4. \A e \in Devices : IssuedOK(e) /\ IssuedOK(e)'
  BY <1>1, <1>3 DEF DeviceOK
<1> QED
  BY <1>1, <1>3, <1>4, LogStays

\* Where a device moves by itself, whoever waits for a handler still does.
LEMMA DeviceAlone ==
    ASSUME SyncInv, UNCHANGED <<serverVars, call>>, DeviceTypes', Grows,
           NEW d \in Devices, DeviceOK(d)', \A e \in Devices : e # d => Unmoved(e),
           run'[d] = run[d] \/ (~At(d, "waiting") /\ ~At(d, "waiting")')
    PROVE  SyncInv'
<1>1. /\ ServerProofs!ServerInv /\ call \in [Devices -> Handlers \cup {NoHandler}]
      /\ \A e \in Devices : CallOK(e)
      /\ \A h \in Handlers : HandlerOK(h)
      /\ DeviceTypes
  BY DEF SyncInv
<1>2. /\ mission' = mission /\ recorded' = recorded /\ keys' = keys /\ log' = log
      /\ phase' = phase /\ request' = request /\ answer' = answer /\ call' = call
  BY DEF serverVars
<1>3. ServerProofs!ServerInv'
  <2>1. ServerProofs!ServerInv /\ [ServerProofs!Next]_(ServerProofs!vars)
           => ServerProofs!ServerInv'
    BY SameMutations, NoIdAssumption, ServerProofs!ServerNext, Zenon
  <2>2. [ServerProofs!Next]_(ServerProofs!vars)
    BY <1>2 DEF ServerProofs!vars, ServerProofs!dbVars
  <2> QED
    BY <1>1, <2>1, <2>2
<1>4. (\A e \in Devices : DeviceOK(e)') /\ LoggedOK' /\ AppliedInOrder'
  BY <1>2, <1>3, DevicesKeep
<1>5. ASSUME NEW e \in Devices
      PROVE  CallOK(e)'
  <2>1. CASE e = d /\ ~At(d, "waiting") /\ ~At(d, "waiting")'
    BY <1>1, <1>2, <2>1 DEF CallOK
  <2>2. CASE run'[e] = run[e]
    <3>1. ToSend(e)' = ToSend(e) /\ (At(e, "waiting")' <=> At(e, "waiting"))
      BY <2>2 DEF ToSend, At
    <3> QED
      BY <1>1, <1>2, <3>1 DEF CallOK
  <2> QED
    BY <2>1, <2>2 DEF Unmoved
<1>6. ASSUME NEW h \in Handlers
      PROVE  HandlerOK(h)'
  <2>1. PICK mut, a : mut = request[h] /\ a = answer[h]
    OBVIOUS
  <2>2. phase[h] # "free" => InTurn(mut)'
    BY <1>1, <2>1, TurnStays DEF HandlerOK
  <2>3. phase[h] = "answered" /\ a # "error" => Right(mut, a)'
    BY <1>1, <2>1, LogMonotone DEF HandlerOK, Right
  <2> QED
    BY <1>2, <2>1, <2>2, <2>3 DEF HandlerOK, InTurn, Right, Applied, Refuted, InLog
<1> QED
  BY <1>1, <1>2, <1>3, <1>4, <1>5, <1>6 DEF SyncInv

\* A step that changes at most the keys.
LEMMA StillKept ==
    ASSUME SyncInv, ServerProofs!ServerInv', UNCHANGED <<deviceVars, call>>,
           UNCHANGED <<mission, recorded, log, phase, request, answer>>
    PROVE  SyncInv'
<1>1. /\ queue' = queue /\ view' = view /\ tomb' = tomb /\ cursor' = cursor /\ run' = run
      /\ draft' = draft /\ undo' = undo /\ issued' = issued /\ dropped' = dropped /\ call' = call
      /\ log' = log /\ phase' = phase /\ request' = request /\ answer' = answer
  BY DEF deviceVars, storeVars, uiVars
<1>2. DeviceTypes'
  BY <1>1 DEF SyncInv, DeviceTypes
<1>3. Grows
  BY <1>1 DEF Grows
<1>4. log \in Seq(ServerProofs!Entry) /\ log' \in Seq(ServerProofs!Entry)
  BY DEF SyncInv, ServerProofs!ServerInv, ServerProofs!Types
<1>5. \A e \in Devices : DeviceOK(e)'
  BY <1>1, <1>2, <1>3, <1>4, UnmovedKept DEF Unmoved, SyncInv
<1>6. \A e \in Devices : IssuedOK(e) /\ IssuedOK(e)'
  BY <1>5 DEF DeviceOK, SyncInv
<1>7. LoggedOK' /\ AppliedInOrder'
  BY <1>1, <1>2, <1>3, <1>6, LogStays DEF SyncInv
<1>8. ASSUME NEW e \in Devices
      PROVE  CallOK(e)'
  BY <1>1 DEF SyncInv, CallOK, ToSend, At
<1>9. ASSUME NEW h \in Handlers
      PROVE  HandlerOK(h)'
  <2>1. PICK mut, a : mut = request[h] /\ a = answer[h]
    OBVIOUS
  <2>2. phase[h] # "free" => InTurn(mut)'
    BY <1>2, <1>3, <2>1, TurnStays DEF HandlerOK, SyncInv
  <2>3. phase[h] = "answered" /\ a # "error" => Right(mut, a)'
    BY <1>3, <2>1, LogMonotone DEF HandlerOK, Right, SyncInv
  <2> QED
    BY <1>1, <2>1, <2>2, <2>3 DEF HandlerOK, InTurn, Right, Applied, Refuted, InLog
<1> QED
  BY <1>1, <1>2, <1>5, <1>7, <1>8, <1>9 DEF SyncInv

(***************************************************************************)
(* A run and the flags of the queue.                                       *)
(***************************************************************************)
\* A step that moves a run and flags queued mutations changes no more.
LEMMA RunMoves ==
    ASSUME SyncInv, NEW d \in Devices, NEW r \in Running, run' = [run EXCEPT ![d] = r],
           UNCHANGED <<view, tomb, cursor, draft, undo, issued, dropped, log>>,
           queue' \in [Devices -> Seq(Queueing)], \A e \in Devices : e # d => queue'[e] = queue[e],
           DOMAIN queue'[d] = DOMAIN queue[d],
           \A i \in DOMAIN queue[d] : queue'[d][i].mut = queue[d][i].mut,
           r.at = "applying" =>
               r = run[d] \/ (cursor[d] <= r.upto /\ r.upto <= Len(log))
    PROVE  /\ DeviceTypes' /\ Grows /\ run'[d] = r
           /\ \A e \in Devices : e # d => Unmoved(e)
           /\ IssuedOK(d)' /\ DroppedOK(d)' /\ QueueOK(d)' /\ ScreenOK(d)' /\ CursorOK(d)'
<1>1. DeviceTypes /\ DeviceOK(d)
  BY DEF SyncInv
<1>2. run \in [Devices -> Running]
  BY <1>1 DEF DeviceTypes
<1>3. run' \in [Devices -> Running] /\ run'[d] = r /\ \A e \in Devices : e # d => run'[e] = run[e]
  BY <1>2
<1>4. DeviceTypes'
  BY <1>1, <1>3 DEF DeviceTypes
<1>5. Grows
  BY DEF Grows
<1>6. \A e \in Devices : e # d => Unmoved(e)
  BY <1>3 DEF Unmoved
<1>7. IssuedOK(d)' /\ DroppedOK(d)' /\ QueueOK(d)'
  BY <1>1, <1>5, IssuedKept, DroppedKept, QueueKept DEF DeviceOK
<1>8. \A m : Row(d, m)' = Row(d, m)
  BY DEF Row
<1>9. ScreenOK(d)'
  BY <1>1, <1>5, <1>8, ScreenKept DEF DeviceOK
<1>10. CursorOK(d)'
  <2>1. log \in Seq(ServerProofs!Entry) /\ log' \in Seq(ServerProofs!Entry)
    BY DEF SyncInv, ServerProofs!ServerInv, ServerProofs!Types
  <2>2. CASE r.at = "applying" => r = run[d]
    BY <1>1, <1>3, <1>5, <1>8, <2>1, <2>2, CursorKept DEF DeviceOK
  <2>3. CASE cursor[d] <= r.upto /\ r.upto <= Len(log)
    BY <1>1, <1>3, <1>8, <2>3 DEF DeviceOK, CursorOK, At
  <2> QED
    BY <2>2, <2>3
<1> QED
  BY <1>3, <1>4, <1>5, <1>6, <1>7, <1>9, <1>10

\* Flags change no mutation.
LEMMA FlagsKeep ==
    ASSUME DeviceTypes, NEW d \in Devices, NEW muts, NEW flag \in BOOLEAN, Flag(d, muts, flag)
    PROVE  /\ queue' \in [Devices -> Seq(Queueing)]
           /\ \A e \in Devices : e # d => queue'[e] = queue[e]
           /\ DOMAIN queue'[d] = DOMAIN queue[d]
           /\ \A i \in DOMAIN queue[d] : queue'[d][i].mut = queue[d][i].mut
<1> DEFINE entry(i) == IF queue[d][i].mut \in muts THEN [queue[d][i] EXCEPT !.inFlight = flag]
                       ELSE queue[d][i]
<1>1. queue \in [Devices -> Seq(Queueing)] /\ queue[d] \in Seq(Queueing)
  BY DEF DeviceTypes
<1>2. DOMAIN queue[d] = 1 .. Len(queue[d]) /\ Len(queue[d]) \in Nat
  BY <1>1
<1>3. \A i \in DOMAIN queue[d] : queue[d][i] \in Queueing
  BY <1>1
<1>4. \A i \in DOMAIN queue[d] : entry(i) \in Queueing /\ entry(i).mut = queue[d][i].mut
  <2> TAKE i \in DOMAIN queue[d]
  <2>1. PICK q \in Queueing : q = queue[d][i]
    BY <1>3
  <2>2. [q EXCEPT !.inFlight = flag] \in Queueing /\ [q EXCEPT !.inFlight = flag].mut = q.mut
    BY DEF Queueing
  <2> QED
    BY <2>1, <2>2
<1>5. queue' = [queue EXCEPT ![d] = [i \in DOMAIN queue[d] |-> entry(i)]]
  BY DEF Flag
<1> HIDE DEF entry
<1>6. [i \in DOMAIN queue[d] |-> entry(i)] \in Seq(Queueing)
  BY <1>2, <1>4, IsASeq
<1>7. PICK q \in Seq(Queueing) : q = [i \in DOMAIN queue[d] |-> entry(i)]
  BY <1>6
<1>8. queue' = [queue EXCEPT ![d] = q] /\ DOMAIN q = DOMAIN queue[d]
      /\ \A i \in DOMAIN queue[d] : q[i].mut = queue[d][i].mut
  BY <1>4, <1>5, <1>7
<1> QED
  BY <1>1, <1>8

\* What is known of the run of a device.
LEMMA RunShape ==
    ASSUME SyncInv, NEW d \in Devices
    PROVE  \E r \in Running :
              /\ r = run[d]
              /\ r.batch \in Seq(Mutation) /\ DOMAIN r.batch = 1 .. Len(r.batch)
              /\ Len(r.batch) \in Nat /\ r.settled \in Nat /\ r.settled <= Len(r.batch)
              /\ r.upto \in Nat /\ r.more \in BOOLEAN /\ r.at \in Phases
<1>1. PICK r \in Running : r = run[d]
  BY DEF SyncInv, DeviceTypes
<1>2. r.batch \in Seq(Mutation) /\ r.settled \in Nat /\ r.upto \in Nat /\ r.more \in BOOLEAN
      /\ r.at \in Phases
  BY DEF Running
<1>3. r.settled <= Len(r.batch)
  BY <1>1 DEF SyncInv, DeviceOK, RunOK
<1> QED
  BY <1>1, <1>2, <1>3

\* The run that is over is a run.
LEMMA NoRunIsRunning == NoRun \in Running
<1>1. <<>> \in Seq(Mutation)
  OBVIOUS
<1> QED
  BY <1>1 DEF NoRun, Running, Phases

(***************************************************************************)
(* The steps of a run that store nothing but flags.                         *)
(***************************************************************************)
\* What is left alone by a run that only moves on.
LEMMA OnlyRun ==
    ASSUME SyncInv, UNCHANGED <<queue, view, tomb, cursor, draft, undo, issued, dropped, log>>
    PROVE  /\ queue' \in [Devices -> Seq(Queueing)]
           /\ \A e \in Devices : queue'[e] = queue[e]
BY DEF SyncInv, DeviceTypes

\* listPending: a batch is the head of the queue, in order.
LEMMA ListKeeps ==
    ASSUME SyncInv, NEW d \in Devices, List(d), UNCHANGED <<serverVars, call>>
    PROVE  SyncInv'
<1> DEFINE n == Min({BatchSize, Len(queue[d])})
           batch == [i \in 1 .. n |-> queue[d][i].mut]
           r == [NoRun EXCEPT !.at = IF batch = <<>> THEN "pulling" ELSE "marking",
                              !.batch = batch]
<1>1. DeviceTypes /\ QueueOK(d) /\ IssuedOK(d)
  BY DEF SyncInv, DeviceOK
<1>2. queue[d] \in Seq(Queueing)
  BY <1>1 DEF DeviceTypes
<1>3. /\ Len(queue[d]) \in Nat /\ DOMAIN queue[d] = 1 .. Len(queue[d])
      /\ \A i \in DOMAIN queue[d] : queue[d][i].mut \in Mutation
  <2>1. /\ Len(queue[d]) \in Nat /\ DOMAIN queue[d] = 1 .. Len(queue[d])
        /\ \A i \in DOMAIN queue[d] : queue[d][i] \in Queueing
    BY <1>2
  <2>2. \A q \in Queueing : q.mut \in Mutation
    BY DEF Queueing
  <2> QED
    BY <2>1, <2>2
<1>4. n \in Nat /\ n <= Len(queue[d])
  <2>1. n \in {BatchSize, Len(queue[d])} /\ n <= Len(queue[d])
    <3>1. \E x \in {BatchSize, Len(queue[d])} : \A y \in {BatchSize, Len(queue[d])} : x <= y
      BY <1>3, BatchSizeAssumption
    <3> QED
      BY <3>1 DEF Min
  <2> QED
    BY <1>3, <2>1, BatchSizeAssumption
<1>5. /\ run' = [run EXCEPT ![d] = r] /\ (At(d, "idle") \/ At(d, "listing"))
      /\ UNCHANGED <<queue, view, tomb, cursor, draft, undo, issued, dropped>>
  BY Zenon DEF List, storeVars, uiVars
<1>6. log' = log
  BY DEF serverVars
<1> HIDE DEF n
<1>7. \A i \in 1 .. n : i \in DOMAIN queue[d]
  BY <1>3, <1>4
<1>8. batch \in Seq(Mutation)
  BY <1>3, <1>4, <1>7, IsASeq
<1>9. PICK b \in Seq(Mutation) : b = batch
  BY <1>8
<1>10. Len(b) = n /\ DOMAIN b = 1 .. n /\ \A i \in 1 .. n : b[i] = queue[d][i].mut
  BY <1>4, <1>9
<1>11. PICK s : s = r
  OBVIOUS
<1>12. /\ s = [at |-> s.at, batch |-> b, settled |-> 0, conflict |-> "none", upto |-> 0,
               more |-> FALSE]
       /\ s.at \in {"pulling", "marking"} /\ (s.at = "marking" => b # <<>>)
  BY <1>9, <1>11 DEF NoRun
<1> HIDE DEF r, batch
<1>13. s \in Running
  <2>1. PICK at \in Phases : at = s.at
    BY <1>12 DEF Phases
  <2>2. s = [at |-> at, batch |-> b, settled |-> 0, conflict |-> "none", upto |-> 0,
             more |-> FALSE]
    BY <1>12, <2>1
  <2> QED
    BY <2>2 DEF Running
<1>14. s.at # "applying" /\ run' = [run EXCEPT ![d] = s]
  BY <1>5, <1>11, <1>12
<1>15. /\ DeviceTypes' /\ Grows /\ run'[d] = s
       /\ \A e \in Devices : e # d => Unmoved(e)
       /\ IssuedOK(d)' /\ DroppedOK(d)' /\ QueueOK(d)' /\ ScreenOK(d)' /\ CursorOK(d)'
  <2>1. /\ queue' \in [Devices -> Seq(Queueing)] /\ \A e \in Devices : e # d => queue'[e] = queue[e]
        /\ queue'[d] = queue[d]
    BY <1>5, <1>6, OnlyRun
  <2> QED
    BY <1>5, <1>6, <1>13, <1>14, <2>1, RunMoves
<1>16. /\ s.batch = b /\ s.settled = 0 /\ s.conflict = "none"
       /\ s.at \in {"pulling", "marking"} /\ (s.at = "marking" => Len(b) > 0)
  BY <1>12
<1>17. \A i \in DOMAIN b : \A mut : mut = b[i] => Made(d, mut)
  BY <1>1, <1>7, <1>10 DEF QueueOK
<1>18. ASSUME NEW i \in DOMAIN b, NEW k \in DOMAIN issued[d], k < b[i].id[2]
       PROVE  Past(d, k) \/ \E j \in DOMAIN b : j < i /\ b[j] = issued[d][k]
  <2>1. CASE Past(d, k)
    BY <2>1
  <2>2. CASE \E j \in DOMAIN queue[d] : queue[d][j].mut = issued[d][k]
    <3>1. PICK j \in DOMAIN queue[d] : queue[d][j].mut = issued[d][k]
      BY <2>2
    <3>2. i \in DOMAIN queue[d] /\ queue[d][i].mut = b[i] /\ i \in 1 .. n
      BY <1>7, <1>10
    <3>3. issued[d][k].id = <<d, k>> /\ k \in Nat
      BY <1>1, NumbersOf
    <3>4. PICK l \in DOMAIN issued[d] : issued[d][l] = b[i]
      BY <1>10, <1>17 DEF Made
    <3>5. b[i].id = <<d, l>> /\ l \in Nat
      BY <1>1, <3>4, NumbersOf
    <3>6. k < l
      BY <1>18, <3>5
    <3>7. j # i /\ ~(i < j)
      BY <1>1, <3>1, <3>2, <3>3, <3>5, <3>6 DEF QueueOK
    <3>8. j < i /\ j \in 1 .. n
      BY <1>3, <1>4, <3>1, <3>2, <3>7
    <3> QED
      BY <1>10, <3>1, <3>8
  <2> QED
    BY <1>1, <2>1, <2>2 DEF QueueOK
<1>19. RunOK(d)'
  <2>1. \A i \in DOMAIN b : \A mut : mut = b[i] => Made(d, mut)'
    BY <1>15, <1>17, Monotone
  <2>2. BatchInOrder(d)'
    BY <1>5, <1>15, <1>16, <1>18, Monotone DEF BatchInOrder
  <2>3. \A i \in 1 .. 0 : FALSE
    OBVIOUS
  <2>4. Len(b) \in Nat
    BY <1>4, <1>10
  <2> QED
    BY <1>15, <1>16, <2>1, <2>2, <2>3, <2>4 DEF RunOK, Made
<1>20. ~At(d, "waiting") /\ ~At(d, "waiting")'
  BY <1>5, <1>15, <1>16 DEF At
<1> QED
  BY <1>15, <1>19, <1>20, DeviceAlone DEF DeviceOK

\* setQueuedMutationsInFlight before a batch is pushed, and for what is not
\* settled of it.
LEMMA FlagStepsKeep ==
    ASSUME SyncInv, NEW d \in Devices, Mark(d) \/ Fail(d) \/ Unmark(d),
           UNCHANGED <<serverVars, call>>
    PROVE  SyncInv'
<1>1. PICK r \in Running :
          /\ r = run[d]
          /\ r.batch \in Seq(Mutation) /\ DOMAIN r.batch = 1 .. Len(r.batch)
          /\ Len(r.batch) \in Nat /\ r.settled \in Nat /\ r.settled <= Len(r.batch)
          /\ r.upto \in Nat /\ r.more \in BOOLEAN /\ r.at \in Phases
  BY RunShape
<1>2. DeviceTypes /\ IssuedOK(d) /\ RunOK(d)
  BY DEF SyncInv, DeviceOK
<1>3. run \in [Devices -> Running]
  BY <1>2 DEF DeviceTypes
<1>4. PICK s \in Running :
          /\ run' = [run EXCEPT ![d] = s]
          /\ s.at # "applying" /\ s.at # "waiting" /\ r.at # "waiting"
          /\ \/ s = NoRun
             \/ /\ s.batch = r.batch /\ s.settled = r.settled /\ s.conflict = r.conflict
                /\ (r.at = "marking" /\ s.at = "pushing") \/ s.at = "pulling"
  <2>1. CASE Mark(d)
    <3>1. [r EXCEPT !.at = "pushing"] \in Running
      BY DEF Running, Phases
    <3>2. run' = [run EXCEPT ![d] = [r EXCEPT !.at = "pushing"]] /\ r.at = "marking"
      BY <1>1, <2>1 DEF Mark, Goto, At
    <3> QED
      BY <3>1, <3>2 DEF Running
  <2>2. CASE Fail(d)
    BY <1>1, <2>2, NoRunIsRunning DEF Fail, At, NoRun
  <2>3. CASE Unmark(d)
    <3>1. [r EXCEPT !.at = "pulling"] \in Running
      BY DEF Running, Phases
    <3>2. run' = [run EXCEPT ![d] = [r EXCEPT !.at = "pulling"]] /\ r.at = "unmarking"
      BY <1>1, <2>3 DEF Unmark, Goto, At
    <3> QED
      BY <3>1, <3>2 DEF Running
  <2> QED
    BY <2>1, <2>2, <2>3
<1>5. /\ UNCHANGED <<view, tomb, cursor, draft, undo, issued, dropped, log>>
      /\ \E muts, flag : flag \in BOOLEAN /\ Flag(d, muts, flag)
  BY DEF Mark, Fail, Unmark, uiVars, serverVars
<1>6. PICK muts, flag : flag \in BOOLEAN /\ Flag(d, muts, flag)
  BY <1>5
<1>7. /\ queue' \in [Devices -> Seq(Queueing)]
      /\ \A e \in Devices : e # d => queue'[e] = queue[e]
      /\ DOMAIN queue'[d] = DOMAIN queue[d]
      /\ \A i \in DOMAIN queue[d] : queue'[d][i].mut = queue[d][i].mut
  BY <1>2, <1>6, FlagsKeep
<1>8. /\ DeviceTypes' /\ Grows /\ run'[d] = s
      /\ \A e \in Devices : e # d => Unmoved(e)
      /\ IssuedOK(d)' /\ DroppedOK(d)' /\ QueueOK(d)' /\ ScreenOK(d)' /\ CursorOK(d)'
  BY <1>4, <1>5, <1>7, RunMoves
<1>9. RunOK(d)'
  <2>1. CASE s = NoRun
    BY <1>8, <2>1, RunEnds
  <2>2. CASE /\ s.batch = r.batch /\ s.settled = r.settled /\ s.conflict = r.conflict
             /\ (r.at = "marking" /\ s.at = "pushing") \/ s.at = "pulling"
    <3>1. r.at = "marking" => r.settled < Len(r.batch) /\ r.conflict = "none"
      BY <1>1, <1>2 DEF RunOK
    <3> QED
      BY <1>1, <1>2, <1>8, <2>2, <3>1, RunGoes
  <2> QED
    BY <1>4, <2>1, <2>2
<1>10. ~At(d, "waiting") /\ ~At(d, "waiting")'
  BY <1>1, <1>4, <1>8 DEF At
<1> QED
  BY <1>8, <1>9, <1>10, DeviceAlone DEF DeviceOK

\* A page is read, or cannot be.
LEMMA PullStepsKeep ==
    ASSUME SyncInv, NEW d \in Devices, PullPage(d) \/ (FailPull(d) /\ UNCHANGED <<serverVars, call>>)
    PROVE  SyncInv'
<1> DEFINE upto == Min({Len(log), cursor[d] + BatchSize})
<1>1. PICK r \in Running :
          /\ r = run[d]
          /\ r.batch \in Seq(Mutation) /\ DOMAIN r.batch = 1 .. Len(r.batch)
          /\ Len(r.batch) \in Nat /\ r.settled \in Nat /\ r.settled <= Len(r.batch)
          /\ r.upto \in Nat /\ r.more \in BOOLEAN /\ r.at \in Phases
  BY RunShape
<1>2. /\ DeviceTypes /\ IssuedOK(d) /\ RunOK(d) /\ CursorOK(d)
      /\ log \in Seq(ServerProofs!Entry)
  BY DEF SyncInv, DeviceOK, ServerProofs!ServerInv, ServerProofs!Types
<1>3. cursor[d] \in Nat /\ Len(log) \in Nat /\ cursor[d] <= Len(log)
  BY <1>2 DEF DeviceTypes, CursorOK
<1>4. upto \in Nat /\ cursor[d] <= upto /\ upto <= Len(log)
  <2>1. \E x \in {Len(log), cursor[d] + BatchSize} :
            \A y \in {Len(log), cursor[d] + BatchSize} : x <= y
    BY <1>3, BatchSizeAssumption
  <2>2. upto \in {Len(log), cursor[d] + BatchSize} /\ upto <= Len(log)
    BY <2>1 DEF Min
  <2> QED
    BY <1>3, <2>2, BatchSizeAssumption
<1>5. UNCHANGED <<serverVars, call>>
  BY DEF PullPage
<1>6. UNCHANGED <<queue, view, tomb, cursor, draft, undo, issued, dropped, log>>
  BY <1>5 DEF PullPage, Pull, FailPull, storeVars, uiVars, serverVars
<1> HIDE DEF upto
<1>7. PICK s \in Running :
          /\ run' = [run EXCEPT ![d] = s] /\ r.at = "pulling"
          /\ \/ s = NoRun
             \/ /\ s.batch = r.batch /\ s.settled = r.settled /\ s.conflict = r.conflict
                /\ s.at = "applying" /\ s.upto = upto
  <2>1. CASE PullPage(d)
    <3>1. PICK more : more = (upto < Len(log))
      OBVIOUS
    <3>2. more \in BOOLEAN
      BY <3>1
    <3>3. Pull(d, upto, more)
      BY <2>1, <3>1 DEF PullPage, upto
    <3>4. PICK s : s = [r EXCEPT !.at = "applying", !.upto = upto, !.more = more]
      OBVIOUS
    <3>5. /\ s \in Running
          /\ s.batch = r.batch /\ s.settled = r.settled /\ s.conflict = r.conflict
          /\ s.at = "applying" /\ s.upto = upto
      BY <1>4, <3>2, <3>4 DEF Running, Phases
    <3>6. run' = [run EXCEPT ![d] = s] /\ r.at = "pulling"
      BY <1>1, <3>3, <3>4 DEF Pull, At
    <3> QED
      BY <3>5, <3>6
  <2>2. CASE FailPull(d)
    BY <1>1, <2>2, NoRunIsRunning DEF FailPull, At
  <2> QED
    BY <2>1, <2>2
<1>8. s.at = "applying" => cursor[d] <= s.upto /\ s.upto <= Len(log)
  BY <1>4, <1>7 DEF NoRun
<1>9. /\ DeviceTypes' /\ Grows /\ run'[d] = s
      /\ \A e \in Devices : e # d => Unmoved(e)
      /\ IssuedOK(d)' /\ DroppedOK(d)' /\ QueueOK(d)' /\ ScreenOK(d)' /\ CursorOK(d)'
  <2>1. /\ queue' \in [Devices -> Seq(Queueing)] /\ \A e \in Devices : e # d => queue'[e] = queue[e]
        /\ queue'[d] = queue[d]
    BY <1>6, OnlyRun
  <2> QED
    BY <1>6, <1>7, <1>8, <2>1, RunMoves
<1>10. RunOK(d)'
  <2>1. CASE s = NoRun
    BY <1>9, <2>1, RunEnds
  <2>2. CASE /\ s.batch = r.batch /\ s.settled = r.settled /\ s.conflict = r.conflict
             /\ s.at = "applying"
    BY <1>1, <1>2, <1>9, <2>2, RunGoes
  <2> QED
    BY <1>7, <2>1, <2>2
<1>11. ~At(d, "waiting") /\ ~At(d, "waiting")'
  BY <1>1, <1>7, <1>9 DEF At, NoRun
<1> QED
  BY <1>5, <1>9, <1>10, <1>11, DeviceAlone DEF DeviceOK

(***************************************************************************)
(* Steps that take mutations out of the queue.                             *)
(***************************************************************************)
Dropping == [mut : Mutation, why : Refusals \cup {"undone"}]

\* A queue that loses mutations that are in the log, or dropped with reason.
LEMMA QueueShrinks ==
    ASSUME SyncInv, NEW d \in Devices, UNCHANGED <<issued, log>>,
           NEW q \in Seq(Queueing), queue' = [queue EXCEPT ![d] = q],
           NEW w \in SUBSET Dropping, dropped' = [dropped EXCEPT ![d] = @ \cup w],
           \A i \in DOMAIN q : \E k \in DOMAIN queue[d] : q[i] = queue[d][k],
           \A i, j \in DOMAIN q : i < j =>
               \E k, l \in DOMAIN queue[d] : k < l /\ q[i] = queue[d][k] /\ q[j] = queue[d][l],
           \A k \in DOMAIN queue[d] :
               \/ \E i \in DOMAIN q : q[i] = queue[d][k]
               \/ Applied(queue[d][k].mut)
               \/ \E x \in w : x.mut = queue[d][k].mut,
           \A x \in w : /\ Made(d, x.mut) /\ x.mut.op # "create"
                        /\ x.why = "undone" \/ Refuted(x.mut, x.why)
    PROVE  /\ queue' \in [Devices -> Seq(Queueing)] /\ dropped' \in [Devices -> SUBSET Dropping]
           /\ \A e \in Devices : e # d => queue'[e] = queue[e] /\ dropped'[e] = dropped[e]
           /\ Grows /\ IssuedOK(d)' /\ DroppedOK(d)' /\ QueueOK(d)'
<1>1. DeviceTypes /\ IssuedOK(d) /\ DroppedOK(d) /\ QueueOK(d)
  BY DEF SyncInv, DeviceOK
<1>2. queue \in [Devices -> Seq(Queueing)] /\ dropped \in [Devices -> SUBSET Dropping]
  BY <1>1 DEF DeviceTypes, Dropping
<1>3. /\ queue' \in [Devices -> Seq(Queueing)] /\ queue'[d] = q
      /\ \A e \in Devices : e # d => queue'[e] = queue[e]
  BY <1>2
<1>4. /\ dropped' \in [Devices -> SUBSET Dropping] /\ dropped'[d] = dropped[d] \cup w
      /\ \A e \in Devices : e # d => dropped'[e] = dropped[e]
  BY <1>2
<1>5. Grows
  BY <1>4 DEF Grows
<1>6. IssuedOK(d)'
  BY <1>1, <1>5, IssuedKept
<1>7. DroppedOK(d)'
  <2>1. ASSUME NEW x \in dropped'[d]
        PROVE  /\ Made(d, x.mut)' /\ x.mut.op # "create"
               /\ x.why = "undone" \/ Refuted(x.mut, x.why)'
    <3>1. /\ Made(d, x.mut) /\ x.mut.op # "create"
          /\ x.why = "undone" \/ Refuted(x.mut, x.why)
      BY <1>1, <1>4, <2>1 DEF DroppedOK
    <3> QED
      BY <1>5, <3>1, Monotone
  <2> QED
    BY <2>1 DEF DroppedOK
<1>8. \A i \in DOMAIN q : \A mut : mut = q[i].mut => Made(d, mut)'
  <2> TAKE i \in DOMAIN q
  <2>1. PICK k \in DOMAIN queue[d] : q[i] = queue[d][k]
    OBVIOUS
  <2>2. Made(d, queue[d][k].mut)
    BY <1>1 DEF QueueOK
  <2> QED
    BY <1>5, <2>1, <2>2, Monotone
<1>9. \A i, j \in DOMAIN q : i < j => q[i].mut.id[2] < q[j].mut.id[2]
  BY <1>1 DEF QueueOK
<1>10. ASSUME NEW n \in DOMAIN issued[d]
       PROVE  Past(d, n)' \/ \E i \in DOMAIN q : q[i].mut = issued[d][n]
  <2>1. CASE Past(d, n)
    BY <1>5, <2>1, Monotone
  <2>2. CASE \E k \in DOMAIN queue[d] : queue[d][k].mut = issued[d][n]
    <3>1. PICK k \in DOMAIN queue[d] : queue[d][k].mut = issued[d][n]
      BY <2>2
    <3>2. CASE \E i \in DOMAIN q : q[i] = queue[d][k]
      BY <3>1, <3>2
    <3>3. CASE Applied(queue[d][k].mut)
      <4>1. Past(d, n)
        BY <3>1, <3>3 DEF Past
      <4> QED
        BY <1>5, <4>1, Monotone
    <3>4. CASE \E x \in w : x.mut = queue[d][k].mut
      <4>1. \E x \in dropped'[d] : x.mut = issued'[d][n]
        BY <1>4, <3>1, <3>4
      <4> QED
        BY <4>1 DEF Past
    <3> QED
      BY <3>2, <3>3, <3>4
  <2> QED
    BY <1>1, <2>1, <2>2 DEF QueueOK
<1>11. QueueOK(d)'
  BY <1>3, <1>8, <1>9, <1>10 DEF QueueOK, Made
<1> QED
  BY <1>3, <1>4, <1>5, <1>6, <1>7, <1>11

\* deleteQueuedMutations of what is settled: accepted, or refused for a reason.
LEMMA SettleStepsKeep ==
    ASSUME SyncInv, NEW d \in Devices, Settle(d) \/ SettleRefused(d),
           UNCHANGED <<serverVars, call>>
    PROVE  SyncInv'
<1>1. PICK r \in Running :
          /\ r = run[d]
          /\ r.batch \in Seq(Mutation) /\ DOMAIN r.batch = 1 .. Len(r.batch)
          /\ Len(r.batch) \in Nat /\ r.settled \in Nat /\ r.settled <= Len(r.batch)
          /\ r.upto \in Nat /\ r.more \in BOOLEAN /\ r.at \in Phases
  BY RunShape
<1>2. DeviceTypes /\ IssuedOK(d) /\ RunOK(d) /\ ScreenOK(d) /\ CursorOK(d) /\ DeviceOK(d)
  BY DEF SyncInv, DeviceOK
<1>3. log' = log /\ UNCHANGED <<view, tomb, cursor, draft, undo, issued>>
  BY DEF serverVars, uiVars, Settle, SettleRefused
<1>4. \A i \in 1 .. r.settled :
          /\ i \in DOMAIN r.batch /\ Made(d, r.batch[i])
          /\ Applied(r.batch[i]) \/ (i = r.settled /\ r.conflict # "none")
  <2>1. \A i \in 1 .. r.settled : i \in DOMAIN r.batch
    BY <1>1
  <2> QED
    BY <1>1, <1>2, <2>1 DEF RunOK
<1>5. PICK w \in SUBSET Dropping :
          /\ DropSettled(d, w)
          /\ \A mut \in Settled(d) : Applied(mut) \/ \E x \in w : x.mut = mut
          /\ \A x \in w : /\ Made(d, x.mut) /\ x.mut.op # "create"
                          /\ x.why = "undone" \/ Refuted(x.mut, x.why)
  <2>1. CASE Settle(d)
    <3>1. DropSettled(d, {}) /\ r.conflict = "none"
      BY <1>1, <1>2, <2>1 DEF Settle, At, RunOK
    <3>2. \A mut \in Settled(d) : Applied(mut)
      BY <1>1, <1>4, <3>1 DEF Settled
    <3> QED
      BY <3>1, <3>2
  <2>2. CASE SettleRefused(d)
    <3>1. /\ DropSettled(d, {[mut |-> r.batch[r.settled], why |-> r.conflict]})
          /\ r.conflict # "none" /\ r.settled > 0 /\ Refuted(r.batch[r.settled], r.conflict)
      BY <1>1, <1>2, <2>2 DEF SettleRefused, At, RunOK, Refused
    <3>2. PICK mut, why : mut = r.batch[r.settled] /\ why = r.conflict
      OBVIOUS
    <3>3. r.settled \in 1 .. r.settled
      BY <1>1, <3>1
    <3>4. Made(d, mut) /\ mut \in Mutation /\ Refuted(mut, why)
      BY <1>1, <1>4, <3>1, <3>2, <3>3
    <3>5. why \in Refusals
      BY <1>1, <3>1, <3>2 DEF Running
    <3>6. mut.op # "create"
      BY <3>4 DEF Refuted
    <3>7. \A m \in Settled(d) : Applied(m) \/ m = mut
      BY <1>1, <1>4, <3>2 DEF Settled
    <3> DEFINE x == [mut |-> mut, why |-> why]
    <3>8. x \in Dropping /\ x.mut = mut /\ x.why = why
      BY <3>4, <3>5 DEF Dropping
    <3>9. DropSettled(d, {x})
      BY <3>1, <3>2
    <3> HIDE DEF x
    <3> QED
      BY <3>4, <3>6, <3>7, <3>8, <3>9
  <2> QED
    BY <2>1, <2>2
<1>6. queue[d] \in Seq(Queueing)
  BY <1>2 DEF DeviceTypes
<1>7. PICK muts : muts = Settled(d)
  OBVIOUS
<1>8. PICK s \in Seq(Queueing) : s = queue[d]
  BY <1>6
<1>9. LET q == Without(s, muts)
      IN  /\ q \in Seq(Queueing)
          /\ \A i \in DOMAIN q : \E k \in DOMAIN s : q[i] = s[k] /\ s[k].mut \notin muts
          /\ \A i, j \in DOMAIN q : i < j => \E k, l \in DOMAIN s : k < l /\ q[i] = s[k] /\ q[j] = s[l]
          /\ \A k \in DOMAIN s : s[k].mut \notin muts => \E i \in DOMAIN q : q[i] = s[k]
  BY WithoutKeeps
<1>10. PICK q \in Seq(Queueing) :
          /\ q = Without(s, muts)
          /\ \A i \in DOMAIN q : \E k \in DOMAIN s : q[i] = s[k] /\ s[k].mut \notin muts
          /\ \A i, j \in DOMAIN q : i < j => \E k, l \in DOMAIN s : k < l /\ q[i] = s[k] /\ q[j] = s[l]
          /\ \A k \in DOMAIN s : s[k].mut \notin muts => \E i \in DOMAIN q : q[i] = s[k]
  BY <1>9, Zenon
<1>11. /\ queue' = [queue EXCEPT ![d] = q] /\ dropped' = [dropped EXCEPT ![d] = @ \cup w]
  BY <1>5, <1>7, <1>8, <1>10 DEF DropSettled
<1>12. \A k \in DOMAIN queue[d] :
           \/ \E i \in DOMAIN q : q[i] = queue[d][k]
           \/ Applied(queue[d][k].mut)
           \/ \E x \in w : x.mut = queue[d][k].mut
  BY <1>5, <1>7, <1>8, <1>10
<1>13. /\ \A i \in DOMAIN q : \E k \in DOMAIN queue[d] : q[i] = queue[d][k]
       /\ \A i, j \in DOMAIN q : i < j =>
             \E k, l \in DOMAIN queue[d] : k < l /\ q[i] = queue[d][k] /\ q[j] = queue[d][l]
  BY <1>8, <1>10
<1>14. /\ queue' \in [Devices -> Seq(Queueing)] /\ dropped' \in [Devices -> SUBSET Dropping]
       /\ \A e \in Devices : e # d => queue'[e] = queue[e] /\ dropped'[e] = dropped[e]
       /\ Grows /\ IssuedOK(d)' /\ DroppedOK(d)' /\ QueueOK(d)'
  BY <1>3, <1>5, <1>11, <1>12, <1>13, QueueShrinks
<1>15. PICK s1 \in Running :
          /\ run' = [run EXCEPT ![d] = s1]
          /\ s1.at # "applying" /\ s1.at # "waiting" /\ r.at # "waiting"
          /\ \/ s1 = NoRun
             \/ /\ s1.batch = r.batch /\ s1.settled = r.settled /\ s1.conflict = r.conflict
                /\ s1.at = "listing"
  <2>1. CASE Settle(d)
    <3>1. [r EXCEPT !.at = "listing"] \in Running
      BY DEF Running, Phases
    <3>2. run' = [run EXCEPT ![d] = [r EXCEPT !.at = "listing"]] /\ r.at = "settling"
      BY <1>1, <2>1 DEF Settle, Goto, At
    <3> QED
      BY <3>1, <3>2 DEF Running
  <2>2. CASE SettleRefused(d)
    BY <1>1, <2>2, NoRunIsRunning DEF SettleRefused, At, NoRun
  <2> QED
    BY <2>1, <2>2
<1>16. /\ run' \in [Devices -> Running] /\ run'[d] = s1
       /\ \A e \in Devices : e # d => run'[e] = run[e]
  <2>1. run \in [Devices -> Running]
    BY <1>2 DEF DeviceTypes
  <2> QED
    BY <1>15, <2>1
<1>17. DeviceTypes'
  BY <1>2, <1>3, <1>14, <1>16 DEF DeviceTypes, Dropping
<1>18. \A e \in Devices : e # d => Unmoved(e)
  BY <1>3, <1>14, <1>16 DEF Unmoved
<1>19. \A m : Row(d, m)' = Row(d, m)
  BY <1>3 DEF Row
<1>20. ScreenOK(d)'
  BY <1>2, <1>3, <1>14, <1>19, ScreenKept
<1>21. CursorOK(d)'
  <2>1. log \in Seq(ServerProofs!Entry) /\ log' \in Seq(ServerProofs!Entry)
    BY <1>3 DEF SyncInv, ServerProofs!ServerInv, ServerProofs!Types
  <2> QED
    BY <1>2, <1>3, <1>14, <1>15, <1>16, <1>19, <2>1, CursorKept
<1>22. RunOK(d)'
  <2>1. CASE s1 = NoRun
    BY <1>16, <2>1, RunEnds
  <2>2. CASE /\ s1.batch = r.batch /\ s1.settled = r.settled /\ s1.conflict = r.conflict
             /\ s1.at = "listing"
    BY <1>1, <1>2, <1>14, <1>16, <1>17, <2>2, RunGoes
  <2> QED
    BY <1>15, <2>1, <2>2
<1>23. ~At(d, "waiting") /\ ~At(d, "waiting")'
  BY <1>1, <1>15, <1>16 DEF At
<1> QED
  BY <1>14, <1>17, <1>18, <1>20, <1>21, <1>22, <1>23, DeviceAlone DEF DeviceOK

(***************************************************************************)
(* Steps that change what is shown.                                        *)
(***************************************************************************)
\* A row that was never there is a row; the log has rows.
LEMMA RowsOfLog ==
    ASSUME SyncInv
    PROVE  /\ NoRow \in MissionRow /\ log \in Seq(ServerProofs!Entry)
           /\ Len(log) \in Nat /\ DOMAIN log = 1 .. Len(log)
           /\ \A i \in DOMAIN log : log[i].row \in MissionRow
<1>1. log \in Seq(ServerProofs!Entry)
  BY DEF SyncInv, ServerProofs!ServerInv, ServerProofs!Types
<1>2. \A e \in ServerProofs!Entry : e.row \in MissionRow
  BY DEF ServerProofs!Entry, ServerProofs!MissionRow, MissionRow
<1>3. \A i \in DOMAIN log : log[i] \in ServerProofs!Entry
  BY <1>1
<1>4. NoRow \in MissionRow
  BY DEF NoRow, MissionRow
<1>5. Len(log) \in Nat /\ DOMAIN log = 1 .. Len(log)
  BY <1>1
<1> QED
  BY <1>1, <1>2, <1>3, <1>4, <1>5

\* What is shown after a page: what the page says last of a mission, nothing
\* where it says the mission is deleted, what was shown where it says nothing
\* or there is a tombstone.
LEMMA ProjectionOf ==
    ASSUME SyncInv, NEW d \in Devices, At(d, "applying"), NEW changes,
           changes = SubSeq(log, cursor[d] + 1, run[d].upto), NEW m \in Missions,
           NEW cached, cached = Projected(d, changes)[m]
    PROVE  /\ cached \in CachedRow
           /\ \/ cached = Cached(NoRow)
              \/ ~Deletes(changes, m) /\ cached = view[d][m]
              \/ ~Deletes(changes, m) /\ m \notin tomb[d] /\ InLog("create", m)
           /\ Deletes(changes, m) => cached = Cached(NoRow)
           /\ ~Deletes(changes, m) /\ m \in tomb[d] => cached = view[d][m]
           /\ \A i \in cursor[d] + 1 .. run[d].upto :
                 log[i].by.op = "delete" /\ log[i].by.mission = m => Deletes(changes, m)
<1>1. /\ DeviceTypes /\ CursorOK(d) /\ LoggedOK
      /\ cursor[d] \in Nat /\ run[d].upto \in Nat
  BY DEF SyncInv, DeviceOK, DeviceTypes, Running
<1>2. PICK c, u : c = cursor[d] /\ u = run[d].upto
  OBVIOUS
<1>3. c \in Nat /\ u \in Nat /\ c <= u /\ u <= Len(log)
  BY <1>1, <1>2 DEF CursorOK
<1>4. /\ NoRow \in MissionRow /\ log \in Seq(ServerProofs!Entry)
      /\ Len(log) \in Nat /\ DOMAIN log = 1 .. Len(log)
      /\ \A i \in DOMAIN log : log[i].row \in MissionRow
  BY RowsOfLog
<1>5. \A i \in c + 1 .. u : i \in DOMAIN log
  BY <1>3, <1>4
<1>6. /\ changes \in Seq(ServerProofs!Entry)
      /\ DOMAIN changes = 1 .. u - c
      /\ \A i \in 1 .. u - c : changes[i] = log[c + i]
  <2>1. \A i \in c + 1 .. u : log[i] \in ServerProofs!Entry
    BY <1>4, <1>5
  <2>2. /\ SubSeq(log, c + 1, u) \in Seq(ServerProofs!Entry)
        /\ Len(SubSeq(log, c + 1, u)) = IF c + 1 <= u THEN u - (c + 1) + 1 ELSE 0
        /\ \A i \in 1 .. u - (c + 1) + 1 : SubSeq(log, c + 1, u)[i] = log[c + 1 + i - 1]
    BY <1>3, <2>1, SubSeqProperties
  <2>3. changes = SubSeq(log, c + 1, u)
    BY <1>2
  <2>a. /\ changes \in Seq(ServerProofs!Entry)
        /\ Len(changes) = IF c + 1 <= u THEN u - (c + 1) + 1 ELSE 0
        /\ \A i \in 1 .. u - (c + 1) + 1 : changes[i] = log[c + 1 + i - 1]
    BY <2>2, <2>3, Zenon
  <2>b. u - (c + 1) + 1 = u - c /\ (~(c + 1 <= u) => u - c = 0)
    BY <1>3
  <2>4. Len(changes) = u - c
    BY <2>a, <2>b
  <2>5. DOMAIN changes = 1 .. u - c
    BY <2>a, <2>4
  <2>6. \A i \in 1 .. u - c : changes[i] = log[c + i]
    <3> TAKE i \in 1 .. u - c
    <3>1. c + 1 + i - 1 = c + i
      BY <1>3
    <3> QED
      BY <2>a, <2>b, <3>1
  <2> QED
    BY <2>a, <2>5, <2>6
<1>7. \A i \in 1 .. u - c : c + i \in DOMAIN log
  BY <1>3, <1>4
<1>8. cached = IF Deletes(changes, m) THEN Cached(NoRow)
               ELSE IF About(changes, m) = {} \/ m \in tomb[d] THEN view[d][m]
               ELSE Cached(changes[Max(About(changes, m))].row)
  BY DEF Projected
<1>9. \A row \in MissionRow : Cached(row) \in CachedRow
  BY DEF Cached, CachedRow
<1>10. view[d][m] \in CachedRow
  BY <1>1 DEF DeviceTypes
<1>11. ASSUME About(changes, m) # {}
       PROVE  InLog("create", m) /\ Cached(changes[Max(About(changes, m))].row) \in CachedRow
  <2> DEFINE S == About(changes, m)
  <2>1. S \in SUBSET (1 .. u - c)
    BY <1>6 DEF About
  <2>2. IsFiniteSet(1 .. u - c)
    BY <1>3, FS_Interval
  <2> HIDE DEF S
  <2>a. IsFiniteSet(S)
    BY <2>1, <2>2, FS_Subset
  <2>b. S # {}
    BY <1>11 DEF S
  <2>3. S \in SUBSET Nat /\ IsFiniteSet(S) /\ S # {}
    BY <2>1, <2>a, <2>b
  <2>4. Max(S) \in S
    BY <2>3, MaxOf
  <2>5. Max(S) \in 1 .. u - c /\ changes[Max(S)].by.mission = m
    BY <1>6, <2>4 DEF About, S
  <2>6. PICK i \in 1 .. u - c : i = Max(S)
    BY <2>5
  <2>7. changes[i] = log[c + i] /\ c + i \in DOMAIN log
    BY <1>6, <1>7
  <2>8. InLog("create", m)
    BY <1>1, <2>5, <2>6, <2>7 DEF LoggedOK
  <2>9. changes[i].row \in MissionRow
    BY <1>4, <2>7
  <2> QED
    BY <1>9, <2>6, <2>8, <2>9 DEF S
<1>12. cached \in CachedRow
  BY <1>4, <1>8, <1>9, <1>10, <1>11
<1>13. ASSUME NEW i \in c + 1 .. u, log[i].by.op = "delete", log[i].by.mission = m
       PROVE  Deletes(changes, m)
  <2>1. i - c \in 1 .. u - c /\ c + (i - c) = i
    BY <1>3
  <2>2. changes[i - c] = log[i]
    BY <1>6, <2>1
  <2> QED
    BY <1>6, <1>13, <2>1, <2>2 DEF Deletes
<1>14. \A i \in cursor[d] + 1 .. run[d].upto :
           log[i].by.op = "delete" /\ log[i].by.mission = m => Deletes(changes, m)
  BY <1>2, <1>13
<1> QED
  BY <1>8, <1>11, <1>12, <1>14

\* A step of a device that changes what it shows, its tombstones, its cursor
\* and its run only.
ViewStep(d, v, gone, c, s) ==
    /\ UNCHANGED <<queue, draft, undo, issued, dropped>>
    /\ v \in [Missions -> CachedRow] /\ view' = [view EXCEPT ![d] = v]
    /\ gone \in SUBSET Missions /\ tomb' = [tomb EXCEPT ![d] = gone]
    /\ c \in Nat /\ cursor' = [cursor EXCEPT ![d] = c] /\ c <= Len(log)
    /\ s \in Running /\ run' = [run EXCEPT ![d] = s]
    /\ run[d].at # "waiting" /\ s.at # "waiting" /\ s.at # "applying"
    /\ \/ s = NoRun
       \/ /\ s.batch = run[d].batch /\ s.settled = run[d].settled
          /\ s.conflict = run[d].conflict
          /\ s.at \notin {"marking", "pushing", "settling"}
          /\ s.at \in {"reconciling", "deferred"} => s.conflict # "none"
    /\ \A m \in Missions : v[m].row.stage # "absent" => Known(d, m)
    /\ \A m \in Missions :
          (\E i \in 1 .. c : log[i].by.op = "delete" /\ log[i].by.mission = m)
          => v[m].row.stage = "absent" /\ m \in gone

\* It keeps the invariant, where what it shows was created and what the cursor
\* has passed is gone.
LEMMA ViewMoves ==
    ASSUME SyncInv, NEW d \in Devices, UNCHANGED <<serverVars, call>>,
           NEW v, NEW gone, NEW c, NEW s, ViewStep(d, v, gone, c, s)
    PROVE  SyncInv'
<1> USE DEF ViewStep
<1>1. DeviceTypes /\ DeviceOK(d) /\ IssuedOK(d) /\ RunOK(d)
  BY DEF SyncInv, DeviceOK
<1>2. /\ view \in [Devices -> [Missions -> CachedRow]] /\ tomb \in [Devices -> SUBSET Missions]
      /\ cursor \in [Devices -> Nat] /\ run \in [Devices -> Running]
  BY <1>1 DEF DeviceTypes
<1>3. /\ view' \in [Devices -> [Missions -> CachedRow]] /\ view'[d] = v
      /\ \A e \in Devices : e # d => view'[e] = view[e]
  BY <1>2
<1>4. /\ tomb' \in [Devices -> SUBSET Missions] /\ tomb'[d] = gone
      /\ \A e \in Devices : e # d => tomb'[e] = tomb[e]
  BY <1>2
<1>5. /\ cursor' \in [Devices -> Nat] /\ cursor'[d] = c
      /\ \A e \in Devices : e # d => cursor'[e] = cursor[e]
  BY <1>2
<1>6. /\ run' \in [Devices -> Running] /\ run'[d] = s
      /\ \A e \in Devices : e # d => run'[e] = run[e]
  BY <1>2
<1>7. DeviceTypes'
  BY <1>1, <1>3, <1>4, <1>5, <1>6 DEF DeviceTypes
<1>8. log' = log
  BY DEF serverVars
<1>9. Grows
  BY <1>8 DEF Grows
<1>10. \A e \in Devices : e # d => Unmoved(e)
  BY <1>3, <1>4, <1>5, <1>6 DEF Unmoved
<1>11. IssuedOK(d)' /\ DroppedOK(d)' /\ QueueOK(d)'
  BY <1>1, <1>9, IssuedKept, DroppedKept, QueueKept DEF DeviceOK
<1>12. ScreenOK(d)'
  <2>1. ScreenOK(d)
    BY <1>1 DEF DeviceOK
  <2>2. \A m \in Missions : v[m].row.stage # "absent" => Known(d, m)'
    BY <1>9, Monotone
  <2>3. \A mut : mut = draft[d] /\ mut # Nothing =>
          /\ mut.id = <<d, Len(issued[d]) + 1>> /\ Len(issued[d]) < MaxIssued
          /\ mut.op = "update" /\ Known(d, mut.mission)'
    BY <1>9, <2>1, Monotone DEF ScreenOK
  <2>4. \A u : u = undo[d] /\ u # Nothing => Made(d, u.mut)' /\ u.mut.op = "delete"
    BY <1>9, <2>1, Monotone DEF ScreenOK
  <2> QED
    BY <1>3, <2>2, <2>3, <2>4 DEF ScreenOK, Row, Made, Known, InLog
<1>13. CursorOK(d)'
  BY <1>3, <1>4, <1>5, <1>6, <1>8 DEF CursorOK, At, Row
<1>14. RunOK(d)'
  <2>1. CASE s = NoRun
    BY <1>6, <2>1, RunEnds
  <2>2. CASE /\ s.batch = run[d].batch /\ s.settled = run[d].settled
             /\ s.conflict = run[d].conflict
             /\ s.at \notin {"marking", "pushing", "settling"}
             /\ s.at \in {"reconciling", "deferred"} => s.conflict # "none"
    BY <1>1, <1>6, <1>7, <1>9, <2>2, RunGoes
  <2> QED
    BY <2>1, <2>2
<1>15. ~At(d, "waiting") /\ ~At(d, "waiting")'
  BY <1>6 DEF At
<1> QED
  BY <1>7, <1>9, <1>10, <1>11, <1>12, <1>13, <1>14, <1>15, DeviceAlone DEF DeviceOK

\* The page and the cursor in one transaction.
LEMMA ApplyKeeps ==
    ASSUME SyncInv, NEW d \in Devices, ApplyPage(d)
    PROVE  SyncInv'
<1>1. PICK r \in Running :
          /\ r = run[d]
          /\ r.batch \in Seq(Mutation) /\ DOMAIN r.batch = 1 .. Len(r.batch)
          /\ Len(r.batch) \in Nat /\ r.settled \in Nat /\ r.settled <= Len(r.batch)
          /\ r.upto \in Nat /\ r.more \in BOOLEAN /\ r.at \in Phases
  BY RunShape
<1>2. PICK changes : changes = SubSeq(log, cursor[d] + 1, run[d].upto)
  OBVIOUS
<1>3. /\ Apply(d, changes) /\ UNCHANGED <<serverVars, call>>
      /\ UNCHANGED <<queue, draft, undo, issued, dropped>>
  BY <1>2 DEF ApplyPage, Apply, uiVars
<1>4. At(d, "applying") /\ r.at = "applying"
  BY <1>1, <1>3 DEF Apply, At
<1>5. DeviceTypes /\ CursorOK(d) /\ ScreenOK(d)
  BY DEF SyncInv, DeviceOK
<1>6. PICK gone : gone = tomb[d] \cup {m \in Missions : Deletes(changes, m)}
  OBVIOUS
<1>7. gone \in SUBSET Missions /\ tomb' = [tomb EXCEPT ![d] = gone]
  <2>1. tomb[d] \in SUBSET Missions
    BY <1>5 DEF DeviceTypes
  <2>2. tomb' = [tomb EXCEPT ![d] = gone]
    BY <1>3, <1>6 DEF Apply
  <2> QED
    BY <1>6, <2>1, <2>2
<1>8. PICK v : v = Projected(d, changes)
  OBVIOUS
<1>9. ASSUME NEW m \in Missions
      PROVE  /\ v[m] \in CachedRow
             /\ \/ v[m] = Cached(NoRow)
                \/ ~Deletes(changes, m) /\ v[m] = view[d][m]
                \/ ~Deletes(changes, m) /\ m \notin tomb[d] /\ InLog("create", m)
             /\ Deletes(changes, m) => v[m] = Cached(NoRow)
             /\ ~Deletes(changes, m) /\ m \in tomb[d] => v[m] = view[d][m]
             /\ \A i \in cursor[d] + 1 .. run[d].upto :
                   log[i].by.op = "delete" /\ log[i].by.mission = m => Deletes(changes, m)
  <2>1. PICK cached : cached = Projected(d, changes)[m] /\ cached = v[m]
    BY <1>8
  <2>2. cached = Projected(d, changes)[m]
    BY <2>1
  <2>3. /\ cached \in CachedRow
        /\ \/ cached = Cached(NoRow)
           \/ ~Deletes(changes, m) /\ cached = view[d][m]
           \/ ~Deletes(changes, m) /\ m \notin tomb[d] /\ InLog("create", m)
        /\ Deletes(changes, m) => cached = Cached(NoRow)
        /\ ~Deletes(changes, m) /\ m \in tomb[d] => cached = view[d][m]
        /\ \A i \in cursor[d] + 1 .. run[d].upto :
              log[i].by.op = "delete" /\ log[i].by.mission = m => Deletes(changes, m)
    BY <1>2, <1>4, <2>2, ProjectionOf
  <2> QED
    BY <2>1, <2>3
<1>10. v \in [Missions -> CachedRow] /\ view' = [view EXCEPT ![d] = v]
  <2>1. view' = [view EXCEPT ![d] = v]
    BY <1>3, <1>8 DEF Apply
  <2>2. v = [m \in Missions |-> v[m]]
    BY <1>8 DEF Projected
  <2> QED
    BY <1>9, <2>1, <2>2
<1>11. Cached(NoRow).row.stage = "absent"
  BY DEF Cached, NoRow
<1>12. ASSUME NEW m \in Missions, v[m].row.stage # "absent"
       PROVE  Known(d, m)
  <2>1. CASE v[m] = view[d][m]
    BY <1>5, <1>12, <2>1 DEF ScreenOK, Row
  <2>2. CASE InLog("create", m)
    BY <2>2 DEF Known
  <2> QED
    BY <1>9, <1>11, <1>12, <2>1, <2>2
<1>13. PICK c \in Nat : c = run[d].upto
  BY <1>1
<1>14. cursor' = [cursor EXCEPT ![d] = c] /\ c <= Len(log) /\ cursor[d] \in Nat /\ cursor[d] <= c
  <2>1. cursor' = [cursor EXCEPT ![d] = c]
    BY <1>3, <1>13 DEF Apply
  <2>2. cursor[d] \in Nat
    BY <1>5 DEF DeviceTypes
  <2> QED
    BY <1>4, <1>5, <1>13, <2>1, <2>2 DEF CursorOK
<1>15. ASSUME NEW m \in Missions, NEW i \in 1 .. c,
              log[i].by.op = "delete", log[i].by.mission = m
       PROVE  v[m].row.stage = "absent" /\ m \in gone
  <2>1. CASE Deletes(changes, m)
    BY <1>6, <1>9, <1>11, <2>1
  <2>2. CASE ~Deletes(changes, m)
    <3>1. i \notin cursor[d] + 1 .. run[d].upto
      BY <1>9, <1>15, <2>2
    <3>2. i \in 1 .. cursor[d]
      BY <1>13, <1>14, <3>1
    <3>3. Row(d, m).stage = "absent" /\ m \in tomb[d]
      BY <1>5, <1>15, <3>2 DEF CursorOK
    <3>4. v[m] = view[d][m]
      BY <1>9, <2>2, <3>3
    <3> QED
      BY <1>6, <3>3, <3>4 DEF Row
  <2> QED
    BY <2>1, <2>2
<1>16. PICK s \in Running :
          /\ run' = [run EXCEPT ![d] = s]
          /\ \/ s = NoRun
             \/ /\ s.batch = r.batch /\ s.settled = r.settled /\ s.conflict = r.conflict
                /\ s.at = "pulling" \/ (s.at = "reconciling" /\ s.conflict # "none")
  <2>1. run' = [run EXCEPT ![d] = IF r.more THEN [r EXCEPT !.at = "pulling"]
                                  ELSE IF r.conflict = "none" THEN NoRun
                                  ELSE [r EXCEPT !.at = "reconciling"]]
    BY <1>1, <1>3 DEF Apply
  <2>2. [r EXCEPT !.at = "pulling"] \in Running /\ [r EXCEPT !.at = "reconciling"] \in Running
    BY DEF Running, Phases
  <2>3. \A at : LET s == [r EXCEPT !.at = at]
                IN  s.batch = r.batch /\ s.settled = r.settled /\ s.conflict = r.conflict /\ s.at = at
    BY DEF Running
  <2>4. CASE r.more
    BY <2>1, <2>2, <2>3, <2>4
  <2>5. CASE ~r.more /\ r.conflict = "none"
    BY <2>1, <2>5, NoRunIsRunning
  <2>6. CASE ~r.more /\ r.conflict # "none"
    BY <2>1, <2>2, <2>3, <2>6
  <2> QED
    BY <2>4, <2>5, <2>6
<1>17. s.at # "waiting" /\ s.at # "applying" /\ run[d].at # "waiting"
  BY <1>1, <1>4, <1>16 DEF NoRun
<1>18. \A m \in Missions :
           (\E i \in 1 .. c : log[i].by.op = "delete" /\ log[i].by.mission = m)
           => v[m].row.stage = "absent" /\ m \in gone
  BY <1>15
<1>19. \/ s = NoRun
       \/ /\ s.batch = run[d].batch /\ s.settled = run[d].settled
          /\ s.conflict = run[d].conflict
          /\ s.at \notin {"marking", "pushing", "settling"}
          /\ s.at \in {"reconciling", "deferred"} => s.conflict # "none"
  BY <1>1, <1>16
<1> QED
  <2>1. ViewStep(d, v, gone, c, s)
    BY <1>3, <1>7, <1>10, <1>12, <1>14, <1>16, <1>17, <1>18, <1>19 DEF ViewStep
  <2> QED
    BY <1>3, <2>1, ViewMoves

\* A rejected completion: the row is put back, or left as it is.
LEMMA ReconcileKeeps ==
    ASSUME SyncInv, NEW d \in Devices, Reconcile(d), UNCHANGED <<serverVars, call>>
    PROVE  SyncInv'
<1>1. PICK r \in Running :
          /\ r = run[d]
          /\ r.batch \in Seq(Mutation) /\ DOMAIN r.batch = 1 .. Len(r.batch)
          /\ Len(r.batch) \in Nat /\ r.settled \in Nat /\ r.settled <= Len(r.batch)
          /\ r.upto \in Nat /\ r.more \in BOOLEAN /\ r.at \in Phases
  BY RunShape
<1>2. DeviceTypes /\ RunOK(d) /\ CursorOK(d) /\ ScreenOK(d)
  BY DEF SyncInv, DeviceOK
<1>3. /\ r.at = "reconciling"
      /\ UNCHANGED <<queue, tomb, cursor, draft, undo, issued, dropped>>
  BY <1>1 DEF Reconcile, At, uiVars
<1>4. r.conflict # "none" /\ r.settled > 0
  BY <1>1, <1>2, <1>3 DEF RunOK
<1>10. PICK v \in [Missions -> CachedRow] :
          /\ view' = [view EXCEPT ![d] = v]
          /\ \A k \in Missions : v[k].row.stage = view[d][k].row.stage
  <2>5. PICK mut \in Mutation : mut = Refused(d)
    <3>1. r.settled \in 1 .. Len(r.batch)
      BY <1>1, <1>4
    <3> QED
      BY <1>1, <3>1 DEF Refused
  <2>6. PICK m \in Missions : m = mut.mission
    BY DEF Mutation
  <2>7. PICK before \in BOOLEAN : before = BeforeOf(d, mut)
    BY DEF BeforeOf
  <2>8. PICK old \in [Missions -> CachedRow] : old = view[d]
    BY <1>2 DEF DeviceTypes
  <2>9. PICK restored \in CachedRow :
            restored = RestoredRow(d, m, before) /\ restored.row.stage = old[m].row.stage
    <3>1. PICK cached \in CachedRow : cached = view[d][m]
      BY <2>8
    <3>2. PICK row \in MissionRow : row = cached.row
      BY DEF CachedRow
    <3>3. [row EXCEPT !.done = FALSE] \in MissionRow /\ [row EXCEPT !.done = FALSE].stage = row.stage
      BY DEF MissionRow
    <3>4. PICK restored : restored = RestoredRow(d, m, before)
      OBVIOUS
    <3>5. restored = [cached EXCEPT !.row.done = FALSE, !.pending = before]
      BY <3>1, <3>4 DEF RestoredRow
    <3>6. restored = [cached EXCEPT !.row = [row EXCEPT !.done = FALSE], !.pending = before]
      BY <3>2, <3>5
    <3>7. restored \in CachedRow /\ restored.row = [row EXCEPT !.done = FALSE]
      BY <3>3, <3>6 DEF CachedRow
    <3> QED
      BY <2>8, <3>1, <3>2, <3>3, <3>4, <3>7
  <2>10. \E v \in [Missions -> CachedRow] :
            /\ view' = [view EXCEPT ![d] = v]
            /\ \A k \in Missions : v[k].row.stage = old[k].row.stage
    <3>1. view' = view \/ view' = [view EXCEPT ![d][m] = restored]
      BY <2>5, <2>6, <2>7, <2>9 DEF Reconcile
    <3>2. view \in [Devices -> [Missions -> CachedRow]]
      BY <1>2 DEF DeviceTypes
    <3>3. CASE view' = view
      BY <2>8, <3>2, <3>3
    <3>4. CASE view' = [view EXCEPT ![d][m] = restored]
      <4>1. PICK v : v = [old EXCEPT ![m] = restored]
        OBVIOUS
      <4>2. v \in [Missions -> CachedRow] /\ \A k \in Missions : v[k].row.stage = old[k].row.stage
        BY <2>9, <4>1
      <4>3. view' = [view EXCEPT ![d] = v]
        BY <2>8, <3>4, <4>1
      <4> QED
        BY <4>2, <4>3
    <3> QED
      BY <3>1, <3>3, <3>4
  <2> QED
    BY <2>8, <2>10
<1>11. PICK s \in Running :
          /\ run' = [run EXCEPT ![d] = s]
          /\ \/ s = NoRun
             \/ /\ s.batch = r.batch /\ s.settled = r.settled /\ s.conflict = r.conflict
                /\ s.at = "deferred"
  <2>1. run' = [run EXCEPT ![d] = NoRun] \/ run' = [run EXCEPT ![d] = [r EXCEPT !.at = "deferred"]]
    BY <1>1 DEF Reconcile, Goto
  <2>2. [r EXCEPT !.at = "deferred"] \in Running
    BY DEF Running, Phases
  <2>3. LET s == [r EXCEPT !.at = "deferred"]
        IN  s.batch = r.batch /\ s.settled = r.settled /\ s.conflict = r.conflict
            /\ s.at = "deferred"
    BY DEF Running
  <2> QED
    BY <2>1, <2>2, <2>3, NoRunIsRunning
<1>12. PICK c : c = cursor[d]
  OBVIOUS
<1>13. PICK gone : gone = tomb[d]
  OBVIOUS
<1>14. /\ cursor' = [cursor EXCEPT ![d] = c] /\ tomb' = [tomb EXCEPT ![d] = gone]
       /\ c \in Nat /\ c <= Len(log) /\ gone \in SUBSET Missions
  BY <1>2, <1>3, <1>12, <1>13 DEF CursorOK, DeviceTypes
<1>15. \A k \in Missions : v[k].row.stage # "absent" => Known(d, k)
  BY <1>2, <1>10 DEF ScreenOK, Row
<1>16. \A k \in Missions :
           (\E i \in 1 .. c : log[i].by.op = "delete" /\ log[i].by.mission = k)
           => v[k].row.stage = "absent" /\ k \in gone
  BY <1>2, <1>10, <1>12, <1>13 DEF CursorOK, Row
<1>17. s.at # "waiting" /\ s.at # "applying" /\ run[d].at # "waiting"
  BY <1>1, <1>3, <1>11 DEF NoRun
<1>18. \/ s = NoRun
       \/ /\ s.batch = run[d].batch /\ s.settled = run[d].settled
          /\ s.conflict = run[d].conflict
          /\ s.at \notin {"marking", "pushing", "settling"}
          /\ s.at \in {"reconciling", "deferred"} => s.conflict # "none"
  BY <1>1, <1>4, <1>11
<1> QED
  <2>1. ViewStep(d, v, gone, c, s)
    BY <1>3, <1>10, <1>11, <1>14, <1>15, <1>16, <1>17, <1>18 DEF ViewStep
  <2> QED
    BY <2>1, ViewMoves

(***************************************************************************)
(* The user.                                                               *)
(***************************************************************************)
\* A transaction that queues a mutation: of a mission the device knows, and of
\* one that is not gone.
Enqueues(d, mut, cached) ==
    /\ Enqueue(d, mut, cached)
    /\ mut \in Mutation /\ cached \in CachedRow
    /\ mut.id = <<d, Len(issued[d]) + 1>> /\ Len(issued[d]) < MaxIssued
    /\ mut.op = "create" \/ Known(d, mut.mission)
    /\ mut.mission \in tomb[d] /\ Row(d, mut.mission).stage = "absent"
          => cached.row.stage = "absent"
    /\ tomb' \in [Devices -> SUBSET Missions] /\ tomb[d] \subseteq tomb'[d]
    /\ draft' \in [Devices -> Mutation \cup {Nothing}] /\ draft'[d] = Nothing
    /\ undo' \in [Devices -> Deletion \cup {Nothing}]
    /\ undo'[d] = undo[d] \/ (undo'[d].mut = mut /\ mut.op = "delete")
    /\ \A e \in Devices : e # d => tomb'[e] = tomb[e] /\ draft'[e] = draft[e] /\ undo'[e] = undo[e]

\* What such a transaction does to what the device made.
LEMMA EnqueueIssues ==
    ASSUME SyncInv, NEW d \in Devices, NEW mut, NEW cached, Enqueues(d, mut, cached),
           UNCHANGED <<serverVars, call>>
    PROVE  \E n \in Nat \ {0} :
              /\ n = Len(issued[d]) + 1 /\ n <= MaxIssued /\ mut.id = <<d, n>>
              /\ issued' \in [Devices -> Seq(Mutation)]
              /\ DOMAIN issued[d] = 1 .. n - 1 /\ DOMAIN issued'[d] = 1 .. n
              /\ Len(issued'[d]) = n
              /\ \A k \in 1 .. n - 1 : issued'[d][k] = issued[d][k]
              /\ issued'[d][n] = mut
              /\ \A e \in Devices : e # d => issued'[e] = issued[e]
              /\ Grows /\ IssuedOK(d)' /\ Known(d, mut.mission)'
<1>1. DeviceTypes /\ IssuedOK(d)
  BY DEF SyncInv, DeviceOK
<1>2. /\ mut \in Mutation /\ mut.id = <<d, Len(issued[d]) + 1>> /\ Len(issued[d]) < MaxIssued
      /\ mut.op = "create" \/ Known(d, mut.mission)
      /\ issued' = [issued EXCEPT ![d] = Append(issued[d], mut)]
      /\ dropped' = dropped /\ log' = log
  BY DEF Enqueues, Enqueue, serverVars
<1>3. PICK s \in Seq(Mutation) : s = issued[d]
  BY <1>1 DEF DeviceTypes
<1>4. PICK n \in Nat \ {0} : n = Len(s) + 1
  OBVIOUS
<1>5. PICK t \in Seq(Mutation) : t = Append(s, mut)
  BY <1>2, AppendProperties
<1>6. /\ DOMAIN s = 1 .. n - 1 /\ DOMAIN t = 1 .. n /\ Len(t) = n
      /\ \A k \in 1 .. n - 1 : t[k] = s[k]
      /\ t[n] = mut
  BY <1>2, <1>4, <1>5
<1>7. /\ issued' \in [Devices -> Seq(Mutation)] /\ issued'[d] = t
      /\ \A e \in Devices : e # d => issued'[e] = issued[e]
  BY <1>1, <1>2, <1>3, <1>5 DEF DeviceTypes
<1>8. Grows
  <2>1. \A i \in DOMAIN log : i \in DOMAIN log' /\ log'[i] = log[i]
    BY <1>2
  <2>2. \A k \in DOMAIN issued[d] : k \in DOMAIN issued'[d] /\ issued'[d][k] = issued[d][k]
    BY <1>3, <1>6, <1>7
  <2> QED
    BY <1>2, <1>7, <2>1, <2>2 DEF Grows
<1>9. mut.op # "create" =>
          InLog("create", mut.mission) \/ \E k \in 1 .. n - 1 : Creates(s[k], mut.mission)
  BY <1>2, <1>3, <1>6 DEF Known
<1>10. Len(s) <= MaxIssued
       /\ \A k \in 1 .. n - 1 :
             /\ s[k].id = <<d, k>>
             /\ s[k].op # "create" =>
                   \/ InLog("create", s[k].mission)
                   \/ \E l \in 1 .. n - 1 : l < k /\ Creates(s[l], s[k].mission)
  BY <1>1, <1>3, <1>6 DEF IssuedOK
<1>11. \A k \in 1 .. n :
           /\ t[k].id = <<d, k>>
           /\ t[k].op # "create" =>
                 \/ InLog("create", t[k].mission)
                 \/ \E l \in 1 .. n : l < k /\ Creates(t[l], t[k].mission)
  <2> TAKE k \in 1 .. n
  <2>1. CASE k = n
    <3>1. mut.id = <<d, n>>
      BY <1>2, <1>3, <1>4
    <3>2. \A l \in 1 .. n - 1 : l \in 1 .. n /\ l < n /\ t[l] = s[l]
      BY <1>6
    <3>3. mut.op # "create" =>
             InLog("create", mut.mission) \/ \E l \in 1 .. n : l < n /\ Creates(t[l], mut.mission)
      BY <1>9, <3>2
    <3> QED
      BY <1>6, <2>1, <3>1, <3>3
  <2>2. CASE k \in 1 .. n - 1
    <3>1. \A l \in 1 .. n - 1 : l \in 1 .. n /\ t[l] = s[l]
      BY <1>6
    <3> QED
      BY <1>10, <2>2, <3>1
  <2> QED
    BY <2>1, <2>2
<1>12. IssuedOK(d)'
  <2>1. n <= MaxIssued
    BY <1>2, <1>3, <1>4, MaxIssuedAssumption
  <2>2. \A op, m : InLog(op, m) => InLog(op, m)'
    BY <1>8, LogMonotone
  <2>3. \A k \in 1 .. n : \A m :
            m = t[k].mission /\ t[k].op # "create" =>
                 InLog("create", m)' \/ \E l \in 1 .. n : l < k /\ Creates(t[l], t[k].mission)
    BY <1>11, <2>2
  <2> QED
    BY <1>6, <1>7, <1>11, <2>1, <2>3 DEF IssuedOK, InLog
<1>13. Known(d, mut.mission)'
  <2>1. ASSUME NEW m, m = mut.mission
        PROVE  Known(d, m)'
    <3>1. CASE mut.op = "create"
      BY <1>6, <1>7, <2>1, <3>1 DEF Known, Creates
    <3>2. CASE Known(d, m)
      BY <1>8, <3>2, Monotone
    <3> QED
      BY <1>2, <2>1, <3>1, <3>2
  <2> QED
    BY <2>1 DEF Known, InLog
<1>14. n = Len(issued[d]) + 1 /\ n <= MaxIssued /\ mut.id = <<d, n>>
  BY <1>2, <1>3, <1>4, MaxIssuedAssumption
<1> QED
  BY <1>3, <1>6, <1>7, <1>8, <1>12, <1>13, <1>14

\* The queue after it: the mutation comes last.
LEMMA EnqueueQueues ==
    ASSUME SyncInv, NEW d \in Devices, NEW mut, NEW cached, Enqueues(d, mut, cached),
           UNCHANGED <<serverVars, call>>
    PROVE  /\ queue' \in [Devices -> Seq(Queueing)]
           /\ \A e \in Devices : e # d => queue'[e] = queue[e]
           /\ QueueOK(d)'
<1>1. DeviceTypes /\ IssuedOK(d) /\ QueueOK(d)
  BY DEF SyncInv, DeviceOK
<1>2. PICK n \in Nat \ {0} :
          /\ n = Len(issued[d]) + 1 /\ n <= MaxIssued /\ mut.id = <<d, n>>
          /\ issued' \in [Devices -> Seq(Mutation)]
          /\ DOMAIN issued[d] = 1 .. n - 1 /\ DOMAIN issued'[d] = 1 .. n
          /\ Len(issued'[d]) = n
          /\ \A k \in 1 .. n - 1 : issued'[d][k] = issued[d][k]
          /\ issued'[d][n] = mut
          /\ \A e \in Devices : e # d => issued'[e] = issued[e]
          /\ Grows /\ IssuedOK(d)' /\ Known(d, mut.mission)'
  BY EnqueueIssues
<1>3. /\ queue' = [queue EXCEPT ![d] = Append(queue[d],
              [mut |-> mut, inFlight |-> FALSE, before |-> view[d][mut.mission].pending])]
      /\ mut \in Mutation
  BY DEF Enqueues, Enqueue
<1>4. PICK e : e = [mut |-> mut, inFlight |-> FALSE, before |-> view[d][mut.mission].pending]
  OBVIOUS
<1>5. e \in Queueing /\ e.mut = mut
  <2>1. mut.mission \in Missions
    BY <1>3 DEF Mutation
  <2>2. view[d][mut.mission].pending \in BOOLEAN
    BY <1>1, <2>1 DEF DeviceTypes, CachedRow
  <2> QED
    BY <1>3, <1>4, <2>2 DEF Queueing
<1>6. PICK s \in Seq(Queueing) : s = queue[d]
  BY <1>1 DEF DeviceTypes
<1>7. PICK l \in Nat : l = Len(s)
  OBVIOUS
<1>8. PICK t \in Seq(Queueing) : t = Append(s, e)
  BY <1>5, AppendProperties
<1>9. /\ DOMAIN s = 1 .. l /\ DOMAIN t = 1 .. l + 1
      /\ \A i \in 1 .. l : t[i] = s[i]
      /\ t[l + 1] = e
  <2>1. /\ Len(t) = Len(s) + 1
        /\ \A i \in 1 .. Len(s) : t[i] = s[i]
        /\ t[Len(s) + 1] = e
    BY <1>5, <1>8, AppendProperties
  <2> QED
    BY <1>7, <2>1
<1>10. /\ queue' \in [Devices -> Seq(Queueing)] /\ queue'[d] = t
       /\ \A g \in Devices : g # d => queue'[g] = queue[g]
  BY <1>1, <1>3, <1>4, <1>6, <1>8 DEF DeviceTypes
<1>11. \A i \in 1 .. l : \E k \in 1 .. n - 1 : s[i].mut = issued[d][k] /\ s[i].mut.id = <<d, k>>
  <2>1. \A i \in 1 .. l : \E k \in DOMAIN issued[d] : issued[d][k] = s[i].mut
    BY <1>1, <1>6, <1>9 DEF QueueOK, Made
  <2>2. \A k \in DOMAIN issued[d] : issued[d][k].id = <<d, k>>
    BY <1>1 DEF IssuedOK
  <2> QED
    BY <1>2, <2>1, <2>2
<1>12. \A i \in 1 .. l + 1 : \E k \in 1 .. n : t[i].mut = issued'[d][k]
  <2> TAKE i \in 1 .. l + 1
  <2>1. CASE i \in 1 .. l
    <3>1. PICK k \in 1 .. n - 1 : s[i].mut = issued[d][k]
      BY <1>11, <2>1
    <3> QED
      BY <1>2, <1>9, <2>1, <3>1
  <2>2. CASE i = l + 1
    BY <1>2, <1>5, <1>9, <2>2
  <2> QED
    BY <2>1, <2>2
<1>13. ASSUME NEW i \in 1 .. l + 1, NEW j \in 1 .. l + 1, i < j
       PROVE  t[i].mut.id[2] < t[j].mut.id[2]
  <2>1. i \in 1 .. l /\ t[i] = s[i]
    BY <1>9, <1>13
  <2>2. CASE j \in 1 .. l
    <3>1. \A a, b \in 1 .. l : a < b => s[a].mut.id[2] < s[b].mut.id[2]
      BY <1>1, <1>6, <1>9 DEF QueueOK
    <3> QED
      BY <1>9, <1>13, <2>1, <2>2, <3>1
  <2>3. CASE j = l + 1
    <3>1. PICK k \in 1 .. n - 1 : s[i].mut.id = <<d, k>>
      BY <1>11, <2>1
    <3>2. t[i].mut.id[2] = k /\ t[j].mut.id[2] = n
      BY <1>2, <1>5, <1>9, <2>1, <2>3, <3>1
    <3> QED
      BY <3>2
  <2> QED
    BY <2>2, <2>3
<1>14. ASSUME NEW k \in 1 .. n
       PROVE  Past(d, k)' \/ \E i \in 1 .. l + 1 : t[i].mut = issued'[d][k]
  <2>1. CASE k = n
    BY <1>2, <1>5, <1>9, <2>1
  <2>2. CASE k \in 1 .. n - 1
    <3>1. Past(d, k) \/ \E i \in 1 .. l : s[i].mut = issued[d][k]
      BY <1>1, <1>2, <1>6, <1>9, <2>2 DEF QueueOK
    <3>2. Past(d, k) => Past(d, k)'
      BY <1>2, <2>2, Monotone
    <3>3. \A i \in 1 .. l : i \in 1 .. l + 1 /\ t[i] = s[i]
      BY <1>9
    <3> QED
      BY <1>2, <2>2, <3>1, <3>2, <3>3
  <2> QED
    BY <2>1, <2>2
<1>15. QueueOK(d)'
  BY <1>2, <1>9, <1>10, <1>12, <1>13, <1>14 DEF QueueOK, Made
<1> QED
  BY <1>10, <1>15

\* It keeps the invariant.
LEMMA EnqueueKeeps ==
    ASSUME SyncInv, NEW d \in Devices, NEW mut, NEW cached, Enqueues(d, mut, cached),
           UNCHANGED <<serverVars, call>>
    PROVE  SyncInv'
<1>1. /\ DeviceTypes /\ DeviceOK(d) /\ IssuedOK(d) /\ RunOK(d) /\ ScreenOK(d) /\ CursorOK(d)
      /\ DroppedOK(d)
  BY DEF SyncInv, DeviceOK
<1>2. PICK n \in Nat \ {0} :
          /\ n = Len(issued[d]) + 1 /\ n <= MaxIssued /\ mut.id = <<d, n>>
          /\ issued' \in [Devices -> Seq(Mutation)]
          /\ DOMAIN issued[d] = 1 .. n - 1 /\ DOMAIN issued'[d] = 1 .. n
          /\ Len(issued'[d]) = n
          /\ \A k \in 1 .. n - 1 : issued'[d][k] = issued[d][k]
          /\ issued'[d][n] = mut
          /\ \A e \in Devices : e # d => issued'[e] = issued[e]
          /\ Grows /\ IssuedOK(d)' /\ Known(d, mut.mission)'
  BY EnqueueIssues
<1>3. /\ queue' \in [Devices -> Seq(Queueing)] /\ QueueOK(d)'
      /\ \A e \in Devices : e # d => queue'[e] = queue[e]
  BY EnqueueQueues
<1>4. /\ mut \in Mutation /\ cached \in CachedRow
      /\ mut.mission \in tomb[d] /\ Row(d, mut.mission).stage = "absent"
            => cached.row.stage = "absent"
      /\ tomb' \in [Devices -> SUBSET Missions] /\ tomb[d] \subseteq tomb'[d]
      /\ draft' \in [Devices -> Mutation \cup {Nothing}] /\ draft'[d] = Nothing
      /\ undo' \in [Devices -> Deletion \cup {Nothing}]
      /\ undo'[d] = undo[d] \/ (undo'[d].mut = mut /\ mut.op = "delete")
      /\ \A e \in Devices : e # d => tomb'[e] = tomb[e] /\ draft'[e] = draft[e] /\ undo'[e] = undo[e]
  BY DEF Enqueues
<1>5. /\ view' = [view EXCEPT ![d][mut.mission] = cached]
      /\ cursor' = cursor /\ run' = run /\ dropped' = dropped /\ log' = log
  BY DEF Enqueues, Enqueue, serverVars
<1>6. mut.mission \in Missions
  BY <1>4 DEF Mutation
<1>7. PICK m \in Missions : m = mut.mission
  BY <1>6
<1>8. /\ view' \in [Devices -> [Missions -> CachedRow]]
      /\ view'[d][m] = cached /\ \A k \in Missions : k # m => view'[d][k] = view[d][k]
      /\ \A e \in Devices : e # d => view'[e] = view[e]
  BY <1>1, <1>4, <1>5, <1>7 DEF DeviceTypes
<1>9. DeviceTypes'
  BY <1>1, <1>2, <1>3, <1>4, <1>5, <1>8 DEF DeviceTypes
<1>10. \A e \in Devices : e # d => Unmoved(e)
  BY <1>2, <1>3, <1>4, <1>5, <1>8 DEF Unmoved
<1>11. DroppedOK(d)'
  BY <1>1, <1>2, <1>5, DroppedKept
<1>12. RunOK(d)'
  BY <1>1, <1>2, <1>5, <1>9, RunKept
<1>13. CursorOK(d)'
  <2>1. log \in Seq(ServerProofs!Entry) /\ log' \in Seq(ServerProofs!Entry)
    BY <1>5 DEF SyncInv, ServerProofs!ServerInv, ServerProofs!Types
  <2>2. \A k \in Missions : Row(d, k).stage = "absent" /\ k \in tomb[d]
            => Row(d, k)'.stage = "absent" /\ k \in tomb'[d]
    BY <1>4, <1>7, <1>8 DEF Row
  <2> QED
    BY <1>1, <1>2, <1>5, <2>1, <2>2, CursorKept
<1>14. ScreenOK(d)'
  <2>1. \A k \in Missions : Row(d, k)'.stage # "absent" => Known(d, k)'
    <3> TAKE k \in Missions
    <3>1. CASE k = m
      BY <1>2, <1>7, <3>1 DEF Known, InLog
    <3>2. CASE k # m
      <4>1. Row(d, k)' = Row(d, k)
        BY <1>8, <3>2 DEF Row
      <4>2. Known(d, k) => Known(d, k)'
        BY <1>2, Monotone
      <4> QED
        BY <1>1, <4>1, <4>2 DEF ScreenOK
    <3> QED
      BY <3>1, <3>2
  <2>2. \A u : u = undo'[d] /\ u # Nothing => Made(d, u.mut)' /\ u.mut.op = "delete"
    <3> SUFFICES ASSUME NEW u, u = undo'[d], u # Nothing
                 PROVE  Made(d, u.mut)' /\ u.mut.op = "delete"
      OBVIOUS
    <3>1. CASE undo'[d] = undo[d]
      <4>1. Made(d, u.mut) /\ u.mut.op = "delete"
        BY <1>1, <3>1 DEF ScreenOK
      <4> QED
        BY <1>2, <4>1, Monotone
    <3>2. CASE u.mut = mut /\ mut.op = "delete"
      BY <1>2, <3>2 DEF Made
    <3> QED
      BY <1>4, <3>1, <3>2
  <2> QED
    BY <1>4, <2>1, <2>2 DEF ScreenOK, Made, Known, InLog
<1> QED
  BY <1>2, <1>3, <1>5, <1>9, <1>10, <1>11, <1>12, <1>13, <1>14, DeviceAlone DEF DeviceOK

\* A new mutation has the next number.
LEMMA NewOf ==
    ASSUME SyncInv, NEW d \in Devices, Len(issued[d]) < MaxIssued,
           NEW op \in {"create", "update", "delete", "complete"}, NEW m \in Missions,
           NEW base \in Nat
    PROVE  LET mut == NewMutation(d, op, m, base)
           IN  /\ mut \in Mutation /\ mut.id = <<d, Len(issued[d]) + 1>> /\ mut.op = op
               /\ mut.mission = m /\ mut.base = base /\ mut.id \in Ids
<1>1. Len(issued[d]) \in Nat
  BY DEF SyncInv, DeviceTypes
<1>2. Len(issued[d]) + 1 \in 1 .. MaxIssued
  BY <1>1, MaxIssuedAssumption
<1>3. <<d, Len(issued[d]) + 1>> \in Ids
  BY <1>2, IdsAssumption
<1> QED
  BY <1>3 DEF NewMutation, Mutation

\* What a device shows of a mission.
LEMMA ShownOf ==
    ASSUME SyncInv, NEW d \in Devices, NEW m \in Missions
    PROVE  /\ view[d][m] \in CachedRow /\ Row(d, m) = view[d][m].row /\ Row(d, m) \in MissionRow
           /\ view[d][m].pending \in BOOLEAN /\ Row(d, m).version \in Nat
           /\ Row(d, m).stage # "absent" => Known(d, m)
<1>1. view[d][m] \in CachedRow
  BY DEF SyncInv, DeviceTypes
<1>2. Row(d, m).stage # "absent" => Known(d, m)
  BY DEF SyncInv, DeviceOK, ScreenOK
<1> QED
  BY <1>1, <1>2 DEF CachedRow, MissionRow, Row

\* What it shows: of a mission that is gone nothing, of a completed one the row
\* that was shown, done. Only a deletion leaves a tombstone.
Fits(d, mut, cached) ==
    /\ mut.mission \in tomb[d] /\ Row(d, mut.mission).stage = "absent"
          => cached = view[d][mut.mission]
    /\ mut.op = "complete" =>
          /\ Row(d, mut.mission).stage = "active" /\ ~Row(d, mut.mission).done
          /\ Row(d, mut.mission).version = mut.base
          /\ cached = [row |-> [Row(d, mut.mission) EXCEPT !.done = TRUE], pending |-> TRUE]
    /\ \/ tomb'[d] = tomb[d]
       \/ mut.op = "delete" /\ tomb'[d] = tomb[d] \cup {mut.mission}

\* Every operation of the user that queues a mutation is such a transaction.
LEMMA UserEnqueues ==
    ASSUME SyncInv, NEW d \in Devices,
           SaveEdit(d) \/ \E m \in Missions : Create(d, m) \/ Delete(d, m) \/ Complete(d, m)
    PROVE  \E mut, cached : Enqueues(d, mut, cached) /\ Fits(d, mut, cached)
<1>1. /\ tomb \in [Devices -> SUBSET Missions]
      /\ draft \in [Devices -> Mutation \cup {Nothing}]
      /\ undo \in [Devices -> Deletion \cup {Nothing}]
      /\ ScreenOK(d)
  BY DEF SyncInv, DeviceTypes, DeviceOK
<1>2. ASSUME NEW m \in Missions, Create(d, m)
      PROVE  \E mut, cached : Enqueues(d, mut, cached) /\ Fits(d, mut, cached)
  <2>1. PICK mut : mut = NewMutation(d, "create", m, 0)
    OBVIOUS
  <2>2. PICK cached : cached = [row |-> [NoRow EXCEPT !.stage = "active", !.content = mut.id],
                                pending |-> TRUE]
    OBVIOUS
  <2>3. /\ Len(issued[d]) < MaxIssued /\ draft[d] = Nothing /\ m \notin tomb[d]
        /\ Enqueue(d, mut, cached) /\ tomb' = tomb /\ draft' = draft /\ undo' = undo
    BY <1>2, <2>1, <2>2 DEF Create, Free, uiVars
  <2>4. /\ mut \in Mutation /\ mut.id = <<d, Len(issued[d]) + 1>> /\ mut.op = "create"
        /\ mut.mission = m /\ mut.id \in Ids
    BY <2>1, <2>3, NewOf
  <2>5. cached \in CachedRow
    BY <2>2, <2>4 DEF CachedRow, MissionRow, NoRow
  <2> QED
    BY <1>1, <2>3, <2>4, <2>5 DEF Enqueues, Fits
<1>3. ASSUME NEW m \in Missions, Delete(d, m)
      PROVE  \E mut, cached : Enqueues(d, mut, cached) /\ Fits(d, mut, cached)
  <2>1. PICK base : base = IF Row(d, m).version = 0 THEN 1 ELSE Row(d, m).version
    OBVIOUS
  <2>2. PICK mut : mut = NewMutation(d, "delete", m, base)
    OBVIOUS
  <2>3. PICK cached : cached = [row |-> [Row(d, m) EXCEPT !.stage = "deleted"], pending |-> TRUE]
    OBVIOUS
  <2>4. /\ Len(issued[d]) < MaxIssued /\ draft[d] = Nothing
        /\ Enqueue(d, mut, cached) /\ draft' = draft /\ Row(d, m).stage = "active"
        /\ tomb' = [tomb EXCEPT ![d] = tomb[d] \cup {m}]
        /\ undo' = [undo EXCEPT ![d] = [mut |-> mut, was |-> view[d][m]]]
    BY <1>3, <2>1, <2>2, <2>3 DEF Delete, Free
  <2>5. /\ view[d][m] \in CachedRow /\ Row(d, m) \in MissionRow /\ base \in Nat /\ Known(d, m)
    BY <2>1, <2>4, ShownOf
  <2>6. /\ mut \in Mutation /\ mut.id = <<d, Len(issued[d]) + 1>> /\ mut.op = "delete"
        /\ mut.mission = m
    BY <2>2, <2>4, <2>5, NewOf
  <2>7. cached \in CachedRow
    BY <2>3, <2>5 DEF CachedRow, MissionRow
  <2>8. /\ tomb' \in [Devices -> SUBSET Missions] /\ tomb[d] \subseteq tomb'[d]
        /\ \A e \in Devices : e # d => tomb'[e] = tomb[e]
    BY <1>1, <2>4
  <2>9. /\ undo' \in [Devices -> Deletion \cup {Nothing}] /\ undo'[d].mut = mut
        /\ \A e \in Devices : e # d => undo'[e] = undo[e]
    <3>1. [mut |-> mut, was |-> view[d][m]] \in Deletion
      BY <2>5, <2>6 DEF Deletion
    <3> QED
      BY <1>1, <2>4, <3>1
  <2>10. Fits(d, mut, cached)
    BY <1>1, <2>4, <2>6 DEF Fits
  <2> QED
    BY <1>1, <2>4, <2>5, <2>6, <2>7, <2>8, <2>9, <2>10 DEF Enqueues
<1>4. ASSUME NEW m \in Missions, Complete(d, m)
      PROVE  \E mut, cached : Enqueues(d, mut, cached) /\ Fits(d, mut, cached)
  <2>1. PICK mut : mut = NewMutation(d, "complete", m, Row(d, m).version)
    OBVIOUS
  <2>2. PICK cached : cached = [row |-> [Row(d, m) EXCEPT !.done = TRUE], pending |-> TRUE]
    OBVIOUS
  <2>3. /\ Len(issued[d]) < MaxIssued /\ draft[d] = Nothing /\ Row(d, m).stage = "active"
        /\ Enqueue(d, mut, cached) /\ tomb' = tomb /\ draft' = draft /\ undo' = undo
        /\ ~Row(d, m).done
    BY <1>4, <2>1, <2>2 DEF Complete, Free, uiVars
  <2>4. Row(d, m) \in MissionRow /\ Row(d, m).version \in Nat /\ Known(d, m)
    BY <2>3, ShownOf
  <2>5. /\ mut \in Mutation /\ mut.id = <<d, Len(issued[d]) + 1>> /\ mut.op = "complete"
        /\ mut.mission = m /\ mut.base = Row(d, m).version
    BY <2>1, <2>3, <2>4, NewOf
  <2>6. cached \in CachedRow
    BY <2>2, <2>4 DEF CachedRow, MissionRow
  <2>7. Fits(d, mut, cached)
    BY <2>2, <2>3, <2>5 DEF Fits
  <2> QED
    BY <1>1, <2>3, <2>4, <2>5, <2>6, <2>7 DEF Enqueues
<1>5. ASSUME SaveEdit(d)
      PROVE  \E mut, cached : Enqueues(d, mut, cached) /\ Fits(d, mut, cached)
  <2>1. PICK mut : mut = draft[d]
    OBVIOUS
  <2>2. /\ mut # Nothing /\ draft' = [draft EXCEPT ![d] = Nothing] /\ tomb' = tomb /\ undo' = undo
    BY <1>5, <2>1 DEF SaveEdit
  <2>3. /\ mut \in Mutation /\ mut.id = <<d, Len(issued[d]) + 1>> /\ Len(issued[d]) < MaxIssued
        /\ Known(d, mut.mission) /\ mut.op = "update"
    BY <1>1, <2>1, <2>2 DEF ScreenOK
  <2>4. mut.mission \in Missions /\ mut.id \in Ids /\ mut.base \in Nat
    BY <2>3 DEF Mutation
  <2>5. PICK now \in CachedRow : now = view[d][mut.mission] /\ now.row = Row(d, mut.mission)
    BY <2>4, ShownOf
  <2>6. PICK row : row = [stage |-> "active", done |-> FALSE, version |-> mut.base + 1,
                          content |-> mut.id]
    OBVIOUS
  <2>7. row \in MissionRow
    <3>1. mut.base + 1 \in Nat
      BY <2>4
    <3> QED
      BY <2>4, <2>6, <3>1 DEF MissionRow
  <2>8. PICK cached : cached = IF now.row.stage = "absent" THEN now
                               ELSE [row |-> row, pending |-> TRUE]
    OBVIOUS
  <2>9. cached \in CachedRow /\ (now.row.stage = "absent" => cached.row.stage = "absent")
    BY <2>5, <2>7, <2>8 DEF CachedRow
  <2>10. Enqueue(d, mut, cached)
    BY <1>5, <2>1, <2>5, <2>6, <2>8 DEF SaveEdit
  <2>11. /\ draft' \in [Devices -> Mutation \cup {Nothing}] /\ draft'[d] = Nothing
         /\ \A e \in Devices : e # d => draft'[e] = draft[e]
    BY <1>1, <2>2
  <2>12. Fits(d, mut, cached)
    BY <2>2, <2>3, <2>5, <2>8 DEF Fits
  <2> QED
    BY <1>1, <2>2, <2>3, <2>5, <2>9, <2>10, <2>11, <2>12 DEF Enqueues
<1> QED
  BY <1>2, <1>3, <1>4, <1>5

\* The user's steps that change only what is open.
LEMMA OpenStepsKeep ==
    ASSUME SyncInv, NEW d \in Devices, EndUndo(d) \/ \E m \in Missions : OpenEdit(d, m),
           UNCHANGED <<serverVars, call>>
    PROVE  SyncInv'
<1>1. /\ DeviceTypes /\ DeviceOK(d) /\ IssuedOK(d) /\ RunOK(d) /\ ScreenOK(d) /\ CursorOK(d)
      /\ DroppedOK(d) /\ QueueOK(d)
  BY DEF SyncInv, DeviceOK
<1>2. /\ queue' = queue /\ view' = view /\ tomb' = tomb /\ cursor' = cursor /\ run' = run
      /\ issued' = issued /\ dropped' = dropped /\ log' = log
  BY DEF EndUndo, OpenEdit, storeVars, serverVars
<1>3. Grows
  BY <1>2 DEF Grows
<1>4. /\ draft' \in [Devices -> Mutation \cup {Nothing}]
      /\ undo' \in [Devices -> Deletion \cup {Nothing}]
      /\ \A e \in Devices : e # d => draft'[e] = draft[e] /\ undo'[e] = undo[e]
      /\ undo'[d] = undo[d] \/ undo'[d] = Nothing
      /\ draft'[d] # draft[d] =>
            /\ draft'[d].id = <<d, Len(issued[d]) + 1>> /\ Len(issued[d]) < MaxIssued
            /\ draft'[d].op = "update" /\ Known(d, draft'[d].mission)
  <2>1. /\ draft \in [Devices -> Mutation \cup {Nothing}]
        /\ undo \in [Devices -> Deletion \cup {Nothing}]
    BY <1>1 DEF DeviceTypes
  <2>2. CASE EndUndo(d)
    BY <2>1, <2>2 DEF EndUndo
  <2>3. ASSUME NEW m \in Missions, OpenEdit(d, m)
        PROVE  /\ undo' = undo
               /\ \E mut \in Mutation :
                    /\ draft' = [draft EXCEPT ![d] = mut]
                    /\ mut.id = <<d, Len(issued[d]) + 1>> /\ Len(issued[d]) < MaxIssued
                    /\ mut.op = "update" /\ Known(d, mut.mission)
    <3>1. PICK base \in EditBases(d, m) :
              draft' = [draft EXCEPT ![d] = NewMutation(d, "update", m, base)]
      BY <2>3 DEF OpenEdit
    <3>2. Row(d, m).version \in Nat /\ (Row(d, m).stage # "absent" => Known(d, m))
      BY ShownOf
    <3>3. base \in Nat
      BY <3>2 DEF EditBases
    <3>4. Len(issued[d]) < MaxIssued /\ Row(d, m).stage = "active" /\ undo' = undo
      BY <2>3 DEF OpenEdit, Free
    <3>5. PICK mut : mut = NewMutation(d, "update", m, base)
      OBVIOUS
    <3>6. /\ mut \in Mutation /\ mut.id = <<d, Len(issued[d]) + 1>> /\ mut.op = "update"
          /\ mut.mission = m
      BY <3>3, <3>4, <3>5, NewOf
    <3> QED
      BY <3>1, <3>2, <3>4, <3>5, <3>6
  <2>4. CASE \E m \in Missions : OpenEdit(d, m)
    BY <2>1, <2>3, <2>4
  <2> QED
    BY <2>2, <2>4
<1>5. DeviceTypes'
  BY <1>1, <1>2, <1>4 DEF DeviceTypes
<1>6. \A e \in Devices : e # d => Unmoved(e)
  BY <1>2, <1>4 DEF Unmoved
<1>7. IssuedOK(d)' /\ DroppedOK(d)' /\ QueueOK(d)'
  BY <1>1, <1>2, <1>3, IssuedKept, DroppedKept, QueueKept
<1>8. \A m : Row(d, m)' = Row(d, m)
  BY <1>2 DEF Row
<1>9. CursorOK(d)'
  <2>1. log \in Seq(ServerProofs!Entry) /\ log' \in Seq(ServerProofs!Entry)
    BY <1>2 DEF SyncInv, ServerProofs!ServerInv, ServerProofs!Types
  <2> QED
    BY <1>1, <1>2, <1>3, <1>8, <2>1, CursorKept
<1>10. RunOK(d)'
  BY <1>1, <1>2, <1>3, <1>5, RunKept
<1>11. ScreenOK(d)'
  <2>1. \A m \in Missions : Row(d, m)'.stage # "absent" => Known(d, m)'
    BY <1>1, <1>3, <1>8, Monotone DEF ScreenOK
  <2>2. \A u : u = undo'[d] /\ u # Nothing => Made(d, u.mut)' /\ u.mut.op = "delete"
    BY <1>1, <1>3, <1>4, Monotone DEF ScreenOK
  <2>3. \A mut : mut = draft'[d] /\ mut # Nothing =>
            /\ mut.id = <<d, Len(issued[d]) + 1>> /\ Len(issued[d]) < MaxIssued
            /\ mut.op = "update" /\ Known(d, mut.mission)
    BY <1>1, <1>4 DEF ScreenOK
  <2>4. \A m : Known(d, m) => Known(d, m)'
    BY <1>3, Monotone
  <2> QED
    BY <1>2, <2>1, <2>2, <2>3, <2>4 DEF ScreenOK, Made, Known, InLog
<1> QED
  BY <1>2, <1>3, <1>5, <1>6, <1>7, <1>9, <1>10, <1>11, DeviceAlone DEF DeviceOK

\* undoCalendarMissionDeletion: the deletion that is queued under the id is the
\* one the user takes back.
LEMMA UndoKeeps ==
    ASSUME SyncInv, NEW d \in Devices, Undo(d), UNCHANGED <<serverVars, call>>
    PROVE  SyncInv'
<1>1. /\ DeviceTypes /\ DeviceOK(d) /\ IssuedOK(d) /\ RunOK(d) /\ ScreenOK(d) /\ CursorOK(d)
      /\ DroppedOK(d) /\ QueueOK(d)
  BY DEF SyncInv, DeviceOK
<1>2. PICK u : u = undo[d]
  OBVIOUS
<1>3. u # Nothing /\ Row(d, u.mut.mission).stage # "absent"
  BY <1>2 DEF Undo
<1>4. u \in Deletion /\ Made(d, u.mut) /\ u.mut.op = "delete"
  BY <1>1, <1>2, <1>3 DEF DeviceTypes, ScreenOK
<1>5. u.mut \in Mutation /\ u.was \in CachedRow
  BY <1>4 DEF Deletion
<1>6. PICK m \in Missions : m = u.mut.mission
  BY <1>5 DEF Mutation
<1>7. PICK i \in DOMAIN queue[d] :
          /\ queue[d][i].mut.id = u.mut.id
          /\ queue' = [queue EXCEPT ![d] = RemoveAt(queue[d], i)]
          /\ dropped' = [dropped EXCEPT ![d] = @ \cup {[mut |-> queue[d][i].mut, why |-> "undone"]}]
  BY <1>2 DEF Undo
<1>8. queue[d][i].mut = u.mut
  <2>1. Made(d, queue[d][i].mut)
    BY <1>1 DEF QueueOK
  <2>2. PICK k \in DOMAIN issued[d] : issued[d][k] = queue[d][i].mut
    BY <2>1 DEF Made
  <2>3. PICK l \in DOMAIN issued[d] : issued[d][l] = u.mut
    BY <1>4 DEF Made
  <2>4. issued[d][k].id = <<d, k>> /\ issued[d][l].id = <<d, l>>
    BY <1>1 DEF IssuedOK
  <2>a. queue[d][i].mut.id = <<d, k>> /\ u.mut.id = <<d, l>>
    BY <2>2, <2>3, <2>4
  <2>b. <<d, k>> = <<d, l>>
    BY <1>7, <2>a
  <2>5. k = l
    BY <2>b
  <2> QED
    BY <2>2, <2>3, <2>5
<1>9. PICK s \in Seq(Queueing) : s = queue[d]
  BY <1>1 DEF DeviceTypes
<1>10. i \in DOMAIN s
  BY <1>9
<1>11. PICK q \in Seq(Queueing) :
          /\ q = RemoveAt(s, i)
          /\ \A a \in DOMAIN q : \E k \in DOMAIN s : q[a] = s[k]
          /\ \A a, b \in DOMAIN q : a < b => \E k, l \in DOMAIN s : k < l /\ q[a] = s[k] /\ q[b] = s[l]
          /\ \A k \in DOMAIN s : k # i => \E a \in DOMAIN q : q[a] = s[k]
  <2>1. LET q == RemoveAt(s, i)
        IN  /\ q \in Seq(Queueing)
            /\ \A a \in DOMAIN q : \E k \in DOMAIN s : q[a] = s[k]
            /\ \A a, b \in DOMAIN q : a < b =>
                  \E k, l \in DOMAIN s : k < l /\ q[a] = s[k] /\ q[b] = s[l]
            /\ \A k \in DOMAIN s : k # i => \E a \in DOMAIN q : q[a] = s[k]
    BY <1>10, RemoveAtKeeps
  <2> QED
    BY <2>1, Zenon
<1>12. PICK w : w = {[mut |-> u.mut, why |-> "undone"]}
  OBVIOUS
<1>13. /\ w \in SUBSET Dropping
       /\ \A x \in w : x.mut = u.mut /\ x.why = "undone"
       /\ \E x \in w : x.mut = u.mut
  BY <1>5, <1>12 DEF Dropping
<1>14. /\ queue' \in [Devices -> Seq(Queueing)] /\ dropped' \in [Devices -> SUBSET Dropping]
       /\ \A e \in Devices : e # d => queue'[e] = queue[e] /\ dropped'[e] = dropped[e]
       /\ Grows /\ IssuedOK(d)' /\ DroppedOK(d)' /\ QueueOK(d)'
  <2>1. UNCHANGED <<issued, log>>
    BY DEF Undo, serverVars
  <2>2. queue' = [queue EXCEPT ![d] = q] /\ dropped' = [dropped EXCEPT ![d] = @ \cup w]
    BY <1>7, <1>8, <1>9, <1>11, <1>12
  <2>3. /\ \A a \in DOMAIN q : \E k \in DOMAIN queue[d] : q[a] = queue[d][k]
        /\ \A a, b \in DOMAIN q : a < b =>
              \E k, l \in DOMAIN queue[d] : k < l /\ q[a] = queue[d][k] /\ q[b] = queue[d][l]
    BY <1>9, <1>11
  <2>4. \A k \in DOMAIN queue[d] :
            \/ \E a \in DOMAIN q : q[a] = queue[d][k]
            \/ Applied(queue[d][k].mut)
            \/ \E x \in w : x.mut = queue[d][k].mut
    BY <1>8, <1>9, <1>11, <1>13
  <2>5. \A x \in w : /\ Made(d, x.mut) /\ x.mut.op # "create"
                     /\ x.why = "undone" \/ Refuted(x.mut, x.why)
    BY <1>4, <1>13
  <2> QED
    BY <1>13, <2>1, <2>2, <2>3, <2>4, <2>5, QueueShrinks
<1>15. /\ cursor' = cursor /\ run' = run /\ draft' = draft /\ issued' = issued /\ log' = log
       /\ tomb' = [tomb EXCEPT ![d] = tomb[d] \ {m}]
       /\ undo' = [undo EXCEPT ![d] = Nothing]
       /\ view' = [view EXCEPT ![d][m] = [u.was EXCEPT !.row.version = Row(d, m).version]]
  BY <1>2, <1>6 DEF Undo, serverVars
<1>16. PICK cached \in CachedRow : view' = [view EXCEPT ![d][m] = cached]
  <2>1. PICK version \in Nat : version = Row(d, m).version
    BY ShownOf
  <2>2. PICK was \in CachedRow : was = u.was
    BY <1>5
  <2>3. PICK row \in MissionRow : row = was.row
    BY DEF CachedRow
  <2>4. [row EXCEPT !.version = version] \in MissionRow
    BY DEF MissionRow
  <2>5. PICK cached : cached = [was EXCEPT !.row.version = version]
    OBVIOUS
  <2>6. cached = [was EXCEPT !.row = [row EXCEPT !.version = version]]
    BY <2>3, <2>5
  <2>7. cached \in CachedRow
    BY <2>4, <2>6 DEF CachedRow
  <2> QED
    BY <1>15, <2>1, <2>2, <2>5, <2>7
<1>17. /\ view' \in [Devices -> [Missions -> CachedRow]]
       /\ \A k \in Missions : k # m => view'[d][k] = view[d][k]
       /\ \A e \in Devices : e # d => view'[e] = view[e]
  BY <1>1, <1>16 DEF DeviceTypes
<1>18. /\ tomb' \in [Devices -> SUBSET Missions] /\ tomb'[d] = tomb[d] \ {m}
       /\ undo' \in [Devices -> Deletion \cup {Nothing}] /\ undo'[d] = Nothing
       /\ \A e \in Devices : e # d => tomb'[e] = tomb[e] /\ undo'[e] = undo[e]
  BY <1>1, <1>15 DEF DeviceTypes
<1>19. DeviceTypes'
  BY <1>1, <1>14, <1>15, <1>17, <1>18 DEF DeviceTypes, Dropping
<1>20. \A e \in Devices : e # d => Unmoved(e)
  BY <1>14, <1>15, <1>17, <1>18 DEF Unmoved
<1>21. \A k \in Missions : k # m => Row(d, k)' = Row(d, k)
  BY <1>17 DEF Row
<1>22. Row(d, m).stage # "absent"
  BY <1>3, <1>6
<1>23. ScreenOK(d)'
  <2>1. \A k \in Missions : Row(d, k)'.stage # "absent" => Row(d, k).stage # "absent"
    BY <1>21, <1>22
  <2> QED
    BY <1>1, <1>14, <1>15, <1>18, <2>1, ScreenKept
<1>24. CursorOK(d)'
  <2>1. log \in Seq(ServerProofs!Entry) /\ log' \in Seq(ServerProofs!Entry)
    BY <1>15 DEF SyncInv, ServerProofs!ServerInv, ServerProofs!Types
  <2>2. \A k \in Missions : Row(d, k).stage = "absent" /\ k \in tomb[d]
            => Row(d, k)'.stage = "absent" /\ k \in tomb'[d]
    BY <1>18, <1>21, <1>22
  <2> QED
    BY <1>1, <1>14, <1>15, <2>1, <2>2, CursorKept
<1>25. RunOK(d)'
  BY <1>1, <1>14, <1>15, <1>19, RunKept
<1> QED
  BY <1>14, <1>15, <1>19, <1>20, <1>23, <1>24, <1>25, DeviceAlone DEF DeviceOK

\* Whatever the user does keeps the invariant.
LEMMA UserKeeps ==
    ASSUME SyncInv, NEW d \in Devices, User(d)
    PROVE  SyncInv'
<1>1. UserStep(d) /\ UNCHANGED <<serverVars, call>>
  BY DEF User
<1>2. CASE SaveEdit(d) \/ \E m \in Missions : Create(d, m) \/ Delete(d, m) \/ Complete(d, m)
  <2>1. PICK mut, cached : Enqueues(d, mut, cached)
    BY <1>2, UserEnqueues
  <2> QED
    BY <1>1, <2>1, EnqueueKeeps
<1>3. CASE EndUndo(d) \/ \E m \in Missions : OpenEdit(d, m)
  BY <1>1, <1>3, OpenStepsKeep
<1>4. CASE Undo(d)
  BY <1>1, <1>4, UndoKeeps
<1> QED
  BY <1>1, <1>2, <1>3, <1>4 DEF UserStep

(***************************************************************************)
(* A device and the server.                                                *)
(***************************************************************************)
\* When a device sends, receives or hangs up, the others and their handlers
\* are as they were.
LEMMA ExchangeKeeps ==
    ASSUME SyncInv, ServerProofs!ServerInv', DeviceTypes', Grows, log' = log,
           NEW d \in Devices, DeviceOK(d)', \A e \in Devices : e # d => Unmoved(e),
           CallOK(d)', call' \in [Devices -> Handlers \cup {NoHandler}],
           \A e \in Devices : e # d =>
               /\ call'[e] = call[e]
               /\ call[e] # NoHandler =>
                     phase'[call[e]] = phase[call[e]] /\ request'[call[e]] = request[call[e]],
           \A h \in Handlers :
               \/ phase'[h] = phase[h] /\ request'[h] = request[h] /\ answer'[h] = answer[h]
               \/ phase'[h] = "free"
               \/ phase'[h] = "received" /\ \A mut : mut = request'[h] => InTurn(mut)
    PROVE  SyncInv'
<1>1. /\ \A e \in Devices : CallOK(e)
      /\ \A h \in Handlers : HandlerOK(h)
      /\ DeviceTypes
  BY DEF SyncInv
<1>2. (\A e \in Devices : DeviceOK(e)') /\ LoggedOK' /\ AppliedInOrder'
  BY DevicesKeep
<1>3. ASSUME NEW e \in Devices, e # d
      PROVE  CallOK(e)'
  <2>1. run'[e] = run[e]
    BY <1>3 DEF Unmoved
  <2>2. ToSend(e)' = ToSend(e) /\ (At(e, "waiting")' <=> At(e, "waiting"))
    BY <2>1 DEF ToSend, At
  <2> QED
    BY <1>1, <1>3, <2>2 DEF CallOK
<1>4. ASSUME NEW h \in Handlers
      PROVE  HandlerOK(h)'
  <2>1. PICK mut, a : mut = request'[h] /\ a = answer'[h]
    OBVIOUS
  <2>2. CASE phase'[h] = phase[h] /\ request'[h] = request[h] /\ answer'[h] = answer[h]
    <3>1. phase[h] # "free" => InTurn(mut)'
      BY <1>1, <2>1, <2>2, TurnStays DEF HandlerOK
    <3>2. phase[h] = "answered" /\ a # "error" => Right(mut, a)'
      BY <1>1, <2>1, <2>2, LogMonotone DEF HandlerOK, Right
    <3> QED
      BY <2>1, <2>2, <3>1, <3>2 DEF HandlerOK, InTurn, Right, Applied, Refuted, InLog
  <2>3. CASE phase'[h] = "free"
    BY <2>3 DEF HandlerOK
  <2>4. CASE phase'[h] = "received" /\ InTurn(mut)
    <3>1. InTurn(mut)'
      BY <1>1, <2>4, TurnStays
    <3> QED
      BY <2>1, <2>4, <3>1 DEF HandlerOK, InTurn
  <2> QED
    BY <2>1, <2>2, <2>3, <2>4
<1> QED
  BY <1>2, <1>3, <1>4 DEF SyncInv

\* The step of the server in it is one of the server alone.
LEMMA ServerSteps ==
    ASSUME SyncInv, ServerProofs!Next \/ UNCHANGED serverVars
    PROVE  ServerProofs!ServerInv'
<1>1. ServerProofs!ServerInv
  BY DEF SyncInv
<1>2. ServerProofs!ServerInv /\ [ServerProofs!Next]_(ServerProofs!vars) => ServerProofs!ServerInv'
  BY SameMutations, NoIdAssumption, ServerProofs!ServerNext, Zenon
<1>3. [ServerProofs!Next]_(ServerProofs!vars)
  BY DEF serverVars, ServerProofs!vars, ServerProofs!dbVars
<1> QED
  BY <1>1, <1>2, <1>3

\* What a device sends next is its own, and has its turn.
LEMMA NextHasTurn ==
    ASSUME SyncInv, NEW d \in Devices, At(d, "pushing") \/ At(d, "waiting")
    PROVE  /\ ToSend(d) \in Mutation /\ \E n : ToSend(d).id = <<d, n>>
           /\ \A mut : mut = ToSend(d) => InTurn(mut)
<1>1. PICK r \in Running :
          /\ r = run[d]
          /\ r.batch \in Seq(Mutation) /\ DOMAIN r.batch = 1 .. Len(r.batch)
          /\ Len(r.batch) \in Nat /\ r.settled \in Nat /\ r.settled <= Len(r.batch)
          /\ r.upto \in Nat /\ r.more \in BOOLEAN /\ r.at \in Phases
  BY RunShape
<1>2. DeviceTypes /\ IssuedOK(d) /\ RunOK(d)
  BY DEF SyncInv, DeviceOK
<1>3. r.settled < Len(r.batch) /\ r.conflict = "none"
  BY <1>1, <1>2 DEF RunOK, At
<1>4. PICK i \in DOMAIN r.batch : i = r.settled + 1
  <2>1. \A a, b \in Nat : a < b => a + 1 \in 1 .. b
    OBVIOUS
  <2>2. r.settled + 1 \in DOMAIN r.batch
    BY <1>1, <1>3, <2>1
  <2> QED
    BY <2>2
<1>5. PICK mut \in Mutation : mut = r.batch[i] /\ mut = ToSend(d)
  BY <1>1, <1>4 DEF ToSend
<1>6. PICK n \in DOMAIN issued[d] : issued[d][n] = mut
  BY <1>1, <1>2, <1>5 DEF RunOK, Made
<1>7. mut.id = <<d, n>>
  BY <1>2, <1>6 DEF IssuedOK
<1>8. ASSUME NEW k \in DOMAIN issued[d], k < n
      PROVE  Past(d, k)
  <2>1. Past(d, k) \/ \E j \in DOMAIN r.batch : j < i /\ r.batch[j] = issued[d][k]
    <3>1. k < r.batch[i].id[2]
      BY <1>5, <1>7, <1>8
    <3> QED
      BY <1>1, <1>2, <3>1 DEF RunOK, BatchInOrder
  <2>2. ASSUME NEW j \in DOMAIN r.batch, j < i, r.batch[j] = issued[d][k]
        PROVE  Past(d, k)
    <3>1. j \in 1 .. r.settled
      BY <1>1, <1>4, <2>2
    <3>2. Applied(r.batch[j])
      BY <1>1, <1>2, <1>3, <3>1 DEF RunOK
    <3> QED
      BY <2>2, <3>2 DEF Past
  <2> QED
    BY <2>1, <2>2
<1>9. InTurn(mut)
  BY <1>6, <1>8 DEF InTurn
<1> QED
  BY <1>5, <1>7, <1>9

\* A request goes out: it has its turn.
LEMMA SendKeeps ==
    ASSUME SyncInv, NEW d \in Devices, NEW h \in Handlers, SendTo(d, h)
    PROVE  SyncInv'
<1>1. PICK r \in Running :
          /\ r = run[d]
          /\ r.batch \in Seq(Mutation) /\ DOMAIN r.batch = 1 .. Len(r.batch)
          /\ Len(r.batch) \in Nat /\ r.settled \in Nat /\ r.settled <= Len(r.batch)
          /\ r.upto \in Nat /\ r.more \in BOOLEAN /\ r.at \in Phases
  BY RunShape
<1>2. /\ DeviceTypes /\ IssuedOK(d) /\ RunOK(d) /\ ServerProofs!ServerInv
      /\ call \in [Devices -> Handlers \cup {NoHandler}]
      /\ \A e \in Devices : CallOK(e)
  BY DEF SyncInv, DeviceOK
<1>3. /\ At(d, "pushing") /\ r.at = "pushing"
      /\ UNCHANGED <<queue, view, tomb, cursor, draft, undo, issued, dropped>>
      /\ run' = [run EXCEPT ![d] = [r EXCEPT !.at = "waiting"]]
      /\ call' = [call EXCEPT ![d] = h]
  BY <1>1 DEF SendTo, Send, Goto, At, storeVars, uiVars
<1>4. PICK mut \in Mutation : mut = ToSend(d) /\ InTurn(mut)
  BY <1>3, NextHasTurn
<1>5. ServerProofs!Submit(h, mut)
  <2>1. Server!Submit(h, mut)
    BY <1>4 DEF SendTo
  <2> QED
    BY <2>1, SameExchange
<1>6. ServerProofs!ServerInv'
  <2>1. ServerProofs!Next
    BY <1>5 DEF ServerProofs!Next
  <2> QED
    BY <2>1, ServerSteps
<1>7. /\ phase \in [Handlers -> {"free", "received", "fresh", "answered"}]
      /\ request \in [Handlers -> ServerProofs!Mutation \cup {ServerProofs!NoMutation}]
  BY <1>2 DEF ServerProofs!ServerInv, ServerProofs!Types
<1>8. /\ phase[h] = "free" /\ phase'[h] = "received" /\ request'[h] = mut
      /\ log' = log /\ answer' = answer
      /\ \A g \in Handlers : g # h => phase'[g] = phase[g] /\ request'[g] = request[g]
  BY <1>5, <1>7 DEF ServerProofs!Submit, ServerProofs!dbVars
<1>9. PICK s \in Running :
          /\ s = [r EXCEPT !.at = "waiting"] /\ run' = [run EXCEPT ![d] = s]
          /\ s.batch = r.batch /\ s.settled = r.settled /\ s.conflict = r.conflict
          /\ s.at = "waiting"
  <2>1. [r EXCEPT !.at = "waiting"] \in Running
    BY DEF Running, Phases
  <2>2. /\ [r EXCEPT !.at = "waiting"].batch = r.batch
        /\ [r EXCEPT !.at = "waiting"].settled = r.settled
        /\ [r EXCEPT !.at = "waiting"].conflict = r.conflict
        /\ [r EXCEPT !.at = "waiting"].at = "waiting"
    BY DEF Running
  <2> QED
    BY <1>3, <2>1, <2>2
<1>10. /\ DeviceTypes' /\ Grows /\ run'[d] = s
       /\ \A e \in Devices : e # d => Unmoved(e)
       /\ IssuedOK(d)' /\ DroppedOK(d)' /\ QueueOK(d)' /\ ScreenOK(d)' /\ CursorOK(d)'
  <2>1. /\ queue' \in [Devices -> Seq(Queueing)] /\ \A e \in Devices : e # d => queue'[e] = queue[e]
        /\ queue'[d] = queue[d]
    BY <1>3, <1>8, OnlyRun
  <2>2. s.at # "applying" /\ run' = [run EXCEPT ![d] = s]
    BY <1>9
  <2> QED
    BY <1>3, <1>8, <2>1, <2>2, RunMoves
<1>11. RunOK(d)'
  <2>1. r.settled < Len(r.batch) /\ r.conflict = "none"
    BY <1>1, <1>2, <1>3 DEF RunOK
  <2> QED
    BY <1>1, <1>2, <1>9, <1>10, <2>1, RunGoes
<1>12. /\ call'[d] = h /\ \A e \in Devices : e # d => call'[e] = call[e]
       /\ call' \in [Devices -> Handlers \cup {NoHandler}]
  BY <1>2, <1>3
<1>13. CallOK(d)'
  <2>1. ToSend(d)' = mut
    BY <1>1, <1>4, <1>9, <1>10 DEF ToSend
  <2>2. At(d, "waiting")'
    BY <1>9, <1>10 DEF At
  <2> QED
    BY <1>8, <1>12, <2>1, <2>2, NoHandlerAssumption DEF CallOK
<1>14. ASSUME NEW e \in Devices, e # d
       PROVE  /\ call'[e] = call[e]
              /\ call[e] # NoHandler =>
                    phase'[call[e]] = phase[call[e]] /\ request'[call[e]] = request[call[e]]
  <2>1. call[e] # NoHandler => call[e] \in Handlers /\ call[e] # h
    BY <1>2, <1>8 DEF CallOK
  <2> QED
    BY <1>8, <1>12, <1>14, <2>1
<1>15. ASSUME NEW g \in Handlers
       PROVE  \/ phase'[g] = phase[g] /\ request'[g] = request[g] /\ answer'[g] = answer[g]
              \/ phase'[g] = "free"
              \/ phase'[g] = "received" /\ \A x : x = request'[g] => InTurn(x)
  BY <1>4, <1>8
<1>16. DeviceOK(d)'
  BY <1>10, <1>11 DEF DeviceOK
<1> QED
  BY <1>6, <1>8, <1>10, <1>12, <1>13, <1>14, <1>15, <1>16, ExchangeKeeps

\* How a run goes on after an answer: it fails, or one more mutation of its
\* batch is settled, in the log or refused with reason.
Proceeds(d, mut, a, s) ==
    /\ run' = [run EXCEPT ![d] = s] /\ s.batch = run[d].batch
    /\ \/ s.settled = run[d].settled /\ s.conflict = "none" /\ s.at = "failing"
       \/ /\ s.settled = run[d].settled + 1 /\ s.conflict = "none" /\ Applied(mut)
          /\ s.at = "settling" \/ (s.at = "pushing" /\ s.settled < Len(s.batch))
       \/ /\ s.settled = run[d].settled + 1 /\ s.conflict = a /\ a \in Refusals
          /\ s.at = "unmarking" /\ Refuted(mut, a)

\* An answer that is right makes it go on so.
LEMMA ReceiveProceeds ==
    ASSUME SyncInv, NEW d \in Devices, NEW a, Receive(d, a), NEW mut,
           a = "error" \/ Right(mut, a)
    PROVE  \E s \in Running : Proceeds(d, mut, a, s)
<1>1. PICK r \in Running :
          /\ r = run[d]
          /\ r.batch \in Seq(Mutation) /\ DOMAIN r.batch = 1 .. Len(r.batch)
          /\ Len(r.batch) \in Nat /\ r.settled \in Nat /\ r.settled <= Len(r.batch)
          /\ r.upto \in Nat /\ r.more \in BOOLEAN /\ r.at \in Phases
  BY RunShape
<1>2. RunOK(d) /\ DeviceTypes
  BY DEF SyncInv, DeviceOK
<1>3. r.settled < Len(r.batch) /\ r.conflict = "none" /\ At(d, "waiting")
  BY <1>1, <1>2 DEF RunOK, Receive, At
<1>4. PICK n \in Nat : n = r.settled + 1 /\ n <= Len(r.batch)
  BY <1>1, <1>3
<1>5. run' = [run EXCEPT ![d] =
                IF a = "error" THEN [r EXCEPT !.at = "failing"]
                ELSE IF a # "accepted"
                THEN [r EXCEPT !.at = "unmarking", !.settled = n, !.conflict = a]
                ELSE [r EXCEPT !.at = IF n = Len(r.batch) THEN "settling" ELSE "pushing",
                               !.settled = n]]
  BY <1>1, <1>4 DEF Receive
<1>6. CASE a = "error"
  <2>1. PICK s \in Running : s = [r EXCEPT !.at = "failing"]
    BY DEF Running, Phases
  <2>2. s.batch = r.batch /\ s.settled = r.settled /\ s.conflict = "none" /\ s.at = "failing"
    BY <1>3, <2>1 DEF Running
  <2>3. run' = [run EXCEPT ![d] = s]
    BY <1>5, <1>6, <2>1
  <2> QED
    BY <1>1, <2>2, <2>3 DEF Proceeds
<1>7. CASE a = "accepted"
  <2>1. PICK at \in {"settling", "pushing"} :
            at = IF n = Len(r.batch) THEN "settling" ELSE "pushing"
    OBVIOUS
  <2>2. PICK s \in Running : s = [r EXCEPT !.at = at, !.settled = n]
    BY <2>1 DEF Running, Phases
  <2>3. s.batch = r.batch /\ s.settled = n /\ s.conflict = "none" /\ s.at = at
    BY <1>3, <2>2 DEF Running
  <2>4. run' = [run EXCEPT ![d] = s]
    BY <1>5, <1>7, <2>1, <2>2
  <2>5. at = "settling" \/ (at = "pushing" /\ n < Len(r.batch))
    BY <1>1, <1>4, <2>1
  <2>6. Applied(mut)
    BY <1>7 DEF Right
  <2> QED
    BY <1>1, <1>4, <2>3, <2>4, <2>5, <2>6 DEF Proceeds
<1>8. CASE a # "error" /\ a # "accepted"
  <2>1. Refuted(mut, a) /\ a \in Refusals
    BY <1>8 DEF Right, Refuted, Refusals
  <2>2. PICK s \in Running : s = [r EXCEPT !.at = "unmarking", !.settled = n, !.conflict = a]
    BY <2>1 DEF Running, Phases
  <2>3. s.batch = r.batch /\ s.settled = n /\ s.conflict = a /\ s.at = "unmarking"
    BY <2>2 DEF Running
  <2>4. run' = [run EXCEPT ![d] = s]
    BY <1>5, <1>8, <2>2
  <2> QED
    BY <1>1, <1>4, <2>1, <2>3, <2>4 DEF Proceeds
<1> QED
  BY <1>6, <1>7, <1>8

\* Such a run is right.
LEMMA ProceedsIsOK ==
    ASSUME SyncInv, NEW d \in Devices, At(d, "waiting"), NEW mut, mut = ToSend(d), NEW a,
           NEW s \in Running, Proceeds(d, mut, a, s), Grows, DeviceTypes', run'[d] = s,
           issued' = issued
    PROVE  RunOK(d)'
<1>1. PICK r \in Running :
          /\ r = run[d]
          /\ r.batch \in Seq(Mutation) /\ DOMAIN r.batch = 1 .. Len(r.batch)
          /\ Len(r.batch) \in Nat /\ r.settled \in Nat /\ r.settled <= Len(r.batch)
          /\ r.upto \in Nat /\ r.more \in BOOLEAN /\ r.at \in Phases
  BY RunShape
<1>2. RunOK(d) /\ IssuedOK(d) /\ DeviceTypes
  BY DEF SyncInv, DeviceOK
<1>3. r.settled < Len(r.batch) /\ r.conflict = "none"
  BY <1>1, <1>2 DEF RunOK, At
<1>4. s.batch = r.batch
  BY <1>1 DEF Proceeds
<1>5. CASE s.settled = r.settled /\ s.conflict = "none" /\ s.at = "failing"
  BY <1>1, <1>2, <1>3, <1>4, <1>5, RunGoes
<1>6. CASE /\ s.settled = r.settled + 1
           /\ \/ /\ s.conflict = "none" /\ Applied(mut)
                 /\ s.at = "settling" \/ (s.at = "pushing" /\ s.settled < Len(s.batch))
              \/ s.conflict # "none" /\ s.at = "unmarking" /\ Refuted(mut, s.conflict)
  <2>1. mut = r.batch[r.settled + 1]
    BY <1>1 DEF ToSend
  <2>2. \A i \in DOMAIN r.batch : \A x : x = r.batch[i] => Made(d, x)'
    BY <1>1, <1>2, Monotone DEF RunOK
  <2>3. BatchInOrder(d)'
    <3>1. ASSUME NEW i \in DOMAIN r.batch, NEW n \in DOMAIN issued[d], n < r.batch[i].id[2]
          PROVE  Past(d, n)' \/ \E j \in DOMAIN r.batch : j < i /\ r.batch[j] = issued[d][n]
      BY <1>1, <1>2, <3>1, Monotone DEF RunOK, BatchInOrder
    <3> QED
      BY <1>4, <3>1 DEF BatchInOrder
  <2>4. ASSUME NEW i \in 1 .. r.settled + 1, NEW x, x = r.batch[i]
        PROVE  Applied(x)' \/ (i = r.settled + 1 /\ s.conflict # "none")
    <3>1. CASE i = r.settled + 1
      <4>1. s.conflict = "none" => Applied(mut)
        BY <1>6
      <4> QED
        BY <2>1, <2>4, <3>1, <4>1, Monotone
    <3>2. CASE i # r.settled + 1
      <4>1. i \in 1 .. r.settled
        BY <1>1, <3>2
      <4>2. Applied(x)
        BY <1>1, <1>2, <1>3, <2>4, <4>1 DEF RunOK
      <4> QED
        BY <4>2, Monotone
    <3> QED
      BY <3>1, <3>2
  <2>5. s.conflict # "none" =>
            \A x, why : x = mut /\ why = s.conflict => Refuted(x, why)'
    BY <1>6, Monotone
  <2>6. Refused(d)' = mut
    <3>1. Refused(d)' = s.batch[s.settled]
      BY DEF Refused
    <3> QED
      BY <1>4, <1>6, <2>1, <3>1
  <2>7. s.settled <= Len(s.batch) /\ s.settled > 0
    BY <1>1, <1>3, <1>4, <1>6
  <2> QED
    <3>1. \A i \in 1 .. s.settled : Applied(s.batch[i])' \/ (i = s.settled /\ s.conflict # "none")
      BY <1>4, <1>6, <2>4 DEF Applied
    <3>2. s.conflict # "none" => s.settled > 0 /\ Refuted(Refused(d), s.conflict)'
      BY <2>5, <2>6, <2>7 DEF Refuted
    <3> QED
      BY <1>4, <1>6, <2>2, <2>3, <2>7, <3>1, <3>2 DEF RunOK, Made, Applied
<1>7. a \in Refusals => a # "none"
  BY DEF Refusals
<1> QED
  BY <1>1, <1>3, <1>5, <1>6, <1>7 DEF Proceeds

\* The answer the device waits for is right, and of the mutation it sent.
LEMMA AnswerIsRight ==
    ASSUME SyncInv, NEW d \in Devices, call[d] # NoHandler
    PROVE  /\ call[d] \in Handlers /\ At(d, "waiting")
           /\ \A mut, a : /\ mut = ToSend(d) /\ a = answer[call[d]]
                          /\ phase[call[d]] = "answered"
                          => a = "error" \/ Right(mut, a)
           /\ \A e \in Devices : e # d /\ call[e] # NoHandler => call[e] # call[d]
<1>1. /\ call \in [Devices -> Handlers \cup {NoHandler}]
      /\ \A e \in Devices : CallOK(e)
      /\ \A h \in Handlers : HandlerOK(h)
  BY DEF SyncInv
<1>2. call[d] \in Handlers /\ At(d, "waiting") /\ request[call[d]] = ToSend(d)
  BY <1>1 DEF CallOK
<1>3. \A mut, a : mut = ToSend(d) /\ a = answer[call[d]] /\ phase[call[d]] = "answered"
          => a = "error" \/ Right(mut, a)
  <2> TAKE mut, a
  <2> HAVE mut = ToSend(d) /\ a = answer[call[d]] /\ phase[call[d]] = "answered"
  <2> QED
    BY <1>1, <1>2 DEF HandlerOK, Right
<1>4. ASSUME NEW e \in Devices, e # d, call[e] # NoHandler, call[e] = call[d]
      PROVE  FALSE
  <2>1. At(e, "waiting") /\ request[call[e]] = ToSend(e)
    BY <1>1, <1>4 DEF CallOK
  <2>2. PICK n : ToSend(d).id = <<d, n>>
    BY <1>2, NextHasTurn
  <2>3. PICK l : ToSend(e).id = <<e, l>>
    BY <2>1, NextHasTurn
  <2>4. <<d, n>> = <<e, l>>
    BY <1>2, <1>4, <2>1, <2>2, <2>3
  <2> QED
    BY <1>4, <2>4
<1> QED
  BY <1>2, <1>3, <1>4

\* The device reads its answer.
LEMMA ReceiveKeeps ==
    ASSUME SyncInv, NEW d \in Devices, ReceiveFrom(d)
    PROVE  SyncInv'
<1>1. /\ DeviceTypes /\ ServerProofs!ServerInv
      /\ call \in [Devices -> Handlers \cup {NoHandler}]
      /\ \A e \in Devices : CallOK(e)
  BY DEF SyncInv
<1>2. PICK h \in Handlers : h = call[d]
  BY AnswerIsRight DEF ReceiveFrom
<1>3. PICK mut, a : mut = ToSend(d) /\ a = answer[h]
  OBVIOUS
<1>4. /\ phase[h] = "answered" /\ Receive(d, a) /\ At(d, "waiting")
      /\ call' = [call EXCEPT ![d] = NoHandler]
      /\ UNCHANGED <<queue, view, tomb, cursor, draft, undo, issued, dropped>>
  BY <1>2, <1>3 DEF ReceiveFrom, Receive, storeVars, uiVars
<1>5. a = "error" \/ Right(mut, a)
  <2>1. call[d] # NoHandler
    BY DEF ReceiveFrom
  <2> QED
    BY <1>2, <1>3, <1>4, <2>1, AnswerIsRight
<1>6. PICK s \in Running : Proceeds(d, mut, a, s)
  BY <1>4, <1>5, ReceiveProceeds
<1>7. ServerProofs!Release(h)
  <2>1. Server!Release(h)
    BY <1>2 DEF ReceiveFrom
  <2> QED
    BY <2>1, SameExchange
<1>8. ServerProofs!ServerInv'
  <2>1. ServerProofs!Next
    BY <1>7 DEF ServerProofs!Next
  <2> QED
    BY <2>1, ServerSteps
<1>9. /\ phase \in [Handlers -> {"free", "received", "fresh", "answered"}]
      /\ request \in [Handlers -> ServerProofs!Mutation \cup {ServerProofs!NoMutation}]
  BY <1>1 DEF ServerProofs!ServerInv, ServerProofs!Types
<1>10. /\ phase'[h] = "free" /\ log' = log /\ answer' = answer
       /\ \A g \in Handlers : g # h => phase'[g] = phase[g] /\ request'[g] = request[g]
  BY <1>7, <1>9 DEF ServerProofs!Release, ServerProofs!dbVars
<1>11. run' = [run EXCEPT ![d] = s] /\ s.at # "applying" /\ s.at # "waiting"
  BY <1>6 DEF Proceeds
<1>12. /\ DeviceTypes' /\ Grows /\ run'[d] = s
       /\ \A e \in Devices : e # d => Unmoved(e)
       /\ IssuedOK(d)' /\ DroppedOK(d)' /\ QueueOK(d)' /\ ScreenOK(d)' /\ CursorOK(d)'
  <2>1. /\ queue' \in [Devices -> Seq(Queueing)] /\ \A e \in Devices : e # d => queue'[e] = queue[e]
        /\ queue'[d] = queue[d]
    BY <1>4, <1>10, OnlyRun
  <2> QED
    BY <1>4, <1>10, <1>11, <2>1, RunMoves
<1>13. RunOK(d)'
  BY <1>3, <1>4, <1>6, <1>12, ProceedsIsOK
<1>14. /\ call'[d] = NoHandler /\ \A e \in Devices : e # d => call'[e] = call[e]
       /\ call' \in [Devices -> Handlers \cup {NoHandler}]
  BY <1>1, <1>4
<1>15. CallOK(d)'
  BY <1>11, <1>12, <1>14 DEF CallOK, At
<1>16. ASSUME NEW e \in Devices, e # d
       PROVE  /\ call'[e] = call[e]
              /\ call[e] # NoHandler =>
                    phase'[call[e]] = phase[call[e]] /\ request'[call[e]] = request[call[e]]
  <2>1. call[e] # NoHandler => call[e] \in Handlers /\ call[e] # h
    BY <1>1, <1>2, <1>16, AnswerIsRight DEF ReceiveFrom
  <2> QED
    BY <1>10, <1>14, <1>16, <2>1
<1>17. \A g \in Handlers :
          \/ phase'[g] = phase[g] /\ request'[g] = request[g] /\ answer'[g] = answer[g]
          \/ phase'[g] = "free"
  BY <1>10
<1>18. DeviceOK(d)'
  BY <1>12, <1>13 DEF DeviceOK
<1> QED
  BY <1>8, <1>10, <1>12, <1>14, <1>15, <1>16, <1>17, <1>18, ExchangeKeeps

\* When a device hangs up, no handler changes.
LEMMA HangUpKeeps ==
    ASSUME SyncInv, NEW d \in Devices, UNCHANGED serverVars, DeviceTypes', Grows,
           DeviceOK(d)', \A e \in Devices : e # d => Unmoved(e), ~At(d, "waiting")',
           call' = [call EXCEPT ![d] = NoHandler]
    PROVE  SyncInv'
<1>1. ServerProofs!ServerInv'
  BY ServerSteps
<1>2. call \in [Devices -> Handlers \cup {NoHandler}]
  BY DEF SyncInv
<1>3. log' = log /\ phase' = phase /\ request' = request /\ answer' = answer
  BY DEF serverVars
<1>4. /\ call'[d] = NoHandler /\ \A e \in Devices : e # d => call'[e] = call[e]
      /\ call' \in [Devices -> Handlers \cup {NoHandler}]
  BY <1>2
<1>5. CallOK(d)'
  BY <1>4 DEF CallOK
<1>6. \A h \in Handlers :
          phase'[h] = phase[h] /\ request'[h] = request[h] /\ answer'[h] = answer[h]
  BY <1>3
<1> QED
  BY <1>1, <1>3, <1>4, <1>5, <1>6, ExchangeKeeps

\* The answer is lost on the way, or does not come in time.
LEMMA GiveUpKeeps ==
    ASSUME SyncInv, NEW d \in Devices, GiveUp(d)
    PROVE  SyncInv'
<1>1. PICK r \in Running :
          /\ r = run[d]
          /\ r.batch \in Seq(Mutation) /\ DOMAIN r.batch = 1 .. Len(r.batch)
          /\ Len(r.batch) \in Nat /\ r.settled \in Nat /\ r.settled <= Len(r.batch)
          /\ r.upto \in Nat /\ r.more \in BOOLEAN /\ r.at \in Phases
  BY RunShape
<1>2. DeviceTypes /\ IssuedOK(d) /\ RunOK(d)
  BY DEF SyncInv, DeviceOK
<1>3. /\ run' = [run EXCEPT ![d] = [r EXCEPT !.at = "failing"]]
      /\ UNCHANGED <<queue, view, tomb, cursor, draft, undo, issued, dropped>>
      /\ call' = [call EXCEPT ![d] = NoHandler]
  BY <1>1 DEF GiveUp, LoseAnswer, Goto, storeVars, uiVars
<1>4. UNCHANGED serverVars /\ log' = log
  BY DEF GiveUp, serverVars
<1>5. PICK s \in Running : s = [r EXCEPT !.at = "failing"]
  BY DEF Running, Phases
<1>6. /\ s.batch = r.batch /\ s.settled = r.settled /\ s.conflict = r.conflict
      /\ s.at = "failing" /\ run' = [run EXCEPT ![d] = s]
  BY <1>3, <1>5 DEF Running
<1>7. /\ DeviceTypes' /\ Grows /\ run'[d] = s
      /\ \A e \in Devices : e # d => Unmoved(e)
      /\ IssuedOK(d)' /\ DroppedOK(d)' /\ QueueOK(d)' /\ ScreenOK(d)' /\ CursorOK(d)'
  <2>1. /\ queue' \in [Devices -> Seq(Queueing)] /\ \A e \in Devices : e # d => queue'[e] = queue[e]
        /\ queue'[d] = queue[d]
    BY <1>3, <1>4, OnlyRun
  <2> QED
    BY <1>3, <1>4, <1>6, <2>1, RunMoves
<1>8. RunOK(d)'
  BY <1>1, <1>2, <1>6, <1>7, RunGoes
<1>9. DeviceOK(d)' /\ ~At(d, "waiting")'
  BY <1>6, <1>7, <1>8 DEF DeviceOK, At
<1> QED
  BY <1>3, <1>4, <1>7, <1>9, HangUpKeeps

\* The app is killed: the run is over, and so is what was open.
LEMMA CrashKeeps ==
    ASSUME SyncInv, NEW d \in Devices, Crashes(d)
    PROVE  SyncInv'
<1>1. DeviceTypes /\ DeviceOK(d)
  BY DEF SyncInv
<1>2. /\ run' = [run EXCEPT ![d] = NoRun]
      /\ draft' = [draft EXCEPT ![d] = Nothing] /\ undo' = [undo EXCEPT ![d] = Nothing]
      /\ UNCHANGED <<queue, view, tomb, cursor, issued, dropped>>
      /\ call' = [call EXCEPT ![d] = NoHandler]
  BY DEF Crashes, Crash, storeVars
<1>3. UNCHANGED serverVars /\ log' = log
  BY DEF Crashes, serverVars
<1>4. NoRun \in Running /\ NoRun.at = "idle"
  BY NoRunIsRunning DEF NoRun
<1>5. DeviceTypes'
  BY <1>1, <1>2, <1>4 DEF DeviceTypes
<1>6. /\ run'[d] = NoRun /\ draft'[d] = Nothing /\ undo'[d] = Nothing
      /\ \A e \in Devices : e # d => Unmoved(e)
  BY <1>1, <1>2 DEF DeviceTypes, Unmoved
<1>7. Grows
  BY <1>2, <1>3 DEF Grows
<1>8. IssuedOK(d)' /\ DroppedOK(d)' /\ QueueOK(d)'
  BY <1>1, <1>2, <1>7, IssuedKept, DroppedKept, QueueKept DEF DeviceOK
<1>9. \A m \in Missions : Row(d, m)' = Row(d, m)
  BY <1>2 DEF Row
<1>10. ScreenOK(d)'
  BY <1>1, <1>2, <1>6, <1>7, <1>9, ScreenKept DEF DeviceOK
<1>11. CursorOK(d)'
  <2>1. log \in Seq(ServerProofs!Entry) /\ log' \in Seq(ServerProofs!Entry)
    BY <1>3, RowsOfLog
  <2>2. run'[d].at # "applying" /\ cursor'[d] = cursor[d] /\ tomb'[d] = tomb[d]
    BY <1>2, <1>4, <1>6
  <2> QED
    BY <1>1, <1>7, <1>9, <2>1, <2>2, CursorKept DEF DeviceOK
<1>12. RunOK(d)'
  BY <1>6, RunEnds
<1>13. DeviceOK(d)' /\ ~At(d, "waiting")'
  BY <1>4, <1>6, <1>8, <1>10, <1>11, <1>12 DEF DeviceOK, At
<1> QED
  BY <1>2, <1>3, <1>5, <1>6, <1>7, <1>13, HangUpKeeps

\* An idempotency key expires.
LEMMA ExpiryKeeps ==
    ASSUME SyncInv, KeyExpires
    PROVE  SyncInv'
<1>1. PICK k \in keys : Server!ExpireKey(k)
  BY DEF KeyExpires
<1>2. UNCHANGED <<mission, recorded, log, phase, request, answer>>
  BY <1>1 DEF Server!ExpireKey
<1>3. ServerProofs!ExpireKey(k)
  BY <1>1 DEF Server!ExpireKey, ServerProofs!ExpireKey
<1>4. ServerProofs!ServerInv'
  <2>1. ServerProofs!Next
    BY <1>3 DEF ServerProofs!Next
  <2> QED
    BY <2>1, ServerSteps
<1>5. UNCHANGED <<deviceVars, call>>
  BY DEF KeyExpires
<1> QED
  BY <1>2, <1>4, <1>5, StillKept

(***************************************************************************)
(* The start.                                                              *)
(***************************************************************************)
\* The log starts with the creations of the seeded missions, each once.
LEMMA SeedsOf ==
    ASSUME Init
    PROVE  /\ log \in Seq(ServerProofs!Entry) /\ Len(log) = Cardinality(Seeded)
           /\ \A i \in DOMAIN log : \E m \in Seeded : log[i] = SeedEntry(m)
           /\ \A m \in Seeded : \E i \in DOMAIN log : log[i] = SeedEntry(m)
           /\ \A i, j \in DOMAIN log : log[i].by.mission = log[j].by.mission => i = j
<1> DEFINE n == Cardinality(Seeded)
           s == SetToSeq(Seeded)
<1>1. Seeded \subseteq Missions /\ IsFiniteSet(Seeded)
  BY SeededAssumption
<1>2. n \in Nat /\ ExistsBijection(1 .. n, Seeded)
  BY <1>1, FS_CardinalityType
<1>3. \E f \in [1 .. n -> Seeded] : IsInjective(f)
  BY <1>2 DEF ExistsBijection, Bijection, Injection
<1>4. s \in [1 .. n -> Seeded] /\ IsInjective(s)
  BY <1>3 DEF SetToSeq
<1>5. s \in Surjection(1 .. n, Seeded)
  <2>1. s \in Injection(1 .. n, Seeded)
    BY <1>4 DEF Injection
  <2>2. Cardinality(1 .. n) = n
    BY <1>2, FS_Interval
  <2> QED
    BY <1>1, <2>1, <2>2, FS_Injection
<1>6. /\ \A i \in 1 .. n : s[i] \in Seeded
      /\ \A m \in Seeded : \E i \in 1 .. n : s[i] = m
      /\ \A i, j \in 1 .. n : s[i] = s[j] => i = j
  BY <1>4, <1>5 DEF Surjection, IsInjective
<1>7. log = [i \in 1 .. n |-> SeedEntry(s[i])]
  BY DEF Init
<1> HIDE DEF n, s
<1>8. \A m \in Seeded : SeedEntry(m) \in ServerProofs!Entry /\ SeedEntry(m).by.mission = m
  <2> TAKE m \in Seeded
  <2>1. m \in Missions /\ m \in Ids
    BY <1>1, IdsAssumption
  <2> QED
    BY <2>1 DEF SeedEntry, SeedRow, ServerProofs!Entry, ServerProofs!Mutation,
                ServerProofs!MissionRow
<1>9. \A i \in 1 .. n : log[i] = SeedEntry(s[i]) /\ log[i].by.mission = s[i]
  BY <1>6, <1>7, <1>8
<1>10. log \in Seq(ServerProofs!Entry)
  BY <1>2, <1>6, <1>7, <1>8, IsASeq
<1>11. Len(log) = n /\ DOMAIN log = 1 .. n
  BY <1>2, <1>7, <1>10
<1>12. Len(log) = Cardinality(Seeded)
  BY <1>11 DEF n
<1> QED
  BY <1>6, <1>9, <1>10, <1>11, <1>12

\* The server starts as it may.
LEMMA ServerStarts == Init => ServerProofs!ServerInv
<1> SUFFICES ASSUME Init
             PROVE  ServerProofs!ServerInv
  OBVIOUS
<1> USE DEF ServerProofs!NoRow, NoRow
<1>1. /\ log \in Seq(ServerProofs!Entry)
      /\ \A i \in DOMAIN log : \E m \in Seeded : log[i] = SeedEntry(m)
      /\ \A m \in Seeded : \E i \in DOMAIN log : log[i] = SeedEntry(m)
      /\ \A i, j \in DOMAIN log : log[i].by.mission = log[j].by.mission => i = j
  BY SeedsOf
<1>2. /\ mission = [m \in Missions |-> IF m \in Seeded THEN SeedRow(m) ELSE NoRow]
      /\ recorded = {SeedEntry(m).by : m \in Seeded} /\ keys = {}
      /\ phase = [h \in Handlers |-> "free"] /\ request = [h \in Handlers |-> Server!NoMutation]
      /\ answer = [h \in Handlers |-> "error"]
  BY DEF Init
<1>3. \A m : /\ SeedEntry(m).by.mission = m /\ SeedEntry(m).by.op = "create"
             /\ SeedEntry(m).row = SeedRow(m)
             /\ SeedRow(m).stage = "active" /\ ~SeedRow(m).done
  BY DEF SeedEntry, SeedRow
<1>4. \A m \in Seeded : m \in Missions /\ m \in Ids
  BY SeededAssumption, IdsAssumption
<1>5. \A m \in Seeded : SeedEntry(m).by \in ServerProofs!Mutation /\ SeedRow(m) \in ServerProofs!MissionRow
  BY <1>4 DEF SeedEntry, SeedRow, ServerProofs!Mutation, ServerProofs!MissionRow
<1>6. ServerProofs!NoRow \in ServerProofs!MissionRow
  BY DEF ServerProofs!MissionRow
<1>7. ServerProofs!Types
  <2>1. mission \in [Missions -> ServerProofs!MissionRow]
    BY <1>2, <1>5, <1>6
  <2>2. recorded \subseteq ServerProofs!Mutation /\ keys \subseteq ServerProofs!StoredKey
    BY <1>2, <1>5
  <2>3. request \in [Handlers -> ServerProofs!Mutation \cup {ServerProofs!NoMutation}]
    BY <1>2 DEF Server!NoMutation, ServerProofs!NoMutation
  <2>4. /\ phase \in [Handlers -> {"free", "received", "fresh", "answered"}]
        /\ answer \in [Handlers -> ServerProofs!Answer]
    BY <1>2 DEF ServerProofs!Answer
  <2> QED
    BY <1>1, <2>1, <2>2, <2>3, <2>4 DEF ServerProofs!Types
<1>8. ServerProofs!Serving
  BY <1>2 DEF ServerProofs!Serving
<1>9. \A i \in DOMAIN log : \E m \in Seeded :
          /\ log[i].by.mission = m /\ log[i].by.op = "create" /\ log[i].by = SeedEntry(m).by
          /\ log[i].row = SeedRow(m) /\ log[i].row.stage = "active"
  BY <1>1, <1>3
<1>10. ASSUME NEW m \in Missions
       PROVE  /\ mission[m] = ServerProofs!Ledger!RowOf(m)
              /\ (\E i \in DOMAIN log : log[i].by.mission = m) => ServerProofs!LastOf(m)
  <2>1. CASE m \in Seeded
    <3>1. PICK i \in DOMAIN log : log[i] = SeedEntry(m)
      BY <1>1, <2>1
    <3>2. log[i].by.mission = m /\ log[i].row = SeedRow(m)
      BY <1>3, <3>1
    <3>3. ServerProofs!Ledger!IsLast(i, m)
      BY <1>1, <3>2 DEF ServerProofs!Ledger!IsLast
    <3>4. ServerProofs!Ledger!RowOf(m) = SeedRow(m)
      <4>1. \A j \in DOMAIN log : ServerProofs!Ledger!IsLast(j, m) => j = i
        BY <1>1, <3>2 DEF ServerProofs!Ledger!IsLast
      <4>2. i = CHOOSE j \in DOMAIN log : ServerProofs!Ledger!IsLast(j, m)
        BY <3>3, <4>1
      <4> QED
        BY <3>2, <4>2 DEF ServerProofs!Ledger!RowOf
    <3> QED
      BY <1>2, <2>1, <3>3, <3>4 DEF ServerProofs!LastOf
  <2>2. CASE m \notin Seeded
    <3>1. ~\E i \in DOMAIN log : log[i].by.mission = m
      BY <1>9, <2>2
    <3> QED
      BY <1>2, <2>2, <3>1 DEF ServerProofs!Ledger!RowOf, ServerProofs!Ledger!NoRow
  <2> QED
    BY <2>1, <2>2
<1>11. ServerProofs!LogOK
  <2>1. ServerProofs!LogIsAuthoritative
    BY <1>10 DEF ServerProofs!LogIsAuthoritative
  <2>2. \A i \in DOMAIN log : log[i].row.stage # "absent"
    BY <1>9
  <2> QED
    BY <1>10, <2>1, <2>2 DEF ServerProofs!LogOK
<1>12. ServerProofs!RowsOK
  <2> SUFFICES ASSUME NEW m \in Missions
               PROVE  /\ mission[m].stage = "absent" => mission[m] = ServerProofs!NoRow
                      /\ mission[m].stage = "deleted" => ServerProofs!InLog("delete", m)
                      /\ mission[m].done <=> ServerProofs!InLog("complete", m)
    BY DEF ServerProofs!RowsOK
  <2>1. ~ServerProofs!InLog("complete", m)
    BY <1>9 DEF ServerProofs!InLog
  <2>2. CASE m \in Seeded
    BY <1>2, <1>3, <2>1, <2>2
  <2>3. CASE m \notin Seeded
    BY <1>2, <2>1, <2>3
  <2> QED
    BY <2>2, <2>3
<1>13. ServerProofs!RecordedOK /\ ServerProofs!KeysOK
  <2>1. \A r \in recorded : r.op # "complete" /\ \E i \in DOMAIN log : log[i].by = r
    BY <1>1, <1>2, <1>3
  <2>2. \A i \in DOMAIN log : log[i].by \in recorded
    BY <1>2, <1>9
  <2> QED
    BY <1>2, <2>1, <2>2 DEF ServerProofs!RecordedOK, ServerProofs!KeysOK
<1>14. ServerProofs!AppliedOnce
  BY <1>1 DEF ServerProofs!AppliedOnce
<1>15. ServerProofs!NoLostUpdate
  <2>1. \A i, j \in DOMAIN log : i < j => log[i].by.mission # log[j].by.mission
    <3> TAKE i, j \in DOMAIN log
    <3> HAVE i < j
    <3>1. i \in Nat /\ j \in Nat
      BY <1>1
    <3>2. i # j
      BY <3>1
    <3> QED
      BY <1>1, <3>2
  <2> QED
    BY <2>1 DEF ServerProofs!NoLostUpdate
<1> QED
  BY <1>7, <1>8, <1>11, <1>12, <1>13, <1>14, <1>15 DEF ServerProofs!ServerInv

\* So do the devices.
LEMMA SyncStarts == Init => SyncInv
<1> SUFFICES ASSUME Init
             PROVE  SyncInv
  OBVIOUS
<1>1. ServerProofs!ServerInv
  BY ServerStarts
<1>2. /\ log \in Seq(ServerProofs!Entry) /\ Len(log) = Cardinality(Seeded)
      /\ \A i \in DOMAIN log : \E m \in Seeded : log[i] = SeedEntry(m)
      /\ \A m \in Seeded : \E i \in DOMAIN log : log[i] = SeedEntry(m)
  BY SeedsOf
<1>3. Len(log) \in Nat /\ DOMAIN log = 1 .. Len(log)
  BY <1>2
<1>4. /\ queue = [d \in Devices |-> <<>>]
      /\ view = [d \in Devices |-> [m \in Missions |->
                    Cached(IF m \in Seeded THEN SeedRow(m) ELSE NoRow)]]
      /\ tomb = [d \in Devices |-> {}] /\ cursor = [d \in Devices |-> Cardinality(Seeded)]
      /\ run = [d \in Devices |-> NoRun]
      /\ draft = [d \in Devices |-> Nothing] /\ undo = [d \in Devices |-> Nothing]
      /\ issued = [d \in Devices |-> <<>>] /\ dropped = [d \in Devices |-> {}]
      /\ call = [d \in Devices |-> NoHandler] /\ phase = [h \in Handlers |-> "free"]
  BY DEF Init, DeviceInit
<1>5. \A m : Cached(SeedRow(m)).row.stage = "active" /\ Cached(NoRow).row.stage = "absent"
  BY DEF Cached, SeedRow, NoRow
<1>6. DeviceTypes
  <2>1. \A m \in Seeded : Cached(SeedRow(m)) \in CachedRow
    <3> TAKE m \in Seeded
    <3>1. m \in Ids
      BY IdsAssumption
    <3> QED
      BY <3>1 DEF Cached, SeedRow, CachedRow, MissionRow
  <2>2. Cached(NoRow) \in CachedRow
    BY DEF Cached, NoRow, CachedRow, MissionRow
  <2>3. view \in [Devices -> [Missions -> CachedRow]]
    BY <1>4, <2>1, <2>2
  <2>4. /\ \A T : <<>> \in Seq(T)
        /\ Cardinality(Seeded) \in Nat
    BY <1>2, <1>3
  <2>5. /\ queue \in [Devices -> Seq(Queueing)] /\ issued \in [Devices -> Seq(Mutation)]
        /\ cursor \in [Devices -> Nat]
    BY <1>4, <2>4
  <2> QED
    BY <1>4, <2>3, <2>5, NoRunIsRunning DEF DeviceTypes
<1>7. \A i \in DOMAIN log : \E m \in Seeded :
          /\ log[i].by.id = m /\ log[i].by.op = "create" /\ log[i].by.mission = m
  BY <1>2 DEF SeedEntry
<1>8. \A m \in Seeded : InLog("create", m)
  <2> TAKE m \in Seeded
  <2>1. PICK i \in DOMAIN log : log[i] = SeedEntry(m)
    BY <1>2
  <2> QED
    BY <2>1 DEF InLog, SeedEntry
<1>9. LoggedOK
  BY <1>7, <1>8 DEF LoggedOK
<1>10. AppliedInOrder
  <2>1. \A d \in Devices : InOrder(d) = {}
    BY <1>4 DEF InOrder, ToSet
  <2> QED
    BY <2>1 DEF AppliedInOrder
<1>11. ASSUME NEW d \in Devices
       PROVE  DeviceOK(d) /\ CallOK(d)
  <2>1. /\ queue[d] = <<>> /\ tomb[d] = {} /\ cursor[d] = Len(log) /\ run[d] = NoRun
        /\ draft[d] = Nothing /\ undo[d] = Nothing /\ issued[d] = <<>> /\ dropped[d] = {}
        /\ call[d] = NoHandler
    BY <1>2, <1>4
  <2>2. IssuedOK(d) /\ DroppedOK(d) /\ QueueOK(d)
    BY <2>1, MaxIssuedAssumption DEF IssuedOK, DroppedOK, QueueOK
  <2>3. ScreenOK(d)
    <3>1. \A m \in Missions : Row(d, m).stage # "absent" => m \in Seeded
      BY <1>4, <1>5 DEF Row
    <3> QED
      BY <1>8, <2>1, <3>1 DEF ScreenOK, Known
  <2>4. NoRun.at = "idle"
    BY DEF NoRun
  <2>5. CursorOK(d)
    <3>1. \A i \in 1 .. cursor[d] : log[i].by.op # "delete"
      BY <1>3, <1>7, <2>1
    <3> QED
      BY <1>3, <2>1, <2>4, <3>1 DEF CursorOK, At
  <2>6. RunOK(d)
    <3>1. NoRun.batch = <<>> /\ NoRun.settled = 0 /\ NoRun.conflict = "none"
      BY DEF NoRun
    <3> QED
      BY <2>1, <2>4, <3>1 DEF RunOK, BatchInOrder
  <2> QED
    BY <2>1, <2>2, <2>3, <2>4, <2>5, <2>6 DEF DeviceOK, CallOK, At
<1>12. \A h \in Handlers : HandlerOK(h)
  BY <1>4 DEF HandlerOK
<1>13. call \in [Devices -> Handlers \cup {NoHandler}]
  BY <1>4
<1> QED
  BY <1>1, <1>6, <1>9, <1>10, <1>11, <1>12, <1>13 DEF SyncInv

(***************************************************************************)
(* The theorems.                                                           *)
(***************************************************************************)
\* The steps of a sync run keep the invariant.
LEMMA SyncStepKeeps ==
    ASSUME SyncInv, NEW d \in Devices, SyncStep(d)
    PROVE  SyncInv'
<1>1. CASE Local(d) /\ UNCHANGED <<serverVars, call, faults>>
  <2>1. UNCHANGED <<serverVars, call>>
    BY <1>1
  <2>2. \/ List(d) \/ (Mark(d) \/ Fail(d) \/ Unmark(d)) \/ (Settle(d) \/ SettleRefused(d))
        \/ Reconcile(d)
    BY <1>1 DEF Local
  <2> QED
    BY <2>1, <2>2, ListKeeps, FlagStepsKeep, SettleStepsKeep, ReconcileKeeps
<1>2. CASE \E h \in Handlers : SendTo(d, h)
  BY <1>2, SendKeeps
<1>3. CASE ReceiveFrom(d)
  BY <1>3, ReceiveKeeps
<1>4. CASE PullPage(d)
  BY <1>4, PullStepsKeep
<1>5. CASE ApplyPage(d)
  BY <1>5, ApplyKeeps
<1> QED
  BY <1>1, <1>2, <1>3, <1>4, <1>5 DEF SyncStep

\* Every step does.
LEMMA SyncNext == SyncInv /\ [Next]_vars => SyncInv'
<1> SUFFICES ASSUME SyncInv, [Next]_vars
             PROVE  SyncInv'
  OBVIOUS
<1>1. ASSUME NEW d \in Devices, User(d)
      PROVE  SyncInv'
  BY <1>1, UserKeeps
<1>2. ASSUME NEW d \in Devices, SyncStep(d)
      PROVE  SyncInv'
  BY <1>2, SyncStepKeeps
<1>3. ASSUME NEW d \in Devices, GiveUp(d)
      PROVE  SyncInv'
  BY <1>3, GiveUpKeeps
<1>4. ASSUME NEW d \in Devices, PullFails(d)
      PROVE  SyncInv'
  <2>1. FailPull(d) /\ UNCHANGED <<serverVars, call>>
    BY <1>4 DEF PullFails
  <2> QED
    BY <2>1, PullStepsKeep
<1>5. ASSUME NEW d \in Devices, Crashes(d)
      PROVE  SyncInv'
  BY <1>5, CrashKeeps
<1>6. ASSUME NEW h \in Handlers, HandlerStep(h) \/ HandlerAborts(h)
      PROVE  SyncInv'
  BY <1>6, HandlersMove, HandlerKeeps
<1>7. CASE KeyExpires
  BY <1>7, ExpiryKeeps
<1>8. CASE UNCHANGED vars
  <2>1. /\ UNCHANGED serverVars /\ UNCHANGED <<deviceVars, call>>
        /\ UNCHANGED <<mission, recorded, log, phase, request, answer>>
    BY <1>8 DEF vars, serverVars
  <2>2. ServerProofs!ServerInv'
    BY <2>1, ServerSteps
  <2> QED
    BY <2>1, <2>2, StillKept
<1> QED
  BY <1>1, <1>2, <1>3, <1>4, <1>5, <1>6, <1>7, <1>8 DEF Next

\* The invariant holds in every behaviour.
LEMMA SyncInvAlways == Spec => []SyncInv
BY SyncStarts, SyncNext, PTL DEF Spec

\* Nothing a user did disappears, on any number of devices, whatever is lost,
\* retried, refused or killed: a mutation is queued, in the log, taken back,
\* or refused for a reason that holds.
THEOREM NothingIsLostAlways == Spec => []NothingIsLost
<1>1. SyncInv => NothingIsLost
  <2> SUFFICES ASSUME SyncInv, NEW d \in Devices, NEW n \in DOMAIN issued[d], NEW mut,
                      mut = issued[d][n], mut \notin Queued(d), ~Applied(mut)
               PROVE  \E x \in dropped[d] :
                         /\ x.mut = mut
                         /\ \/ x.why = "undone"
                            \/ x.why = "mission_deleted" /\ InLog("delete", mut.mission)
                            \/ x.why = "completed_elsewhere" /\ InLog("complete", mut.mission)
                            \/ x.why = "mission_updated" /\ mut.op = "complete"
    BY DEF NothingIsLost
  <2>1. DroppedOK(d) /\ QueueOK(d)
    BY DEF SyncInv, DeviceOK
  <2>2. PICK x \in dropped[d] : x.mut = mut
    BY <2>1 DEF QueueOK, Past, Queued
  <2>3. x.why = "undone" \/ Refuted(x.mut, x.why)
    BY <2>1 DEF DroppedOK
  <2> QED
    BY <2>2, <2>3 DEF Refuted
<1> QED
  BY <1>1, SyncInvAlways, PTL

\* A mission whose deletion a device has pulled never shows up there again.
THEOREM DeletionSticksAlways == Spec => []DeletionSticks
<1>1. SyncInv => DeletionSticks
  BY DEF SyncInv, DeviceOK, CursorOK, DeletionSticks
<1> QED
  BY <1>1, SyncInvAlways, PTL

\* The account gets the changes of every device in the order they were made
\* there, whatever the size of a batch, the faults and the retries.
THEOREM AppliedInOrderAlways == Spec => []AppliedInOrder
<1>1. SyncInv => AppliedInOrder
  BY DEF SyncInv
<1> QED
  BY <1>1, SyncInvAlways, PTL

(***************************************************************************)
(* Every device ends where the server is, if no deletion is taken back.    *)
(***************************************************************************)
\* What the first c entries of the log say of mission m.
GoneBy(c, m) == \E i \in 1 .. c : log[i].by.op = "delete" /\ log[i].by.mission = m
LastBy(i, c, m) ==
    /\ log[i].by.mission = m
    /\ \A j \in 1 .. c : j > i => log[j].by.mission # m
Says(c, m, row) ==
    \/ GoneBy(c, m) /\ row = NoRow
    \/ (\A i \in 1 .. c : log[i].by.mission # m) /\ row = NoRow
    \/ ~GoneBy(c, m) /\ \E i \in 1 .. c : LastBy(i, c, m) /\ row = log[i].row

\* A mutation that is to come back: it is queued or accepted, and the device
\* has not pulled it.
Mine(d) == {issued[d][n] : n \in DOMAIN issued[d]}
Back(c, mut) == \E i \in 1 .. c : log[i].by = mut
Out(d, mut) ==
    mut \in Mine(d) /\ ~Back(cursor[d], mut) /\ (mut \in Queued(d) \/ Applied(mut))

\* The completion that is about to be dropped because it was rejected.
Leaving(d, mut) ==
    At(d, "deferred") /\ run[d].conflict = "mission_updated" /\ mut = Refused(d)

\* What is shown of a mission is what the log said, or there is a mutation
\* whose return will replace it; if that is a completion, the row still is the
\* one that was completed, so that a rejection can put it back.
AsLogged(d, m) == Says(cursor[d], m, Row(d, m)) /\ ~view[d][m].pending
Changed(d, m) == \E w \in Mine(d) : Out(d, w) /\ w.op # "complete" /\ w.mission = m
Open(d, m) ==
    /\ view[d][m].pending /\ Row(d, m).stage = "active"
    /\ Says(cursor[d], m, [Row(d, m) EXCEPT !.done = FALSE])
CompletedBy(d, m, w) ==
    /\ Out(d, w) /\ ~Leaving(d, w) /\ ~BeforeOf(d, w)
    /\ w.op = "complete" /\ w.mission = m /\ Row(d, m).version = w.base
Shown(d, m) ==
    \/ AsLogged(d, m)
    \/ Changed(d, m)
    \/ Open(d, m) /\ \E w \in Mine(d) : CompletedBy(d, m, w)

\* A deletion that came back left nothing; a tombstone is of a deletion that
\* came back or will.
Deleting(d, m) == \E w \in Mine(d) : Out(d, w) /\ w.op = "delete" /\ w.mission = m
GoneOK(d, m) ==
    /\ GoneBy(cursor[d], m) => view[d][m] = Cached(NoRow)
    /\ m \in tomb[d] => GoneBy(cursor[d], m) \/ Deleting(d, m)

\* When a run comes to what was refused, it has pulled the reason, and
\* whatever was accepted before it.
DoneBy(c, m) == \E i \in 1 .. c : log[i].by.op = "complete" /\ log[i].by.mission = m
PulledBy(d, c) ==
    /\ \A i \in 1 .. run[d].settled : i = run[d].settled \/ Back(c, run[d].batch[i])
    /\ run[d].conflict = "mission_deleted" => GoneBy(c, Refused(d).mission)
    /\ run[d].conflict = "completed_elsewhere" => DoneBy(c, Refused(d).mission)
RefusalOK(d) ==
    /\ run[d].conflict = "completed_elsewhere" => Refused(d).op = "complete"
    /\ run[d].conflict # "none" /\ At(d, "applying") /\ ~run[d].more => PulledBy(d, run[d].upto)
    /\ At(d, "reconciling") \/ At(d, "deferred") => PulledBy(d, cursor[d])

\* A deletion is a mission's last entry, and a completed mission stays so.
LogEnds ==
    /\ \A i, j \in DOMAIN log : log[i].by.mission = log[j].by.mission =>
          /\ log[i].by.op = "delete" => j <= i
          /\ log[i].by.op = "complete" /\ i <= j => log[j].row.done
    /\ \A m \in Missions : InLog("delete", m) => mission[m].stage = "deleted"
AnswersFit == \A h \in Handlers :
    phase[h] = "answered" /\ answer[h] = "completed_elsewhere" => request[h].op = "complete"

ShowsOK(d) == RefusalOK(d) /\ \A m \in Missions : GoneOK(d, m) /\ Shown(d, m)
ConvInv == LogEnds /\ AnswersFit /\ \A d \in Devices : ShowsOK(d)

\* The log only grows.
Longer ==
    /\ Len(log) \in Nat /\ DOMAIN log = 1 .. Len(log)
    /\ \A i \in DOMAIN log : i \in DOMAIN log' /\ log'[i] = log[i]

\* What the log says up to a position it goes on saying.
LEMMA SaysKept ==
    ASSUME Longer, NEW c \in Nat, c <= Len(log)
    PROVE  /\ \A i \in 1 .. c : log'[i] = log[i]
           /\ \A m : GoneBy(c, m)' <=> GoneBy(c, m)
           /\ \A m, row : Says(c, m, row)' <=> Says(c, m, row)
           /\ \A mut : Back(c, mut)' <=> Back(c, mut)
           /\ \A m : DoneBy(c, m)' <=> DoneBy(c, m)
<1>1. \A i \in 1 .. c : log'[i] = log[i]
  BY DEF Longer
<1>2. \A m : GoneBy(c, m)' <=> GoneBy(c, m)
  BY <1>1 DEF GoneBy
<1>3. \A mut : Back(c, mut)' <=> Back(c, mut)
  BY <1>1 DEF Back
<1>4. \A m : DoneBy(c, m)' <=> DoneBy(c, m)
  BY <1>1 DEF DoneBy
<1>5. \A m : \A i \in 1 .. c : LastBy(i, c, m)' <=> LastBy(i, c, m)
  BY <1>1 DEF LastBy
<1>6. \A m, row : Says(c, m, row)' <=> Says(c, m, row)
  BY <1>1, <1>2, <1>5 DEF Says
<1> QED
  BY <1>1, <1>2, <1>3, <1>4, <1>6

\* What the log says up to the new cursor.
LEMMA AtCursor ==
    ASSUME NEW d \in Devices, NEW c, cursor'[d] = c
    PROVE  /\ \A m : GoneBy(cursor[d], m)' <=> GoneBy(c, m)'
           /\ \A m, row : Says(cursor[d], m, row)' <=> Says(c, m, row)'
           /\ \A mut : Back(cursor[d], mut)' <=> Back(c, mut)'
           /\ \A m : DoneBy(cursor[d], m)' <=> DoneBy(c, m)'
<1>1. \A m : GoneBy(cursor[d], m)' <=> GoneBy(c, m)'
  BY DEF GoneBy
<1>2. \A mut : Back(cursor[d], mut)' <=> Back(c, mut)'
  BY DEF Back
<1>3. \A m : DoneBy(cursor[d], m)' <=> DoneBy(c, m)'
  BY DEF DoneBy
<1>4. \A m, row : Says(cursor[d], m, row)' <=> Says(c, m, row)'
  BY DEF Says, GoneBy, LastBy
<1> QED
  BY <1>1, <1>2, <1>3, <1>4

\* What the device has pulled is in the log.
LEMMA CursorIn ==
    ASSUME SyncInv, NEW d \in Devices
    PROVE  /\ cursor[d] \in Nat /\ cursor[d] <= Len(log)
           /\ Len(log) \in Nat /\ DOMAIN log = 1 .. Len(log)
           /\ At(d, "applying") =>
                 run[d].upto \in Nat /\ cursor[d] <= run[d].upto /\ run[d].upto <= Len(log)
<1>1. CursorOK(d) /\ DeviceTypes
  BY DEF SyncInv, DeviceOK
<1>2. Len(log) \in Nat /\ DOMAIN log = 1 .. Len(log)
  BY RowsOfLog
<1>3. run[d].upto \in Nat
  BY RunShape
<1> QED
  BY <1>1, <1>2, <1>3 DEF CursorOK, DeviceTypes

\* A step that leaves alone what a device shows and its cursor, and takes no
\* mutation out of its queue that is not accepted.
Keeps(d) ==
    /\ issued'[d] = issued[d] /\ cursor'[d] = cursor[d]
    /\ view'[d] = view[d] /\ tomb'[d] = tomb[d]
    /\ \A i \in DOMAIN queue[d] :
          \/ Applied(queue[d][i].mut)
          \/ \E j \in DOMAIN queue'[d] : queue'[d][j].mut = queue[d][i].mut
    /\ \A j \in DOMAIN queue'[d] : \E i \in DOMAIN queue[d] :
          queue'[d][j].mut = queue[d][i].mut /\ queue'[d][j].before = queue[d][i].before
    /\ run'[d].at # "deferred" \/ run'[d] = run[d]

\* What was to come back still is.
LEMMA OutKept ==
    ASSUME SyncInv, Longer, NEW d \in Devices, Keeps(d)
    PROVE  /\ Mine(d)' = Mine(d)
           /\ \A w : Out(d, w) => Out(d, w)'
           /\ \A w : BeforeOf(d, w)' => BeforeOf(d, w)
           /\ \A w : Leaving(d, w)' => Leaving(d, w)
<1>1. Mine(d)' = Mine(d)
  BY DEF Mine, Keeps
<1>2. \A w : Applied(w) => Applied(w)'
  BY DEF Applied, Longer
<1>3. PICK c : c = cursor[d]
  OBVIOUS
<1>4. c \in Nat /\ c <= Len(log) /\ cursor'[d] = c
  BY <1>3, CursorIn DEF Keeps
<1>5. \A w : Back(c, w)' <=> Back(c, w)
  BY <1>4, SaysKept
<1>6. \A w : Back(cursor[d], w)' <=> Back(cursor[d], w)
  BY <1>3, <1>4, <1>5 DEF Back
<1>7. \A w : w \in Queued(d) => w \in Queued(d)' \/ Applied(w)
  BY DEF Queued, Keeps
<1>8. \A w : Out(d, w) => Out(d, w)'
  BY <1>1, <1>2, <1>6, <1>7 DEF Out
<1>9. \A w : BeforeOf(d, w)' => BeforeOf(d, w)
  BY DEF BeforeOf, Keeps
<1>10. \A w : Leaving(d, w)' => Leaving(d, w)
  BY DEF Leaving, Keeps, At, Refused
<1> QED
  BY <1>1, <1>8, <1>9, <1>10

\* What is shown is still explained.
LEMMA ShownKept ==
    ASSUME SyncInv, Longer, NEW d \in Devices, Keeps(d), NEW m \in Missions,
           GoneOK(d, m), Shown(d, m)
    PROVE  GoneOK(d, m)' /\ Shown(d, m)'
<1>1. PICK c : c = cursor[d]
  OBVIOUS
<1>2. c \in Nat /\ c <= Len(log) /\ cursor'[d] = c
  BY <1>1, CursorIn DEF Keeps
<1>3. /\ GoneBy(c, m)' <=> GoneBy(c, m)
      /\ \A row : Says(c, m, row)' <=> Says(c, m, row)
  BY <1>2, SaysKept
<1>4. /\ GoneBy(cursor[d], m)' <=> GoneBy(cursor[d], m)
      /\ \A row : Says(cursor[d], m, row)' <=> Says(cursor[d], m, row)
  <2>1. /\ GoneBy(cursor[d], m) <=> GoneBy(c, m)
        /\ \A row : Says(cursor[d], m, row) <=> Says(c, m, row)
    BY <1>1
  <2>2. /\ GoneBy(cursor[d], m)' <=> GoneBy(c, m)'
        /\ \A row : Says(cursor[d], m, row)' <=> Says(c, m, row)'
    BY <1>2, AtCursor
  <2> QED
    BY <2>1, <2>2, <1>3
<1>5. /\ Mine(d)' = Mine(d)
      /\ \A w : Out(d, w) => Out(d, w)'
      /\ \A w : BeforeOf(d, w)' => BeforeOf(d, w)
      /\ \A w : Leaving(d, w)' => Leaving(d, w)
  BY OutKept
<1>6. view'[d][m] = view[d][m] /\ Row(d, m)' = Row(d, m) /\ tomb'[d] = tomb[d]
  BY DEF Keeps, Row
<1>7. GoneOK(d, m)'
  <2>1. Deleting(d, m) => Deleting(d, m)'
    BY <1>5 DEF Deleting
  <2> QED
    BY <1>4, <1>6, <2>1 DEF GoneOK
<1>8. AsLogged(d, m) => AsLogged(d, m)'
  <2>1. PICK row : row = Row(d, m)
    OBVIOUS
  <2> QED
    BY <2>1, <1>4, <1>6, <1>2 DEF AsLogged
<1>9. Changed(d, m) => Changed(d, m)'
  BY <1>5 DEF Changed
<1>10. Open(d, m) => Open(d, m)'
  <2>1. PICK row : row = [Row(d, m) EXCEPT !.done = FALSE]
    OBVIOUS
  <2>2. row = [Row(d, m) EXCEPT !.done = FALSE]'
    BY <2>1, <1>6
  <2> QED
    BY <2>1, <2>2, <1>4, <1>6, <1>2 DEF Open
<1>11. \A w : CompletedBy(d, m, w) => CompletedBy(d, m, w)'
  BY <1>5, <1>6 DEF CompletedBy
<1> QED
  BY <1>5, <1>7, <1>8, <1>9, <1>10, <1>11 DEF Shown

\* A device that is not touched shows what it showed.
LEMMA RefusalKept ==
    ASSUME SyncInv, Longer, NEW d \in Devices, RefusalOK(d), run'[d] = run[d],
           cursor'[d] = cursor[d]
    PROVE  RefusalOK(d)'
<1>1. Refused(d)' = Refused(d)
  BY DEF Refused
<1>2. ASSUME NEW c \in Nat, c <= Len(log), PulledBy(d, c)
      PROVE  PulledBy(d, c)'
  <2>1. /\ \A m : GoneBy(c, m)' <=> GoneBy(c, m)
        /\ \A mut : Back(c, mut)' <=> Back(c, mut)
        /\ \A m : DoneBy(c, m)' <=> DoneBy(c, m)
    BY <1>2, SaysKept
  <2>2. PICK r, w : r = run[d] /\ w = Refused(d)
    OBVIOUS
  <2>3. run'[d] = r /\ Refused(d)' = w
    BY <2>2, <1>1
  <2>4. /\ \A i \in 1 .. r.settled : i = r.settled \/ Back(c, r.batch[i])
        /\ r.conflict = "mission_deleted" => GoneBy(c, w.mission)
        /\ r.conflict = "completed_elsewhere" => DoneBy(c, w.mission)
    BY <1>2, <2>2 DEF PulledBy
  <2>5. /\ \A i \in 1 .. r.settled : i = r.settled \/ Back(c, r.batch[i])'
        /\ r.conflict = "mission_deleted" => GoneBy(c, w.mission)'
        /\ r.conflict = "completed_elsewhere" => DoneBy(c, w.mission)'
    BY <2>1, <2>4
  <2> QED
    BY <2>3, <2>5 DEF PulledBy, Back, GoneBy, DoneBy
<1>3. PICK c, u : c = cursor[d] /\ u = run[d].upto
  OBVIOUS
<1>4. /\ c \in Nat /\ c <= Len(log)
      /\ At(d, "applying") => u \in Nat /\ u <= Len(log)
  BY <1>3, CursorIn
<1>5. At(d, "reconciling")' \/ At(d, "deferred")' => PulledBy(d, cursor[d])'
  <2>1. At(d, "reconciling") \/ At(d, "deferred") => PulledBy(d, c)
    BY <1>3 DEF RefusalOK
  <2>2. At(d, "reconciling") \/ At(d, "deferred") => PulledBy(d, c)'
    BY <1>2, <1>4, <2>1
  <2>3. cursor'[d] = c
    BY <1>3
  <2> QED
    BY <2>2, <2>3 DEF At, PulledBy, Back, GoneBy, DoneBy
<1>6. run'[d].conflict # "none" /\ At(d, "applying")' /\ ~run'[d].more => PulledBy(d, run[d].upto)'
  <2>1. run[d].conflict # "none" /\ At(d, "applying") /\ ~run[d].more => PulledBy(d, u)
    BY <1>3 DEF RefusalOK
  <2>2. run[d].conflict # "none" /\ At(d, "applying") /\ ~run[d].more => PulledBy(d, u)'
    BY <1>2, <1>4, <2>1
  <2>3. run'[d].upto = u
    BY <1>3
  <2> QED
    BY <2>2, <2>3 DEF At, PulledBy, Back, GoneBy, DoneBy
<1> QED
  BY <1>1, <1>5, <1>6 DEF RefusalOK

\* A run that pulls or pushes has nothing refused to settle yet.
LEMMA RefusalAhead ==
    ASSUME NEW d \in Devices, RefusalOK(d),
           run'[d].at \notin {"applying", "reconciling", "deferred"},
           \/ run'[d].conflict # "completed_elsewhere"
           \/ /\ run'[d].batch = run[d].batch /\ run'[d].settled = run[d].settled
              /\ run'[d].conflict = run[d].conflict
    PROVE  RefusalOK(d)'
<1>1. run'[d].conflict = "completed_elsewhere" => Refused(d)'.op = "complete"
  BY DEF RefusalOK, Refused
<1> QED
  BY <1>1 DEF RefusalOK, At

\* A step that keeps what a device shows keeps it right.
LEMMA ShowsKept ==
    ASSUME SyncInv, Longer, NEW d \in Devices, ShowsOK(d), Keeps(d), RefusalOK(d)'
    PROVE  ShowsOK(d)'
BY ShownKept DEF ShowsOK

\* So does a step that does not touch the device.
LEMMA OthersShow ==
    ASSUME SyncInv, Longer, NEW d \in Devices, ShowsOK(d), Unmoved(d)
    PROVE  ShowsOK(d)'
<1>1. Keeps(d)
  BY DEF Keeps, Unmoved
<1>2. RefusalOK(d)'
  BY RefusalKept DEF ShowsOK, Unmoved
<1> QED
  BY <1>1, <1>2, ShowsKept

\* When one device moves and the log stays, it is enough to look at that device.
LEMMA OneShows ==
    ASSUME SyncInv, ConvInv, NEW d \in Devices, \A e \in Devices : e # d => Unmoved(e),
           UNCHANGED <<mission, log>>, AnswersFit', ShowsOK(d)'
    PROVE  ConvInv'
<1>1. Longer
  BY RowsOfLog DEF Longer
<1>2. \A e \in Devices : ShowsOK(e)'
  BY <1>1, OthersShow DEF ConvInv
<1>3. LogEnds'
  BY DEF ConvInv, LogEnds, InLog
<1> QED
  BY <1>2, <1>3 DEF ConvInv

\* The log ends with the deletion of a mission and keeps its completion.
LEMMA EndsKept ==
    ASSUME SyncInv, LogEnds,
           UNCHANGED <<mission, log>> \/ \E mut : ServerProofs!Applied(mut)
    PROVE  LogEnds'
<1>1. CASE UNCHANGED <<mission, log>>
  BY <1>1 DEF LogEnds, InLog
<1>2. ASSUME NEW mut, ServerProofs!Applied(mut)
      PROVE  LogEnds'
  <2> DEFINE row == ServerProofs!Ledger!After(mission[mut.mission], mut)
  <2>1. ServerProofs!ServerInv
    BY DEF SyncInv
  <2>2. /\ mut \in ServerProofs!Mutation
        /\ mission'[mut.mission] = row
        /\ \A m \in Missions : m # mut.mission => mission'[m] = mission[m]
        /\ \E n \in Nat \ {0} : /\ DOMAIN log = 1 .. n - 1 /\ DOMAIN log' = 1 .. n
                                /\ \A i \in DOMAIN log : log'[i] = log[i]
                                /\ log'[n].by = mut /\ log'[n].row = row
    BY <1>2, <2>1, SameMutations, NoIdAssumption, ServerProofs!AppliedAppends, Zenon
  <2>3. ServerProofs!Ledger!Permits(mission[mut.mission], mut)
    BY <1>2, Zenon DEF ServerProofs!Applied
  <2>4. mut.mission \in Missions
    BY <2>2 DEF ServerProofs!Mutation
  <2>5. mission[mut.mission].stage \in {"absent", "active"}
    BY <2>3 DEF ServerProofs!Ledger!Permits
  <2>6. /\ mut.op = "delete" => row.stage = "deleted"
        /\ mut.op = "complete" \/ mission[mut.mission].done => row.done
    BY DEF ServerProofs!Ledger!After
  <2> HIDE DEF row
  <2>7. ~InLog("delete", mut.mission)
    BY <2>4, <2>5 DEF LogEnds
  <2>8. InLog("complete", mut.mission) => row.done
    BY <2>1, <2>4, <2>6 DEF ServerProofs!ServerInv, ServerProofs!RowsOK, ServerProofs!InLog, InLog
  <2>9. PICK n \in Nat \ {0} : /\ DOMAIN log = 1 .. n - 1 /\ DOMAIN log' = 1 .. n
                               /\ \A i \in DOMAIN log : log'[i] = log[i]
                               /\ log'[n].by = mut /\ log'[n].row = row
    BY <2>2
  <2>10. ASSUME NEW i \in DOMAIN log', NEW j \in DOMAIN log',
                log'[i].by.mission = log'[j].by.mission
         PROVE  /\ log'[i].by.op = "delete" => j <= i
                /\ log'[i].by.op = "complete" /\ i <= j => log'[j].row.done
    <3>1. CASE i \in DOMAIN log /\ j \in DOMAIN log
      BY <2>9, <2>10, <3>1 DEF LogEnds
    <3>2. CASE i = n
      <4>1. j <= n
        BY <2>9
      <4>2. mut.op = "complete" => row.done
        BY <2>6
      <4> QED
        BY <2>9, <3>2, <4>1, <4>2
    <3>3. CASE i \in DOMAIN log /\ j = n
      <4>1. log'[i] = log[i] /\ log[i].by.mission = mut.mission
        BY <2>9, <2>10, <3>3
      <4>2. log[i].by.op # "delete"
        BY <2>7, <3>3, <4>1 DEF InLog
      <4>3. log[i].by.op = "complete" => row.done
        BY <2>8, <3>3, <4>1 DEF InLog
      <4> QED
        BY <2>9, <3>3, <4>1, <4>2, <4>3
    <3> QED
      BY <2>9, <3>1, <3>2, <3>3
  <2>11. ASSUME NEW m \in Missions, InLog("delete", m)'
         PROVE  mission'[m].stage = "deleted"
    <3>1. InLog("delete", m) \/ (mut.op = "delete" /\ mut.mission = m)
      BY <2>9, <2>11 DEF InLog
    <3>2. CASE InLog("delete", m)
      BY <2>2, <2>7, <3>2 DEF LogEnds
    <3>3. CASE mut.op = "delete" /\ mut.mission = m
      BY <2>2, <2>6, <3>3
    <3> QED
      BY <3>1, <3>2, <3>3
  <2> QED
    BY <2>10, <2>11 DEF LogEnds
<1> QED
  BY <1>1, <1>2

\* A handler moves: the log may go on, and only a completion is answered with
\* one that was there before.
LEMMA HandlerShows ==
    ASSUME SyncInv, ConvInv, NEW h \in Handlers, HandlerStep(h) \/ HandlerAborts(h)
    PROVE  ConvInv'
<1>1. HandlerMoves(h)
  BY HandlersMove
<1>2. ServerProofs!ServerInv
  BY DEF SyncInv
<1>3. Longer
  <2>1. log' = log \/ \E mut : ServerProofs!Applied(mut)
    BY <1>1 DEF HandlerMoves
  <2>2. CASE log' = log
    BY <2>2, RowsOfLog DEF Longer
  <2>3. CASE \E mut : ServerProofs!Applied(mut)
    BY <2>3, <1>2, TakesEffect DEF Longer
  <2> QED
    BY <2>1, <2>2, <2>3
<1>4. \A e \in Devices : ShowsOK(e)'
  <2>1. \A e \in Devices : Unmoved(e)
    BY <1>1 DEF HandlerMoves, Unmoved, deviceVars, storeVars, uiVars
  <2> QED
    BY <1>3, <2>1, OthersShow DEF ConvInv
<1>5. CASE ServerProofs!Serve(h)
  <2>1. /\ request' = request
        /\ \A g \in Handlers : g # h => phase'[g] = phase[g] /\ answer'[g] = answer[g]
        /\ phase'[h] = "answered" =>
              (answer'[h] \in {"completed_elsewhere", "mission_updated"}
                  => request[h].op = "complete")
    BY <1>2, <1>5, Answering
  <2>2. AnswersFit'
    BY <2>1 DEF AnswersFit, ConvInv
  <2>3. UNCHANGED <<mission, log>> \/ \E mut : ServerProofs!Applied(mut)
    <3>1. ServerProofs!Next
      BY <1>5 DEF ServerProofs!Next
    <3>2. UNCHANGED <<mission, recorded, log>> \/ \E mut \in ServerProofs!Mutation : ServerProofs!Applied(mut)
      BY <1>2, <3>1, SameMutations, NoIdAssumption, ServerProofs!StepApplies, Zenon
    <3> QED
      BY <3>2
  <2> QED
    BY <1>4, <2>2, <2>3, EndsKept DEF ConvInv
<1>6. ASSUME ServerProofs!Release(h) \/ ServerProofs!Abort(h)
      PROVE  ConvInv'
  <2>1. /\ UNCHANGED <<mission, log>>
        /\ \A g \in Handlers : g # h => phase'[g] = phase[g] /\ answer'[g] = answer[g] /\ request'[g] = request[g]
        /\ phase'[h] = "free" \/ answer'[h] = "error"
    <3>1. /\ phase \in [Handlers -> {"free", "received", "fresh", "answered"}]
          /\ answer \in [Handlers -> ServerProofs!Answer]
          /\ request \in [Handlers -> ServerProofs!Mutation \cup {ServerProofs!NoMutation}]
      BY <1>2 DEF ServerProofs!ServerInv, ServerProofs!Types
    <3> QED
      BY <1>6, <3>1 DEF ServerProofs!Release, ServerProofs!Abort, ServerProofs!Respond, ServerProofs!dbVars
  <2>2. AnswersFit'
    BY <2>1 DEF AnswersFit, ConvInv
  <2> QED
    BY <1>4, <2>1, <2>2, EndsKept DEF ConvInv
<1> QED
  BY <1>5, <1>6, SameService, SameExchange DEF HandlerStep, HandlerAborts

\* A step of a device that is about its run and its queue: what it shows, its
\* tombstones and its cursor stay, and its queue loses only what is accepted.
LEMMA RunStepShows ==
    ASSUME SyncInv, ConvInv, NEW d \in Devices,
           UNCHANGED <<mission, log, view, tomb, cursor, issued>>,
           NEW s, run' = [run EXCEPT ![d] = s], s.at # "deferred",
           \A e \in Devices : e # d => /\ queue'[e] = queue[e] /\ draft'[e] = draft[e]
                                       /\ undo'[e] = undo[e] /\ dropped'[e] = dropped[e],
           \A i \in DOMAIN queue[d] :
              \/ Applied(queue[d][i].mut)
              \/ \E j \in DOMAIN queue'[d] : queue'[d][j].mut = queue[d][i].mut,
           \A j \in DOMAIN queue'[d] : \E i \in DOMAIN queue[d] :
              queue'[d][j].mut = queue[d][i].mut /\ queue'[d][j].before = queue[d][i].before,
           AnswersFit', RefusalOK(d)'
    PROVE  ConvInv'
<1>1. run \in [Devices -> Running]
  BY DEF SyncInv, DeviceTypes
<1>2. run'[d] = s /\ \A e \in Devices : e # d => run'[e] = run[e]
  BY <1>1
<1>3. \A e \in Devices : e # d => Unmoved(e)
  BY <1>2 DEF Unmoved
<1>4. Keeps(d)
  BY <1>2 DEF Keeps
<1>5. Longer
  BY RowsOfLog DEF Longer
<1>6. ShowsOK(d)'
  BY <1>4, <1>5, ShowsKept DEF ConvInv
<1> QED
  BY <1>3, <1>6, OneShows

\* Flags change no more than the flags.
LEMMA FlagsShow ==
    ASSUME SyncInv, NEW d \in Devices, NEW muts, NEW flag \in BOOLEAN, Flag(d, muts, flag)
    PROVE  /\ \A e \in Devices : e # d => queue'[e] = queue[e]
           /\ \A i \in DOMAIN queue[d] :
                 \E j \in DOMAIN queue'[d] : queue'[d][j].mut = queue[d][i].mut
           /\ \A j \in DOMAIN queue'[d] : \E i \in DOMAIN queue[d] :
                 queue'[d][j].mut = queue[d][i].mut /\ queue'[d][j].before = queue[d][i].before
<1>1. DeviceTypes
  BY DEF SyncInv
<1>2. /\ \A e \in Devices : e # d => queue'[e] = queue[e]
      /\ DOMAIN queue'[d] = DOMAIN queue[d]
      /\ \A i \in DOMAIN queue[d] : queue'[d][i].mut = queue[d][i].mut
  BY <1>1, FlagsKeep
<1>3. queue \in [Devices -> Seq(Queueing)] /\ queue[d] \in Seq(Queueing)
  BY <1>1 DEF DeviceTypes
<1>4. \A i \in DOMAIN queue[d] : queue[d][i] \in Queueing
  BY <1>3
<1>5. \A i \in DOMAIN queue[d] : queue'[d][i].before = queue[d][i].before
  <2> TAKE i \in DOMAIN queue[d]
  <2>1. PICK q \in Queueing : q = queue[d][i]
    BY <1>4
  <2>2. [q EXCEPT !.inFlight = flag].before = q.before
    BY DEF Queueing
  <2>3. queue'[d][i] = IF q.mut \in muts THEN [q EXCEPT !.inFlight = flag] ELSE q
    BY <1>3, <2>1 DEF Flag
  <2> QED
    BY <2>1, <2>2, <2>3
<1> QED
  BY <1>2, <1>5

\* Where the requests are as they were, so are the answers.
LEMMA AnswersStay ==
    ASSUME ConvInv, UNCHANGED <<phase, request, answer>>
    PROVE  AnswersFit'
BY DEF ConvInv, AnswersFit

\* Listing, marking, failing, unmarking, and a pull that fails.
LEMMA RunMovesShow ==
    ASSUME SyncInv, ConvInv, NEW d \in Devices,
           List(d) \/ Mark(d) \/ Fail(d) \/ Unmark(d) \/ FailPull(d), UNCHANGED serverVars
    PROVE  ConvInv'
<1>1. PICK r \in Running : r = run[d]
  BY RunShape
<1>2. AnswersFit' /\ UNCHANGED <<mission, log, view, tomb, cursor, draft, undo, issued, dropped>>
  BY AnswersStay DEF serverVars, List, Mark, Fail, Unmark, FailPull, storeVars, uiVars
<1>3. run \in [Devices -> Running]
  BY DEF SyncInv, DeviceTypes
<1>4. PICK s : /\ run' = [run EXCEPT ![d] = s]
               /\ s.at \notin {"applying", "reconciling", "deferred"}
               /\ \/ s.conflict = "none"
                  \/ s.batch = r.batch /\ s.settled = r.settled /\ s.conflict = r.conflict
  <2>1. CASE List(d)
    <3>0. PICK b : b = [i \in 1 .. Min({BatchSize, Len(queue[d])}) |-> queue[d][i].mut]
      OBVIOUS
    <3>1. PICK at \in {"pulling", "marking"} : at = IF b = <<>> THEN "pulling" ELSE "marking"
      OBVIOUS
    <3>4. run' = [run EXCEPT ![d] = [NoRun EXCEPT !.at = at, !.batch = b]]
      BY <2>1, <3>0, <3>1 DEF List
    <3>2. PICK s : s = [NoRun EXCEPT !.at = at, !.batch = b]
      OBVIOUS
    <3>3. s.at = at /\ s.conflict = "none"
      BY <3>2 DEF NoRun
    <3> QED
      BY <3>1, <3>2, <3>3, <3>4
  <2>2. ASSUME NEW at \in {"pushing", "pulling"}, Goto(d, at)
        PROVE  \E s : /\ run' = [run EXCEPT ![d] = s] /\ s.at = at
                      /\ s.batch = r.batch /\ s.settled = r.settled /\ s.conflict = r.conflict
    <3>1. PICK s : s = [r EXCEPT !.at = at]
      OBVIOUS
    <3>2. s.at = at /\ s.batch = r.batch /\ s.settled = r.settled /\ s.conflict = r.conflict
      BY <3>1 DEF Running
    <3> QED
      BY <1>1, <2>2, <3>1, <3>2 DEF Goto
  <2>3. CASE Mark(d)
    BY <2>2, <2>3 DEF Mark
  <2>4. CASE Unmark(d)
    BY <2>2, <2>4 DEF Unmark
  <2>5. CASE Fail(d) \/ FailPull(d)
    <3>1. NoRun.at = "idle" /\ NoRun.conflict = "none"
      BY DEF NoRun
    <3> QED
      BY <2>5, <3>1 DEF Fail, FailPull
  <2> QED
    BY <2>1, <2>3, <2>4, <2>5
<1>5. run'[d] = s
  BY <1>3, <1>4
<1>6. RefusalOK(d)'
  BY <1>1, <1>4, <1>5, RefusalAhead DEF ConvInv, ShowsOK
<1>7. /\ \A e \in Devices : e # d => queue'[e] = queue[e]
      /\ \A i \in DOMAIN queue[d] :
            \E j \in DOMAIN queue'[d] : queue'[d][j].mut = queue[d][i].mut
      /\ \A j \in DOMAIN queue'[d] : \E i \in DOMAIN queue[d] :
            queue'[d][j].mut = queue[d][i].mut /\ queue'[d][j].before = queue[d][i].before
  <2>1. CASE queue' = queue
    BY <2>1
  <2>2. ASSUME NEW muts, NEW flag \in BOOLEAN, Flag(d, muts, flag)
        PROVE  /\ \A e \in Devices : e # d => queue'[e] = queue[e]
               /\ \A i \in DOMAIN queue[d] :
                     \E j \in DOMAIN queue'[d] : queue'[d][j].mut = queue[d][i].mut
               /\ \A j \in DOMAIN queue'[d] : \E i \in DOMAIN queue[d] :
                     queue'[d][j].mut = queue[d][i].mut /\ queue'[d][j].before = queue[d][i].before
    BY <2>2, FlagsShow
  <2> QED
    BY <2>1, <2>2 DEF List, Mark, Fail, Unmark, FailPull, storeVars
<1> QED
  BY <1>2, <1>4, <1>6, <1>7, RunStepShows

\* A request goes out, the answer is lost, the app is killed.
LEMMA ExchangeShows ==
    ASSUME SyncInv, ConvInv, NEW d \in Devices,
           GiveUp(d) \/ Crashes(d) \/ \E h \in Handlers : SendTo(d, h)
    PROVE  ConvInv'
<1>1. PICK r \in Running : r = run[d]
  BY RunShape
<1>2. run \in [Devices -> Running] /\ draft \in [Devices -> Mutation \cup {Nothing}]
      /\ undo \in [Devices -> Deletion \cup {Nothing}]
  BY DEF SyncInv, DeviceTypes
<1>3. UNCHANGED <<queue, view, tomb, cursor, issued, dropped>>
  BY DEF GiveUp, Crashes, SendTo, LoseAnswer, Crash, Send, storeVars
<1>4. \A e \in Devices : e # d => draft'[e] = draft[e] /\ undo'[e] = undo[e]
  BY <1>2 DEF GiveUp, Crashes, SendTo, LoseAnswer, Crash, Send, uiVars
<1>5. AnswersFit' /\ UNCHANGED <<mission, log>>
  <2>1. CASE UNCHANGED serverVars
    BY <2>1, AnswersStay DEF serverVars
  <2>2. ASSUME NEW h \in Handlers, SendTo(d, h)
        PROVE  AnswersFit' /\ UNCHANGED <<mission, log>>
    <3>1. phase \in [Handlers -> {"free", "received", "fresh", "answered"}]
      BY DEF SyncInv, ServerProofs!ServerInv, ServerProofs!Types
    <3>2. request \in [Handlers -> ServerProofs!Mutation \cup {ServerProofs!NoMutation}]
      BY DEF SyncInv, ServerProofs!ServerInv, ServerProofs!Types
    <3>3. /\ phase'[h] = "received" /\ answer' = answer /\ UNCHANGED <<mission, log>>
          /\ \A g \in Handlers : g # h => phase'[g] = phase[g] /\ request'[g] = request[g]
      BY <2>2, <3>1, <3>2 DEF SendTo, Server!Submit, Server!dbVars
    <3> QED
      BY <3>3 DEF ConvInv, AnswersFit
  <2> QED
    BY <2>1, <2>2 DEF GiveUp, Crashes
<1>6. PICK s : /\ run' = [run EXCEPT ![d] = s]
               /\ s.at \notin {"applying", "reconciling", "deferred"}
               /\ \/ s.conflict = "none"
                  \/ s.batch = r.batch /\ s.settled = r.settled /\ s.conflict = r.conflict
  <2>1. ASSUME NEW at \in {"waiting", "failing"}, Goto(d, at)
        PROVE  \E s : /\ run' = [run EXCEPT ![d] = s] /\ s.at = at
                      /\ s.batch = r.batch /\ s.settled = r.settled /\ s.conflict = r.conflict
    <3>1. PICK s : s = [r EXCEPT !.at = at]
      OBVIOUS
    <3>2. s.at = at /\ s.batch = r.batch /\ s.settled = r.settled /\ s.conflict = r.conflict
      BY <3>1 DEF Running
    <3> QED
      BY <1>1, <2>1, <3>1, <3>2 DEF Goto
  <2>2. CASE GiveUp(d)
    BY <2>1, <2>2 DEF GiveUp, LoseAnswer
  <2>3. CASE Crashes(d)
    <3>1. NoRun.at = "idle" /\ NoRun.conflict = "none"
      BY DEF NoRun
    <3> QED
      BY <2>3, <3>1 DEF Crashes, Crash
  <2>4. CASE \E h \in Handlers : SendTo(d, h)
    BY <2>1, <2>4 DEF SendTo, Send
  <2> QED
    BY <2>2, <2>3, <2>4
<1>7. run'[d] = s
  BY <1>2, <1>6
<1>8. RefusalOK(d)'
  BY <1>1, <1>6, <1>7, RefusalAhead DEF ConvInv, ShowsOK
<1> QED
  BY <1>3, <1>4, <1>5, <1>6, <1>8, RunStepShows

\* The answer: what is refused as completed elsewhere is a completion.
LEMMA ReceiveShows ==
    ASSUME SyncInv, ConvInv, NEW d \in Devices, ReceiveFrom(d)
    PROVE  ConvInv'
<1>1. /\ ServerProofs!ServerInv /\ CallOK(d) /\ DeviceTypes /\ RunOK(d)
  BY DEF SyncInv, DeviceOK
<1>2. PICK h \in Handlers : h = call[d]
  BY AnswerIsRight DEF ReceiveFrom
<1>3. PICK mut, a : mut = ToSend(d) /\ a = answer[h]
  OBVIOUS
<1>4. /\ phase[h] = "answered" /\ Receive(d, a) /\ At(d, "waiting")
      /\ UNCHANGED <<queue, view, tomb, cursor, draft, undo, issued, dropped>>
  BY <1>2, <1>3 DEF ReceiveFrom, Receive, storeVars, uiVars
<1>5. a = "error" \/ Right(mut, a)
  <2>1. call[d] # NoHandler
    BY DEF ReceiveFrom
  <2> QED
    BY <1>2, <1>3, <1>4, <2>1, AnswerIsRight
<1>6. PICK s \in Running : Proceeds(d, mut, a, s)
  BY <1>4, <1>5, ReceiveProceeds
<1>7. a = "completed_elsewhere" => mut.op = "complete"
  <2>1. request[h] = mut
    BY <1>1, <1>2, <1>3 DEF CallOK, ReceiveFrom
  <2> QED
    BY <1>3, <1>4, <2>1 DEF ConvInv, AnswersFit
<1>8. run' = [run EXCEPT ![d] = s] /\ s.at \notin {"applying", "reconciling", "deferred"}
  BY <1>6 DEF Proceeds
<1>9. run'[d] = s
  BY <1>1, <1>8 DEF DeviceTypes
<1>10. RefusalOK(d)'
  <2>1. s.conflict = "completed_elsewhere" => s.batch[s.settled] = mut /\ a = s.conflict
    BY <1>3, <1>6 DEF Proceeds, ToSend
  <2>2. s.conflict = "completed_elsewhere" => s.batch[s.settled].op = "complete"
    BY <1>7, <2>1
  <2> QED
    BY <1>8, <1>9, <2>2 DEF RefusalOK, Refused, At
<1>11. AnswersFit' /\ UNCHANGED <<mission, log>>
  <2>1. /\ phase \in [Handlers -> {"free", "received", "fresh", "answered"}]
        /\ request \in [Handlers -> ServerProofs!Mutation \cup {ServerProofs!NoMutation}]
    BY <1>1 DEF ServerProofs!ServerInv, ServerProofs!Types
  <2>2. Server!Release(h)
    BY <1>2 DEF ReceiveFrom
  <2>3. /\ phase'[h] = "free" /\ answer' = answer /\ UNCHANGED <<mission, log>>
        /\ \A g \in Handlers : g # h => phase'[g] = phase[g] /\ request'[g] = request[g]
    BY <2>1, <2>2 DEF Server!Release, Server!dbVars
  <2> QED
    BY <2>3 DEF ConvInv, AnswersFit
<1> QED
  BY <1>4, <1>8, <1>10, <1>11, RunStepShows

\* deleteQueuedMutations of a batch that was accepted.
LEMMA SettleShows ==
    ASSUME SyncInv, ConvInv, NEW d \in Devices, Settle(d), UNCHANGED serverVars
    PROVE  ConvInv'
<1>1. PICK r \in Running : /\ r = run[d] /\ r.settled \in Nat /\ r.settled <= Len(r.batch)
                           /\ DOMAIN r.batch = 1 .. Len(r.batch)
  BY RunShape
<1>2. DeviceTypes /\ RunOK(d) /\ queue[d] \in Seq(Queueing)
  BY DEF SyncInv, DeviceOK, DeviceTypes
<1>3. /\ AnswersFit' /\ UNCHANGED <<mission, log, view, tomb, cursor, draft, undo, issued>>
      /\ DropSettled(d, {}) /\ Goto(d, "listing") /\ r.at = "settling"
  BY <1>1, AnswersStay DEF serverVars, uiVars, Settle, At
<1>4. r.conflict = "none" /\ \A mut \in Settled(d) : Applied(mut)
  BY <1>1, <1>2, <1>3 DEF RunOK, Settled
<1>5. PICK s : /\ run' = [run EXCEPT ![d] = s] /\ s.at = "listing" /\ s.conflict = "none"
  <2>1. PICK s : s = [r EXCEPT !.at = "listing"]
    OBVIOUS
  <2>2. s.at = "listing" /\ s.conflict = "none"
    BY <1>4, <2>1 DEF Running
  <2> QED
    BY <1>1, <1>3, <2>1, <2>2 DEF Goto
<1>6. run'[d] = s
  BY <1>2, <1>5 DEF DeviceTypes
<1>7. RefusalOK(d)'
  BY <1>5, <1>6, RefusalAhead DEF ConvInv, ShowsOK
<1>8. PICK muts, old, q : muts = Settled(d) /\ old = queue[d] /\ q = Without(old, muts)
  OBVIOUS
<1>9. /\ queue' = [queue EXCEPT ![d] = q] /\ dropped' = [dropped EXCEPT ![d] = @ \cup {}]
  BY <1>3, <1>8 DEF DropSettled
<1>10. /\ queue'[d] = q
       /\ \A e \in Devices : e # d => queue'[e] = queue[e] /\ dropped'[e] = dropped[e]
  BY <1>2, <1>9 DEF DeviceTypes
<1>11. /\ \A i \in DOMAIN q : \E k \in DOMAIN old : q[i] = old[k] /\ old[k].mut \notin muts
       /\ \A k \in DOMAIN old : old[k].mut \notin muts => \E i \in DOMAIN q : q[i] = old[k]
  <2>1. PICK t \in Seq(Queueing) : t = old
    BY <1>2, <1>8
  <2>2. LET w == Without(t, muts)
        IN  /\ \A i \in DOMAIN w : \E k \in DOMAIN t : w[i] = t[k] /\ t[k].mut \notin muts
            /\ \A k \in DOMAIN t : t[k].mut \notin muts => \E i \in DOMAIN w : w[i] = t[k]
    BY WithoutKeeps
  <2>3. q = Without(t, muts)
    BY <1>8, <2>1
  <2> QED
    BY <2>1, <2>2, <2>3, Zenon
<1>12. /\ \A i \in DOMAIN queue[d] :
             \/ Applied(queue[d][i].mut)
             \/ \E j \in DOMAIN queue'[d] : queue'[d][j].mut = queue[d][i].mut
       /\ \A j \in DOMAIN queue'[d] : \E i \in DOMAIN queue[d] :
             queue'[d][j].mut = queue[d][i].mut /\ queue'[d][j].before = queue[d][i].before
  BY <1>4, <1>8, <1>10, <1>11
<1>13. \A e \in Devices : e # d => /\ queue'[e] = queue[e] /\ draft'[e] = draft[e]
                                   /\ undo'[e] = undo[e] /\ dropped'[e] = dropped[e]
  BY <1>3, <1>10
<1>14. s.at # "deferred"
  BY <1>5
<1> QED
  BY <1>3, <1>5, <1>7, <1>12, <1>13, <1>14, RunStepShows

\* The server reads a page. When it is the last, it has why something was
\* refused, and what was accepted before.
LEMMA PullShows ==
    ASSUME SyncInv, ConvInv, NEW d \in Devices, PullPage(d)
    PROVE  ConvInv'
<1>1. PICK r \in Running : /\ r = run[d] /\ r.settled \in Nat /\ r.settled <= Len(r.batch)
                           /\ DOMAIN r.batch = 1 .. Len(r.batch)
  BY RunShape
<1>2. DeviceTypes /\ RunOK(d)
  BY DEF SyncInv, DeviceOK
<1>3. Len(log) \in Nat /\ DOMAIN log = 1 .. Len(log) /\ cursor[d] \in Nat /\ cursor[d] <= Len(log)
  BY CursorIn
<1> DEFINE end == Min({Len(log), cursor[d] + BatchSize})
<1>4. PICK upto, more : /\ upto = Min({Len(log), cursor[d] + BatchSize})
                        /\ more \in BOOLEAN /\ (~more => ~(upto < Len(log)))
                        /\ Pull(d, upto, more)
  <2>1. Pull(d, end, end < Len(log))
    BY DEF PullPage
  <2> HIDE DEF end
  <2>2. PICK more : more = (end < Len(log))
    OBVIOUS
  <2>3. Pull(d, end, more)
    BY <2>1, <2>2
  <2>4. ~more => ~(end < Len(log))
    BY <2>2, Zenon
  <2>5. more \in BOOLEAN
    BY <2>2
  <2> QED
    BY <2>3, <2>4, <2>5 DEF end
<1> HIDE DEF end
<1>5. /\ AnswersFit'
      /\ UNCHANGED <<queue, mission, log, view, tomb, cursor, draft, undo, issued, dropped>>
  BY <1>4, AnswersStay DEF PullPage, serverVars, storeVars, uiVars, Pull
<1>6. upto \in Nat /\ upto <= Len(log)
  <2>1. \E x \in {Len(log), cursor[d] + BatchSize} :
            \A y \in {Len(log), cursor[d] + BatchSize} : x <= y
    BY <1>3, BatchSizeAssumption
  <2>2. upto \in {Len(log), cursor[d] + BatchSize} /\ upto <= Len(log)
    BY <1>4, <2>1 DEF Min
  <2> QED
    BY <1>3, <2>2, BatchSizeAssumption
<1>7. PICK s : /\ run' = [run EXCEPT ![d] = s] /\ s.at = "applying"
               /\ s.upto = upto /\ s.more = more
               /\ s.batch = r.batch /\ s.settled = r.settled /\ s.conflict = r.conflict
  <2>1. PICK s : s = [r EXCEPT !.at = "applying", !.upto = upto, !.more = more]
    OBVIOUS
  <2>2. /\ s.at = "applying" /\ s.upto = upto /\ s.more = more
        /\ s.batch = r.batch /\ s.settled = r.settled /\ s.conflict = r.conflict
    BY <2>1 DEF Running
  <2> QED
    BY <1>1, <1>4, <2>1, <2>2 DEF Pull
<1>8. run'[d] = s
  BY <1>2, <1>7 DEF DeviceTypes
<1>9. ASSUME r.conflict # "none", ~more
      PROVE  PulledBy(d, upto)'
  <2>1. upto = Len(log)
    BY <1>3, <1>4, <1>6, <1>9
  <2>2. \A i \in 1 .. r.settled : i = r.settled \/ Back(upto, r.batch[i])
    BY <1>1, <1>2, <1>3, <2>1 DEF RunOK, Applied, Back
  <2>3. Refuted(r.batch[r.settled], r.conflict)
    BY <1>1, <1>2, <1>9 DEF RunOK, Refused
  <2>4. /\ r.conflict = "mission_deleted" => GoneBy(upto, r.batch[r.settled].mission)
        /\ r.conflict = "completed_elsewhere" => DoneBy(upto, r.batch[r.settled].mission)
    BY <1>3, <2>1, <2>3 DEF Refuted, InLog, GoneBy, DoneBy
  <2>5. Refused(d)' = r.batch[r.settled]
    BY <1>7, <1>8 DEF Refused
  <2> QED
    BY <1>5, <1>7, <1>8, <2>2, <2>4, <2>5 DEF PulledBy, Back, GoneBy, DoneBy
<1>10. RefusalOK(d)'
  <2>1. Refused(d)' = Refused(d)
    BY <1>1, <1>7, <1>8 DEF Refused
  <2>2. r.conflict = "completed_elsewhere" => Refused(d).op = "complete"
    BY <1>1 DEF ConvInv, ShowsOK, RefusalOK
  <2>3. At(d, "applying")' /\ ~At(d, "reconciling")' /\ ~At(d, "deferred")'
    BY <1>7, <1>8 DEF At
  <2>4. r.conflict # "none" /\ ~more => PulledBy(d, run[d].upto)'
    <3>1. run'[d].upto = upto
      BY <1>7, <1>8
    <3> QED
      BY <1>9, <3>1 DEF PulledBy, Back, GoneBy, DoneBy
  <2> QED
    BY <1>7, <1>8, <2>1, <2>2, <2>3, <2>4 DEF RefusalOK
<1>11. s.at # "deferred" /\ UNCHANGED <<mission, log, view, tomb, cursor, issued>>
  BY <1>5, <1>7
<1>12. /\ \A e \in Devices : e # d => /\ queue'[e] = queue[e] /\ draft'[e] = draft[e]
                                      /\ undo'[e] = undo[e] /\ dropped'[e] = dropped[e]
       /\ \A i \in DOMAIN queue[d] :
             \E j \in DOMAIN queue'[d] : queue'[d][j].mut = queue[d][i].mut
       /\ \A j \in DOMAIN queue'[d] : \E i \in DOMAIN queue[d] :
             queue'[d][j].mut = queue[d][i].mut /\ queue'[d][j].before = queue[d][i].before
  BY <1>5
<1> QED
  BY <1>5, <1>7, <1>10, <1>11, <1>12, RunStepShows

\* A step that leaves the devices and the log as they are.
LEMMA StillShows ==
    ASSUME SyncInv, ConvInv, UNCHANGED deviceVars, UNCHANGED <<mission, log, phase, request, answer>>
    PROVE  ConvInv'
<1>1. Longer
  BY RowsOfLog DEF Longer
<1>2. \A e \in Devices : Unmoved(e)
  BY DEF Unmoved, deviceVars, storeVars, uiVars
<1>3. \A e \in Devices : ShowsOK(e)'
  BY <1>1, <1>2, OthersShow DEF ConvInv
<1>4. LogEnds' /\ AnswersFit'
  BY DEF ConvInv, LogEnds, AnswersFit, InLog
<1> QED
  BY <1>3, <1>4 DEF ConvInv

\* An edit is opened, the undo bar goes away.
LEMMA OpenStepsShow ==
    ASSUME SyncInv, ConvInv, NEW d \in Devices, EndUndo(d) \/ \E m \in Missions : OpenEdit(d, m),
           UNCHANGED serverVars
    PROVE  ConvInv'
<1>1. /\ UNCHANGED <<queue, view, tomb, cursor, run, issued, dropped>>
      /\ UNCHANGED <<mission, log, phase, request, answer>>
  BY DEF EndUndo, OpenEdit, storeVars, serverVars
<1>2. draft \in [Devices -> Mutation \cup {Nothing}] /\ undo \in [Devices -> Deletion \cup {Nothing}]
  BY DEF SyncInv, DeviceTypes
<1>3. \A e \in Devices : e # d => draft'[e] = draft[e] /\ undo'[e] = undo[e]
  BY <1>2 DEF EndUndo, OpenEdit
<1>4. \A e \in Devices : e # d => Unmoved(e)
  BY <1>1, <1>3 DEF Unmoved
<1>5. Longer
  BY <1>1, RowsOfLog DEF Longer
<1>6. RefusalOK(d)' /\ Keeps(d)
  BY <1>1, <1>5, RefusalKept DEF ConvInv, ShowsOK, Keeps
<1>7. ShowsOK(d)'
  BY <1>5, <1>6, ShowsKept DEF ConvInv
<1> QED
  BY <1>1, <1>4, <1>7, AnswersStay, OneShows

\* The user queues a mutation: it is to come back, and so are the others.
LEMMA EnqueueOut ==
    ASSUME SyncInv, NEW d \in Devices, NEW mut, NEW cached, Enqueues(d, mut, cached),
           UNCHANGED <<serverVars, call>>
    PROVE  /\ Mine(d)' = Mine(d) \cup {mut} /\ mut \notin Mine(d)
           /\ \A w : Out(d, w) => Out(d, w)'
           /\ Out(d, mut)'
           /\ \A w \in Mine(d) : BeforeOf(d, w)' => BeforeOf(d, w)
           /\ BeforeOf(d, mut)' => view[d][mut.mission].pending
           /\ \A w : Leaving(d, w)' => Leaving(d, w)
           /\ ~Leaving(d, mut)
<1>1. /\ DeviceTypes /\ IssuedOK(d) /\ QueueOK(d) /\ RunOK(d) /\ LoggedOK
      /\ \A e \in Devices : IssuedOK(e)
  BY DEF SyncInv, DeviceOK
<1>2. PICK n \in Nat \ {0} :
          /\ n = Len(issued[d]) + 1 /\ n <= MaxIssued /\ mut.id = <<d, n>>
          /\ DOMAIN issued[d] = 1 .. n - 1 /\ DOMAIN issued'[d] = 1 .. n
          /\ \A k \in 1 .. n - 1 : issued'[d][k] = issued[d][k]
          /\ issued'[d][n] = mut
  BY EnqueueIssues
<1>3. Mine(d)' = Mine(d) \cup {mut}
  BY <1>2 DEF Mine
<1>4. mut \notin Mine(d)
  <2> SUFFICES ASSUME NEW k \in DOMAIN issued[d], issued[d][k] = mut
               PROVE  FALSE
    BY DEF Mine
  <2>1. issued[d][k].id = <<d, k>>
    BY <1>1, NumbersOf
  <2> QED
    BY <1>2, <2>1
<1>5. \A w : Made(d, w) <=> w \in Mine(d)
  BY DEF Made, Mine
<1>6. log' = log /\ cursor' = cursor /\ run' = run
  BY DEF Enqueues, Enqueue, serverVars
<1>7. PICK q \in Seq(Queueing) : q = queue[d]
  BY <1>1 DEF DeviceTypes
<1>8. PICK p \in BOOLEAN : p = view[d][mut.mission].pending
  <2>1. mut.mission \in Missions
    BY DEF Enqueues, Mutation
  <2> QED
    BY <2>1, ShownOf
<1>9. PICK e \in Queueing : e.mut = mut /\ e.before = p
                            /\ e = [mut |-> mut, inFlight |-> FALSE, before |-> p]
  <2>1. mut \in Mutation
    BY DEF Enqueues
  <2> QED
    BY <2>1 DEF Queueing
<1>10. queue'[d] = Append(q, e)
  <2>1. queue' = [queue EXCEPT ![d] = Append(q, e)]
    BY <1>7, <1>8, <1>9 DEF Enqueues, Enqueue
  <2> QED
    BY <1>1, <2>1 DEF DeviceTypes
<1>11. PICK t \in Seq(Queueing) : t = Append(q, e)
  BY AppendProperties
<1>12. PICK l \in Nat \ {0} : l = Len(q) + 1
  OBVIOUS
<1>13. /\ DOMAIN q = 1 .. l - 1 /\ DOMAIN t = 1 .. l /\ \A i \in 1 .. l - 1 : t[i] = q[i]
       /\ t[l] = e
  BY <1>11, <1>12
<1>14. \A i \in 1 .. l - 1 : q[i].mut \in Mine(d)
  BY <1>1, <1>5, <1>7, <1>13 DEF QueueOK
<1>15. \A w \in Mine(d) : BeforeOf(d, w)' => BeforeOf(d, w)
  <2>1. ASSUME NEW w \in Mine(d), NEW i \in 1 .. l, t[i].mut = w, t[i].before
        PROVE  \E k \in 1 .. l - 1 : q[k].mut = w /\ q[k].before
    <3>1. i # l
      BY <1>4, <1>9, <1>13, <2>1
    <3> QED
      BY <1>13, <2>1, <3>1
  <2> QED
    BY <1>7, <1>10, <1>11, <1>13, <2>1 DEF BeforeOf
<1>16. BeforeOf(d, mut)' => p
  <2>1. ASSUME NEW i \in 1 .. l, t[i].mut = mut, t[i].before
        PROVE  p
    <3>1. i = l
      BY <1>4, <1>13, <1>14, <2>1
    <3> QED
      BY <1>9, <1>13, <2>1, <3>1
  <2> QED
    BY <1>10, <1>11, <1>13, <2>1 DEF BeforeOf
<1>17. \A w : w \in Queued(d) => w \in Queued(d)'
  BY <1>7, <1>10, <1>11, <1>13 DEF Queued
<1>18. mut \in Queued(d)'
  BY <1>9, <1>10, <1>11, <1>13 DEF Queued
<1>19. /\ \A w : Back(cursor[d], w)' <=> Back(cursor[d], w)
       /\ \A w : Applied(w)' <=> Applied(w)
  BY <1>6 DEF Back, Applied
<1>20. \A w : Out(d, w) => Out(d, w)'
  BY <1>3, <1>17, <1>19 DEF Out
<1>21. ~Back(cursor[d], mut)
  <2> SUFFICES ASSUME NEW i \in 1 .. cursor[d], log[i].by = mut
               PROVE  FALSE
    BY DEF Back
  <2>1. i \in DOMAIN log
    BY CursorIn
  <2>2. n \in 1 .. MaxIssued
    BY <1>2, MaxIssuedAssumption
  <2>3. n \in DOMAIN issued[d]
    BY <1>1, <1>2, <2>1, <2>2, LoggedIsIssued
  <2> QED
    BY <1>2, <2>3
<1>22. Out(d, mut)'
  BY <1>3, <1>18, <1>19, <1>21 DEF Out
<1>23. \A w : Leaving(d, w)' => Leaving(d, w)
  BY <1>6 DEF Leaving, At, Refused
<1>24. ~Leaving(d, mut)
  <2> SUFFICES ASSUME run[d].conflict # "none", mut = Refused(d)
               PROVE  FALSE
    BY DEF Leaving
  <2>1. PICK r \in Running : /\ r = run[d] /\ r.settled \in Nat /\ r.settled <= Len(r.batch)
                             /\ DOMAIN r.batch = 1 .. Len(r.batch)
    BY RunShape
  <2>2. r.settled \in DOMAIN r.batch
    BY <1>1, <2>1 DEF RunOK
  <2>3. Made(d, Refused(d))
    BY <1>1, <2>1, <2>2 DEF RunOK, Refused
  <2> QED
    BY <1>4, <1>5, <2>3
<1> QED
  BY <1>3, <1>4, <1>8, <1>15, <1>16, <1>20, <1>22, <1>23, <1>24

\* What the device shows then is right.
LEMMA EnqueueShows ==
    ASSUME SyncInv, ConvInv, NEW d \in Devices, NEW mut, NEW cached, Enqueues(d, mut, cached),
           Fits(d, mut, cached), UNCHANGED <<serverVars, call>>
    PROVE  ConvInv'
<1>1. DeviceTypes /\ ShowsOK(d) /\ CursorOK(d) /\ mut.mission \in Missions /\ cached \in CachedRow
  BY DEF SyncInv, ConvInv, DeviceOK, Enqueues, Mutation
<1>2. /\ UNCHANGED <<mission, log, phase, request, answer>> /\ UNCHANGED <<cursor, run, dropped>>
      /\ view' = [view EXCEPT ![d][mut.mission] = cached]
  BY DEF Enqueues, Enqueue, serverVars
<1>3. /\ Mine(d)' = Mine(d) \cup {mut} /\ mut \notin Mine(d)
      /\ \A w : Out(d, w) => Out(d, w)'
      /\ Out(d, mut)'
      /\ \A w \in Mine(d) : BeforeOf(d, w)' => BeforeOf(d, w)
      /\ BeforeOf(d, mut)' => view[d][mut.mission].pending
      /\ \A w : Leaving(d, w)' => Leaving(d, w)
      /\ ~Leaving(d, mut)
  BY EnqueueOut
<1>4. /\ view'[d][mut.mission] = cached
      /\ \A m \in Missions : m # mut.mission => view'[d][m] = view[d][m]
      /\ \A e \in Devices : e # d => view'[e] = view[e]
  BY <1>1, <1>2 DEF DeviceTypes
<1>5. \A e \in Devices : e # d => Unmoved(e)
  <2>1. \A e \in Devices : e # d => queue'[e] = queue[e]
    BY EnqueueQueues
  <2>2. \A e \in Devices : e # d => issued'[e] = issued[e]
    BY EnqueueIssues
  <2> QED
    BY <1>2, <1>4, <2>1, <2>2 DEF Enqueues, Unmoved
<1>6. Longer
  BY <1>2, RowsOfLog DEF Longer
<1>7. RefusalOK(d)'
  BY <1>1, <1>2, <1>6, RefusalKept DEF ShowsOK
<1>8. PICK c : c = cursor[d]
  OBVIOUS
<1>9. \A m : GoneBy(cursor[d], m)' <=> GoneBy(cursor[d], m)
  BY <1>2 DEF GoneBy
<1>10. \A m, row : Says(cursor[d], m, row)' <=> Says(cursor[d], m, row)
  BY <1>2 DEF Says, GoneBy, LastBy
<1>11. \A m \in Missions : Deleting(d, m) => Deleting(d, m)'
  BY <1>3 DEF Deleting
<1>12. \A m \in Missions : Changed(d, m) => Changed(d, m)'
  BY <1>3 DEF Changed
<1>13. ASSUME NEW m \in Missions
       PROVE  GoneOK(d, m)'
  <2>1. GoneOK(d, m)
    BY <1>1 DEF ShowsOK
  <2>2. GoneBy(cursor[d], m) => view'[d][m] = Cached(NoRow)
    <3>1. CASE m # mut.mission
      BY <1>4, <2>1, <3>1 DEF GoneOK
    <3>2. ASSUME m = mut.mission, GoneBy(cursor[d], m)
          PROVE  view'[d][m] = Cached(NoRow)
      <4>1. m \in tomb[d] /\ Row(d, m).stage = "absent"
        BY <1>1, <3>2 DEF CursorOK, GoneBy
      <4>2. cached = view[d][m]
        BY <3>2, <4>1 DEF Fits
      <4> QED
        BY <1>4, <2>1, <3>2, <4>2 DEF GoneOK
    <3> QED
      BY <3>1, <3>2
  <2>3. m \in tomb'[d] => GoneBy(cursor[d], m) \/ Deleting(d, m)'
    <3>1. CASE m \in tomb[d]
      BY <1>11, <2>1, <3>1 DEF GoneOK
    <3>2. CASE m = mut.mission /\ mut.op = "delete"
      BY <1>3, <3>2 DEF Deleting
    <3> QED
      BY <3>1, <3>2 DEF Fits
  <2> QED
    BY <1>9, <2>2, <2>3 DEF GoneOK
<1>14. ASSUME NEW m \in Missions, m # mut.mission
       PROVE  Shown(d, m)'
  <2>1. Shown(d, m)
    BY <1>1 DEF ShowsOK
  <2>2. view'[d][m] = view[d][m] /\ Row(d, m)' = Row(d, m)
    BY <1>4, <1>14 DEF Row
  <2>3. AsLogged(d, m) => AsLogged(d, m)'
    BY <1>2, <2>2 DEF AsLogged, Says, GoneBy, LastBy
  <2>4. Open(d, m) => Open(d, m)'
    <3>1. PICK row : row = [Row(d, m) EXCEPT !.done = FALSE]
      OBVIOUS
    <3>2. row = [Row(d, m) EXCEPT !.done = FALSE]'
      BY <2>2, <3>1
    <3>3. Says(cursor[d], m, row) => Says(cursor[d], m, row)'
      BY <1>10
    <3> QED
      BY <2>2, <3>1, <3>2, <3>3 DEF Open
  <2>5. \A w \in Mine(d) : CompletedBy(d, m, w) => CompletedBy(d, m, w)'
    BY <1>3, <2>2 DEF CompletedBy
  <2> QED
    BY <1>3, <1>12, <2>1, <2>3, <2>4, <2>5 DEF Shown
<1>15. ASSUME NEW m, m = mut.mission
       PROVE  Shown(d, m)'
  <2>1. CASE mut.op # "complete"
    <3>1. Changed(d, m)'
      BY <1>3, <1>15, <2>1 DEF Changed
    <3> QED
      BY <3>1 DEF Shown
  <2>2. CASE mut.op = "complete"
    <3>1. PICK old \in MissionRow : old = Row(d, m)
      BY <1>1, <1>15, ShownOf
    <3>2. PICK new : new = [old EXCEPT !.done = TRUE]
      OBVIOUS
    <3>3. /\ old.stage = "active" /\ ~old.done /\ old.version = mut.base
          /\ cached = [row |-> new, pending |-> TRUE]
      BY <1>15, <2>2, <3>1, <3>2 DEF Fits
    <3>4. /\ view'[d][m].pending /\ Row(d, m)' = new
      BY <1>4, <1>15, <3>3 DEF Row
    <3>5. new.stage = "active" /\ new.version = mut.base /\ [new EXCEPT !.done = FALSE] = [old EXCEPT !.done = FALSE]
      BY <3>2, <3>3 DEF MissionRow
    <3>6. [old EXCEPT !.done = FALSE] = old
      BY <3>1, <3>3 DEF MissionRow
    <3>7. \A row : row = [old EXCEPT !.done = FALSE] /\ Says(cursor[d], m, row) => Open(d, m)'
      <4> TAKE row
      <4>1. Says(cursor[d], m, row) => Says(cursor[d], m, row)'
        BY <1>10
      <4>2. row = [old EXCEPT !.done = FALSE] => row = [Row(d, m) EXCEPT !.done = FALSE]'
        BY <3>4, <3>5
      <4> QED
        BY <3>4, <3>5, <4>1, <4>2 DEF Open
    <3>8. CASE AsLogged(d, m)
      <4>1. Open(d, m)'
        BY <3>1, <3>6, <3>7, <3>8 DEF AsLogged
      <4>2. CompletedBy(d, m, mut)'
        BY <1>3, <1>15, <2>2, <3>4, <3>5, <3>8 DEF CompletedBy, AsLogged
      <4> QED
        BY <1>3, <4>1, <4>2 DEF Shown
    <3>9. CASE Changed(d, m)
      BY <1>1, <1>12, <1>15, <3>9 DEF Shown
    <3>10. CASE Open(d, m) /\ \E w \in Mine(d) : CompletedBy(d, m, w)
      <4>1. PICK w \in Mine(d) : CompletedBy(d, m, w)
        BY <3>10
      <4>2. Open(d, m)'
        BY <3>1, <3>7, <3>10 DEF Open
      <4>3. w.base = mut.base
        BY <3>1, <3>3, <4>1 DEF CompletedBy
      <4>4. CompletedBy(d, m, w)'
        BY <1>3, <3>4, <3>5, <4>1, <4>3 DEF CompletedBy
      <4> QED
        BY <1>3, <4>1, <4>2, <4>4 DEF Shown
    <3> QED
      BY <1>1, <1>15, <3>8, <3>9, <3>10 DEF ShowsOK, Shown
  <2> QED
    BY <2>1, <2>2
<1>16. \A m \in Missions : Shown(d, m)'
  BY <1>14, <1>15
<1>17. ShowsOK(d)'
  BY <1>7, <1>13, <1>16 DEF ShowsOK
<1> QED
  BY <1>2, <1>5, <1>17, AnswersStay, OneShows

\* A rejected completion: where the row is put back, it is what the log said,
\* or another completion of it is still to come back.
LEMMA RestoreShows ==
    ASSUME SyncInv, NEW d \in Devices, NEW mut \in Mutation, NEW m \in Missions,
           m = mut.mission, ShowsOK(d), At(d, "reconciling"), mut = Refused(d),
           MustRestore(d, mut), CanRestore(d, mut, BeforeOf(d, mut)),
           UNCHANGED <<issued, queue, cursor, log, tomb>>,
           Refused(d)' = mut,
           view'[d][m] = RestoredRow(d, m, BeforeOf(d, mut))
    PROVE  GoneOK(d, m)' /\ Shown(d, m)'
<1>1. PICK old \in CachedRow : old = view[d][m]
  BY ShownOf
<1>2. PICK row \in MissionRow : row = old.row /\ row = Row(d, m)
  BY <1>1, ShownOf DEF CachedRow
<1>3. PICK before \in BOOLEAN : before = BeforeOf(d, mut)
  BY DEF BeforeOf
<1>4. PICK back : back = [row EXCEPT !.done = FALSE]
  OBVIOUS
<1>5. PICK new : /\ new = [old EXCEPT !.row = back, !.pending = before]
                 /\ new = RestoredRow(d, m, before)
  BY <1>1, <1>2, <1>4 DEF RestoredRow
<1>6. /\ new.row = back /\ new.pending = before
      /\ back.stage = row.stage /\ back.version = row.version
      /\ [back EXCEPT !.done = FALSE] = back
  BY <1>4, <1>5 DEF CachedRow, MissionRow
<1>7. view'[d][m] = new /\ Row(d, m)' = back
  BY <1>3, <1>5, <1>6 DEF Row
<1>8. row.stage # "absent"
  BY <1>2 DEF MustRestore
<1>9. \A k : GoneBy(cursor[d], k)' <=> GoneBy(cursor[d], k)
  BY DEF GoneBy
<1>10. \A k, x : Says(cursor[d], k, x)' <=> Says(cursor[d], k, x)
  BY DEF Says, GoneBy, LastBy
<1>11. /\ Mine(d)' = Mine(d)
       /\ \A w : Out(d, w)' <=> Out(d, w)
       /\ \A w : BeforeOf(d, w)' <=> BeforeOf(d, w)
  BY DEF Mine, Out, Back, Queued, Applied, BeforeOf
<1>12. GoneOK(d, m)'
  <2>1. GoneOK(d, m)
    BY DEF ShowsOK
  <2>2. ~GoneBy(cursor[d], m)
    <3> SUFFICES ASSUME GoneBy(cursor[d], m)
                 PROVE  FALSE
      OBVIOUS
    <3>1. old = Cached(NoRow)
      BY <1>1, <2>1 DEF GoneOK
    <3>2. Cached(NoRow).row.stage = "absent"
      BY DEF Cached, NoRow
    <3> QED
      BY <1>2, <1>8, <3>1, <3>2
  <2>3. Deleting(d, m) => Deleting(d, m)'
    BY <1>11 DEF Deleting
  <2> QED
    BY <1>9, <2>1, <2>2, <2>3 DEF GoneOK
<1>13. CASE AsLogged(d, m)
  <2>1. ~old.pending
    BY <1>1, <1>13 DEF AsLogged
  <2>2. old = new
    <3>1. \/ view[d][m] = RestoredRow(d, m, before)
          \/ view[d][m].pending
      BY <1>3 DEF CanRestore
    <3> QED
      BY <1>1, <1>5, <2>1, <3>1
  <2>3. Says(cursor[d], m, back)
    BY <1>2, <1>6, <1>13, <2>2 DEF AsLogged
  <2>4. Says(cursor[d], m, back)'
    BY <1>10, <2>3
  <2>5. ~new.pending
    BY <2>1, <2>2
  <2>6. AsLogged(d, m)'
    BY <1>7, <2>4, <2>5 DEF AsLogged
  <2> QED
    BY <1>12, <2>6 DEF Shown
<1>14. CASE Changed(d, m)
  <2>1. Changed(d, m)'
    BY <1>11, <1>14 DEF Changed
  <2> QED
    BY <1>12, <2>1 DEF Shown
<1>15. ASSUME Open(d, m), NEW w \in Mine(d), CompletedBy(d, m, w)
       PROVE  Shown(d, m)'
  <2>1. row.stage = "active" /\ Says(cursor[d], m, back)
    BY <1>2, <1>4, <1>15 DEF Open
  <2>2. Says(cursor[d], m, back)'
    BY <1>10, <2>1
  <2>3. CASE ~before
    BY <1>6, <1>7, <2>2, <2>3 DEF Shown, AsLogged
  <2>4. CASE before
    <3>1. w # mut
      BY <1>3, <1>15, <2>4 DEF CompletedBy
    <3>2. ~Leaving(d, w)'
      BY <3>1 DEF Leaving
    <3>3. CompletedBy(d, m, w)'
      BY <1>2, <1>6, <1>7, <1>11, <1>15, <3>2 DEF CompletedBy
    <3>4. back = [Row(d, m) EXCEPT !.done = FALSE]'
      BY <1>6, <1>7
    <3>5. Open(d, m)'
      BY <1>6, <1>7, <2>1, <2>2, <2>4, <3>4 DEF Open
    <3> QED
      BY <1>11, <3>3, <3>5 DEF Shown
  <2> QED
    BY <2>3, <2>4
<1> QED
  BY <1>12, <1>13, <1>14, <1>15 DEF ShowsOK, Shown

\* A mission that reconciling leaves alone is shown as before.
LEMMA AlongsideShows ==
    ASSUME SyncInv, NEW d \in Devices, NEW k \in Missions, ShowsOK(d), At(d, "reconciling"),
           UNCHANGED <<issued, queue, cursor, log, tomb>>, view'[d][k] = view[d][k],
           Refused(d)' = Refused(d), run'[d].conflict = run[d].conflict,
           k # Refused(d).mission \/ ~MustRestore(d, Refused(d))
    PROVE  GoneOK(d, k)' /\ Shown(d, k)'
<1>1. Row(d, k)' = Row(d, k)
  BY DEF Row
<1>2. \A m : GoneBy(cursor[d], m)' <=> GoneBy(cursor[d], m)
  BY DEF GoneBy
<1>3. \A m, x : Says(cursor[d], m, x)' <=> Says(cursor[d], m, x)
  BY DEF Says, GoneBy, LastBy
<1>4. /\ Mine(d)' = Mine(d)
      /\ \A w : Out(d, w)' <=> Out(d, w)
      /\ \A w : BeforeOf(d, w)' <=> BeforeOf(d, w)
  BY DEF Mine, Out, Back, Queued, Applied, BeforeOf
<1>5. GoneOK(d, k)'
  <2>1. Deleting(d, k) => Deleting(d, k)'
    BY <1>4 DEF Deleting
  <2> QED
    BY <1>2, <2>1 DEF GoneOK, ShowsOK
<1>6. AsLogged(d, k) => AsLogged(d, k)'
  <2>1. PICK x : x = Row(d, k)
    OBVIOUS
  <2>2. Says(cursor[d], k, x) => Says(cursor[d], k, x)'
    BY <1>3
  <2> QED
    BY <1>1, <2>1, <2>2 DEF AsLogged
<1>7. Changed(d, k) => Changed(d, k)'
  BY <1>4 DEF Changed
<1>8. Open(d, k) => Open(d, k)'
  <2>1. PICK x : x = [Row(d, k) EXCEPT !.done = FALSE]
    OBVIOUS
  <2>2. x = [Row(d, k) EXCEPT !.done = FALSE]'
    BY <1>1, <2>1
  <2>3. Says(cursor[d], k, x) => Says(cursor[d], k, x)'
    BY <1>3
  <2> QED
    BY <1>1, <2>1, <2>2, <2>3 DEF Open
<1>9. ASSUME Open(d, k), NEW w \in Mine(d), CompletedBy(d, k, w)
      PROVE  CompletedBy(d, k, w)'
  <2>1. ~Leaving(d, w)'
    <3> SUFFICES ASSUME run[d].conflict = "mission_updated", w = Refused(d)
                 PROVE  FALSE
      BY DEF Leaving
    <3>1. w.mission = k /\ Row(d, k).version = w.base /\ Row(d, k).stage = "active"
      BY <1>9 DEF CompletedBy, Open
    <3>2. Row(d, k).version <= w.base
      BY <3>1, ShownOf
    <3> QED
      BY <3>1, <3>2 DEF MustRestore
  <2> QED
    BY <1>1, <1>4, <1>9, <2>1 DEF CompletedBy
<1> QED
  BY <1>4, <1>5, <1>6, <1>7, <1>8, <1>9 DEF Shown, ShowsOK

\* applyAuthenticatedConflicts.
LEMMA ReconcileShows ==
    ASSUME SyncInv, ConvInv, NEW d \in Devices, Reconcile(d), UNCHANGED <<serverVars, call>>
    PROVE  ConvInv'
<1>1. PICK r \in Running : /\ r = run[d] /\ r.settled \in Nat /\ r.settled <= Len(r.batch)
                           /\ DOMAIN r.batch = 1 .. Len(r.batch) /\ r.batch \in Seq(Mutation)
                           /\ Len(r.batch) \in Nat
  BY RunShape
<1>2. DeviceTypes /\ RunOK(d) /\ ShowsOK(d) /\ RefusalOK(d)
  BY DEF SyncInv, DeviceOK, ConvInv, ShowsOK
<1>3. /\ r.at = "reconciling" /\ At(d, "reconciling")
      /\ UNCHANGED <<mission, log, queue, tomb, cursor, draft, undo, issued, dropped>>
      /\ AnswersFit'
  BY <1>1, AnswersStay DEF Reconcile, At, uiVars, serverVars
<1>4. r.conflict # "none" /\ r.settled > 0
  BY <1>1, <1>2, <1>3 DEF RunOK
<1>5. PICK mut \in Mutation : mut = Refused(d) /\ mut = r.batch[r.settled]
  <2>1. r.settled \in 1 .. Len(r.batch)
    BY <1>1, <1>4
  <2> QED
    BY <1>1, <2>1 DEF Refused
<1>6. PICK m \in Missions : m = mut.mission
  BY DEF Mutation
<1>7. CASE run' = [run EXCEPT ![d] = NoRun] /\ UNCHANGED view
  <2>1. PICK s : s = NoRun
    OBVIOUS
  <2>2. s.at = "idle" /\ s.conflict = "none"
    BY <2>1 DEF NoRun
  <2>3. run' = [run EXCEPT ![d] = s] /\ run'[d] = s
    BY <1>2, <1>7, <2>1 DEF DeviceTypes
  <2>4. RefusalOK(d)'
    BY <1>2, <2>2, <2>3, RefusalAhead
  <2>5. /\ \A e \in Devices : e # d => /\ queue'[e] = queue[e] /\ draft'[e] = draft[e]
                                       /\ undo'[e] = undo[e] /\ dropped'[e] = dropped[e]
        /\ \A i \in DOMAIN queue[d] :
              \E j \in DOMAIN queue'[d] : queue'[d][j].mut = queue[d][i].mut
        /\ \A j \in DOMAIN queue'[d] : \E i \in DOMAIN queue[d] :
              queue'[d][j].mut = queue[d][i].mut /\ queue'[d][j].before = queue[d][i].before
        /\ UNCHANGED <<mission, log, view, tomb, cursor, issued>> /\ s.at # "deferred"
    BY <1>3, <1>7, <2>2
  <2> QED
    BY <1>3, <2>3, <2>4, <2>5, RunStepShows
<1>8. ASSUME Goto(d, "deferred"),
             \/ ~MustRestore(d, mut) /\ UNCHANGED view
             \/ /\ MustRestore(d, mut) /\ CanRestore(d, mut, BeforeOf(d, mut))
                /\ view' = [view EXCEPT ![d][m] = RestoredRow(d, m, BeforeOf(d, mut))]
      PROVE  ConvInv'
  <2>1. PICK s : s = [r EXCEPT !.at = "deferred"]
    OBVIOUS
  <2>2. /\ s.at = "deferred" /\ s.batch = r.batch /\ s.settled = r.settled
        /\ s.conflict = r.conflict
    BY <2>1 DEF Running
  <2>3. run' = [run EXCEPT ![d] = s]
    BY <1>1, <1>8, <2>1 DEF Goto
  <2>4. run'[d] = s /\ \A e \in Devices : e # d => run'[e] = run[e]
    BY <1>2, <2>3 DEF DeviceTypes
  <2>5. Refused(d)' = mut /\ run'[d].conflict = run[d].conflict
    BY <1>1, <1>5, <2>2, <2>4 DEF Refused
  <2>6. /\ \A e \in Devices : e # d => view'[e] = view[e]
        /\ \A k \in Missions : k # m \/ ~MustRestore(d, mut) => view'[d][k] = view[d][k]
        /\ MustRestore(d, mut) => /\ CanRestore(d, mut, BeforeOf(d, mut))
                                  /\ view'[d][m] = RestoredRow(d, m, BeforeOf(d, mut))
    BY <1>2, <1>8 DEF DeviceTypes
  <2>7. \A e \in Devices : e # d => Unmoved(e)
    BY <1>3, <2>4, <2>6 DEF Unmoved
  <2>8. RefusalOK(d)'
    <3>1. r.conflict = "completed_elsewhere" => mut.op = "complete"
      BY <1>1, <1>2, <1>5 DEF RefusalOK
    <3>2. PulledBy(d, cursor[d])
      BY <1>2, <1>3 DEF RefusalOK
    <3>3. PulledBy(d, cursor[d])'
      BY <1>1, <1>3, <1>5, <2>2, <2>4, <2>5, <3>2 DEF PulledBy, Back, GoneBy, DoneBy
    <3>4. ~At(d, "applying")'
      BY <2>2, <2>4 DEF At
    <3> QED
      BY <2>2, <2>4, <2>5, <3>1, <3>3, <3>4 DEF RefusalOK
  <2>9. ASSUME NEW k \in Missions
        PROVE  GoneOK(d, k)' /\ Shown(d, k)'
    <3>1. CASE k = m /\ MustRestore(d, mut)
      BY <1>2, <1>3, <1>5, <1>6, <2>5, <2>6, <3>1, RestoreShows
    <3>2. CASE k # m \/ ~MustRestore(d, mut)
      <4>1. view'[d][k] = view[d][k]
        BY <2>6, <3>2
      <4>2. k # Refused(d).mission \/ ~MustRestore(d, Refused(d))
        BY <1>5, <1>6, <3>2
      <4>3. Refused(d)' = Refused(d)
        BY <1>5, <2>5
      <4> QED
        BY <1>2, <1>3, <2>5, <4>1, <4>2, <4>3, AlongsideShows
    <3> QED
      BY <3>1, <3>2
  <2>10. ShowsOK(d)'
    BY <2>8, <2>9 DEF ShowsOK
  <2> QED
    BY <1>3, <2>7, <2>10, OneShows
<1> QED
  BY <1>5, <1>6, <1>7, <1>8 DEF Reconcile

\* What was refused goes: it does not explain anything that is shown.
LEMMA SettleRefusedShows ==
    ASSUME SyncInv, ConvInv, NEW d \in Devices, SettleRefused(d), UNCHANGED <<serverVars, call>>
    PROVE  ConvInv'
<1>1. PICK r \in Running : /\ r = run[d] /\ r.settled \in Nat /\ r.settled <= Len(r.batch)
                           /\ DOMAIN r.batch = 1 .. Len(r.batch)
  BY RunShape
<1>2. DeviceTypes /\ RunOK(d) /\ ShowsOK(d) /\ RefusalOK(d) /\ queue[d] \in Seq(Queueing) /\ LogEnds
  BY DEF SyncInv, DeviceOK, ConvInv, ShowsOK, DeviceTypes
<1>3. PICK x, why : x = Refused(d) /\ why = {[mut |-> Refused(d), why |-> run[d].conflict]}
  OBVIOUS
<1>4. /\ AnswersFit' /\ UNCHANGED <<mission, log, view, tomb, cursor, draft, undo, issued>>
      /\ DropSettled(d, why) /\ run' = [run EXCEPT ![d] = NoRun]
      /\ At(d, "deferred") /\ r.at = "deferred"
  BY <1>1, <1>3, AnswersStay DEF serverVars, uiVars, SettleRefused, At
<1>5. PICK muts, old, q : muts = Settled(d) /\ old = queue[d] /\ q = Without(old, muts)
  OBVIOUS
<1>6. /\ queue' = [queue EXCEPT ![d] = q] /\ dropped' = [dropped EXCEPT ![d] = @ \cup why]
  BY <1>4, <1>5 DEF DropSettled
<1>7. /\ queue'[d] = q
      /\ \A e \in Devices : e # d => queue'[e] = queue[e] /\ dropped'[e] = dropped[e]
  BY <1>2, <1>6 DEF DeviceTypes
<1>8. /\ \A i \in DOMAIN q : \E k \in DOMAIN old : q[i] = old[k] /\ old[k].mut \notin muts
      /\ \A k \in DOMAIN old : old[k].mut \notin muts => \E i \in DOMAIN q : q[i] = old[k]
  <2>1. PICK t \in Seq(Queueing) : t = old
    BY <1>2, <1>5
  <2>2. LET w == Without(t, muts)
        IN  /\ \A i \in DOMAIN w : \E k \in DOMAIN t : w[i] = t[k] /\ t[k].mut \notin muts
            /\ \A k \in DOMAIN t : t[k].mut \notin muts => \E i \in DOMAIN w : w[i] = t[k]
    BY WithoutKeeps, SMTT(30)
  <2>3. q = Without(t, muts)
    BY <1>5, <2>1
  <2> QED
    BY <2>1, <2>2, <2>3, Zenon
<1>9. run'[d] = NoRun /\ \A e \in Devices : e # d => run'[e] = run[e]
  BY <1>2, <1>4 DEF DeviceTypes
<1>10. NoRun.at = "idle" /\ NoRun.conflict = "none"
  BY DEF NoRun
<1>11. \A e \in Devices : e # d => Unmoved(e)
  BY <1>4, <1>7, <1>9 DEF Unmoved
<1>12. RefusalOK(d)'
  BY <1>2, <1>9, <1>10, RefusalAhead
<1>13. /\ r.conflict \in Refusals /\ Refuted(x, r.conflict)
       /\ PulledBy(d, cursor[d]) /\ (r.conflict = "completed_elsewhere" => x.op = "complete")
  <2>1. r.conflict # "none" /\ Refuted(x, r.conflict)
    BY <1>1, <1>2, <1>3, <1>4 DEF RunOK
  <2>2. r.conflict \in Refusals
    BY <2>1 DEF Running
  <2> QED
    BY <1>1, <1>2, <1>3, <1>4, <2>1, <2>2 DEF RefusalOK
<1>14. \A m : GoneBy(cursor[d], m)' <=> GoneBy(cursor[d], m)
  BY <1>4 DEF GoneBy
<1>15. \A m, row : Says(cursor[d], m, row)' <=> Says(cursor[d], m, row)
  BY <1>4 DEF Says, GoneBy, LastBy
<1>16. Mine(d)' = Mine(d)
  BY <1>4 DEF Mine
<1>17. \A w : Out(d, w) /\ w # x => Out(d, w)'
  <2> TAKE w
  <2> SUFFICES ASSUME Out(d, w), w # x
               PROVE  Out(d, w)'
    OBVIOUS
  <2>1. w \notin muts
    <3> SUFFICES ASSUME NEW i \in 1 .. r.settled, w = r.batch[i]
                 PROVE  FALSE
      BY <1>1, <1>5 DEF Settled
    <3>1. i # r.settled
      BY <1>1, <1>3 DEF Refused
    <3>2. Back(cursor[d], w)
      BY <1>1, <1>13, <3>1 DEF PulledBy
    <3> QED
      BY <3>2 DEF Out
  <2>2. w \in Queued(d) => w \in Queued(d)'
    BY <1>5, <1>7, <1>8, <2>1 DEF Queued
  <2>3. ~Back(cursor[d], w)' /\ (Applied(w) => Applied(w)')
    BY <1>4 DEF Out, Back, Applied
  <2> QED
    BY <1>16, <2>2, <2>3 DEF Out
<1>18. \A w : BeforeOf(d, w)' => BeforeOf(d, w)
  <2>1. \A i \in DOMAIN q : \E k \in DOMAIN old : q[i].mut = old[k].mut /\ q[i].before = old[k].before
    BY <1>8
  <2> QED
    BY <1>5, <1>7, <2>1 DEF BeforeOf
<1>19. \A w : ~Leaving(d, w)'
  BY <1>9, <1>10 DEF Leaving, At
<1>20. x.op # "complete" => GoneBy(cursor[d], x.mission)
  BY <1>1, <1>3, <1>13 DEF Refusals, Refuted, PulledBy
<1>21. ASSUME NEW m \in Missions
       PROVE  GoneOK(d, m)'
  <2>1. GoneOK(d, m)
    BY <1>2 DEF ShowsOK
  <2>2. Deleting(d, m) => GoneBy(cursor[d], m) \/ Deleting(d, m)'
    BY <1>16, <1>17, <1>20 DEF Deleting
  <2> QED
    BY <1>4, <1>14, <2>1, <2>2 DEF GoneOK
<1>22. ASSUME NEW m \in Missions
       PROVE  Shown(d, m)'
  <2>1. GoneOK(d, m) /\ Shown(d, m)
    BY <1>2 DEF ShowsOK
  <2>2. AsLogged(d, m) => AsLogged(d, m)'
    <3>1. PICK row : row = Row(d, m)
      OBVIOUS
    <3>2. Says(cursor[d], m, row) => Says(cursor[d], m, row)'
      BY <1>15
    <3>3. Row(d, m)' = row /\ view' = view
      BY <1>4, <3>1 DEF Row
    <3> QED
      BY <3>1, <3>2, <3>3 DEF AsLogged
  <2>3. GoneBy(cursor[d], m) => AsLogged(d, m)
    <3> SUFFICES ASSUME GoneBy(cursor[d], m)
                 PROVE  AsLogged(d, m)
      OBVIOUS
    <3>1. view[d][m] = Cached(NoRow)
      BY <2>1 DEF GoneOK
    <3>2. Row(d, m) = NoRow /\ ~view[d][m].pending
      BY <3>1 DEF Row, Cached
    <3> QED
      BY <3>2 DEF AsLogged, Says
  <2>4. CASE AsLogged(d, m)
    BY <2>2, <2>4 DEF Shown
  <2>5. CASE Changed(d, m)
    <3>1. PICK w \in Mine(d) : Out(d, w) /\ w.op # "complete" /\ w.mission = m
      BY <2>5 DEF Changed
    <3>2. CASE w = x
      BY <1>20, <2>3, <2>2, <3>1, <3>2 DEF Shown
    <3>3. CASE w # x
      BY <1>16, <1>17, <3>1, <3>3 DEF Shown, Changed
    <3> QED
      BY <3>2, <3>3
  <2>6. ASSUME Open(d, m), NEW w \in Mine(d), CompletedBy(d, m, w)
        PROVE  Shown(d, m)'
    <3>1. PICK row \in MissionRow : row = Row(d, m)
      BY ShownOf
    <3>2. PICK bare : bare = [row EXCEPT !.done = FALSE]
      OBVIOUS
    <3>3. /\ row.stage = "active" /\ ~bare.done /\ bare.stage = "active"
          /\ Says(cursor[d], m, bare) /\ view[d][m].pending
      BY <2>6, <3>1, <3>2 DEF Open, MissionRow
    <3>4. w # x
      <4> SUFFICES ASSUME w = x
                   PROVE  FALSE
        OBVIOUS
      <4>1. x.mission = m /\ ~Leaving(d, x)
        BY <2>6 DEF CompletedBy
      <4>2. r.conflict # "mission_updated"
        BY <1>1, <1>3, <1>4, <4>1 DEF Leaving
      <4>3. r.conflict # "mission_deleted"
        <5> SUFFICES ASSUME r.conflict = "mission_deleted"
                     PROVE  FALSE
          OBVIOUS
        <5>1. GoneBy(cursor[d], m)
          BY <1>1, <1>3, <1>13, <4>1 DEF PulledBy
        <5> QED
          BY <2>3, <3>3, <5>1 DEF AsLogged
      <4>4. r.conflict # "completed_elsewhere"
        <5> SUFFICES ASSUME r.conflict = "completed_elsewhere"
                     PROVE  FALSE
          OBVIOUS
        <5>1. DoneBy(cursor[d], m)
          BY <1>1, <1>3, <1>13, <4>1 DEF PulledBy
        <5>2. PICK i \in 1 .. cursor[d] : log[i].by.op = "complete" /\ log[i].by.mission = m
          BY <5>1 DEF DoneBy
        <5>3. bare # NoRow
          BY <3>3 DEF NoRow
        <5>4. PICK j \in 1 .. cursor[d] : LastBy(j, cursor[d], m) /\ bare = log[j].row
          BY <3>3, <5>2, <5>3 DEF Says
        <5>5. i <= j /\ log[j].by.mission = m /\ i \in DOMAIN log /\ j \in DOMAIN log
          BY <5>2, <5>4, CursorIn DEF LastBy
        <5>6. log[j].row.done
          BY <1>2, <5>2, <5>5 DEF LogEnds
        <5> QED
          BY <3>3, <5>4, <5>6
      <4> QED
        BY <1>13, <4>2, <4>3, <4>4 DEF Refusals
    <3>5. Row(d, m)' = row /\ view' = view
      BY <1>4, <3>1 DEF Row
    <3>6. CompletedBy(d, m, w)'
      BY <1>17, <1>18, <1>19, <2>6, <3>1, <3>4, <3>5 DEF CompletedBy
    <3>7. Says(cursor[d], m, bare)'
      BY <1>15, <3>3
    <3>8. bare = [Row(d, m) EXCEPT !.done = FALSE]'
      BY <3>2, <3>5
    <3>9. Open(d, m)'
      BY <3>3, <3>5, <3>7, <3>8 DEF Open
    <3> QED
      BY <1>16, <3>6, <3>9 DEF Shown
  <2> QED
    BY <2>1, <2>4, <2>5, <2>6 DEF Shown
<1>23. ShowsOK(d)'
  BY <1>12, <1>21, <1>22 DEF ShowsOK
<1> QED
  BY <1>4, <1>11, <1>23, OneShows

\* A page is a piece of the log.
LEMMA PageOf ==
    ASSUME SyncInv, NEW c \in Nat, NEW u \in Nat, c <= u, u <= Len(log),
           NEW changes, changes = SubSeq(log, c + 1, u)
    PROVE  /\ \A i \in 1 .. u : i \in DOMAIN log
           /\ DOMAIN changes = 1 .. u - c
           /\ \A i \in 1 .. u - c : changes[i] = log[c + i]
<1>1. c \in Nat /\ u \in Nat /\ c <= u /\ u <= Len(log)
  OBVIOUS
<1>2. log \in Seq(ServerProofs!Entry) /\ Len(log) \in Nat /\ DOMAIN log = 1 .. Len(log)
  BY RowsOfLog
<1>3. \A i \in 1 .. u : i \in DOMAIN log
  BY <1>1, <1>2
<1>4. \A i \in c + 1 .. u : log[i] \in ServerProofs!Entry
  <2> TAKE i \in c + 1 .. u
  <2>1. i \in DOMAIN log
    BY <1>1, <1>2
  <2> QED
    BY <1>2, <2>1
<1>5. /\ SubSeq(log, c + 1, u) \in Seq(ServerProofs!Entry)
      /\ Len(SubSeq(log, c + 1, u)) = IF c + 1 <= u THEN u - (c + 1) + 1 ELSE 0
      /\ \A i \in 1 .. u - (c + 1) + 1 : SubSeq(log, c + 1, u)[i] = log[c + 1 + i - 1]
  BY <1>1, <1>4, SubSeqProperties
<1>6. changes = SubSeq(log, c + 1, u)
  OBVIOUS
<1>7. /\ changes \in Seq(ServerProofs!Entry)
      /\ Len(changes) = IF c + 1 <= u THEN u - (c + 1) + 1 ELSE 0
      /\ \A i \in 1 .. u - (c + 1) + 1 : changes[i] = log[c + 1 + i - 1]
  BY <1>5, <1>6, Zenon
<1>8. u - (c + 1) + 1 = u - c /\ (~(c + 1 <= u) => u - c = 0)
  BY <1>1
<1>9. Len(changes) = u - c
  BY <1>7, <1>8
<1>10. DOMAIN changes = 1 .. u - c
  BY <1>7, <1>9
<1>11. \A i \in 1 .. u - c : changes[i] = log[c + i]
  <2> TAKE i \in 1 .. u - c
  <2>1. c + 1 + i - 1 = c + i
    BY <1>1
  <2> QED
    BY <1>7, <1>8, <2>1
<1> QED
  BY <1>1, <1>3, <1>10, <1>11

\* What the log says with the page: what it said, where the page has nothing of
\* the mission; else what the page says last.
LEMMA PageSays ==
    ASSUME SyncInv, LogEnds, NEW c \in Nat, NEW u \in Nat, c <= u, u <= Len(log),
           NEW changes, changes = SubSeq(log, c + 1, u), NEW m
    PROVE  /\ Deletes(changes, m) => GoneBy(u, m)
           /\ GoneBy(c, m) => GoneBy(u, m) /\ About(changes, m) = {}
           /\ GoneBy(u, m) => GoneBy(c, m) \/ Deletes(changes, m)
           /\ About(changes, m) = {} => \A i \in c + 1 .. u : log[i].by.mission # m
           /\ About(changes, m) = {} => \A row : Says(c, m, row) => Says(u, m, row)
           /\ About(changes, m) # {} /\ ~GoneBy(u, m) =>
                 Says(u, m, changes[Max(About(changes, m))].row)
<1>1. /\ \A i \in 1 .. u : i \in DOMAIN log
      /\ DOMAIN changes = 1 .. u - c
      /\ \A i \in 1 .. u - c : changes[i] = log[c + i]
  BY PageOf
<1>2. ASSUME NEW i \in c + 1 .. u
      PROVE  i - c \in DOMAIN changes /\ changes[i - c] = log[i]
  <2>1. i - c \in 1 .. u - c /\ c + (i - c) = i
    BY <1>1
  <2>2. changes[i - c] = log[c + (i - c)]
    BY <1>1, <2>1
  <2> QED
    BY <1>1, <2>1, <2>2
<1>3. ASSUME NEW i \in DOMAIN changes
      PROVE  c + i \in c + 1 .. u /\ changes[i] = log[c + i]
  BY <1>1
<1>4. Deletes(changes, m) => GoneBy(u, m)
  <2> SUFFICES ASSUME NEW i \in DOMAIN changes,
                      changes[i].by.mission = m, changes[i].by.op = "delete"
               PROVE  GoneBy(u, m)
    BY DEF Deletes
  <2>1. c + i \in 1 .. u /\ changes[i] = log[c + i]
    BY <1>1, <1>3
  <2> QED
    BY <2>1 DEF GoneBy
<1>5. ASSUME GoneBy(c, m)
      PROVE  GoneBy(u, m) /\ About(changes, m) = {}
  <2>1. PICK i \in 1 .. c : log[i].by.op = "delete" /\ log[i].by.mission = m
    BY <1>5 DEF GoneBy
  <2>2. i \in 1 .. u /\ i \in DOMAIN log
    BY <1>1
  <2>3. ASSUME NEW k \in DOMAIN changes, changes[k].by.mission = m
        PROVE  FALSE
    <3>1. c + k \in c + 1 .. u /\ c + k \in 1 .. u /\ log[c + k].by.mission = m
      <4>1. c + k \in c + 1 .. u /\ changes[k] = log[c + k]
        BY <1>3
      <4> QED
        BY <2>3, <4>1
    <3>2. c + k <= i
      BY <1>1, <2>1, <2>2, <3>1 DEF LogEnds
    <3> QED
      BY <1>1, <3>1, <3>2
  <2> QED
    BY <2>1, <2>2, <2>3 DEF GoneBy, About
<1>6. GoneBy(u, m) => GoneBy(c, m) \/ Deletes(changes, m)
  <2> SUFFICES ASSUME NEW i \in 1 .. u, log[i].by.op = "delete", log[i].by.mission = m,
                      ~GoneBy(c, m)
               PROVE  Deletes(changes, m)
    BY DEF GoneBy
  <2>1. i \notin 1 .. c
    BY DEF GoneBy
  <2>2. i \in c + 1 .. u
    BY <1>1, <2>1
  <2> QED
    BY <1>2, <2>2 DEF Deletes
<1>7. ASSUME About(changes, m) = {}, NEW i \in c + 1 .. u
      PROVE  log[i].by.mission # m
  BY <1>2, <1>7 DEF About
<1>8. ASSUME About(changes, m) = {}, NEW row, Says(c, m, row)
      PROVE  Says(u, m, row)
  <2>1. \A i \in 1 .. u : i \in 1 .. c \/ i \in c + 1 .. u
    BY <1>1
  <2>2. \A i \in 1 .. c : i \in 1 .. u
    BY <1>1
  <2>3. \A i \in c + 1 .. u : log[i].by.mission # m
    BY <1>7, <1>8
  <2>4. GoneBy(u, m) <=> GoneBy(c, m)
    BY <2>1, <2>2, <2>3 DEF GoneBy
  <2>5. \A i \in 1 .. c : LastBy(i, c, m) => LastBy(i, u, m)
    BY <2>1, <2>3 DEF LastBy
  <2>6. (\A i \in 1 .. c : log[i].by.mission # m) => \A i \in 1 .. u : log[i].by.mission # m
    BY <2>1, <2>3
  <2> QED
    BY <1>8, <2>2, <2>4, <2>5, <2>6 DEF Says
<1>9. ASSUME About(changes, m) # {}, ~GoneBy(u, m)
      PROVE  Says(u, m, changes[Max(About(changes, m))].row)
  <2>1. PICK S : S = About(changes, m)
    OBVIOUS
  <2>2. S \in SUBSET (1 .. u - c) /\ S # {} /\ \A i \in S : changes[i].by.mission = m
    BY <1>1, <1>9, <2>1 DEF About
  <2>3. IsFiniteSet(S)
    <3>1. IsFiniteSet(1 .. u - c)
      BY <1>1, FS_Interval
    <3> QED
      BY <2>2, <3>1, FS_Subset
  <2>4. S \in SUBSET Nat
    BY <2>2
  <2>5. Max(S) \in S /\ \A i \in S : i <= Max(S)
    BY <2>2, <2>3, <2>4, MaxOf
  <2>6. PICK n \in 1 .. u - c : n = Max(S)
    BY <2>2, <2>5
  <2>7. n \in S /\ changes[n].by.mission = m /\ changes[n] = log[c + n] /\ c + n \in 1 .. u
    <3>1. n \in S
      BY <2>5, <2>6
    <3>2. c + n \in 1 .. u
      OBVIOUS
    <3> QED
      BY <1>1, <2>2, <3>1, <3>2
  <2>8. LastBy(c + n, u, m)
    <3> SUFFICES ASSUME NEW j \in 1 .. u, j > c + n, log[j].by.mission = m
                 PROVE  FALSE
      BY <2>7 DEF LastBy
    <3>1. j \in c + 1 .. u /\ ~(j - c <= n)
      BY <1>1, <2>7
    <3>2. j - c \in S
      BY <1>2, <2>1, <3>1 DEF About
    <3>3. j - c <= n
      BY <2>5, <2>6, <3>2
    <3> QED
      BY <3>1, <3>3
  <2>9. Says(u, m, log[c + n].row)
    BY <1>9, <2>7, <2>8 DEF Says
  <2> QED
    BY <2>1, <2>6, <2>7, <2>9
<1> QED
  BY <1>4, <1>5, <1>6, <1>7, <1>8, <1>9

\* A mission after a page: it is what the log says now, or the page has nothing
\* of it, or it is to be deleted.
LEMMA ProjectedShows ==
    ASSUME SyncInv, ConvInv, NEW d \in Devices, At(d, "applying"), NEW changes,
           changes = SubSeq(log, cursor[d] + 1, run[d].upto), NEW u, u = run[d].upto,
           UNCHANGED <<issued, queue, log>>, cursor'[d] = u, ~At(d, "deferred")',
           NEW m \in Missions,
           view'[d][m] = Projected(d, changes)[m],
           tomb'[d] = tomb[d] \cup {k \in Missions : Deletes(changes, k)}
    PROVE  GoneOK(d, m)' /\ Shown(d, m)'
<1>1. PICK c : c = cursor[d]
  OBVIOUS
<1>2. c \in Nat /\ u \in Nat /\ c <= u /\ u <= Len(log)
  BY <1>1, CursorIn
<1>3. GoneOK(d, m) /\ Shown(d, m) /\ LogEnds /\ CursorOK(d)
  BY DEF ConvInv, ShowsOK, SyncInv, DeviceOK
<1>4. /\ Deletes(changes, m) => GoneBy(u, m)
      /\ GoneBy(c, m) => GoneBy(u, m) /\ About(changes, m) = {}
      /\ GoneBy(u, m) => GoneBy(c, m) \/ Deletes(changes, m)
      /\ About(changes, m) = {} => \A i \in c + 1 .. u : log[i].by.mission # m
      /\ About(changes, m) = {} => \A row : Says(c, m, row) => Says(u, m, row)
      /\ About(changes, m) # {} /\ ~GoneBy(u, m) =>
            Says(u, m, changes[Max(About(changes, m))].row)
  <2>1. changes = SubSeq(log, c + 1, u)
    BY <1>1
  <2> QED
    BY <1>2, <1>3, <2>1, PageSays
<1>5. PICK cached : cached = Projected(d, changes)[m] /\ view'[d][m] = cached
  OBVIOUS
<1>6. cached = IF Deletes(changes, m) THEN Cached(NoRow)
               ELSE IF About(changes, m) = {} \/ m \in tomb[d] THEN view[d][m]
               ELSE Cached(changes[Max(About(changes, m))].row)
  BY <1>5 DEF Projected
<1>7. /\ GoneBy(cursor[d], m)' <=> GoneBy(u, m)
      /\ \A row : Says(cursor[d], m, row)' <=> Says(u, m, row)
      /\ \A mut : Back(cursor[d], mut)' <=> Back(u, mut)
  <2>1. /\ GoneBy(cursor[d], m)' <=> GoneBy(u, m)'
        /\ \A row : Says(cursor[d], m, row)' <=> Says(u, m, row)'
        /\ \A mut : Back(cursor[d], mut)' <=> Back(u, mut)'
    BY AtCursor
  <2>2. /\ GoneBy(u, m)' <=> GoneBy(u, m)
        /\ \A row : Says(u, m, row)' <=> Says(u, m, row)
        /\ \A mut : Back(u, mut)' <=> Back(u, mut)
    BY DEF GoneBy, Says, LastBy, Back
  <2> QED
    BY <2>1, <2>2
<1>8. \A w : Out(d, w) /\ ~Back(u, w) => Out(d, w)'
  BY <1>7 DEF Out, Mine, Queued, Applied
<1>9. Mine(d)' = Mine(d)
  BY DEF Mine
<1>10. \A w : Out(d, w) /\ Back(u, w) => \E i \in c + 1 .. u : log[i].by = w
  <2> SUFFICES ASSUME NEW w, Out(d, w), NEW i \in 1 .. u, log[i].by = w
               PROVE  i \in c + 1 .. u
    BY DEF Back
  <2>1. i \notin 1 .. c
    BY <1>1 DEF Out, Back
  <2> QED
    BY <1>2, <2>1
<1>11. \A w : ~Leaving(d, w)'
  BY DEF Leaving, At
<1>12. \A w : BeforeOf(d, w)' <=> BeforeOf(d, w)
  BY DEF BeforeOf
<1>13. ASSUME NEW w \in Mine(d), Out(d, w), w.op = "delete", w.mission = m
       PROVE  Deletes(changes, m) \/ (Changed(d, m)' /\ Deleting(d, m)')
  <2>1. CASE Back(u, w)
    <3>1. PICK i \in c + 1 .. u : log[i].by = w
      BY <1>10, <1>13, <2>1
    <3>2. i \in 1 .. u
      BY <1>2
    <3>3. GoneBy(u, m) /\ ~GoneBy(c, m)
      <4>1. GoneBy(u, m)
        BY <1>13, <3>1, <3>2 DEF GoneBy
      <4>2. About(changes, m) # {}
        BY <1>4, <1>13, <3>1
      <4> QED
        BY <1>4, <4>1, <4>2
    <3> QED
      BY <1>4, <3>3
  <2>2. CASE ~Back(u, w)
    <3>1. Out(d, w)'
      BY <1>8, <1>13, <2>2
    <3> QED
      BY <1>9, <1>13, <3>1 DEF Changed, Deleting
  <2> QED
    BY <2>1, <2>2
<1>14. GoneOK(d, m)'
  <2>1. GoneBy(u, m) => cached = Cached(NoRow)
    <3>1. CASE Deletes(changes, m)
      BY <1>6, <3>1
    <3>2. ASSUME ~Deletes(changes, m), GoneBy(c, m)
          PROVE  cached = Cached(NoRow)
      <4>1. view[d][m] = Cached(NoRow)
        BY <1>1, <1>3, <3>2 DEF GoneOK
      <4> QED
        BY <1>4, <1>6, <3>2, <4>1
    <3> QED
      BY <1>4, <3>1, <3>2
  <2>2. m \in tomb'[d] => GoneBy(u, m) \/ Deleting(d, m)'
    <3>1. CASE Deletes(changes, m)
      BY <1>4, <3>1
    <3>2. ASSUME ~Deletes(changes, m), m \in tomb[d]
          PROVE  GoneBy(u, m) \/ Deleting(d, m)'
      <4>1. GoneBy(c, m) \/ Deleting(d, m)
        BY <1>1, <1>3, <3>2 DEF GoneOK
      <4> QED
        BY <1>4, <1>13, <3>2, <4>1 DEF Deleting
    <3> QED
      BY <3>1, <3>2
  <2> QED
    BY <1>5, <1>7, <2>1, <2>2 DEF GoneOK
<1>15. ASSUME NEW row, cached = Cached(row), Says(u, m, row)
       PROVE  Shown(d, m)'
  <2>1. cached.row = row /\ ~cached.pending
    BY <1>15 DEF Cached
  <2>2. Row(d, m)' = row /\ ~view'[d][m].pending
    BY <1>5, <2>1 DEF Row
  <2>3. Says(cursor[d], m, row)'
    BY <1>7, <1>15
  <2>4. AsLogged(d, m)'
    BY <2>2, <2>3 DEF AsLogged
  <2> QED
    BY <2>4 DEF Shown
<1>16. CASE Deletes(changes, m)
  <2>1. cached = Cached(NoRow) /\ Says(u, m, NoRow)
    BY <1>4, <1>6, <1>16 DEF Says
  <2> QED
    BY <1>14, <1>15, <2>1
<1>17. CASE ~Deletes(changes, m) /\ About(changes, m) = {}
  <2>1. cached = view[d][m] /\ view'[d][m] = view[d][m] /\ Row(d, m)' = Row(d, m)
    BY <1>5, <1>6, <1>17 DEF Row
  <2>2. \A w : Out(d, w) /\ w.mission = m => Out(d, w)'
    BY <1>4, <1>8, <1>10, <1>17
  <2>3. \A row : Says(cursor[d], m, row) => Says(cursor[d], m, row)'
    BY <1>1, <1>4, <1>7, <1>17
  <2>4. AsLogged(d, m) => AsLogged(d, m)'
    <3>1. PICK row : row = Row(d, m)
      OBVIOUS
    <3>2. Says(cursor[d], m, row) => Says(cursor[d], m, row)'
      BY <2>3
    <3> QED
      BY <2>1, <3>1, <3>2 DEF AsLogged
  <2>5. Changed(d, m) => Changed(d, m)'
    BY <1>9, <2>2 DEF Changed
  <2>6. Open(d, m) => Open(d, m)'
    <3>1. PICK row : row = [Row(d, m) EXCEPT !.done = FALSE]
      OBVIOUS
    <3>2. row = [Row(d, m) EXCEPT !.done = FALSE]'
      BY <2>1, <3>1
    <3>3. Says(cursor[d], m, row) => Says(cursor[d], m, row)'
      BY <2>3
    <3> QED
      BY <2>1, <3>1, <3>2, <3>3 DEF Open
  <2>7. \A w : CompletedBy(d, m, w) => CompletedBy(d, m, w)'
    BY <1>11, <1>12, <2>1, <2>2 DEF CompletedBy
  <2> QED
    BY <1>3, <1>9, <1>14, <2>4, <2>5, <2>6, <2>7 DEF Shown
<1>18. CASE ~Deletes(changes, m) /\ About(changes, m) # {} /\ m \in tomb[d]
  <2>1. ~GoneBy(c, m)
    BY <1>4, <1>18
  <2>2. PICK w \in Mine(d) : Out(d, w) /\ w.op = "delete" /\ w.mission = m
    BY <1>1, <1>3, <1>18, <2>1 DEF GoneOK, Deleting
  <2>3. Changed(d, m)'
    BY <1>13, <1>18, <2>2
  <2> QED
    BY <1>14, <2>3 DEF Shown
<1>19. CASE ~Deletes(changes, m) /\ About(changes, m) # {} /\ m \notin tomb[d]
  <2>1. ~GoneBy(u, m)
    BY <1>4, <1>19
  <2>2. cached = Cached(changes[Max(About(changes, m))].row)
    BY <1>6, <1>19
  <2>3. Says(u, m, changes[Max(About(changes, m))].row)
    BY <1>4, <1>19, <2>1
  <2> QED
    BY <1>14, <1>15, <2>2, <2>3
<1> QED
  BY <1>14, <1>16, <1>17, <1>18, <1>19

\* The page and the cursor in one transaction.
LEMMA ApplyShows ==
    ASSUME SyncInv, ConvInv, NEW d \in Devices, ApplyPage(d)
    PROVE  ConvInv'
<1>1. PICK r \in Running : /\ r = run[d] /\ r.settled \in Nat /\ r.settled <= Len(r.batch)
                           /\ DOMAIN r.batch = 1 .. Len(r.batch) /\ r.more \in BOOLEAN
  BY RunShape
<1>2. DeviceTypes /\ RunOK(d) /\ RefusalOK(d)
  BY DEF SyncInv, DeviceOK, ConvInv, ShowsOK
<1>3. PICK changes : changes = SubSeq(log, cursor[d] + 1, run[d].upto)
  OBVIOUS
<1>4. PICK u : u = run[d].upto /\ u = r.upto
  BY <1>1
<1>5. /\ Apply(d, changes) /\ AnswersFit'
      /\ UNCHANGED <<mission, log, queue, draft, undo, issued, dropped>>
  BY <1>3, AnswersStay DEF ApplyPage, Apply, uiVars, serverVars
<1>6. At(d, "applying") /\ r.at = "applying"
  BY <1>1, <1>5 DEF Apply, At
<1>7. /\ cursor'[d] = u
      /\ \A e \in Devices : e # d => cursor'[e] = cursor[e]
  BY <1>2, <1>4, <1>5 DEF Apply, DeviceTypes
<1>8. PICK gone : gone = tomb[d] \cup {k \in Missions : Deletes(changes, k)}
  OBVIOUS
<1>9. /\ tomb'[d] = gone
      /\ \A e \in Devices : e # d => tomb'[e] = tomb[e]
  <2>1. tomb' = [tomb EXCEPT ![d] = gone]
    BY <1>5, <1>8 DEF Apply
  <2> QED
    BY <1>2, <2>1 DEF DeviceTypes
<1>10. PICK v : v = Projected(d, changes)
  OBVIOUS
<1>11. /\ view'[d] = v
       /\ \A e \in Devices : e # d => view'[e] = view[e]
  <2>1. view' = [view EXCEPT ![d] = v]
    BY <1>5, <1>10 DEF Apply
  <2> QED
    BY <1>2, <2>1 DEF DeviceTypes
<1>12. PICK s : /\ run' = [run EXCEPT ![d] = s]
                /\ \/ s.conflict = "none" /\ s.at = "idle"
                   \/ /\ s.batch = r.batch /\ s.settled = r.settled /\ s.conflict = r.conflict
                      /\ \/ s.at = "pulling"
                         \/ s.at = "reconciling" /\ r.conflict # "none" /\ ~r.more
  <2>1. run' = [run EXCEPT ![d] = IF r.more THEN [r EXCEPT !.at = "pulling"]
                                  ELSE IF r.conflict = "none" THEN NoRun
                                  ELSE [r EXCEPT !.at = "reconciling"]]
    BY <1>1, <1>5 DEF Apply
  <2>2. \A at : LET s == [r EXCEPT !.at = at]
                IN  s.batch = r.batch /\ s.settled = r.settled /\ s.conflict = r.conflict /\ s.at = at
    BY DEF Running
  <2>3. NoRun.at = "idle" /\ NoRun.conflict = "none"
    BY DEF NoRun
  <2>4. CASE r.more
    BY <2>1, <2>2, <2>4
  <2>5. CASE ~r.more /\ r.conflict = "none"
    BY <2>1, <2>3, <2>5
  <2>6. CASE ~r.more /\ r.conflict # "none"
    BY <2>1, <2>2, <2>6
  <2> QED
    BY <2>4, <2>5, <2>6
<1>13. run'[d] = s /\ \A e \in Devices : e # d => run'[e] = run[e]
  BY <1>2, <1>12 DEF DeviceTypes
<1>14. ~At(d, "deferred")' /\ ~At(d, "applying")'
  BY <1>12, <1>13 DEF At
<1>15. \A e \in Devices : e # d => Unmoved(e)
  BY <1>5, <1>7, <1>9, <1>11, <1>13 DEF Unmoved
<1>16. RefusalOK(d)'
  <2>1. CASE s.at # "reconciling"
    <3>1. \/ s.conflict # "completed_elsewhere"
          \/ s.batch = r.batch /\ s.settled = r.settled /\ s.conflict = r.conflict
      BY <1>12
    <3>2. s.at \notin {"applying", "reconciling", "deferred"}
      BY <1>12, <2>1
    <3> QED
      BY <1>1, <1>2, <1>13, <3>1, <3>2, RefusalAhead
  <2>2. CASE s.at = "reconciling"
    <3>1. /\ s.batch = r.batch /\ s.settled = r.settled /\ s.conflict = r.conflict
          /\ r.conflict # "none" /\ ~r.more
      BY <1>12, <2>2
    <3>2. Refused(d)' = Refused(d)
      BY <1>1, <1>13, <3>1 DEF Refused
    <3>3. PulledBy(d, u)
      BY <1>1, <1>2, <1>4, <1>6, <3>1 DEF RefusalOK
    <3>4. PulledBy(d, u)'
      BY <1>1, <1>5, <1>13, <3>1, <3>2, <3>3 DEF PulledBy, Back, GoneBy, DoneBy
    <3>5. PulledBy(d, cursor[d])'
      BY <1>7, <3>4 DEF PulledBy, Back, GoneBy, DoneBy
    <3>6. r.conflict = "completed_elsewhere" => Refused(d).op = "complete"
      BY <1>1, <1>2 DEF RefusalOK
    <3> QED
      BY <1>13, <1>14, <3>1, <3>2, <3>5, <3>6 DEF RefusalOK
  <2> QED
    BY <2>1, <2>2
<1>17. ASSUME NEW m \in Missions
       PROVE  GoneOK(d, m)' /\ Shown(d, m)'
  <2>1. view'[d][m] = Projected(d, changes)[m]
    BY <1>10, <1>11
  <2>2. tomb'[d] = tomb[d] \cup {k \in Missions : Deletes(changes, k)}
    BY <1>8, <1>9
  <2>3. UNCHANGED <<issued, queue, log>>
    BY <1>5
  <2> QED
    BY <1>3, <1>4, <1>6, <1>7, <1>14, <2>1, <2>2, <2>3, ProjectedShows
<1>18. ShowsOK(d)'
  BY <1>16, <1>17 DEF ShowsOK
<1> QED
  BY <1>5, <1>15, <1>18, OneShows

\* At the start every device has all of the log.
LEMMA ConvStarts == Init => ConvInv
<1> SUFFICES ASSUME Init
             PROVE  ConvInv
  OBVIOUS
<1>1. /\ log \in Seq(ServerProofs!Entry) /\ Len(log) = Cardinality(Seeded)
      /\ \A i \in DOMAIN log : \E m \in Seeded : log[i] = SeedEntry(m)
      /\ \A m \in Seeded : \E i \in DOMAIN log : log[i] = SeedEntry(m)
      /\ \A i, j \in DOMAIN log : log[i].by.mission = log[j].by.mission => i = j
  BY SeedsOf
<1>2. Len(log) \in Nat /\ DOMAIN log = 1 .. Len(log)
  BY <1>1
<1>3. /\ view = [d \in Devices |-> [m \in Missions |->
                    Cached(IF m \in Seeded THEN SeedRow(m) ELSE NoRow)]]
      /\ tomb = [d \in Devices |-> {}] /\ cursor = [d \in Devices |-> Cardinality(Seeded)]
      /\ run = [d \in Devices |-> NoRun] /\ phase = [h \in Handlers |-> "free"]
  BY DEF Init, DeviceInit
<1>4. \A m : /\ SeedEntry(m).by.mission = m /\ SeedEntry(m).by.op = "create"
             /\ SeedEntry(m).row = SeedRow(m)
  BY DEF SeedEntry
<1>5. \A i \in DOMAIN log : /\ log[i].by.op = "create" /\ log[i].by.mission \in Seeded
                            /\ log[i].row = SeedRow(log[i].by.mission)
  BY <1>1, <1>4
<1>6. LogEnds
  BY <1>5 DEF LogEnds, InLog
<1>7. AnswersFit
  BY <1>3 DEF AnswersFit
<1>8. ASSUME NEW c, c = Len(log), NEW m \in Missions
      PROVE  /\ ~GoneBy(c, m)
             /\ Says(c, m, IF m \in Seeded THEN SeedRow(m) ELSE NoRow)
  <2>1. ~GoneBy(c, m)
    BY <1>2, <1>5, <1>8 DEF GoneBy
  <2>2. CASE m \in Seeded
    <3>1. PICK i \in DOMAIN log : log[i] = SeedEntry(m)
      BY <1>1, <2>2
    <3>2. log[i].by.mission = m /\ log[i].row = SeedRow(m)
      BY <1>4, <3>1
    <3>3. i \in 1 .. c /\ LastBy(i, c, m)
      <4>1. \A j \in 1 .. c : j > i => log[j].by.mission # m
        BY <1>1, <1>2, <1>8, <3>2
      <4> QED
        BY <1>2, <1>8, <3>2, <4>1 DEF LastBy
    <3> QED
      BY <2>1, <2>2, <3>2, <3>3 DEF Says
  <2>3. CASE m \notin Seeded
    <3>1. \A i \in 1 .. c : log[i].by.mission # m
      BY <1>2, <1>5, <1>8, <2>3
    <3> QED
      BY <2>1, <2>3, <3>1 DEF Says
  <2> QED
    BY <2>1, <2>2, <2>3
<1>9. ASSUME NEW d \in Devices
      PROVE  ShowsOK(d)
  <2>1. cursor[d] = Len(log) /\ tomb[d] = {} /\ run[d] = NoRun
    BY <1>1, <1>3
  <2>2. NoRun.at = "idle" /\ NoRun.conflict = "none"
    BY DEF NoRun
  <2>3. RefusalOK(d)
    BY <2>1, <2>2 DEF RefusalOK, At
  <2>4. ASSUME NEW m \in Missions
        PROVE  GoneOK(d, m) /\ Shown(d, m)
    <3>1. PICK row : row = IF m \in Seeded THEN SeedRow(m) ELSE NoRow
      OBVIOUS
    <3>2. ~GoneBy(cursor[d], m) /\ Says(cursor[d], m, row)
      BY <1>8, <2>1, <3>1
    <3>3. view[d][m] = Cached(row)
      BY <1>3, <3>1
    <3>4. Row(d, m) = row /\ ~view[d][m].pending
      BY <3>3 DEF Row, Cached
    <3> QED
      BY <2>1, <3>2, <3>4 DEF GoneOK, Shown, AsLogged
  <2> QED
    BY <2>3, <2>4 DEF ShowsOK
<1> QED
  BY <1>6, <1>7, <1>9 DEF ConvInv

\* What the user does but for undo.
LEMMA UserShows ==
    ASSUME SyncInv, ConvInv, NEW d \in Devices, User(d), "undo" \notin UserOps
    PROVE  ConvInv'
<1>1. UserStep(d) /\ UNCHANGED <<serverVars, call>>
  BY DEF User
<1>2. CASE SaveEdit(d) \/ \E m \in Missions : Create(d, m) \/ Delete(d, m) \/ Complete(d, m)
  <2>1. PICK mut, cached : Enqueues(d, mut, cached) /\ Fits(d, mut, cached)
    BY <1>2, UserEnqueues
  <2> QED
    BY <1>1, <2>1, EnqueueShows
<1>3. CASE EndUndo(d) \/ \E m \in Missions : OpenEdit(d, m)
  BY <1>1, <1>3, OpenStepsShow
<1>4. CASE Undo(d)
  BY <1>4 DEF Undo
<1> QED
  BY <1>1, <1>2, <1>3, <1>4 DEF UserStep

\* A sync run.
LEMMA SyncStepShows ==
    ASSUME SyncInv, ConvInv, NEW d \in Devices, SyncStep(d)
    PROVE  ConvInv'
<1>1. CASE Local(d) /\ UNCHANGED <<serverVars, call, faults>>
  <2>1. UNCHANGED <<serverVars, call>> /\ UNCHANGED serverVars
    BY <1>1
  <2>2. CASE List(d) \/ Mark(d) \/ Fail(d) \/ Unmark(d)
    BY <2>1, <2>2, RunMovesShow
  <2>3. CASE Settle(d)
    BY <2>1, <2>3, SettleShows
  <2>4. CASE SettleRefused(d)
    BY <2>1, <2>4, SettleRefusedShows
  <2>5. CASE Reconcile(d)
    BY <2>1, <2>5, ReconcileShows
  <2> QED
    BY <1>1, <2>2, <2>3, <2>4, <2>5 DEF Local
<1>2. CASE \E h \in Handlers : SendTo(d, h)
  BY <1>2, ExchangeShows
<1>3. CASE ReceiveFrom(d)
  BY <1>3, ReceiveShows
<1>4. CASE PullPage(d)
  BY <1>4, PullShows
<1>5. CASE ApplyPage(d)
  BY <1>5, ApplyShows
<1> QED
  BY <1>1, <1>2, <1>3, <1>4, <1>5 DEF SyncStep

\* Every step keeps it.
LEMMA ConvNext == "undo" \notin UserOps /\ SyncInv /\ ConvInv /\ [Next]_vars => ConvInv'
<1> SUFFICES ASSUME "undo" \notin UserOps, SyncInv, ConvInv, [Next]_vars
             PROVE  ConvInv'
  OBVIOUS
<1>1. ASSUME NEW d \in Devices, User(d)
      PROVE  ConvInv'
  BY <1>1, UserShows
<1>2. ASSUME NEW d \in Devices, SyncStep(d)
      PROVE  ConvInv'
  BY <1>2, SyncStepShows
<1>3. ASSUME NEW d \in Devices, GiveUp(d) \/ Crashes(d)
      PROVE  ConvInv'
  BY <1>3, ExchangeShows
<1>4. ASSUME NEW d \in Devices, PullFails(d)
      PROVE  ConvInv'
  <2>1. FailPull(d) /\ UNCHANGED serverVars
    BY <1>4 DEF PullFails
  <2> QED
    BY <2>1, RunMovesShow
<1>5. ASSUME NEW h \in Handlers, HandlerStep(h) \/ HandlerAborts(h)
      PROVE  ConvInv'
  BY <1>5, HandlerShows
<1>6. CASE KeyExpires \/ UNCHANGED vars
  <2>1. UNCHANGED deviceVars /\ UNCHANGED <<mission, log, phase, request, answer>>
    BY <1>6 DEF KeyExpires, Server!ExpireKey, vars, serverVars
  <2> QED
    BY <2>1, StillShows
<1> QED
  BY <1>1, <1>2, <1>3, <1>4, <1>5, <1>6 DEF Next

\* What a quiet device shows is what the log says, and that is what is there.
LEMMA QuietShows == SyncInv /\ ConvInv => Converges
<1> SUFFICES ASSUME SyncInv, ConvInv, NEW d \in Devices, Quiet(d), NEW m \in Missions
             PROVE  Shows(d, m)
  BY DEF Converges
<1>1. PICK c : c = cursor[d]
  OBVIOUS
<1>2. c = Len(log) /\ DOMAIN log = 1 .. c /\ queue[d] = <<>>
  BY <1>1, CursorIn DEF Quiet
<1>3. \A w : ~Out(d, w)
  <2> SUFFICES ASSUME NEW w, Out(d, w)
               PROVE  FALSE
    OBVIOUS
  <2>1. w \notin Queued(d)
    BY <1>2 DEF Queued
  <2>2. Applied(w) => Back(c, w)
    BY <1>2 DEF Applied, Back
  <2> QED
    BY <1>1, <2>1, <2>2 DEF Out
<1>4. AsLogged(d, m)
  BY <1>3 DEF ConvInv, ShowsOK, Shown, Changed, CompletedBy
<1>5. PICK cached \in CachedRow : cached = view[d][m]
  BY ShownOf
<1>6. PICK row \in MissionRow : row = cached.row /\ row = Row(d, m)
  BY <1>5, ShownOf DEF CachedRow
<1>7. Says(c, m, row) /\ ~cached.pending
  BY <1>1, <1>4, <1>5, <1>6 DEF AsLogged
<1>8. cached = Cached(row)
  BY <1>6, <1>7 DEF CachedRow, Cached
<1>9. /\ mission[m] = ServerProofs!Ledger!RowOf(m)
      /\ mission[m].stage = "deleted" => InLog("delete", m)
      /\ InLog("delete", m) => mission[m].stage = "deleted"
  <2>1. ServerProofs!ServerInv /\ LogEnds
    BY DEF SyncInv, ConvInv
  <2> QED
    BY <2>1 DEF LogEnds, ServerProofs!ServerInv, ServerProofs!RowsOK, ServerProofs!LogOK,
                ServerProofs!LogIsAuthoritative, ServerProofs!InLog, InLog
<1>10. InLog("delete", m) <=> GoneBy(c, m)
  BY <1>2 DEF InLog, GoneBy
<1>11. row = IF mission[m].stage = "deleted" THEN NoRow ELSE mission[m]
  <2>1. CASE GoneBy(c, m)
    BY <1>7, <1>9, <1>10, <2>1 DEF Says
  <2>2. CASE ~GoneBy(c, m) /\ \A i \in 1 .. c : log[i].by.mission # m
    <3>1. ServerProofs!Ledger!RowOf(m) = NoRow
      BY <1>2, <2>2 DEF ServerProofs!Ledger!RowOf, ServerProofs!Ledger!NoRow, NoRow
    <3>2. row = NoRow
      BY <1>7, <2>2 DEF Says, LastBy
    <3> QED
      BY <1>9, <1>10, <2>2, <3>1, <3>2
  <2>3. ASSUME ~GoneBy(c, m), NEW i \in 1 .. c, log[i].by.mission = m
        PROVE  row = IF mission[m].stage = "deleted" THEN NoRow ELSE mission[m]
    <3>1. PICK j \in 1 .. c : LastBy(j, c, m) /\ row = log[j].row
      BY <1>7, <2>3 DEF Says
    <3>2. j \in DOMAIN log /\ ServerProofs!Ledger!IsLast(j, m)
      BY <1>2, <3>1 DEF LastBy, ServerProofs!Ledger!IsLast
    <3>3. log \in Seq(ServerProofs!Entry)
      BY RowsOfLog
    <3>4. ServerProofs!Ledger!RowOf(m) = log[j].row
      BY <3>2, <3>3, SameMutations, NoIdAssumption, ServerProofs!RowOfLast, Zenon
    <3> QED
      BY <1>9, <1>10, <2>3, <3>1, <3>4
  <2> QED
    BY <2>1, <2>2, <2>3
<1> QED
  BY <1>5, <1>8, <1>11 DEF Shows

\* When every device is quiet all of them show what the server has, whatever
\* was lost, retried, refused, completed twice or deleted elsewhere before: for
\* any number of devices, missions and mutations, if no deletion is taken back.
THEOREM ConvergesAlways ==
    ASSUME "undo" \notin UserOps
    PROVE  Spec => []Converges
<1>1. SyncInv /\ ConvInv /\ [Next]_vars => ConvInv'
  BY ConvNext
<1> QED
  BY <1>1, ConvStarts, QuietShows, SyncInvAlways, PTL DEF Spec
=============================================================================

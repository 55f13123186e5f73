------------------------- MODULE MissionServerProofs -------------------------
(***************************************************************************)
(* Proofs about MissionServer for every number of handlers, missions,       *)
(* mutations and retries: what MissionServer_safety checks for two handlers *)
(* and seven requests.                                                      *)
(*                                                                         *)
(* Four actions change a mission.  Each of them is shown to be one step of  *)
(* the kind Applied, which is what the ledger permits; the rest of the      *)
(* invariant is shown of Applied.                                          *)
(***************************************************************************)
EXTENDS MissionServer, TLAPS

Entry == [by : Mutation, row : MissionRow]
StoredKey == [by : Mutation, response : {"accepted", "completed_elsewhere"}]

\* What the handlers hold and the tables store.
Types ==
    /\ mission \in [Missions -> MissionRow]
    /\ recorded \subseteq Mutation
    /\ keys \subseteq StoredKey
    /\ log \in Seq(Entry)
    /\ phase \in [Handlers -> {"free", "received", "fresh", "answered"}]
    /\ request \in [Handlers -> Mutation \cup {NoMutation}]
    /\ answer \in [Handlers -> Answer]
Serving == \A h \in Handlers : phase[h] \in {"received", "fresh"} => request[h] \in Mutation

\* A mission with an entry has a last one; no entry leaves a mission absent.
LastOf(m) == \E i \in DOMAIN log : Ledger!IsLast(i, m)
LogOK ==
    /\ LogIsAuthoritative
    /\ \A i \in DOMAIN log : log[i].row.stage # "absent"
    /\ \A m \in Missions : (\E i \in DOMAIN log : log[i].by.mission = m) => LastOf(m)

\* How a mission stands is what the log has of it.
RowsOK ==
    \A m \in Missions :
        /\ mission[m].stage = "absent" => mission[m] = NoRow
        /\ mission[m].stage = "deleted" => InLog("delete", m)
        /\ mission[m].done <=> InLog("complete", m)

\* The recorded mutations are the ones of the log that are no completions.
RecordedOK ==
    /\ \A r \in recorded : r.op # "complete" /\ \E i \in DOMAIN log : log[i].by = r
    /\ \A i \in DOMAIN log : log[i].by.op # "complete" => log[i].by \in recorded

\* A stored response is true.
KeysOK ==
    \A k \in keys :
        /\ k.response = "accepted" => \E i \in DOMAIN log : log[i].by = k.by
        /\ k.response = "completed_elsewhere" => InLog("complete", k.by.mission)

\* The inductive invariant.
ServerInv ==
    Types /\ Serving /\ LogOK /\ RowsOK /\ RecordedOK /\ KeysOK /\ AppliedOnce /\ NoLostUpdate

\* mut takes effect: the row, the log and the recorded mutations together.
Applied(mut) ==
    LET row == Ledger!After(mission[mut.mission], mut)
    IN  /\ mut \in Mutation
        /\ \A i \in DOMAIN log : log[i].by # mut
        /\ Ledger!Permits(mission[mut.mission], mut)
        /\ log' = Append(log, [by |-> mut, row |-> row])
        /\ mission' = [mission EXCEPT ![mut.mission] = row]
        /\ recorded' = IF mut.op = "complete" THEN recorded ELSE recorded \cup {mut}

(***************************************************************************)
(* The log.                                                                *)
(***************************************************************************)
\* The row of the last entry is what the log says.
LEMMA RowOfLast ==
    ASSUME log \in Seq(Entry), NEW m, NEW i \in DOMAIN log, Ledger!IsLast(i, m)
    PROVE  Ledger!RowOf(m) = log[i].row
<1>1. \A j \in DOMAIN log : Ledger!IsLast(j, m) => j = i
  BY DEF Ledger!IsLast
<1>2. i = CHOOSE j \in DOMAIN log : Ledger!IsLast(j, m)
  BY <1>1
<1>3. \E j \in DOMAIN log : log[j].by.mission = m
  BY DEF Ledger!IsLast
<1> QED
  BY <1>2, <1>3 DEF Ledger!RowOf

\* Appending keeps what is there and puts the entry at the end.
LEMMA AppendKeeps ==
    ASSUME log \in Seq(Entry), NEW STATE e, e \in Entry, log' = Append(log, e)
    PROVE  /\ log' \in Seq(Entry)
           /\ DOMAIN log = 1 .. Len(log) /\ Len(log) \in Nat
           /\ DOMAIN log' = 1 .. Len(log) + 1
           /\ \A i \in DOMAIN log : i \in DOMAIN log' /\ log'[i] = log[i]
           /\ log'[Len(log) + 1] = e
OBVIOUS

\* After an entry of mission m the log says of m what the entry says, and of
\* the others what it said before.
LEMMA RowOfAppended ==
    ASSUME log \in Seq(Entry), NEW STATE e, e \in Entry, log' = Append(log, e), NEW m,
           (\E i \in DOMAIN log : log[i].by.mission = m) => LastOf(m)
    PROVE  /\ Ledger!RowOf(m)' = IF e.by.mission = m THEN e.row ELSE Ledger!RowOf(m)
           /\ (\E i \in DOMAIN log' : log'[i].by.mission = m) => LastOf(m)'
<1> PICK n \in Nat \ {0} : n = Len(log) + 1
  BY AppendKeeps
<1>0. /\ DOMAIN log = 1 .. n - 1
      /\ DOMAIN log' = 1 .. n
      /\ \A i \in DOMAIN log : i \in DOMAIN log' /\ log'[i] = log[i]
      /\ log'[n] = e
  BY AppendKeeps
<1>1. CASE e.by.mission = m
  <2>1. Ledger!IsLast(n, m)'
    BY <1>0, <1>1 DEF Ledger!IsLast
  <2>2. n \in DOMAIN log'
    BY <1>0
  <2>3. Ledger!RowOf(m)' = log'[n].row
    <3>1. \A j \in DOMAIN log' : Ledger!IsLast(j, m)' => j = n
      BY <1>0, <1>1 DEF Ledger!IsLast
    <3>2. n = CHOOSE j \in DOMAIN log' : Ledger!IsLast(j, m)'
      BY <2>1, <2>2, <3>1
    <3>3. log'[n].by.mission = m
      BY <1>0, <1>1
    <3> QED
      BY <2>2, <3>2, <3>3 DEF Ledger!RowOf
  <2> QED
    BY <1>0, <1>1, <2>1, <2>2, <2>3 DEF LastOf
<1>2. CASE e.by.mission # m
  <2>1. \A i : Ledger!IsLast(i, m)' <=> Ledger!IsLast(i, m)
    BY <1>0, <1>2 DEF Ledger!IsLast
  <2>2. (\E i \in DOMAIN log' : log'[i].by.mission = m)
           <=> \E i \in DOMAIN log : log[i].by.mission = m
    BY <1>0, <1>2
  <2>3. CASE \E i \in DOMAIN log : log[i].by.mission = m
    <3>1. PICK i \in DOMAIN log : Ledger!IsLast(i, m)
      BY <2>3 DEF LastOf
    <3>2. Ledger!RowOf(m) = log[i].row
      BY <3>1, RowOfLast
    <3>3. i \in DOMAIN log' /\ log'[i] = log[i] /\ Ledger!IsLast(i, m)'
      BY <1>0, <2>1, <3>1
    <3>4. \A j \in DOMAIN log' : Ledger!IsLast(j, m)' => j = i
      BY <3>3 DEF Ledger!IsLast
    <3>5. i = CHOOSE j \in DOMAIN log' : Ledger!IsLast(j, m)'
      BY <3>3, <3>4
    <3> QED
      BY <1>2, <2>2, <2>3, <3>2, <3>3, <3>5 DEF Ledger!RowOf, LastOf
  <2>4. CASE ~ \E i \in DOMAIN log : log[i].by.mission = m
    BY <1>2, <2>2, <2>4 DEF Ledger!RowOf
  <2> QED
    BY <2>3, <2>4
<1> QED
  BY <1>1, <1>2

(***************************************************************************)
(* What a mutation that takes effect leaves true.                           *)
(***************************************************************************)
\* What Applied appends, as facts about positions.
LEMMA AppliedAppends ==
    ASSUME ServerInv, NEW mut, Applied(mut)
    PROVE  LET row == Ledger!After(mission[mut.mission], mut)
           IN  /\ mut \in Mutation /\ row \in MissionRow
               /\ [by |-> mut, row |-> row] \in Entry
               /\ mission' \in [Missions -> MissionRow]
               /\ mission'[mut.mission] = row
               /\ \A m \in Missions : m # mut.mission => mission'[m] = mission[m]
               /\ log' \in Seq(Entry)
               /\ \E n \in Nat \ {0} : /\ DOMAIN log = 1 .. n - 1 /\ DOMAIN log' = 1 .. n
                                       /\ \A i \in DOMAIN log : log'[i] = log[i]
                                       /\ log'[n].by = mut /\ log'[n].row = row
<1> DEFINE row == Ledger!After(mission[mut.mission], mut)
           e == [by |-> mut, row |-> row]
<1>1. mut \in Mutation /\ mut.mission \in Missions /\ mission[mut.mission] \in MissionRow
  BY DEF Applied, ServerInv, Types, Mutation
<1>2. row \in MissionRow
  BY <1>1 DEF Ledger!After, MissionRow, Mutation
<1>3. e \in Entry
  BY <1>1, <1>2 DEF Entry
<1>4. mission' = [mission EXCEPT ![mut.mission] = row]
  BY DEF Applied
<1>5. /\ mission' \in [Missions -> MissionRow] /\ mission'[mut.mission] = row
      /\ \A m \in Missions : m # mut.mission => mission'[m] = mission[m]
  <2> HIDE DEF row
  <2> QED
    BY <1>1, <1>2, <1>4 DEF ServerInv, Types
<1>6. log \in Seq(Entry) /\ log' = Append(log, e)
  BY DEF Applied, ServerInv, Types
<1>7. /\ log' \in Seq(Entry)
      /\ DOMAIN log = 1 .. Len(log) /\ Len(log) \in Nat
      /\ DOMAIN log' = 1 .. Len(log) + 1
      /\ \A i \in DOMAIN log : log'[i] = log[i]
      /\ log'[Len(log) + 1] = e
  <2> HIDE DEF e
  <2> QED
    BY <1>3, <1>6, AppendKeeps
<1>8. PICK n \in Nat \ {0} : n = Len(log) + 1
  BY <1>7
<1>9. /\ DOMAIN log = 1 .. n - 1 /\ DOMAIN log' = 1 .. n
      /\ \A i \in DOMAIN log : log'[i] = log[i]
      /\ log'[n].by = mut /\ log'[n].row = row
  BY <1>7, <1>8
<1> QED
  BY <1>1, <1>2, <1>3, <1>5, <1>7, <1>9

\* What is in the log stays there.
LEMMA AppliedGrows ==
    ASSUME ServerInv, NEW mut, Applied(mut)
    PROVE  /\ \A b : (\E i \in DOMAIN log' : log'[i].by = b)
                        <=> b = mut \/ \E i \in DOMAIN log : log[i].by = b
           /\ \A op, m : InLog(op, m)' <=> InLog(op, m) \/ (mut.op = op /\ mut.mission = m)
<1> DEFINE row == Ledger!After(mission[mut.mission], mut)
<1> PICK n \in Nat \ {0} : /\ DOMAIN log = 1 .. n - 1 /\ DOMAIN log' = 1 .. n
                           /\ \A i \in DOMAIN log : log'[i] = log[i]
                           /\ log'[n].by = mut /\ log'[n].row = row
  BY AppliedAppends
<1> HIDE DEF row
<1>1. \A i \in DOMAIN log' : i = n \/ i \in DOMAIN log
  OBVIOUS
<1>2. n \in DOMAIN log' /\ \A i \in DOMAIN log : i \in DOMAIN log'
  OBVIOUS
<1>3. ASSUME NEW b
      PROVE  (\E i \in DOMAIN log' : log'[i].by = b)
                <=> b = mut \/ \E i \in DOMAIN log : log[i].by = b
  BY <1>1, <1>2
<1>4. ASSUME NEW op, NEW m
      PROVE  InLog(op, m)' <=> InLog(op, m) \/ (mut.op = op /\ mut.mission = m)
  <2>1. InLog(op, m)' <=> \E i \in DOMAIN log' : log'[i].by.op = op /\ log'[i].by.mission = m
    BY DEF InLog
  <2>2. InLog(op, m) <=> \E i \in DOMAIN log : log[i].by.op = op /\ log[i].by.mission = m
    BY DEF InLog
  <2> QED
    BY <1>1, <1>2, <2>1, <2>2
<1> QED
  BY <1>3, <1>4

\* The log and the rows still agree.
LEMMA AppliedKeepsLog ==
    ASSUME ServerInv, NEW mut, Applied(mut)
    PROVE  LogOK'
<1> DEFINE row == Ledger!After(mission[mut.mission], mut)
           e == [by |-> mut, row |-> row]
<1>1. log \in Seq(Entry) /\ log' = Append(log, e) /\ e \in Entry
  BY AppliedAppends DEF Applied, ServerInv, Types
<1>2. \A m \in Missions :
          /\ Ledger!RowOf(m)' = IF e.by.mission = m THEN e.row ELSE Ledger!RowOf(m)
          /\ (\E i \in DOMAIN log' : log'[i].by.mission = m) => LastOf(m)'
  <2> HIDE DEF e
  <2> QED
    BY <1>1, RowOfAppended DEF ServerInv, LogOK
<1>3. e.by.mission = mut.mission /\ e.row = row
  OBVIOUS
<1>4. LogIsAuthoritative'
  <2> HIDE DEF row, e
  <2> SUFFICES ASSUME NEW m \in Missions
               PROVE  mission'[m] = Ledger!RowOf(m)'
    BY DEF LogIsAuthoritative
  <2>1. mission[m] = Ledger!RowOf(m)
    BY DEF ServerInv, LogOK, LogIsAuthoritative
  <2>2. mission'[mut.mission] = row /\ (m # mut.mission => mission'[m] = mission[m])
    BY AppliedAppends DEF row
  <2> QED
    BY <1>2, <1>3, <2>1, <2>2
<1>5. row.stage # "absent"
  BY DEF Ledger!After
<1>6. \A i \in DOMAIN log' : log'[i].row.stage # "absent"
  <2>1. PICK n \in Nat \ {0} : /\ DOMAIN log = 1 .. n - 1 /\ DOMAIN log' = 1 .. n
                               /\ \A i \in DOMAIN log : log'[i] = log[i]
                               /\ log'[n].row = row
    BY AppliedAppends
  <2> HIDE DEF row
  <2> QED
    BY <1>5, <2>1 DEF ServerInv, LogOK
<1> QED
  BY <1>2, <1>4, <1>6 DEF LogOK

\* How a mission stands is still what the log has of it.
LEMMA AppliedKeepsRows ==
    ASSUME ServerInv, NEW mut, Applied(mut)
    PROVE  RowsOK'
<1> SUFFICES ASSUME NEW m \in Missions
             PROVE  /\ mission'[m].stage = "absent" => mission'[m] = NoRow
                    /\ mission'[m].stage = "deleted" => InLog("delete", m)'
                    /\ mission'[m].done <=> InLog("complete", m)'
  BY DEF RowsOK
<1>1. /\ mission[m].stage = "absent" => mission[m] = NoRow
      /\ mission[m].stage = "deleted" => InLog("delete", m)
      /\ mission[m].done <=> InLog("complete", m)
  BY DEF ServerInv, RowsOK
<1>2. CASE m # mut.mission
  <2>1. mission'[m] = mission[m]
    BY <1>2, AppliedAppends
  <2>2. \A op : InLog(op, m)' <=> InLog(op, m)
    BY <1>2, AppliedGrows
  <2> QED
    BY <1>1, <2>1, <2>2
<1>3. CASE m = mut.mission
  <2>1. mission'[m] = Ledger!After(mission[m], mut)
    BY <1>3, AppliedAppends
  <2>2. /\ mission'[m].stage = IF mut.op = "delete" THEN "deleted" ELSE "active"
        /\ mission'[m].done = (mission[m].done \/ mut.op = "complete")
    BY <2>1 DEF Ledger!After
  <2>3. \A op : InLog(op, m)' <=> InLog(op, m) \/ mut.op = op
    BY <1>3, AppliedGrows
  <2> QED
    BY <1>1, <2>2, <2>3
<1> QED
  BY <1>2, <1>3

\* mut was not in the log, so nothing is there twice.
LEMMA AppliedKeepsOnce ==
    ASSUME ServerInv, NEW mut, Applied(mut)
    PROVE  AppliedOnce'
BY AppliedAppends DEF Applied, ServerInv, AppliedOnce

\* The last entry of the mission is its row, and an update was made against it.
LEMMA AppliedKeepsUpdates ==
    ASSUME ServerInv, NEW mut, Applied(mut)
    PROVE  NoLostUpdate'
<1> DEFINE row == Ledger!After(mission[mut.mission], mut)
<1>1. PICK n \in Nat \ {0} : /\ DOMAIN log = 1 .. n - 1 /\ DOMAIN log' = 1 .. n
                             /\ \A i \in DOMAIN log : log'[i] = log[i]
                             /\ log'[n].by = mut /\ log'[n].row = row
  BY AppliedAppends
<1>2. mut \in Mutation /\ mut.mission \in Missions
  BY AppliedAppends DEF Mutation
<1> SUFFICES ASSUME NEW i \in DOMAIN log', NEW j \in DOMAIN log',
                    i < j, log'[i].by.mission = log'[j].by.mission,
                    \A k \in i + 1 .. j - 1 : log'[k].by.mission # log'[j].by.mission
             PROVE  /\ log'[j].row.version = log'[i].row.version + 1
                    /\ log'[j].by.op = "update" => log'[j].by.base = log'[i].row.version
  BY DEF NoLostUpdate
<1>3. CASE j # n
  <2>1. /\ i \in DOMAIN log /\ j \in DOMAIN log
        /\ log'[i] = log[i] /\ log'[j] = log[j]
        /\ \A k \in i + 1 .. j - 1 : k \in DOMAIN log /\ log'[k] = log[k]
    BY <1>1, <1>3
  <2>2. \A k \in i + 1 .. j - 1 : log[k].by.mission # log[j].by.mission
    BY <2>1
  <2>3. /\ log[j].row.version = log[i].row.version + 1
        /\ log[j].by.op = "update" => log[j].by.base = log[i].row.version
    BY <2>1, <2>2 DEF ServerInv, NoLostUpdate
  <2> QED
    BY <2>1, <2>3
<1>4. CASE j = n
  <2>1. i \in DOMAIN log /\ log'[i] = log[i] /\ log[i].by.mission = mut.mission
    BY <1>1, <1>4
  <2>2. \A k \in DOMAIN log : k > i => log[k].by.mission # mut.mission
    BY <1>1, <1>4, <2>1
  <2>3. Ledger!IsLast(i, mut.mission)
    BY <2>1, <2>2 DEF Ledger!IsLast
  <2>4. mission[mut.mission] = log[i].row
    BY <1>2, <2>1, <2>3, RowOfLast DEF ServerInv, Types, LogOK, LogIsAuthoritative
  <2>5. row.version = mission[mut.mission].version + 1
    BY DEF Ledger!After
  <2>6. mut.op = "update" => mission[mut.mission].version = mut.base
    BY DEF Applied, Ledger!Permits
  <2> HIDE DEF row
  <2> QED
    BY <1>1, <1>4, <2>1, <2>4, <2>5, <2>6
<1> QED
  BY <1>3, <1>4

\* A push is recorded with its entry, a completion is not.
LEMMA AppliedKeepsRecorded ==
    ASSUME ServerInv, NEW mut, Applied(mut)
    PROVE  RecordedOK' /\ recorded' \subseteq Mutation
<1>1. recorded' = IF mut.op = "complete" THEN recorded ELSE recorded \cup {mut}
  BY DEF Applied
<1>2. RecordedOK /\ recorded \subseteq Mutation
  BY DEF ServerInv, Types
<1>3. \A r \in recorded' : r.op # "complete" /\ \E i \in DOMAIN log' : log'[i].by = r
  BY <1>1, <1>2, AppliedGrows DEF RecordedOK
<1>4. \A i \in DOMAIN log' : log'[i].by.op # "complete" => log'[i].by \in recorded'
  <2> TAKE i \in DOMAIN log'
  <2>1. log'[i].by = mut \/ \E k \in DOMAIN log : log[k].by = log'[i].by
    BY AppliedGrows
  <2> QED
    BY <1>1, <1>2, <2>1 DEF RecordedOK
<1> QED
  BY <1>1, <1>2, <1>3, <1>4, AppliedAppends DEF RecordedOK

(***************************************************************************)
(* The actions.                                                            *)
(***************************************************************************)
\* The row after a mutation, by the kind of the mutation.
LEMMA RowAfter ==
    ASSUME NEW cur \in MissionRow, NEW mut \in Mutation
    PROVE  /\ mut.op = "create" /\ cur = NoRow =>
               Ledger!After(cur, mut) = [stage |-> "active", done |-> FALSE, version |-> 1,
                                         content |-> mut.id]
           /\ mut.op = "update" /\ cur.stage = "active" =>
               Ledger!After(cur, mut) = [cur EXCEPT !.version = @ + 1, !.content = mut.id]
           /\ mut.op = "delete" =>
               Ledger!After(cur, mut) = [cur EXCEPT !.stage = "deleted", !.version = @ + 1]
           /\ mut.op = "complete" /\ cur.stage = "active" =>
               Ledger!After(cur, mut) = [cur EXCEPT !.done = TRUE, !.version = @ + 1]
<1>0. PICK g : g = Ledger!After(cur, mut)
  OBVIOUS
<1>1. /\ g.stage = IF mut.op = "delete" THEN "deleted" ELSE "active"
      /\ g.done = (cur.done \/ mut.op = "complete")
      /\ g.version = cur.version + 1
      /\ g.content = IF mut.op \in {"create", "update"} THEN mut.id ELSE cur.content
  BY <1>0 DEF Ledger!After
<1>2. g = [stage |-> g.stage, done |-> g.done, version |-> g.version, content |-> g.content]
  BY <1>0 DEF Ledger!After
<1>3. CASE mut.op = "create" /\ cur = NoRow
  <2>1. g.stage = "active" /\ g.version = 1 /\ g.content = mut.id
    BY <1>1, <1>3 DEF NoRow
  <2>2. g.done = FALSE
    BY <1>1, <1>3 DEF NoRow
  <2>3. g = [stage |-> "active", done |-> FALSE, version |-> 1, content |-> mut.id]
    BY <1>2, <2>1, <2>2
  <2> QED
    BY <1>0, <1>3, <2>3
<1>4. CASE mut.op = "update" /\ cur.stage = "active"
  <2>1. PICK f : f = [cur EXCEPT !.version = @ + 1, !.content = mut.id]
    OBVIOUS
  <2>2. f.stage = "active" /\ f.version = cur.version + 1 /\ f.content = mut.id
    BY <1>4, <2>1 DEF MissionRow
  <2>3. f.done = cur.done
    BY <2>1 DEF MissionRow
  <2>4. f = [stage |-> f.stage, done |-> f.done, version |-> f.version, content |-> f.content]
    BY <2>1 DEF MissionRow
  <2>5. g.stage = "active" /\ g.version = cur.version + 1 /\ g.content = mut.id
    BY <1>1, <1>4
  <2>6. g.done = cur.done
    BY <1>1, <1>4 DEF MissionRow
  <2>7. f = g
    BY <1>2, <2>2, <2>3, <2>4, <2>5, <2>6
  <2> QED
    BY <1>0, <1>4, <2>1, <2>7
<1>5. CASE mut.op = "delete"
  <2>1. PICK f : f = [cur EXCEPT !.stage = "deleted", !.version = @ + 1]
    OBVIOUS
  <2>2. f.stage = "deleted" /\ f.version = cur.version + 1 /\ f.content = cur.content
    BY <2>1 DEF MissionRow
  <2>3. f.done = cur.done
    BY <2>1 DEF MissionRow
  <2>4. f = [stage |-> f.stage, done |-> f.done, version |-> f.version, content |-> f.content]
    BY <2>1 DEF MissionRow
  <2>5. g.stage = "deleted" /\ g.version = cur.version + 1 /\ g.content = cur.content
    BY <1>1, <1>5
  <2>6. g.done = cur.done
    BY <1>1, <1>5 DEF MissionRow
  <2>7. f = g
    BY <1>2, <2>2, <2>3, <2>4, <2>5, <2>6
  <2> QED
    BY <1>0, <1>5, <2>1, <2>7
<1>6. CASE mut.op = "complete" /\ cur.stage = "active"
  <2>1. PICK f : f = [cur EXCEPT !.done = TRUE, !.version = @ + 1]
    OBVIOUS
  <2>2. f.stage = "active" /\ f.version = cur.version + 1 /\ f.content = cur.content
    BY <1>6, <2>1 DEF MissionRow
  <2>3. f.done = TRUE
    BY <2>1 DEF MissionRow
  <2>4. f = [stage |-> f.stage, done |-> f.done, version |-> f.version, content |-> f.content]
    BY <2>1 DEF MissionRow
  <2>5. g.stage = "active" /\ g.version = cur.version + 1 /\ g.content = cur.content
    BY <1>1, <1>6
  <2>6. g.done = TRUE
    BY <1>1, <1>6 DEF MissionRow
  <2>7. f = g
    BY <1>2, <2>2, <2>3, <2>4, <2>5, <2>6
  <2> QED
    BY <1>0, <1>6, <2>1, <2>7
<1> QED
  BY <1>3, <1>4, <1>5, <1>6

\* A push that changes its mission takes effect as the ledger permits.
LEMMA PushApplies ==
    ASSUME ServerInv, NEW h \in Handlers,
           CreateMission(h) \/ UpdateMission(h) \/ DeleteMission(h)
    PROVE  Applied(request[h])
<1> DEFINE mut == request[h]
           cur == mission[mut.mission]
<1>1. mut \in Mutation /\ mut.mission \in Missions /\ mut.op # "complete"
  BY DEF CreateMission, UpdateMission, DeleteMission, Applying, ServerInv, Serving, Mutation
<1>2. cur \in MissionRow /\ (cur.stage = "absent" => cur = NoRow)
  BY <1>1 DEF ServerInv, Types, RowsOK
<1>3. \A i \in DOMAIN log : log[i].by # mut
  <2>1. ~Recorded(mut)
    BY DEF CreateMission, UpdateMission, DeleteMission, Accept
  <2> QED
    BY <1>1, <2>1 DEF Recorded, ServerInv, RecordedOK
<1>4. Ledger!Permits(cur, mut)
  BY DEF CreateMission, UpdateMission, DeleteMission, Applying, Current, Ledger!Permits
<1>5. Accept(h, Ledger!After(cur, mut))
  <2>1. CASE CreateMission(h)
    <3>1. [stage |-> "active", done |-> FALSE, version |-> 1, content |-> mut.id]
              = Ledger!After(cur, mut)
      BY <1>1, <1>2, <2>1, RowAfter DEF CreateMission, Applying, Current
    <3> QED
      BY <2>1, <3>1 DEF CreateMission
  <2>2. CASE UpdateMission(h)
    <3>1. [cur EXCEPT !.version = @ + 1, !.content = mut.id] = Ledger!After(cur, mut)
      BY <1>1, <1>2, <2>2, RowAfter DEF UpdateMission, Applying, Current
    <3> QED
      BY <2>2, <3>1 DEF UpdateMission, Current
  <2>3. CASE DeleteMission(h)
    <3>1. [cur EXCEPT !.stage = "deleted", !.version = @ + 1] = Ledger!After(cur, mut)
      BY <1>1, <1>2, <2>3, RowAfter DEF DeleteMission, Applying, Current
    <3> QED
      BY <2>3, <3>1 DEF DeleteMission, Current
  <2> QED
    BY <2>1, <2>2, <2>3
<1> QED
  BY <1>1, <1>3, <1>4, <1>5 DEF Accept, Applied

\* So does a first completion.
LEMMA CompletionApplies ==
    ASSUME ServerInv, NEW h \in Handlers, CompleteMission(h)
    PROVE  Applied(request[h])
<1> DEFINE mut == request[h]
           cur == mission[mut.mission]
           row == [cur EXCEPT !.done = TRUE, !.version = @ + 1]
<1>1. mut \in Mutation /\ mut.mission \in Missions /\ mut.op = "complete"
  BY DEF CompleteMission, Completing, ServerInv, Serving, Mutation
<1>2. cur \in MissionRow /\ cur.stage = "active" /\ ~cur.done
  BY <1>1 DEF ServerInv, Types, CompleteMission, Current
<1>3. \A i \in DOMAIN log : log[i].by # mut
  BY <1>1, <1>2 DEF ServerInv, RowsOK, InLog
<1>4. Ledger!Permits(cur, mut)
  BY <1>1, <1>2 DEF Ledger!Permits
<1>5. row = Ledger!After(cur, mut)
  BY <1>1, <1>2, RowAfter
<1>6. /\ mission' = [mission EXCEPT ![mut.mission] = row]
      /\ log' = Append(log, [by |-> mut, row |-> row])
      /\ recorded' = recorded
  BY DEF CompleteMission, Current
<1> HIDE DEF row
<1> QED
  BY <1>1, <1>3, <1>4, <1>5, <1>6 DEF Applied

\* Every step leaves the missions alone or lets one mutation take effect.
LEMMA StepApplies ==
    ASSUME ServerInv, [Next]_vars
    PROVE  UNCHANGED <<mission, recorded, log>> \/ \E mut \in Mutation : Applied(mut)
<1> SUFFICES ASSUME Next
             PROVE  UNCHANGED <<mission, recorded, log>> \/ \E mut \in Mutation : Applied(mut)
  BY DEF vars, dbVars
<1>1. ASSUME NEW h \in Handlers, Applied(request[h])
      PROVE  \E mut \in Mutation : Applied(mut)
  BY <1>1 DEF Applied
<1>2. ASSUME NEW h \in Handlers, Serve(h)
      PROVE  UNCHANGED <<mission, recorded, log>> \/ \E mut \in Mutation : Applied(mut)
  <2>1. CASE CreateMission(h) \/ UpdateMission(h) \/ DeleteMission(h)
    BY <1>1, <2>1, PushApplies
  <2>2. CASE CompleteMission(h)
    BY <1>1, <2>2, CompletionApplies
  <2>3. CASE \/ FindRecorded(h) \/ RefuseDeleted(h) \/ RefuseWithError(h)
             \/ ReplayCompletion(h) \/ CompletionOfDeleted(h) \/ RejectCompletion(h)
    BY <2>3 DEF FindRecorded, RefuseDeleted, RefuseWithError, ReplayCompletion,
                CompletionOfDeleted, RejectCompletion, dbVars
  <2>4. CASE CompletedElsewhere(h)
    BY <2>4 DEF CompletedElsewhere
  <2> QED
    BY <1>2, <2>1, <2>2, <2>3, <2>4 DEF Serve
<1>3. CASE \E h \in Handlers, mut \in Requests : Submit(h, mut)
  BY <1>3 DEF Submit, dbVars
<1>4. CASE \E h \in Handlers : Abort(h) \/ Release(h)
  BY <1>4 DEF Abort, Release, dbVars
<1>5. CASE \E k \in keys : ExpireKey(k)
  BY <1>5 DEF ExpireKey
<1> QED
  BY <1>2, <1>3, <1>4, <1>5 DEF Next

\* A handler that serves has a mutation to serve.
LEMMA HandlersKeep ==
    ASSUME ServerInv, [Next]_vars
    PROVE  /\ phase' \in [Handlers -> {"free", "received", "fresh", "answered"}]
           /\ request' \in [Handlers -> Mutation \cup {NoMutation}]
           /\ answer' \in [Handlers -> Answer]
           /\ Serving'
<1> USE DEF Answer
<1>0. Types /\ Serving /\ KeysOK
  BY DEF ServerInv
<1>1. ASSUME NEW h \in Handlers, NEW a \in Answer, Respond(h, a)
      PROVE  /\ phase' \in [Handlers -> {"free", "received", "fresh", "answered"}]
             /\ request' \in [Handlers -> Mutation \cup {NoMutation}]
             /\ answer' \in [Handlers -> Answer]
             /\ Serving'
  BY <1>0, <1>1 DEF Respond, Types, Serving
<1>2. ASSUME NEW h \in Handlers, Serve(h)
      PROVE  \/ \E a \in Answer : Respond(h, a)
             \/ /\ phase[h] = "received" /\ phase' = [phase EXCEPT ![h] = "fresh"]
                /\ UNCHANGED <<request, answer>>
  <2>1. CASE FindRecorded(h)
    BY <2>1 DEF FindRecorded
  <2>2. CASE ReplayCompletion(h)
    BY <1>0, <2>2 DEF ReplayCompletion, Types, StoredKey
  <2>3. CASE CreateMission(h) \/ UpdateMission(h) \/ DeleteMission(h)
    BY <2>3 DEF CreateMission, UpdateMission, DeleteMission, Accept
  <2>4. CASE CompleteMission(h) \/ CompletedElsewhere(h)
    BY <2>4 DEF CompleteMission, CompletedElsewhere
  <2>5. CASE \/ RefuseDeleted(h) \/ RefuseWithError(h) \/ CompletionOfDeleted(h)
             \/ RejectCompletion(h)
    BY <2>5 DEF RefuseDeleted, RefuseWithError, CompletionOfDeleted, RejectCompletion
  <2> QED
    BY <1>2, <2>1, <2>2, <2>3, <2>4, <2>5 DEF Serve
<1>3. CASE \E h \in Handlers : Serve(h)
  <2> PICK h \in Handlers : Serve(h)
    BY <1>3
  <2>1. CASE \E a \in Answer : Respond(h, a)
    BY <1>1, <2>1
  <2>2. CASE /\ phase[h] = "received" /\ phase' = [phase EXCEPT ![h] = "fresh"]
             /\ UNCHANGED <<request, answer>>
    BY <1>0, <2>2 DEF Types, Serving
  <2> QED
    BY <1>2, <2>1, <2>2
<1>4. CASE \E h \in Handlers, mut \in Requests : Submit(h, mut)
  BY <1>0, <1>4, RequestsAssumption DEF Submit, Types, Serving
<1>5. CASE \E h \in Handlers : Abort(h)
  BY <1>1, <1>5 DEF Abort
<1>6. CASE \E h \in Handlers : Release(h)
  BY <1>0, <1>6 DEF Release, Types, Serving
<1>7. CASE (\E k \in keys : ExpireKey(k)) \/ UNCHANGED vars
  BY <1>0, <1>7 DEF ExpireKey, vars, Types, Serving
<1> QED
  BY <1>3, <1>4, <1>5, <1>6, <1>7 DEF Next

\* A step that changes no mission keeps what is known of them.
LEMMA Quiet ==
    ASSUME ServerInv, UNCHANGED <<mission, recorded, log>>
    PROVE  LogOK' /\ RowsOK' /\ RecordedOK' /\ AppliedOnce' /\ NoLostUpdate'
<1>1. LogOK'
  BY DEF ServerInv, LogOK, LogIsAuthoritative, LastOf, Ledger!IsLast, Ledger!RowOf
<1>2. RowsOK'
  BY DEF ServerInv, RowsOK, InLog
<1>3. RecordedOK'
  BY DEF ServerInv, RecordedOK
<1>4. AppliedOnce' /\ NoLostUpdate'
  BY DEF ServerInv, AppliedOnce, NoLostUpdate
<1> QED
  BY <1>1, <1>2, <1>3, <1>4

\* What is in the log stays there, whatever the step.
LEMMA LogGrows ==
    ASSUME ServerInv, [Next]_vars
    PROVE  /\ \A b : (\E i \in DOMAIN log : log[i].by = b) => \E i \in DOMAIN log' : log'[i].by = b
           /\ \A op, m : InLog(op, m) => InLog(op, m)'
<1>1. CASE UNCHANGED <<mission, recorded, log>>
  BY <1>1 DEF InLog
<1>2. CASE \E mut \in Mutation : Applied(mut)
  BY <1>2, AppliedGrows
<1> QED
  BY <1>1, <1>2, StepApplies

\* A completion whose key is stored with "accepted" is in the log.
LEMMA CompletionLogged ==
    ASSUME ServerInv, NEW h \in Handlers, CompleteMission(h)
    PROVE  request[h] \in Mutation /\ \E i \in DOMAIN log' : log'[i].by = request[h]
<1>1. Applied(request[h])
  BY CompletionApplies
<1> QED
  BY <1>1, AppliedGrows DEF Applied

\* The stored responses stay true: a key is added with a response that is.
LEMMA KeysKeep ==
    ASSUME ServerInv, [Next]_vars
    PROVE  keys' \subseteq StoredKey /\ KeysOK'
<1>1. keys \subseteq StoredKey /\ KeysOK
  BY DEF ServerInv, Types
<1>2. ASSUME keys' \subseteq keys
      PROVE  keys' \subseteq StoredKey /\ KeysOK'
  BY <1>1, <1>2, LogGrows DEF KeysOK
<1>3. ASSUME NEW h \in Handlers, CompleteMission(h)
      PROVE  keys' \subseteq StoredKey /\ KeysOK'
  <2>1. keys' = keys \cup {[by |-> request[h], response |-> "accepted"]}
    BY <1>3 DEF CompleteMission, StoreKey
  <2>2. request[h] \in Mutation /\ \E i \in DOMAIN log' : log'[i].by = request[h]
    BY <1>3, CompletionLogged
  <2> QED
    BY <1>1, <2>1, <2>2, LogGrows DEF KeysOK, StoredKey
<1>4. ASSUME NEW h \in Handlers, CompletedElsewhere(h)
      PROVE  keys' \subseteq StoredKey /\ KeysOK'
  <2>1. keys' = keys \cup {[by |-> request[h], response |-> "completed_elsewhere"]}
    BY <1>4 DEF CompletedElsewhere, StoreKey
  <2>2. request[h] \in Mutation /\ request[h].mission \in Missions
    BY <1>4 DEF CompletedElsewhere, Completing, ServerInv, Serving, Mutation
  <2>3. InLog("complete", request[h].mission)
    BY <1>4, <2>2 DEF CompletedElsewhere, Current, ServerInv, RowsOK
  <2> QED
    BY <1>1, <2>1, <2>2, <2>3, LogGrows DEF KeysOK, StoredKey
<1>5. ASSUME NEW h \in Handlers, Serve(h)
      PROVE  keys' \subseteq StoredKey /\ KeysOK'
  <2>1. CASE \/ FindRecorded(h) \/ RefuseDeleted(h) \/ RefuseWithError(h)
             \/ ReplayCompletion(h) \/ CompletionOfDeleted(h) \/ RejectCompletion(h)
    <3>1. keys' = keys
      BY <2>1 DEF FindRecorded, RefuseDeleted, RefuseWithError, ReplayCompletion,
                  CompletionOfDeleted, RejectCompletion, dbVars
    <3> QED
      BY <1>2, <3>1
  <2>2. CASE CreateMission(h) \/ UpdateMission(h) \/ DeleteMission(h)
    <3>1. keys' = keys
      BY <2>2 DEF CreateMission, UpdateMission, DeleteMission, Accept
    <3> QED
      BY <1>2, <3>1
  <2> QED
    BY <1>3, <1>4, <1>5, <2>1, <2>2 DEF Serve
<1>6. CASE \E h \in Handlers : Serve(h)
  BY <1>5, <1>6
<1>7. CASE \/ \E h \in Handlers, mut \in Requests : Submit(h, mut)
           \/ \E h \in Handlers : Abort(h) \/ Release(h)
           \/ UNCHANGED vars
  <2>1. keys' = keys
    BY <1>7 DEF Submit, Abort, Release, vars, dbVars
  <2> QED
    BY <1>2, <2>1
<1>8. CASE \E k \in keys : ExpireKey(k)
  <2>1. keys' \subseteq keys
    BY <1>8 DEF ExpireKey
  <2> QED
    BY <1>2, <2>1
<1> QED
  BY <1>6, <1>7, <1>8 DEF Next

(***************************************************************************)
(* The invariant.                                                          *)
(***************************************************************************)
\* The server starts in the invariant.
LEMMA ServerInit == Init => ServerInv
<1> SUFFICES ASSUME Init
             PROVE  ServerInv
  OBVIOUS
<1>1. NoRow \in MissionRow
  BY DEF NoRow, MissionRow
<1>2. Types /\ Serving
  BY <1>1 DEF Init, Types, Serving, Answer
<1>3. log = <<>> /\ DOMAIN log = {}
  BY DEF Init
<1>4. LogOK /\ AppliedOnce /\ NoLostUpdate
  BY <1>3 DEF Init, LogOK, LogIsAuthoritative, Ledger!RowOf, NoRow, Ledger!NoRow,
              AppliedOnce, NoLostUpdate
<1>5. RowsOK /\ RecordedOK /\ KeysOK
  BY <1>3 DEF Init, RowsOK, RecordedOK, KeysOK, InLog, NoRow
<1> QED
  BY <1>2, <1>4, <1>5 DEF ServerInv

\* Every step keeps the invariant.
LEMMA ServerNext == ServerInv /\ [Next]_vars => ServerInv'
<1> SUFFICES ASSUME ServerInv, [Next]_vars
             PROVE  ServerInv'
  OBVIOUS
<1>1. keys' \subseteq StoredKey /\ KeysOK'
  BY KeysKeep
<1>2. /\ phase' \in [Handlers -> {"free", "received", "fresh", "answered"}]
      /\ request' \in [Handlers -> Mutation \cup {NoMutation}]
      /\ answer' \in [Handlers -> Answer]
      /\ Serving'
  BY HandlersKeep
<1>3. CASE UNCHANGED <<mission, recorded, log>>
  <2>1. LogOK' /\ RowsOK' /\ RecordedOK' /\ AppliedOnce' /\ NoLostUpdate'
    BY <1>3, Quiet
  <2>2. Types'
    BY <1>1, <1>2, <1>3 DEF ServerInv, Types
  <2> QED
    BY <1>1, <1>2, <2>1, <2>2 DEF ServerInv
<1>4. CASE \E mut \in Mutation : Applied(mut)
  <2> PICK mut \in Mutation : Applied(mut)
    BY <1>4
  <2>1. LogOK' /\ RowsOK' /\ AppliedOnce' /\ NoLostUpdate'
    BY AppliedKeepsLog, AppliedKeepsRows, AppliedKeepsOnce, AppliedKeepsUpdates
  <2>2. RecordedOK' /\ recorded' \subseteq Mutation
    BY AppliedKeepsRecorded
  <2>3. mission' \in [Missions -> MissionRow] /\ log' \in Seq(Entry)
    BY AppliedAppends
  <2>4. Types'
    BY <1>1, <1>2, <2>2, <2>3 DEF Types
  <2> QED
    BY <1>1, <1>2, <2>1, <2>2, <2>4 DEF ServerInv
<1> QED
  BY <1>3, <1>4, StepApplies

\* The invariant holds in every state of every behaviour.
LEMMA ServerInvAlways == Spec => []ServerInv
BY ServerInit, ServerNext, PTL DEF Spec

(***************************************************************************)
(* The theorems.                                                           *)
(***************************************************************************)
\* The rows, the recorded mutations, the keys, the log and the requests keep
\* the shape the tables and the API give them.
THEOREM TypesAlways == Spec => []TypeOK
<1>1. ServerInv => TypeOK
  <2> SUFFICES ASSUME Types
               PROVE  TypeOK
    BY DEF ServerInv
  <2>1. \A k \in keys : k.by \in Mutation /\ k.response \in {"accepted", "completed_elsewhere"}
    BY DEF Types, StoredKey
  <2>2. \A e \in Entry : e.by \in Mutation /\ e.row \in MissionRow
    BY DEF Entry
  <2>3. \A i \in DOMAIN log : log[i] \in Entry
    BY DEF Types
  <2>4. \A h \in Handlers : request[h] = NoMutation \/ request[h] \in Mutation
    BY DEF Types
  <2> QED
    BY <2>1, <2>2, <2>3, <2>4 DEF Types, TypeOK
<1> QED
  BY <1>1, ServerInvAlways, PTL

\* What the devices are told is what the server has (sync-store.ts and
\* authoritative-completion.ts append in the transaction of the UPDATE).
THEOREM LogIsAuthoritativeAlways == Spec => []LogIsAuthoritative
<1>1. ServerInv => LogIsAuthoritative
  BY DEF ServerInv, LogOK
<1> QED
  BY <1>1, ServerInvAlways, PTL

\* A mutation takes effect at most once, however often it is sent.
THEOREM AppliedOnceAlways == Spec => []AppliedOnce
<1>1. ServerInv => AppliedOnce
  BY DEF ServerInv
<1> QED
  BY <1>1, ServerInvAlways, PTL

\* No update overwrites a change its author had not seen.
THEOREM NoLostUpdateAlways == Spec => []NoLostUpdate
<1>1. ServerInv => NoLostUpdate
  BY DEF ServerInv
<1> QED
  BY <1>1, ServerInvAlways, PTL

\* One legal entry more is a step of the ledger.
LEMMA AppliedIsLedgerStep ==
    ASSUME ServerInv, NEW mut, Applied(mut)
    PROVE  Ledger!Next
<1> DEFINE row == Ledger!After(mission[mut.mission], mut)
           e == [by |-> mut, row |-> row]
<1>1. e \in Entry /\ log \in Seq(Entry) /\ log' = Append(log, e)
  BY AppliedAppends DEF Applied, ServerInv, Types
<1>2. /\ mut \in Mutation /\ mut.mission \in Missions
      /\ \A i \in DOMAIN log : log[i].by # mut
      /\ Ledger!Permits(mission[mut.mission], mut)
  BY DEF Applied, Mutation
<1>3. mission[mut.mission] = Ledger!RowOf(mut.mission)
  BY <1>2 DEF ServerInv, LogOK, LogIsAuthoritative
<1>4. e.by = mut /\ e.row = Ledger!After(Ledger!RowOf(mut.mission), mut)
  BY <1>3
<1>5. Ledger!Permits(Ledger!RowOf(mut.mission), mut)
  BY <1>2, <1>3
<1> HIDE DEF e
<1>6. e \in {log'[i] : i \in {Len(log')} \cap DOMAIN log'}
  <2>1. /\ log' \in Seq(Entry) /\ DOMAIN log' = 1 .. Len(log) + 1 /\ Len(log) \in Nat
        /\ log'[Len(log) + 1] = e
    BY <1>1, AppendKeeps
  <2>2. Len(log') = Len(log) + 1
    BY <2>1
  <2> QED
    BY <2>1, <2>2
<1>7. /\ e.by \in Ledger!Mutation
      /\ log' = Append(log, e)
      /\ \A i \in DOMAIN log : log[i].by # e.by
      /\ Ledger!Permits(Ledger!RowOf(e.by.mission), e.by)
      /\ e.row = Ledger!After(Ledger!RowOf(e.by.mission), e.by)
  BY <1>1, <1>2, <1>4, <1>5 DEF Mutation, Ledger!Mutation
<1> QED
  BY <1>6, <1>7 DEF Ledger!Next

\* The server implements the ledger: each entry is legal after the ones before
\* it and nothing is taken back, for all handlers, retries and key expiries.
THEOREM ImplementsLedger == Spec => LedgerSpec
<1>1. Init => Ledger!Init
  BY DEF Init, Ledger!Init
<1>2. ServerInv /\ [Next]_vars => [Ledger!Next]_log
  BY StepApplies, AppliedIsLedgerStep
<1> QED
  BY <1>1, <1>2, ServerInvAlways, PTL DEF Spec, LedgerSpec, Ledger!Spec

\* A mission that is absent was never created.
LEMMA AbsentNeverCreated ==
    ASSUME ServerInv, NEW m \in Missions, mission[m].stage = "absent", NEW op
    PROVE  ~InLog(op, m)
<1> SUFFICES ASSUME InLog(op, m)
             PROVE  FALSE
  OBVIOUS
<1>1. LastOf(m)
  BY DEF InLog, ServerInv, LogOK
<1>2. PICK i \in DOMAIN log : Ledger!IsLast(i, m)
  BY <1>1 DEF LastOf
<1>3. mission[m] = log[i].row
  BY <1>2, RowOfLast DEF ServerInv, Types, LogOK, LogIsAuthoritative
<1>4. log[i].row.stage # "absent"
  BY DEF ServerInv, LogOK
<1> QED
  BY <1>3, <1>4

\* The answer a is true of the mutation mut.
Truthful(mut, a) ==
    /\ a = "accepted" => \E i \in DOMAIN log' : log'[i].by = mut
    /\ a = "completed_elsewhere" => InLog("complete", mut.mission)
    /\ a = "mission_deleted" =>
          InLog("delete", mut.mission) \/ ~InLog("create", mut.mission)

\* What a handler answers while it serves is true.
LEMMA ServedTruly ==
    ASSUME ServerInv, NEW h \in Handlers, Serve(h)
    PROVE  \/ \E a \in Answer : Respond(h, a) /\ Truthful(request[h], a)
           \/ phase' = [phase EXCEPT ![h] = "fresh"]
<1> DEFINE mut == request[h]
<1> USE DEF Answer
<1>0. mut \in Mutation /\ mut.mission \in Missions
  <2>1. phase[h] \in {"received", "fresh"}
    BY DEF Serve, FindRecorded, CreateMission, UpdateMission, DeleteMission, RefuseDeleted,
           RefuseWithError, ReplayCompletion, CompleteMission, CompletedElsewhere,
           CompletionOfDeleted, RejectCompletion, Applying, Completing
  <2> QED
    BY <2>1 DEF ServerInv, Serving, Mutation
<1>1. \A b : (\E i \in DOMAIN log : log[i].by = b) /\ UNCHANGED log
                => \E i \in DOMAIN log' : log'[i].by = b
  OBVIOUS
<1>2. CASE FindRecorded(h)
  <2>1. UNCHANGED log
    BY <1>2 DEF FindRecorded, dbVars
  <2>2. mut \in recorded => \E i \in DOMAIN log' : log'[i].by = mut
    BY <1>1, <2>1 DEF ServerInv, RecordedOK
  <2>3. \/ \E a \in {"accepted", "error"} :
              Respond(h, a) /\ (a = "accepted" => mut \in recorded)
        \/ phase' = [phase EXCEPT ![h] = "fresh"]
    BY <1>2 DEF FindRecorded
  <2> QED
    BY <2>2, <2>3 DEF Truthful
<1>3. CASE CreateMission(h) \/ UpdateMission(h) \/ DeleteMission(h)
  <2>1. Respond(h, "accepted")
    BY <1>3 DEF CreateMission, UpdateMission, DeleteMission, Accept
  <2>2. Applied(mut)
    BY <1>3, PushApplies
  <2>3. \E i \in DOMAIN log' : log'[i].by = mut
    BY <2>2, AppliedGrows
  <2> QED
    BY <2>1, <2>3 DEF Truthful
<1>4. CASE RefuseDeleted(h)
  <2>1. Respond(h, "mission_deleted") /\ mission[mut.mission].stage = "deleted"
    BY <1>4 DEF RefuseDeleted, Current
  <2>2. InLog("delete", mut.mission)
    BY <1>0, <2>1 DEF ServerInv, RowsOK
  <2> QED
    BY <2>1, <2>2 DEF Truthful
<1>5. CASE RefuseWithError(h) \/ RejectCompletion(h)
  BY <1>5 DEF RefuseWithError, RejectCompletion, Truthful
<1>6. CASE ReplayCompletion(h)
  <2>1. CASE Respond(h, "error")
    BY <2>1 DEF Truthful
  <2>2. CASE \E k \in keys : k.by = mut /\ Respond(h, k.response)
    <3> PICK k \in keys : k.by = mut /\ Respond(h, k.response)
      BY <2>2
    <3>1. UNCHANGED log
      BY <1>6 DEF ReplayCompletion, dbVars
    <3>2. /\ k.response \in {"accepted", "completed_elsewhere"}
          /\ k.response = "accepted" => \E i \in DOMAIN log : log[i].by = mut
          /\ k.response = "completed_elsewhere" => InLog("complete", mut.mission)
      BY DEF ServerInv, Types, StoredKey, KeysOK
    <3>3. Truthful(mut, k.response)
      BY <1>1, <3>1, <3>2 DEF Truthful
    <3> QED
      BY <3>2, <3>3
  <2> QED
    BY <1>6, <2>1, <2>2 DEF ReplayCompletion
<1>7. CASE CompleteMission(h)
  <2>1. Respond(h, "accepted")
    BY <1>7 DEF CompleteMission
  <2> QED
    BY <1>7, <2>1, CompletionLogged DEF Truthful
<1>8. CASE CompletedElsewhere(h)
  <2>1. Respond(h, "completed_elsewhere") /\ mission[mut.mission].done
    BY <1>8 DEF CompletedElsewhere, Current
  <2>2. InLog("complete", mut.mission)
    BY <1>0, <2>1 DEF ServerInv, RowsOK
  <2> QED
    BY <2>1, <2>2 DEF Truthful
<1>9. CASE CompletionOfDeleted(h)
  <2>1. Respond(h, "mission_deleted") /\ mission[mut.mission].stage # "active"
    BY <1>9 DEF CompletionOfDeleted, Current
  <2>2. CASE mission[mut.mission].stage = "absent"
    BY <1>0, <2>1, <2>2, AbsentNeverCreated DEF Truthful
  <2>3. CASE mission[mut.mission].stage = "deleted"
    <3>1. InLog("delete", mut.mission)
      BY <1>0, <2>3 DEF ServerInv, RowsOK
    <3> QED
      BY <2>1, <3>1 DEF Truthful
  <2>4. mission[mut.mission].stage \in {"absent", "active", "deleted"}
    BY <1>0 DEF ServerInv, Types, MissionRow
  <2> QED
    BY <2>1, <2>2, <2>3, <2>4
<1> QED
  BY <1>2, <1>3, <1>4, <1>5, <1>6, <1>7, <1>8, <1>9 DEF Serve

\* A handler that has an answer after a step had it before or gave it then.
LEMMA AnswersTrue ==
    ASSUME ServerInv, [Next]_vars, NEW h \in Handlers,
           phase[h] # "answered", phase'[h] = "answered"
    PROVE  Truthful(request[h], answer'[h])
<1>0. /\ phase \in [Handlers -> {"free", "received", "fresh", "answered"}]
      /\ answer \in [Handlers -> Answer]
  BY DEF ServerInv, Types
<1>1. ASSUME NEW g \in Handlers, NEW a \in Answer, Respond(g, a), Truthful(request[g], a)
      PROVE  Truthful(request[h], answer'[h])
  <2>1. g = h /\ answer'[h] = a
    BY <1>0, <1>1 DEF Respond
  <2> QED
    BY <1>1, <2>1
<1>2. CASE \E g \in Handlers : Serve(g)
  <2> PICK g \in Handlers : Serve(g)
    BY <1>2
  <2>1. phase' # [phase EXCEPT ![g] = "fresh"]
    BY <1>0
  <2> QED
    BY <1>1, <2>1, ServedTruly
<1>3. CASE \E g \in Handlers : Abort(g)
  <2> PICK g \in Handlers : Abort(g)
    BY <1>3
  <2>1. Respond(g, "error") /\ Truthful(request[g], "error") /\ "error" \in Answer
    BY DEF Abort, Truthful, Answer
  <2> QED
    BY <1>1, <2>1
<1>4. CASE \/ \E g \in Handlers, mut \in Requests : Submit(g, mut)
           \/ \E g \in Handlers : Release(g)
           \/ \E k \in keys : ExpireKey(k)
           \/ UNCHANGED vars
  <2>1. phase'[h] # "answered" \/ phase'[h] = phase[h]
    BY <1>0, <1>4 DEF Submit, Release, ExpireKey, vars
  <2> QED
    BY <2>1
<1> QED
  BY <1>2, <1>3, <1>4 DEF Next

\* An answer tells the device the truth about its mutation (sync-service.ts,
\* completion-routes.ts), also from a stored key and in a retry.
THEOREM AnswersAreTrueAlways == Spec => AnswersAreTrue
<1> DEFINE Truth == \A h \in Handlers : phase[h] # "answered" /\ phase'[h] = "answered" =>
                       LET mut == request[h]
                       IN  /\ answer'[h] = "accepted" => \E i \in DOMAIN log' : log'[i].by = mut
                           /\ answer'[h] = "completed_elsewhere" => InLog("complete", mut.mission)
                           /\ answer'[h] = "mission_deleted" =>
                                 InLog("delete", mut.mission) \/ ~InLog("create", mut.mission)
<1>1. ServerInv /\ [Next]_vars => [Truth]_vars
  BY AnswersTrue DEF Truthful
<1>2. AnswersAreTrue <=> [][Truth]_vars
  BY DEF AnswersAreTrue
<1> QED
  BY <1>1, <1>2, ServerInvAlways, PTL DEF Spec
=============================================================================

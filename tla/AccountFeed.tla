----------------------------- MODULE AccountFeed -----------------------------
(***************************************************************************)
(* What the per-account change feed promises its readers, with no database *)
(* and no network in it.                                                   *)
(*                                                                         *)
(* Changes of one account form a single sequence.  A transaction publishes *)
(* one or more changes at its end in one step.  A reader (a device of the  *)
(* account) is a position in that sequence and, for each entity, the index *)
(* of the change it last took over (0: none).  A reader only moves         *)
(* forward, never past the end, and after a move it holds for every entity *)
(* the last change up to its position.  The one exception the promise      *)
(* makes is retention: what a later "delete" change withdraws may be       *)
(* missing from a reader that has not come to that change yet.             *)
(*                                                                         *)
(* ChangeLog shows how packages/database implements this.                  *)
(***************************************************************************)
EXTENDS Integers, Sequences, SequencesExt, FiniteSetsExt

CONSTANTS Entities,  \* what changes are about (missions, Story drafts, ...)
          Readers    \* devices of the account

VARIABLES feed,      \* the changes in the order they were published
          position,  \* position[r]: how far reader r has come
          held       \* held[r][e]: index of the change of e that r holds

vars == <<feed, position, held>>

Change == [entity : Entities, op : {"upsert", "delete"}]

LastIndexOf(e, n) ==
    LET hits == {i \in DOMAIN feed : i <= n /\ feed[i].entity = e}
    IN  IF hits = {} THEN 0 ELSE Max(hits)

Withdrawn(e, n) ==
    \E i \in n + 1 .. Len(feed) : feed[i] = [entity |-> e, op |-> "delete"]

Init ==
    /\ feed = <<>>
    /\ position = [r \in Readers |-> 0]
    /\ held = [r \in Readers |-> [e \in Entities |-> 0]]

Publish ==
    /\ IsStrictPrefix(feed, feed')
    /\ \A i \in DOMAIN feed' : feed'[i] \in Change
    /\ UNCHANGED <<position, held>>

Advance(r) ==
    /\ position'[r] \in position[r] + 1 .. Len(feed)
    /\ position' = [position EXCEPT ![r] = position'[r]]
    /\ \A e \in Entities :
          \/ held'[r][e] = LastIndexOf(e, position'[r])
          \/ Withdrawn(e, position'[r])
    /\ held' = [held EXCEPT ![r] = held'[r]]
    /\ UNCHANGED feed

Next == Publish \/ \E r \in Readers : Advance(r)

Spec == Init /\ [][Next]_vars
=============================================================================

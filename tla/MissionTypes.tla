----------------------------- MODULE MissionTypes -----------------------------
(***************************************************************************)
(* The records the mission modules share.                                  *)
(***************************************************************************)
EXTENDS Integers

CONSTANTS
    Missions,   \* mission occurrences of the account
    Ids,        \* mutation ids, also the idempotency keys
    NoId        \* no mutation

ASSUME NoIdAssumption == NoId \notin Ids

\* StoredSyncMutation: a mutation changes one mission.  base 0 is null: the
\* device knew no server version when it made it.  The payload is named by
\* the mutation's id.
Mutation ==
    [id : Ids, op : {"create", "update", "delete", "complete"}, mission : Missions, base : Nat]

\* A mission_occurrences row with its tombstone (deleted), or none (absent).
\* content is the mutation that wrote its title, schedule, location and notes.
MissionRow ==
    [stage : {"absent", "active", "deleted"}, done : BOOLEAN, version : Nat,
     content : Ids \cup {NoId}]

NoRow == [stage |-> "absent", done |-> FALSE, version |-> 0, content |-> NoId]
=============================================================================

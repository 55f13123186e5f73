---------------------------- MODULE MissionLedger ----------------------------
(***************************************************************************)
(* What an account is promised about its missions, whatever devices, API   *)
(* handlers, retries and clocks do: there is one sequence of accepted       *)
(* mutations, each entry is legal after the entries before it, and none is *)
(* ever taken back.  MissionServer implements it.                          *)
(*                                                                         *)
(* Abstracted from the guards of applyMissionCreateMutation,               *)
(* applyMissionUpdateMutation, applyMissionDeleteMutation (sync-store.ts)   *)
(* and completeMissionAuthoritatively (authoritative-completion.ts).       *)
(***************************************************************************)
EXTENDS Sequences, MissionTypes

VARIABLE log    \* [by: mutation, row: the mission row after it]

IsLast(i, m) ==
    /\ i \in DOMAIN log
    /\ log[i].by.mission = m
    /\ \A j \in DOMAIN log : j > i => log[j].by.mission # m

\* What the log says of mission m.
RowOf(m) ==
    IF \E i \in DOMAIN log : log[i].by.mission = m
    THEN log[CHOOSE i \in DOMAIN log : IsLast(i, m)].row
    ELSE NoRow

\* mut may be applied to row.
Permits(row, mut) ==
    \/ mut.op = "create" /\ row.stage = "absent"
    \/ mut.op = "update" /\ row.stage = "active" /\ ~row.done /\ row.version = mut.base
    \/ mut.op = "delete" /\ row.stage = "active"
    \/ mut.op = "complete" /\ row.stage = "active" /\ ~row.done

\* The row after mut.
After(row, mut) ==
    [stage   |-> IF mut.op = "delete" THEN "deleted" ELSE "active",
     done    |-> row.done \/ mut.op = "complete",
     version |-> row.version + 1,
     content |-> IF mut.op \in {"create", "update"} THEN mut.id ELSE row.content]

Init == log = <<>>

\* One legal entry more.
Next ==
    \E e \in {log'[i] : i \in {Len(log')} \cap DOMAIN log'} :
        /\ e.by \in Mutation
        /\ log' = Append(log, e)
        /\ \A i \in DOMAIN log : log[i].by # e.by
        /\ Permits(RowOf(e.by.mission), e.by)
        /\ e.row = After(RowOf(e.by.mission), e.by)

Spec == Init /\ [][Next]_log
=============================================================================

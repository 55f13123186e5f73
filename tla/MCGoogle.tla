------------------------------ MODULE MCGoogle ------------------------------
(***************************************************************************)
(* GoogleSync for TLC: two runs over one event, whose mission may be lost   *)
(* and imported again under a second id.                                   *)
(***************************************************************************)
EXTENDS GoogleSync, TLC

CONSTANTS e1, r1, r2, m1, m2

OneEvent == {e1}
TwoMissions == {m1, m2}
TwoRuns == {r1, r2}
Alike == Permutations(TwoRuns)
=============================================================================

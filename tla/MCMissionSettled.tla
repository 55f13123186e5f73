-------------------------- MODULE MCMissionSettled --------------------------
(***************************************************************************)
(* MissionSync for the liveness of queues: behaviours in which missions are *)
(* edited, or else deleted.  Both together are in the runs of safety.       *)
(***************************************************************************)
EXTENDS MCMissionSync

VARIABLE edited

Unused == IF edited THEN "delete" ELSE "update"

EitherInit == Init /\ edited \in BOOLEAN
EitherNext ==
    /\ Next
    /\ UNCHANGED edited
    /\ \A d \in Devices : \A i \in DOMAIN issued'[d] : issued'[d][i].op # Unused
EitherSpec == EitherInit /\ [][EitherNext]_<<edited, vars>> /\ Fairness
=============================================================================

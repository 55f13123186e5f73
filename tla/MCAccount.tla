------------------------------ MODULE MCAccount ------------------------------
(***************************************************************************)
(* Story drafts, the planner and feedback for TLC. They share no state: a   *)
(* behaviour moves one of the three and leaves the others as they begin.    *)
(***************************************************************************)
EXTENDS Story, Planner, Feedback, TLC

CONSTANTS p1, p2

TwoPhones == {p1, p2}
Alike == Permutations(TwoPhones)

VARIABLE part   \* what moves

AccountInit ==
    /\ StoryInit /\ PlannerInit /\ FeedbackInit
    /\ part \in {"story", "planner", "feedback"}
AccountNext ==
    \/ /\ part = "story" /\ StoryNext
       /\ UNCHANGED <<part, plannerVars, feedbackVars>>
    \/ /\ part = "planner" /\ PlannerNext
       /\ UNCHANGED <<part, storyVars, feedbackVars>>
    \/ /\ part = "feedback" /\ FeedbackNext
       /\ UNCHANGED <<part, storyVars, plannerVars>>
AccountSpec ==
    AccountInit
    /\ [][AccountNext]_<<part, storyVars, plannerVars, feedbackVars>>
=============================================================================

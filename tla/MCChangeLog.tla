----------------------------- MODULE MCChangeLog -----------------------------
(***************************************************************************)
(* Instances of ChangeLog for TLC.                                         *)
(***************************************************************************)
EXTENDS ChangeLog

CONSTANTS w1, w2, r1, story, mission, nobody

OneWriter == {w1}
TwoWriters == {w1, w2}
OneReader == {r1}
StoryAndMission == {story, mission}
OnlyStory == {story}
=============================================================================

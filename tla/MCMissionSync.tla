---------------------------- MODULE MCMissionSync ----------------------------
(***************************************************************************)
(* Instances of MissionSync for TLC.  There is one mission; in most of them *)
(* it is there from the start and synchronised everywhere.                 *)
(***************************************************************************)
EXTENDS MissionSync, TLC

CONSTANTS m1, d1, d2, h1, h2, none

OneMission == {m1}
NoMission == {}
OneDevice == {d1}
TwoDevices == {d1, d2}
OneHandler == {h1}
TwoHandlers == {h1, h2}
AtD1 == [m \in Missions |-> d1]
MCIds == Devices \X (1 .. MaxIssued) \cup Seeded

AllOps == {"create", "edit", "delete", "undo", "complete"}
AllButUndo == {"create", "edit", "delete", "complete"}
Edits == {"edit"}
EditDeleteComplete == {"edit", "delete", "complete"}

\* Missions that are there from the start have no home: devices and handlers
\* may be exchanged where nothing is created.
Alike == Permutations(Devices) \cup Permutations(Handlers)
=============================================================================

------------------------------ MODULE MCSettings ------------------------------
(***************************************************************************)
(* Devices and settings for TLC.                                           *)
(***************************************************************************)
EXTENDS Settings

CONSTANT p1

OnePhone == {p1}
=============================================================================

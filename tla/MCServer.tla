------------------------------- MODULE MCServer -------------------------------
(***************************************************************************)
(* The mission mutations, the sessions of an account and the reminders of a *)
(* phone for TLC. They share no state: a behaviour moves one of the three   *)
(* and leaves the others as they begin. Of missions, two devices' worth of  *)
(* mutations of one, and a second one whose create comes under an id that   *)
(* is also used for the first.                                             *)
(***************************************************************************)
EXTENDS MissionServer, Sessions, Reminders, FiniteSets, TLC

CONSTANTS m1, m2, c1, u1, u2, d1, x1, x2, h1, h2, none, p1, p2

MCMissions == {m1, m2}
MCIds == {c1, u1, u2, d1, x1, x2}
MCHandlers == {h1, h2}

Make(id, op, m, bases) ==
    {[id |-> id, op |-> op, mission |-> m, base |-> b] : b \in bases}

MCRequests ==
    Make(c1, "create", m1, {0}) \cup Make(c1, "create", m2, {0})
        \cup Make(u1, "update", m1, {1}) \cup Make(u2, "update", m1, {1, 2})
        \cup Make(d1, "delete", m1, {0, 1})
        \cup Make(x1, "complete", m1, {1}) \cup Make(x2, "complete", m1, {0})

TwoPhones == {p1, p2}
Alike == Permutations(TwoPhones)

VARIABLE part   \* what moves

ServerInit ==
    /\ Init /\ SessionInit /\ ReminderInit
    /\ part \in {"missions", "sessions", "reminders"}
ServerNext ==
    \/ part = "missions" /\ Next /\ UNCHANGED <<part, sessionVars, reminderVars>>
    \/ part = "sessions" /\ SessionNext /\ UNCHANGED <<part, vars, reminderVars>>
    \/ part = "reminders" /\ ReminderNext /\ UNCHANGED <<part, vars, sessionVars>>
ServerSpec == ServerInit /\ [][ServerNext]_<<part, vars, sessionVars, reminderVars>>
=============================================================================

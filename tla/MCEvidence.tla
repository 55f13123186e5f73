----------------------------- MODULE MCEvidence -----------------------------
(***************************************************************************)
(* Evidence and Google's calendar for TLC.  They share no state: a behaviour *)
(* moves one of the two and leaves the other as it begins.                  *)
(***************************************************************************)
EXTENDS Evidence, MCGoogle

CONSTANTS a1, a2

TwoShots == {a1, a2}
\* The workers of the outbox bear the names of the calendar's runs, so that
\* one symmetry serves both.
AllDeleters == TwoRuns \cup {User}
AllAlike == Alike \cup Permutations(TwoShots)

VARIABLE part   \* what moves

\* Where the two may begin in several ways, only the one that moves does.
EvidenceGoogleInit ==
    /\ EvidenceInit /\ SyncInit
    /\ \/ part = "evidence" /\ ~outward
       \/ part = "google" /\ damaged = {}
EvidenceGoogleNext ==
    \/ part = "evidence" /\ EvidenceNext /\ UNCHANGED <<part, syncVars>>
    \/ part = "google" /\ SyncNext /\ UNCHANGED <<part, evidenceVars>>
EvidenceGoogleSpec ==
    EvidenceGoogleInit /\ [][EvidenceGoogleNext]_<<part, evidenceVars, syncVars>>
=============================================================================

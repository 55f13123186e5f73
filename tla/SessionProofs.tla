---------------------------- MODULE SessionProofs ----------------------------
(***************************************************************************)
(* Proofs about what lasts as long as a session: Sessions themselves and    *)
(* the Reminders a signed-in phone shows.                                   *)
(*                                                                         *)
(* Sessions, for any number of phones, sessions, tokens, lost calls and     *)
(* killed apps, with requests that come late: a sign-out that was answered  *)
(* is final, and a session ends only by its own phone or through a refresh  *)
(* the phone has no answer of.  The argument follows the tokens.  A rotated token that is sent again revokes its family; so   *)
(* whatever a phone may still send must not have been rotated (Safe), and   *)
(* as rotating a token takes it from Safe, nobody but the refresh that sent *)
(* it may have it (Apart).                                                  *)
(*                                                                         *)
(* Reminders, for any number of missions, instants, changes and failures:   *)
(* a phone with nothing under way shows what it should.  The argument       *)
(* follows the rows of the registry: each has its reminder or will be       *)
(* replaced (Backed), and those a rebuild has swept are what it kept        *)
(* (SweptIsKept).                                                           *)
(***************************************************************************)
EXTENDS Sessions, Reminders, FiniteSetTheorems, TLAPS

Places == {"none", "exchange", "create", "welcome", "leave", "left", "clear", "cleared", "erase"}
Errand == [at : Places, token : Nat, account : Nat]
Family == [token : Nat, rotated : SUBSET Nat, revoked : BOOLEAN, expired : BOOLEAN]
Renewal == [at : {"sent", "answered", "written"}, token : Nat, got : Nat]

\* To send t again ends no session that is not excused.
Safe(t) == \A f \in DOMAIN family : t \in family[f].rotated => f \in excused

\* Who has t signed out.
Ended(t) == \A f \in Families(t) : family[f].revoked

\* The tokens that phone h may send in a refresh now or later: stored, under
\* way, answered, or of a sign-in that was answered.
Holds(h, t) ==
    /\ t # 0
    /\ \/ secure[h] = t
       \/ \E c \in renewals[h] : c.at = "sent" /\ c.token = t
       \/ \E c \in renewals[h] : c.at = "answered" /\ c.got = t
Welcomed(h, t) == errand[h].at = "welcome" /\ errand[h].token = t /\ t # 0
Has(h, t) == Holds(h, t) \/ Welcomed(h, t)

PhoneTypes ==
    /\ secure \in [Handsets -> Nat] /\ live \in [Handsets -> Nat]
    /\ renewals \in [Handsets -> SUBSET Renewal]
    /\ errand \in [Handsets -> Errand]

\* The server's families: their tokens were issued, and the two properties.
BooksOK ==
    /\ family \in Seq(Family) /\ tokens \in Nat /\ account \in Nat
    /\ \A f \in DOMAIN family : /\ family[f].token <= tokens
                                /\ \A t \in family[f].rotated : t > 0 /\ t <= tokens
    /\ quit \subseteq DOMAIN family
    /\ SignedOutStaysOut /\ OnlyLossSignsOut

\* One refresh at a time; what the phone may send is safe, but for the stored
\* token whose refresh was answered and not yet written.
PhoneOK(h) ==
    /\ secure[h] <= tokens /\ live[h] <= tokens /\ errand[h].token <= tokens
    /\ \A c \in renewals[h] : c.token > 0 /\ c.token <= tokens /\ c.got <= tokens
    /\ \A c, d \in renewals[h] : c = d
    /\ \A c \in renewals[h] : c.at = "sent" => Safe(c.token)
    /\ \A c \in renewals[h] : c.at = "answered" => Safe(c.got)
    /\ Safe(secure[h]) \/ \E c \in renewals[h] : c.at = "answered" /\ c.token = secure[h]
    /\ errand[h].at = "welcome" => Safe(errand[h].token)
    /\ errand[h].at = "left" => Ended(errand[h].token)

\* No token is had twice.
Apart ==
    /\ \A g, h \in Handsets : \A t \in Nat : Has(g, t) /\ Has(h, t) => g = h
    /\ \A h \in Handsets : \A t \in Nat : ~(Holds(h, t) /\ Welcomed(h, t))

\* The inductive invariant.
SessionInv == BooksOK /\ PhoneTypes /\ (\A h \in Handsets : PhoneOK(h)) /\ Apart

\* A late refresh presents a token that was issued.
AdriftOK ==
    \A r \in adrift : r.asks = "refresh" => r.token \in Nat /\ r.token > 0 /\ r.token <= tokens

\* What a step does to the families, when it rotates r (0: nothing).
BooksStep(r) ==
    /\ tokens <= tokens'
    /\ excused \subseteq excused'
    /\ \A f \in DOMAIN family' : \A t \in family'[f].rotated :
          f \in DOMAIN family /\ (t \in family[f].rotated \/ t = r)
    /\ \A t \in Nat : t <= tokens =>
          \A f \in Families(t)' : family'[f].revoked \/ (f \in Families(t) /\ ~family[f].revoked)

(***************************************************************************)
(* Records.                                                                *)
(***************************************************************************)
\* An errand that moves on.
LEMMA OneOfErrand ==
    ASSUME errand \in [Handsets -> Errand], NEW h \in Handsets, NEW x \in Places, Does(h, x)
    PROVE  /\ errand' \in [Handsets -> Errand]
           /\ errand'[h].at = x /\ errand'[h].token = errand[h].token
           /\ \A g \in Handsets : g # h => errand'[g] = errand[g]
BY DEF Does, Errand

\* An errand is over.
LEMMA ErrandOver ==
    ASSUME errand \in [Handsets -> Errand], NEW h \in Handsets,
           errand' = [errand EXCEPT ![h] = NoErrand]
    PROVE  /\ errand' \in [Handsets -> Errand]
           /\ errand'[h].at = "none" /\ errand'[h].token = 0
           /\ \A g \in Handsets : g # h => errand'[g] = errand[g]
BY DEF NoErrand, Errand, Places

\* A family that gets another token, is revoked or expires.
LEMMA ChangedFamily ==
    ASSUME NEW r \in Family, NEW t \in Nat, NEW s \in SUBSET Nat
    PROVE  /\ [r EXCEPT !.token = t, !.rotated = s] \in Family
           /\ [r EXCEPT !.token = t, !.rotated = s].token = t
           /\ [r EXCEPT !.token = t, !.rotated = s].rotated = s
           /\ [r EXCEPT !.token = t, !.rotated = s].revoked = r.revoked
           /\ [r EXCEPT !.revoked = TRUE] \in Family
           /\ [r EXCEPT !.revoked = TRUE].token = r.token
           /\ [r EXCEPT !.revoked = TRUE].rotated = r.rotated
           /\ [r EXCEPT !.revoked = TRUE].revoked
           /\ [r EXCEPT !.expired = TRUE] \in Family
           /\ [r EXCEPT !.expired = TRUE].token = r.token
           /\ [r EXCEPT !.expired = TRUE].rotated = r.rotated
           /\ [r EXCEPT !.expired = TRUE].revoked = r.revoked
BY DEF Family

\* A family that is new, and what a deletion leaves of one.
LEMMA OtherFamilies ==
    ASSUME NEW t \in Nat
    PROVE  /\ NewFamily(t) \in Family /\ NewFamily(t).token = t /\ NewFamily(t).rotated = {}
           /\ ~NewFamily(t).revoked
           /\ [token |-> 0, rotated |-> {}, revoked |-> TRUE, expired |-> TRUE] \in Family
           /\ [token |-> 0, rotated |-> {}, revoked |-> TRUE, expired |-> TRUE].token = 0
           /\ [token |-> 0, rotated |-> {}, revoked |-> TRUE, expired |-> TRUE].rotated = {}
           /\ [token |-> 0, rotated |-> {}, revoked |-> TRUE, expired |-> TRUE].revoked
BY DEF NewFamily, Family

\* The families by their numbers.
LEMMA FamilyRow ==
    ASSUME family \in Seq(Family), NEW f \in DOMAIN family
    PROVE  /\ family[f] \in Family /\ family[f].token \in Nat
           /\ family[f].rotated \in SUBSET Nat /\ family[f].revoked \in BOOLEAN
<1>1. family[f] \in Family
  OBVIOUS
<1> QED
  BY <1>1 DEF Family

\* A refresh goes on: it was the only one.
LEMMA OnlyRenewal ==
    ASSUME renewals \in [Handsets -> SUBSET Renewal], NEW h \in Handsets, NEW c \in renewals[h],
           \A d, e \in renewals[h] : d = e, NEW STATE next, next \in SUBSET Renewal,
           Becomes(h, c, next)
    PROVE  /\ renewals' \in [Handsets -> SUBSET Renewal]
           /\ renewals'[h] = next
           /\ \A g \in Handsets : g # h => renewals'[g] = renewals[g]
<1>1. renewals[h] \ {c} = {}
  OBVIOUS
<1> QED
  BY <1>1 DEF Becomes

\* A refresh that is answered, or written.
LEMMA RenewalGoesOn ==
    ASSUME NEW c \in Renewal, NEW t \in Nat
    PROVE  /\ [c EXCEPT !.at = "answered", !.got = t] \in Renewal
           /\ [c EXCEPT !.at = "answered", !.got = t].at = "answered"
           /\ [c EXCEPT !.at = "answered", !.got = t].token = c.token
           /\ [c EXCEPT !.at = "answered", !.got = t].got = t
           /\ [c EXCEPT !.at = "written"] \in Renewal
           /\ [c EXCEPT !.at = "written"].at = "written"
           /\ [c EXCEPT !.at = "written"].token = c.token
           /\ [c EXCEPT !.at = "written"].got = c.got
BY DEF Renewal

(***************************************************************************)
(* What the families' steps leave true of a token and of a phone.           *)
(***************************************************************************)
\* A token stays safe unless it is rotated.
LEMMA SafeKept ==
    ASSUME BooksOK', NEW r, BooksStep(r), NEW t, Safe(t), t # r \/ t = 0
    PROVE  Safe(t)'
<1> SUFFICES ASSUME NEW f \in DOMAIN family', t \in family'[f].rotated
             PROVE  f \in excused'
  BY DEF Safe
<1>1. t > 0
  BY DEF BooksOK
<1>2. f \in DOMAIN family /\ t \in family[f].rotated
  BY <1>1 DEF BooksStep
<1> QED
  BY <1>2 DEF Safe, BooksStep

\* A token that was not issued before is safe.
LEMMA NewIsSafe ==
    ASSUME BooksOK, BooksOK', NEW r, BooksStep(r), NEW t \in Nat, t = 0 \/ t > tokens,
           t = 0 \/ t # r
    PROVE  Safe(t)'
<1> SUFFICES ASSUME NEW f \in DOMAIN family', t \in family'[f].rotated
             PROVE  FALSE
  BY DEF Safe
<1>1. t > 0
  BY DEF BooksOK
<1>2. f \in DOMAIN family /\ t \in family[f].rotated
  BY <1>1 DEF BooksStep
<1>3. t <= tokens
  BY <1>2 DEF BooksOK
<1> QED
  BY <1>1, <1>3 DEF BooksOK

\* Who is signed out stays signed out.
LEMMA EndedKept ==
    ASSUME NEW r, BooksStep(r), NEW t \in Nat, t <= tokens, Ended(t)
    PROVE  Ended(t)'
<1> SUFFICES ASSUME NEW f \in Families(t)'
             PROVE  family'[f].revoked
  BY DEF Ended
<1>1. family'[f].revoked \/ (f \in Families(t) /\ ~family[f].revoked)
  BY DEF BooksStep
<1>2. f \in Families(t) => family[f].revoked
  BY DEF Ended
<1> QED
  BY <1>1, <1>2

\* A phone that does nothing and has not the rotated token stays as it is.
LEMMA OthersKeep ==
    ASSUME SessionInv, BooksOK', NEW r, BooksStep(r), NEW g \in Handsets, ~Has(g, r),
           secure'[g] = secure[g], live'[g] = live[g],
           renewals'[g] = renewals[g], errand'[g] = errand[g]
    PROVE  PhoneOK(g)'
<1>1. PhoneOK(g) /\ tokens \in Nat /\ tokens' \in Nat /\ tokens <= tokens'
  BY DEF SessionInv, BooksOK, BooksStep
<1>2. /\ secure[g] \in Nat /\ live[g] \in Nat /\ errand[g].token \in Nat
      /\ \A c \in renewals[g] : c.token \in Nat /\ c.got \in Nat
  BY DEF SessionInv, PhoneTypes, Errand, Renewal
<1>3. \A t : Safe(t) /\ (t # r \/ t = 0) => Safe(t)'
  BY SafeKept
<1>4. \A t \in Nat : t <= tokens /\ Ended(t) => Ended(t)'
  BY EndedKept
<1>5. Safe(secure[g]) => Safe(secure[g])'
  BY <1>3 DEF Has, Holds
<1>6. ASSUME NEW c \in renewals[g], c.at = "sent"
      PROVE  Safe(c.token)'
  <2>1. Safe(c.token) /\ c.token > 0
    BY <1>1, <1>6 DEF PhoneOK
  <2>2. c.token # 0
    BY <1>2, <2>1
  <2>3. Holds(g, c.token)
    BY <1>6, <2>2 DEF Holds
  <2> QED
    BY <1>3, <2>1, <2>3 DEF Has
<1>7. \A c \in renewals[g] : c.at = "answered" => Safe(c.got)'
  BY <1>1, <1>3 DEF Has, Holds, PhoneOK
<1>8. errand[g].at = "welcome" => Safe(errand[g].token)'
  BY <1>1, <1>3 DEF Has, Welcomed, PhoneOK
<1>9. errand[g].at = "left" => Ended(errand[g].token)'
  BY <1>1, <1>2, <1>4 DEF PhoneOK
<1> QED
  BY <1>1, <1>2, <1>5, <1>6, <1>7, <1>8, <1>9 DEF PhoneOK

\* A token somebody has was issued.
LEMMA HasIssued ==
    ASSUME SessionInv, NEW h \in Handsets, NEW t \in Nat, Has(h, t)
    PROVE  t <= tokens
<1>1. PhoneOK(h)
  BY DEF SessionInv
<1> QED
  BY <1>1 DEF Has, Holds, Welcomed, PhoneOK

\* One phone gets at most tokens that are new.
LEMMA ApartKept ==
    ASSUME SessionInv, NEW h \in Handsets,
           \A g \in Handsets : g # h =>
              secure'[g] = secure[g] /\ renewals'[g] = renewals[g] /\ errand'[g] = errand[g],
           \A t \in Nat : Has(h, t)' => Has(h, t) \/ t > tokens,
           \A t \in Nat : ~(Holds(h, t)' /\ Welcomed(h, t)')
    PROVE  Apart'
<1>1. ASSUME NEW g \in Handsets, g # h, NEW t \in Nat
      PROVE  /\ Holds(g, t)' <=> Holds(g, t)
             /\ Welcomed(g, t)' <=> Welcomed(g, t)
             /\ Has(g, t)' <=> Has(g, t)
  BY <1>1 DEF Has, Holds, Welcomed
<1>2. ASSUME NEW g \in Handsets, g # h, NEW t \in Nat, Has(g, t)', Has(h, t)'
      PROVE  FALSE
  <2>1. Has(g, t) /\ t <= tokens /\ tokens \in Nat
    BY <1>1, <1>2, HasIssued DEF SessionInv, BooksOK
  <2>2. Has(h, t)
    BY <1>2, <2>1
  <2> QED
    BY <1>2, <2>1, <2>2 DEF SessionInv, Apart
<1>3. ASSUME NEW g \in Handsets, NEW k \in Handsets, NEW t \in Nat, Has(g, t)', Has(k, t)'
      PROVE  g = k
  <2>1. CASE g # h /\ k # h
    BY <1>1, <1>3, <2>1 DEF SessionInv, Apart
  <2> QED
    BY <1>2, <1>3, <2>1
<1>4. ASSUME NEW g \in Handsets, NEW t \in Nat
      PROVE  ~(Holds(g, t)' /\ Welcomed(g, t)')
  <2>1. CASE g # h
    BY <1>1, <2>1 DEF SessionInv, Apart
  <2> QED
    BY <2>1
<1> QED
  BY <1>3, <1>4 DEF Apart

\* What has to be shown of a step of phone h.
LEMMA PhoneStep ==
    ASSUME SessionInv, NEW h \in Handsets, NEW r \in Nat, BooksOK', BooksStep(r), PhoneTypes',
           r = 0 \/ Has(h, r),
           \A g \in Handsets : g # h =>
              /\ secure'[g] = secure[g] /\ live'[g] = live[g]
              /\ renewals'[g] = renewals[g] /\ errand'[g] = errand[g],
           PhoneOK(h)',
           \A t \in Nat : Has(h, t)' => Has(h, t) \/ t > tokens,
           \A t \in Nat : ~(Holds(h, t)' /\ Welcomed(h, t)')
    PROVE  SessionInv'
<1>1. Apart'
  BY ApartKept
<1>2. ASSUME NEW g \in Handsets, g # h
      PROVE  PhoneOK(g)'
  <2>1. ~Has(g, r)
    BY <1>2 DEF SessionInv, Apart, Has, Holds, Welcomed
  <2> QED
    BY <1>2, <2>1, OthersKeep
<1>3. \A g \in Handsets : PhoneOK(g)'
  BY <1>2
<1> QED
  BY <1>1, <1>3 DEF SessionInv

\* A step without the server.
LEMMA QuietBooks ==
    ASSUME SessionInv, UNCHANGED <<family, account, tokens>>, excused \subseteq excused',
           \A f \in quit' : f \in quit \/ (f \in DOMAIN family /\ family[f].revoked)
    PROVE  /\ BooksOK' /\ BooksStep(0)
           /\ \A t \in Nat : Safe(t) => Safe(t)'
           /\ \A t \in Nat : Ended(t) <=> Ended(t)'
<1>1. BooksOK /\ tokens \in Nat
  BY DEF SessionInv, BooksOK
<1>2. BooksOK'
  BY <1>1 DEF BooksOK, SignedOutStaysOut, OnlyLossSignsOut
<1>3. \A t \in Nat : Families(t)' = Families(t)
  BY DEF Families
<1>4. \A t \in Nat : \A f \in Families(t)' : f \in Families(t) /\ family'[f] = family[f]
  BY <1>3
<1>5. BooksStep(0)
  BY <1>1, <1>4 DEF BooksStep
<1>6. \A t \in Nat : Safe(t) => Safe(t)'
  BY DEF Safe
<1>7. \A t \in Nat : Ended(t) <=> Ended(t)'
  BY <1>3 DEF Ended
<1> QED
  BY <1>2, <1>5, <1>6, <1>7

\* The steps of an errand by which the phone comes to have no token.
LEMMA ErrandStep ==
    ASSUME SessionInv, NEW h \in Handsets,
           UNCHANGED <<family, account, renewals, tokens, excused>>,
           \A f \in quit' : f \in quit \/ (f \in DOMAIN family /\ family[f].revoked),
           errand' \in [Handsets -> Errand],
           errand'[h].at \notin {"welcome", "left"}, errand'[h].token <= tokens,
           \A g \in Handsets : g # h => errand'[g] = errand[g],
           secure' = secure \/ secure' = [secure EXCEPT ![h] = 0],
           live' = live \/ live' = [live EXCEPT ![h] = 0]
    PROVE  SessionInv'
<1>1. /\ BooksOK' /\ BooksStep(0)
      /\ \A t \in Nat : Safe(t) => Safe(t)'
  BY QuietBooks
<1>2. PhoneTypes /\ PhoneOK(h) /\ tokens \in Nat
  BY DEF SessionInv, BooksOK
<1>3. PhoneTypes' /\ (secure'[h] = secure[h] \/ secure'[h] = 0) /\ (live'[h] = live[h] \/ live'[h] = 0)
  BY <1>2 DEF PhoneTypes
<1>4. \A g \in Handsets : g # h => secure'[g] = secure[g] /\ live'[g] = live[g]
  BY <1>2 DEF PhoneTypes
<1>5. \A t : ~Welcomed(h, t)'
  BY DEF Welcomed
<1>6. \A t \in Nat : Holds(h, t)' => Holds(h, t)
  BY <1>3 DEF Holds
<1>7. /\ Safe(0)' /\ secure[h] \in Nat
      /\ \A c \in renewals[h] : c.token \in Nat /\ c.got \in Nat
  <2>1. Safe(0)'
    BY <1>1 DEF Safe, BooksOK
  <2> QED
    BY <1>2, <2>1 DEF PhoneTypes, Renewal
<1>8. PhoneOK(h)'
  <2>1. \A c \in renewals[h] : (c.at = "sent" => Safe(c.token)') /\ (c.at = "answered" => Safe(c.got)')
    BY <1>1, <1>2, <1>7 DEF PhoneOK
  <2>2. Safe(secure[h])' \/ \E c \in renewals'[h] : c.at = "answered" /\ c.token = secure'[h]
    <3>1. PICK s \in Nat : s = secure'[h]
      BY <1>3, <1>7
    <3>2. CASE s = 0
      BY <1>7, <3>1, <3>2
    <3>3. CASE s = secure[h]
      <4>1. CASE Safe(s)
        BY <1>1, <3>1, <4>1
      <4> QED
        BY <1>2, <3>1, <3>3, <4>1 DEF PhoneOK
    <3> QED
      BY <1>3, <3>1, <3>2, <3>3
  <2> QED
    BY <1>2, <1>3, <2>1, <2>2 DEF PhoneOK
<1> QED
  BY <1>1, <1>3, <1>4, <1>5, <1>6, <1>8, PhoneStep DEF Has

(***************************************************************************)
(* The actions.                                                            *)
(***************************************************************************)
\* Errands that begin, go on or end without a token coming to the phone.
LEMMA ErrandsKeep ==
    ASSUME SessionInv, NEW h \in Handsets,
           \/ SignIn(h) \/ ConsumeProviderNonce(h) \/ CreateNoSession(h)
           \/ SignOut(h) \/ SignOutEnds(h) \/ ClearStorage(h) \/ EndSignOut(h)
           \/ Reauthenticate(h)
    PROVE  SessionInv'
<1>1. PhoneTypes /\ PhoneOK(h) /\ tokens \in Nat /\ account \in Nat
  BY DEF SessionInv, BooksOK
<1>2. errand[h] \in Errand /\ errand[h].token \in Nat /\ errand[h].token <= tokens
  BY <1>1 DEF PhoneTypes, PhoneOK, Errand
<1>3. errand \in [Handsets -> Errand]
  BY <1>1 DEF PhoneTypes
<1> USE DEF Places
<1>4. CASE SignIn(h)
  <2>1. Does(h, "exchange")
    BY <1>4 DEF SignIn
  <2>2. /\ errand' \in [Handsets -> Errand]
        /\ errand'[h].at = "exchange" /\ errand'[h].token = errand[h].token
        /\ \A g \in Handsets : g # h => errand'[g] = errand[g]
    BY <1>3, <2>1, OneOfErrand
  <2> QED
    BY <1>2, <1>4, <2>2, ErrandStep DEF SignIn
<1>5. CASE SignOutEnds(h)
  <2>1. Does(h, "clear")
    BY <1>5 DEF SignOutEnds
  <2>2. /\ errand' \in [Handsets -> Errand]
        /\ errand'[h].at = "clear" /\ errand'[h].token = errand[h].token
        /\ \A g \in Handsets : g # h => errand'[g] = errand[g]
    BY <1>3, <2>1, OneOfErrand
  <2>3. \A f \in quit' : f \in quit \/ (f \in DOMAIN family /\ family[f].revoked)
    BY <1>1, <1>5 DEF SignOutEnds, Doing, PhoneOK, Ended, Families
  <2> QED
    BY <1>2, <1>5, <2>2, <2>3, ErrandStep DEF SignOutEnds
<1>6. CASE ClearStorage(h)
  <2>1. Does(h, "cleared")
    BY <1>6 DEF ClearStorage
  <2>2. /\ errand' \in [Handsets -> Errand]
        /\ errand'[h].at = "cleared" /\ errand'[h].token = errand[h].token
        /\ \A g \in Handsets : g # h => errand'[g] = errand[g]
    BY <1>3, <2>1, OneOfErrand
  <2> QED
    BY <1>2, <1>6, <2>2, ErrandStep DEF ClearStorage, Store
<1>7. CASE CreateNoSession(h) \/ EndSignOut(h)
  <2>1. errand' = [errand EXCEPT ![h] = NoErrand]
    BY <1>7 DEF CreateNoSession, EndSignOut
  <2>2. /\ errand' \in [Handsets -> Errand]
        /\ errand'[h].at = "none" /\ errand'[h].token = 0
        /\ \A g \in Handsets : g # h => errand'[g] = errand[g]
    BY <1>3, <2>1, ErrandOver
  <2> QED
    BY <1>1, <1>7, <2>2, ErrandStep DEF CreateNoSession, EndSignOut
<1>8. CASE ConsumeProviderNonce(h) \/ Reauthenticate(h)
  <2>1. \E x \in {"create", "erase"} : errand' = [errand EXCEPT ![h].at = x, ![h].account = account]
    BY <1>8 DEF ConsumeProviderNonce, Reauthenticate
  <2>2. /\ errand' \in [Handsets -> Errand]
        /\ errand'[h].at \in {"create", "erase"} /\ errand'[h].token = errand[h].token
        /\ \A g \in Handsets : g # h => errand'[g] = errand[g]
    <3>1. PICK x \in {"create", "erase"} : errand' = [errand EXCEPT ![h].at = x, ![h].account = account]
      BY <2>1
    <3> QED
      BY <1>1, <1>2, <1>3, <3>1 DEF Errand
  <2> QED
    <3>1. UNCHANGED <<family, account, secure, live, renewals, tokens, quit, excused>>
      BY <1>8 DEF ConsumeProviderNonce, Reauthenticate
    <3>2. errand'[h].at \notin {"welcome", "left"} /\ errand'[h].token <= tokens
      BY <1>2, <2>2
    <3> QED
      BY <2>2, <3>1, <3>2, ErrandStep
<1>9. CASE SignOut(h)
  <2>1. PICK t \in Nat : t <= tokens /\ errand' = [errand EXCEPT ![h].at = "leave", ![h].token = t]
    BY <1>1, <1>9 DEF SignOut, PhoneTypes, PhoneOK
  <2>2. /\ errand' \in [Handsets -> Errand]
        /\ errand'[h].at = "leave" /\ errand'[h].token = t
        /\ \A g \in Handsets : g # h => errand'[g] = errand[g]
    BY <1>2, <1>3, <2>1 DEF Errand
  <2> QED
    <3>1. UNCHANGED <<family, account, secure, live, renewals, tokens, quit, excused>>
      BY <1>9 DEF SignOut
    <3>2. errand'[h].at \notin {"welcome", "left"} /\ errand'[h].token <= tokens
      BY <2>1, <2>2
    <3> QED
      BY <2>2, <3>1, <3>2, ErrandStep
<1> QED
  BY <1>4, <1>5, <1>6, <1>7, <1>8, <1>9

\* The answer to a sign-in is stored: the token moves from the errand.
LEMMA TakeKeeps ==
    ASSUME SessionInv, NEW h \in Handsets, TakeSession(h)
    PROVE  SessionInv'
<1>1. PhoneTypes /\ PhoneOK(h) /\ tokens \in Nat
  BY DEF SessionInv, BooksOK
<1>2. /\ BooksOK' /\ BooksStep(0)
      /\ \A t \in Nat : Safe(t) => Safe(t)'
  BY QuietBooks DEF TakeSession
<1>3. errand \in [Handsets -> Errand] /\ errand' = [errand EXCEPT ![h] = NoErrand]
  BY <1>1 DEF PhoneTypes, TakeSession
<1>4. /\ errand' \in [Handsets -> Errand]
      /\ errand'[h].at = "none" /\ errand'[h].token = 0
      /\ \A g \in Handsets : g # h => errand'[g] = errand[g]
  BY <1>3, ErrandOver
<1>5. PICK t \in Nat : /\ t = errand[h].token /\ t <= tokens /\ Safe(t)
                       /\ errand[h].at = "welcome"
                       /\ secure' = [secure EXCEPT ![h] = t] /\ live' = [live EXCEPT ![h] = t]
  BY <1>1 DEF TakeSession, Doing, Store, PhoneTypes, PhoneOK, Errand
<1>6. /\ secure' \in [Handsets -> Nat] /\ live' \in [Handsets -> Nat]
      /\ secure'[h] = t /\ live'[h] = t /\ renewals' = renewals
      /\ \A g \in Handsets : g # h => secure'[g] = secure[g] /\ live'[g] = live[g]
  BY <1>1, <1>5 DEF PhoneTypes, TakeSession
<1>7. PhoneTypes'
  BY <1>1, <1>4, <1>6 DEF PhoneTypes
<1>8. /\ \A u : ~Welcomed(h, u)'
      /\ \A u \in Nat : Holds(h, u)' => Holds(h, u) \/ Welcomed(h, u)
  BY <1>4, <1>5, <1>6 DEF Welcomed, Holds
<1>9. \A c \in renewals[h] : c.token \in Nat /\ c.got \in Nat
  BY <1>1 DEF PhoneTypes, Renewal
<1>10. PhoneOK(h)'
  <2>1. \A c \in renewals[h] : (c.at = "sent" => Safe(c.token)') /\ (c.at = "answered" => Safe(c.got)')
    BY <1>1, <1>2, <1>9 DEF PhoneOK
  <2>2. Safe(secure[h])'
    BY <1>2, <1>5, <1>6
  <2>3. UNCHANGED tokens
    BY DEF TakeSession
  <2> QED
    BY <1>1, <1>4, <1>5, <1>6, <2>1, <2>2, <2>3 DEF PhoneOK
<1> QED
  BY <1>2, <1>4, <1>6, <1>7, <1>8, <1>10, PhoneStep DEF Has

\* The steps of a refresh on the phone: what it may send is what it had.
LEMMA RefreshStep ==
    ASSUME SessionInv, NEW h \in Handsets, PhoneTypes',
           UNCHANGED <<family, account, tokens, quit>>, excused \subseteq excused',
           \A g \in Handsets : g # h =>
              /\ secure'[g] = secure[g] /\ live'[g] = live[g]
              /\ renewals'[g] = renewals[g] /\ errand'[g] = errand[g],
           errand'[h] = errand[h] \/ (errand'[h].at = "none" /\ errand'[h].token = 0),
           secure'[h] <= tokens, live'[h] <= tokens,
           \A c \in renewals'[h] : c.token > 0 /\ c.token <= tokens /\ c.got <= tokens,
           \A c, d \in renewals'[h] : c = d,
           \A c \in renewals'[h] : c.at = "sent" => Safe(c.token)',
           \A c \in renewals'[h] : c.at = "answered" => Safe(c.got)',
           Safe(secure[h])' \/ \E c \in renewals'[h] : c.at = "answered" /\ c.token = secure'[h],
           \A t \in Nat : Holds(h, t)' => Holds(h, t)
    PROVE  SessionInv'
<1>1. PhoneTypes /\ PhoneOK(h) /\ tokens \in Nat
  BY DEF SessionInv, BooksOK
<1>2. /\ BooksOK' /\ BooksStep(0)
      /\ \A t \in Nat : Safe(t) => Safe(t)'
      /\ \A t \in Nat : Ended(t) <=> Ended(t)'
  BY QuietBooks
<1>3. \A t \in Nat : Welcomed(h, t)' => Welcomed(h, t)
  BY DEF Welcomed
<1>4. errand[h].token \in Nat
  BY <1>1 DEF PhoneTypes, Errand
<1>5. PhoneOK(h)'
  <2>1. errand'[h].at = "welcome" => Safe(errand[h].token)'
    BY <1>1, <1>2, <1>4 DEF PhoneOK
  <2>2. errand'[h].at = "left" => Ended(errand[h].token)'
    BY <1>1, <1>2, <1>4 DEF PhoneOK
  <2>3. errand'[h].token <= tokens
    BY <1>1 DEF PhoneOK
  <2> QED
    BY <2>1, <2>2, <2>3 DEF PhoneOK
<1>6. \A t \in Nat : Has(h, t)' => Has(h, t)
  BY <1>3 DEF Has
<1>7. \A t \in Nat : ~(Holds(h, t)' /\ Welcomed(h, t)')
  BY <1>3 DEF SessionInv, Apart
<1> QED
  BY <1>2, <1>5, <1>6, <1>7, PhoneStep

\* A refresh is sent, or the stored token is forgotten.
LEMMA RestoreKeeps ==
    ASSUME SessionInv, NEW h \in Handsets, RestoreSession(h) \/ ForgetExpired(h)
    PROVE  SessionInv'
<1>1. PhoneTypes /\ PhoneOK(h) /\ tokens \in Nat
  BY DEF SessionInv, BooksOK
<1>2. /\ UNCHANGED <<family, account, tokens, quit, excused, errand>>
      /\ \A t \in Nat : Safe(t) => Safe(t)'
      /\ Safe(0)'
  <2>1. UNCHANGED <<family, account, tokens, quit, excused, errand>>
    BY DEF RestoreSession, ForgetExpired
  <2>2. BooksOK' /\ \A t \in Nat : Safe(t) => Safe(t)'
    BY <2>1, QuietBooks
  <2>3. Safe(0)'
    BY <2>2 DEF Safe, BooksOK
  <2> QED
    BY <2>1, <2>2, <2>3
<1>3. /\ \A c \in renewals[h] : c \in Renewal /\ c.token \in Nat /\ c.got \in Nat
      /\ secure[h] \in Nat
  BY <1>1 DEF PhoneTypes, Renewal
<1>4. \A c \in renewals[h] : (c.at = "sent" => Safe(c.token)') /\ (c.at = "answered" => Safe(c.got)')
  BY <1>1, <1>2, <1>3 DEF PhoneOK
<1>5. ASSUME RestoreSession(h), live' = [live EXCEPT ![h] = secure[h]], UNCHANGED renewals
      PROVE  SessionInv'
  <2>1. secure' = secure /\ live'[h] = secure[h] /\ PhoneTypes'
        /\ \A g \in Handsets : g # h => live'[g] = live[g]
    BY <1>1, <1>2, <1>5 DEF RestoreSession, PhoneTypes
  <2>2. Safe(secure[h])' \/ \E c \in renewals'[h] : c.at = "answered" /\ c.token = secure'[h]
    BY <1>1, <1>2, <1>3, <1>5, <2>1 DEF PhoneOK
  <2>3. \A t \in Nat : Holds(h, t)' => Holds(h, t)
    BY <1>5, <2>1 DEF Holds
  <2> QED
    BY <1>1, <1>2, <1>4, <1>5, <2>1, <2>2, <2>3, RefreshStep DEF PhoneOK
<1>6. ASSUME ForgetExpired(h)
      PROVE  SessionInv'
  <2>1. /\ secure' = [secure EXCEPT ![h] = 0] /\ live' = [live EXCEPT ![h] = 0]
        /\ renewals' = renewals
    BY <1>6 DEF ForgetExpired, Store
  <2>2. /\ PhoneTypes' /\ secure'[h] = 0 /\ live'[h] = 0
        /\ \A g \in Handsets : g # h => secure'[g] = secure[g] /\ live'[g] = live[g]
    BY <1>1, <1>2, <2>1 DEF PhoneTypes
  <2>3. Safe(secure[h])'
    BY <1>2, <2>2
  <2>4. \A t \in Nat : Holds(h, t)' => Holds(h, t)
    BY <2>1, <2>2 DEF Holds
  <2> QED
    BY <1>1, <1>2, <1>4, <2>1, <2>2, <2>3, <2>4, RefreshStep DEF PhoneOK
<1>7. ASSUME RestoreSession(h), MayRefresh(h), UNCHANGED live,
             renewals' = [renewals EXCEPT ![h] = @ \cup
                {[at |-> "sent", token |-> secure[h], got |-> 0]}]
      PROVE  SessionInv'
  <2>1. PICK t \in Nat : t = secure[h] /\ t > 0 /\ t <= tokens
    BY <1>1, <1>3, <1>7 DEF RestoreSession, PhoneOK
  <2>2. PICK c \in Renewal : /\ c = [at |-> "sent", token |-> t, got |-> 0]
                             /\ c.at = "sent" /\ c.token = t /\ c.got = 0
    <3> DEFINE e == [at |-> "sent", token |-> t, got |-> 0]
    <3>1. e \in Renewal
      BY DEF Renewal
    <3>2. e.at = "sent" /\ e.token = t /\ e.got = 0
      OBVIOUS
    <3> HIDE DEF e
    <3>3. \E c \in Renewal : c = e /\ c.at = "sent" /\ c.token = t /\ c.got = 0
      BY <3>1, <3>2
    <3> QED
      BY <3>3 DEF e
  <2>3. renewals[h] = {} /\ secure' = secure
    BY <1>7 DEF MayRefresh, RestoreSession
  <2>4. /\ PhoneTypes' /\ renewals'[h] = {c}
        /\ \A g \in Handsets : g # h => renewals'[g] = renewals[g]
    BY <1>1, <1>2, <1>7, <2>1, <2>2, <2>3 DEF PhoneTypes
  <2>5. Safe(t)'
    BY <1>1, <1>2, <2>1, <2>3 DEF PhoneOK
  <2>6. Safe(secure[h])'
    BY <2>1, <2>3, <2>5
  <2>7. \A u \in Nat : Holds(h, u)' => Holds(h, u)
    BY <2>1, <2>2, <2>3, <2>4 DEF Holds
  <2>8. live'[h] <= tokens /\ secure'[h] <= tokens
    BY <1>1, <1>7, <2>3 DEF PhoneOK
  <2> QED
    <3>1. /\ \A d \in renewals'[h] : d.token > 0 /\ d.token <= tokens /\ d.got <= tokens
          /\ \A d, e \in renewals'[h] : d = e
          /\ \A d \in renewals'[h] : d.at = "answered" => Safe(d.got)'
      BY <1>1, <2>1, <2>2, <2>4
    <3>2. \A d \in renewals'[h] : d.at = "sent" => Safe(d.token)'
      BY <2>2, <2>4, <2>5
    <3>3. \A g \in Handsets : g # h =>
              /\ secure'[g] = secure[g] /\ live'[g] = live[g]
              /\ renewals'[g] = renewals[g] /\ errand'[g] = errand[g]
      BY <1>2, <1>7, <2>3, <2>4
    <3>4. UNCHANGED <<family, account, tokens, quit, excused>> /\ errand'[h] = errand[h]
      BY <1>2
    <3> QED
      BY <2>4, <2>6, <2>7, <2>8, <3>1, <3>2, <3>3, <3>4, RefreshStep
<1> QED
  BY <1>5, <1>6, <1>7 DEF RestoreSession

\* What the answer brought is written: the stored token is the one it got.
LEMMA WriteKeeps ==
    ASSUME SessionInv, NEW h \in Handsets, NEW c \in renewals[h], WriteRefreshed(h, c)
    PROVE  SessionInv'
<1>1. PhoneTypes /\ PhoneOK(h) /\ tokens \in Nat
  BY DEF SessionInv, BooksOK
<1>2. UNCHANGED <<family, account, live, errand, tokens, quit, excused>> /\ c.at = "answered"
  BY DEF WriteRefreshed
<1>3. \A t \in Nat : Safe(t) => Safe(t)'
  BY <1>2, QuietBooks
<1>4. /\ c \in Renewal /\ c.token \in Nat /\ c.got \in Nat
      /\ c.token > 0 /\ c.token <= tokens /\ c.got <= tokens /\ Safe(c.got)
      /\ \A d, e \in renewals[h] : d = e
  BY <1>1, <1>2 DEF PhoneTypes, PhoneOK, Renewal
<1>5. PICK n \in Renewal : /\ n = [c EXCEPT !.at = "written"]
                           /\ n.at = "written" /\ n.token = c.token /\ n.got = c.got
  BY <1>4, RenewalGoesOn
<1>6. /\ renewals' \in [Handsets -> SUBSET Renewal]
      /\ renewals'[h] = {n}
      /\ \A g \in Handsets : g # h => renewals'[g] = renewals[g]
  <2>1. Becomes(h, c, {n}) /\ {n} \in SUBSET Renewal
    BY <1>5 DEF WriteRefreshed
  <2>2. renewals \in [Handsets -> SUBSET Renewal]
    BY <1>1 DEF PhoneTypes
  <2> QED
    BY <1>4, <2>1, <2>2, OnlyRenewal
<1>7. /\ secure' \in [Handsets -> Nat] /\ secure'[h] = c.got
      /\ \A g \in Handsets : g # h => secure'[g] = secure[g]
  BY <1>1, <1>4 DEF WriteRefreshed, Store, PhoneTypes
<1>8. PhoneTypes'
  BY <1>1, <1>2, <1>6, <1>7 DEF PhoneTypes
<1>9. Safe(secure[h])'
  BY <1>3, <1>4, <1>7
<1>10. \A t \in Nat : Holds(h, t)' => Holds(h, t)
  <2> SUFFICES ASSUME NEW t \in Nat, Holds(h, t)'
               PROVE  Holds(h, t)
    OBVIOUS
  <2>1. t = c.got /\ t # 0
    BY <1>5, <1>6, <1>7 DEF Holds
  <2> QED
    BY <1>2, <2>1 DEF Holds
<1>11. /\ \A d \in renewals'[h] : d.token > 0 /\ d.token <= tokens /\ d.got <= tokens
       /\ \A d, e \in renewals'[h] : d = e
       /\ \A d \in renewals'[h] : d.at # "sent" /\ d.at # "answered"
  BY <1>4, <1>5, <1>6
<1>12. secure'[h] <= tokens /\ live'[h] <= tokens
  BY <1>1, <1>2, <1>4, <1>7 DEF PhoneOK
<1>13. \A g \in Handsets : g # h =>
          /\ secure'[g] = secure[g] /\ live'[g] = live[g]
          /\ renewals'[g] = renewals[g] /\ errand'[g] = errand[g]
  BY <1>2, <1>6, <1>7
<1> QED
  BY <1>2, <1>8, <1>9, <1>10, <1>11, <1>12, <1>13, RefreshStep

\* A refresh ends: it is written, its answer is lost, or the app is killed.
LEMMA EndKeeps ==
    ASSUME SessionInv, NEW h \in Handsets,
           \/ \E c \in renewals[h] : EndRefresh(h, c) \/ LoseRefresh(h, c)
           \/ AppDies(h)
    PROVE  SessionInv'
<1>1. PhoneTypes /\ PhoneOK(h) /\ tokens \in Nat
  BY DEF SessionInv, BooksOK
<1>2. UNCHANGED <<family, account, secure, tokens, quit>> /\ excused \subseteq excused'
  BY DEF EndRefresh, LoseRefresh, AppDies
<1>3. \A t \in Nat : Safe(t) => Safe(t)'
  BY <1>2, QuietBooks
<1>4. /\ \A c \in renewals[h] : c.token \in Nat /\ c.got \in Nat /\ c.token <= tokens /\ c.got <= tokens
      /\ \A c, d \in renewals[h] : c = d
      /\ secure[h] \in Nat /\ secure[h] <= tokens
  BY <1>1 DEF PhoneTypes, PhoneOK, Renewal
<1>5. /\ renewals' \in [Handsets -> SUBSET Renewal] /\ renewals'[h] = {}
      /\ \A g \in Handsets : g # h => renewals'[g] = renewals[g]
  <2>1. renewals \in [Handsets -> SUBSET Renewal]
    BY <1>1 DEF PhoneTypes
  <2>2. CASE AppDies(h)
    BY <2>1, <2>2 DEF AppDies
  <2>3. CASE \E c \in renewals[h] : EndRefresh(h, c) \/ LoseRefresh(h, c)
    <3> PICK c \in renewals[h] : EndRefresh(h, c) \/ LoseRefresh(h, c)
      BY <2>3
    <3>1. Becomes(h, c, {})
      BY DEF EndRefresh, LoseRefresh
    <3> QED
      BY <1>4, <2>1, <3>1, OnlyRenewal
  <2> QED
    BY <2>2, <2>3
<1>6. /\ errand' \in [Handsets -> Errand]
      /\ errand'[h] = errand[h] \/ (errand'[h].at = "none" /\ errand'[h].token = 0)
      /\ \A g \in Handsets : g # h => errand'[g] = errand[g]
  <2>1. errand \in [Handsets -> Errand]
    BY <1>1 DEF PhoneTypes
  <2>2. UNCHANGED errand \/ errand' = [errand EXCEPT ![h] = NoErrand]
    BY DEF EndRefresh, LoseRefresh, AppDies
  <2> QED
    BY <2>1, <2>2, ErrandOver
<1>7. /\ live' \in [Handsets -> Nat] /\ live'[h] <= tokens
      /\ \A g \in Handsets : g # h => live'[g] = live[g]
  <2>1. PICK t \in Nat : t <= tokens /\ live' = [live EXCEPT ![h] = t]
    BY <1>1, <1>4 DEF EndRefresh, LoseRefresh, AppDies
  <2> QED
    BY <1>1, <2>1 DEF PhoneTypes
<1>8. PhoneTypes'
  BY <1>1, <1>2, <1>5, <1>6, <1>7 DEF PhoneTypes
<1>9. ASSUME NEW c \in renewals[h], c.at = "answered"
      PROVE  Safe(c.token)'
  <2>1. Families(c.token) \subseteq excused'
    <3>1. CASE AppDies(h)
      BY <1>9, <3>1 DEF AppDies, Families
    <3>2. CASE \E d \in renewals[h] : EndRefresh(h, d) \/ LoseRefresh(h, d)
      <4>1. EndRefresh(h, c) \/ LoseRefresh(h, c)
        BY <1>4, <3>2
      <4> QED
        BY <1>9, <4>1 DEF EndRefresh, LoseRefresh
    <3> QED
      BY <3>1, <3>2
  <2> QED
    BY <1>2, <2>1 DEF Safe, Families
<1>10. Safe(secure[h])'
  <2>1. CASE Safe(secure[h])
    BY <1>2, <1>3, <1>4, <2>1
  <2>2. CASE \E c \in renewals[h] : c.at = "answered" /\ c.token = secure[h]
    BY <1>2, <1>9, <2>2
  <2> QED
    BY <1>1, <2>1, <2>2 DEF PhoneOK
<1>11. \A t \in Nat : Holds(h, t)' => Holds(h, t)
  BY <1>2, <1>5 DEF Holds
<1>12. \A g \in Handsets : g # h =>
          /\ secure'[g] = secure[g] /\ live'[g] = live[g]
          /\ renewals'[g] = renewals[g] /\ errand'[g] = errand[g]
  BY <1>2, <1>5, <1>6, <1>7
<1>13. secure'[h] <= tokens
  BY <1>2, <1>4
<1> QED
  BY <1>2, <1>5, <1>6, <1>7, <1>8, <1>10, <1>11, <1>12, <1>13, RefreshStep

\* A family ended or expired: nothing is rotated.
LEMMA BooksEnd ==
    ASSUME SessionInv, UNCHANGED <<account, tokens, quit>>, excused \subseteq excused',
           family' \in Seq(Family), DOMAIN family' = DOMAIN family,
           \A f \in DOMAIN family :
              /\ family'[f].token = family[f].token
              /\ family'[f].rotated = family[f].rotated
              /\ family[f].revoked => family'[f].revoked
              /\ family'[f].revoked => family[f].revoked \/ f \in excused'
    PROVE  BooksOK' /\ BooksStep(0)
<1>1. BooksOK /\ tokens \in Nat
  BY DEF SessionInv, BooksOK
<1>2. BooksOK'
  BY <1>1 DEF BooksOK, SignedOutStaysOut, OnlyLossSignsOut
<1>3. \A t \in Nat : \A f \in Families(t)' : f \in Families(t) /\ f \in DOMAIN family
  BY DEF Families
<1>4. BooksStep(0)
  BY <1>1, <1>3 DEF BooksStep
<1> QED
  BY <1>2, <1>4

\* What the phone may send is still safe if nothing is rotated.
LEMMA SafeStays ==
    ASSUME BooksOK', BooksStep(0), NEW t \in Nat, Safe(t)
    PROVE  Safe(t)'
BY SafeKept

\* A step that leaves the phones alone and what they may send safe.
LEMMA PhonesAlone ==
    ASSUME SessionInv, NEW r, BooksOK', BooksStep(r), UNCHANGED phoneState,
           \A u \in Nat : Safe(u) => Safe(u)'
    PROVE  SessionInv'
<1>1. PhoneTypes /\ tokens \in Nat /\ tokens' \in Nat /\ tokens <= tokens'
  BY DEF SessionInv, BooksOK, BooksStep
<1>2. UNCHANGED <<secure, live, renewals, errand>>
  BY DEF phoneState
<1>3. PhoneTypes' /\ Apart'
  BY <1>1, <1>2 DEF SessionInv, PhoneTypes, Apart, Has, Holds, Welcomed
<1>4. ASSUME NEW g \in Handsets
      PROVE  PhoneOK(g)'
  <2>1. PhoneOK(g)
    BY DEF SessionInv
  <2>2. /\ secure[g] \in Nat /\ live[g] \in Nat /\ errand[g].token \in Nat
        /\ \A c \in renewals[g] : c.token \in Nat /\ c.got \in Nat
    BY <1>1 DEF PhoneTypes, Errand, Renewal
  <2>3. /\ Safe(secure[g]) => Safe(secure[g])'
        /\ errand[g].at = "welcome" => Safe(errand[g].token)'
        /\ \A c \in renewals[g] : (c.at = "sent" => Safe(c.token)') /\ (c.at = "answered" => Safe(c.got)')
    <3>1. PICK s, e \in Nat : s = secure[g] /\ s = secure'[g] /\ e = errand[g].token /\ e = errand'[g].token
      BY <1>2, <2>2
    <3>2. Safe(s) => Safe(s)'
      OBVIOUS
    <3>3. errand[g].at = "welcome" => Safe(e)'
      BY <2>1, <3>1 DEF PhoneOK
    <3>4. \A c \in renewals[g] : (c.at = "sent" => Safe(c.token)') /\ (c.at = "answered" => Safe(c.got)')
      BY <2>1, <2>2 DEF PhoneOK
    <3> QED
      BY <1>2, <3>1, <3>2, <3>3, <3>4
  <2>4. errand[g].at = "left" => Ended(errand[g].token)'
    <3>1. \A t \in Nat : t <= tokens /\ Ended(t) => Ended(t)'
      BY EndedKept
    <3>2. PICK e \in Nat : e = errand[g].token /\ e = errand'[g].token /\ e <= tokens
      BY <1>2, <2>1, <2>2 DEF PhoneOK
    <3>3. errand[g].at = "left" => Ended(e)'
      BY <2>1, <3>1, <3>2 DEF PhoneOK
    <3> QED
      BY <1>2, <3>2, <3>3
  <2> QED
    BY <1>1, <1>2, <2>1, <2>2, <2>3, <2>4 DEF PhoneOK
<1> QED
  BY <1>3, <1>4 DEF SessionInv

\* revokeSession: the families of the token, which from now on are ended.
LEMMA RevokeBooks ==
    ASSUME SessionInv, NEW t, Revokes(t), UNCHANGED <<account, tokens, quit>>
    PROVE  BooksOK' /\ BooksStep(0) /\ Ended(t)'
<1>1. tokens \in Nat /\ family \in Seq(Family)
  BY DEF SessionInv, BooksOK
<1>4. /\ family' = [f \in DOMAIN family |->
                       IF f \in Families(t) THEN [family[f] EXCEPT !.revoked = TRUE] ELSE family[f]]
      /\ excused' = excused \cup Families(t)
  BY DEF Revokes, RevokedBy
<1>5. /\ family' \in Seq(Family) /\ DOMAIN family' = DOMAIN family
      /\ \A f \in DOMAIN family :
            /\ family'[f].token = family[f].token /\ family'[f].rotated = family[f].rotated
            /\ f \in Families(t) => family'[f].revoked
            /\ f \notin Families(t) => family'[f].revoked = family[f].revoked
  <2>1. \A f \in DOMAIN family : family[f] \in Family
    BY <1>1
  <2>2. \A f \in DOMAIN family : family'[f] \in Family
    BY <1>4, <2>1, ChangedFamily
  <2>3. DOMAIN family' = 1 .. Len(family) /\ DOMAIN family = 1 .. Len(family) /\ Len(family) \in Nat
    BY <1>1, <1>4
  <2>4. family' \in Seq(Family)
    BY <1>4, <2>2, <2>3
  <2>5. \A f \in DOMAIN family :
            /\ family'[f].token = family[f].token /\ family'[f].rotated = family[f].rotated
            /\ f \in Families(t) => family'[f].revoked
            /\ f \notin Families(t) => family'[f].revoked = family[f].revoked
    BY <1>4, <2>1, ChangedFamily
  <2> QED
    BY <2>3, <2>4, <2>5
<1>6. BooksOK' /\ BooksStep(0)
  BY <1>4, <1>5, BooksEnd
<1>7. Ended(t)'
  BY <1>5 DEF Ended, Families
<1> QED
  BY <1>6, <1>7

LEMMA RevokeKeeps ==
    ASSUME SessionInv, NEW h \in Handsets, RevokeSession(h)
    PROVE  SessionInv'
<1>1. PhoneTypes /\ PhoneOK(h) /\ tokens \in Nat /\ family \in Seq(Family)
  BY DEF SessionInv, BooksOK
<1>2. /\ UNCHANGED <<account, secure, live, renewals, tokens, quit>>
      /\ errand[h].at = "leave" /\ Does(h, "left")
  BY DEF RevokeSession, Doing
<1>3. PICK t \in Nat : t = errand[h].token /\ t <= tokens
  BY <1>1 DEF PhoneTypes, PhoneOK, Errand
<1>6. BooksOK' /\ BooksStep(0) /\ Ended(t)'
  <2>1. Revokes(t)
    BY <1>3 DEF RevokeSession
  <2> QED
    BY <1>2, <2>1, RevokeBooks
<1>7. Ended(t)'
  BY <1>6
<1>8. /\ errand' \in [Handsets -> Errand]
      /\ errand'[h].at = "left" /\ errand'[h].token = t
      /\ \A g \in Handsets : g # h => errand'[g] = errand[g]
  BY <1>1, <1>2, <1>3, OneOfErrand DEF PhoneTypes, Places
<1>9. PhoneTypes'
  BY <1>1, <1>2, <1>8 DEF PhoneTypes
<1>10. PhoneOK(h)'
  <2>1. /\ \A c \in renewals[h] : c.token \in Nat /\ c.got \in Nat
        /\ secure[h] \in Nat
    BY <1>1 DEF PhoneTypes, Renewal
  <2>2. \A c \in renewals[h] : (c.at = "sent" => Safe(c.token)') /\ (c.at = "answered" => Safe(c.got)')
    BY <1>1, <1>6, <2>1, SafeStays DEF PhoneOK
  <2>3. PICK s \in Nat : s = secure[h] /\ s = secure'[h]
    BY <1>2, <2>1
  <2>4. Safe(s)' \/ \E c \in renewals[h] : c.at = "answered" /\ c.token = s
    BY <1>1, <1>6, <2>3, SafeStays DEF PhoneOK
  <2>5. Safe(secure[h])' \/ \E c \in renewals'[h] : c.at = "answered" /\ c.token = secure'[h]
    BY <1>2, <2>3, <2>4
  <2>6. Ended(errand[h].token)'
    BY <1>7, <1>8
  <2> QED
    BY <1>1, <1>2, <1>3, <1>8, <2>2, <2>5, <2>6 DEF PhoneOK
<1>11. \A u \in Nat : (Holds(h, u)' <=> Holds(h, u)) /\ ~Welcomed(h, u)'
  BY <1>2, <1>8 DEF Holds, Welcomed
<1> QED
  BY <1>2, <1>6, <1>8, <1>9, <1>10, <1>11, PhoneStep DEF Has

\* A family is past its time.
LEMMA ExpiryKeeps ==
    ASSUME SessionInv, NEW f \in DOMAIN family, SessionExpires(f)
    PROVE  SessionInv'
<1>1. PhoneTypes /\ tokens \in Nat /\ family \in Seq(Family)
  BY DEF SessionInv, BooksOK
<1>2. /\ UNCHANGED <<account, secure, live, renewals, errand, tokens, quit, excused>>
      /\ family' = [family EXCEPT ![f].expired = TRUE]
  BY DEF SessionExpires, phoneState
<1>3. \A g \in DOMAIN family : family[g] \in Family
  BY <1>1
<1>4. PICK r \in Family : /\ r = [family[f] EXCEPT !.expired = TRUE]
                          /\ r.token = family[f].token /\ r.rotated = family[f].rotated
                          /\ r.revoked = family[f].revoked
  BY <1>3, ChangedFamily
<1>5. family' = [family EXCEPT ![f] = r]
  BY <1>2, <1>4
<1>6. /\ family' \in Seq(Family) /\ DOMAIN family' = DOMAIN family
      /\ \A g \in DOMAIN family : g # f => family'[g] = family[g]
      /\ family'[f] = r
  BY <1>1, <1>5
<1>7. BooksOK' /\ BooksStep(0)
  BY <1>2, <1>4, <1>6, BooksEnd
<1>8. ASSUME NEW g \in Handsets
      PROVE  PhoneOK(g)'
  <2>1. ~Has(g, 0)
    BY DEF Has, Holds, Welcomed
  <2> QED
    BY <1>2, <1>7, <2>1, OthersKeep
<1>9. PhoneTypes' /\ Apart'
  BY <1>1, <1>2 DEF SessionInv, PhoneTypes, Apart, Has, Holds, Welcomed
<1> QED
  BY <1>7, <1>8, <1>9 DEF SessionInv

\* createSession: a family more, with a token nobody had.
LEMMA CreateKeeps ==
    ASSUME SessionInv, NEW h \in Handsets, CreateSession(h)
    PROVE  SessionInv'
<1>1. PhoneTypes /\ PhoneOK(h) /\ BooksOK /\ tokens \in Nat /\ family \in Seq(Family)
  BY DEF SessionInv, BooksOK
<1>2. UNCHANGED <<account, secure, live, renewals, quit, excused>> /\ tokens' = tokens + 1
  BY DEF CreateSession, NewToken
<1>3. PICK t \in Nat : t = tokens + 1 /\ t = tokens' /\ t > tokens
  BY <1>1, <1>2
<1>4. PICK r \in Family : /\ r = NewFamily(t) /\ r.token = t /\ r.rotated = {} /\ ~r.revoked
  BY OtherFamilies
<1>5. PICK n \in Nat : n = Len(family) + 1
  BY <1>1
<1>6. /\ family' \in Seq(Family) /\ DOMAIN family = 1 .. n - 1 /\ DOMAIN family' = 1 .. n
      /\ \A f \in DOMAIN family : family'[f] = family[f]
      /\ family'[n] = r
  <2>1. family' = Append(family, r)
    BY <1>3, <1>4 DEF CreateSession
  <2> QED
    BY <1>1, <1>5, <2>1
<1>7. /\ n \in DOMAIN family' /\ DOMAIN family \subseteq DOMAIN family'
      /\ \A f \in DOMAIN family' : f \in DOMAIN family \/ f = n
  <2>1. n \in 1 .. n /\ 1 .. n - 1 \subseteq 1 .. n /\ \A f \in 1 .. n : f \in 1 .. n - 1 \/ f = n
    BY <1>1, <1>5
  <2> QED
    BY <1>6, <2>1
<1>8. BooksOK'
  <2>1. \A f \in DOMAIN family' : /\ family'[f].token <= tokens'
                                  /\ \A u \in family'[f].rotated : u > 0 /\ u <= tokens'
    <3>1. \A f \in DOMAIN family : /\ family[f].token \in Nat /\ family[f].token <= tokens
                                   /\ \A u \in family[f].rotated : u \in Nat /\ u > 0 /\ u <= tokens
      BY <1>1, FamilyRow DEF BooksOK
    <3> QED
      BY <1>1, <1>3, <1>4, <1>6, <1>7, <3>1
  <2>2. SignedOutStaysOut' /\ OnlyLossSignsOut' /\ quit' \subseteq DOMAIN family'
    BY <1>1, <1>2, <1>4, <1>6, <1>7 DEF BooksOK, SignedOutStaysOut, OnlyLossSignsOut
  <2> QED
    BY <1>1, <1>2, <1>6, <2>1, <2>2 DEF BooksOK
<1>9. BooksStep(0)
  <2>1. \A f \in DOMAIN family' : \A u \in family'[f].rotated :
            f \in DOMAIN family /\ u \in family[f].rotated
    BY <1>4, <1>6, <1>7
  <2>2. ASSUME NEW u \in Nat, u <= tokens, NEW f \in Families(u)'
        PROVE  family'[f].revoked \/ (f \in Families(u) /\ ~family[f].revoked)
    <3>1. f # n
      BY <1>1, <1>3, <1>4, <1>6, <2>2 DEF Families
    <3>2. f \in DOMAIN family /\ family'[f] = family[f] /\ f \in Families(u)
      BY <1>6, <1>7, <2>2, <3>1 DEF Families
    <3> QED
      BY <3>2
  <2> QED
    BY <1>1, <1>2, <2>1, <2>2 DEF BooksStep
<1>10. /\ errand' \in [Handsets -> Errand]
       /\ errand'[h].at = "welcome" /\ errand'[h].token = t
       /\ \A g \in Handsets : g # h => errand'[g] = errand[g]
  <2>1. errand \in [Handsets -> Errand] /\ errand[h] \in Errand
    BY <1>1 DEF PhoneTypes
  <2>2. errand' = [errand EXCEPT ![h].at = "welcome", ![h].token = t]
    BY <1>3 DEF CreateSession
  <2> QED
    BY <2>1, <2>2 DEF Errand, Places
<1>11. PhoneTypes'
  BY <1>1, <1>2, <1>10 DEF PhoneTypes
<1>12. /\ \A c \in renewals[h] : c.token \in Nat /\ c.got \in Nat
       /\ secure[h] \in Nat /\ live[h] \in Nat
  BY <1>1 DEF PhoneTypes, Renewal
<1>13. PhoneOK(h)'
  <2>1. \A c \in renewals[h] : (c.at = "sent" => Safe(c.token)') /\ (c.at = "answered" => Safe(c.got)')
    BY <1>1, <1>8, <1>9, <1>12, SafeStays DEF PhoneOK
  <2>2. PICK s \in Nat : s = secure[h] /\ s = secure'[h]
    BY <1>2, <1>12
  <2>3. Safe(s)' \/ \E c \in renewals[h] : c.at = "answered" /\ c.token = s
    BY <1>1, <1>8, <1>9, <2>2, SafeStays DEF PhoneOK
  <2>4. Safe(secure[h])' \/ \E c \in renewals'[h] : c.at = "answered" /\ c.token = secure'[h]
    BY <1>2, <2>2, <2>3
  <2>5. Safe(t)'
    BY <1>1, <1>3, <1>8, <1>9, NewIsSafe
  <2>6. Safe(errand[h].token)'
    BY <1>10, <2>5
  <2>7. /\ secure'[h] <= tokens' /\ live'[h] <= tokens' /\ errand'[h].token <= tokens'
        /\ \A c \in renewals'[h] : c.token > 0 /\ c.token <= tokens' /\ c.got <= tokens'
    BY <1>1, <1>2, <1>3, <1>10, <1>12 DEF PhoneOK
  <2>8. \A c, d \in renewals'[h] : c = d
    BY <1>1, <1>2 DEF PhoneOK
  <2> QED
    BY <1>2, <1>10, <2>1, <2>4, <2>6, <2>7, <2>8 DEF PhoneOK
<1>14. \A u \in Nat : (Holds(h, u)' <=> Holds(h, u)) /\ (Welcomed(h, u)' => u = t)
  BY <1>2, <1>10 DEF Holds, Welcomed
<1>15. \A u \in Nat : Has(h, u)' => Has(h, u) \/ u > tokens
  BY <1>3, <1>14 DEF Has
<1>16. \A u \in Nat : ~(Holds(h, u)' /\ Welcomed(h, u)')
  <2>1. ~Holds(h, t)
    BY <1>1, <1>3, HasIssued DEF Has
  <2> QED
    BY <1>14, <2>1
<1>17. \A g \in Handsets : g # h =>
          /\ secure'[g] = secure[g] /\ live'[g] = live[g]
          /\ renewals'[g] = renewals[g] /\ errand'[g] = errand[g]
  BY <1>2, <1>10
<1> QED
  BY <1>8, <1>9, <1>11, <1>13, <1>15, <1>16, <1>17, PhoneStep

\* deleteAccountTransaction: no token is known any more.
LEMMA DeleteBooks ==
    ASSUME SessionInv, NEW id, Deletes(id), UNCHANGED <<tokens, quit>>
    PROVE  BooksOK' /\ BooksStep(0) /\ \A u : Safe(u)'
<1>1. BooksOK /\ tokens \in Nat /\ family \in Seq(Family)
  BY DEF SessionInv, BooksOK
<1>2. account' = account + 1 /\ excused' = excused \cup DOMAIN family
  BY DEF Deletes
<1>3. PICK r \in Family : /\ r = [token |-> 0, rotated |-> {}, revoked |-> TRUE, expired |-> TRUE]
                          /\ r.token = 0 /\ r.rotated = {} /\ r.revoked
  BY OtherFamilies
<1>4. /\ family' \in Seq(Family) /\ DOMAIN family' = DOMAIN family
      /\ \A f \in DOMAIN family' : family'[f] = r
  <2>1. family' = [f \in DOMAIN family |-> r]
    BY <1>3 DEF Deletes
  <2> QED
    BY <1>1, <2>1
<1>5. BooksOK'
  <2>1. account' \in Nat /\ tokens' \in Nat
    BY <1>1, <1>2 DEF BooksOK
  <2>2. SignedOutStaysOut' /\ OnlyLossSignsOut' /\ quit' \subseteq DOMAIN family'
    BY <1>1, <1>2, <1>3, <1>4 DEF BooksOK, SignedOutStaysOut, OnlyLossSignsOut
  <2>3. \A f \in DOMAIN family' : /\ family'[f].token <= tokens'
                                  /\ \A u \in family'[f].rotated : u > 0 /\ u <= tokens'
    BY <1>3, <1>4, <2>1
  <2> QED
    BY <1>4, <2>1, <2>2, <2>3 DEF BooksOK
<1>6. BooksStep(0)
  <2>1. \A f \in DOMAIN family' : family'[f].revoked /\ family'[f].rotated = {}
    BY <1>3, <1>4
  <2> QED
    BY <1>1, <1>2, <2>1 DEF BooksStep, Families
<1>7. \A u : Safe(u)'
  BY <1>3, <1>4 DEF Safe
<1> QED
  BY <1>5, <1>6, <1>7

LEMMA DeleteKeeps ==
    ASSUME SessionInv, NEW h \in Handsets, DeleteAccount(h)
    PROVE  SessionInv'
<1>1. PhoneTypes /\ PhoneOK(h) /\ BooksOK /\ tokens \in Nat /\ family \in Seq(Family)
  BY DEF SessionInv, BooksOK
<1>2. /\ UNCHANGED <<secure, live, renewals, tokens, quit>>
      /\ errand' = [errand EXCEPT ![h] = NoErrand]
  BY DEF DeleteAccount
<1>5. BooksOK' /\ BooksStep(0) /\ \A u : Safe(u)'
  <2>1. Deletes(errand[h].account)
    BY DEF DeleteAccount
  <2> QED
    BY <1>2, <2>1, DeleteBooks
<1>7. /\ errand' \in [Handsets -> Errand]
      /\ errand'[h].at = "none" /\ errand'[h].token = 0
      /\ \A g \in Handsets : g # h => errand'[g] = errand[g]
  <2>1. errand \in [Handsets -> Errand]
    BY <1>1 DEF PhoneTypes
  <2> QED
    BY <1>2, <2>1, ErrandOver
<1>8. PhoneTypes'
  BY <1>1, <1>2, <1>7 DEF PhoneTypes
<1>9. PhoneOK(h)'
  <2>1. \A u : Safe(u)'
    BY <1>5
  <2>2. Safe(secure[h])'
    <3>1. PICK s : s = secure[h] /\ s = secure'[h]
      BY <1>2
    <3>2. Safe(s)'
      BY <1>5
    <3> QED
      BY <1>2, <3>1, <3>2
  <2> QED
    BY <1>1, <1>2, <1>7, <2>1, <2>2 DEF PhoneOK
<1>10. \A u \in Nat : (Holds(h, u)' <=> Holds(h, u)) /\ ~Welcomed(h, u)'
  BY <1>2, <1>7 DEF Holds, Welcomed
<1> QED
  BY <1>2, <1>5, <1>7, <1>8, <1>9, <1>10, PhoneStep DEF Has

\* rotateSession exchanges a current token: the answer brings one nobody had.
LEMMA RotationBooks ==
    ASSUME SessionInv, NEW x \in Nat, x > 0, x <= tokens, Presented(x),
           UNCHANGED <<account, quit>>, excused \subseteq excused',
           \E f \in DOMAIN family : family[f].token = x /\ Standing(f)
    PROVE  /\ BooksOK' /\ BooksStep(x) /\ tokens' = tokens + 1
           /\ \A f \in DOMAIN family' : x \in family'[f].rotated => f \in Families(x)
<1>1. BooksOK /\ tokens \in Nat /\ family \in Seq(Family)
  BY DEF SessionInv, BooksOK
<1>2. x > 0 /\ x <= tokens
  OBVIOUS
<1> DEFINE row(f) == IF f \in {g \in DOMAIN family : family[g].token = x}
                     THEN [family[f] EXCEPT !.token = tokens', !.rotated = @ \cup {x}]
                     ELSE family[f]
<1>3. tokens' = tokens + 1 /\ family' = [f \in DOMAIN family |-> row(f)]
  BY DEF Presented, NewToken
<1>3a. PICK n \in Nat : n = tokens' /\ n = tokens + 1 /\ n > tokens
  <2>1. tokens' = tokens + 1
    BY <1>3
  <2> QED
    BY <1>1, <2>1
<1>4. ASSUME NEW f \in DOMAIN family
      PROVE  /\ row(f) \in Family
             /\ row(f).revoked = family[f].revoked
             /\ family[f].token = x =>
                   row(f).token = n /\ row(f).rotated = family[f].rotated \cup {x}
             /\ family[f].token # x => row(f) = family[f]
  <2>1. family[f] \in Family /\ family[f].rotated \in SUBSET Nat
    BY <1>1, FamilyRow
  <2>2. CASE family[f].token = x
    <3>1. PICK s \in SUBSET Nat : s = family[f].rotated \cup {x}
      BY <1>2, <2>1
    <3>2. PICK g \in Family : g = family[f]
      BY <2>1
    <3>3. PICK q : q = [g EXCEPT !.token = n, !.rotated = s]
      OBVIOUS
    <3>4. q \in Family /\ q.token = n /\ q.rotated = s /\ q.revoked = g.revoked
      BY <3>3 DEF Family
    <3>5. row(f) = q
      BY <1>3a, <2>2, <3>1, <3>2, <3>3
    <3> HIDE DEF row
    <3> QED
      BY <2>2, <3>1, <3>2, <3>4, <3>5
  <2>3. CASE family[f].token # x
    <3>1. row(f) = family[f]
      BY <2>3
    <3> HIDE DEF row
    <3> QED
      BY <2>1, <2>3, <3>1
  <2> QED
    BY <2>2, <2>3
<1> HIDE DEF row
<1>5. /\ DOMAIN family' = DOMAIN family /\ family' \in Seq(Family)
      /\ \A f \in DOMAIN family : family'[f] = row(f)
  <2>1. DOMAIN family' = 1 .. Len(family) /\ DOMAIN family = 1 .. Len(family) /\ Len(family) \in Nat
    BY <1>1, <1>3
  <2>2. \A f \in DOMAIN family : family'[f] = row(f) /\ family'[f] \in Family
    BY <1>3, <1>4
  <2> QED
    BY <1>3, <2>1, <2>2
<1>6. \A f \in DOMAIN family : /\ family[f].token \in Nat /\ family[f].token <= tokens
                               /\ \A t \in family[f].rotated : t \in Nat /\ t > 0 /\ t <= tokens
  BY <1>1, FamilyRow DEF BooksOK
<1>7. BooksOK'
  <2>1. ASSUME NEW f \in DOMAIN family'
        PROVE  /\ family'[f].token <= n
               /\ \A t \in family'[f].rotated : t > 0 /\ t <= n
    <3>1. CASE family[f].token = x
      <4>1. family'[f].token = n /\ family'[f].rotated = family[f].rotated \cup {x}
        BY <1>4, <1>5, <3>1
      <4>2. \A t \in family[f].rotated : t \in Nat /\ t > 0 /\ t <= tokens
        BY <1>5, <1>6
      <4> QED
        BY <1>1, <1>2, <1>3a, <4>1, <4>2
    <3>2. CASE family[f].token # x
      <4>1. family'[f] = family[f]
        BY <1>4, <1>5, <3>2
      <4> QED
        BY <1>1, <1>3a, <1>5, <1>6, <4>1
    <3> QED
      BY <3>1, <3>2
  <2>2. \A f \in DOMAIN family : family'[f].revoked = family[f].revoked
    BY <1>4, <1>5
  <2>3. SignedOutStaysOut' /\ OnlyLossSignsOut' /\ quit' \subseteq DOMAIN family'
    BY <1>1, <1>3, <1>5, <2>2 DEF BooksOK, SignedOutStaysOut, OnlyLossSignsOut
  <2>4. account' \in Nat
    BY <1>1, <1>3 DEF BooksOK
  <2> QED
    BY <1>3a, <1>5, <2>1, <2>3, <2>4 DEF BooksOK
<1>8. BooksStep(x)
  <2>1. \A f \in DOMAIN family' : \A t \in family'[f].rotated :
            f \in DOMAIN family /\ (t \in family[f].rotated \/ t = x)
    BY <1>4, <1>5
  <2>2. ASSUME NEW t \in Nat, t <= tokens, NEW f \in Families(t)'
        PROVE  family'[f].revoked \/ (f \in Families(t) /\ ~family[f].revoked)
    <3>1. f \in DOMAIN family /\ (family'[f].token = t \/ t \in family'[f].rotated)
      BY <1>5, <2>2 DEF Families
    <3>2. family[f].token = t \/ t \in family[f].rotated
      <4>1. CASE family[f].token = x
        <5>1. family'[f].token = n /\ family'[f].rotated = family[f].rotated \cup {x}
          BY <1>4, <1>5, <3>1, <4>1
        <5>2. n # t
          BY <1>1, <1>3a, <2>2
        <5> QED
          BY <3>1, <4>1, <5>1, <5>2
      <4>2. CASE family[f].token # x
        BY <1>4, <1>5, <3>1, <4>2
      <4> QED
        BY <4>1, <4>2
    <3>3. f \in Families(t)
      BY <3>1, <3>2 DEF Families
    <3>4. family'[f].revoked = family[f].revoked
      BY <1>4, <1>5, <3>1
    <3> QED
      BY <3>3, <3>4
  <2>3. tokens <= tokens' /\ excused \subseteq excused'
    BY <1>1, <1>3
  <2> QED
    BY <2>1, <2>2, <2>3 DEF BooksStep
<1>9. ASSUME NEW f \in DOMAIN family', x \in family'[f].rotated
      PROVE  f \in Families(x)
  <2>1. CASE family[f].token = x
    BY <1>5, <2>1 DEF Families
  <2>2. CASE family[f].token # x
    BY <1>4, <1>5, <1>9, <2>2 DEF Families
  <2> QED
    BY <2>1, <2>2
<1> QED
  BY <1>3, <1>7, <1>8, <1>9

\* rotateSession refuses: a token that was rotated before revokes its families,
\* which are excused.
LEMMA RefusalBooks ==
    ASSUME SessionInv, NEW x, Presented(x),
           UNCHANGED <<account, quit>>, excused \subseteq excused',
           \A f \in DOMAIN family : x \in family[f].rotated => f \in excused',
           ~ \E f \in DOMAIN family : family[f].token = x /\ Standing(f)
    PROVE  BooksOK' /\ BooksStep(0) /\ UNCHANGED tokens
<1>1. BooksOK /\ tokens \in Nat /\ family \in Seq(Family)
  BY DEF SessionInv, BooksOK
<1> DEFINE current == {g \in DOMAIN family : family[g].token = x}
<1>2. /\ UNCHANGED tokens
      /\ family' = [f \in DOMAIN family |->
             IF current = {} /\ f \in Families(x)
             THEN [family[f] EXCEPT !.revoked = TRUE] ELSE family[f]]
  BY DEF Presented
<1>4. ASSUME NEW f \in DOMAIN family
      PROVE  /\ family'[f] \in Family
             /\ family'[f].token = family[f].token
             /\ family'[f].rotated = family[f].rotated
             /\ family[f].revoked => family'[f].revoked
             /\ family'[f].revoked => family[f].revoked \/ f \in excused'
  <2>1. family[f] \in Family
    BY <1>1
  <2>2. CASE current = {} /\ f \in Families(x)
    <3>1. x \in family[f].rotated
      BY <2>2 DEF Families
    <3>2. f \in excused'
      BY <3>1
    <3>3. family'[f] = [family[f] EXCEPT !.revoked = TRUE]
      BY <1>2, <2>2
    <3> QED
      BY <2>1, <3>2, <3>3, ChangedFamily
  <2>3. CASE ~(current = {} /\ f \in Families(x))
    <3>1. family'[f] = family[f]
      BY <1>2, <2>3
    <3> QED
      BY <2>1, <3>1
  <2> QED
    BY <2>2, <2>3
<1>5. DOMAIN family' = DOMAIN family /\ family' \in Seq(Family)
  <2>1. DOMAIN family' = 1 .. Len(family) /\ DOMAIN family = 1 .. Len(family) /\ Len(family) \in Nat
    BY <1>1, <1>2
  <2>2. \A f \in DOMAIN family : family'[f] \in Family
    BY <1>4
  <2> QED
    BY <1>2, <2>1, <2>2
<1>6. BooksOK' /\ BooksStep(0)
  BY <1>2, <1>4, <1>5, BooksEnd
<1> QED
  BY <1>2, <1>6

\* An answered refresh: the token it sent is in no other hands, the one it got
\* is safe, and the stored one is safe or the one it sent.
LEMMA RotateKeeps ==
    ASSUME SessionInv, NEW h \in Handsets, NEW c \in renewals[h], RotateSession(h, c)
    PROVE  SessionInv'
<1>1. PhoneTypes /\ PhoneOK(h) /\ BooksOK /\ tokens \in Nat
  BY DEF SessionInv, BooksOK
<1>2. /\ c \in Renewal /\ c.token \in Nat /\ c.token > 0 /\ c.token <= tokens /\ c.at = "sent"
      /\ \A d, e \in renewals[h] : d = e
      /\ UNCHANGED <<account, secure, live, errand, quit, excused>>
  <2>1. c.at = "sent" /\ UNCHANGED <<account, secure, live, errand, quit, excused>>
    BY DEF RotateSession
  <2> QED
    BY <1>1, <2>1 DEF PhoneTypes, PhoneOK, Renewal
<1>3. \E r, t \in Nat :
          /\ r = 0 \/ r = c.token
          /\ t = 0 \/ t > tokens
          /\ tokens <= tokens' /\ t <= tokens'
          /\ BooksOK' /\ BooksStep(r)
          /\ Becomes(h, c, {[c EXCEPT !.at = "answered", !.got = t]})
  <2> PICK x \in Nat : x = c.token /\ x > 0 /\ x <= tokens
    BY <1>2
  <2>0. /\ Presented(x)
        /\ Becomes(h, c, {[c EXCEPT !.at = "answered", !.got = IF tokens' = tokens THEN 0 ELSE tokens']})
    BY DEF RotateSession
  <2>1. CASE \E f \in DOMAIN family : family[f].token = x /\ Standing(f)
    <3>1. BooksOK' /\ BooksStep(x) /\ tokens' = tokens + 1
      BY <1>2, <2>0, <2>1, RotationBooks
    <3>2. tokens' \in Nat /\ tokens' > tokens /\ tokens <= tokens' /\ tokens' <= tokens'
      BY <1>1, <3>1
    <3>3. (IF tokens' = tokens THEN 0 ELSE tokens') = tokens'
      BY <1>1, <3>1
    <3>4. Becomes(h, c, {[c EXCEPT !.at = "answered", !.got = tokens']})
      BY <2>0, <3>3
    <3> QED
      BY <3>1, <3>2, <3>4
  <2>2. CASE ~ \E f \in DOMAIN family : family[f].token = x /\ Standing(f)
    <3>1. \A f \in DOMAIN family : x \in family[f].rotated => f \in excused'
      BY <1>1, <1>2 DEF PhoneOK, Safe
    <3>2. BooksOK' /\ BooksStep(0) /\ UNCHANGED tokens
      BY <1>2, <2>0, <2>2, <3>1, RefusalBooks
    <3>3. 0 \in Nat /\ tokens <= tokens' /\ 0 <= tokens'
      BY <1>1, <3>2
    <3>4. Becomes(h, c, {[c EXCEPT !.at = "answered", !.got = 0]})
      BY <2>0, <3>2
    <3> QED
      BY <3>2, <3>3, <3>4
  <2> QED
    BY <2>1, <2>2
<1>4. PICK r \in Nat, t \in Nat :
          /\ r = 0 \/ r = c.token
          /\ t = 0 \/ t > tokens
          /\ tokens <= tokens' /\ t <= tokens'
          /\ BooksOK' /\ BooksStep(r)
          /\ Becomes(h, c, {[c EXCEPT !.at = "answered", !.got = t]})
  BY <1>3
<1>5. PICK n \in Renewal : /\ n = [c EXCEPT !.at = "answered", !.got = t]
                           /\ n.at = "answered" /\ n.token = c.token /\ n.got = t
  <2>1. PICK n : n = [c EXCEPT !.at = "answered", !.got = t]
    OBVIOUS
  <2>2. n \in Renewal /\ n.at = "answered" /\ n.token = c.token /\ n.got = t
    BY <1>2, <2>1 DEF Renewal
  <2> QED
    BY <2>1, <2>2
<1>6. /\ renewals' \in [Handsets -> SUBSET Renewal]
      /\ renewals'[h] = {n}
      /\ \A g \in Handsets : g # h => renewals'[g] = renewals[g]
  <2>1. Becomes(h, c, {n}) /\ {n} \in SUBSET Renewal
    BY <1>4, <1>5
  <2>2. renewals \in [Handsets -> SUBSET Renewal]
    BY <1>1 DEF PhoneTypes
  <2> QED
    BY <1>2, <2>1, <2>2, OnlyRenewal
<1>7. PhoneTypes'
  BY <1>1, <1>2, <1>6 DEF PhoneTypes
<1>8. Holds(h, c.token)
  BY <1>2 DEF Holds
<1>9. \A u \in Nat : u # c.token /\ Safe(u) => Safe(u)'
  <2>1. \A u : Safe(u) /\ (u # r \/ u = 0) => Safe(u)'
    BY <1>4, SafeKept
  <2> QED
    BY <1>4, <2>1
<1>10. /\ secure[h] \in Nat /\ live[h] \in Nat /\ errand[h].token \in Nat
       /\ tokens' \in Nat
  BY <1>1, <1>4 DEF PhoneTypes, Errand, BooksOK
<1>11. Safe(t)'
  BY <1>1, <1>2, <1>4, NewIsSafe
<1>12. PhoneOK(h)'
  <2>1. errand[h].at = "welcome" => Safe(errand[h].token)'
    <3>1. ASSUME errand[h].at = "welcome"
          PROVE  errand[h].token # c.token
      BY <1>2, <1>8, <3>1 DEF SessionInv, Apart, Welcomed
    <3>2. PICK e \in Nat : e = errand[h].token /\ e = errand'[h].token
      BY <1>2, <1>10
    <3>3. errand[h].at = "welcome" => Safe(e)'
      BY <1>1, <1>9, <3>1, <3>2 DEF PhoneOK
    <3> QED
      BY <1>2, <3>2, <3>3
  <2>2. errand[h].at = "left" => Ended(errand[h].token)'
    <3>1. PICK e \in Nat : e = errand[h].token /\ e = errand'[h].token /\ e <= tokens
      BY <1>1, <1>2, <1>10 DEF PhoneOK
    <3>2. errand[h].at = "left" => Ended(e)'
      BY <1>1, <1>4, <3>1, EndedKept DEF PhoneOK
    <3> QED
      BY <1>2, <3>1, <3>2
  <2>3. Safe(secure[h])' \/ \E d \in renewals'[h] : d.at = "answered" /\ d.token = secure'[h]
    <3>1. PICK s \in Nat : s = secure[h] /\ s = secure'[h]
      BY <1>2, <1>10
    <3>2. CASE s = c.token
      BY <1>5, <1>6, <3>1, <3>2
    <3>3. CASE s # c.token
      <4>1. Safe(s)
        BY <1>1, <1>2, <3>1 DEF PhoneOK
      <4>2. Safe(s)'
        BY <1>9, <3>3, <4>1
      <4> QED
        BY <3>1, <4>2
    <3> QED
      BY <3>2, <3>3
  <2>4. /\ secure'[h] <= tokens' /\ live'[h] <= tokens' /\ errand'[h].token <= tokens'
        /\ \A d \in renewals'[h] : d.token > 0 /\ d.token <= tokens' /\ d.got <= tokens'
    BY <1>1, <1>2, <1>4, <1>5, <1>6, <1>10 DEF PhoneOK
  <2>5. /\ \A d, e \in renewals'[h] : d = e
        /\ \A d \in renewals'[h] : d.at # "sent" /\ Safe(d.got)'
    BY <1>5, <1>6, <1>11
  <2> QED
    BY <1>2, <2>1, <2>2, <2>3, <2>4, <2>5 DEF PhoneOK
<1>13. \A u \in Nat : Holds(h, u)' => Holds(h, u) \/ u > tokens
  BY <1>2, <1>4, <1>5, <1>6 DEF Holds
<1>14. \A u \in Nat : Welcomed(h, u)' <=> Welcomed(h, u)
  BY <1>2 DEF Welcomed
<1>15. \A u \in Nat : ~(Holds(h, u)' /\ Welcomed(h, u)')
  <2>1. \A u \in Nat : Welcomed(h, u) => u <= tokens /\ ~Holds(h, u)
    BY HasIssued DEF Has, SessionInv, Apart
  <2> QED
    BY <1>1, <1>13, <1>14, <2>1
<1>16. /\ r = 0 \/ Has(h, r)
       /\ \A u \in Nat : Has(h, u)' => Has(h, u) \/ u > tokens
  BY <1>4, <1>8, <1>13, <1>14 DEF Has
<1>17. \A g \in Handsets : g # h =>
          /\ secure'[g] = secure[g] /\ live'[g] = live[g]
          /\ renewals'[g] = renewals[g] /\ errand'[g] = errand[g]
  BY <1>2, <1>6
<1> QED
  BY <1>4, <1>7, <1>12, <1>15, <1>16, <1>17, PhoneStep

\* A request that comes late changes no phone, and what a late refresh makes
\* unsafe it excuses.
LEMMA LateKeeps ==
    ASSUME SessionInv, AdriftOK, NEW r \in adrift, LateRefresh(r) \/ LateSignOut(r) \/ LateDeletion(r)
    PROVE  SessionInv'
<1>1. BooksOK /\ tokens \in Nat
  BY DEF SessionInv, BooksOK
<1>2. UNCHANGED <<phoneState, quit>>
  BY DEF LateRefresh, LateSignOut, LateDeletion
<1>3. CASE LateSignOut(r)
  <2>1. Revokes(r.token) /\ UNCHANGED <<account, tokens, quit>>
    BY <1>3 DEF LateSignOut
  <2>2. BooksOK' /\ BooksStep(0)
    BY <2>1, RevokeBooks
  <2> QED
    BY <1>2, <2>2, SafeStays, PhonesAlone
<1>4. CASE LateDeletion(r)
  <2>1. Deletes(r.account) /\ UNCHANGED <<tokens, quit>>
    BY <1>4 DEF LateDeletion
  <2>2. BooksOK' /\ BooksStep(0) /\ \A u : Safe(u)'
    BY <2>1, DeleteBooks
  <2> QED
    BY <1>2, <2>2, PhonesAlone
<1>5. CASE LateRefresh(r)
  <2>1. PICK x \in Nat : x = r.token /\ x > 0 /\ x <= tokens
    BY <1>5 DEF AdriftOK, LateRefresh
  <2>2. /\ Presented(x) /\ UNCHANGED <<account, quit>>
        /\ excused' = excused \cup Families(x)
    BY <1>5, <2>1 DEF LateRefresh
  <2>3. excused \subseteq excused' /\ \A f \in Families(x) : f \in excused'
    BY <2>2
  <2>4. CASE \E f \in DOMAIN family : family[f].token = x /\ Standing(f)
    <3>1. /\ BooksOK' /\ BooksStep(x)
          /\ \A f \in DOMAIN family' : x \in family'[f].rotated => f \in Families(x)
      BY <2>1, <2>2, <2>3, <2>4, RotationBooks
    <3>2. Safe(x)'
      BY <2>3, <3>1 DEF Safe
    <3>3. \A u \in Nat : Safe(u) => Safe(u)'
      BY <3>1, <3>2, SafeKept
    <3> QED
      BY <1>2, <3>1, <3>3, PhonesAlone
  <2>5. CASE ~ \E f \in DOMAIN family : family[f].token = x /\ Standing(f)
    <3>1. \A f \in DOMAIN family : x \in family[f].rotated => f \in excused'
      BY <2>3 DEF Families
    <3>2. BooksOK' /\ BooksStep(0)
      BY <2>2, <2>3, <2>5, <3>1, RefusalBooks
    <3> QED
      BY <1>2, <3>2, SafeStays, PhonesAlone
  <2> QED
    BY <2>4, <2>5
<1> QED
  BY <1>3, <1>4, <1>5

\* A late refresh presents what a phone had stored.
LEMMA AdriftKept ==
    ASSUME SessionInv, AdriftOK, [SessionNext]_sessionVars
    PROVE  AdriftOK'
<1>1. tokens \in Nat /\ tokens' \in Nat /\ tokens <= tokens'
  <2>1. tokens \in Nat
    BY DEF SessionInv, BooksOK
  <2>2. tokens' = tokens \/ tokens' = tokens + 1
    BY ZenonT(30) DEF SessionNext, SignIn, ConsumeProviderNonce, CreateSession, CreateNoSession, TakeSession,
           RestoreSession, ForgetExpired, RotateSession, Presented, WriteRefreshed, EndRefresh,
           LoseRefresh, LateRefresh, SignOut, RevokeSession, SignOutEnds, LateSignOut,
           ClearStorage, EndSignOut, Reauthenticate, DeleteAccount, LateDeletion,
           SessionExpires, AppDies, NewToken, sessionVars
  <2> QED
    BY <2>1, <2>2
<1>2. \A h \in Handsets : \A c \in renewals[h] : c.token \in Nat /\ c.token > 0 /\ c.token <= tokens
  BY DEF SessionInv, PhoneTypes, PhoneOK, Renewal
<1>3. ASSUME NEW r \in adrift', r.asks = "refresh"
      PROVE  r \in adrift \/ \E h \in Handsets : \E c \in renewals[h] : r.token = c.token
  <2>1. CASE adrift' \subseteq adrift
    BY <2>1
  <2>2. ASSUME NEW h \in Handsets, NEW c \in renewals[h], LoseRefresh(h, c)
        PROVE  r \in adrift \/ r.token = c.token
    BY <2>2 DEF LoseRefresh, Asks
  <2>3. ASSUME NEW h \in Handsets, SignOutEnds(h)
        PROVE  r \in adrift
    BY <1>3, <2>3 DEF SignOutEnds, Asks
  <2>4. ASSUME NEW h \in Handsets, AppDies(h)
        PROVE  r \in adrift \/ \E c \in renewals[h] : r.token = c.token
    <3>1. \/ r \in adrift
          \/ \E c \in renewals[h] : r = Asks("refresh", c.token, 0)
          \/ r = Asks("signOut", errand[h].token, 0)
          \/ r = Asks("delete", 0, errand[h].account)
      BY <2>4 DEF AppDies
    <3> QED
      BY <1>3, <3>1 DEF Asks
  <2> QED
    BY <2>1, <2>2, <2>3, <2>4
       DEF SessionNext, SignIn, ConsumeProviderNonce, CreateSession, CreateNoSession, TakeSession,
           RestoreSession, ForgetExpired, RotateSession, WriteRefreshed, EndRefresh,
           LateRefresh, SignOut, RevokeSession, LateSignOut,
           ClearStorage, EndSignOut, Reauthenticate, DeleteAccount, LateDeletion,
           SessionExpires, sessionVars
<1> QED
  BY <1>1, <1>2, <1>3 DEF AdriftOK

(***************************************************************************)
(* The invariant and the theorems.                                         *)
(***************************************************************************)
\* Nobody is signed in at first.
LEMMA SessionInvInit == SessionInit => SessionInv
<1> SUFFICES ASSUME SessionInit
             PROVE  SessionInv
  OBVIOUS
<1>1. family = << >> /\ DOMAIN family = {} /\ family \in Seq(Family)
  BY DEF SessionInit
<1>2. BooksOK
  BY <1>1 DEF SessionInit, BooksOK, SignedOutStaysOut, OnlyLossSignsOut
<1>3. /\ PhoneTypes
      /\ \A h \in Handsets : /\ secure[h] = 0 /\ live[h] = 0 /\ renewals[h] = {}
                             /\ errand[h].at = "none" /\ errand[h].token = 0
  BY DEF SessionInit, PhoneTypes, NoErrand, Errand, Places
<1>4. ASSUME NEW h \in Handsets
      PROVE  PhoneOK(h)
  <2>1. tokens = 0 /\ Safe(secure[h])
    BY <1>1 DEF Safe, SessionInit
  <2>2. /\ secure[h] <= tokens /\ live[h] <= tokens /\ errand[h].token <= tokens
        /\ renewals[h] = {}
        /\ errand[h].at # "welcome" /\ errand[h].at # "left"
    BY <1>3, <2>1
  <2> QED
    BY <2>1, <2>2 DEF PhoneOK
<1>5. Apart
  BY <1>3 DEF Apart, Has, Holds, Welcomed
<1> QED
  BY <1>2, <1>3, <1>4, <1>5 DEF SessionInv

\* Every step keeps the invariant.
LEMMA SessionInvNext == SessionInv /\ AdriftOK /\ [SessionNext]_sessionVars => SessionInv' /\ AdriftOK'
<1> SUFFICES ASSUME SessionInv, AdriftOK, [SessionNext]_sessionVars
             PROVE  SessionInv'
  BY AdriftKept
<1>1. CASE UNCHANGED sessionVars
  BY <1>1 DEF sessionVars, phoneState, SessionInv, BooksOK, SignedOutStaysOut, OnlyLossSignsOut,
              PhoneTypes, PhoneOK, Safe, Ended, Families, Apart, Has, Holds, Welcomed
<1>2. CASE \E f \in DOMAIN family : SessionExpires(f)
  BY <1>2, ExpiryKeeps
<1>3. ASSUME NEW h \in Handsets,
             \/ SignIn(h) \/ ConsumeProviderNonce(h) \/ CreateNoSession(h)
             \/ SignOut(h) \/ SignOutEnds(h) \/ ClearStorage(h) \/ EndSignOut(h)
             \/ Reauthenticate(h)
      PROVE  SessionInv'
  BY <1>3, ErrandsKeep
<1>4. ASSUME NEW h \in Handsets,
             \/ CreateSession(h) \/ TakeSession(h) \/ RestoreSession(h) \/ ForgetExpired(h)
             \/ RevokeSession(h) \/ DeleteAccount(h)
      PROVE  SessionInv'
  BY <1>4, CreateKeeps, TakeKeeps, RestoreKeeps, RevokeKeeps, DeleteKeeps
<1>5. ASSUME NEW h \in Handsets, NEW c \in renewals[h],
             RotateSession(h, c) \/ WriteRefreshed(h, c)
      PROVE  SessionInv'
  BY <1>5, RotateKeeps, WriteKeeps
<1>6. ASSUME NEW h \in Handsets,
             AppDies(h) \/ \E c \in renewals[h] : EndRefresh(h, c) \/ LoseRefresh(h, c)
      PROVE  SessionInv'
  BY <1>6, EndKeeps
<1>7. ASSUME NEW r \in adrift, LateRefresh(r) \/ LateSignOut(r) \/ LateDeletion(r)
      PROVE  SessionInv'
  BY <1>7, LateKeeps
<1> QED
  BY <1>1, <1>2, <1>3, <1>4, <1>5, <1>6, <1>7 DEF SessionNext

\* The invariant holds in every state of every behaviour.
LEMMA SessionInvAlways == SessionSpec => []SessionInv
<1>1. SessionInit => AdriftOK
  BY DEF SessionInit, AdriftOK
<1> QED
  BY <1>1, SessionInvInit, SessionInvNext, PTL DEF SessionSpec

\* A sign-out that was answered is final, whatever refresh was under way
\* (auth-store.ts:195-220, auth-session.ts:178-208).
THEOREM SignedOutStaysOutAlways == SessionSpec => []SignedOutStaysOut
<1>1. SessionInv => SignedOutStaysOut
  BY DEF SessionInv, BooksOK
<1> QED
  BY <1>1, SessionInvAlways, PTL

\* A session ends only because its phone signed out, the account was deleted,
\* a refreshed token did not arrive, or a refresh its phone had given up on was
\* served: the detection of reused tokens (auth-store.ts:160-193) never meets a
\* phone whose refreshes were all answered.
THEOREM OnlyLossSignsOutAlways == SessionSpec => []OnlyLossSignsOut
<1>1. SessionInv => OnlyLossSignsOut
  BY DEF SessionInv, BooksOK
<1> QED
  BY <1>1, SessionInvAlways, PTL

(***************************************************************************)
(* Reminders.                                                              *)
(***************************************************************************)
Stages == {"none", "take", "ending", "load", "rows", "sweep", "delete", "record"}
Whys == {"mission-change", "synchronization", "sign-in", "forced"}
Bodies == [slot : Nat, missions : SUBSET Reminded, text : Nat]
Rows == [id : Nat, slot : Nat, missions : SUBSET Reminded, text : Nat]
Rebuilds == [at : Stages, why : SUBSET Whys, wanted : SUBSET Bodies, rows : SUBSET Rows,
             kept : SUBSET Bodies, now : SUBSET Rows]
PlanRow == [row : {"none", "cached", "tombstone"}, slot : Nat, title : Nat]

ReminderTypes ==
    /\ plan \in [Reminded -> PlanRow]
    /\ native \in SUBSET Rows /\ registry \in SUBSET Rows
    /\ rebuild \in Rebuilds /\ reasons \in SUBSET Whys
    /\ permission \in BOOLEAN /\ unannounced \in BOOLEAN /\ passed \in Nat

FiniteLists ==
    /\ IsFiniteSet(native) /\ IsFiniteSet(registry)
    /\ IsFiniteSet(rebuild.rows) /\ IsFiniteSet(strays)

\* What a rebuild carries at each of its stages.
CarriedOK ==
    /\ rebuild.at \notin {"sweep", "delete", "record"} =>
          rebuild.rows = {} /\ rebuild.kept = {} /\ rebuild.now = {}
    /\ rebuild.at \notin {"none", "take", "ending"} => rebuild.why # {}
    /\ rebuild.at = "sweep" => rebuild.now = {}
    /\ rebuild.at = "delete" => \E r \in rebuild.rows : rebuild.now = {r}
    /\ rebuild.at = "record" => /\ rebuild.rows = {} /\ rebuild.now \cap registry = {}
                               /\ \E n \in Rows : rebuild.now = {n}

\* A reminder and its row are one, and known by their id.
Listed == native \cup registry \cup rebuild.rows \cup rebuild.now
OneId == \A a, b \in Listed : a.id = b.id => a = b

\* What the system will show has a row, gets one, or is a stray.
Known ==
    /\ \A n \in native : n.slot > passed
    /\ \A n \in native : \/ n.id \in strays \/ n \in registry
                         \/ rebuild.at = "record" /\ n \in rebuild.now
    /\ rebuild.at = "delete" => \A n \in native : \A r \in rebuild.now : n.id # r.id

\* Row r is still to be replaced, whatever it says.
Forced(r) ==
    \/ appState # "front" \/ login # "in" \/ ~permission \/ "forced" \in reasons
    \/ "forced" \in rebuild.why /\ (rebuild.at \in {"load", "rows"} \/ r \in rebuild.rows)

\* A row of the future has its reminder, is being deleted, is a stray or will be
\* replaced; a row about to be written has it or will be replaced.
Backed ==
    /\ \A r \in registry : \/ r.id \in strays \/ r.slot <= passed \/ r \in native
                           \/ rebuild.at = "delete" /\ r \in rebuild.now
                           \/ Forced(r)
    /\ rebuild.at = "record" =>
          \A n \in rebuild.now : n.slot <= passed \/ n \in native \/ Forced(n)

\* Nothing has changed since the missions were loaded.
Quiet == appState = "front" /\ login = "in" /\ permission /\ reasons = {} /\ ~unannounced

\* A rebuild wants what is to be wanted.
StillWanted ==
    Quiet /\ rebuild.at \in {"rows", "sweep", "delete", "record"} =>
        \A w : w \in Wanted <=> w \in rebuild.wanted /\ w.slot > passed

\* The rows it has swept are those it kept, each for another reminder.
SweptIsKept ==
    Quiet /\ rebuild.at \in {"sweep", "delete", "record"} =>
        /\ rebuild.rows \subseteq registry /\ rebuild.kept \subseteq rebuild.wanted
        /\ \A r \in registry \ rebuild.rows : Body(r) \in rebuild.kept
        /\ \A b \in rebuild.kept : \E r \in registry \ rebuild.rows : Body(r) = b
        /\ \A a, b \in registry \ rebuild.rows : Body(a) = Body(b) => a = b
        /\ rebuild.at = "record" =>
              \A n \in rebuild.now : Body(n) \in rebuild.wanted \ rebuild.kept

\* Without a rebuild the rows are for what is wanted.
RowsAreWanted ==
    Quiet /\ rebuild.at \in {"none", "take", "ending"} =>
        /\ \A r \in registry : r.slot > passed => Body(r) \in Wanted
        /\ \A w \in Wanted : \E r \in registry : r.slot > passed /\ Body(r) = w
        /\ \A a, b \in registry : Body(a) = Body(b) => a = b

ReminderInv ==
    /\ ReminderTypes /\ FiniteLists /\ CarriedOK /\ OneId /\ Known /\ Backed
    /\ StillWanted /\ SweptIsKept /\ RowsAreWanted

\* The body of a row is a body.
LEMMA BodyIs == \A r \in Rows : Body(r) \in Bodies /\ Body(r).slot = r.slot
BY DEF Rows, Bodies, Body

\* What is wanted lies in the future.
LEMMA WantedIs == ReminderTypes => Wanted \subseteq Bodies /\ \A w \in Wanted : w.slot > passed
<1> SUFFICES ASSUME ReminderTypes, NEW m \in Due
             PROVE Together(plan[m].slot) \in Bodies /\ Together(plan[m].slot).slot > passed
  BY DEF Wanted
<1> DEFINE s == plan[m].slot
           group == {n \in Due : plan[n].slot = s}
           x == CHOOSE n \in group : TRUE
<1>1. m \in Reminded /\ plan[m] \in PlanRow /\ s \in Nat /\ s > passed
  BY DEF ReminderTypes, Due, PlanRow
<1>2. x \in group
  BY m \in group
<1>3. x \in Reminded /\ plan[x].title \in Nat
  BY <1>2 DEF ReminderTypes, Due, PlanRow
<1>4. (IF Cardinality(group) = 1 THEN plan[x].title ELSE 0) \in Nat
  BY <1>3
<1>5. group \in SUBSET Reminded
  BY DEF Due
<1>6. Together(s) = [slot |-> s, missions |-> group,
                     text |-> IF Cardinality(group) = 1 THEN plan[x].title ELSE 0]
  BY DEF Together
<1> HIDE DEF s, group, x
<1>7. Together(s) \in Bodies /\ Together(s).slot > passed
  BY <1>1, <1>4, <1>5, <1>6 DEF Bodies
<1> QED BY <1>7 DEF s

\* As time passes, what was for the past is not wanted any more.
LEMMA WantedLater ==
    ASSUME ReminderTypes, plan' = plan, passed' = passed + 1
    PROVE  \A w : w \in Wanted' <=> w \in Wanted /\ w.slot > passed'
<1>1. \A m \in Reminded : plan[m].slot \in Nat
  BY DEF ReminderTypes, PlanRow
<1>2. passed \in Nat
  BY DEF ReminderTypes
<1>3. Due' = {m \in Due : plan[m].slot > passed'}
  BY <1>1, <1>2 DEF Due, Cached
<1>4. ASSUME NEW s \in Nat, s > passed' PROVE Together(s)' = Together(s)
  <2>1. {m \in Due : plan[m].slot = s}' = {m \in Due : plan[m].slot = s}
    BY <1>3, <1>4
  <2>2. PICK g : g = {m \in Due : plan[m].slot = s}
    OBVIOUS
  <2>3. Together(s) = [slot |-> s, missions |-> g,
                       text |-> IF Cardinality(g) = 1
                                THEN plan[CHOOSE m \in g : TRUE].title ELSE 0]
    BY <2>2 DEF Together
  <2>4. Together(s)' = [slot |-> s, missions |-> g,
                        text |-> IF Cardinality(g) = 1
                                 THEN plan'[CHOOSE m \in g : TRUE].title ELSE 0]
    <3>1. Together(s)' = [slot |-> s, missions |-> {m \in Due' : plan'[m].slot = s},
                        text |-> IF Cardinality({m \in Due' : plan'[m].slot = s}) = 1
                                 THEN plan'[CHOOSE m \in {n \in Due' : plan'[n].slot = s} : TRUE].title ELSE 0]
      BY DEF Together
    <3>2. {m \in Due' : plan'[m].slot = s} = g
      BY <2>1, <2>2
    <3> QED BY <3>1, <3>2
  <2> QED BY <2>3, <2>4
<1>5. \A s : Together(s).slot = s
  BY DEF Together
<1>6. ASSUME NEW w \in Wanted' PROVE w \in Wanted /\ w.slot > passed'
  <2>1. PICK m \in Due' : w = Together(plan[m].slot)'
    BY <1>6 DEF Wanted
  <2>2. PICK s : s = plan[m].slot
    OBVIOUS
  <2>3. s \in Nat /\ s > passed' /\ m \in Due
    BY <1>1, <1>3, <2>1, <2>2 DEF Due
  <2>4. w = Together(s)
    BY <1>4, <2>1, <2>2, <2>3
  <2> QED BY <1>5, <2>2, <2>3, <2>4 DEF Wanted
<1>7. ASSUME NEW w \in Wanted, w.slot > passed' PROVE w \in Wanted'
  <2>1. PICK m \in Due : w = Together(plan[m].slot)
    BY DEF Wanted
  <2>2. PICK s : s = plan[m].slot
    OBVIOUS
  <2>3. s \in Nat /\ s > passed' /\ m \in Due'
    BY <1>1, <1>3, <1>5, <1>7, <2>1, <2>2 DEF Due
  <2>4. w = Together(s)'
    BY <1>4, <2>1, <2>2, <2>3
  <2> QED BY <2>2, <2>3, <2>4 DEF Wanted
<1> QED BY <1>6, <1>7

\* The ids of finitely many rows are finitely many.
LEMMA IdentifiersAreFinite == ASSUME NEW S, IsFiniteSet(S) PROVE IsFiniteSet(Identifiers(S))
<1> DEFINE f == [r \in S |-> r.id]
<1>1. f \in Surjection(S, Identifiers(S))
  BY DEF Identifiers, Surjection
<1> QED BY <1>1, FS_Surjection

\* NewReminder takes an id that nothing has.
LEMMA NewReminderIs ==
    ASSUME ReminderTypes, FiniteLists, NEW w \in Bodies
    PROVE  /\ NewReminder(w) \in Rows /\ Body(NewReminder(w)) = w
           /\ NewReminder(w).slot = w.slot
           /\ NewReminder(w).id \notin strays
           /\ \A r \in native \cup registry \cup rebuild.rows : r.id # NewReminder(w).id
<1> DEFINE used == strays \cup Identifiers(native \cup registry \cup rebuild.rows)
           n == Cardinality(used)
           id == CHOOSE i \in 1..(n + 1) : i \notin used
<1>1. IsFiniteSet(used)
  BY IdentifiersAreFinite, FS_Union DEF FiniteLists
<1>2. n \in Nat
  BY <1>1, FS_CardinalityType
<1>3. \E i \in 1..(n + 1) : i \notin used
  <2>1. PICK k \in Nat : k = n
    BY <1>2
  <2> DEFINE taken == 1..(k + 1)
  <2>2. Cardinality(taken) = k + 1
    BY FS_Interval
  <2> HIDE DEF taken
  <2>3. PICK c \in Nat : c = Cardinality(taken) /\ c = k + 1
    BY <2>2
  <2>4. taken \in SUBSET used => c <= k
    BY <1>1, <2>1, <2>3, FS_Subset
  <2>5. ~(taken \in SUBSET used)
    BY <2>3, <2>4
  <2> QED BY <2>1, <2>5 DEF taken
<1>4. id \in 1..(n + 1) /\ id \notin used
  BY <1>3
<1>5. id \in Nat
  BY <1>2, <1>4
<1>6. NewReminder(w) = [id |-> id, slot |-> w.slot, missions |-> w.missions, text |-> w.text]
  BY DEF NewReminder
<1>7. id \notin strays /\ \A r \in native \cup registry \cup rebuild.rows : r.id # id
  BY <1>4 DEF Identifiers
<1> HIDE DEF id, used, n
<1>8. NewReminder(w) \in Rows /\ NewReminder(w).slot = w.slot /\ NewReminder(w).id = id
  BY <1>5, <1>6 DEF Rows, Bodies
<1>9. Body(NewReminder(w)) = w
  BY <1>6 DEF Body, Bodies
<1> QED BY <1>7, <1>8, <1>9

\* What is said of a rebuild that nothing changed cannot be said when
\* something did.
LEMMA NoisyKept == ~Quiet' => StillWanted' /\ SweptIsKept' /\ RowsAreWanted'
BY DEF StillWanted, SweptIsKept, RowsAreWanted

LEMMA NoRebuildIs ==
    /\ NoRebuild \in Rebuilds /\ NoRebuild.at = "none" /\ NoRebuild.why = {}
    /\ NoRebuild.rows = {} /\ NoRebuild.kept = {} /\ NoRebuild.now = {}
    /\ \A s \in {"take", "ending"} :
          LET r == [NoRebuild EXCEPT !.at = s]
          IN  /\ r \in Rebuilds /\ r.at = s /\ r.why = {}
              /\ r.rows = {} /\ r.kept = {} /\ r.now = {}
BY DEF NoRebuild, Rebuilds, Stages

\* A request changes the stage of a rebuild at most from none to take.
SameRebuild ==
    /\ rebuild' \in Rebuilds
    /\ rebuild'.at = rebuild.at \/ (rebuild.at = "none" /\ rebuild'.at = "take")
    /\ rebuild'.why = rebuild.why /\ rebuild'.wanted = rebuild.wanted
    /\ rebuild'.rows = rebuild.rows /\ rebuild'.kept = rebuild.kept
    /\ rebuild'.now = rebuild.now

LEMMA UnchangedRebuild == ReminderTypes /\ rebuild' = rebuild => SameRebuild
BY DEF ReminderTypes, SameRebuild

LEMMA Requested ==
    ASSUME ReminderTypes, NEW why \in SUBSET Whys, Request(why)
    PROVE  SameRebuild /\ reasons' = reasons \cup why /\ reasons' \in SUBSET Whys
<1>1. reasons' = reasons \cup why /\ reasons' \in SUBSET Whys
  BY DEF ReminderTypes, Request
<1>2. SameRebuild
  BY DEF ReminderTypes, Request, SameRebuild, Rebuilds, Stages
<1> QED BY <1>1, <1>2

LEMMA Failed ==
    ASSUME ReminderTypes, RebuildFails
    PROVE  /\ rebuild' \in Rebuilds /\ rebuild'.at = "ending"
           /\ rebuild'.rows = {} /\ rebuild'.kept = {} /\ rebuild'.now = {}
           /\ reasons' = reasons \cup rebuild.why /\ reasons' \in SUBSET Whys
<1>1. rebuild.why \in SUBSET Whys /\ reasons \in SUBSET Whys
  BY DEF ReminderTypes, Rebuilds
<1> QED BY <1>1, NoRebuildIs DEF RebuildFails

\* What happens outside a rebuild and is noticed keeps the invariant.
LEMMA OutsideKept ==
    ASSUME ReminderInv, SameRebuild, ~Quiet',
           plan' \in [Reminded -> PlanRow], native' \subseteq native, registry' \subseteq registry,
           passed' = passed, permission' \in BOOLEAN, unannounced' \in BOOLEAN,
           reasons' \in SUBSET Whys, IsFiniteSet(strays'),
           \A n \in native' : n.id \in strays \/ n \in registry \ registry' => n.id \in strays',
           \A r \in registry' : r.id \in strays => r.id \in strays',
           \A r : Forced(r) => Forced(r)',
           native' = native \/ \A r : Forced(r)'
    PROVE  ReminderInv'
<1>1. ReminderTypes'
  BY DEF ReminderInv, ReminderTypes, SameRebuild
<1>2. FiniteLists'
  <2>1. IsFiniteSet(native') /\ IsFiniteSet(registry')
    BY FS_Subset DEF ReminderInv, FiniteLists
  <2>2. IsFiniteSet(rebuild'.rows)
    BY DEF ReminderInv, FiniteLists, SameRebuild
  <2> QED BY <2>1, <2>2 DEF FiniteLists
<1>3. CarriedOK'
  BY DEF ReminderInv, CarriedOK, SameRebuild
<1>4. OneId'
  <2>1. Listed' \subseteq Listed
    BY DEF Listed, SameRebuild
  <2> QED BY <2>1 DEF ReminderInv, OneId
<1>5. Known'
  BY DEF ReminderInv, Known, SameRebuild
<1>6. Backed'
  BY DEF ReminderInv, Backed, SameRebuild
<1> QED BY <1>1, <1>2, <1>3, <1>4, <1>5, <1>6, NoisyKept DEF ReminderInv

\* What is being forced goes on being forced.
LEMMA ForcedKept ==
    ASSUME SameRebuild, reasons \subseteq reasons',
           appState' = appState, login' = login \/ login' # "in", permission' = permission
    PROVE  \A r : Forced(r) => Forced(r)'
BY DEF Forced, SameRebuild

\* A mission is planned for the future or not at all.
LEMMA PlansAre == ReminderTypes => Plans \subseteq PlanRow
<1> SUFFICES ASSUME ReminderTypes, NEW p \in Plans PROVE p \in PlanRow
  OBVIOUS
<1>1. PICK t \in Nat : t = passed
  BY DEF ReminderTypes
<1>2. \A i \in (t + 1)..MaxSlots : i \in Nat
  BY ReminderAssumption
<1>3. Plans = [row : {"cached"}, slot : {0} \cup (t + 1)..MaxSlots, title : {1, 2}]
  BY <1>1 DEF Plans
<1>4. PICK S : S = {0} \cup (t + 1)..MaxSlots
  OBVIOUS
<1>5. S \subseteq Nat
  BY <1>2, <1>4
<1>6. p \in [row : {"cached"}, slot : S, title : {1, 2}]
  BY <1>3, <1>4
<1>7. {1, 2} \subseteq Nat /\ {"cached"} \subseteq {"none", "cached", "tombstone"}
  OBVIOUS
<1>8. PICK T : T = {1, 2}
  OBVIOUS
<1>9. PICK R : R = {"cached"}
  OBVIOUS
<1>10. p \in [row : R, slot : S, title : T]
  BY <1>6, <1>8, <1>9
<1> QED BY <1>5, <1>7, <1>8, <1>9, <1>10 DEF PlanRow

LEMMA LocalMutationKept ==
    ASSUME ReminderInv, NEW m \in Reminded, LocalMutation(m) PROVE ReminderInv'
<1>1. SameRebuild /\ reasons' = reasons \cup {"mission-change"} /\ reasons' \in SUBSET Whys
  BY Requested DEF ReminderInv, LocalMutation, Whys
<1>2. ~Quiet'
  BY <1>1 DEF Quiet
<1>3. plan' \in [Reminded -> PlanRow]
  <2>1. PICK p \in Plans : plan' = [plan EXCEPT ![m] = p]
    BY DEF LocalMutation
  <2>2. p \in PlanRow
    BY <2>1, PlansAre DEF ReminderInv
  <2> QED BY <2>1, <2>2 DEF ReminderInv, ReminderTypes
<1>4. /\ native' = native /\ registry' = registry /\ passed' = passed /\ permission' = permission
      /\ unannounced' = unannounced /\ strays' = strays /\ appState' = appState /\ login' = login
  BY DEF LocalMutation
<1>5. \A r : Forced(r) => Forced(r)'
  BY <1>1, <1>4, ForcedKept
<1>6. permission' \in BOOLEAN /\ unannounced' \in BOOLEAN /\ IsFiniteSet(strays')
  BY <1>4 DEF ReminderInv, ReminderTypes, FiniteLists
<1> QED BY <1>1, <1>2, <1>3, <1>4, <1>5, <1>6, OutsideKept

LEMMA PullMissionKept ==
    ASSUME ReminderInv, NEW m \in Reminded, PullMission(m) PROVE ReminderInv'
<1>1. SameRebuild /\ reasons' = reasons /\ reasons' \in SUBSET Whys
  BY UnchangedRebuild DEF ReminderInv, PullMission, ReminderTypes
<1>2. ~Quiet'
  BY DEF Quiet, PullMission
<1>3. plan' \in [Reminded -> PlanRow] /\ registry' \subseteq registry
  <2>1. CASE /\ \E p \in Plans : p # plan[m] /\ plan' = [plan EXCEPT ![m] = p]
             /\ UNCHANGED registry
    <3>1. PICK p \in Plans : plan' = [plan EXCEPT ![m] = p]
      BY <2>1
    <3>2. p \in PlanRow
      BY <3>1, PlansAre DEF ReminderInv
    <3> QED BY <2>1, <3>1, <3>2 DEF ReminderInv, ReminderTypes
  <2>2. CASE /\ plan' = [plan EXCEPT ![m] = [Unplanned EXCEPT !.row = "tombstone"]]
             /\ registry' = {r \in registry : First(r.missions) # m}
    <3>1. PICK p : p = [Unplanned EXCEPT !.row = "tombstone"]
      OBVIOUS
    <3>2. p \in PlanRow
      BY <3>1 DEF Unplanned, PlanRow
    <3> QED BY <2>2, <3>1, <3>2 DEF ReminderInv, ReminderTypes
  <2> QED BY <2>1, <2>2 DEF PullMission
<1>4. /\ native' = native /\ passed' = passed /\ permission' = permission
      /\ unannounced' = TRUE /\ appState' = appState /\ login' = login
      /\ strays' = strays \cup (Identifiers(registry \ registry') \cap Identifiers(native))
  BY DEF PullMission
<1>5. \A r : Forced(r) => Forced(r)'
  BY <1>1, <1>4, ForcedKept
<1>6. permission' \in BOOLEAN /\ unannounced' \in BOOLEAN
  BY <1>4 DEF ReminderInv, ReminderTypes
<1>7. IsFiniteSet(strays')
  <2>1. IsFiniteSet(Identifiers(native))
    BY IdentifiersAreFinite DEF ReminderInv, FiniteLists
  <2>2. IsFiniteSet(Identifiers(registry \ registry') \cap Identifiers(native))
    BY <2>1, FS_Subset
  <2> QED BY <1>4, <2>2, FS_Union DEF ReminderInv, FiniteLists
<1>8. \A n \in native' : n.id \in strays \/ n \in registry \ registry' => n.id \in strays'
  BY <1>4 DEF Identifiers
<1>9. \A r \in registry' : r.id \in strays => r.id \in strays'
  BY <1>4
<1> QED BY <1>1, <1>2, <1>3, <1>4, <1>5, <1>6, <1>7, <1>8, <1>9, OutsideKept

LEMMA AfterSynchronizationKept == ReminderInv /\ AfterSynchronization => ReminderInv'
<1> SUFFICES ASSUME ReminderInv, AfterSynchronization PROVE ReminderInv'
  OBVIOUS
<1>1. PICK why \in SUBSET Whys : why # {} /\ Request(why)
  BY DEF AfterSynchronization, Whys
<1>2. SameRebuild /\ reasons' = reasons \cup why /\ reasons' \in SUBSET Whys
  BY <1>1, Requested DEF ReminderInv
<1>3. ~Quiet'
  BY <1>1, <1>2 DEF Quiet
<1>4. /\ native' = native /\ registry' = registry /\ passed' = passed /\ permission' = permission
      /\ unannounced' = FALSE /\ strays' = strays /\ appState' = appState /\ login' = login
      /\ plan' = plan
  BY DEF AfterSynchronization
<1>5. \A r : Forced(r) => Forced(r)'
  BY <1>2, <1>4, ForcedKept
<1>6. permission' \in BOOLEAN /\ unannounced' \in BOOLEAN /\ IsFiniteSet(strays')
      /\ plan' \in [Reminded -> PlanRow]
  BY <1>4 DEF ReminderInv, ReminderTypes, FiniteLists
<1> QED BY <1>2, <1>3, <1>4, <1>5, <1>6, OutsideKept

LEMMA OnForegroundKept == ReminderInv /\ OnForeground => ReminderInv'
<1> SUFFICES ASSUME ReminderInv, OnForeground PROVE ReminderInv'
  OBVIOUS
<1>1. SameRebuild /\ reasons \subseteq reasons' /\ reasons' \in SUBSET Whys
      /\ (permission' => "forced" \in reasons')
  <2>1. CASE permission'
    <3>1. Request({"forced"}) /\ {"forced"} \in SUBSET Whys
      BY <2>1 DEF OnForeground, Whys
    <3> QED BY <3>1, Requested DEF ReminderInv
  <2>2. CASE ~permission'
    <3>1. rebuild' = rebuild /\ reasons' = reasons
      BY <2>2 DEF OnForeground
    <3> QED BY <2>2, <3>1, UnchangedRebuild DEF ReminderInv, ReminderTypes
  <2> QED BY <2>1, <2>2
<1>2. ~Quiet'
  BY <1>1 DEF Quiet
<1>3. \A r : Forced(r)'
  BY <1>1 DEF Forced
<1>4. /\ native' = native /\ registry' = registry /\ passed' = passed /\ permission' = ~permission
      /\ unannounced' = unannounced /\ strays' = strays /\ plan' = plan
  BY DEF OnForeground
<1>5. permission' \in BOOLEAN /\ unannounced' \in BOOLEAN /\ IsFiniteSet(strays')
      /\ plan' \in [Reminded -> PlanRow]
  BY <1>4 DEF ReminderInv, ReminderTypes, FiniteLists
<1> QED BY <1>1, <1>2, <1>3, <1>4, <1>5, OutsideKept

LEMMA AppStartsKept == ReminderInv /\ (AppStarts \/ SignedInAgain) => ReminderInv'
<1> SUFFICES ASSUME ReminderInv, AppStarts \/ SignedInAgain PROVE ReminderInv'
  OBVIOUS
<1>1. SameRebuild /\ reasons' \in SUBSET Whys
      /\ ("forced" \in reasons' \/ appState' # "front") /\ permission' \in BOOLEAN
  <2>1. CASE BridgeStarts
    <3>1. Request({"sign-in", "forced"}) /\ {"sign-in", "forced"} \in SUBSET Whys
          /\ permission' \in BOOLEAN
      BY <2>1 DEF BridgeStarts, Whys
    <3> QED BY <3>1, Requested DEF ReminderInv
  <2>2. CASE ~BridgeStarts
    <3>1. rebuild' = rebuild /\ reasons' = reasons /\ appState' = "gate" /\ permission' = permission
      BY <2>2 DEF AppStarts, SignedInAgain
    <3> QED BY <3>1, UnchangedRebuild DEF ReminderInv, ReminderTypes
  <2> QED BY <2>1, <2>2
<1>2. ~Quiet'
  BY <1>1 DEF Quiet
<1>3. \A r : Forced(r)'
  BY <1>1 DEF Forced
<1>4. /\ native' = native /\ registry' = registry /\ passed' = passed
      /\ strays' = strays /\ plan' = plan
      /\ unannounced' = unannounced \/ unannounced' = TRUE
  BY DEF AppStarts, SignedInAgain
<1>5. unannounced' \in BOOLEAN /\ IsFiniteSet(strays') /\ plan' \in [Reminded -> PlanRow]
  BY <1>4 DEF ReminderInv, ReminderTypes, FiniteLists
<1> QED BY <1>1, <1>2, <1>3, <1>4, <1>5, OutsideKept

\* A sign-out, until the app starts anew.
LEMMA SigningOutKept ==
    ReminderInv /\ (CancelAll \/ WipeAccountData \/ WipeFails \/ SignedOutNow) => ReminderInv'
<1> SUFFICES ASSUME ReminderInv, CancelAll \/ WipeAccountData \/ WipeFails \/ SignedOutNow
             PROVE ReminderInv'
  OBVIOUS
<1>1. rebuild' = rebuild /\ reasons' = reasons /\ login' # "in" /\ passed' = passed
      /\ permission' = permission /\ (unannounced' = unannounced \/ unannounced' = FALSE)
  BY DEF CancelAll, WipeAccountData, WipeFails, SignedOutNow
<1>2. SameRebuild
  BY <1>1, UnchangedRebuild DEF ReminderInv
<1>3. ~Quiet' /\ \A r : Forced(r)'
  BY <1>1 DEF Quiet, Forced
<1>4. reasons' \in SUBSET Whys /\ permission' \in BOOLEAN /\ unannounced' \in BOOLEAN
  BY <1>1 DEF ReminderInv, ReminderTypes
<1>5. plan' \in [Reminded -> PlanRow]
  <2>1. Unplanned \in PlanRow
    BY DEF Unplanned, PlanRow
  <2>2. plan' = plan \/ plan' = [m \in Reminded |-> Unplanned]
    BY DEF CancelAll, WipeAccountData, WipeFails, SignedOutNow
  <2> QED BY <2>1, <2>2 DEF ReminderInv, ReminderTypes
<1>6. native' \subseteq native /\ registry' \subseteq registry
  BY DEF CancelAll, WipeAccountData, WipeFails, SignedOutNow
<1>7. IsFiniteSet(strays')
  <2>1. strays' \subseteq strays \cup Identifiers(native)
    BY DEF CancelAll, WipeAccountData, WipeFails, SignedOutNow
  <2>2. IsFiniteSet(strays \cup Identifiers(native))
    BY IdentifiersAreFinite, FS_Union DEF ReminderInv, FiniteLists
  <2> QED BY <2>1, <2>2, FS_Subset
<1>8. \A n \in native' : n.id \in strays \/ n \in registry \ registry' => n.id \in strays'
  BY DEF CancelAll, WipeAccountData, WipeFails, SignedOutNow, Identifiers
<1>9. \A r \in registry' : r.id \in strays => r.id \in strays'
  BY DEF CancelAll, WipeAccountData, WipeFails, SignedOutNow, Identifiers
<1> QED BY <1>1, <1>2, <1>3, <1>4, <1>5, <1>6, <1>7, <1>8, <1>9, OutsideKept

LEMMA AppStopsKept == ReminderInv /\ AppStops => ReminderInv'
<1> SUFFICES ASSUME ReminderInv, AppStops PROVE ReminderInv'
  OBVIOUS
<1>1. /\ rebuild' = NoRebuild /\ reasons' = {} /\ appState' = "dead" /\ unannounced' = FALSE
      /\ plan' = plan /\ registry' = registry /\ permission' = permission /\ passed' = passed
      /\ (native' = native \/ native' = {})
  BY DEF AppStops
<1>2. strays' = (strays \cup (IF rebuild.at = "record" THEN Identifiers(rebuild.now) ELSE {}))
                \cap Identifiers(native' \cup registry)
  BY DEF AppStops
<1>3. ~Quiet' /\ \A r : Forced(r)'
  BY <1>1 DEF Quiet, Forced
<1>4. ReminderTypes'
  <2>1. {} \in SUBSET Whys /\ FALSE \in BOOLEAN /\ native' \in SUBSET Rows
    BY <1>1 DEF ReminderInv, ReminderTypes
  <2> QED BY <1>1, <2>1, NoRebuildIs DEF ReminderInv, ReminderTypes
<1>5. FiniteLists'
  <2>1. IsFiniteSet(native') /\ IsFiniteSet(registry') /\ IsFiniteSet({})
    BY <1>1, FS_EmptySet DEF ReminderInv, FiniteLists
  <2>2. IsFiniteSet(Identifiers(native' \cup registry))
    BY <1>1, <2>1, IdentifiersAreFinite, FS_Union
  <2>3. IsFiniteSet(strays')
    BY <1>2, <2>2, FS_Subset
  <2> QED BY <1>1, <2>1, <2>3, NoRebuildIs DEF FiniteLists
<1>6. CarriedOK'
  BY <1>1, NoRebuildIs DEF CarriedOK
<1>7. OneId'
  <2>1. Listed' \subseteq Listed
    BY <1>1, NoRebuildIs DEF Listed
  <2> QED BY <2>1 DEF ReminderInv, OneId
<1>8. Known'
  <2>1. \A n \in native' : n.slot > passed'
    BY <1>1 DEF ReminderInv, Known
  <2>2. ASSUME NEW n \in native', n \notin registry' PROVE n.id \in strays'
    <3>1. n \in native /\ n \notin registry
      BY <1>1, <2>2
    <3>2. n.id \in strays \/ (rebuild.at = "record" /\ n \in rebuild.now)
      BY <3>1 DEF ReminderInv, Known
    <3>3. n.id \in Identifiers(native' \cup registry)
      BY <2>2 DEF Identifiers
    <3>4. n \in rebuild.now => n.id \in Identifiers(rebuild.now)
      BY DEF Identifiers
    <3> QED BY <1>2, <3>2, <3>3, <3>4
  <2> QED BY <1>1, <2>1, <2>2, NoRebuildIs DEF Known
<1>9. Backed'
  BY <1>3 DEF Backed
<1> QED BY <1>3, <1>4, <1>5, <1>6, <1>7, <1>8, <1>9, NoisyKept DEF ReminderInv

LEMMA TimePassesKept == ReminderInv /\ TimePasses => ReminderInv'
<1> SUFFICES ASSUME ReminderInv, TimePasses PROVE ReminderInv'
  OBVIOUS
<1>1. /\ rebuild' = rebuild /\ reasons' = reasons /\ appState' = appState /\ login' = login
      /\ unannounced' = unannounced /\ plan' = plan /\ registry' = registry
      /\ permission' = permission /\ passed' = passed + 1
      /\ native' = {n \in native : n.slot > passed'}
      /\ strays' = strays \cap Identifiers(native' \cup registry)
  BY DEF TimePasses
<1>2. PICK t \in Nat : t = passed /\ passed' = t + 1
  BY <1>1 DEF ReminderInv, ReminderTypes
<1>3. ReminderTypes'
  BY <1>1, <1>2 DEF ReminderInv, ReminderTypes
<1>4. FiniteLists'
  <2>1. native' \subseteq native /\ strays' \subseteq strays
    BY <1>1
  <2>2. IsFiniteSet(native') /\ IsFiniteSet(strays')
    BY <2>1, FS_Subset DEF ReminderInv, FiniteLists
  <2> QED BY <1>1, <2>2 DEF ReminderInv, FiniteLists
<1>5. CarriedOK'
  BY <1>1 DEF ReminderInv, CarriedOK
<1>6. OneId'
  <2>1. Listed' \subseteq Listed
    BY <1>1 DEF Listed
  <2> QED BY <2>1 DEF ReminderInv, OneId
<1>7. Known'
  <2>1. ASSUME NEW n \in native' PROVE n.id \in strays => n.id \in strays'
    BY <1>1, <2>1 DEF Identifiers
  <2> QED BY <1>1, <2>1 DEF ReminderInv, Known
<1>8. Backed'
  <2>1. ASSUME NEW r \in Rows PROVE r.slot \in Nat
    BY DEF Rows
  <2>2. ASSUME NEW r \in registry,
               ~(r.id \in strays' \/ r.slot <= passed' \/ r \in native'
                 \/ (rebuild'.at = "delete" /\ r \in rebuild'.now))
        PROVE  Forced(r)'
    <3>1. r.slot \in Nat
      BY <2>1 DEF ReminderInv, ReminderTypes
    <3>2. r.id \in Identifiers(native' \cup registry)
      BY DEF Identifiers
    <3>3. r.slot > passed' /\ r.slot > t
      BY <1>2, <2>2, <3>1
    <3>4. r \notin native /\ ~(r.slot <= passed) /\ r.id \notin strays
      BY <1>1, <1>2, <2>2, <3>1, <3>2, <3>3
    <3>5. Forced(r)
      BY <1>1, <2>2, <3>4 DEF ReminderInv, Backed
    <3> QED BY <1>1, <3>5 DEF Forced
  <2>3. ASSUME rebuild.at = "record", NEW n \in rebuild.now, ~(n.slot <= passed' \/ n \in native')
        PROVE  Forced(n)'
    <3>1. n.slot \in Nat
      BY <2>1 DEF ReminderInv, ReminderTypes, Rebuilds
    <3>2. n.slot > passed' /\ ~(n.slot <= passed)
      BY <1>2, <2>3, <3>1
    <3>3. n \notin native
      BY <1>1, <2>3, <3>2
    <3>4. Forced(n)
      BY <2>3, <3>2, <3>3 DEF ReminderInv, Backed
    <3> QED BY <1>1, <3>4 DEF Forced
  <2> QED BY <1>1, <2>2, <2>3 DEF Backed
<1>9. \A w : w \in Wanted' <=> w \in Wanted /\ w.slot > passed'
  BY <1>1, WantedLater DEF ReminderInv
<1>10. Quiet' = Quiet
  BY <1>1 DEF Quiet
<1>11. StillWanted'
  <2> SUFFICES ASSUME Quiet, rebuild.at \in {"rows", "sweep", "delete", "record"}, NEW w
               PROVE  w \in Wanted' <=> w \in rebuild.wanted /\ w.slot > passed'
    BY <1>1, <1>10 DEF StillWanted
  <2>1. w \in Wanted <=> w \in rebuild.wanted /\ w.slot > t
    BY <1>2 DEF ReminderInv, StillWanted
  <2>2. w \in rebuild.wanted => w.slot \in Nat
    BY DEF ReminderInv, ReminderTypes, Rebuilds, Bodies
  <2> QED BY <1>2, <1>9, <2>1, <2>2
<1>12. SweptIsKept'
  BY <1>1, <1>10 DEF ReminderInv, SweptIsKept
<1>13. RowsAreWanted'
  <2> SUFFICES ASSUME Quiet, rebuild.at \in {"none", "take", "ending"}
               PROVE  /\ \A r \in registry : r.slot > passed' => Body(r) \in Wanted'
                      /\ \A w \in Wanted' : \E r \in registry : r.slot > passed' /\ Body(r) = w
                      /\ \A a, b \in registry : Body(a) = Body(b) => a = b
    BY <1>1, <1>10 DEF RowsAreWanted
  <2>1. /\ \A r \in registry : r.slot > t => Body(r) \in Wanted
        /\ \A w \in Wanted : \E r \in registry : r.slot > t /\ Body(r) = w
        /\ \A a, b \in registry : Body(a) = Body(b) => a = b
    BY <1>2 DEF ReminderInv, RowsAreWanted
  <2>2. \A r \in registry : r.slot \in Nat /\ Body(r).slot = r.slot
    BY BodyIs DEF ReminderInv, ReminderTypes, Rows
  <2>3. ASSUME NEW r \in registry, r.slot > passed' PROVE Body(r) \in Wanted'
    <3>1. r.slot > t
      BY <1>2, <2>2, <2>3
    <3> QED BY <1>9, <2>1, <2>2, <2>3, <3>1
  <2>4. ASSUME NEW w \in Wanted' PROVE \E r \in registry : r.slot > passed' /\ Body(r) = w
    BY <1>9, <2>1, <2>2, <2>4
  <2> QED BY <2>1, <2>3, <2>4
<1> QED BY <1>3, <1>4, <1>5, <1>6, <1>7, <1>8, <1>11, <1>12, <1>13 DEF ReminderInv

\* A rebuild that fails leaves its reasons, and what it was at a stray or as it
\* was before.
LEMMA FailureKept ==
    ASSUME ReminderInv, rebuild.at \notin {"none", "take", "ending"}, RebuildFails,
           plan' = plan, registry' = registry, permission' = permission, appState' = appState,
           login' = login, passed' = passed, unannounced' = unannounced,
           \/ native' = native /\ strays' = strays /\ rebuild.at \notin {"delete", "record"}
           \/ rebuild.at = "delete" /\ strays' = strays \cup Identifiers(rebuild.now) /\ native' = native
           \/ rebuild.at = "record" /\ native' = native \ rebuild.now /\ strays' = strays
           \/ /\ rebuild.at = "record" /\ native' = native
              /\ strays' = strays \cup Identifiers(rebuild.now \cap native)
    PROVE  ReminderInv'
<1>1. /\ rebuild' \in Rebuilds /\ rebuild'.at = "ending"
      /\ rebuild'.rows = {} /\ rebuild'.kept = {} /\ rebuild'.now = {}
      /\ reasons' = reasons \cup rebuild.why /\ reasons' \in SUBSET Whys
  BY Failed DEF ReminderInv
<1>2. ~Quiet'
  BY <1>1 DEF Quiet, ReminderInv, CarriedOK
<1>3. ReminderTypes'
  BY <1>1 DEF ReminderInv, ReminderTypes
<1>4. FiniteLists'
  <2>1. native' \subseteq native /\ IsFiniteSet({})
    BY FS_EmptySet
  <2>2. IsFiniteSet(rebuild.now)
    <3>1. rebuild.now = {} \/ \E n : rebuild.now = {n}
      BY DEF ReminderInv, CarriedOK, ReminderTypes, Rebuilds, Stages
    <3> QED BY <2>1, <3>1, FS_Singleton
  <2>3. IsFiniteSet(Identifiers(rebuild.now)) /\ IsFiniteSet(Identifiers(rebuild.now \cap native))
    BY <2>2, FS_Subset, IdentifiersAreFinite
  <2>4. IsFiniteSet(native') /\ IsFiniteSet(strays')
    BY <2>1, <2>3, FS_Subset, FS_Union DEF ReminderInv, FiniteLists
  <2> QED BY <1>1, <2>1, <2>4 DEF ReminderInv, FiniteLists
<1>5. CarriedOK'
  BY <1>1 DEF CarriedOK
<1>6. OneId'
  <2>1. Listed' \subseteq Listed
    BY <1>1 DEF Listed
  <2> QED BY <2>1 DEF ReminderInv, OneId
<1>7. Known'
  BY <1>1 DEF ReminderInv, Known, Identifiers
<1>8. Backed'
  <2> SUFFICES ASSUME NEW r \in registry, r.id \notin strays', ~(r.slot <= passed), r \notin native'
               PROVE  Forced(r)'
    BY <1>1 DEF Backed
  <2>1. r.id \notin strays /\ ~(rebuild.at = "delete" /\ r \in rebuild.now)
    BY DEF Identifiers
  <2>2. r \notin native
    BY DEF ReminderInv, CarriedOK
  <2>3. Forced(r)
    BY <2>1, <2>2 DEF ReminderInv, Backed
  <2> QED BY <1>1, <2>3 DEF Forced
<1> QED BY <1>2, <1>3, <1>4, <1>5, <1>6, <1>7, <1>8, NoisyKept DEF ReminderInv

LEMMA StepFailsKept == ReminderInv /\ StepFails => ReminderInv'
<1> SUFFICES ASSUME ReminderInv, StepFails PROVE ReminderInv'
  OBVIOUS
<1> QED BY FailureKept DEF StepFails

LEMMA TakeReasonsKept == ReminderInv /\ TakeReasons => ReminderInv'
<1> SUFFICES ASSUME ReminderInv, TakeReasons PROVE ReminderInv'
  OBVIOUS
<1>1. /\ native' = native /\ registry' = registry /\ strays' = strays /\ passed' = passed
      /\ plan' = plan /\ permission' = permission /\ unannounced' = unannounced
      /\ appState' = appState /\ login' = login /\ reasons' = {}
  BY DEF TakeReasons
<1>2. rebuild.at = "take" /\ rebuild.rows = {} /\ rebuild.kept = {} /\ rebuild.now = {}
  BY DEF TakeReasons, ReminderInv, CarriedOK
<1>3. /\ rebuild' \in Rebuilds /\ rebuild'.why = reasons /\ rebuild'.rows = {}
      /\ rebuild'.kept = {} /\ rebuild'.now = {}
      /\ rebuild'.at = IF reasons = {} THEN "ending" ELSE "load"
  BY <1>2 DEF TakeReasons, ReminderInv, ReminderTypes, Rebuilds, Stages
<1>4. ReminderTypes'
  BY <1>1, <1>3 DEF ReminderInv, ReminderTypes
<1>5. FiniteLists'
  BY <1>1, <1>3, FS_EmptySet DEF ReminderInv, FiniteLists
<1>6. CarriedOK'
  BY <1>3 DEF CarriedOK
<1>7. OneId'
  <2>1. Listed' \subseteq Listed
    BY <1>1, <1>3 DEF Listed
  <2> QED BY <2>1 DEF ReminderInv, OneId
<1>8. Known'
  BY <1>1, <1>2, <1>3 DEF ReminderInv, Known
<1>9. Backed'
  <2>1. \A r : Forced(r) => Forced(r)'
    BY <1>1, <1>2, <1>3 DEF Forced
  <2> QED BY <1>1, <1>2, <1>3, <2>1 DEF ReminderInv, Backed
<1>10. StillWanted' /\ SweptIsKept'
  BY <1>3 DEF StillWanted, SweptIsKept
<1>11. RowsAreWanted'
  <2> SUFFICES ASSUME Quiet', rebuild'.at = "ending" PROVE RowsAreWanted'
    BY <1>3 DEF RowsAreWanted
  <2>1. Quiet
    BY <1>1, <1>3 DEF Quiet
  <2>2. Wanted' = Wanted
    BY <1>1 DEF Wanted, Together, Due, Cached
  <2> QED BY <1>1, <1>2, <2>1, <2>2 DEF ReminderInv, RowsAreWanted
<1> QED BY <1>4, <1>5, <1>6, <1>7, <1>8, <1>9, <1>10, <1>11 DEF ReminderInv

\* What a rebuild that ended, or had nothing to do, leaves.
LEMMA EndingKept ==
    ASSUME ReminderInv, rebuild' \in Rebuilds, rebuild'.at \in {"none", "take"},
           rebuild'.rows = {}, rebuild'.kept = {}, rebuild'.now = {},
           rebuild.at # "delete", rebuild.at # "record", rebuild.rows = {},
           "forced" \in rebuild.why /\ rebuild.at \in {"load", "rows"} =>
              ~permission \/ login # "in",
           native' = native, registry' = registry, strays' = strays, passed' = passed,
           plan' = plan, permission' = permission, unannounced' = unannounced,
           appState' = appState, login' = login, reasons' = reasons, Quiet => RowsAreWanted'
    PROVE  ReminderInv'
<1>1. ReminderTypes'
  BY DEF ReminderInv, ReminderTypes
<1>2. FiniteLists'
  BY FS_EmptySet DEF ReminderInv, FiniteLists
<1>3. CarriedOK'
  BY DEF CarriedOK
<1>4. OneId'
  <2>1. Listed' \subseteq Listed
    BY DEF Listed
  <2> QED BY <2>1 DEF ReminderInv, OneId
<1>5. Known'
  BY DEF ReminderInv, Known
<1>6. Backed'
  <2>1. \A r : Forced(r) => Forced(r)'
    BY DEF Forced
  <2> QED BY <2>1 DEF ReminderInv, Backed
<1>7. StillWanted' /\ SweptIsKept'
  BY DEF StillWanted, SweptIsKept
<1>8. RowsAreWanted'
  <2>1. Quiet' = Quiet
    BY DEF Quiet
  <2> QED BY <2>1 DEF RowsAreWanted
<1> QED BY <1>1, <1>2, <1>3, <1>4, <1>5, <1>6, <1>7, <1>8 DEF ReminderInv

LEMMA EndDrainKept == ReminderInv /\ EndDrain => ReminderInv'
<1> SUFFICES ASSUME ReminderInv, EndDrain PROVE ReminderInv'
  OBVIOUS
<1>1. /\ native' = native /\ registry' = registry /\ strays' = strays /\ passed' = passed
      /\ plan' = plan /\ permission' = permission /\ unannounced' = unannounced
      /\ appState' = appState /\ login' = login /\ reasons' = reasons
      /\ rebuild.at = "ending" /\ rebuild' = NoRebuild
  BY DEF EndDrain
<1>2. rebuild.rows = {}
  BY <1>1 DEF ReminderInv, CarriedOK
<1>3. RowsAreWanted'
  <2>1. Quiet' = Quiet /\ Wanted' = Wanted
    BY <1>1 DEF Quiet, Wanted, Together, Due, Cached
  <2> QED BY <1>1, <2>1 DEF ReminderInv, RowsAreWanted
<1> QED BY <1>1, <1>2, <1>3, NoRebuildIs, EndingKept

LEMMA LoadDesiredKept == ReminderInv /\ LoadDesired => ReminderInv'
<1> SUFFICES ASSUME ReminderInv, LoadDesired PROVE ReminderInv'
  OBVIOUS
<1>1. /\ native' = native /\ registry' = registry /\ strays' = strays /\ passed' = passed
      /\ plan' = plan /\ permission' = permission /\ unannounced' = unannounced
      /\ appState' = appState /\ login' = login /\ reasons' = reasons
      /\ rebuild.at = "load"
  BY DEF LoadDesired
<1>2. rebuild.rows = {} /\ rebuild.kept = {} /\ rebuild.now = {} /\ rebuild.why # {}
  BY <1>1 DEF ReminderInv, CarriedOK
<1>3. CASE ~(permission /\ login # "out")
  <2>1. rebuild' = [NoRebuild EXCEPT !.at = "take"]
    BY <1>3 DEF LoadDesired
  <2>2. rebuild' \in Rebuilds /\ rebuild'.at \in {"none", "take"}
        /\ rebuild'.rows = {} /\ rebuild'.kept = {} /\ rebuild'.now = {}
    BY <2>1, NoRebuildIs
  <2>3. ~Quiet /\ (~permission \/ login # "in")
    BY <1>3 DEF Quiet
  <2> QED BY <1>1, <1>2, <2>2, <2>3, EndingKept
<1>4. CASE permission /\ login # "out"
  <2>1. rebuild' = [rebuild EXCEPT !.at = "rows", !.wanted = Wanted]
    BY <1>4 DEF LoadDesired
  <2>2. Wanted \subseteq Bodies /\ \A w \in Wanted : w.slot > passed
    BY WantedIs DEF ReminderInv
  <2>3. /\ rebuild' \in Rebuilds /\ rebuild'.at = "rows" /\ rebuild'.wanted = Wanted
        /\ rebuild'.rows = {} /\ rebuild'.kept = {} /\ rebuild'.now = {}
        /\ rebuild'.why = rebuild.why
    <3>1. PICK ws : ws = Wanted
      OBVIOUS
    <3>2. ws \in SUBSET Bodies /\ rebuild' = [rebuild EXCEPT !.at = "rows", !.wanted = ws]
      BY <2>1, <2>2, <3>1
    <3> QED BY <1>2, <3>1, <3>2 DEF ReminderInv, ReminderTypes, Rebuilds, Stages
  <2>4. ReminderTypes'
    BY <1>1, <2>3 DEF ReminderInv, ReminderTypes
  <2>5. FiniteLists'
    BY <1>1, <2>3, FS_EmptySet DEF ReminderInv, FiniteLists
  <2>6. CarriedOK'
    BY <1>2, <2>3 DEF CarriedOK
  <2>7. OneId'
    <3>1. Listed' \subseteq Listed
      BY <1>1, <2>3 DEF Listed
    <3> QED BY <3>1 DEF ReminderInv, OneId
  <2>8. Known'
    BY <1>1, <2>3 DEF ReminderInv, Known
  <2>9. Backed'
    <3>1. \A r : Forced(r) => Forced(r)'
      BY <1>1, <2>3, <1>2 DEF Forced
    <3> QED BY <1>1, <2>3, <3>1 DEF ReminderInv, Backed
  <2>10. StillWanted'
    <3>1. Wanted' = Wanted
      BY <1>1 DEF Wanted, Together, Due, Cached
    <3> QED BY <1>1, <2>2, <2>3, <3>1 DEF StillWanted
  <2>11. SweptIsKept' /\ RowsAreWanted'
    BY <2>3 DEF SweptIsKept, RowsAreWanted
  <2> QED BY <2>4, <2>5, <2>6, <2>7, <2>8, <2>9, <2>10, <2>11 DEF ReminderInv
<1> QED BY <1>3, <1>4

LEMMA ReadRegistryKept == ReminderInv /\ ReadRegistry => ReminderInv'
<1> SUFFICES ASSUME ReminderInv, ReadRegistry PROVE ReminderInv'
  OBVIOUS
<1>1. /\ native' = native /\ registry' = registry /\ strays' = strays /\ passed' = passed
      /\ plan' = plan /\ permission' = permission /\ unannounced' = unannounced
      /\ appState' = appState /\ login' = login /\ reasons' = reasons
      /\ rebuild.at = "rows"
  BY DEF ReadRegistry
<1>2. rebuild.rows = {} /\ rebuild.kept = {} /\ rebuild.now = {} /\ rebuild.why # {}
  BY <1>1 DEF ReminderInv, CarriedOK
<1>3. /\ rebuild' \in Rebuilds /\ rebuild'.at = "sweep" /\ rebuild'.wanted = rebuild.wanted
      /\ rebuild'.rows = registry /\ rebuild'.kept = {} /\ rebuild'.now = {}
      /\ rebuild'.why = rebuild.why
  <2>1. rebuild' = [rebuild EXCEPT !.at = "sweep", !.rows = registry]
    BY DEF ReadRegistry
  <2> QED BY <1>2, <2>1 DEF ReminderInv, ReminderTypes, Rebuilds, Stages
<1>4. ReminderTypes'
  BY <1>1, <1>3 DEF ReminderInv, ReminderTypes
<1>5. FiniteLists'
  BY <1>1, <1>3 DEF ReminderInv, FiniteLists
<1>6. CarriedOK'
  BY <1>2, <1>3 DEF CarriedOK
<1>7. OneId'
  <2>1. Listed' \subseteq Listed
    BY <1>1, <1>3 DEF Listed
  <2> QED BY <2>1 DEF ReminderInv, OneId
<1>8. Known'
  BY <1>1, <1>3 DEF ReminderInv, Known
<1>9. Backed'
  <2>1. \A r \in registry : Forced(r) => Forced(r)'
    BY <1>1, <1>2, <1>3 DEF Forced
  <2> QED BY <1>1, <1>3, <2>1 DEF ReminderInv, Backed
<1>10. Quiet' = Quiet /\ Wanted' = Wanted
  BY <1>1 DEF Quiet, Wanted, Together, Due, Cached
<1>11. StillWanted'
  BY <1>1, <1>3, <1>10 DEF ReminderInv, StillWanted
<1>12. SweptIsKept' /\ RowsAreWanted'
  BY <1>1, <1>3 DEF SweptIsKept, RowsAreWanted
<1> QED BY <1>4, <1>5, <1>6, <1>7, <1>8, <1>9, <1>11, <1>12 DEF ReminderInv

LEMMA RetainRowKept ==
    ASSUME ReminderInv, SweepRow, NEW r \in rebuild.rows, RetainRow(r) PROVE ReminderInv'
<1>1. /\ native' = native /\ registry' = registry /\ strays' = strays /\ passed' = passed
      /\ plan' = plan /\ permission' = permission /\ unannounced' = unannounced
      /\ appState' = appState /\ login' = login /\ reasons' = reasons
      /\ rebuild.at = "sweep"
  BY DEF SweepRow, RetainRow
<1>2. rebuild.now = {} /\ rebuild.why # {}
  BY <1>1 DEF ReminderInv, CarriedOK
<1>3. PICK b \in Bodies : b = Body(r)
  BY BodyIs DEF ReminderInv, ReminderTypes, Rebuilds
<1>4. /\ rebuild' \in Rebuilds /\ rebuild'.at = "sweep" /\ rebuild'.wanted = rebuild.wanted
      /\ rebuild'.rows = rebuild.rows \ {r} /\ rebuild'.kept = rebuild.kept \cup {b}
      /\ rebuild'.now = {} /\ rebuild'.why = rebuild.why
  <2>1. rebuild' = [rebuild EXCEPT !.rows = @ \ {r}, !.kept = @ \cup {b}]
    BY <1>3 DEF RetainRow
  <2>2. rebuild.rows \ {r} \in SUBSET Rows /\ rebuild.kept \cup {b} \in SUBSET Bodies
    BY <1>3 DEF ReminderInv, ReminderTypes, Rebuilds
  <2> QED BY <1>1, <1>2, <2>1, <2>2 DEF ReminderInv, ReminderTypes, Rebuilds
<1>5. "forced" \notin rebuild.why /\ b \in rebuild.wanted /\ b \notin rebuild.kept
  BY <1>3 DEF RetainRow, ShouldRetain
<1>6. ReminderTypes'
  BY <1>1, <1>4 DEF ReminderInv, ReminderTypes
<1>7. FiniteLists'
  BY <1>1, <1>4, FS_Subset DEF ReminderInv, FiniteLists
<1>8. CarriedOK'
  BY <1>2, <1>4 DEF CarriedOK
<1>9. OneId'
  <2>1. Listed' \subseteq Listed
    BY <1>1, <1>4 DEF Listed
  <2> QED BY <2>1 DEF ReminderInv, OneId
<1>10. Known'
  BY <1>1, <1>4 DEF ReminderInv, Known
<1>11. Backed'
  <2>1. \A x : Forced(x) => Forced(x)'
    BY <1>1, <1>4, <1>5 DEF Forced
  <2> QED BY <1>1, <1>4, <2>1 DEF ReminderInv, Backed
<1>12. Quiet' = Quiet /\ Wanted' = Wanted
  BY <1>1 DEF Quiet, Wanted, Together, Due, Cached
<1>13. StillWanted'
  BY <1>1, <1>4, <1>12 DEF ReminderInv, StillWanted
<1>14. SweptIsKept'
  <2> SUFFICES ASSUME Quiet PROVE SweptIsKept'
    BY <1>12 DEF SweptIsKept
  <2>1. /\ rebuild.rows \subseteq registry /\ rebuild.kept \subseteq rebuild.wanted
        /\ \A x \in registry \ rebuild.rows : Body(x) \in rebuild.kept
        /\ \A c \in rebuild.kept : \E x \in registry \ rebuild.rows : Body(x) = c
        /\ \A x, y \in registry \ rebuild.rows : Body(x) = Body(y) => x = y
    BY <1>1 DEF ReminderInv, SweptIsKept
  <2>2. registry' \ rebuild'.rows = (registry \ rebuild.rows) \cup {r}
    BY <1>1, <1>4, <2>1
  <2>3. rebuild'.rows \subseteq registry' /\ rebuild'.kept \subseteq rebuild'.wanted
    BY <1>1, <1>4, <1>5, <2>1
  <2>4. \A x \in registry' \ rebuild'.rows : Body(x) \in rebuild'.kept
    BY <1>3, <1>4, <2>1, <2>2
  <2>5. \A c \in rebuild'.kept : \E x \in registry' \ rebuild'.rows : Body(x) = c
    BY <1>3, <1>4, <2>1, <2>2
  <2>6. \A x, y \in registry' \ rebuild'.rows : Body(x) = Body(y) => x = y
    BY <1>3, <1>5, <2>1, <2>2
  <2> QED BY <1>4, <2>3, <2>4, <2>5, <2>6 DEF SweptIsKept
<1>15. RowsAreWanted'
  BY <1>4 DEF RowsAreWanted
<1> QED BY <1>6, <1>7, <1>8, <1>9, <1>10, <1>11, <1>13, <1>14, <1>15 DEF ReminderInv

LEMMA CancelReminderKept ==
    ASSUME ReminderInv, SweepRow, NEW r \in rebuild.rows, CancelReminder(r) PROVE ReminderInv'
<1>1. /\ registry' = registry /\ strays' = strays /\ passed' = passed
      /\ plan' = plan /\ permission' = permission /\ unannounced' = unannounced
      /\ appState' = appState /\ login' = login /\ reasons' = reasons
      /\ rebuild.at = "sweep" /\ native' = {n \in native : n.id # r.id}
  BY DEF SweepRow, CancelReminder
<1>2. rebuild.now = {} /\ rebuild.why # {} /\ r \in Rows
  BY <1>1 DEF ReminderInv, CarriedOK, ReminderTypes, Rebuilds
<1>3. /\ rebuild' \in Rebuilds /\ rebuild'.at = "delete" /\ rebuild'.wanted = rebuild.wanted
      /\ rebuild'.rows = rebuild.rows /\ rebuild'.kept = rebuild.kept
      /\ rebuild'.now = {r} /\ rebuild'.why = rebuild.why
  <2>1. rebuild' = [rebuild EXCEPT !.at = "delete", !.now = {r}]
    BY DEF CancelReminder
  <2> QED BY <1>2, <2>1 DEF ReminderInv, ReminderTypes, Rebuilds, Stages
<1>4. ReminderTypes'
  BY <1>1, <1>3 DEF ReminderInv, ReminderTypes
<1>5. FiniteLists'
  <2>1. IsFiniteSet(native')
    BY <1>1, FS_Subset DEF ReminderInv, FiniteLists
  <2> QED BY <1>1, <1>3, <2>1 DEF ReminderInv, FiniteLists
<1>6. CarriedOK'
  BY <1>2, <1>3 DEF CarriedOK
<1>7. OneId'
  <2>1. Listed' \subseteq Listed
    BY <1>1, <1>3 DEF Listed
  <2> QED BY <2>1 DEF ReminderInv, OneId
<1>8. Known'
  BY <1>1, <1>3 DEF ReminderInv, Known
<1>9. Backed'
  <2>1. \A x : Forced(x) => Forced(x)'
    BY <1>1, <1>3 DEF Forced
  <2>2. \A x \in registry : x.id = r.id => x = r
    BY DEF ReminderInv, OneId, Listed
  <2>3. \A x \in registry : x \in native => x \in native' \/ x \in rebuild'.now
    BY <1>1, <1>3, <2>2
  <2> QED BY <1>1, <1>3, <2>1, <2>3 DEF ReminderInv, Backed
<1>10. Quiet' = Quiet /\ Wanted' = Wanted
  BY <1>1 DEF Quiet, Wanted, Together, Due, Cached
<1>11. StillWanted'
  BY <1>1, <1>3, <1>10 DEF ReminderInv, StillWanted
<1>12. SweptIsKept'
  BY <1>1, <1>3, <1>10 DEF ReminderInv, SweptIsKept
<1>13. RowsAreWanted'
  BY <1>3 DEF RowsAreWanted
<1> QED BY <1>4, <1>5, <1>6, <1>7, <1>8, <1>9, <1>11, <1>12, <1>13 DEF ReminderInv

LEMMA DeleteRegistryRowKept == ReminderInv /\ DeleteRegistryRow => ReminderInv'
<1> SUFFICES ASSUME ReminderInv, DeleteRegistryRow PROVE ReminderInv'
  OBVIOUS
<1>1. /\ native' = native /\ strays' = strays /\ passed' = passed
      /\ plan' = plan /\ permission' = permission /\ unannounced' = unannounced
      /\ appState' = appState /\ login' = login /\ reasons' = reasons
      /\ rebuild.at = "delete" /\ registry' = registry \ rebuild.now
  BY DEF DeleteRegistryRow
<1>2. PICK r \in rebuild.rows : rebuild.now = {r}
  BY <1>1 DEF ReminderInv, CarriedOK
<1>3. rebuild.why # {} /\ r \in Rows
  BY <1>1 DEF ReminderInv, CarriedOK, ReminderTypes, Rebuilds
<1>4. /\ rebuild' \in Rebuilds /\ rebuild'.at = "sweep" /\ rebuild'.wanted = rebuild.wanted
      /\ rebuild'.rows = rebuild.rows \ {r} /\ rebuild'.kept = rebuild.kept
      /\ rebuild'.now = {} /\ rebuild'.why = rebuild.why
  <2>1. rebuild' = [rebuild EXCEPT !.at = "sweep", !.rows = @ \ {r}, !.now = {}]
    BY <1>2 DEF DeleteRegistryRow
  <2> QED BY <1>3, <2>1 DEF ReminderInv, ReminderTypes, Rebuilds, Stages
<1>5. registry' = registry \ {r}
  BY <1>1, <1>2
<1>6. ReminderTypes'
  BY <1>1, <1>4 DEF ReminderInv, ReminderTypes
<1>7. FiniteLists'
  <2>1. IsFiniteSet(registry') /\ IsFiniteSet(rebuild'.rows)
    BY <1>4, <1>5, FS_RemoveElement DEF ReminderInv, FiniteLists
  <2> QED BY <1>1, <2>1 DEF ReminderInv, FiniteLists
<1>8. CarriedOK'
  BY <1>3, <1>4 DEF CarriedOK
<1>9. OneId'
  <2>1. Listed' \subseteq Listed
    BY <1>1, <1>4 DEF Listed
  <2> QED BY <2>1 DEF ReminderInv, OneId
<1>10. Known'
  <2>1. \A n \in native : n # r
    BY <1>1, <1>2 DEF ReminderInv, Known
  <2> QED BY <1>1, <1>4, <1>5, <2>1 DEF ReminderInv, Known
<1>11. Backed'
  <2>1. \A x : x # r /\ Forced(x) => Forced(x)'
    BY <1>1, <1>4 DEF Forced
  <2> QED BY <1>1, <1>2, <1>4, <1>5, <2>1 DEF ReminderInv, Backed
<1>12. Quiet' = Quiet /\ Wanted' = Wanted
  BY <1>1 DEF Quiet, Wanted, Together, Due, Cached
<1>13. StillWanted'
  BY <1>1, <1>4, <1>12 DEF ReminderInv, StillWanted
<1>14. SweptIsKept'
  <2> SUFFICES ASSUME Quiet PROVE SweptIsKept'
    BY <1>12 DEF SweptIsKept
  <2>1. /\ rebuild.rows \subseteq registry /\ rebuild.kept \subseteq rebuild.wanted
        /\ \A x \in registry \ rebuild.rows : Body(x) \in rebuild.kept
        /\ \A c \in rebuild.kept : \E x \in registry \ rebuild.rows : Body(x) = c
        /\ \A x, y \in registry \ rebuild.rows : Body(x) = Body(y) => x = y
    BY <1>1 DEF ReminderInv, SweptIsKept
  <2>2. registry' \ rebuild'.rows = registry \ rebuild.rows
    BY <1>4, <1>5
  <2>3. rebuild'.rows \subseteq registry'
    BY <1>4, <1>5, <2>1
  <2> QED BY <1>4, <2>1, <2>2, <2>3 DEF SweptIsKept
<1>15. RowsAreWanted'
  BY <1>4 DEF RowsAreWanted
<1> QED BY <1>6, <1>7, <1>8, <1>9, <1>10, <1>11, <1>13, <1>14, <1>15 DEF ReminderInv

LEMMA ScheduleReminderKept == ReminderInv /\ ScheduleReminder => ReminderInv'
<1> SUFFICES ASSUME ReminderInv, ScheduleReminder PROVE ReminderInv'
  OBVIOUS
<1>1. /\ registry' = registry /\ strays' = strays /\ passed' = passed
      /\ plan' = plan /\ permission' = permission /\ unannounced' = unannounced
      /\ appState' = appState /\ login' = login /\ reasons' = reasons
      /\ rebuild.at = "sweep" /\ rebuild.rows = {}
  BY DEF ScheduleReminder
<1>2. PICK w \in rebuild.wanted \ rebuild.kept :
         /\ native' = Scheduled(NewReminder(w))
         /\ rebuild' = [rebuild EXCEPT !.at = "record", !.now = {NewReminder(w)}]
  BY DEF ScheduleReminder
<1>3. w \in Bodies
  BY DEF ReminderInv, ReminderTypes, Rebuilds
<1>4. PICK n : n = NewReminder(w)
  OBVIOUS
<1>5. /\ n \in Rows /\ Body(n) = w /\ n.id \notin strays
      /\ \A r \in native \cup registry \cup rebuild.rows : r.id # n.id
  BY <1>3, <1>4, NewReminderIs DEF ReminderInv
<1>6. rebuild.now = {} /\ rebuild.why # {}
  BY <1>1 DEF ReminderInv, CarriedOK
<1>7. native' = native \cup {x \in {n} : x.slot > passed}
  BY <1>2, <1>4 DEF Scheduled
<1>8. /\ rebuild' \in Rebuilds /\ rebuild'.at = "record" /\ rebuild'.wanted = rebuild.wanted
      /\ rebuild'.rows = {} /\ rebuild'.kept = rebuild.kept
      /\ rebuild'.now = {n} /\ rebuild'.why = rebuild.why
  BY <1>1, <1>2, <1>4, <1>5 DEF ReminderInv, ReminderTypes, Rebuilds, Stages
<1>9. ReminderTypes'
  <2>1. native' \in SUBSET Rows
    BY <1>5, <1>7 DEF ReminderInv, ReminderTypes
  <2> QED BY <1>1, <1>8, <2>1 DEF ReminderInv, ReminderTypes
<1>10. FiniteLists'
  <2>1. IsFiniteSet(native \cup {n}) /\ native' \subseteq native \cup {n}
    BY <1>7, FS_AddElement DEF ReminderInv, FiniteLists
  <2>2. IsFiniteSet(native')
    BY <2>1, FS_Subset
  <2> QED BY <1>1, <1>8, <2>2 DEF ReminderInv, FiniteLists
<1>11. CarriedOK'
  <2>1. n \notin registry
    BY <1>5
  <2> QED BY <1>1, <1>5, <1>6, <1>8, <2>1 DEF CarriedOK
<1>12. OneId'
  <2>1. Listed' \subseteq Listed \cup {n} /\ \A r \in Listed : r.id # n.id
    BY <1>1, <1>5, <1>6, <1>7, <1>8 DEF Listed
  <2> QED BY <2>1 DEF ReminderInv, OneId
<1>13. Known'
  BY <1>1, <1>7, <1>8 DEF ReminderInv, Known
<1>14. Backed'
  <2>1. \A x : Forced(x) => Forced(x)'
    BY <1>1, <1>8 DEF Forced
  <2>2. n.slot <= passed \/ n \in native'
    BY <1>5, <1>7 DEF Rows, ReminderInv, ReminderTypes
  <2> QED BY <1>1, <1>7, <1>8, <2>1, <2>2 DEF ReminderInv, Backed
<1>15. Quiet' = Quiet /\ Wanted' = Wanted
  BY <1>1 DEF Quiet, Wanted, Together, Due, Cached
<1>16. StillWanted'
  BY <1>1, <1>8, <1>15 DEF ReminderInv, StillWanted
<1>17. SweptIsKept'
  BY <1>1, <1>2, <1>5, <1>8, <1>15 DEF ReminderInv, SweptIsKept
<1>18. RowsAreWanted'
  BY <1>8 DEF RowsAreWanted
<1> QED BY <1>9, <1>10, <1>11, <1>12, <1>13, <1>14, <1>16, <1>17, <1>18 DEF ReminderInv

LEMMA RecordReminderKept == ReminderInv /\ RecordReminder => ReminderInv'
<1> SUFFICES ASSUME ReminderInv, RecordReminder PROVE ReminderInv'
  OBVIOUS
<1>1. /\ passed' = passed /\ plan' = plan /\ permission' = permission
      /\ unannounced' = unannounced /\ appState' = appState /\ login' = login
      /\ strays' = strays /\ rebuild.at = "record"
  BY DEF RecordReminder
<1>2. PICK n \in Rows : rebuild.now = {n} /\ rebuild.rows = {} /\ n \notin registry
  BY <1>1 DEF ReminderInv, CarriedOK
<1>3. CASE ~Cached(First(n.missions))
  <2>1. native' = native \ rebuild.now /\ RebuildFails /\ registry' = registry
    BY <1>2, <1>3 DEF RecordReminder
  <2> QED BY <1>1, <2>1, FailureKept
<1>4. CASE Cached(First(n.missions))
  <2>1. /\ registry' = registry \cup {n} /\ native' = native /\ reasons' = reasons
        /\ rebuild' = [rebuild EXCEPT !.at = "sweep", !.kept = @ \cup {Body(n)}, !.now = {}]
    BY <1>2, <1>4 DEF RecordReminder
  <2>2. PICK b \in Bodies : b = Body(n)
    BY BodyIs
  <2>3. /\ rebuild' \in Rebuilds /\ rebuild'.at = "sweep" /\ rebuild'.wanted = rebuild.wanted
        /\ rebuild'.rows = {} /\ rebuild'.kept = rebuild.kept \cup {b}
        /\ rebuild'.now = {} /\ rebuild'.why = rebuild.why
    BY <1>2, <2>1, <2>2 DEF ReminderInv, ReminderTypes, Rebuilds, Stages
  <2>4. ReminderTypes'
    BY <1>1, <2>1, <2>3 DEF ReminderInv, ReminderTypes
  <2>5. FiniteLists'
    <3>1. IsFiniteSet(registry') /\ IsFiniteSet({})
      BY <2>1, FS_AddElement, FS_EmptySet DEF ReminderInv, FiniteLists
    <3> QED BY <1>1, <2>1, <2>3, <3>1 DEF ReminderInv, FiniteLists
  <2>6. CarriedOK'
    BY <1>1, <2>3 DEF ReminderInv, CarriedOK
  <2>7. OneId'
    <3>1. Listed' \subseteq Listed
      BY <1>2, <2>1, <2>3 DEF Listed
    <3> QED BY <3>1 DEF ReminderInv, OneId
  <2>8. Known'
    BY <1>1, <1>2, <2>1, <2>3 DEF ReminderInv, Known
  <2>9. Backed'
    <3>1. \A x : Forced(x) => Forced(x)'
      BY <1>1, <1>2, <2>1, <2>3 DEF Forced
    <3> QED BY <1>1, <1>2, <2>1, <2>3, <3>1 DEF ReminderInv, Backed
  <2>10. Quiet' = Quiet /\ Wanted' = Wanted
    BY <1>1, <2>1 DEF Quiet, Wanted, Together, Due, Cached
  <2>11. StillWanted'
    BY <1>1, <2>3, <2>10 DEF ReminderInv, StillWanted
  <2>12. SweptIsKept'
    <3> SUFFICES ASSUME Quiet PROVE SweptIsKept'
      BY <2>10 DEF SweptIsKept
    <3>1. /\ rebuild.kept \subseteq rebuild.wanted
          /\ \A x \in registry : Body(x) \in rebuild.kept
          /\ \A c \in rebuild.kept : \E x \in registry : Body(x) = c
          /\ \A x, y \in registry : Body(x) = Body(y) => x = y
          /\ b \in rebuild.wanted /\ b \notin rebuild.kept
      BY <1>1, <1>2, <2>2 DEF ReminderInv, SweptIsKept
    <3>2. registry' \ rebuild'.rows = registry \cup {n}
      BY <2>1, <2>3
    <3>3. \A x \in registry' \ rebuild'.rows : Body(x) \in rebuild'.kept
      BY <2>2, <2>3, <3>1, <3>2
    <3>4. \A c \in rebuild'.kept : \E x \in registry' \ rebuild'.rows : Body(x) = c
      BY <2>2, <2>3, <3>1, <3>2
    <3>5. \A x, y \in registry' \ rebuild'.rows : Body(x) = Body(y) => x = y
      BY <2>2, <3>1, <3>2
    <3> QED BY <2>3, <3>1, <3>3, <3>4, <3>5 DEF SweptIsKept
  <2>13. RowsAreWanted'
    BY <2>3 DEF RowsAreWanted
  <2> QED BY <2>4, <2>5, <2>6, <2>7, <2>8, <2>9, <2>11, <2>12, <2>13 DEF ReminderInv
<1> QED BY <1>3, <1>4

LEMMA EndRebuildKept == ReminderInv /\ EndRebuild => ReminderInv'
<1> SUFFICES ASSUME ReminderInv, EndRebuild PROVE ReminderInv'
  OBVIOUS
<1>1. /\ native' = native /\ registry' = registry /\ strays' = strays /\ passed' = passed
      /\ plan' = plan /\ permission' = permission /\ unannounced' = unannounced
      /\ appState' = appState /\ login' = login /\ reasons' = reasons
      /\ rebuild.at = "sweep" /\ rebuild.rows = {} /\ rebuild.wanted \subseteq rebuild.kept
      /\ rebuild' = [NoRebuild EXCEPT !.at = "take"]
  BY DEF EndRebuild, ReasonsAfter
<1>2. rebuild' \in Rebuilds /\ rebuild'.at = "take"
      /\ rebuild'.rows = {} /\ rebuild'.kept = {} /\ rebuild'.now = {}
  BY <1>1, NoRebuildIs
<1>3. Quiet => RowsAreWanted'
  <2> SUFFICES ASSUME Quiet PROVE RowsAreWanted'
    OBVIOUS
  <2>1. Wanted' = Wanted
    BY <1>1 DEF Wanted, Together, Due, Cached
  <2>2. /\ rebuild.kept = rebuild.wanted
        /\ \A x \in registry : Body(x) \in rebuild.kept
        /\ \A c \in rebuild.kept : \E x \in registry : Body(x) = c
        /\ \A x, y \in registry : Body(x) = Body(y) => x = y
    BY <1>1 DEF ReminderInv, SweptIsKept
  <2>3. \A w : w \in Wanted <=> w \in rebuild.wanted /\ w.slot > passed
    BY <1>1 DEF ReminderInv, StillWanted
  <2>4. \A r \in registry : Body(r).slot = r.slot
    BY BodyIs DEF ReminderInv, ReminderTypes
  <2>5. \A r \in registry : r.slot > passed => Body(r) \in Wanted
    BY <2>2, <2>3, <2>4
  <2>6. \A w \in Wanted : \E r \in registry : r.slot > passed /\ Body(r) = w
    BY <2>2, <2>3, <2>4
  <2> QED BY <1>1, <2>1, <2>2, <2>5, <2>6 DEF RowsAreWanted
<1> QED BY <1>1, <1>2, <1>3, EndingKept

LEMMA ReminderStarts == ReminderInit => ReminderInv
<1> SUFFICES ASSUME ReminderInit PROVE ReminderInv
  OBVIOUS
<1>1. /\ plan = [m \in Reminded |-> Unplanned] /\ native = {} /\ registry = {} /\ strays = {}
      /\ rebuild = NoRebuild /\ reasons = {} /\ permission = TRUE /\ unannounced = FALSE
      /\ passed = 0
  BY DEF ReminderInit
<1>2. Unplanned \in PlanRow
  BY DEF Unplanned, PlanRow
<1>3. ReminderTypes
  BY <1>1, <1>2, NoRebuildIs DEF ReminderTypes
<1>4. FiniteLists
  BY <1>1, FS_EmptySet, NoRebuildIs DEF FiniteLists
<1>5. CarriedOK /\ OneId /\ Known /\ Backed
  BY <1>1, NoRebuildIs DEF CarriedOK, OneId, Listed, Known, Backed
<1>6. Wanted = {}
  BY <1>1 DEF Wanted, Due, Cached, Unplanned
<1>7. StillWanted /\ SweptIsKept /\ RowsAreWanted
  BY <1>1, <1>6, NoRebuildIs DEF StillWanted, SweptIsKept, RowsAreWanted
<1> QED BY <1>3, <1>4, <1>5, <1>7 DEF ReminderInv

LEMMA ReminderInvStutters == ReminderInv /\ UNCHANGED reminderVars => ReminderInv'
<1> SUFFICES ASSUME ReminderInv, UNCHANGED reminderVars PROVE ReminderInv'
  OBVIOUS
<1>1. /\ native' = native /\ registry' = registry /\ strays' = strays /\ passed' = passed
      /\ plan' = plan /\ permission' = permission /\ unannounced' = unannounced
      /\ appState' = appState /\ login' = login /\ reasons' = reasons /\ rebuild' = rebuild
  BY DEF reminderVars
<1>2. Quiet' = Quiet /\ Wanted' = Wanted /\ Listed' = Listed
  BY <1>1 DEF Quiet, Wanted, Together, Due, Cached, Listed
<1>3. \A r : Forced(r)' = Forced(r)
  BY <1>1 DEF Forced
<1>4. ReminderTypes' /\ FiniteLists' /\ CarriedOK' /\ OneId' /\ Known'
  BY <1>1, <1>2 DEF ReminderInv, ReminderTypes, FiniteLists, CarriedOK, OneId, Known
<1>5. Backed'
  BY <1>1, <1>3 DEF ReminderInv, Backed
<1>6. StillWanted' /\ SweptIsKept' /\ RowsAreWanted'
  BY <1>1, <1>2 DEF ReminderInv, StillWanted, SweptIsKept, RowsAreWanted
<1> QED BY <1>4, <1>5, <1>6 DEF ReminderInv

\* Every step keeps it.
LEMMA ReminderInvKept == ReminderInv /\ [ReminderNext]_reminderVars => ReminderInv'
<1> SUFFICES ASSUME ReminderInv, [ReminderNext]_reminderVars PROVE ReminderInv'
  OBVIOUS
<1>1. CASE TakeReasons
  BY <1>1, TakeReasonsKept
<1>2. CASE EndDrain
  BY <1>2, EndDrainKept
<1>3. CASE LoadDesired
  BY <1>3, LoadDesiredKept
<1>4. CASE ReadRegistry
  BY <1>4, ReadRegistryKept
<1>5. CASE SweepRow
  <2>1. PICK r \in rebuild.rows : RetainRow(r) \/ CancelReminder(r)
    BY <1>5 DEF SweepRow
  <2> QED BY <1>5, <2>1, RetainRowKept, CancelReminderKept
<1>6. CASE DeleteRegistryRow
  BY <1>6, DeleteRegistryRowKept
<1>7. CASE ScheduleReminder
  BY <1>7, ScheduleReminderKept
<1>8. CASE RecordReminder
  BY <1>8, RecordReminderKept
<1>9. CASE EndRebuild
  BY <1>9, EndRebuildKept
<1>10. CASE StepFails
  BY <1>10, StepFailsKept
<1>11. CASE \E m \in Reminded : LocalMutation(m) \/ PullMission(m)
  BY <1>11, LocalMutationKept, PullMissionKept
<1>12. CASE AfterSynchronization
  BY <1>12, AfterSynchronizationKept
<1>13. CASE OnForeground
  BY <1>13, OnForegroundKept
<1>14. CASE AppStops
  BY <1>14, AppStopsKept
<1>15. CASE AppStarts \/ SignedInAgain
  BY <1>15, AppStartsKept
<1>16. CASE TimePasses
  BY <1>16, TimePassesKept
<1>17. CASE CancelAll \/ WipeAccountData \/ WipeFails \/ SignedOutNow
  BY <1>17, SigningOutKept
<1>18. CASE UNCHANGED reminderVars
  BY <1>18, ReminderInvStutters
<1> QED BY <1>1, <1>2, <1>3, <1>4, <1>5, <1>6, <1>7, <1>8, <1>9, <1>10, <1>11, <1>12, <1>13,
           <1>14, <1>15, <1>16, <1>17, <1>18 DEF ReminderNext

\* In a settled state known reminders and wanted ones are the same, one for one.
LEMMA ReminderInvMatches == ReminderInv => RemindersMatch
<1> DEFINE known == {n \in native : n.id \notin strays}
           empty == {Body(r) : r \in {x \in registry : x.id \in strays}}
           listed == Wanted \ empty
<1> SUFFICES ASSUME ReminderInv, Settled
             PROVE  {Body(n) : n \in known} = listed /\ Cardinality(known) = Cardinality(listed)
  BY DEF RemindersMatch
<1>1. Quiet /\ rebuild.at = "none" /\ rebuild.rows = {} /\ rebuild.now = {}
  BY DEF Settled, Quiet, ReminderInv, CarriedOK
<1>2. /\ \A r \in registry : r.slot > passed => Body(r) \in Wanted
      /\ \A w \in Wanted : \E r \in registry : r.slot > passed /\ Body(r) = w
      /\ \A a, b \in registry : Body(a) = Body(b) => a = b
  BY <1>1 DEF ReminderInv, RowsAreWanted
<1>3. ASSUME NEW n \in known PROVE n \in registry /\ n.slot > passed
  BY <1>1 DEF ReminderInv, Known
<1>4. ASSUME NEW r \in registry, r.id \notin strays, r.slot > passed PROVE r \in known
  <2>1. r.slot \in Nat /\ passed \in Nat
    BY DEF ReminderInv, ReminderTypes, Rows
  <2>2. ~(r.slot <= passed)
    BY <1>4, <2>1
  <2>3. ~Forced(r)
    BY <1>1 DEF Forced, Quiet
  <2> QED BY <1>1, <1>4, <2>2, <2>3 DEF ReminderInv, Backed
<1>5. ASSUME NEW n \in known PROVE Body(n) \in listed
  <2>1. Body(n) \in Wanted
    BY <1>2, <1>3
  <2>2. ASSUME NEW x \in registry, x.id \in strays PROVE Body(n) # Body(x)
    BY <1>2, <1>3, <2>2
  <2> QED BY <2>1, <2>2
<1>6. ASSUME NEW w \in listed PROVE \E n \in known : Body(n) = w
  <2>1. PICK r \in registry : r.slot > passed /\ Body(r) = w
    BY <1>2
  <2>2. r.id \notin strays
    BY <2>1
  <2> QED BY <1>4, <2>1, <2>2
<1>7. \A a, b \in known : Body(a) = Body(b) => a = b
  BY <1>2, <1>3
<1>8. IsFiniteSet(known)
  BY FS_Subset DEF ReminderInv, FiniteLists
<1> HIDE DEF known, listed
<1>9. {Body(n) : n \in known} = listed
  BY <1>5, <1>6
<1> DEFINE f == [n \in known |-> Body(n)]
<1>10. f \in Bijection(known, listed)
  BY <1>5, <1>6, <1>7 DEF Bijection, Injection, Surjection, IsInjective
<1>11. ExistsBijection(known, listed)
  BY <1>10 DEF ExistsBijection
<1>12. Cardinality(known) = Cardinality(listed)
  BY <1>8, <1>11, FS_Bijection
<1> QED BY <1>9, <1>12

\* A phone with nothing under way shows one reminder for each instant at which
\* missions start and no other, but for what a failure left without its row or
\* its reminder (notification-reconciler.ts:320-400,
\* notification-rebuild-runtime.ts:40-70).
THEOREM RemindersMatchAlways == ReminderSpec => []RemindersMatch
<1>1. ReminderInit => ReminderInv
  BY ReminderStarts
<1>2. ReminderInv /\ [ReminderNext]_reminderVars => ReminderInv'
  BY ReminderInvKept
<1>3. ReminderInv => RemindersMatch
  BY ReminderInvMatches
<1> QED BY <1>1, <1>2, <1>3, PTL DEF ReminderSpec
=============================================================================

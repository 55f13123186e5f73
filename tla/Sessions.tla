------------------------------- MODULE Sessions -------------------------------
(***************************************************************************)
(* Sessions of an account: packages/database/src/auth-store.ts and          *)
(* apps/api/src/auth.ts on the server, apps/mobile/src/auth/auth-session.ts  *)
(* on the phone, and the deletion of the account (account-lifecycle.ts,     *)
(* account-deletion.ts).                                                    *)
(*                                                                         *)
(* A transaction is a step, and so is each answer and each access to the    *)
(* phone's secure storage.  A session and its family are made together, so  *)
(* one number stands for both; a token stands for its hash.  The storage    *)
(* answers in the order it was asked, so reading the session and deciding   *)
(* what to do with it are one step.  The account may be deleted and made    *)
(* again by the next sign-in.                                               *)
(***************************************************************************)
EXTENDS Naturals, Sequences

CONSTANTS
    Handsets,    \* phones of the account
    MaxTokens,   \* bound: refresh tokens issued
    MaxSessions, \* bound: sessions
    MaxMishaps   \* bound: lost calls and killed apps

VARIABLES
    family,     \* account_sessions, in the order of created_at
    account,    \* id of the account's row: each deletion makes room for a new one
    secure,     \* secure[h]: the token in the phone's secure storage (0: none)
    live,       \* live[h]: the token of activeSession
    renewals,   \* renewals[h]: refresh calls of the phone
    errand,     \* errand[h]: a sign-in, sign-out or deletion under way
    adrift,     \* requests whose phone gave up on them: the server may still
                \* get them, at any time or never
    tokens,     \* tokens issued so far
    mishaps,
    quit,       \* families whose sign-out was answered (not in code)
    excused     \* families signed out by their phone, deleted, with a token
                \* that did not arrive, or asked to refresh after their phone
                \* gave up on it (not in code)

phoneState == <<secure, live, renewals, errand>>
sessionVars == <<family, account, phoneState, adrift, tokens, mishaps, quit, excused>>

\* A family with its first refresh token.
NewFamily(token) == [token |-> token, rotated |-> {}, revoked |-> FALSE, expired |-> FALSE]
NoErrand == [at |-> "none", token |-> 0, account |-> 0]

SessionInit ==
    /\ family = << >> /\ account = 1 /\ tokens = 0 /\ mishaps = 0
    /\ secure = [h \in Handsets |-> 0] /\ live = [h \in Handsets |-> 0]
    /\ renewals = [h \in Handsets |-> {}]
    /\ errand = [h \in Handsets |-> NoErrand] /\ adrift = {}
    /\ quit = {} /\ excused = {}

Mishap == mishaps < MaxMishaps /\ mishaps' = mishaps + 1
NewToken == tokens < MaxTokens /\ tokens' = tokens + 1
Doing(h, step) == errand[h].at = step
Does(h, step) == errand' = [errand EXCEPT ![h].at = step]
Store(h, token) == secure' = [secure EXCEPT ![h] = token]
Families(t) == {f \in DOMAIN family : family[f].token = t \/ t \in family[f].rotated}
Standing(f) == ~family[f].revoked /\ ~family[f].expired

(***************************************************************************)
(* Signing in.  The sign-in screen is shown when no session was restored.   *)
(***************************************************************************)
SignIn(h) ==
    /\ errand[h] = NoErrand /\ secure[h] = 0 /\ live[h] = 0
    /\ Len(family) < MaxSessions
    /\ Does(h, "exchange")
    /\ UNCHANGED <<family, account, secure, live, renewals, adrift, tokens, mishaps, quit, excused>>

\* exchange: findOrCreateAccount and consumeProviderNonce, then createSession.
ConsumeProviderNonce(h) ==
    /\ Doing(h, "exchange")
    /\ errand' = [errand EXCEPT ![h].at = "create", ![h].account = account]
    /\ UNCHANGED <<family, account, secure, live, renewals, adrift, tokens, mishaps, quit, excused>>

CreateSession(h) ==
    /\ Doing(h, "create") /\ errand[h].account = account /\ NewToken
    /\ family' = Append(family, NewFamily(tokens'))
    /\ errand' = [errand EXCEPT ![h].at = "welcome", ![h].token = tokens']
    /\ UNCHANGED <<account, secure, live, renewals, adrift, mishaps, quit, excused>>

\* The account's row went meanwhile; the sign-in fails.
CreateNoSession(h) ==
    /\ Doing(h, "create") /\ errand[h].account # account
    /\ errand' = [errand EXCEPT ![h] = NoErrand]
    /\ UNCHANGED <<family, account, secure, live, renewals, adrift, tokens, mishaps, quit, excused>>

\* storage.write, then activeSession.
TakeSession(h) ==
    /\ Doing(h, "welcome")
    /\ Store(h, errand[h].token)
    /\ live' = [live EXCEPT ![h] = errand[h].token]
    /\ errand' = [errand EXCEPT ![h] = NoErrand]
    /\ UNCHANGED <<family, account, renewals, adrift, tokens, mishaps, quit, excused>>

(***************************************************************************)
(* Restoring and refreshing.                                                *)
(***************************************************************************)
\* Mutant: a refresh that is under way is not shared.
MayRefreshAlways(h) == TRUE

\* refreshStoredSession: one refresh at a time, that all callers wait for.
MayRefresh(h) == renewals[h] = {}

\* The access token is valid for a while.
RestoreSession(h) ==
    /\ secure[h] # 0
    /\ \/ live' = [live EXCEPT ![h] = secure[h]] /\ UNCHANGED renewals
       \/ /\ MayRefresh(h) /\ UNCHANGED live
          /\ renewals' = [renewals EXCEPT ![h] = @ \cup
                {[at |-> "sent", token |-> secure[h], got |-> 0]}]
    /\ <<live, renewals>>' # <<live, renewals>>
    /\ UNCHANGED <<family, account, secure, errand, adrift, tokens, mishaps, quit, excused>>

\* The refresh token on the phone is past its time.
ForgetExpired(h) ==
    /\ secure[h] # 0 /\ \A f \in Families(secure[h]) : family[f].expired
    /\ Store(h, 0) /\ live' = [live EXCEPT ![h] = 0]
    /\ UNCHANGED <<family, account, renewals, errand, adrift, tokens, mishaps, quit, excused>>

\* A request that is left to itself.
Asks(what, token, id) == [asks |-> what, token |-> token, account |-> id, no |-> mishaps']

Becomes(h, c, next) == renewals' = [renewals EXCEPT ![h] = (@ \ {c}) \cup next]

\* rotateSession: a current token is exchanged, one that was exchanged before
\* revokes the whole family.
Presented(t) ==
    LET current == {f \in DOMAIN family : family[f].token = t}
    IN  IF \E f \in current : Standing(f)
        THEN /\ NewToken
             /\ family' = [f \in DOMAIN family |->
                   IF f \in current
                   THEN [family[f] EXCEPT !.token = tokens', !.rotated = @ \cup {t}]
                   ELSE family[f]]
        ELSE /\ UNCHANGED tokens
             /\ family' = [f \in DOMAIN family |->
                   IF current = {} /\ f \in Families(t)
                   THEN [family[f] EXCEPT !.revoked = TRUE] ELSE family[f]]

RotateSession(h, c) ==
    /\ c.at = "sent"
    /\ Presented(c.token)
    /\ Becomes(h, c, {[c EXCEPT !.at = "answered",
                               !.got = IF tokens' = tokens THEN 0 ELSE tokens']})
    /\ UNCHANGED <<account, secure, live, errand, adrift, mishaps, quit, excused>>

\* A new pair is written, unauthorized clears; whether the user signed out
\* meanwhile is not asked.  activeSession follows when the storage is done.
WriteRefreshed(h, c) ==
    /\ c.at = "answered"
    /\ Store(h, c.got)
    /\ Becomes(h, c, {[c EXCEPT !.at = "written"]})
    /\ UNCHANGED <<family, account, live, errand, adrift, tokens, mishaps, quit, excused>>

EndRefresh(h, c) ==
    /\ c.at = "written"
    /\ live' = [live EXCEPT ![h] = c.got]
    /\ Becomes(h, c, {})
    /\ UNCHANGED <<family, account, secure, errand, adrift, tokens, mishaps, quit, excused>>

\* Any other failure keeps what was stored.  A request the server has not
\* answered yet may still come to it, before or after the next one.
LoseRefresh(h, c) ==
    /\ c.at \in {"sent", "answered"} /\ Mishap
    /\ live' = [live EXCEPT ![h] = c.token]
    /\ Becomes(h, c, {})
    /\ adrift' = IF c.at = "sent" THEN adrift \cup {Asks("refresh", c.token, 0)} ELSE adrift
    /\ excused' = IF c.at = "answered" THEN excused \cup Families(c.token) ELSE excused
    /\ UNCHANGED <<family, account, secure, errand, tokens, quit>>

\* A refresh the phone gave up on is served: nobody waits for its token, and
\* if the token it presents was exchanged meanwhile, the family is revoked.
LateRefresh(r) ==
    /\ r.asks = "refresh"
    /\ Presented(r.token)
    /\ adrift' = adrift \ {r}
    /\ excused' = excused \cup Families(r.token)
    /\ UNCHANGED <<account, phoneState, mishaps, quit>>

(***************************************************************************)
(* Signing out: the server, the phone's data, the storage, the session.     *)
(***************************************************************************)
SignOut(h) ==
    LET t == IF live[h] # 0 THEN live[h] ELSE secure[h]
    IN  /\ errand[h] = NoErrand /\ t # 0
        /\ errand' = [errand EXCEPT ![h].at = "leave", ![h].token = t]
        /\ UNCHANGED <<family, account, secure, live, renewals, adrift, tokens, mishaps, quit, excused>>

\* Mutant: only the current token is looked up.
RevokedByCurrent(t) == {f \in DOMAIN family : family[f].token = t}

\* revokeSession: the family of the token, current or rotated, newest first.
RevokedBy(t) == Families(t)

Revokes(t) ==
    /\ family' = [f \in DOMAIN family |->
          IF f \in RevokedBy(t) THEN [family[f] EXCEPT !.revoked = TRUE] ELSE family[f]]
    /\ excused' = excused \cup Families(t)

RevokeSession(h) ==
    /\ Doing(h, "leave") /\ Revokes(errand[h].token)
    /\ Does(h, "left")
    /\ UNCHANGED <<account, secure, live, renewals, adrift, tokens, mishaps, quit>>

\* The answer arrives or the call fails; the phone cleans up either way.
SignOutEnds(h) ==
    /\ \/ /\ Doing(h, "left")
          /\ quit' = quit \cup Families(errand[h].token)
          /\ UNCHANGED <<adrift, mishaps>>
       \/ Doing(h, "left") /\ Mishap /\ UNCHANGED <<adrift, quit>>
       \/ /\ Doing(h, "leave") /\ Mishap
          /\ adrift' = adrift \cup {Asks("signOut", errand[h].token, 0)}
          /\ UNCHANGED quit
    /\ Does(h, "clear")
    /\ UNCHANGED <<family, account, secure, live, renewals, tokens, excused>>

LateSignOut(r) ==
    /\ r.asks = "signOut" /\ Revokes(r.token)
    /\ adrift' = adrift \ {r}
    /\ UNCHANGED <<account, phoneState, tokens, mishaps, quit>>

ClearStorage(h) ==
    /\ Doing(h, "clear") /\ Does(h, "cleared")
    /\ Store(h, 0)
    /\ UNCHANGED <<family, account, live, renewals, adrift, tokens, mishaps, quit, excused>>

EndSignOut(h) ==
    /\ Doing(h, "cleared")
    /\ errand' = [errand EXCEPT ![h] = NoErrand]
    /\ live' = [live EXCEPT ![h] = 0]
    /\ UNCHANGED <<family, account, secure, renewals, adrift, tokens, mishaps, quit, excused>>

(***************************************************************************)
(* Deleting the account, with a session that stands.                        *)
(***************************************************************************)
\* An access token names its session, which must stand at every call.
Authenticated(h) == \E f \in DOMAIN family : family[f].token = live[h] /\ Standing(f)

Reauthenticate(h) ==
    /\ errand[h] = NoErrand /\ Authenticated(h)
    /\ errand' = [errand EXCEPT ![h].at = "erase", ![h].account = account]
    /\ UNCHANGED <<family, account, secure, live, renewals, adrift, tokens, mishaps, quit, excused>>

\* deleteAccountTransaction: the rows of the account go with it.
Deletes(id) ==
    /\ id = account /\ account' = account + 1
    /\ family' = [f \in DOMAIN family |-> [token |-> 0, rotated |-> {}, revoked |-> TRUE, expired |-> TRUE]]
    /\ excused' = excused \cup DOMAIN family

DeleteAccount(h) ==
    /\ Doing(h, "erase") /\ Deletes(errand[h].account)
    /\ errand' = [errand EXCEPT ![h] = NoErrand]
    /\ UNCHANGED <<secure, live, renewals, adrift, tokens, mishaps, quit>>

LateDeletion(r) ==
    /\ r.asks = "delete" /\ Deletes(r.account)
    /\ adrift' = adrift \ {r}
    /\ UNCHANGED <<phoneState, tokens, mishaps, quit>>

(***************************************************************************)
(* Time and failures.                                                       *)
(***************************************************************************)
SessionExpires(f) ==
    /\ Standing(f) /\ Mishap
    /\ family' = [family EXCEPT ![f].expired = TRUE]
    /\ UNCHANGED <<account, phoneState, adrift, tokens, quit, excused>>

\* The app is killed, and what it had sent is left to itself; the proof of a
\* sign-in is used up with or without a session, whose token nobody has.
AppDies(h) ==
    /\ errand[h] # NoErrand \/ renewals[h] # {}
    /\ Mishap
    /\ errand' = [errand EXCEPT ![h] = NoErrand]
    /\ renewals' = [renewals EXCEPT ![h] = {}]
    /\ live' = [live EXCEPT ![h] = 0]
    /\ adrift' = adrift
          \cup {Asks("refresh", c.token, 0) : c \in {d \in renewals[h] : d.at = "sent"}}
          \cup (IF Doing(h, "leave") THEN {Asks("signOut", errand[h].token, 0)} ELSE {})
          \cup (IF Doing(h, "erase") THEN {Asks("delete", 0, errand[h].account)} ELSE {})
    /\ excused' = excused \cup {f \in DOMAIN family :
                      \E c \in renewals[h] : f \in Families(c.token) /\ c.at = "answered"}
    /\ UNCHANGED <<family, account, secure, tokens, quit>>

SessionNext ==
    \/ \E h \in Handsets :
          \/ SignIn(h) \/ ConsumeProviderNonce(h) \/ CreateSession(h) \/ CreateNoSession(h) \/ TakeSession(h)
          \/ RestoreSession(h) \/ ForgetExpired(h)
          \/ \E c \in renewals[h] : RotateSession(h, c) \/ WriteRefreshed(h, c)
                                      \/ EndRefresh(h, c) \/ LoseRefresh(h, c)
          \/ SignOut(h) \/ RevokeSession(h) \/ SignOutEnds(h) \/ ClearStorage(h) \/ EndSignOut(h)
          \/ Reauthenticate(h) \/ DeleteAccount(h) \/ AppDies(h)
    \/ \E r \in adrift : LateRefresh(r) \/ LateSignOut(r) \/ LateDeletion(r)
    \/ \E f \in DOMAIN family : SessionExpires(f)

SessionSpec == SessionInit /\ [][SessionNext]_sessionVars

(***************************************************************************)
(* Properties.                                                             *)
(***************************************************************************)
\* A sign-out that was answered is final: whatever refresh was under way, and
\* whatever token its late answer writes back to the phone, the family has no
\* session any more (auth-session.ts:178-208, auth-store.ts:195-220).
SignedOutStaysOut == \A f \in quit : family[f].revoked

\* A session ends only because its own phone signed out, the account was
\* deleted, a refreshed token did not reach the phone, or a refresh the phone
\* had given up on came to the server late (after the retry it revokes the
\* family, before it the retry does: a finding).  Neither another phone ends
\* it, nor calls of the same phone that all wait for their answers
\* (auth-store.ts:160-193, auth-session.ts:88-116).
OnlyLossSignsOut == \A f \in DOMAIN family : family[f].revoked => f \in excused
=============================================================================

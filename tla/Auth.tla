-------------------------------- MODULE Auth --------------------------------
(***************************************************************************)
(* One account: its credentials, its sessions and the refresh tokens that  *)
(* keep them alive.                                                        *)
(*                                                                         *)
(* A session row stores the hash of the only refresh token it accepts.     *)
(* Refreshing is a read, then a compare-and-set on that hash; a token that *)
(* is not current, or that loses the compare-and-set, burns its family.    *)
(* Switching the company replaces the token and the family of the row and  *)
(* compares nothing but the revocation.  Every statement on the table      *)
(* touches one row and commits alone, so it is one action.                 *)
(*                                                                         *)
(* A token, a family, a session, a password and a TOTP secret are named by *)
(* the call that made them.                                                *)
(***************************************************************************)
EXTENDS FiniteSets, Naturals

CONSTANTS
  Calls,       \* requests to the authentication endpoints
  Companies,   \* companies the caller may switch to
  NoCompany, Nobody,
  MayExpire    \* bound: tokens whose lifetime ends

ASSUME AuthAssumption ==
  /\ Nobody \notin Calls
  /\ NoCompany \notin Companies
  /\ MayExpire \in Nat

VARIABLES
  profile,    \* the profiles row; there is no account while password = Nobody
  row,        \* sessions, by the call that opened them
  claims,     \* what the refresh token minted by a call says
  held,       \* tokens that reached a client
  expired,    \* tokens whose lifetime is over
  does,       \* the endpoint a call is on
  about,      \* the token, session or secret the call is about
  at,         \* the statement it is at, or how it was answered
  confirmed,  \* history: secrets for which a code was verified
  crossed     \* history: an enrolment fell between a verification and its write

sessionVars == <<row, claims, held>>
callVars == <<does, about, at>>
vars == <<profile, sessionVars, expired, callVars, confirmed, crossed>>

NoRow == [tok |-> Nobody, fam |-> Nobody, company |-> NoCompany, revoked |-> TRUE]
NoClaims == [session |-> Nobody, fam |-> Nobody, company |-> NoCompany]
Done == {"ok", "refused", "reuse", "failed"}

Init ==
  /\ profile = [password |-> Nobody, secret |-> Nobody, enabled |-> FALSE,
                leaving |-> Nobody]
  /\ row = [c \in Calls |-> NoRow]
  /\ claims = [c \in Calls |-> NoClaims]
  /\ held = {} /\ expired = {}
  /\ does = [c \in Calls |-> "none"]
  /\ about = [c \in Calls |-> Nobody]
  /\ at = [c \in Calls |-> "idle"]
  /\ confirmed = {} /\ crossed = FALSE

-----------------------------------------------------------------------------
(* Starting, continuing and answering a call.                              *)

Begin(c, what, on, next) ==
  /\ at[c] = "idle"
  /\ does' = [does EXCEPT ![c] = what]
  /\ about' = [about EXCEPT ![c] = on]
  /\ at' = [at EXCEPT ![c] = next]

Go(c, from, next) ==
  /\ at[c] = from
  /\ at' = [at EXCEPT ![c] = next]
  /\ UNCHANGED <<does, about>>

\* The pair that call c minted reaches its client, or the reply is lost.
Deliver(c) == held' \in {held, held \cup {c}}

\* JwtAuthGuard looks at the access token alone: it was minted with refresh
\* token t and says which session it belongs to.
Principal(t) == t \in held \ expired

Mint(c, s, fam, company) ==
  claims' = [claims EXCEPT ![c] = [session |-> s, fam |-> fam, company |-> company]]

-----------------------------------------------------------------------------
(* Opening a session.                                                      *)

Register(c) ==
  /\ IF profile.password = Nobody
       THEN /\ Begin(c, "register", Nobody, "open")
            /\ profile' = [profile EXCEPT !.password = c]
       ELSE Begin(c, "register", Nobody, "refused") /\ UNCHANGED profile
  /\ UNCHANGED <<sessionVars, expired, confirmed, crossed>>

\* The password, and the code where 2FA is on, are right or wrong.
Login(c) ==
  /\ profile.password # Nobody
  /\ \E next \in {"open", "refused"} : Begin(c, "login", Nobody, next)
  /\ UNCHANGED <<profile, sessionVars, expired, confirmed, crossed>>

OpenSession(c) ==
  /\ Go(c, "open", "ok")
  /\ Mint(c, c, c, NoCompany)
  /\ row' = [row EXCEPT ![c] = [tok |-> c, fam |-> c, company |-> NoCompany,
                                revoked |-> FALSE]]
  /\ Deliver(c)
  /\ UNCHANGED <<profile, expired, confirmed, crossed>>

-----------------------------------------------------------------------------
(* Refreshing.                                                             *)

IsCurrent(t) ==
  LET r == row[claims[t].session] IN r.tok = t /\ r.fam = claims[t].fam

Refresh(c, t) ==
  /\ t \in held
  /\ LET r == row[claims[t].session] IN
     \/ /\ t \in expired \/ (IsCurrent(t) /\ r.revoked)
        /\ Begin(c, "refresh", t, "refused")
        /\ UNCHANGED claims
     \/ /\ t \notin expired /\ ~IsCurrent(t)
        /\ Begin(c, "refresh", t, "burn")
        /\ UNCHANGED claims
     \/ /\ t \notin expired /\ IsCurrent(t) /\ ~r.revoked
        /\ Begin(c, "refresh", t, "rotate")
        /\ Mint(c, claims[t].session, r.fam, r.company)
  /\ UNCHANGED <<profile, row, held, expired, confirmed, crossed>>

\* Mutant: losing the compare-and-set is answered and nothing more.
Rotate_Forgiving(c) ==
  LET s == claims[c].session IN
  /\ at[c] = "rotate"
  /\ IF row[s].tok = about[c] /\ ~row[s].revoked
       THEN /\ Go(c, "rotate", "ok")
            /\ row' = [row EXCEPT ![s].tok = c]
            /\ Deliver(c)
       ELSE Go(c, "rotate", "refused") /\ UNCHANGED <<row, held>>
  /\ UNCHANGED <<profile, claims, expired, confirmed, crossed>>

Rotate(c) ==
  LET s == claims[c].session IN
  /\ at[c] = "rotate"
  /\ IF row[s].tok = about[c] /\ ~row[s].revoked
       THEN /\ Go(c, "rotate", "ok")
            /\ row' = [row EXCEPT ![s].tok = c]
            /\ Deliver(c)
       ELSE Go(c, "rotate", "burn") /\ UNCHANGED <<row, held>>
  /\ UNCHANGED <<profile, claims, expired, confirmed, crossed>>

RevokeFamily(c) ==
  /\ at[c] = "burn"
  /\ Go(c, "burn", "reuse")
  /\ row' = [s \in Calls |->
               [row[s] EXCEPT !.revoked = @ \/ row[s].fam = claims[about[c]].fam]]
  /\ UNCHANGED <<profile, claims, held, expired, confirmed, crossed>>

-----------------------------------------------------------------------------
(* Switching the company and signing out.                                  *)

\* Mutant: the new token stays in the family of the old one.
ReissueForCompany_SameFamily(c, t, company) ==
  /\ Principal(t)
  /\ Begin(c, "switch", t, "bind")
  /\ Mint(c, claims[t].session, claims[t].fam, company)
  /\ UNCHANGED <<profile, row, held, expired, confirmed, crossed>>

\* The membership was checked by the tenancy module before this runs.
ReissueForCompany(c, t, company) ==
  /\ Principal(t)
  /\ Begin(c, "switch", t, "bind")
  /\ Mint(c, claims[t].session, c, company)
  /\ UNCHANGED <<profile, row, held, expired, confirmed, crossed>>

BindSessionCompany(c) ==
  LET s == claims[c].session IN
  /\ at[c] = "bind"
  /\ IF row[s].revoked
       THEN Go(c, "bind", "refused") /\ UNCHANGED <<row, held>>
       ELSE /\ Go(c, "bind", "ok")
            /\ row' = [row EXCEPT ![s] = [tok |-> c, fam |-> claims[c].fam,
                                          company |-> claims[c].company,
                                          revoked |-> FALSE]]
            /\ Deliver(c)
  /\ UNCHANGED <<profile, claims, expired, confirmed, crossed>>

\* Signing out revokes the caller's session, DELETE /sessions/:id any session
\* of the account that is found.
RevokeSession(c, t, s) ==
  /\ Principal(t)
  /\ row[s] # NoRow
  /\ Begin(c, "revoke", s, "revoke")
  /\ UNCHANGED <<profile, sessionVars, expired, confirmed, crossed>>

RevokeOwnSession(c) ==
  /\ Go(c, "revoke", "ok")
  /\ row' = [row EXCEPT ![about[c]].revoked = TRUE]
  /\ UNCHANGED <<profile, claims, held, expired, confirmed, crossed>>

-----------------------------------------------------------------------------
(* Credentials.                                                            *)

\* Mutant: enrolling again leaves the two-factor login switched on.
EnrollTotp_KeepsEnabled(c, t) ==
  /\ Principal(t)
  /\ Begin(c, "enroll", c, "ok")
  /\ profile' = [profile EXCEPT !.secret = c]
  /\ crossed' = (crossed \/ \E d \in Calls : at[d] = "enable")
  /\ UNCHANGED <<sessionVars, expired, confirmed>>

EnrollTotp(c, t) ==
  /\ Principal(t)
  /\ Begin(c, "enroll", c, "ok")
  /\ profile' = [profile EXCEPT !.secret = c, !.enabled = FALSE]
  /\ crossed' = (crossed \/ \E d \in Calls : at[d] = "enable")
  /\ UNCHANGED <<sessionVars, expired, confirmed>>

\* The code is checked against the secret that is read here; the write that
\* follows does not name it.
VerifyTotpEnrolment(c, t) ==
  /\ Principal(t)
  /\ \/ /\ Begin(c, "verify", profile.secret, "refused")
        /\ UNCHANGED confirmed
     \/ /\ profile.secret # Nobody
        /\ Begin(c, "verify", profile.secret, "enable")
        /\ confirmed' = confirmed \cup {profile.secret}
  /\ UNCHANGED <<profile, sessionVars, expired, crossed>>

EnableTotp(c) ==
  /\ Go(c, "enable", "ok")
  /\ profile' = [profile EXCEPT !.enabled = TRUE]
  /\ UNCHANGED <<sessionVars, expired, confirmed, crossed>>

ChangePassword(c, t) ==
  /\ Principal(t)
  /\ \E next \in {"password", "refused"} : Begin(c, "password", profile.password, next)
  /\ UNCHANGED <<profile, sessionVars, expired, confirmed, crossed>>

SetPasswordHash(c) ==
  /\ Go(c, "password", "ok")
  /\ profile' = [profile EXCEPT !.password = c]
  /\ UNCHANGED <<sessionVars, expired, confirmed, crossed>>

RequestAccountDeletion(c, t) ==
  /\ Principal(t)
  /\ Begin(c, "leave", Nobody, "ok")
  /\ profile' = [profile EXCEPT !.leaving = IF @ = Nobody THEN c ELSE @]
  /\ UNCHANGED <<sessionVars, expired, confirmed, crossed>>

-----------------------------------------------------------------------------

\* The process dies or the database refuses the next statement.
Fail(c) ==
  /\ at[c] \notin Done \cup {"idle"}
  /\ Go(c, at[c], "failed")
  /\ UNCHANGED <<profile, sessionVars, expired, confirmed, crossed>>

Expire(t) ==
  /\ Cardinality(expired) < MayExpire
  /\ t \in held \ expired
  /\ expired' = expired \cup {t}
  /\ UNCHANGED <<profile, sessionVars, callVars, confirmed, crossed>>

OnToken(c, t) ==
  \/ Refresh(c, t)
  \/ \E company \in Companies : ReissueForCompany(c, t, company)
  \/ \E s \in Calls : RevokeSession(c, t, s)
  \/ EnrollTotp(c, t)
  \/ VerifyTotpEnrolment(c, t)
  \/ ChangePassword(c, t)
  \/ RequestAccountDeletion(c, t)

Step(c) ==
  \/ Register(c)
  \/ Login(c)
  \/ OpenSession(c)
  \/ Rotate(c)
  \/ RevokeFamily(c)
  \/ BindSessionCompany(c)
  \/ RevokeOwnSession(c)
  \/ EnableTotp(c)
  \/ SetPasswordHash(c)
  \/ Fail(c)
  \/ \E t \in Calls : OnToken(c, t)

Next ==
  \/ \E c \in Calls : Step(c)
  \/ \E t \in Calls : Expire(t)

Spec == Init /\ [][Next]_vars

-----------------------------------------------------------------------------
(* Properties.                                                             *)

Names == Calls \cup {Nobody}
Tenants == Companies \cup {NoCompany}

\* Types of the profile, the session rows, the tokens and the calls.
TypeOK ==
  /\ profile \in [password : Names, secret : Names, enabled : BOOLEAN, leaving : Names]
  /\ row \in [Calls -> [tok : Names, fam : Names, company : Tenants, revoked : BOOLEAN]]
  /\ claims \in [Calls -> [session : Names, fam : Names, company : Tenants]]
  /\ held \subseteq Calls /\ expired \subseteq held
  /\ does \in [Calls -> {"none", "register", "login", "refresh", "switch", "revoke",
                         "enroll", "verify", "password", "leave"}]
  /\ about \in [Calls -> Names]
  /\ at \in [Calls -> {"idle", "open", "rotate", "burn", "bind", "revoke", "enable",
                       "password"} \cup Done]
  /\ confirmed \subseteq Calls /\ crossed \in BOOLEAN

Presented(c, t) == does[c] = "refresh" /\ about[c] = t

\* When two presentations of one token have both been answered, no session of
\* its family is alive: it buys one successor, and none that survives
\* (AuthService.refresh, "the whole family is revoked").
ReuseKillsFamily ==
  \A c, d \in Calls : \A t \in Calls \ expired :
    /\ c # d /\ Presented(c, t) /\ Presented(d, t)
    /\ at[c] \in {"ok", "refused", "reuse"} /\ at[d] \in {"ok", "refused", "reuse"}
    => \A s \in Calls : row[s].fam = claims[t].fam => row[s].revoked

\* A session ends only because somebody revoked it or because one of its
\* tokens was presented twice: a client that switches its company while it
\* refreshes is not signed out (AuthService.reissueForCompany, "rotate into a
\* fresh family").  And the token a live session accepts carries the company
\* stored in its row, although a refresh reads it before it writes the token.
HonestClientsStaySignedIn ==
  \A s \in Calls : row[s] # NoRow =>
    IF row[s].revoked
      THEN \/ \E c \in Calls : does[c] = "revoke" /\ about[c] = s
           \/ \E c, d, t \in Calls :
                c # d /\ Presented(c, t) /\ Presented(d, t) /\ claims[t].session = s
      ELSE row[s].company = claims[row[s].tok].company

\* Two-factor login is on only with a secret for which a code was verified,
\* unless an enrolment fell between a verification and its write.
EnabledSecretIsConfirmed ==
  profile.enabled /\ ~crossed => profile.secret \in confirmed
=============================================================================

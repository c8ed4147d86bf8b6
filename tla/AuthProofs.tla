----------------------------- MODULE AuthProofs -----------------------------
(***************************************************************************)
(* Proofs about Auth, for every set of calls and companies and however     *)
(* many tokens expire.                                                     *)
(*                                                                         *)
(* The inductive invariant follows a token from the call that minted it to *)
(* the call that spent it: the row of a session names a token whose claims *)
(* are those of the row, a family belongs to one session, and a token that *)
(* is no longer named by its family's row was spent by one refresh.        *)
(*                                                                         *)
(* Then proofs about Purchasing, for every set of requests, variants and   *)
(* warehouses: a receipt owns what it has locked.  The lines it sees are   *)
(* the committed ones with its own roll-ups on top, the levels it sees the *)
(* committed ones with the units it has raised, and an average cost it has *)
(* rolled carries the cost of the units in the only warehouse that holds   *)
(* the variant: committing the view makes all of it true of the tables.    *)
(***************************************************************************)
EXTENDS Auth, Purchasing, SumTheorems

-----------------------------------------------------------------------------
(* The inductive invariant.                                                *)

\* What a call has behind it at each of its statements.
Progress(c) ==
  /\ at[c] = "idle" => does[c] = "none"
  /\ at[c] \in {"idle", "open"} => claims[c] = NoClaims /\ row[c] = NoRow
  /\ does[c] = "refresh" => about[c] \in held /\ at[c] \in {"rotate", "burn"} \cup Done
  /\ at[c] \in {"rotate", "burn"} => does[c] = "refresh"
  /\ at[c] = "rotate" => claims[c] = claims[about[c]]
  /\ at[c] = "bind" => claims[c].session \in Calls /\ claims[c].fam = c
  /\ at[c] = "revoke" =>
       does[c] = "revoke" /\ about[c] \in Calls /\ row[about[c]] # NoRow

CallsProgress == \A c \in Calls : Progress(c)

HeldAreIssued == \A t \in held : at[t] = "ok" /\ claims[t] # NoClaims

\* A family is named by the call that opened it and belongs to the session of
\* that call's token; every other token of it is a successor of a stored one.
FamiliesOfSessions ==
  \A x \in Calls :
    \/ claims[x] = NoClaims
    \/ LET f == claims[x].fam IN
         /\ claims[x].session \in Calls
         /\ f \in Calls
         /\ claims[f].session = claims[x].session
         /\ f = x \/ at[f] = "ok"

RowsNameTheirTokens ==
  \A s \in Calls :
    \/ row[s] = NoRow
    \/ LET k == row[s].tok IN
         /\ k \in Calls /\ at[k] = "ok"
         /\ claims[k] = [session |-> s, fam |-> row[s].fam, company |-> row[s].company]

SpentTokens ==
  \A t \in held :
    LET r == row[claims[t].session] IN
      \/ r.tok = t
      \/ r.fam # claims[t].fam
      \/ \E d \in Calls : Presented(d, t) /\ at[d] = "ok"

\* What the answer to a presented token says of the row for ever after.
AnswerLasts(c, t) ==
  LET r == row[claims[t].session] IN
    /\ at[c] = "ok" => r.tok # t
    /\ at[c] = "burn" => r.tok # t \/ r.revoked
    /\ at[c] = "refused" /\ t \notin expired => r.tok = t /\ r.revoked
    /\ at[c] = "reuse" => \A s \in Calls : row[s].fam = claims[t].fam => row[s].revoked

AnswersLast ==
  \A c \in Calls : \A t \in held : Presented(c, t) => AnswerLasts(c, t)

OneSuccessor ==
  \A c, d, t \in Calls :
    Presented(c, t) /\ Presented(d, t) /\ at[c] = "ok" /\ at[d] = "ok" => c = d

EnrolmentsAreVerified ==
  \A c \in Calls : at[c] = "enable" =>
    about[c] \in confirmed /\ (crossed \/ about[c] = profile.secret)

IInv ==
  /\ TypeOK
  /\ CallsProgress
  /\ HeldAreIssued
  /\ FamiliesOfSessions
  /\ RowsNameTheirTokens
  /\ SpentTokens
  /\ AnswersLast
  /\ OneSuccessor
  /\ EnrolmentsAreVerified
  /\ HonestClientsStaySignedIn
  /\ EnabledSecretIsConfirmed

-----------------------------------------------------------------------------
(* Type correctness.  A step that uses a token relies on its claims.       *)

\* The columns of a session.
SessionRow == [tok : Names, fam : Names, company : Tenants, revoked : BOOLEAN]

LEMMA RevokedColumns ==
  ASSUME NEW r \in SessionRow, NEW b \in BOOLEAN
  PROVE  /\ [r EXCEPT !.revoked = b] \in SessionRow
         /\ [r EXCEPT !.revoked = b].tok = r.tok
         /\ [r EXCEPT !.revoked = b].fam = r.fam
         /\ [r EXCEPT !.revoked = b].company = r.company
         /\ [r EXCEPT !.revoked = b].revoked = b
  BY DEF SessionRow

LEMMA RotatedColumns ==
  ASSUME NEW r \in SessionRow, NEW k \in Names
  PROVE  /\ [r EXCEPT !.tok = k] \in SessionRow
         /\ [r EXCEPT !.tok = k].tok = k
         /\ [r EXCEPT !.tok = k].fam = r.fam
         /\ [r EXCEPT !.tok = k].company = r.company
         /\ [r EXCEPT !.tok = k].revoked = r.revoked
  BY DEF SessionRow

LEMMA TypeStep ==
  TypeOK /\ CallsProgress /\ HeldAreIssued /\ FamiliesOfSessions /\ [Next]_vars => TypeOK'
<1> SUFFICES ASSUME TypeOK, CallsProgress, HeldAreIssued, FamiliesOfSessions, [Next]_vars
             PROVE  TypeOK'
  OBVIOUS
<1> USE DEF TypeOK, sessionVars, callVars, Names, Done
<1>1. ASSUME NEW c \in Calls, Register(c) PROVE TypeOK'
  BY <1>1 DEF Register, Begin
<1>2. ASSUME NEW c \in Calls, Login(c) PROVE TypeOK'
  BY <1>2 DEF Login, Begin
<1>3. ASSUME NEW c \in Calls, OpenSession(c) PROVE TypeOK'
  BY <1>3 DEF OpenSession, Go, Mint, Deliver, Tenants
<1>4. ASSUME NEW c \in Calls, Rotate(c) PROVE TypeOK'
  BY <1>4 DEF Rotate, Go, Deliver
<1>5. ASSUME NEW c \in Calls, RevokeFamily(c) PROVE TypeOK'
  <2>1. ASSUME NEW s \in Calls PROVE row'[s] \in SessionRow
    <3>1. row[s] \in SessionRow /\ (row[s].revoked \/ row[s].fam = claims[about[c]].fam) \in BOOLEAN
      BY DEF SessionRow
    <3> QED BY <1>5, <3>1, RevokedColumns DEF RevokeFamily
  <2>2. row' \in [Calls -> SessionRow]
    BY <1>5, <2>1 DEF RevokeFamily
  <2> QED BY <1>5, <2>2 DEF RevokeFamily, Go, SessionRow
<1>6. ASSUME NEW c \in Calls, BindSessionCompany(c) PROVE TypeOK'
  <2>1. /\ claims[c].fam \in Names /\ claims[c].company \in Tenants
        /\ claims[c].session \in Calls
    BY <1>6 DEF BindSessionCompany, CallsProgress, Progress
  <2>2. [tok |-> c, fam |-> claims[c].fam, company |-> claims[c].company, revoked |-> FALSE]
          \in SessionRow
    BY <2>1 DEF SessionRow
  <2>3. row \in [Calls -> SessionRow]
    BY DEF SessionRow
  <2>4. row' \in [Calls -> SessionRow]
    BY <1>6, <2>1, <2>2, <2>3 DEF BindSessionCompany
  <2> QED BY <1>6, <2>4 DEF BindSessionCompany, Go, Deliver, SessionRow
<1>7. ASSUME NEW c \in Calls, RevokeOwnSession(c) PROVE TypeOK'
  <2>1. row \in [Calls -> SessionRow] /\ about[c] \in Calls
    BY <1>7 DEF SessionRow, RevokeOwnSession, Go, CallsProgress, Progress
  <2>2. [row[about[c]] EXCEPT !.revoked = TRUE] \in SessionRow
    BY <2>1, TRUE \in BOOLEAN, RevokedColumns
  <2>3. row' \in [Calls -> SessionRow]
    BY <1>7, <2>1, <2>2 DEF RevokeOwnSession
  <2> QED BY <1>7, <2>3 DEF RevokeOwnSession, Go, SessionRow
<1>8. ASSUME NEW c \in Calls, EnableTotp(c) PROVE TypeOK'
  BY <1>8 DEF EnableTotp, Go
<1>9. ASSUME NEW c \in Calls, SetPasswordHash(c) PROVE TypeOK'
  BY <1>9 DEF SetPasswordHash, Go
<1>10. ASSUME NEW c \in Calls, Fail(c) PROVE TypeOK'
  BY <1>10 DEF Fail, Go
<1>11. ASSUME NEW c \in Calls, NEW t \in Calls, Refresh(c, t) PROVE TypeOK'
  <2>1. claims[t].session \in Calls
    BY <1>11 DEF Refresh, HeldAreIssued, FamiliesOfSessions
  <2> QED BY <1>11, <2>1 DEF Refresh, Begin, Mint
<1>12. ASSUME NEW c \in Calls, NEW t \in Calls, NEW company \in Companies,
              ReissueForCompany(c, t, company)
       PROVE TypeOK'
  BY <1>12 DEF ReissueForCompany, Begin, Mint, Principal, Tenants
<1>13. ASSUME NEW c \in Calls, NEW t \in Calls, NEW s \in Calls, RevokeSession(c, t, s)
       PROVE TypeOK'
  BY <1>13 DEF RevokeSession, Begin
<1>14. ASSUME NEW c \in Calls, NEW t \in Calls, EnrollTotp(c, t) PROVE TypeOK'
  BY <1>14 DEF EnrollTotp, Begin
<1>15. ASSUME NEW c \in Calls, NEW t \in Calls, VerifyTotpEnrolment(c, t) PROVE TypeOK'
  BY <1>15 DEF VerifyTotpEnrolment, Begin
<1>16. ASSUME NEW c \in Calls, NEW t \in Calls, ChangePassword(c, t) PROVE TypeOK'
  BY <1>16 DEF ChangePassword, Begin
<1>17. ASSUME NEW c \in Calls, NEW t \in Calls, RequestAccountDeletion(c, t) PROVE TypeOK'
  BY <1>17 DEF RequestAccountDeletion, Begin
<1>18. ASSUME NEW t \in Calls, Expire(t) PROVE TypeOK'
  BY <1>18 DEF Expire
<1>19. CASE UNCHANGED vars
  BY <1>19 DEF vars
<1> QED
  BY <1>1, <1>2, <1>3, <1>4, <1>5, <1>6, <1>7, <1>8, <1>9, <1>10, <1>11, <1>12, <1>13, <1>14,
     <1>15, <1>16, <1>17, <1>18, <1>19 DEF Next, Step, OnToken

-----------------------------------------------------------------------------
(* What the steps do to the sessions and to the calls.                     *)

\* Names differ from no name, and a stored row from no row.
LEMMA RowFacts ==
  ASSUME TypeOK, NEW s \in Calls
  PROVE  /\ row[s] \in SessionRow
         /\ row[s].tok \in Calls => row[s] # NoRow
         /\ ~row[s].revoked => row[s] # NoRow
         /\ NoRow.tok = Nobody /\ NoRow.fam = Nobody /\ NoRow.revoked = TRUE
         /\ NoClaims.session = Nobody /\ NoClaims.fam = Nobody
         /\ Nobody \notin Calls
  BY AuthAssumption DEF TypeOK, SessionRow, NoRow, NoClaims

\* Of the other calls nothing changes.
OthersWait(c) ==
  \A d \in Calls \ {c} : at'[d] = at[d] /\ does'[d] = does[d] /\ about'[d] = about[d]

\* The steps that touch neither a session nor a token, but may end a token's life.
Quiet ==
  /\ UNCHANGED <<row, claims, held>> /\ expired \subseteq expired'
  /\ \/ UNCHANGED callVars
     \/ \E c \in Calls : OthersWait(c) /\
          \/ /\ at[c] = "idle"
             /\ does'[c] \notin {"none", "refresh"}
             /\ at'[c] \notin {"idle", "rotate", "burn", "bind"}
             /\ at'[c] = "revoke" =>
                  does'[c] = "revoke" /\ about'[c] \in Calls /\ row[about'[c]] # NoRow
          \/ /\ at[c] \notin Done \cup {"idle"}
             /\ does'[c] = does[c] /\ about'[c] = about[c]
             /\ at'[c] = "failed" \/ (at'[c] = "ok" /\ at[c] \in {"enable", "password"})

LEMMA QuietSteps ==
  ASSUME TypeOK, NEW c \in Calls,
         \/ Register(c) \/ Login(c) \/ EnableTotp(c) \/ SetPasswordHash(c) \/ Fail(c)
         \/ \E t \in Calls : \/ \E s \in Calls : RevokeSession(c, t, s)
                             \/ EnrollTotp(c, t) \/ VerifyTotpEnrolment(c, t)
                             \/ ChangePassword(c, t) \/ RequestAccountDeletion(c, t)
  PROVE  Quiet
<1> USE DEF Quiet, OthersWait, sessionVars, Begin, Go, TypeOK, Done
<1>1. CASE Register(c) \/ Login(c)
  BY <1>1 DEF Register, Login
<1>2. CASE EnableTotp(c) \/ SetPasswordHash(c) \/ Fail(c)
  BY <1>2 DEF EnableTotp, SetPasswordHash, Fail
<1>3. ASSUME NEW t \in Calls, NEW s \in Calls, RevokeSession(c, t, s) PROVE Quiet
  BY <1>3 DEF RevokeSession
<1>4. ASSUME NEW t \in Calls, EnrollTotp(c, t) PROVE Quiet
  BY <1>4 DEF EnrollTotp
<1>5. ASSUME NEW t \in Calls, VerifyTotpEnrolment(c, t) PROVE Quiet
  <2>1. \E next \in {"refused", "enable"} : Begin(c, "verify", profile.secret, next)
    BY <1>5 DEF VerifyTotpEnrolment
  <2> QED BY <1>5, <2>1 DEF VerifyTotpEnrolment
<1>6. ASSUME NEW t \in Calls, ChangePassword(c, t) \/ RequestAccountDeletion(c, t) PROVE Quiet
  BY <1>6 DEF ChangePassword, RequestAccountDeletion
<1> QED BY <1>1, <1>2, <1>3, <1>4, <1>5, <1>6

LEMMA StepKinds ==
  ASSUME TypeOK, [Next]_vars
  PROVE  \/ \E c \in Calls : \/ OpenSession(c) \/ Rotate(c) \/ RevokeFamily(c)
                             \/ BindSessionCompany(c) \/ RevokeOwnSession(c)
         \/ \E c, t \in Calls : Refresh(c, t)
         \/ \E c, t \in Calls, company \in Companies : ReissueForCompany(c, t, company)
         \/ Quiet
<1>1. ASSUME NEW t \in Calls, Expire(t) PROVE Quiet
  BY <1>1 DEF Expire, Quiet, sessionVars
<1>2. CASE UNCHANGED vars
  BY <1>2 DEF vars, Quiet, sessionVars
<1> QED BY <1>1, <1>2, QuietSteps DEF Next, Step, OnToken

LEMMA OpenSessionEffect ==
  ASSUME IInv, NEW c \in Calls, OpenSession(c)
  PROVE  /\ at[c] = "open" /\ at'[c] = "ok" /\ OthersWait(c)
         /\ UNCHANGED <<does, about, expired>>
         /\ row[c] = NoRow /\ claims[c] = NoClaims
         /\ row'[c].tok = c /\ row'[c].fam = c /\ row'[c].company = NoCompany
         /\ row'[c].revoked = FALSE /\ row'[c] # NoRow
         /\ claims'[c] = [session |-> c, fam |-> c, company |-> NoCompany]
         /\ \A s \in Calls \ {c} : row'[s] = row[s] /\ claims'[s] = claims[s]
         /\ held \subseteq held' /\ held' \subseteq held \cup {c}
<1>1. /\ at[c] = "open" /\ at' = [at EXCEPT ![c] = "ok"] /\ UNCHANGED <<does, about, expired>>
      /\ row' = [row EXCEPT ![c] = [tok |-> c, fam |-> c, company |-> NoCompany,
                                    revoked |-> FALSE]]
      /\ claims' = [claims EXCEPT ![c] = [session |-> c, fam |-> c, company |-> NoCompany]]
      /\ held' \in {held, held \cup {c}}
  BY DEF OpenSession, Go, Mint, Deliver
<1>2. row[c] = NoRow /\ claims[c] = NoClaims
  BY <1>1 DEF IInv, CallsProgress, Progress
<1> QED BY <1>1, <1>2 DEF IInv, TypeOK, OthersWait, NoRow

\* The compare-and-set of a refresh succeeds on a live row that names the token.
LEMMA RotateEffect ==
  ASSUME IInv, NEW c \in Calls, Rotate(c)
  PROVE  LET s == claims[c].session  t == about[c] IN
         /\ at[c] = "rotate" /\ OthersWait(c) /\ UNCHANGED <<does, about, expired, claims>>
         /\ s \in Calls /\ t \in held /\ Presented(c, t) /\ claims[c] = claims[t]
         /\ \A d \in Calls \ {s} : row'[d] = row[d]
         /\ \/ /\ at'[c] = "ok" /\ row[s].tok = t /\ ~row[s].revoked
               /\ row'[s].tok = c /\ row'[s].fam = row[s].fam
               /\ row'[s].company = row[s].company /\ row'[s].revoked = FALSE
               /\ row'[s] # NoRow /\ row[s] # NoRow
               /\ held \subseteq held' /\ held' \subseteq held \cup {c}
            \/ /\ at'[c] = "burn" /\ (row[s].tok # t \/ row[s].revoked)
               /\ UNCHANGED <<row, held>>
<1> DEFINE s == claims[c].session
           t == about[c]
<1>1. at[c] = "rotate" /\ OthersWait(c) /\ UNCHANGED <<does, about, expired, claims>>
  BY DEF Rotate, Go, OthersWait, IInv, TypeOK
<1>2. t \in held /\ Presented(c, t) /\ claims[c] = claims[t]
  BY <1>1 DEF IInv, CallsProgress, Progress, Presented
<1>3. s \in Calls
  BY <1>2 DEF IInv, HeldAreIssued, FamiliesOfSessions, TypeOK
<1>4. row[s] \in SessionRow /\ t \in Calls /\ (~row[s].revoked => row[s] # NoRow)
  BY <1>2, <1>3, RowFacts DEF IInv, TypeOK
<1>5. CASE row[s].tok = t /\ ~row[s].revoked
  <2>1. /\ at' = [at EXCEPT ![c] = "ok"] /\ held' \in {held, held \cup {c}}
        /\ row' = [row EXCEPT ![s] = [row[s] EXCEPT !.tok = c]]
    BY <1>5 DEF Rotate, Go, Deliver
  <2>2. /\ row'[s] = [row[s] EXCEPT !.tok = c]
        /\ \A d \in Calls \ {s} : row'[d] = row[d]
    BY <1>3, <2>1 DEF IInv, TypeOK
  <2>3. c \in Names
    BY DEF Names
  <2>4. /\ row'[s].tok = c /\ row'[s].fam = row[s].fam
        /\ row'[s].company = row[s].company /\ row'[s].revoked = row[s].revoked
    BY <1>4, <2>2, <2>3, RotatedColumns
  <2>5. row[s].revoked \in BOOLEAN
    BY <1>4 DEF SessionRow
  <2>6. row'[s] # NoRow
    BY <1>5, <2>4, <2>5 DEF NoRow
  <2> QED BY <1>1, <1>2, <1>3, <1>4, <1>5, <2>1, <2>2, <2>4, <2>5, <2>6 DEF IInv, TypeOK
<1>6. CASE ~(row[s].tok = t /\ ~row[s].revoked)
  <2>1. at' = [at EXCEPT ![c] = "burn"] /\ UNCHANGED <<row, held>>
    BY <1>6 DEF Rotate, Go
  <2> QED BY <1>1, <1>2, <1>3, <1>6, <2>1 DEF IInv, TypeOK
<1> QED BY <1>5, <1>6

\* What a revocation keeps of a row.
OnlyRevokes(s) ==
  /\ row'[s].tok = row[s].tok /\ row'[s].fam = row[s].fam
  /\ row'[s].company = row[s].company
  /\ row[s].revoked => row'[s].revoked
  /\ row[s] = NoRow <=> row'[s] = NoRow

\* A row with some columns changed is no row only if it was none.
LEMMA RevokedRows ==
  ASSUME NEW r \in SessionRow, r = NoRow \/ r.tok # Nobody, NEW b \in BOOLEAN, r.revoked => b
  PROVE  [r EXCEPT !.revoked = b] = NoRow <=> r = NoRow
<1>1. r.revoked \in BOOLEAN
  BY DEF SessionRow
<1>2. CASE r = NoRow
  BY <1>1, <1>2, b = TRUE DEF NoRow
<1>3. CASE r # NoRow
  BY <1>3, RevokedColumns DEF NoRow
<1> QED BY <1>2, <1>3

LEMMA StoredRows ==
  ASSUME IInv, NEW s \in Calls
  PROVE  row[s] \in SessionRow /\ (row[s] = NoRow \/ row[s].tok # Nobody)
  BY RowFacts DEF IInv, RowsNameTheirTokens

LEMMA RevokeFamilyEffect ==
  ASSUME IInv, NEW c \in Calls, RevokeFamily(c)
  PROVE  /\ at[c] = "burn" /\ at'[c] = "reuse" /\ OthersWait(c)
         /\ UNCHANGED <<does, about, expired, claims, held>>
         /\ about[c] \in held /\ Presented(c, about[c])
         /\ \A s \in Calls :
              /\ OnlyRevokes(s)
              /\ row'[s].revoked <=> row[s].revoked \/ row[s].fam = claims[about[c]].fam
<1>1. /\ at[c] = "burn" /\ at' = [at EXCEPT ![c] = "reuse"]
      /\ UNCHANGED <<does, about, expired, claims, held>>
  BY DEF RevokeFamily, Go
<1>2. about[c] \in held /\ Presented(c, about[c])
  BY <1>1 DEF IInv, CallsProgress, Progress, Presented
<1>3. ASSUME NEW s \in Calls
      PROVE  /\ OnlyRevokes(s)
             /\ row'[s].revoked <=> row[s].revoked \/ row[s].fam = claims[about[c]].fam
  <2> DEFINE b == row[s].revoked \/ row[s].fam = claims[about[c]].fam
  <2>1. row[s] \in SessionRow /\ (row[s] = NoRow \/ row[s].tok # Nobody)
    BY StoredRows
  <2>2. b \in BOOLEAN /\ (row[s].revoked => b)
    BY <2>1 DEF SessionRow
  <2>3. row'[s] = [row[s] EXCEPT !.revoked = b]
    BY DEF RevokeFamily
  <2> HIDE DEF b
  <2>4. /\ row'[s].tok = row[s].tok /\ row'[s].fam = row[s].fam
        /\ row'[s].company = row[s].company /\ row'[s].revoked = b
        /\ row'[s] = NoRow <=> row[s] = NoRow
    BY <2>1, <2>2, <2>3, RevokedColumns, RevokedRows
  <2> QED BY <2>2, <2>4 DEF OnlyRevokes, b
<1> QED BY <1>1, <1>2, <1>3 DEF OthersWait, IInv, TypeOK

LEMMA RevokeOwnSessionEffect ==
  ASSUME IInv, NEW c \in Calls, RevokeOwnSession(c)
  PROVE  /\ at[c] = "revoke" /\ does[c] = "revoke" /\ about[c] \in Calls
         /\ at'[c] = "ok" /\ OthersWait(c)
         /\ UNCHANGED <<does, about, expired, claims, held>>
         /\ \A s \in Calls : OnlyRevokes(s)
         /\ \A s \in Calls \ {about[c]} : row'[s] = row[s]
<1>1. /\ at[c] = "revoke" /\ at' = [at EXCEPT ![c] = "ok"]
      /\ UNCHANGED <<does, about, expired, claims, held>>
  BY DEF RevokeOwnSession, Go
<1>2. does[c] = "revoke" /\ about[c] \in Calls
  BY <1>1 DEF IInv, CallsProgress, Progress
<1> DEFINE s == about[c]
<1>3. row[s] \in SessionRow /\ (row[s] = NoRow \/ row[s].tok # Nobody)
  BY <1>2, StoredRows
<1>4. row'[s] = [row[s] EXCEPT !.revoked = TRUE] /\ \A d \in Calls \ {s} : row'[d] = row[d]
  BY <1>2 DEF RevokeOwnSession, IInv, TypeOK
<1>5. /\ row'[s].tok = row[s].tok /\ row'[s].fam = row[s].fam
      /\ row'[s].company = row[s].company /\ row'[s].revoked = TRUE
      /\ row'[s] = NoRow <=> row[s] = NoRow
  BY <1>3, <1>4, TRUE \in BOOLEAN, RevokedColumns, RevokedRows
<1>6. \A d \in Calls : OnlyRevokes(d)
  BY <1>4, <1>5 DEF OnlyRevokes
<1> QED BY <1>1, <1>2, <1>4, <1>6 DEF OthersWait, IInv, TypeOK

\* The company switch writes its token over a live row, whatever token it names.
LEMMA BindEffect ==
  ASSUME IInv, NEW c \in Calls, BindSessionCompany(c)
  PROVE  LET s == claims[c].session IN
         /\ at[c] = "bind" /\ OthersWait(c) /\ UNCHANGED <<does, about, expired, claims>>
         /\ s \in Calls /\ claims[c].fam = c
         /\ \A d \in Calls \ {s} : row'[d] = row[d]
         /\ \/ at'[c] = "refused" /\ UNCHANGED <<row, held>>
            \/ /\ at'[c] = "ok" /\ ~row[s].revoked /\ row[s] # NoRow
               /\ row'[s].tok = c /\ row'[s].fam = c
               /\ row'[s].company = claims[c].company /\ row'[s].revoked = FALSE
               /\ row'[s] # NoRow
               /\ held \subseteq held' /\ held' \subseteq held \cup {c}
<1> DEFINE s == claims[c].session
<1>1. at[c] = "bind" /\ OthersWait(c) /\ UNCHANGED <<does, about, expired, claims>>
  BY DEF BindSessionCompany, Go, OthersWait, IInv, TypeOK
<1>2. s \in Calls /\ claims[c].fam = c
  BY <1>1 DEF IInv, CallsProgress, Progress
<1>3. CASE row[s].revoked
  BY <1>1, <1>2, <1>3 DEF BindSessionCompany, Go, IInv, TypeOK
<1>4. CASE ~row[s].revoked
  <2>1. /\ at' = [at EXCEPT ![c] = "ok"] /\ held' \in {held, held \cup {c}}
        /\ row' = [row EXCEPT ![s] = [tok |-> c, fam |-> claims[c].fam,
                                      company |-> claims[c].company, revoked |-> FALSE]]
    BY <1>4 DEF BindSessionCompany, Go, Deliver
  <2>2. row[s] # NoRow
    BY <1>2, <1>4, RowFacts DEF IInv
  <2> QED BY <1>1, <1>2, <1>4, <2>1, <2>2 DEF IInv, TypeOK, NoRow
<1> QED BY <1>3, <1>4

\* A refresh that finds its token current carries the claims of that token on.
LEMMA RefreshEffect ==
  ASSUME IInv, NEW c \in Calls, NEW t \in Calls, Refresh(c, t)
  PROVE  LET r == row[claims[t].session] IN
         /\ at[c] = "idle" /\ OthersWait(c) /\ UNCHANGED <<row, held, expired>>
         /\ does'[c] = "refresh" /\ about'[c] = t /\ t \in held
         /\ claims[t].session \in Calls /\ claims[c] = NoClaims
         /\ \A x \in Calls \ {c} : claims'[x] = claims[x]
         /\ \/ /\ at'[c] = "refused" /\ claims'[c] = NoClaims
               /\ t \in expired \/ (r.tok = t /\ r.revoked)
            \/ at'[c] = "burn" /\ claims'[c] = NoClaims /\ r.tok # t
            \/ at'[c] = "rotate" /\ claims'[c] = claims[t] /\ r.tok = t
<1> DEFINE s == claims[t].session
           r == row[s]
<1>1. /\ at[c] = "idle" /\ OthersWait(c) /\ UNCHANGED <<row, held, expired>>
      /\ does'[c] = "refresh" /\ about'[c] = t /\ t \in held
  BY DEF Refresh, Begin, OthersWait, IInv, TypeOK
<1>2. claims[c] = NoClaims
  BY <1>1 DEF IInv, CallsProgress, Progress
<1>3. s \in Calls
  BY <1>1 DEF IInv, HeldAreIssued, FamiliesOfSessions
<1>4. r.tok = t =>
        claims[t] = [session |-> s, fam |-> r.fam, company |-> r.company]
  BY <1>3, RowFacts DEF IInv, RowsNameTheirTokens
<1>5. IsCurrent(t) <=> r.tok = t
  BY <1>4 DEF IsCurrent
<1>6. CASE at' = [at EXCEPT ![c] = "refused"] /\ UNCHANGED claims
           /\ (t \in expired \/ (IsCurrent(t) /\ r.revoked))
  BY <1>1, <1>2, <1>3, <1>5, <1>6 DEF IInv, TypeOK
<1>7. CASE at' = [at EXCEPT ![c] = "burn"] /\ UNCHANGED claims /\ ~IsCurrent(t)
  BY <1>1, <1>2, <1>3, <1>5, <1>7 DEF IInv, TypeOK
<1>8. CASE at' = [at EXCEPT ![c] = "rotate"] /\ IsCurrent(t)
           /\ Mint(c, claims[t].session, r.fam, r.company)
  BY <1>1, <1>2, <1>3, <1>4, <1>5, <1>8 DEF Mint, IInv, TypeOK
<1> QED BY <1>6, <1>7, <1>8 DEF Refresh, Begin

LEMMA ReissueEffect ==
  ASSUME IInv, NEW c \in Calls, NEW t \in Calls, NEW company \in Companies,
         ReissueForCompany(c, t, company)
  PROVE  /\ at[c] = "idle" /\ OthersWait(c) /\ UNCHANGED <<row, held, expired>>
         /\ does'[c] = "switch" /\ at'[c] = "bind" /\ t \in held
         /\ claims[t].session \in Calls /\ claims[c] = NoClaims
         /\ claims'[c].session = claims[t].session /\ claims'[c].fam = c
         /\ \A x \in Calls \ {c} : claims'[x] = claims[x]
<1>1. /\ at[c] = "idle" /\ OthersWait(c) /\ UNCHANGED <<row, held, expired>>
      /\ does'[c] = "switch" /\ at'[c] = "bind" /\ t \in held
  BY DEF ReissueForCompany, Begin, Principal, OthersWait, IInv, TypeOK
<1>2. claims[c] = NoClaims
  BY <1>1 DEF IInv, CallsProgress, Progress
<1>3. claims[t].session \in Calls
  BY <1>1 DEF IInv, HeldAreIssued, FamiliesOfSessions
<1> QED BY <1>1, <1>2, <1>3 DEF ReissueForCompany, Mint, IInv, TypeOK

-----------------------------------------------------------------------------
(* The invariant is inductive: one lemma per part.                         *)

\* A call that does not move keeps what it has behind it.
LEMMA WaitingCall ==
  ASSUME CallsProgress, NEW d \in Calls,
         at'[d] = at[d], does'[d] = does[d], about'[d] = about[d], claims'[d] = claims[d],
         held \subseteq held', about[d] \in held => claims'[about[d]] = claims[about[d]],
         \A s \in Calls : row[s] # NoRow => row'[s] # NoRow,
         row[d] = NoRow => row'[d] = NoRow \/ at[d] \notin {"idle", "open"}
  PROVE  Progress(d)'
<1>1. Progress(d)
  BY DEF CallsProgress
<1>2. /\ does'[d] = "refresh" => about'[d] \in held'
      /\ at'[d] = "rotate" => claims'[d] = claims'[about'[d]]
  BY <1>1 DEF Progress
<1>3. at'[d] \in {"idle", "open"} => claims'[d] = NoClaims /\ row'[d] = NoRow
  BY <1>1 DEF Progress
<1>4. at'[d] = "revoke" =>
        does'[d] = "revoke" /\ about'[d] \in Calls /\ row'[about'[d]] # NoRow
  BY <1>1 DEF Progress
<1> QED BY <1>1, <1>2, <1>3, <1>4 DEF Progress, Done

LEMMA ProgressStep == IInv /\ [Next]_vars => CallsProgress'
<1> SUFFICES ASSUME IInv, [Next]_vars PROVE CallsProgress'
  OBVIOUS
<1> USE DEF CallsProgress, Progress, OthersWait, Done
<1>0. TypeOK /\ CallsProgress /\ held \subseteq Calls
  BY DEF IInv, TypeOK
<1>1. ASSUME NEW c \in Calls, OpenSession(c) PROVE CallsProgress'
  <2> SUFFICES ASSUME NEW d \in Calls PROVE Progress(d)'
    BY DEF CallsProgress
  <2>0. /\ at[c] = "open" /\ at'[c] = "ok" /\ OthersWait(c)
        /\ UNCHANGED <<does, about, expired>> /\ held \subseteq held'
        /\ \A s \in Calls \ {c} : row'[s] = row[s] /\ claims'[s] = claims[s]
        /\ row'[c] # NoRow
    BY <1>1, OpenSessionEffect
  <2>1. CASE d = c
    <3>1. does[c] # "refresh"
      BY <1>0, <2>0
    <3> QED BY <2>0, <2>1, <3>1
  <2>2. CASE d # c
    <3>1. about[d] \in held => about[d] # c
      BY <2>0 DEF IInv, HeldAreIssued
    <3> HIDE DEF CallsProgress, Progress, Done
    <3> QED BY <1>0, <2>0, <2>2, <3>1, WaitingCall
  <2> QED BY <2>1, <2>2
<1>2. ASSUME NEW c \in Calls, Rotate(c) PROVE CallsProgress'
  <2> SUFFICES ASSUME NEW d \in Calls PROVE Progress(d)'
    BY DEF CallsProgress
  <2>0. /\ at[c] = "rotate" /\ at'[c] \in {"ok", "burn"} /\ OthersWait(c)
        /\ UNCHANGED <<does, about, claims>> /\ held \subseteq held'
        /\ \A s \in Calls : row'[s] = row[s] \/ (row[s] # NoRow /\ row'[s] # NoRow)
    BY <1>2, RotateEffect
  <2>1. CASE d = c
    BY <1>0, <2>0, <2>1
  <2>2. CASE d # c
    <3>1. row[d] = NoRow => row'[d] = NoRow
      BY <2>0
    <3>2. \A s \in Calls : row[s] # NoRow => row'[s] # NoRow
      BY <2>0
    <3> HIDE DEF CallsProgress, Progress, Done
    <3> QED BY <1>0, <2>0, <2>2, <3>1, <3>2, WaitingCall
  <2> QED BY <2>1, <2>2
<1>3. ASSUME NEW c \in Calls, RevokeFamily(c) PROVE CallsProgress'
  BY <1>0, <1>3, RevokeFamilyEffect DEF OnlyRevokes
<1>4. ASSUME NEW c \in Calls, BindSessionCompany(c) PROVE CallsProgress'
  <2> SUFFICES ASSUME NEW d \in Calls PROVE Progress(d)'
    BY DEF CallsProgress
  <2>0. /\ at[c] = "bind" /\ at'[c] \in {"ok", "refused"} /\ OthersWait(c)
        /\ UNCHANGED <<does, about, claims>> /\ held \subseteq held'
        /\ \A s \in Calls : row'[s] = row[s] \/ (row[s] # NoRow /\ row'[s] # NoRow)
    BY <1>4, BindEffect
  <2>1. CASE d = c
    BY <1>0, <2>0, <2>1
  <2>2. CASE d # c
    <3>1. row[d] = NoRow => row'[d] = NoRow
      BY <2>0
    <3>2. \A s \in Calls : row[s] # NoRow => row'[s] # NoRow
      BY <2>0
    <3> HIDE DEF CallsProgress, Progress, Done
    <3> QED BY <1>0, <2>0, <2>2, <3>1, <3>2, WaitingCall
  <2> QED BY <2>1, <2>2
<1>5. ASSUME NEW c \in Calls, RevokeOwnSession(c) PROVE CallsProgress'
  BY <1>0, <1>5, RevokeOwnSessionEffect DEF OnlyRevokes
<1>6. ASSUME NEW c \in Calls, NEW t \in Calls, Refresh(c, t) PROVE CallsProgress'
  BY <1>0, <1>6, RefreshEffect DEF IInv, HeldAreIssued
<1>7. ASSUME NEW c \in Calls, NEW t \in Calls, NEW company \in Companies,
             ReissueForCompany(c, t, company)
      PROVE CallsProgress'
  BY <1>0, <1>7, ReissueEffect DEF IInv, HeldAreIssued
<1>8. ASSUME Quiet PROVE CallsProgress'
  BY <1>0, <1>8 DEF Quiet, callVars
<1> QED BY <1>0, <1>1, <1>2, <1>3, <1>4, <1>5, <1>6, <1>7, <1>8, StepKinds

\* Nothing is forgotten: a token keeps its claims, a held one stays held, an
\* answered call stays answered and a begun one keeps its subject.
Remembers ==
  /\ held \subseteq held' /\ expired \subseteq expired'
  /\ \A x \in Calls : claims[x] # NoClaims => claims'[x] = claims[x]
  /\ \A x \in Calls : at[x] \in Done => at'[x] = at[x]
  /\ \A x \in Calls : at[x] # "idle" => does'[x] = does[x] /\ about'[x] = about[x]
  /\ \A s \in Calls : row[s] # NoRow => row'[s] # NoRow
  /\ \A t \in held' \ held : at'[t] = "ok" /\ claims'[t] # NoClaims

LEMMA RemembersStep == IInv /\ [Next]_vars => Remembers
<1> SUFFICES ASSUME IInv, [Next]_vars PROVE Remembers
  OBVIOUS
<1> USE DEF Remembers, OthersWait, Done
<1>0. TypeOK /\ held \subseteq Calls /\ expired \subseteq Calls
  BY DEF IInv, TypeOK
<1>1. ASSUME NEW c \in Calls, OpenSession(c) PROVE Remembers
  <2>1. /\ at[c] = "open" /\ at'[c] = "ok" /\ OthersWait(c)
        /\ UNCHANGED <<does, about, expired>> /\ claims[c] = NoClaims
        /\ \A s \in Calls \ {c} : row'[s] = row[s] /\ claims'[s] = claims[s]
        /\ held \subseteq held' /\ held' \subseteq held \cup {c}
    BY <1>1, OpenSessionEffect
  <2>2. row'[c] # NoRow /\ claims'[c] = [session |-> c, fam |-> c, company |-> NoCompany]
    BY <1>1, OpenSessionEffect
  <2>3. claims'[c] # NoClaims
    BY <2>2, AuthAssumption DEF NoClaims
  <2>4. row'[c] # NoRow
    BY <2>2
  <2> QED BY <1>0, <2>1, <2>3, <2>4
<1>2. ASSUME NEW c \in Calls, Rotate(c) PROVE Remembers
  <2>0. about[c] \in held /\ claims[c] = claims[about[c]]
    BY <1>2, RotateEffect
  <2>1. claims[c] # NoClaims
    BY <2>0 DEF IInv, HeldAreIssued
  <2>2. /\ at[c] = "rotate" /\ OthersWait(c) /\ UNCHANGED <<does, about, expired, claims>>
        /\ \A s \in Calls : row'[s] = row[s] \/ row'[s] # NoRow
        /\ held \subseteq held' /\ (held' = held \/ (at'[c] = "ok" /\ held' \subseteq held \cup {c}))
    BY <1>2, RotateEffect
  <2> QED BY <1>0, <2>1, <2>2
<1>3. ASSUME NEW c \in Calls, RevokeFamily(c) PROVE Remembers
  BY <1>0, <1>3, RevokeFamilyEffect DEF OnlyRevokes
<1>4. ASSUME NEW c \in Calls, BindSessionCompany(c) PROVE Remembers
  <2>1. /\ at[c] = "bind" /\ OthersWait(c) /\ UNCHANGED <<does, about, expired, claims>>
        /\ \A s \in Calls : row'[s] = row[s] \/ row'[s] # NoRow
        /\ held \subseteq held' /\ (held' = held \/ (at'[c] = "ok" /\ held' \subseteq held \cup {c}))
        /\ claims[c].session \in Calls
    BY <1>4, BindEffect
  <2>2. claims[c] # NoClaims
    BY <2>1, AuthAssumption DEF NoClaims
  <2> QED BY <1>0, <2>1, <2>2
<1>5. ASSUME NEW c \in Calls, RevokeOwnSession(c) PROVE Remembers
  BY <1>0, <1>5, RevokeOwnSessionEffect DEF OnlyRevokes
<1>6. ASSUME NEW c \in Calls, NEW t \in Calls, Refresh(c, t) PROVE Remembers
  BY <1>0, <1>6, RefreshEffect
<1>7. ASSUME NEW c \in Calls, NEW t \in Calls, NEW company \in Companies,
             ReissueForCompany(c, t, company)
      PROVE Remembers
  BY <1>0, <1>7, ReissueEffect
<1>8. ASSUME Quiet PROVE Remembers
  BY <1>0, <1>8 DEF Quiet, callVars
<1> QED BY <1>0, <1>1, <1>2, <1>3, <1>4, <1>5, <1>6, <1>7, <1>8, StepKinds

LEMMA HeldStep == IInv /\ [Next]_vars => HeldAreIssued'
<1> SUFFICES ASSUME IInv, [Next]_vars PROVE HeldAreIssued'
  OBVIOUS
<1>1. held \subseteq Calls /\ held' \subseteq Calls
  BY TypeStep DEF IInv, TypeOK
<1> QED BY <1>1, RemembersStep DEF IInv, Remembers, HeldAreIssued, Done

\* A token is minted for the session, and within a family, of one that is held;
\* or it opens a session or a family of its own.
LEMMA MintedTokens ==
  ASSUME IInv, [Next]_vars, NEW x \in Calls, claims'[x] # claims[x]
  PROVE  /\ claims[x] = NoClaims
         /\ at[x] \in {"idle", "open"}
         /\ \/ claims'[x].session = x /\ claims'[x].fam = x
            \/ \E t \in held : /\ claims'[x].session = claims[t].session
                               /\ claims'[x].fam \in {x, claims[t].fam}
<1>1. TypeOK
  BY DEF IInv
<1>2. ASSUME NEW c \in Calls, OpenSession(c)
      PROVE  x = c /\ claims[x] = NoClaims /\ at[x] = "open"
             /\ claims'[x].session = x /\ claims'[x].fam = x
  <2>1. /\ at[c] = "open" /\ claims[c] = NoClaims
        /\ \A s \in Calls \ {c} : claims'[s] = claims[s]
        /\ claims'[c] = [session |-> c, fam |-> c, company |-> NoCompany]
    BY <1>2, OpenSessionEffect
  <2>2. x = c
    BY <2>1
  <2> QED BY <2>1, <2>2
<1>3. ASSUME NEW c \in Calls, Rotate(c) \/ RevokeFamily(c) \/ BindSessionCompany(c)
                              \/ RevokeOwnSession(c)
      PROVE  claims' = claims
  BY <1>3 DEF Rotate, RevokeFamily, BindSessionCompany, RevokeOwnSession
<1>4. ASSUME NEW c \in Calls, NEW t \in Calls, Refresh(c, t)
      PROVE  x = c /\ claims[x] = NoClaims /\ at[x] = "idle" /\ t \in held
             /\ claims'[x] = claims[t]
  BY <1>4, RefreshEffect
<1>5. ASSUME NEW c \in Calls, NEW t \in Calls, NEW company \in Companies,
             ReissueForCompany(c, t, company)
      PROVE  x = c /\ claims[x] = NoClaims /\ at[x] = "idle" /\ t \in held
             /\ claims'[x].session = claims[t].session /\ claims'[x].fam = x
  BY <1>5, ReissueEffect
<1>6. ASSUME Quiet PROVE claims' = claims
  BY <1>6 DEF Quiet
<1> QED BY <1>1, <1>2, <1>3, <1>4, <1>5, <1>6, StepKinds

LEMMA FamiliesStep == IInv /\ [Next]_vars => FamiliesOfSessions'
<1> SUFFICES ASSUME IInv, [Next]_vars, NEW x \in Calls, claims'[x] # NoClaims
             PROVE  LET f == claims'[x].fam IN
                      /\ claims'[x].session \in Calls
                      /\ f \in Calls
                      /\ claims'[f].session = claims'[x].session
                      /\ f = x \/ at'[f] = "ok"
  BY DEF FamiliesOfSessions
<1>0. \A y \in Calls : claims[y] # NoClaims =>
        LET f == claims[y].fam IN
          /\ claims[y].session \in Calls /\ f \in Calls
          /\ claims[f].session = claims[y].session /\ claims[f] # NoClaims
          /\ f = y \/ at[f] = "ok"
  BY AuthAssumption DEF IInv, FamiliesOfSessions, NoClaims
<1>1. \A y \in Calls : /\ claims[y] # NoClaims => claims'[y] = claims[y]
                       /\ at[y] = "ok" => at'[y] = "ok"
  BY RemembersStep DEF Remembers, Done
<1>2. CASE claims'[x] = claims[x]
  BY <1>0, <1>1, <1>2
<1>3. CASE claims'[x] # claims[x]
  <2>1. CASE claims'[x].session = x /\ claims'[x].fam = x
    BY <2>1
  <2>2. ASSUME NEW t \in held, claims'[x].session = claims[t].session,
               claims'[x].fam \in {x, claims[t].fam}
        PROVE  LET f == claims'[x].fam IN
                 /\ claims'[x].session \in Calls
                 /\ f \in Calls
                 /\ claims'[f].session = claims'[x].session
                 /\ f = x \/ at'[f] = "ok"
    <3>1. t \in Calls /\ claims[t] # NoClaims /\ at[t] = "ok"
      BY DEF IInv, HeldAreIssued, TypeOK
    <3> QED BY <1>0, <1>1, <2>2, <3>1
  <2> QED BY <1>3, <2>1, <2>2, MintedTokens
<1> QED BY <1>2, <1>3

-----------------------------------------------------------------------------
(* How a row changes.                                                      *)

\* The transaction of c stores its token in a row that was live or did not
\* exist: it opens a family of its own, or succeeds the token it was called with.
StoresToken(c, s) ==
  /\ at[c] \in {"open", "rotate", "bind"} /\ at'[c] = "ok"
  /\ row[s] = NoRow \/ ~row[s].revoked
  /\ row'[s] # NoRow /\ row'[s].revoked = FALSE /\ row'[s].tok = c
  /\ claims'[c] # NoClaims
  /\ claims'[c].session = s
  /\ claims'[c].fam = row'[s].fam
  /\ claims'[c].company = row'[s].company
  /\ \/ row'[s].fam = c
     \/ row'[s].fam = row[s].fam /\ row[s] # NoRow /\ Presented(c, row[s].tok)

LEMMA OpenSessionStores ==
  ASSUME IInv, NEW c \in Calls, OpenSession(c)
  PROVE  StoresToken(c, c) /\ \A s \in Calls \ {c} : row'[s] = row[s]
<1>1. /\ at[c] = "open" /\ at'[c] = "ok" /\ row[c] = NoRow
      /\ row'[c] # NoRow /\ row'[c].revoked = FALSE /\ row'[c].tok = c
      /\ row'[c].fam = c /\ row'[c].company = NoCompany
      /\ \A s \in Calls \ {c} : row'[s] = row[s]
  BY OpenSessionEffect
<1>2. claims'[c] = [session |-> c, fam |-> c, company |-> NoCompany]
  BY OpenSessionEffect
<1>3. claims'[c] # NoClaims
  BY <1>2, AuthAssumption DEF NoClaims
<1> QED BY <1>1, <1>2, <1>3 DEF StoresToken

LEMMA RotateStores ==
  ASSUME IInv, NEW c \in Calls, Rotate(c)
  PROVE  LET s == claims[c].session IN
         /\ s \in Calls /\ \A d \in Calls \ {s} : row'[d] = row[d]
         /\ row' = row \/ StoresToken(c, s)
<1> DEFINE s == claims[c].session
           t == about[c]
<1>1. /\ at[c] = "rotate" /\ s \in Calls /\ t \in held /\ Presented(c, t)
      /\ claims[c] = claims[t] /\ claims' = claims
      /\ \A d \in Calls \ {s} : row'[d] = row[d]
  BY RotateEffect
<1>2. CASE row' = row
  BY <1>1, <1>2
<1>3. CASE row' # row
  <2>1. /\ at'[c] = "ok" /\ row[s].tok = t /\ ~row[s].revoked
        /\ row'[s].tok = c /\ row'[s].fam = row[s].fam
        /\ row'[s].company = row[s].company /\ row'[s].revoked = FALSE
        /\ row'[s] # NoRow /\ row[s] # NoRow
    BY <1>3, RotateEffect
  <2>2. claims[t] = [session |-> s, fam |-> row[s].fam, company |-> row[s].company]
    BY <1>1, <2>1 DEF IInv, RowsNameTheirTokens
  <2>3. claims[t] # NoClaims
    BY <1>1 DEF IInv, HeldAreIssued
  <2>4. /\ claims'[c].session = s /\ claims'[c].fam = row'[s].fam
        /\ claims'[c].company = row'[s].company
    BY <1>1, <2>1, <2>2
  <2> QED BY <1>1, <2>1, <2>3, <2>4 DEF StoresToken
<1> QED BY <1>2, <1>3

LEMMA BindStores ==
  ASSUME IInv, NEW c \in Calls, BindSessionCompany(c)
  PROVE  LET s == claims[c].session IN
         /\ s \in Calls /\ \A d \in Calls \ {s} : row'[d] = row[d]
         /\ row' = row \/ StoresToken(c, s)
<1>1. /\ at[c] = "bind" /\ claims' = claims /\ claims[c].session \in Calls /\ claims[c].fam = c
      /\ \A d \in Calls \ {claims[c].session} : row'[d] = row[d]
  BY BindEffect
<1>2. claims[c] # NoClaims
  BY <1>1, AuthAssumption DEF NoClaims
<1> QED BY <1>1, <1>2, BindEffect DEF StoresToken

LEMMA RowChanges ==
  ASSUME IInv, [Next]_vars, NEW s \in Calls
  PROVE  OnlyRevokes(s) \/ \E c \in Calls : StoresToken(c, s)
<1>0. TypeOK
  BY DEF IInv
<1>1. row'[s] = row[s] => OnlyRevokes(s)
  BY DEF OnlyRevokes
<1>2. ASSUME NEW c \in Calls, OpenSession(c)
      PROVE OnlyRevokes(s) \/ \E d \in Calls : StoresToken(d, s)
  BY <1>1, <1>2, OpenSessionStores
<1>3. ASSUME NEW c \in Calls, Rotate(c)
      PROVE OnlyRevokes(s) \/ \E d \in Calls : StoresToken(d, s)
  BY <1>1, <1>3, RotateStores
<1>4. ASSUME NEW c \in Calls, BindSessionCompany(c)
      PROVE OnlyRevokes(s) \/ \E d \in Calls : StoresToken(d, s)
  BY <1>1, <1>4, BindStores
<1>5. ASSUME NEW c \in Calls, RevokeFamily(c) \/ RevokeOwnSession(c) PROVE OnlyRevokes(s)
  BY <1>5, RevokeFamilyEffect, RevokeOwnSessionEffect
<1>6. ASSUME NEW c \in Calls, NEW t \in Calls, Refresh(c, t) PROVE OnlyRevokes(s)
  BY <1>1, <1>6 DEF Refresh
<1>7. ASSUME NEW c \in Calls, NEW t \in Calls, NEW company \in Companies,
             ReissueForCompany(c, t, company)
      PROVE OnlyRevokes(s)
  BY <1>1, <1>7 DEF ReissueForCompany
<1>8. ASSUME Quiet PROVE OnlyRevokes(s)
  BY <1>1, <1>8 DEF Quiet
<1> QED BY <1>0, <1>2, <1>3, <1>4, <1>5, <1>6, <1>7, <1>8, StepKinds

\* A token reaches a client only in the step that stores it.
LEMMA DeliveredTokens ==
  ASSUME IInv, [Next]_vars, NEW t \in held' \ held
  PROVE  t \in Calls /\ claims'[t].session \in Calls /\ row'[claims'[t].session].tok = t
<1>0. TypeOK
  BY DEF IInv
<1>1. ASSUME NEW c \in Calls, OpenSession(c)
      PROVE  t = c /\ claims'[c].session = c /\ row'[c].tok = c
  <2>1. held' \subseteq held \cup {c}
    BY <1>1, OpenSessionEffect
  <2>2. StoresToken(c, c)
    BY <1>1, OpenSessionStores
  <2> QED BY <2>1, <2>2 DEF StoresToken
<1>2. ASSUME NEW c \in Calls, Rotate(c)
      PROVE  t = c /\ claims'[c].session \in Calls /\ row'[claims'[c].session].tok = c
  <2>1. claims' = claims /\ claims[c].session \in Calls
    BY <1>2, RotateEffect
  <2>2. held' \subseteq held \cup {c} /\ row'[claims[c].session].tok = c
    BY <1>2, RotateEffect
  <2> QED BY <2>1, <2>2
<1>3. ASSUME NEW c \in Calls, BindSessionCompany(c)
      PROVE  t = c /\ claims'[c].session \in Calls /\ row'[claims'[c].session].tok = c
  <2>1. claims' = claims /\ claims[c].session \in Calls
    BY <1>3, BindEffect
  <2>2. held' \subseteq held \cup {c} /\ row'[claims[c].session].tok = c
    BY <1>3, BindEffect
  <2> QED BY <2>1, <2>2
<1>4. ASSUME NEW c \in Calls, RevokeFamily(c) \/ RevokeOwnSession(c) PROVE held' = held
  BY <1>4 DEF RevokeFamily, RevokeOwnSession
<1>5. ASSUME NEW c \in Calls, NEW u \in Calls, Refresh(c, u) PROVE held' = held
  BY <1>5 DEF Refresh
<1>6. ASSUME NEW c \in Calls, NEW u \in Calls, NEW company \in Companies,
             ReissueForCompany(c, u, company)
      PROVE held' = held
  BY <1>6 DEF ReissueForCompany
<1>7. ASSUME Quiet PROVE held' = held
  BY <1>7 DEF Quiet
<1> QED BY <1>0, <1>1, <1>2, <1>3, <1>4, <1>5, <1>6, <1>7, StepKinds

LEMMA RowsStep == IInv /\ [Next]_vars => RowsNameTheirTokens'
<1> SUFFICES ASSUME IInv, [Next]_vars, NEW s \in Calls, row'[s] # NoRow
             PROVE  LET k == row'[s].tok IN
                      /\ k \in Calls /\ at'[k] = "ok"
                      /\ claims'[k] = [session |-> s, fam |-> row'[s].fam,
                                       company |-> row'[s].company]
  BY DEF RowsNameTheirTokens
<1>0. /\ \A x \in Calls : claims[x] # NoClaims => claims'[x] = claims[x]
      /\ \A x \in Calls : at[x] = "ok" => at'[x] = "ok"
  BY RemembersStep DEF Remembers, Done
<1>1. CASE OnlyRevokes(s)
  <2> DEFINE k == row[s].tok
  <2>1. /\ k \in Calls /\ at[k] = "ok"
        /\ claims[k] = [session |-> s, fam |-> row[s].fam, company |-> row[s].company]
    BY <1>1 DEF OnlyRevokes, IInv, RowsNameTheirTokens
  <2>2. claims[k] # NoClaims
    BY <2>1, AuthAssumption DEF NoClaims
  <2> QED BY <1>0, <1>1, <2>1, <2>2 DEF OnlyRevokes
<1>2. ASSUME NEW c \in Calls, StoresToken(c, s)
      PROVE  LET k == row'[s].tok IN
               /\ k \in Calls /\ at'[k] = "ok"
               /\ claims'[k] = [session |-> s, fam |-> row'[s].fam,
                                company |-> row'[s].company]
  <2>1. claims' \in [Calls -> [session : Names, fam : Names, company : Tenants]]
    BY TypeStep DEF IInv, TypeOK
  <2>2. claims'[c] \in [session : Names, fam : Names, company : Tenants]
    BY <2>1
  <2>3. claims'[c] = [session |-> s, fam |-> row'[s].fam, company |-> row'[s].company]
    BY <1>2, <2>2 DEF StoresToken
  <2> QED BY <1>2, <2>3 DEF StoresToken
<1> QED BY <1>1, <1>2, RowChanges

\* What is known of a held token.
LEMMA HeldFacts ==
  ASSUME IInv, NEW t \in held
  PROVE  /\ t \in Calls /\ at[t] = "ok" /\ claims[t] # NoClaims
         /\ claims[t].session \in Calls /\ claims[t].fam \in Calls
         /\ claims[t].fam = t \/ at[claims[t].fam] = "ok"
         /\ \A s \in Calls : row[s].fam = claims[t].fam => s = claims[t].session
         /\ \A s \in Calls : row[s].tok = t =>
              s = claims[t].session /\ row[s].fam = claims[t].fam
         /\ \A s \in Calls : row[s].fam = claims[t].fam => row[s] # NoRow
<1>1. t \in Calls /\ at[t] = "ok" /\ claims[t] # NoClaims
  BY DEF IInv, HeldAreIssued, TypeOK
<1>2. /\ claims[t].session \in Calls /\ claims[t].fam \in Calls
      /\ claims[claims[t].fam].session = claims[t].session
      /\ claims[t].fam = t \/ at[claims[t].fam] = "ok"
  BY <1>1 DEF IInv, FamiliesOfSessions
<1>3. ASSUME NEW s \in Calls, row[s].fam = claims[t].fam
      PROVE  s = claims[t].session /\ row[s] # NoRow
  <2>1. row[s] # NoRow
    BY <1>2, <1>3, AuthAssumption DEF NoRow
  <2>2. /\ row[s].tok \in Calls
        /\ claims[row[s].tok] = [session |-> s, fam |-> row[s].fam, company |-> row[s].company]
    BY <2>1 DEF IInv, RowsNameTheirTokens
  <2>3. claims[row[s].tok] # NoClaims
    BY <2>2, AuthAssumption DEF NoClaims
  <2>4. claims[row[s].fam].session = s
    BY <2>2, <2>3 DEF IInv, FamiliesOfSessions
  <2> QED BY <1>2, <1>3, <2>1, <2>4
<1>4. ASSUME NEW s \in Calls, row[s].tok = t
      PROVE  s = claims[t].session /\ row[s].fam = claims[t].fam
  <2>1. row[s] # NoRow
    BY <1>1, <1>4, AuthAssumption DEF NoRow
  <2>2. claims[t] = [session |-> s, fam |-> row[s].fam, company |-> row[s].company]
    BY <1>4, <2>1 DEF IInv, RowsNameTheirTokens
  <2> QED BY <2>2
<1> QED BY <1>1, <1>2, <1>3, <1>4

\* A token that a row gives up was spent by the refresh that succeeds it.
LEMMA SpentStep == IInv /\ [Next]_vars => SpentTokens'
<1> SUFFICES ASSUME IInv, [Next]_vars, NEW t \in held'
             PROVE  LET r == row'[claims'[t].session] IN
                      \/ r.tok = t
                      \/ r.fam # claims'[t].fam
                      \/ \E d \in Calls : Presented(d, t)' /\ at'[d] = "ok"
  BY DEF SpentTokens
<1>1. CASE t \notin held
  BY <1>1, DeliveredTokens
<1>2. CASE t \in held
  <2> DEFINE s == claims[t].session
  <2>1. /\ t \in Calls /\ s \in Calls /\ at[t] = "ok" /\ claims[t] # NoClaims
        /\ claims[t].fam = t \/ at[claims[t].fam] = "ok"
    BY <1>2, HeldFacts
  <2>2. claims'[t] = claims[t]
    BY <2>1, RemembersStep DEF Remembers
  <2>3. \A d \in Calls : Presented(d, t) /\ at[d] = "ok" => Presented(d, t)' /\ at'[d] = "ok"
    BY RemembersStep DEF Remembers, Done, Presented
  <2>4. \/ row[s].tok = t
        \/ row[s].fam # claims[t].fam
        \/ \E d \in Calls : Presented(d, t) /\ at[d] = "ok"
    BY <1>2 DEF IInv, SpentTokens
  <2>5. CASE OnlyRevokes(s)
    BY <2>2, <2>3, <2>4, <2>5 DEF OnlyRevokes
  <2>6. ASSUME NEW c \in Calls, StoresToken(c, s)
        PROVE  \/ row'[s].fam # claims[t].fam
               \/ \E d \in Calls : Presented(d, t)' /\ at'[d] = "ok"
    <3>1. CASE row'[s].fam = c
      BY <2>1, <2>6, <3>1 DEF StoresToken
    <3>2. CASE row'[s].fam = row[s].fam /\ Presented(c, row[s].tok)
      <4>1. does'[c] = "refresh" /\ about'[c] = row[s].tok /\ at'[c] = "ok"
        BY <2>6, <3>2, RemembersStep DEF StoresToken, Remembers, Presented
      <4>2. CASE row[s].tok = t
        BY <4>1, <4>2 DEF Presented
      <4>3. CASE row[s].fam # claims[t].fam
        BY <3>2, <4>3
      <4>4. ASSUME NEW d \in Calls, Presented(d, t), at[d] = "ok"
            PROVE  \E e \in Calls : Presented(e, t)' /\ at'[e] = "ok"
        BY <2>3, <4>4
      <4> QED BY <2>4, <4>2, <4>3, <4>4
    <3> QED BY <2>6, <3>1, <3>2 DEF StoresToken
  <2> QED BY <2>1, <2>2, <2>5, <2>6, RowChanges
<1> QED BY <1>1, <1>2

\* How a presented token comes to its answer.
LEMMA PresentationSteps ==
  ASSUME IInv, [Next]_vars, NEW c \in Calls, does'[c] = "refresh", at'[c] # "failed"
  PROVE  \/ at'[c] = at[c] /\ does[c] = "refresh" /\ about'[c] = about[c] /\ about[c] \in held
         \/ \E t \in Calls : Refresh(c, t)
         \/ Rotate(c)
         \/ RevokeFamily(c)
<1> USE DEF OthersWait
<1>0. TypeOK /\ Progress(c)
  BY DEF IInv, CallsProgress
<1>1. ASSUME NEW d \in Calls, OthersWait(d), d # c
      PROVE  at'[c] = at[c] /\ does[c] = "refresh" /\ about'[c] = about[c] /\ about[c] \in held
  BY <1>0, <1>1 DEF Progress
<1>2. ~OpenSession(c) /\ ~BindSessionCompany(c) /\ ~RevokeOwnSession(c)
  BY <1>0 DEF OpenSession, BindSessionCompany, RevokeOwnSession, Go, Progress, Done
<1>3. ASSUME NEW d \in Calls, \/ OpenSession(d) \/ Rotate(d) \/ RevokeFamily(d)
                              \/ BindSessionCompany(d) \/ RevokeOwnSession(d)
      PROVE  OthersWait(d)
  BY <1>0, <1>3 DEF OpenSession, Rotate, RevokeFamily, BindSessionCompany, RevokeOwnSession, Go,
     TypeOK
<1>4. ASSUME NEW d \in Calls, NEW t \in Calls, Refresh(d, t) PROVE OthersWait(d)
  BY <1>4, RefreshEffect
<1>5. ASSUME NEW d \in Calls, NEW t \in Calls, NEW company \in Companies,
             ReissueForCompany(d, t, company)
      PROVE  OthersWait(d) /\ d # c
  BY <1>5, ReissueEffect
<1>6. ASSUME Quiet
      PROVE  at'[c] = at[c] /\ does[c] = "refresh" /\ about'[c] = about[c] /\ about[c] \in held
  BY <1>0, <1>1, <1>6 DEF Quiet, Progress, callVars, Done
<1> QED BY <1>0, <1>1, <1>2, <1>3, <1>4, <1>5, <1>6, StepKinds

\* A refused token stays the one its revoked row names, a spent one never
\* returns, and a burnt family stays revoked.
LEMMA AnswersStep == IInv /\ [Next]_vars => AnswersLast'
<1> SUFFICES ASSUME IInv, [Next]_vars, NEW c \in Calls, NEW t \in held',
                    does'[c] = "refresh", about'[c] = t, at'[c] # "failed"
             PROVE  AnswerLasts(c, t)'
  BY DEF AnswersLast, AnswerLasts, Presented
<1>1. ASSUME at'[c] = at[c], does[c] = "refresh", about'[c] = about[c], about[c] \in held
      PROVE  AnswerLasts(c, t)'
  <2> DEFINE u == claims[t].session
  <2>1. t \in held /\ Presented(c, t)
    BY <1>1 DEF Presented
  <2>2. /\ t \in Calls /\ u \in Calls /\ at[t] = "ok" /\ claims[t] # NoClaims
        /\ claims[t].fam = t \/ at[claims[t].fam] = "ok"
    BY <2>1, HeldFacts
  <2>3. claims'[t] = claims[t] /\ expired \subseteq expired'
    BY <2>2, RemembersStep DEF Remembers
  <2>4. /\ at[c] = "ok" => row[u].tok # t
        /\ at[c] = "burn" => row[u].tok # t \/ row[u].revoked
        /\ at[c] = "refused" /\ t \notin expired => row[u].tok = t /\ row[u].revoked
        /\ at[c] = "reuse" => \A s \in Calls : row[s].fam = claims[t].fam => row[s].revoked
    BY <2>1 DEF IInv, AnswersLast, AnswerLasts
  <2>5. ASSUME NEW s \in Calls
        PROVE  /\ row[s].tok # t => row'[s].tok # t
               /\ row[s].revoked /\ row[s] # NoRow =>
                    row'[s].revoked /\ row'[s].tok = row[s].tok
               /\ row'[s].fam = claims[t].fam =>
                    row[s].fam = claims[t].fam /\ (row[s].revoked => row'[s].revoked)
    <3>1. CASE OnlyRevokes(s)
      BY <3>1 DEF OnlyRevokes
    <3>2. ASSUME NEW d \in Calls, StoresToken(d, s)
          PROVE  /\ d # t /\ row'[s].tok = d
                 /\ row[s] = NoRow \/ ~row[s].revoked
                 /\ row'[s].fam = claims[t].fam =>
                      row[s].fam = claims[t].fam /\ row[s] # NoRow
      BY <2>2, <3>2 DEF StoresToken
    <3> QED BY <3>1, <3>2, RowChanges
  <2>6. row[u].tok = t => row[u] # NoRow
    BY <2>2, RowFacts DEF IInv
  <2>7. at[c] = "burn" /\ row[u].revoked => row'[u].tok # t \/ row'[u].revoked
    BY <2>2, <2>5, <2>6
  <2> QED BY <1>1, <2>2, <2>3, <2>4, <2>5, <2>6, <2>7 DEF AnswerLasts
<1>2. ASSUME Refresh(c, t)
      PROVE  AnswerLasts(c, t)'
  <2>1. t \in held
    BY <1>2 DEF Refresh
  <2>2. t \in Calls /\ claims[t] # NoClaims
    BY <2>1, HeldFacts
  <2>3. claims'[t] = claims[t] /\ row' = row /\ expired' = expired
    BY <1>2, <2>2, RemembersStep, RefreshEffect DEF Remembers
  <2>4. LET r == row[claims[t].session] IN
          \/ at'[c] = "refused" /\ (t \in expired \/ (r.tok = t /\ r.revoked))
          \/ at'[c] = "burn" /\ r.tok # t
          \/ at'[c] = "rotate"
    BY <1>2, <2>2, RefreshEffect
  <2> QED BY <2>3, <2>4 DEF AnswerLasts
<1>3. ASSUME Rotate(c)
      PROVE  AnswerLasts(c, t)'
  <2>1. /\ at[c] = "rotate" /\ about[c] = t /\ t \in held /\ claims' = claims
        /\ claims[c] = claims[t]
    BY <1>3, RotateEffect
  <2>2. \/ at'[c] = "ok" /\ row'[claims[c].session].tok = c
        \/ /\ at'[c] = "burn" /\ row' = row
           /\ row[claims[c].session].tok # t \/ row[claims[c].session].revoked
    BY <1>3, <2>1, RotateEffect
  <2>3. t # c
    BY <2>1, HeldFacts
  <2> QED BY <2>1, <2>2, <2>3 DEF AnswerLasts
<1>4. ASSUME RevokeFamily(c)
      PROVE  AnswerLasts(c, t)'
  <2>1. at'[c] = "reuse" /\ about[c] = t /\ claims' = claims
    BY <1>4, RevokeFamilyEffect
  <2>2. \A s \in Calls : /\ row'[s].fam = row[s].fam
                         /\ row[s].fam = claims[t].fam => row'[s].revoked
    BY <1>4, <2>1, RevokeFamilyEffect DEF OnlyRevokes
  <2> QED BY <2>1, <2>2 DEF AnswerLasts
<1>5. ASSUME NEW u \in Calls, Refresh(c, u) PROVE u = t
  BY <1>5, RefreshEffect
<1> QED BY <1>1, <1>2, <1>3, <1>4, <1>5, PresentationSteps

\* The compare-and-set lets one refresh succeed a token.
LEMMA SuccessorStep == IInv /\ [Next]_vars => OneSuccessor'
<1> SUFFICES ASSUME IInv, [Next]_vars, NEW c \in Calls, NEW d \in Calls, NEW t \in Calls,
                    Presented(c, t)', Presented(d, t)', at'[c] = "ok", at'[d] = "ok"
             PROVE  c = d
  BY DEF OneSuccessor
<1>1. ASSUME NEW e \in Calls, Presented(e, t)', at'[e] = "ok"
      PROVE  \/ Presented(e, t) /\ at[e] = "ok" /\ t \in held
             \/ Rotate(e)
  <2>1. ASSUME NEW u \in Calls, Refresh(e, u) PROVE at'[e] # "ok"
    BY <2>1, RefreshEffect
  <2>2. ASSUME RevokeFamily(e) PROVE at'[e] # "ok"
    BY <2>2, RevokeFamilyEffect
  <2> QED BY <1>1, <2>1, <2>2, PresentationSteps DEF Presented
<1>2. ASSUME NEW e \in Calls, Rotate(e), Presented(e, t)', at'[e] = "ok"
      PROVE  /\ OthersWait(e) /\ at[e] = "rotate" /\ t \in held
             /\ row[claims[t].session].tok = t
  <2>1. /\ about' = about /\ OthersWait(e) /\ at[e] = "rotate"
        /\ about[e] \in held /\ claims[e] = claims[about[e]]
    BY <1>2, RotateEffect
  <2>3. about[e] = t
    BY <1>2, <2>1 DEF Presented
  <2>2. row[claims[e].session].tok = about[e]
    BY <1>2, RotateEffect
  <2> QED BY <2>1, <2>2, <2>3
<1>3. ASSUME NEW e \in Calls, NEW f \in Calls, Rotate(e), Presented(e, t)', at'[e] = "ok",
             Presented(f, t), at[f] = "ok"
      PROVE  FALSE
  BY <1>2, <1>3 DEF IInv, AnswersLast, AnswerLasts
<1>4. CASE Rotate(c) /\ Rotate(d)
  BY <1>2, <1>4 DEF OthersWait
<1>5. CASE ~Rotate(c) /\ ~Rotate(d)
  BY <1>1, <1>5 DEF IInv, OneSuccessor
<1> QED BY <1>1, <1>3, <1>4, <1>5

\* Between a verification and its write only an enrolment changes the secret.
LEMMA EnrolmentStep ==
  IInv /\ [Next]_vars => EnrolmentsAreVerified' /\ EnabledSecretIsConfirmed'
<1> SUFFICES ASSUME IInv, [Next]_vars PROVE EnrolmentsAreVerified' /\ EnabledSecretIsConfirmed'
  OBVIOUS
<1> USE DEF EnrolmentsAreVerified, EnabledSecretIsConfirmed
<1>0. /\ TypeOK /\ EnrolmentsAreVerified /\ EnabledSecretIsConfirmed
      /\ at \in [Calls -> {"idle", "open", "rotate", "burn", "bind", "revoke", "enable",
                           "password"} \cup Done]
      /\ about \in [Calls -> Names]
  BY DEF IInv, TypeOK
<1>1. ASSUME UNCHANGED <<profile, confirmed, crossed>>,
             \A c \in Calls : at'[c] = "enable" => at[c] = "enable" /\ about'[c] = about[c]
      PROVE  EnrolmentsAreVerified' /\ EnabledSecretIsConfirmed'
  BY <1>0, <1>1
<1>2. ASSUME NEW c \in Calls, \/ OpenSession(c) \/ Rotate(c) \/ RevokeFamily(c)
                              \/ BindSessionCompany(c) \/ RevokeOwnSession(c) \/ Fail(c)
      PROVE EnrolmentsAreVerified' /\ EnabledSecretIsConfirmed'
  BY <1>0, <1>1, <1>2 DEF OpenSession, Rotate, RevokeFamily, BindSessionCompany,
     RevokeOwnSession, Fail, Go
<1>3. ASSUME NEW c \in Calls, Register(c) \/ Login(c) \/ SetPasswordHash(c)
      PROVE EnrolmentsAreVerified' /\ EnabledSecretIsConfirmed'
  <2>1. profile \in [password : Names, secret : Names, enabled : BOOLEAN, leaving : Names]
    BY <1>0 DEF TypeOK
  <2>2. /\ profile'.secret = profile.secret /\ profile'.enabled = profile.enabled
        /\ UNCHANGED <<confirmed, crossed>>
    BY <1>3, <2>1 DEF Register, Login, SetPasswordHash
  <2>3. \A d \in Calls : at'[d] = "enable" => at[d] = "enable" /\ about'[d] = about[d]
    BY <1>0, <1>3 DEF Register, Login, SetPasswordHash, Begin, Go
  <2> QED BY <1>0, <2>2, <2>3
<1>4. ASSUME NEW c \in Calls, EnableTotp(c)
      PROVE EnrolmentsAreVerified' /\ EnabledSecretIsConfirmed'
  <2>1. profile \in [password : Names, secret : Names, enabled : BOOLEAN, leaving : Names]
    BY <1>0 DEF TypeOK
  <2>2. profile'.secret = profile.secret /\ UNCHANGED <<confirmed, crossed>> /\ at[c] = "enable"
    BY <1>4, <2>1 DEF EnableTotp, Go
  <2>3. \A d \in Calls : at'[d] = "enable" => at[d] = "enable" /\ about'[d] = about[d]
    BY <1>0, <1>4 DEF EnableTotp, Go
  <2> QED BY <1>0, <2>2, <2>3
<1>5. ASSUME NEW c \in Calls, NEW t \in Calls,
             \/ Refresh(c, t) \/ \E m \in Companies : ReissueForCompany(c, t, m)
             \/ \E s \in Calls : RevokeSession(c, t, s)
             \/ ChangePassword(c, t)
      PROVE EnrolmentsAreVerified' /\ EnabledSecretIsConfirmed'
  BY <1>0, <1>1, <1>5 DEF Refresh, ReissueForCompany, RevokeSession, ChangePassword, Begin
<1>6. ASSUME NEW c \in Calls, NEW t \in Calls, EnrollTotp(c, t)
      PROVE EnrolmentsAreVerified' /\ EnabledSecretIsConfirmed'
  <2>1. profile'.enabled = FALSE /\ confirmed' = confirmed
    BY <1>0, <1>6 DEF EnrollTotp, TypeOK
  <2>2. \A d \in Calls : at'[d] = "enable" => at[d] = "enable" /\ about'[d] = about[d]
    BY <1>0, <1>6 DEF EnrollTotp, Begin
  <2>3. (\E d \in Calls : at[d] = "enable") => crossed'
    BY <1>6 DEF EnrollTotp
  <2> QED BY <1>0, <2>1, <2>2, <2>3
<1>7. ASSUME NEW c \in Calls, NEW t \in Calls, VerifyTotpEnrolment(c, t)
      PROVE EnrolmentsAreVerified' /\ EnabledSecretIsConfirmed'
  <2>1. /\ profile' = profile /\ crossed' = crossed /\ confirmed \subseteq confirmed'
        /\ at'[c] = "enable" => profile.secret \in confirmed'
        /\ about'[c] = profile.secret
        /\ \A d \in Calls \ {c} : at'[d] = at[d] /\ about'[d] = about[d]
    BY <1>0, <1>7 DEF VerifyTotpEnrolment, Begin
  <2> QED BY <1>0, <2>1
<1>8. ASSUME NEW c \in Calls, NEW t \in Calls, RequestAccountDeletion(c, t)
      PROVE EnrolmentsAreVerified' /\ EnabledSecretIsConfirmed'
  <2>1. profile \in [password : Names, secret : Names, enabled : BOOLEAN, leaving : Names]
    BY <1>0 DEF TypeOK
  <2>2. /\ profile'.secret = profile.secret /\ profile'.enabled = profile.enabled
        /\ UNCHANGED <<confirmed, crossed>>
    BY <1>8, <2>1 DEF RequestAccountDeletion
  <2>3. \A d \in Calls : at'[d] = "enable" => at[d] = "enable" /\ about'[d] = about[d]
    BY <1>0, <1>8 DEF RequestAccountDeletion, Begin
  <2> QED BY <1>0, <2>2, <2>3
<1>9. ASSUME NEW t \in Calls, Expire(t) PROVE EnrolmentsAreVerified' /\ EnabledSecretIsConfirmed'
  BY <1>0, <1>1, <1>9 DEF Expire, callVars
<1>10. CASE UNCHANGED vars
  BY <1>0, <1>1, <1>10 DEF vars, callVars
<1> QED
  BY <1>2, <1>3, <1>4, <1>5, <1>6, <1>7, <1>8, <1>9, <1>10 DEF Next, Step, OnToken

\* A family is burnt by the second of two refreshes with one token.
LEMMA HonestStep == IInv /\ [Next]_vars => HonestClientsStaySignedIn'
<1> SUFFICES ASSUME IInv, [Next]_vars, NEW s \in Calls, row'[s] # NoRow
             PROVE  IF row'[s].revoked
                      THEN \/ \E c \in Calls : does'[c] = "revoke" /\ about'[c] = s
                           \/ \E c, d, t \in Calls : /\ c # d /\ Presented(c, t)' /\ Presented(d, t)'
                                                     /\ claims'[t].session = s
                      ELSE row'[s].company = claims'[row'[s].tok].company
  BY DEF HonestClientsStaySignedIn
<1>0. TypeOK
  BY DEF IInv
<1> DEFINE AskedFor == \E c \in Calls : does[c] = "revoke" /\ about[c] = s
           SpentTwice == \E c, d, t \in Calls : /\ c # d /\ Presented(c, t) /\ Presented(d, t)
                                                /\ claims[t].session = s
<1>1. row'[s].company = claims'[row'[s].tok].company
  <2>1. claims'[row'[s].tok] = [session |-> s, fam |-> row'[s].fam, company |-> row'[s].company]
    BY RowsStep DEF RowsNameTheirTokens
  <2> QED BY <2>1
<1>2. ASSUME NEW c \in Calls, does[c] = "revoke", about[c] = s
      PROVE  does'[c] = "revoke" /\ about'[c] = s
  <2>1. at[c] # "idle"
    BY <1>2 DEF IInv, CallsProgress, Progress
  <2> QED BY <1>2, <2>1, RemembersStep DEF Remembers
<1>3. ASSUME NEW c \in Calls, NEW t \in Calls, Presented(c, t)
      PROVE  Presented(c, t)' /\ claims'[t] = claims[t]
  <2>1. at[c] # "idle" /\ t \in held
    BY <1>3 DEF IInv, CallsProgress, Progress, Presented
  <2>2. claims[t] # NoClaims
    BY <2>1 DEF IInv, HeldAreIssued
  <2> QED BY <1>3, <2>1, <2>2, RemembersStep DEF Remembers, Presented
<1>4. CASE AskedFor \/ SpentTwice
  BY <1>1, <1>2, <1>3, <1>4
<1>5. CASE row'[s].revoked /\ ~(AskedFor \/ SpentTwice)
  <2>1. OnlyRevokes(s) /\ row[s] # NoRow
    BY <1>5, RowChanges DEF StoresToken, OnlyRevokes
  <2>2. row[s].revoked = FALSE
    <3>1. ~row[s].revoked
      BY <1>5, <2>1 DEF IInv, HonestClientsStaySignedIn
    <3> QED BY <3>1, RowFacts DEF IInv, SessionRow
  <2>3. row'[s] # row[s]
    BY <1>5, <2>2
  <2>4. ASSUME NEW c \in Calls, RevokeOwnSession(c) PROVE AskedFor
    BY <2>3, <2>4, RevokeOwnSessionEffect
  <2>5. ASSUME NEW c \in Calls, RevokeFamily(c) PROVE SpentTwice
    <3> DEFINE t == about[c]
    <3>1. /\ at[c] = "burn" /\ t \in held /\ Presented(c, t)
          /\ row[s].fam = claims[t].fam
      BY <1>5, <2>2, <2>5, RevokeFamilyEffect
    <3>2. t \in Calls /\ claims[t].session = s
      BY <3>1, HeldFacts
    <3>3. row[s].tok # t
      BY <2>2, <3>1, <3>2 DEF IInv, AnswersLast, AnswerLasts
    <3>4. PICK d \in Calls : Presented(d, t) /\ at[d] = "ok"
      BY <3>1, <3>2, <3>3 DEF IInv, SpentTokens
    <3> QED BY <3>1, <3>2, <3>4
  <2>6. ASSUME NEW c \in Calls, OpenSession(c) PROVE FALSE
    BY <2>1, <2>3, <2>6, OpenSessionEffect, OpenSessionStores
  <2>7. ASSUME NEW c \in Calls, Rotate(c) PROVE FALSE
    BY <1>5, <2>1, <2>2, <2>3, <2>7, RotateStores DEF StoresToken
  <2>8. ASSUME NEW c \in Calls, BindSessionCompany(c) PROVE FALSE
    BY <1>5, <2>1, <2>2, <2>3, <2>8, BindStores DEF StoresToken
  <2>9. (\E c, t \in Calls : Refresh(c, t)) => row' = row
    BY DEF Refresh
  <2>10. (\E c, t \in Calls, m \in Companies : ReissueForCompany(c, t, m)) => row' = row
    BY DEF ReissueForCompany
  <2>11. Quiet => row' = row
    BY DEF Quiet
  <2>12. AskedFor \/ SpentTwice
    <3> HIDE DEF AskedFor, SpentTwice
    <3> QED BY <1>0, <2>3, <2>4, <2>5, <2>6, <2>7, <2>8, <2>9, <2>10, <2>11, StepKinds
  <2> QED BY <1>5, <2>12
<1> QED BY <1>1, <1>4, <1>5

-----------------------------------------------------------------------------
(* The theorems.                                                           *)

\* The inductive invariant: every token is where the call that minted it put it,
\* and the answer to a presented token stays true.
THEOREM AuthInvariant == Spec => []IInv
<1>1. Init => IInv
  <2> SUFFICES ASSUME Init PROVE IInv
    OBVIOUS
  <2>1. TypeOK
    BY DEF Init, TypeOK, Names, Tenants, NoRow, NoClaims
  <2>2. CallsProgress /\ FamiliesOfSessions /\ RowsNameTheirTokens /\ HonestClientsStaySignedIn
    BY DEF Init, CallsProgress, Progress, FamiliesOfSessions, RowsNameTheirTokens,
       HonestClientsStaySignedIn
  <2>3. HeldAreIssued /\ SpentTokens /\ AnswersLast /\ OneSuccessor /\ EnrolmentsAreVerified
    BY DEF Init, HeldAreIssued, SpentTokens, AnswersLast, OneSuccessor, EnrolmentsAreVerified,
       Presented
  <2>4. EnabledSecretIsConfirmed
    BY DEF Init, EnabledSecretIsConfirmed
  <2> QED BY <2>1, <2>2, <2>3, <2>4 DEF IInv
<1>2. IInv /\ [Next]_vars => IInv'
  <2> SUFFICES ASSUME IInv, [Next]_vars PROVE IInv'
    OBVIOUS
  <2>1. TypeOK'
    BY TypeStep DEF IInv
  <2> QED BY <2>1, ProgressStep, HeldStep, FamiliesStep, RowsStep, SpentStep, AnswersStep,
             SuccessorStep, EnrolmentStep, HonestStep DEF IInv
<1> QED BY <1>1, <1>2, PTL DEF Spec

\* The profile, the sessions, the tokens and the calls keep their types.
THEOREM AuthTypeCorrect == Spec => []TypeOK
<1>1. IInv => TypeOK
  BY DEF IInv
<1> QED BY <1>1, AuthInvariant, PTL

\* A refresh token that was presented twice leaves no live session in its
\* family, whichever of the two won and whatever else ran in between.
THEOREM ReuseRevokesTheFamily == Spec => []ReuseKillsFamily
<1>1. IInv => ReuseKillsFamily
  <2> SUFFICES ASSUME IInv, NEW c \in Calls, NEW d \in Calls, NEW t \in Calls \ expired, c # d,
                      Presented(c, t), Presented(d, t),
                      at[c] \in {"ok", "refused", "reuse"}, at[d] \in {"ok", "refused", "reuse"},
                      NEW s \in Calls, row[s].fam = claims[t].fam
               PROVE  row[s].revoked
    BY DEF ReuseKillsFamily
  <2>1. t \in held
    BY DEF IInv, CallsProgress, Progress, Presented
  <2>2. s = claims[t].session
    BY <2>1, HeldFacts
  <2>3. AnswerLasts(c, t) /\ AnswerLasts(d, t)
    BY <2>1 DEF IInv, AnswersLast
  <2>4. ~(at[c] = "ok" /\ at[d] = "ok")
    BY DEF IInv, OneSuccessor
  <2> QED BY <2>2, <2>3, <2>4 DEF AnswerLasts
<1> QED BY <1>1, AuthInvariant, PTL

\* Nobody is signed out by a race of his own requests: a revoked session was
\* revoked on request or by a token that was presented twice.
THEOREM SessionsEndForAReason == Spec => []HonestClientsStaySignedIn
<1>1. IInv => HonestClientsStaySignedIn
  BY DEF IInv
<1> QED BY <1>1, AuthInvariant, PTL

\* Two-factor login is on with a verified secret, unless an enrolment fell
\* between a verification and its write.
THEOREM TwoFactorIsVerified == Spec => []EnabledSecretIsConfirmed
<1>1. IInv => EnabledSecretIsConfirmed
  BY DEF IInv
<1> QED BY <1>1, AuthInvariant, PTL
-----------------------------------------------------------------------------
(* The inductive invariant of the purchases.                               *)

Receiving(c) == req[c].op = "receive" /\ pc[c] \in Holding
Applying(c) == req[c].op = "receive" /\ pc[c] \in {"variant", "shelf", "finish"}

\* Every step belongs to the requests that take it.
StagesFit(c) ==
  /\ pc[c] \in {"number", "order", "lines"} => req[c].op = "create"
  /\ pc[c] \in {"lock", "check", "variant", "shelf"} => req[c].op = "receive"
  /\ pc[c] = "row" => req[c].op = "adjust"
  /\ pc[c] \notin {"variant", "shelf", "lines"} => todo[c] = {}
  /\ pc[c] = "lines" => todo[c] \subseteq DOMAIN req[c].lines
  /\ pc[c] = "check" => DOMAIN view[c].shelf = {} /\ DOMAIN view[c].cost = {}
  /\ req[c].op = "create" /\ pc[c] \in {"number", "order", "lines", "finish"} =>
       \A n \in DOMAIN req[c].lines : req[c].lines[n].variant \in VariantIds

\* An adjustment holds its level, from which its units can go.
AdjustmentHolds(c) ==
  req[c].op = "adjust" /\ pc[c] \in {"row", "finish"} =>
    shelfLock[AdjustedShelf(c)] = c /\ onHand[AdjustedShelf(c)] + req[c].delta >= 0

\* The requested lines whose roll-up and whose units are in the view.
Rolled(c) ==
  {n \in DOMAIN req[c].lines :
     pc[c] # "check" /\ (n \notin todo[c] \/ (pc[c] = "shelf" /\ IsNext(c, n)))}
Raised(c) == DOMAIN req[c].lines \ todo[c]
RaisedOf(c, v) == Bringing(c, v) \cap Raised(c)

\* A receipt holds its order, and sees its lines with its own roll-ups on top.
LineIsRolled(c, i) ==
  LET stored == order[req[c].order].lines[i]
      seen == view[c].lines[i]
  IN  /\ seen \in Line /\ seen.variant = stored.variant /\ seen.ordered = stored.ordered
      /\ seen.received = stored.received
           + Quantity(req[c].lines, Naming(req[c].lines, i) \cap Rolled(c))
      /\ seen.received <= seen.ordered
OrderIsHeld(c) ==
  Receiving(c) =>
    LET o == req[c].order
    IN  /\ order[o] # NoOrder /\ orderLock[o] = c
        /\ DOMAIN view[c].lines = DOMAIN order[o].lines
        /\ \A i \in DOMAIN order[o].lines : LineIsRolled(c, i)

\* The requested lines name lines of the order, and the warehouse is there.
LinesAreThere(c) ==
  Applying(c) =>
    /\ req[c].warehouse \in WarehouseIds /\ todo[c] \subseteq DOMAIN req[c].lines
    /\ \A n \in DOMAIN req[c].lines : Want(c, n).line \in DOMAIN view[c].lines

\* A level in the view is locked, and is the committed one with the units raised.
LevelIsHeld(c, v) ==
  LET s == ShelfOf(c, v)
  IN  /\ SeenOnHand(c, s) = onHand[s] + Quantity(req[c].lines, RaisedOf(c, v))
      /\ RaisedOf(c, v) # {} => s \in DOMAIN view[c].shelf
LevelsAreHeld(c) ==
  Applying(c) =>
    /\ DOMAIN view[c].shelf \subseteq {s \in Shelves : shelfLock[s] = c /\ s[1] = req[c].warehouse}
    /\ \A v \in VariantIds : LevelIsHeld(c, v)

\* Units at an average cost are worth what they have cost, less what divisions cut off.
Carries(value, units, cost, slack) == value - units * cost \in 0..slack

\* An average cost in the view is of a locked variant, and carries the cost of the
\* units of the only warehouse that holds it.
CarriesOwn(c, v) ==
  LET units == SeenOnHand(c, ShelfOf(c, v))
  IN  Carries(worth[v] + CostOf(c, RaisedOf(c, v)), units, SeenCost(c, v),
              dust[v] + Cardinality(RaisedOf(c, v)) * units)
CostIsHeld(c, v) ==
  /\ IF RaisedOf(c, v) = {} THEN SeenCost(c, v) = average[v]
     ELSE /\ v \in DOMAIN view[c].cost
          /\ SeenCost(c, v) \in Nat
          /\ Homes(v) \subseteq {req[c].warehouse} => CarriesOwn(c, v)
CostsAreHeld(c) ==
  Applying(c) =>
    /\ DOMAIN view[c].cost \subseteq {v \in VariantIds : variantLock[v] = c}
    /\ pc[c] = "shelf" =>
         \A n \in todo[c] : IsNext(c, n) => VariantOf(c, n) \in DOMAIN view[c].cost
    /\ \A v \in VariantIds : CostIsHeld(c, v)

\* A receipt in the tables is the whole request of a call that is done, of an order
\* that is there.
ReceiptIsWhole(c) ==
  receipt[c] # <<>> =>
    /\ req[c].op = "receive" /\ pc[c] = "done"
    /\ receipt[c] = req[c].lines /\ order[req[c].order] # NoOrder
    /\ \A n \in DOMAIN receipt[c] : receipt[c][n].line \in DOMAIN order[req[c].order].lines

OrderIsNew(c) == order[c] # NoOrder => pc[c] = "done"

PurchaseFits(c) ==
  /\ StagesFit(c) /\ OrderIsHeld(c) /\ LinesAreThere(c) /\ LevelsAreHeld(c) /\ CostsAreHeld(c)
  /\ ReceiptIsWhole(c) /\ OrderIsNew(c) /\ AdjustmentHolds(c)

Labels ==
  {"idle", "number", "order", "lines", "lock", "check", "variant", "shelf", "row", "finish"}
    \cup Final

PurchasingTypes ==
  /\ PurchasesTypes
  /\ DOMAIN order = OrderIds /\ DOMAIN receipt = Requests
  /\ pc \in [Requests -> Labels]
  /\ todo \in [Requests -> SUBSET Nat] /\ DOMAIN view = Requests
  /\ worth \in [VariantIds -> Int] /\ dust \in [VariantIds -> Nat]
  /\ \A c \in Requests : req[c] \in Request
  /\ IsFiniteSet({c \in Requests : pc[c] = "done"})

PurchasingInv ==
  /\ PurchasingTypes
  /\ \A c \in Requests : PurchaseFits(c)
  /\ ReceiptsAreAtomic
  /\ AverageCarriesTheCostOfOneWarehouse
-----------------------------------------------------------------------------
(* Requests, and the sums over their lines.                                *)

\* What a receipt's request has.
LEMMA ReceiptHas ==
  ASSUME NEW r \in Request, r.op = "receive"
  PROVE  /\ r.order \in OrderIds /\ r.warehouse \in Nat
         /\ r.lines # <<>> /\ r.lines \in Seq(ReceiptLineDto)
         /\ IsFiniteSet(DOMAIN r.lines) /\ DOMAIN r.lines \subseteq Nat
         /\ \A n \in DOMAIN r.lines : r.lines[n].line \in Nat /\ r.lines[n].quantity \in Nat \ {0}
<1>1. r \in CreateReceiptDto
  BY DEF Request, CreateReceiptDto, CreatePurchaseOrderDto, CreateAdjustmentDto
<1>2. r.order \in OrderIds /\ r.warehouse \in Nat /\ r.lines # <<>> /\ r.lines \in Seq(ReceiptLineDto)
  BY <1>1 DEF CreateReceiptDto
<1>3. DOMAIN r.lines = 1..Len(r.lines) /\ Len(r.lines) \in Nat
  BY <1>2
<1>4. \A n \in DOMAIN r.lines : r.lines[n] \in ReceiptLineDto
  BY <1>2
<1>5. IsFiniteSet(DOMAIN r.lines) /\ DOMAIN r.lines \subseteq Nat
  BY <1>3, FS_Interval
<1> QED BY <1>2, <1>4, <1>5 DEF ReceiptLineDto

\* What the request for an order has.
LEMMA CreateHas ==
  ASSUME NEW r \in Request, r.op = "create"
  PROVE  /\ \A n \in DOMAIN r.lines : r.lines[n] \in CreatePurchaseOrderLineDto
         /\ DOMAIN r.lines \subseteq Nat
<1>1. r \in CreatePurchaseOrderDto
  BY DEF Request, CreateReceiptDto, CreatePurchaseOrderDto, CreateAdjustmentDto
<1>2. r.lines \in Seq(CreatePurchaseOrderLineDto)
  BY <1>1 DEF CreatePurchaseOrderDto
<1>3. DOMAIN r.lines = 1..Len(r.lines)
  BY <1>2
<1> QED BY <1>2, <1>3

\* What an adjustment's request has.
LEMMA AdjustmentHas ==
  ASSUME NEW r \in Request, r.op = "adjust"
  PROVE  r.warehouse \in WarehouseIds /\ r.variant \in VariantIds /\ r.delta \in Int
<1>1. r \in CreateAdjustmentDto
  BY DEF Request, CreateReceiptDto, CreatePurchaseOrderDto, CreateAdjustmentDto
<1> QED BY <1>1 DEF CreateAdjustmentDto

\* Requests are of one of the three kinds.
LEMMA ThreeKinds ==
  ASSUME NEW r \in Request
  PROVE  r.op \in {"create", "receive", "adjust"}
BY DEF Request, CreateReceiptDto, CreatePurchaseOrderDto, CreateAdjustmentDto

\* The units that requested lines bring in.
LEMMA QuantitySums ==
  ASSUME NEW r \in Request, r.op = "receive", NEW places, places \subseteq DOMAIN r.lines
  PROVE  /\ Quantity(r.lines, places) \in Nat
         /\ Quantity(r.lines, {}) = 0
         /\ \A n \in DOMAIN r.lines \ places :
              Quantity(r.lines, places \cup {n}) = Quantity(r.lines, places) + r.lines[n].quantity
         /\ \A n \in places : Quantity(r.lines, places) > 0
<1> DEFINE f == [n \in DOMAIN r.lines |-> r.lines[n].quantity]
<1>1. IsFiniteSet(places) /\ \A n \in DOMAIN r.lines : f[n] \in Nat \ {0}
  BY ReceiptHas, FS_Subset
<1>2. SumFunctionOnSet(f, places) \in Nat
  BY <1>1, SumNat
<1>3. SumFunctionOnSet(f, {}) = 0
  BY SumEmpty
<1>4. ASSUME NEW n \in DOMAIN r.lines \ places
      PROVE  SumFunctionOnSet(f, places \cup {n}) = SumFunctionOnSet(f, places) + f[n]
  <2> HIDE DEF f
  <2>1. \A y \in places \cup {n} : f[y] \in Int
    BY <1>1
  <2>2. SumFunctionOnSet(f, places \cup {n}) = f[n] + SumFunctionOnSet(f, places)
    BY <1>1, <2>1, SumAdd
  <2> QED BY <1>1, <1>2, <2>2
<1>5. ASSUME NEW n \in places
      PROVE  SumFunctionOnSet(f, places) > 0
  <2> HIDE DEF f
  <2>1. SumFunctionOnSet(f, places) = f[n] + SumFunctionOnSet(f, places \ {n})
    BY <1>1, SumRemove
  <2>2. SumFunctionOnSet(f, places \ {n}) \in Nat
    BY <1>1, SumNat, FS_Subset
  <2> QED BY <1>1, <2>1, <2>2
<1> QED BY <1>2, <1>3, <1>4, <1>5 DEF Quantity

\* The lines of a receipt under way are lines, and name lines of the order.
LEMMA LinesAre ==
  ASSUME PurchasingTypes, NEW c \in Requests, Applying(c), OrderIsHeld(c), LinesAreThere(c)
  PROVE  /\ req[c] \in Request /\ req[c].op = "receive"
         /\ \A n \in DOMAIN req[c].lines :
              /\ LineOf(c, n) \in Line
              /\ Want(c, n).line \in DOMAIN order[req[c].order].lines
              /\ Want(c, n).quantity \in Nat \ {0}
<1>1. req[c] \in Request /\ req[c].op = "receive" /\ Receiving(c)
  BY DEF PurchasingTypes, Applying, Receiving, Holding
<1>2. \A n \in DOMAIN req[c].lines : req[c].lines[n].quantity \in Nat \ {0}
  BY <1>1, ReceiptHas
<1> QED BY <1>1, <1>2 DEF OrderIsHeld, LinesAreThere, LineIsRolled, Want, LineOf

\* What requested lines cost.
LEMMA CostSums ==
  ASSUME PurchasingTypes, NEW c \in Requests, Applying(c), OrderIsHeld(c), LinesAreThere(c),
         NEW places, places \subseteq DOMAIN req[c].lines
  PROVE  /\ CostOf(c, places) \in Nat
         /\ CostOf(c, {}) = 0
         /\ \A n \in DOMAIN req[c].lines \ places :
              CostOf(c, places \cup {n}) =
                CostOf(c, places) + Want(c, n).quantity * LineOf(c, n).cost
<1> DEFINE f == [n \in DOMAIN req[c].lines |-> Want(c, n).quantity * LineOf(c, n).cost]
<1>1. \A x, y \in Nat : x * y \in Nat
  OBVIOUS
<1>2. \A n \in DOMAIN req[c].lines : Want(c, n).quantity \in Nat /\ LineOf(c, n).cost \in Nat
  BY LinesAre DEF Line
<1>3. \A n \in DOMAIN req[c].lines : f[n] \in Nat
  BY <1>1, <1>2
<1>4. \A n \in DOMAIN req[c].lines : f[n] = Want(c, n).quantity * LineOf(c, n).cost
  OBVIOUS
<1>5. \A s : CostOf(c, s) = SumFunctionOnSet(f, s)
  BY DEF CostOf
<1> HIDE DEF f
<1>6. IsFiniteSet(places)
  BY LinesAre, ReceiptHas, FS_Subset
<1>7. SumFunctionOnSet(f, places) \in Nat /\ SumFunctionOnSet(f, {}) = 0
  BY <1>3, <1>6, SumNat, SumEmpty
<1>8. ASSUME NEW n \in DOMAIN req[c].lines \ places
      PROVE  SumFunctionOnSet(f, places \cup {n}) = SumFunctionOnSet(f, places) + f[n]
  <2>1. \A y \in places \cup {n} : f[y] \in Int
    BY <1>3
  <2>2. SumFunctionOnSet(f, places \cup {n}) = f[n] + SumFunctionOnSet(f, places)
    BY <1>6, <2>1, SumAdd
  <2> QED BY <1>3, <1>7, <2>2
<1> QED BY <1>4, <1>5, <1>7, <1>8

-----------------------------------------------------------------------------
(* What a step of one request leaves the others.                           *)

\* A request keeps its place, what it sees and the rows it has locked; its variant's
\* history stays, unless another warehouse has come to hold the variant.
Undisturbed(d) ==
  /\ pc'[d] = pc[d] /\ todo'[d] = todo[d] /\ view'[d] = view[d] /\ receipt'[d] = receipt[d]
  /\ req' = req
  /\ \A o \in OrderIds : order[o] # NoOrder /\ orderLock[o] = d =>
       order'[o] = order[o] /\ orderLock'[o] = d
  /\ \A o \in OrderIds : order[o] # NoOrder =>
       order'[o] # NoOrder /\ DOMAIN order'[o].lines = DOMAIN order[o].lines
  /\ order'[d] # NoOrder => order[d] # NoOrder
  /\ \A s \in Shelves : shelfLock[s] = d => shelfLock'[s] = d /\ onHand'[s] = onHand[s]
  /\ \A v \in VariantIds : variantLock[v] = d => variantLock'[v] = d /\ average'[v] = average[v]
  /\ \A v \in VariantIds :
       variantLock[v] = d /\ ShelfOf(d, v) \in Shelves /\ shelfLock[ShelfOf(d, v)] = d
         /\ Homes(v)' \subseteq {req[d].warehouse} =>
       Homes(v) \subseteq {req[d].warehouse} /\ worth'[v] = worth[v] /\ dust'[v] = dust[v]

\* A request that a step leaves undisturbed still fits.
LEMMA UndisturbedFits ==
  ASSUME PurchasingTypes, PurchasingTypes', NEW d \in Requests, PurchaseFits(d), Undisturbed(d)
  PROVE  PurchaseFits(d)'
<1>1. /\ pc'[d] = pc[d] /\ todo'[d] = todo[d] /\ view'[d] = view[d] /\ receipt'[d] = receipt[d]
      /\ req' = req
  BY DEF Undisturbed
<1>2. /\ StagesFit(d) /\ OrderIsHeld(d) /\ LinesAreThere(d) /\ LevelsAreHeld(d) /\ CostsAreHeld(d)
      /\ ReceiptIsWhole(d) /\ OrderIsNew(d) /\ AdjustmentHolds(d)
  BY DEF PurchaseFits
<1>3. /\ Receiving(d)' = Receiving(d) /\ Applying(d)' = Applying(d)
      /\ \A n : Want(d, n)' = Want(d, n) /\ LineOf(d, n)' = LineOf(d, n)
      /\ \A n : VariantOf(d, n)' = VariantOf(d, n) /\ IsNext(d, n)' = IsNext(d, n)
      /\ \A v : ShelfOf(d, v)' = ShelfOf(d, v)
  BY <1>1 DEF Receiving, Applying, Want, LineOf, VariantOf, IsNext, ShelfOf
<1>4. /\ Rolled(d)' = Rolled(d) /\ Raised(d)' = Raised(d)
      /\ \A v : Bringing(d, v)' = Bringing(d, v) /\ RaisedOf(d, v)' = RaisedOf(d, v)
  BY <1>1, <1>3 DEF Rolled, Raised, Bringing, RaisedOf
<1>5. \A places : CostOf(d, places)' = CostOf(d, places)
  BY <1>1, <1>3 DEF CostOf
<1>6. StagesFit(d)' /\ LinesAreThere(d)'
  BY <1>1, <1>2, <1>3 DEF StagesFit, LinesAreThere
<1>7. req[d].op = "receive" => req[d].order \in OrderIds
  BY ReceiptHas DEF PurchasingTypes
<1>8. OrderIsHeld(d)'
  <2>1. SUFFICES ASSUME Receiving(d)
                 PROVE  /\ order'[req[d].order] # NoOrder /\ orderLock'[req[d].order] = d
                        /\ DOMAIN view[d].lines = DOMAIN order'[req[d].order].lines
                        /\ \A i \in DOMAIN order'[req[d].order].lines : LineIsRolled(d, i)'
    BY <1>1, <1>3 DEF OrderIsHeld
  <2>2. /\ order[req[d].order] # NoOrder /\ orderLock[req[d].order] = d
        /\ DOMAIN view[d].lines = DOMAIN order[req[d].order].lines
        /\ \A i \in DOMAIN order[req[d].order].lines : LineIsRolled(d, i)
    BY <1>2, <2>1 DEF OrderIsHeld
  <2>3. order'[req[d].order] = order[req[d].order] /\ orderLock'[req[d].order] = d
    BY <1>7, <2>1, <2>2 DEF Undisturbed, Receiving
  <2>4. \A i : LineIsRolled(d, i)' = LineIsRolled(d, i)
    BY <1>1, <1>4, <2>3 DEF LineIsRolled
  <2> QED BY <2>2, <2>3, <2>4
<1>9. ASSUME Applying(d), NEW s \in DOMAIN view[d].shelf
      PROVE  /\ s \in Shelves /\ s[1] = req[d].warehouse /\ shelfLock[s] = d
             /\ shelfLock'[s] = d /\ onHand'[s] = onHand[s]
  BY <1>2, <1>9 DEF LevelsAreHeld, Undisturbed
<1>10. LevelsAreHeld(d)'
  <2>1. SUFFICES ASSUME Applying(d)
                 PROVE  /\ DOMAIN view[d].shelf \subseteq
                             {s \in Shelves : shelfLock'[s] = d /\ s[1] = req[d].warehouse}
                        /\ \A v \in VariantIds : LevelIsHeld(d, v)'
    BY <1>1, <1>3 DEF LevelsAreHeld
  <2>2. ASSUME NEW v \in VariantIds PROVE LevelIsHeld(d, v)'
    <3>1. LevelIsHeld(d, v)
      BY <1>2, <2>1 DEF LevelsAreHeld
    <3>2. CASE ShelfOf(d, v) \in DOMAIN view[d].shelf
      <4>1. onHand'[ShelfOf(d, v)] = onHand[ShelfOf(d, v)]
        BY <1>9, <2>1, <3>2
      <4> QED BY <1>1, <1>3, <1>4, <3>1, <3>2, <4>1 DEF LevelIsHeld, SeenOnHand
    <3>3. CASE ShelfOf(d, v) \notin DOMAIN view[d].shelf
      <4>1. RaisedOf(d, v) = {}
        BY <3>1, <3>3 DEF LevelIsHeld
      <4>2. Quantity(req[d].lines, {}) = 0
        BY <2>1, QuantitySums DEF PurchasingTypes, Applying
      <4>3. onHand'[ShelfOf(d, v)] \in Nat
        <5>1. ShelfOf(d, v) \in Shelves
          BY <1>2, <2>1 DEF LinesAreThere, ShelfOf, Shelves
        <5>2. onHand' \in [Shelves -> Nat]
          BY DEF PurchasingTypes, PurchasesTypes
        <5> QED BY <5>1, <5>2
      <4>4. SeenOnHand(d, ShelfOf(d, v))' = onHand'[ShelfOf(d, v)]
        BY <1>1, <1>3, <3>3 DEF SeenOnHand
      <4>5. Quantity(req'[d].lines, RaisedOf(d, v)') = 0
        BY <1>1, <1>4, <4>1, <4>2
      <4> QED BY <1>3, <1>4, <4>1, <4>3, <4>4, <4>5 DEF LevelIsHeld
    <3> QED BY <3>2, <3>3
  <2> QED BY <1>9, <2>1, <2>2
<1>11. ASSUME Applying(d), NEW v \in DOMAIN view[d].cost
       PROVE  /\ v \in VariantIds /\ variantLock[v] = d
              /\ variantLock'[v] = d /\ average'[v] = average[v]
  BY <1>2, <1>11 DEF CostsAreHeld, Undisturbed
<1>12. CostsAreHeld(d)'
  <2>1. SUFFICES ASSUME Applying(d)
                 PROVE  /\ DOMAIN view[d].cost \subseteq {v \in VariantIds : variantLock'[v] = d}
                        /\ \A v \in VariantIds : CostIsHeld(d, v)'
    BY <1>1, <1>2, <1>3 DEF CostsAreHeld
  <2>2. ASSUME NEW v \in VariantIds PROVE CostIsHeld(d, v)'
    <3>1. CostIsHeld(d, v)
      BY <1>2, <2>1 DEF CostsAreHeld
    <3>2. CASE RaisedOf(d, v) = {}
      BY <1>1, <1>4, <1>11, <2>1, <3>1, <3>2 DEF CostIsHeld, SeenCost
    <3>3. CASE RaisedOf(d, v) # {}
      <4>1. v \in DOMAIN view[d].cost /\ SeenCost(d, v) \in Nat
        BY <3>1, <3>3 DEF CostIsHeld
      <4>2. ShelfOf(d, v) \in DOMAIN view[d].shelf
        BY <1>2, <2>1, <3>3 DEF LevelsAreHeld, LevelIsHeld
      <4>3. /\ SeenCost(d, v)' = SeenCost(d, v)
            /\ SeenOnHand(d, ShelfOf(d, v))' = SeenOnHand(d, ShelfOf(d, v))
        BY <1>1, <1>3, <4>1, <4>2 DEF SeenCost, SeenOnHand
      <4>4. Homes(v)' \subseteq {req[d].warehouse} =>
              Homes(v) \subseteq {req[d].warehouse} /\ worth'[v] = worth[v] /\ dust'[v] = dust[v]
        BY <1>9, <1>11, <2>1, <4>1, <4>2 DEF Undisturbed
      <4>5. Homes(v)' \subseteq {req[d].warehouse} => CarriesOwn(d, v)'
        BY <1>4, <1>5, <3>1, <3>3, <4>3, <4>4 DEF CostIsHeld, CarriesOwn
      <4> QED BY <1>1, <1>4, <3>3, <4>1, <4>3, <4>5 DEF CostIsHeld
    <3> QED BY <3>2, <3>3
  <2> QED BY <1>11, <2>1, <2>2
<1>13. ReceiptIsWhole(d)' /\ OrderIsNew(d)'
  BY <1>1, <1>2, <1>7 DEF ReceiptIsWhole, OrderIsNew, Undisturbed
<1>14. AdjustmentHolds(d)'
  <2>1. req[d].op = "adjust" => AdjustedShelf(d) \in Shelves
    BY AdjustmentHas DEF PurchasingTypes, AdjustedShelf, Shelves
  <2>2. AdjustedShelf(d)' = AdjustedShelf(d)
    BY <1>1 DEF AdjustedShelf
  <2> QED BY <1>1, <1>2, <2>1, <2>2 DEF AdjustmentHolds, Undisturbed
<1> QED BY <1>6, <1>8, <1>10, <1>12, <1>13, <1>14 DEF PurchaseFits

-----------------------------------------------------------------------------
(* Steps that write no table.                                              *)

\* What every step of a request leaves alone: what the others see and have locked.
Alone(c) ==
  /\ req' = req
  /\ \A d \in Requests \ {c} : pc'[d] = pc[d] /\ todo'[d] = todo[d] /\ view'[d] = view[d]
  /\ \A d \in Requests \ {c} :
       /\ \A o \in OrderIds : orderLock'[o] = d <=> orderLock[o] = d
       /\ \A v \in VariantIds : variantLock'[v] = d <=> variantLock[v] = d
       /\ \A s \in Shelves : shelfLock'[s] = d <=> shelfLock[s] = d

LockTypes ==
  /\ orderLock \in [OrderIds -> Requests \cup {NoRequest}]
  /\ variantLock \in [VariantIds -> Requests \cup {NoRequest}]
  /\ shelfLock \in [Shelves -> Requests \cup {NoRequest}]
  /\ shared \in [Requests -> SUBSET VariantIds]

\* The locks a transaction leaves behind are those of the others.
LEMMA FreedLocks ==
  ASSUME NEW c \in Requests, NEW D, NEW lock \in [D -> Requests \cup {NoRequest}]
  PROVE  /\ Freed(lock, c) \in [D -> Requests \cup {NoRequest}]
         /\ \A x \in D : Freed(lock, c)[x] # c
         /\ \A d \in Requests \ {c} : \A x \in D : Freed(lock, c)[x] = d <=> lock[x] = d
BY PurchasingAssumption DEF Freed

\* A transaction that ends frees its own locks, and takes nothing from the others.
LEMMA EndedAlone ==
  ASSUME PurchasingTypes, NEW c \in Requests, NEW outcome, EndTransaction(c, outcome), req' = req
  PROVE  /\ Alone(c) /\ LockTypes' /\ todo'[c] = {} /\ todo' \in [Requests -> SUBSET Nat]
         /\ DOMAIN view' = Requests
         /\ pc' = [pc EXCEPT ![c] = outcome] /\ \A o \in OrderIds : orderLock'[o] # c
<1>1. /\ LockTypes /\ todo \in [Requests -> SUBSET Nat]
      /\ DOMAIN view = Requests /\ pc \in [Requests -> Labels]
  BY DEF PurchasingTypes, PurchasesTypes, LockTypes
<1>2. /\ pc' = [pc EXCEPT ![c] = outcome] /\ todo' = [todo EXCEPT ![c] = {}]
      /\ view' = [view EXCEPT ![c] = NoView]
  BY DEF EndTransaction, Goto
<1>3. /\ orderLock' \in [OrderIds -> Requests \cup {NoRequest}] /\ \A o \in OrderIds : orderLock'[o] # c
      /\ \A d \in Requests \ {c} : \A o \in OrderIds : orderLock'[o] = d <=> orderLock[o] = d
  BY <1>1, FreedLocks DEF EndTransaction, LockTypes
<1>4. /\ variantLock' \in [VariantIds -> Requests \cup {NoRequest}]
      /\ \A d \in Requests \ {c} : \A o \in VariantIds : variantLock'[o] = d <=> variantLock[o] = d
  BY <1>1, FreedLocks DEF EndTransaction, LockTypes
<1>5. /\ shelfLock' \in [Shelves -> Requests \cup {NoRequest}]
      /\ \A d \in Requests \ {c} : \A o \in Shelves : shelfLock'[o] = d <=> shelfLock[o] = d
  BY <1>1, FreedLocks DEF EndTransaction, LockTypes
<1>6. shared' \in [Requests -> SUBSET VariantIds]
  BY <1>1 DEF EndTransaction, LockTypes
<1> QED BY <1>1, <1>2, <1>3, <1>4, <1>5, <1>6 DEF Alone, LockTypes

\* The sets of requests that are done grow by the one that moves.
LEMMA DoneIsFinite ==
  ASSUME IsFiniteSet({d \in Requests : pc[d] = "done"}), NEW c \in Requests,
         \A d \in Requests \ {c} : pc'[d] = pc[d]
  PROVE  IsFiniteSet({d \in Requests : pc'[d] = "done"})
<1> DEFINE S == {d \in Requests : pc[d] = "done"}
<1>1. IsFiniteSet(S \cup {c})
  BY FS_AddElement
<1>2. {d \in Requests : pc'[d] = "done"} \subseteq S \cup {c}
  OBVIOUS
<1> QED BY <1>1, <1>2, FS_Subset

\* The types follow when no table is written.
LEMMA TypesFollowQuiet ==
  ASSUME PurchasingTypes, NEW c \in Requests, Alone(c), UNCHANGED <<tables, history>>,
         LockTypes', NEW label \in Labels, pc' = [pc EXCEPT ![c] = label],
         todo' \in [Requests -> SUBSET Nat], DOMAIN view' = Requests,
         label \notin Holding => \A o \in OrderIds : orderLock'[o] # c
  PROVE  PurchasingTypes'
<1>1. /\ UNCHANGED <<order, receipt, onHand, average, nextPo, worth, dust, req>>
      /\ \A d \in Requests \ {c} : pc'[d] = pc[d]
      /\ \A d \in Requests \ {c} : \A o \in OrderIds : orderLock'[o] = d <=> orderLock[o] = d
  BY DEF tables, history, Alone
<1>2. pc \in [Requests -> Labels] /\ pc' \in [Requests -> Labels] /\ pc'[c] = label
  BY DEF PurchasingTypes
<1>3. IsFiniteSet({d \in Requests : pc'[d] = "done"})
  BY <1>1, DoneIsFinite DEF PurchasingTypes
<1>4. PurchasesTypes'
  BY <1>1, <1>2 DEF PurchasesTypes, PurchasingTypes, LockTypes
<1> QED BY <1>1, <1>2, <1>3, <1>4 DEF PurchasingTypes

\* Nothing is summed but what the tables and the adjustments done say.
LEMMA SumsKept ==
  ASSUME UNCHANGED <<tables, req>>,
         \A d \in Requests : req[d].op = "adjust" => (pc'[d] = "done" <=> pc[d] = "done")
  PROVE  /\ \A o : ReceiptsOf(o)' = ReceiptsOf(o)
         /\ \A o, i : CameOf(o, i)' = CameOf(o, i)
         /\ \A w, v : /\ Brought(w, v)' = Brought(w, v) /\ Adjusted(w, v)' = Adjusted(w, v)
                      /\ Adjusters(w, v)' = Adjusters(w, v)
         /\ \A v : Homes(v)' = Homes(v)
<1>1. UNCHANGED <<order, receipt, onHand, average, req>>
  BY DEF tables
<1>2. \A o : ReceiptsOf(o)' = ReceiptsOf(o)
  BY <1>1 DEF ReceiptsOf
<1>3. \A w : ReceiptsInto(w)' = ReceiptsInto(w)
  BY <1>1 DEF ReceiptsInto
<1>4. \A w, v : Adjusters(w, v)' = Adjusters(w, v)
  BY <1>1 DEF Adjusters
<1>5. \A o, i : CameOf(o, i)' = CameOf(o, i)
  BY <1>1, <1>2 DEF CameOf
<1>6. \A c, v : Received(c, v)' = Received(c, v)
  BY <1>1 DEF Received
<1>7. \A w, v : Brought(w, v)' = Brought(w, v)
  BY <1>3, <1>6 DEF Brought
<1>8. \A w, v : Adjusted(w, v)' = Adjusted(w, v)
  BY <1>1, <1>4 DEF Adjusted
<1>9. \A v : Homes(v)' = Homes(v)
  BY <1>4, <1>7 DEF Homes
<1> QED BY <1>2, <1>4, <1>5, <1>7, <1>8, <1>9

\* What the tables say stays true of them.
LEMMA TablesKeep ==
  ASSUME PurchasingInv, UNCHANGED <<tables, history, req>>,
         \A d \in Requests : req[d].op = "adjust" => (pc'[d] = "done" <=> pc[d] = "done")
  PROVE  ReceiptsAreAtomic' /\ AverageCarriesTheCostOfOneWarehouse'
<1>1. ReceiptsAreAtomic /\ AverageCarriesTheCostOfOneWarehouse
  BY DEF PurchasingInv
<1>2. UNCHANGED <<order, receipt, onHand, average, nextPo, worth, dust, req, tables>>
  BY DEF tables, history
<1>3. /\ \A o : ReceiptsOf(o)' = ReceiptsOf(o)
      /\ \A o, i : CameOf(o, i)' = CameOf(o, i)
      /\ \A w, v : Brought(w, v)' = Brought(w, v) /\ Adjusted(w, v)' = Adjusted(w, v)
      /\ \A v : Homes(v)' = Homes(v)
  BY <1>2, SumsKept
<1>4. ReceiptsAreAtomic'
  <2>1. \A o : StatusAgrees(o)' = StatusAgrees(o)
    BY <1>2, <1>3 DEF StatusAgrees
  <2>2. \A o, i : LineAgrees(o, i)' = LineAgrees(o, i)
    BY <1>2, <1>3 DEF LineAgrees
  <2> QED BY <1>1, <1>2, <1>3, <2>1, <2>2 DEF ReceiptsAreAtomic
<1>5. AverageCarriesTheCostOfOneWarehouse'
  <2>1. \A v : CostIsCarried(v)' = CostIsCarried(v)
    BY <1>2 DEF CostIsCarried, UnitsOf
  <2> QED BY <1>1, <1>3, <2>1 DEF AverageCarriesTheCostOfOneWarehouse
<1> QED BY <1>4, <1>5

\* A step that writes no table keeps the invariant when the request that takes it fits.
LEMMA QuietKeeps ==
  ASSUME PurchasingInv, PurchasingTypes', NEW c \in Requests, Alone(c),
         UNCHANGED <<tables, history>>,
         req[c].op = "adjust" => (pc'[c] = "done" <=> pc[c] = "done"), PurchaseFits(c)'
  PROVE  PurchasingInv'
<1>1. /\ PurchasingTypes /\ \A d \in Requests : PurchaseFits(d)
      /\ ReceiptsAreAtomic /\ AverageCarriesTheCostOfOneWarehouse
  BY DEF PurchasingInv
<1>2. UNCHANGED <<order, receipt, onHand, average, nextPo, worth, dust, req, tables>>
  BY DEF tables, history, Alone
<1>3. \A d \in Requests \ {c} : pc'[d] = pc[d] /\ todo'[d] = todo[d] /\ view'[d] = view[d]
  BY DEF Alone
<1>4. /\ \A o : ReceiptsOf(o)' = ReceiptsOf(o)
      /\ \A o, i : CameOf(o, i)' = CameOf(o, i)
      /\ \A w, v : /\ Brought(w, v)' = Brought(w, v) /\ Adjusted(w, v)' = Adjusted(w, v)
                   /\ Adjusters(w, v)' = Adjusters(w, v)
      /\ \A v : Homes(v)' = Homes(v)
  BY <1>2, <1>3, SumsKept
<1>5. ASSUME NEW d \in Requests \ {c} PROVE PurchaseFits(d)'
  <2>1. Undisturbed(d)
    BY <1>2, <1>3, <1>4 DEF Undisturbed, Alone
  <2> QED BY <1>1, <2>1, UndisturbedFits
<1>6. ReceiptsAreAtomic' /\ AverageCarriesTheCostOfOneWarehouse'
  BY <1>2, <1>3, TablesKeep DEF history
<1> QED BY <1>5, <1>6 DEF PurchasingInv

\* A request that is not receiving has little to keep.
LEMMA AtRestFits ==
  ASSUME NEW c \in Requests, ~Receiving(c)', StagesFit(c)', ReceiptIsWhole(c)', OrderIsNew(c)',
         AdjustmentHolds(c)'
  PROVE  PurchaseFits(c)'
BY DEF PurchaseFits, OrderIsHeld, LinesAreThere, LevelsAreHeld, CostsAreHeld, Receiving, Applying,
       Holding

\* A request under way has written nothing yet.
LEMMA NothingWritten ==
  ASSUME PurchasingInv, NEW c \in Requests, pc[c] # "done"
  PROVE  receipt[c] = <<>> /\ order[c] = NoOrder
BY DEF PurchasingInv, PurchaseFits, ReceiptIsWhole, OrderIsNew

\* A transaction that is given up leaves nothing behind.
LEMMA LeaveKeeps ==
  ASSUME PurchasingInv, NEW c \in Requests, pc[c] # "done", NEW outcome \in Final \ {"done"},
         Leave(c, outcome)
  PROVE  PurchasingInv'
<1>1. EndTransaction(c, outcome) /\ UNCHANGED <<tables, history, req>> /\ PurchasingTypes
  BY DEF Leave, PurchasingInv
<1>2. /\ Alone(c) /\ LockTypes' /\ todo'[c] = {} /\ todo' \in [Requests -> SUBSET Nat]
      /\ DOMAIN view' = Requests
      /\ pc' = [pc EXCEPT ![c] = outcome] /\ \A o \in OrderIds : orderLock'[o] # c
  BY <1>1, EndedAlone
<1>3. PurchasingTypes' /\ pc'[c] = outcome
  BY <1>1, <1>2, TypesFollowQuiet DEF Labels, Final, Holding, PurchasingTypes
<1>4. receipt'[c] = <<>> /\ order'[c] = NoOrder
  BY <1>1, NothingWritten DEF tables
<1>5. PurchaseFits(c)'
  BY <1>2, <1>3, <1>4, AtRestFits DEF Final, Holding, Receiving, StagesFit, ReceiptIsWhole,
                                        OrderIsNew, AdjustmentHolds
<1> QED BY <1>1, <1>2, <1>3, <1>5, QuietKeeps

\* A step that writes no table, of a request that is not receiving.
LEMMA OtherStepKeeps ==
  ASSUME PurchasingInv, NEW c \in Requests, pc[c] # "done", Alone(c),
         NEW label \in Labels \ {"done"}, Goto(c, label), UNCHANGED <<tables, history>>, LockTypes',
         todo' \in [Requests -> SUBSET Nat], DOMAIN view' = Requests,
         \A o \in OrderIds : orderLock'[o] # c,
         ~Receiving(c)', StagesFit(c)', AdjustmentHolds(c)'
  PROVE  PurchasingInv'
<1>1. pc' = [pc EXCEPT ![c] = label] /\ PurchasingTypes
  BY DEF Goto, PurchasingInv
<1>2. pc'[c] = label /\ label # "done"
  BY <1>1 DEF PurchasingTypes
<1>3. PurchasingTypes'
  BY <1>1, TypesFollowQuiet
<1>4. receipt'[c] = <<>> /\ order'[c] = NoOrder
  BY NothingWritten DEF tables
<1>5. PurchaseFits(c)'
  BY <1>2, <1>4, AtRestFits DEF ReceiptIsWhole, OrderIsNew
<1> QED BY <1>2, <1>3, <1>5, QuietKeeps

\* Before and after its receipt a request has locked no order.
LEMMA HoldsNoOrder ==
  ASSUME PurchasingInv, NEW c \in Requests, pc[c] \notin Holding
  PROVE  \A o \in OrderIds : orderLock[o] # c
BY DEF PurchasingInv, PurchasingTypes, PurchasesTypes

\* A step that only moves the request on, among those that are not receiving.
LEMMA MoveOnKeeps ==
  ASSUME PurchasingInv, NEW c \in Requests, pc[c] \notin Holding \cup {"done"},
         NEW label \in {"replayed", "rejected", "number", "order", "lock"}, Goto(c, label),
         UNCHANGED <<tables, history, req, todo, view, orderLock, variantLock, shelfLock, shared>>,
         ~Receiving(c)', StagesFit(c)'
  PROVE  PurchasingInv'
<1>1. Alone(c) /\ pc' = [pc EXCEPT ![c] = label] /\ PurchasingTypes
  BY DEF Goto, Alone, PurchasingInv, PurchasingTypes
<1>2. LockTypes' /\ todo' \in [Requests -> SUBSET Nat] /\ DOMAIN view' = Requests
  BY <1>1 DEF PurchasingTypes, PurchasesTypes, LockTypes
<1>3. \A o \in OrderIds : orderLock'[o] # c
  BY <1>1 DEF PurchasingTypes, PurchasesTypes
<1>4. AdjustmentHolds(c)'
  BY <1>1 DEF AdjustmentHolds, PurchasingTypes
<1> QED BY <1>1, <1>2, <1>3, <1>4, OtherStepKeeps DEF Labels, Final

\* The steps of createPurchaseOrder before it commits.
LEMMA BeginCreateKeeps ==
  ASSUME PurchasingInv, NEW c \in Requests, BeginCreate(c)
  PROVE  PurchasingInv'
<1>1. /\ pc[c] = "idle" /\ req[c].op = "create" /\ req' = req /\ PurchasingTypes
      /\ StagesFit(c) /\ todo' = todo
      /\ UNCHANGED <<tables, history, req, todo, view, orderLock, variantLock, shelfLock, shared>>
  BY DEF BeginCreate, locks, PurchasingInv, PurchaseFits
<1>2. PICK label \in {"replayed", "rejected", "number"} :
         /\ Goto(c, label)
         /\ label = "number" => ~\E line \in Range(req[c].lines) : line.variant \notin VariantIds
  BY DEF BeginCreate
<1>3. pc'[c] = label
  BY <1>1, <1>2 DEF Goto, PurchasingTypes
<1>4. label = "number" => \A n \in DOMAIN req[c].lines : req[c].lines[n].variant \in VariantIds
  BY <1>2 DEF Range
<1>5. ~Receiving(c)' /\ StagesFit(c)'
  BY <1>1, <1>3, <1>4 DEF Receiving, StagesFit, Holding
<1> QED BY <1>1, <1>2, <1>5, MoveOnKeeps DEF Holding

LEMMA IssuePoNumberKeeps ==
  ASSUME PurchasingInv, NEW c \in Requests, IssuePoNumber(c)
  PROVE  PurchasingInv'
<1>1. /\ pc[c] = "number" /\ Goto(c, "order") /\ req' = req /\ PurchasingTypes /\ StagesFit(c)
      /\ UNCHANGED <<tables, history, req, todo, view, orderLock, variantLock, shelfLock, shared>>
  BY DEF IssuePoNumber, PurchasingInv, PurchaseFits
<1>2. pc'[c] = "order"
  BY <1>1 DEF Goto, PurchasingTypes
<1>3. ~Receiving(c)' /\ StagesFit(c)'
  BY <1>1, <1>2 DEF Receiving, StagesFit, Holding
<1> QED BY <1>1, <1>3, MoveOnKeeps DEF Holding

LEMMA InsertOrderKeeps ==
  ASSUME PurchasingInv, NEW c \in Requests, InsertOrder(c)
  PROVE  PurchasingInv'
<1>1. pc[c] = "order" /\ PurchasingTypes /\ StagesFit(c)
  BY DEF InsertOrder, PurchasingInv, PurchaseFits
<1>2. CASE Leave(c, "aborted")
  BY <1>1, <1>2, LeaveKeeps DEF Final
<1>3. CASE /\ Goto(c, "lines") /\ todo' = [todo EXCEPT ![c] = DOMAIN req[c].lines]
           /\ UNCHANGED <<tables, history, req, view, locks>>
  <2>1. /\ req[c] \in Request /\ req[c].op = "create" /\ pc \in [Requests -> Labels]
        /\ todo \in [Requests -> SUBSET Nat] /\ DOMAIN view = Requests /\ LockTypes
        /\ \A n \in DOMAIN req[c].lines : req[c].lines[n].variant \in VariantIds
    BY <1>1 DEF PurchasingTypes, PurchasesTypes, LockTypes, StagesFit
  <2>2. UNCHANGED <<req, view, orderLock, variantLock, shelfLock, shared>>
    BY <1>3 DEF locks
  <2>3. DOMAIN req[c].lines \subseteq Nat
    BY <2>1, CreateHas
  <2>4. /\ pc'[c] = "lines" /\ todo'[c] = DOMAIN req[c].lines
        /\ todo' \in [Requests -> SUBSET Nat]
    BY <1>3, <2>1, <2>3 DEF Goto
  <2>5. Alone(c) /\ LockTypes'
    BY <1>3, <2>1, <2>2 DEF Alone, LockTypes, Goto
  <2>6. \A o \in OrderIds : orderLock'[o] # c
    BY <1>1, <2>2, HoldsNoOrder DEF Holding
  <2>7. ~Receiving(c)' /\ StagesFit(c)' /\ AdjustmentHolds(c)'
    BY <2>1, <2>2, <2>4 DEF Receiving, StagesFit, AdjustmentHolds
  <2> QED BY <1>1, <1>3, <2>1, <2>2, <2>4, <2>5, <2>6, <2>7, OtherStepKeeps DEF Labels, Final
<1> QED BY <1>2, <1>3 DEF InsertOrder

\* A line keeps the row of its variant, which is there.
LEMMA InsertLineKeeps ==
  ASSUME PurchasingInv, NEW c \in Requests, InsertLine(c)
  PROVE  PurchasingInv'
<1>1. PICK n \in todo[c] :
         /\ Share(c, req[c].lines[n].variant)
         /\ todo' = [todo EXCEPT ![c] = todo[c] \ {n}]
         /\ Goto(c, IF todo[c] = {n} THEN "finish" ELSE "lines")
  BY DEF InsertLine
<1>2. /\ pc[c] = "lines" /\ PurchasingTypes /\ StagesFit(c)
      /\ UNCHANGED <<tables, history>> /\ UNCHANGED <<req, view, orderLock, variantLock, shelfLock>>
  BY DEF InsertLine, PurchasingInv, PurchaseFits
<1>3. /\ req[c].op = "create" /\ pc \in [Requests -> Labels]
      /\ todo \in [Requests -> SUBSET Nat] /\ DOMAIN view = Requests /\ LockTypes
      /\ todo[c] \subseteq DOMAIN req[c].lines
      /\ \A m \in DOMAIN req[c].lines : req[c].lines[m].variant \in VariantIds
  BY <1>2 DEF PurchasingTypes, PurchasesTypes, LockTypes, StagesFit
<1>4. PICK label \in {"finish", "lines"} :
        /\ Goto(c, label) /\ pc'[c] = label /\ todo'[c] = todo[c] \ {n}
        /\ label = "finish" => todo'[c] = {}
  BY <1>1, <1>3 DEF Goto
<1>5. shared' \in [Requests -> SUBSET VariantIds]
  BY <1>1, <1>3 DEF Share, LockTypes
<1>6. Alone(c) /\ LockTypes' /\ todo' \in [Requests -> SUBSET Nat]
  BY <1>1, <1>2, <1>3, <1>4, <1>5 DEF Alone, LockTypes, Goto
<1>7. \A o \in OrderIds : orderLock'[o] # c
  BY <1>2, HoldsNoOrder DEF Holding
<1>8. ~Receiving(c)' /\ StagesFit(c)' /\ AdjustmentHolds(c)'
  BY <1>2, <1>3, <1>4 DEF Receiving, StagesFit, AdjustmentHolds
<1> QED BY <1>2, <1>3, <1>4, <1>6, <1>7, <1>8, OtherStepKeeps DEF Labels, Final

\* An adjustment locks a level that has the units, or is refused.
LEMMA LockLevelKeeps ==
  ASSUME PurchasingInv, NEW c \in Requests, LockLevel(c)
  PROVE  PurchasingInv'
<1>1. /\ pc[c] = "idle" /\ req[c].op = "adjust" /\ shelfLock[AdjustedShelf(c)] = NoRequest
      /\ PurchasingTypes /\ StagesFit(c)
      /\ UNCHANGED <<tables, history>>
      /\ UNCHANGED <<onHand, req, todo, view, orderLock, variantLock, shared>>
  BY DEF LockLevel, PurchasingInv, PurchaseFits, tables
<1>2. /\ req[c] \in Request /\ pc \in [Requests -> Labels] /\ onHand \in [Shelves -> Nat]
      /\ todo \in [Requests -> SUBSET Nat] /\ DOMAIN view = Requests /\ LockTypes
      /\ todo[c] = {}
  BY <1>1 DEF PurchasingTypes, PurchasesTypes, LockTypes, StagesFit
<1>3. PICK shelf : shelf = AdjustedShelf(c)
  OBVIOUS
<1>4. shelf \in Shelves /\ req[c].delta \in Int /\ shelf = AdjustedShelf(c)'
  BY <1>1, <1>2, <1>3, AdjustmentHas DEF Shelves, AdjustedShelf
<1>5. \A o \in OrderIds : orderLock'[o] # c
  BY <1>1, HoldsNoOrder DEF Holding
<1>6. CASE Goto(c, "rejected") /\ UNCHANGED shelfLock
  <2>1. pc'[c] = "rejected"
    BY <1>2, <1>6 DEF Goto
  <2>2. ~Receiving(c)' /\ StagesFit(c)'
    BY <1>1, <1>2, <2>1 DEF Receiving, StagesFit, Holding
  <2> QED BY <1>1, <1>6, <2>2, MoveOnKeeps DEF Holding
<1>7. CASE /\ ~(onHand[shelf] + req[c].delta < 0) /\ Goto(c, "row")
           /\ shelfLock' = [shelfLock EXCEPT ![shelf] = c]
  <2>1. pc'[c] = "row"
    BY <1>2, <1>7 DEF Goto
  <2>2. shelfLock' \in [Shelves -> Requests \cup {NoRequest}] /\ shelfLock'[shelf] = c
    BY <1>2, <1>4, <1>7 DEF LockTypes
  <2>3. Alone(c) /\ LockTypes'
    BY <1>1, <1>2, <1>3, <1>4, <1>7, <2>2, PurchasingAssumption DEF Alone, LockTypes, Goto
  <2>4. AdjustmentHolds(c)'
    BY <1>1, <1>2, <1>4, <1>7, <2>2 DEF AdjustmentHolds
  <2>5. ~Receiving(c)' /\ StagesFit(c)'
    BY <1>1, <1>2, <2>1 DEF Receiving, StagesFit, Holding
  <2> QED BY <1>1, <1>2, <1>5, <1>7, <2>3, <2>4, <2>5, OtherStepKeeps DEF Labels, Final
<1> QED BY <1>3, <1>6, <1>7 DEF LockLevel

\* An adjustment's row keeps its variant.
LEMMA InsertAdjustmentKeeps ==
  ASSUME PurchasingInv, NEW c \in Requests, InsertAdjustment(c)
  PROVE  PurchasingInv'
<1>1. /\ pc[c] = "row" /\ Share(c, req[c].variant) /\ Goto(c, "finish")
      /\ PurchasingTypes /\ StagesFit(c) /\ AdjustmentHolds(c)
      /\ UNCHANGED <<tables, history>>
      /\ UNCHANGED <<onHand, req, todo, view, orderLock, variantLock, shelfLock>>
  BY DEF InsertAdjustment, PurchasingInv, PurchaseFits, tables
<1>2. /\ req[c] \in Request /\ req[c].op = "adjust" /\ pc \in [Requests -> Labels]
      /\ todo \in [Requests -> SUBSET Nat] /\ DOMAIN view = Requests /\ LockTypes
      /\ todo[c] = {}
  BY <1>1 DEF PurchasingTypes, PurchasesTypes, LockTypes, StagesFit
<1>3. shared' \in [Requests -> SUBSET VariantIds]
  BY <1>1, <1>2, AdjustmentHas DEF Share, LockTypes
<1>4. Alone(c) /\ LockTypes' /\ pc'[c] = "finish"
  BY <1>1, <1>2, <1>3 DEF Alone, LockTypes, Goto
<1>5. \A o \in OrderIds : orderLock'[o] # c
  BY <1>1, HoldsNoOrder DEF Holding
<1>6. ~Receiving(c)' /\ StagesFit(c)'
  BY <1>1, <1>2, <1>4 DEF Receiving, StagesFit
<1>7. AdjustmentHolds(c)'
  BY <1>1, <1>2 DEF AdjustmentHolds, AdjustedShelf
<1> QED BY <1>1, <1>2, <1>4, <1>5, <1>6, <1>7, OtherStepKeeps DEF Labels, Final

LEMMA BeginReceiveKeeps ==
  ASSUME PurchasingInv, NEW c \in Requests, BeginReceive(c)
  PROVE  PurchasingInv'
<1>1. /\ pc[c] = "idle" /\ req[c].op = "receive" /\ req' = req /\ PurchasingTypes
      /\ StagesFit(c) /\ todo' = todo
      /\ UNCHANGED <<tables, history, req, todo, view, orderLock, variantLock, shelfLock, shared>>
  BY DEF BeginReceive, locks, PurchasingInv, PurchaseFits
<1>2. PICK label \in {"replayed", "lock"} : Goto(c, label)
  BY DEF BeginReceive
<1>3. pc'[c] = label
  BY <1>1, <1>2 DEF Goto, PurchasingTypes
<1>4. ~Receiving(c)' /\ StagesFit(c)'
  BY <1>1, <1>3 DEF Receiving, StagesFit, Holding
<1> QED BY <1>1, <1>2, <1>4, MoveOnKeeps DEF Holding

\* Every refusal, conflict and crash gives the transaction up.
LEMMA LeavesKeep ==
  ASSUME PurchasingInv, NEW c \in Requests,
         FindNoOrder(c) \/ RefuseReceived(c) \/ RefuseLines(c) \/ KeyConflict(c)
           \/ RollUpFails(c) \/ DeadlockVictim(c) \/ Crash(c)
  PROVE  PurchasingInv'
<1>1. pc[c] = "done" => Blockers(c) = {}
  BY DEF Blockers
<1>2. PICK outcome \in Final \ {"done"} : pc[c] # "done" /\ Leave(c, outcome)
  <2>1. CASE DeadlockVictim(c)
    BY <1>1, <2>1 DEF DeadlockVictim, Final
  <2>2. CASE ~DeadlockVictim(c)
    BY <2>2 DEF FindNoOrder, RefuseReceived, RefuseLines, KeyConflict, RollUpFails, Crash, Final
  <2> QED BY <2>1, <2>2
<1> QED BY <1>2, LeaveKeeps

-----------------------------------------------------------------------------
(* Sums over the tables.                                                   *)

\* A sum of zeros is zero.
LEMMA SumZero ==
  ASSUME NEW f, NEW S, IsFiniteSet(S), \A x \in S : f[x] = 0
  PROVE  SumFunctionOnSet(f, S) = 0
<1> DEFINE F == {t \in SUBSET S : SumFunctionOnSet(f, t) # 0}
<1> SUFFICES ASSUME F # {} PROVE FALSE
  OBVIOUS
<1>1. PICK t \in F : \A u \in F : u \subseteq t => u = t
  <2>1. F \subseteq SUBSET S
    OBVIOUS
  <2> HIDE DEF F
  <2> QED BY <2>1, SmallestSubset
<1>2. t \in SUBSET S /\ SumFunctionOnSet(f, t) # 0 /\ IsFiniteSet(t)
  BY FS_Subset
<1>3. PICK x \in t : TRUE
  BY <1>2, SumEmpty
<1>4. SumFunctionOnSet(f, t \ {x}) = 0
  BY <1>1, <1>2, <1>3
<1>5. \A y \in t : f[y] \in Int
  BY <1>2
<1>6. SumFunctionOnSet(f, t) = f[x] + SumFunctionOnSet(f, t \ {x})
  BY <1>2, <1>3, <1>5, SumRemove
<1> QED BY <1>2, <1>3, <1>4, <1>6

\* A committed receipt's places, and what it brought in.
LEMMA ReceivedIsNat ==
  ASSUME PurchasingInv, NEW c \in Requests, receipt[c] # <<>>, NEW v
  PROVE  Received(c, v) \in Nat
<1>1. req[c] \in Request /\ req[c].op = "receive" /\ receipt[c] = req[c].lines
  BY DEF PurchasingInv, PurchasingTypes, PurchaseFits, ReceiptIsWhole
<1> QED BY <1>1, QuantitySums DEF Received

\* What the sums over the tables are.
LEMMA TableSums ==
  ASSUME PurchasingInv, NEW w, NEW v
  PROVE  /\ IsFiniteSet(ReceiptsInto(w)) /\ IsFiniteSet(Adjusters(w, v))
         /\ Brought(w, v) \in Nat
         /\ Adjusted(w, v) \in Int
         /\ Adjusters(w, v) = {} => Adjusted(w, v) = 0
<1> DEFINE done == {c \in Requests : pc[c] = "done"}
<1>1. IsFiniteSet(done) /\ \A c \in Requests : req[c] \in Request
  BY DEF PurchasingInv, PurchasingTypes
<1>2. ReceiptsInto(w) \subseteq done /\ Adjusters(w, v) \subseteq done
  BY DEF PurchasingInv, PurchaseFits, ReceiptIsWhole, ReceiptsInto, Adjusters
<1>3. IsFiniteSet(ReceiptsInto(w)) /\ IsFiniteSet(Adjusters(w, v))
  BY <1>1, <1>2, FS_Subset
<1>4. Brought(w, v) \in Nat
  <2> DEFINE f == [c \in Requests |-> Received(c, v)]
  <2>1. \A c \in ReceiptsInto(w) : f[c] \in Nat
    BY ReceivedIsNat DEF ReceiptsInto
  <2> HIDE DEF f
  <2>2. SumFunctionOnSet(f, ReceiptsInto(w)) \in Nat
    BY <1>3, <2>1, SumNat
  <2> QED BY <2>2 DEF f, Brought
<1>5. Adjusted(w, v) \in Int /\ (Adjusters(w, v) = {} => Adjusted(w, v) = 0)
  <2> DEFINE f == [c \in Requests |-> req[c].delta]
  <2>1. \A c \in Adjusters(w, v) : f[c] \in Int
    BY <1>1, AdjustmentHas DEF Adjusters
  <2> HIDE DEF f
  <2>2. SumFunctionOnSet(f, Adjusters(w, v)) \in Int /\ SumFunctionOnSet(f, {}) = 0
    BY <1>3, <2>1, SumInt, SumEmpty
  <2> QED BY <2>2 DEF f, Adjusted
<1> QED BY <1>3, <1>4, <1>5

\* A variant that one warehouse alone has held is on its shelf alone.
LEMMA OneHome ==
  ASSUME PurchasingInv, NEW v \in VariantIds, NEW w \in WarehouseIds, Homes(v) \subseteq {w}
  PROVE  UnitsOf(onHand, v) = onHand[<<w, v>>]
<1> DEFINE f == [u \in WarehouseIds |-> onHand[<<u, v>>]]
<1>1. onHand \in [Shelves -> Nat] /\ ReceiptsAreAtomic
  BY DEF PurchasingInv, PurchasingTypes, PurchasesTypes
<1>2. \A u \in WarehouseIds : <<u, v>> \in Shelves /\ f[u] = onHand[<<u, v>>]
  BY DEF Shelves
<1>3. \A u \in WarehouseIds : f[u] \in Nat
  BY <1>1, <1>2
<1>4. ASSUME NEW u \in WarehouseIds \ {w} PROVE f[u] = 0
  <2>1. u \notin Homes(v)
    OBVIOUS
  <2>2. /\ ~(OnShelf[<<u, v>>] > 0) /\ ~(Brought(u, v) > 0) /\ Adjusters(u, v) = {}
    BY <2>1 DEF Homes
  <2>3. OnShelf[<<u, v>>] \in Nat /\ Brought(u, v) \in Nat /\ Adjusted(u, v) = 0
    BY <2>2, TableSums, PurchasingAssumption
  <2>4. onHand[<<u, v>>] = OnShelf[<<u, v>>] + Brought(u, v) + Adjusted(u, v)
    BY <1>1 DEF ReceiptsAreAtomic
  <2> QED BY <1>2, <2>2, <2>3, <2>4
<1>5. UnitsOf(onHand, v) = SumFunctionOnSet(f, WarehouseIds)
  BY DEF UnitsOf, SumFunction
<1> HIDE DEF f
<1>6. IsFiniteSet(WarehouseIds) /\ IsFiniteSet(WarehouseIds \ {w})
  BY PurchasingAssumption, FS_Subset
<1>7. SumFunctionOnSet(f, WarehouseIds) = f[w] + SumFunctionOnSet(f, WarehouseIds \ {w})
  <2>1. \A u \in WarehouseIds : f[u] \in Int
    BY <1>3
  <2> QED BY <1>6, <2>1, SumRemove
<1>8. SumFunctionOnSet(f, WarehouseIds \ {w}) = 0
  BY <1>4, <1>6, SumZero
<1> QED BY <1>2, <1>3, <1>5, <1>7, <1>8

-----------------------------------------------------------------------------
(* The moving average.                                                     *)

\* More slack carries as well.
LEMMA CarriesMore ==
  ASSUME NEW value \in Int, NEW worthNow \in Int, NEW slack \in Nat, NEW more \in Nat, slack <= more,
         value - worthNow \in 0..slack
  PROVE  value - worthNow \in 0..more
OBVIOUS

\* A whole quotient is short of the whole by less than the divisor.
LEMMA Quotient ==
  ASSUME NEW total \in Nat, NEW n \in Nat \ {0}
  PROVE  /\ total \div n \in Nat
         /\ n * (total \div n) <= total /\ total < n * (total \div n) + n
OBVIOUS

\* A new average carries the old worth and the new units' cost, less one remainder.
LEMMA MovingAverageCarries ==
  ASSUME NEW value \in Int, NEW units \in Nat, NEW cost \in Nat, NEW slack \in Nat,
         NEW quantity \in Nat \ {0}, NEW price \in Nat, Carries(value, units, cost, slack)
  PROVE  /\ MovingAverage(units, cost, quantity, price) \in Nat
         /\ Carries(value + quantity * price, units + quantity,
                    MovingAverage(units, cost, quantity, price), slack + units + quantity)
<1>1. PICK was \in Nat : was = units * cost
  OBVIOUS
<1>2. PICK paid \in Nat : paid = quantity * price
  OBVIOUS
<1>3. PICK n \in Nat \ {0} : n = units + quantity
  OBVIOUS
<1>4. PICK average1 : average1 = (was + paid) \div n
  OBVIOUS
<1>5. MovingAverage(units, cost, quantity, price) = average1
  BY ONLY <1>1, <1>2, <1>3, <1>4 DEF MovingAverage
<1>6. PICK now : now = n * average1
  OBVIOUS
<1>7. average1 \in Nat /\ now \in Int /\ now <= was + paid /\ was + paid < now + n
  BY <1>4, <1>6, Quotient
<1>8. value - was \in 0..slack
  BY <1>1 DEF Carries
<1>9. value + paid - now \in 0..(slack + n)
  BY ONLY <1>7, <1>8, value \in Int, slack \in Nat, was \in Nat, paid \in Nat, n \in Nat
<1>10. slack + n = slack + units + quantity
  BY <1>3
<1> QED BY ONLY <1>2, <1>3, <1>5, <1>6, <1>7, <1>9, <1>10 DEF Carries

-----------------------------------------------------------------------------
(* The steps of a receipt before it commits.                               *)

\* A step of a receipt that keeps its writes to itself.
LEMMA ReceiptStepKeeps ==
  ASSUME PurchasingInv, NEW c \in Requests, req[c].op = "receive", pc[c] # "done", Alone(c),
         UNCHANGED <<tables, history>>, LockTypes',
         NEW label \in Holding, Goto(c, label),
         todo' \in [Requests -> SUBSET Nat], DOMAIN view' = Requests,
         StagesFit(c)', OrderIsHeld(c)', LinesAreThere(c)', LevelsAreHeld(c)', CostsAreHeld(c)'
  PROVE  PurchasingInv'
<1>1. pc' = [pc EXCEPT ![c] = label] /\ PurchasingTypes /\ req' = req
  BY DEF Goto, PurchasingInv, Alone
<1>2. PurchasingTypes'
  BY <1>1, TypesFollowQuiet DEF Labels, Holding
<1>3. receipt'[c] = <<>> /\ order'[c] = NoOrder
  BY NothingWritten DEF tables
<1>4. PurchaseFits(c)'
  BY <1>1, <1>3 DEF PurchaseFits, ReceiptIsWhole, OrderIsNew, AdjustmentHolds
<1> QED BY <1>1, <1>2, <1>4, QuietKeeps

\* A receipt that takes the header's lock sees the lines as they are committed.
LEMMA LockOrderKeeps ==
  ASSUME PurchasingInv, NEW c \in Requests, LockOrder(c)
  PROVE  PurchasingInv'
<1> DEFINE o == req[c].order
<1>1. /\ pc[c] = "lock" /\ order[o] # NoOrder /\ orderLock[o] = NoRequest
      /\ orderLock' = [orderLock EXCEPT ![o] = c]
      /\ view' = [view EXCEPT ![c] = Seen(order[o].lines, <<>>, <<>>)]
      /\ Goto(c, "check")
      /\ UNCHANGED <<tables, history, req, todo, variantLock, shelfLock>>
      /\ UNCHANGED <<order, req, todo, variantLock, shelfLock, shared>>
  BY DEF LockOrder, tables
<1>2. /\ PurchasingTypes /\ StagesFit(c) /\ ReceiptsAreAtomic
  BY DEF PurchasingInv, PurchaseFits
<1>3. /\ req[c] \in Request /\ req[c].op = "receive" /\ todo[c] = {}
      /\ pc \in [Requests -> Labels] /\ todo \in [Requests -> SUBSET Nat] /\ DOMAIN view = Requests
  BY <1>1, <1>2 DEF PurchasingTypes, StagesFit
<1>4. o \in OrderIds
  BY <1>3, ReceiptHas
<1>5. pc' = [pc EXCEPT ![c] = "check"] /\ pc'[c] = "check" /\ DOMAIN view' = Requests
      /\ view'[c] = Seen(order[o].lines, <<>>, <<>>)
  BY <1>1, <1>3 DEF Goto
<1>6. Alone(c) /\ LockTypes'
  BY <1>1, <1>2, <1>3, <1>4, <1>5, PurchasingAssumption
     DEF Alone, LockTypes, PurchasingTypes, PurchasesTypes
<1>7. view'[c].lines = order[o].lines /\ DOMAIN view'[c].shelf = {} /\ DOMAIN view'[c].cost = {}
  BY <1>5 DEF Seen
<1>8. StagesFit(c)'
  BY <1>1, <1>3, <1>5, <1>7 DEF StagesFit
<1>9. OrderIsHeld(c)'
  <2>1. orderLock'[o] = c
    BY <1>1, <1>2, <1>4 DEF PurchasingTypes, PurchasesTypes
  <2>2. Rolled(c)' = {}
    BY <1>5 DEF Rolled
  <2>3. ASSUME NEW i \in DOMAIN order[o].lines PROVE LineIsRolled(c, i)'
    <3>1. order[o].lines[i] \in Line
      BY <1>1, <1>2, <1>4 DEF PurchasingTypes, PurchasesTypes
    <3>2. order[o].lines[i].received <= order[o].lines[i].ordered
      BY <1>1, <1>2, <1>4 DEF ReceiptsAreAtomic, LineAgrees
    <3>3. Quantity(req[c].lines, Naming(req[c].lines, i) \cap Rolled(c)') = 0
      BY <1>3, <2>2, QuantitySums
    <3>4. order[o].lines[i].received \in Nat
      BY <3>1 DEF Line
    <3>5. /\ req'[c].lines = req[c].lines /\ order'[req'[c].order].lines[i] = order[o].lines[i]
          /\ view'[c].lines[i] = order[o].lines[i]
      BY <1>1, <1>7
    <3>6. Quantity(req'[c].lines, Naming(req'[c].lines, i) \cap Rolled(c)') = 0
      BY <3>3, <3>5
    <3> QED BY <3>1, <3>2, <3>4, <3>5, <3>6 DEF LineIsRolled
  <2> QED BY <1>1, <1>7, <2>1, <2>3 DEF OrderIsHeld
<1>10. ~Applying(c)'
  BY <1>5 DEF Applying
<1>11. LinesAreThere(c)' /\ LevelsAreHeld(c)' /\ CostsAreHeld(c)'
  BY <1>10 DEF LinesAreThere, LevelsAreHeld, CostsAreHeld
<1> QED BY <1>1, <1>3, <1>5, <1>6, <1>8, <1>9, <1>11, ReceiptStepKeeps DEF Holding

\* A receipt that passes its checks starts with all its lines to apply.
LEMMA InsertReceiptKeeps ==
  ASSUME PurchasingInv, NEW c \in Requests, InsertReceipt(c)
  PROVE  PurchasingInv'
<1> DEFINE o == req[c].order
<1>1. /\ pc[c] = "check" /\ Receivable(c)
      /\ todo' = [todo EXCEPT ![c] = DOMAIN req[c].lines]
      /\ Goto(c, "variant")
      /\ UNCHANGED <<tables, history, req, view, locks>>
      /\ UNCHANGED <<order, onHand, average, req, view, orderLock, variantLock, shelfLock, shared>>
  BY DEF InsertReceipt, tables, locks
<1>2. /\ PurchasingTypes /\ StagesFit(c) /\ OrderIsHeld(c)
  BY DEF PurchasingInv, PurchaseFits
<1>3. /\ req[c] \in Request /\ req[c].op = "receive" /\ todo[c] = {}
      /\ DOMAIN view[c].shelf = {} /\ DOMAIN view[c].cost = {}
      /\ pc \in [Requests -> Labels] /\ todo \in [Requests -> SUBSET Nat] /\ DOMAIN view = Requests
  BY <1>1, <1>2 DEF PurchasingTypes, StagesFit
<1>4. DOMAIN req[c].lines \subseteq Nat
  BY <1>3, ReceiptHas
<1>5. /\ pc' = [pc EXCEPT ![c] = "variant"] /\ pc'[c] = "variant" /\ todo'[c] = DOMAIN req[c].lines
      /\ todo' \in [Requests -> SUBSET Nat]
  BY <1>1, <1>3, <1>4 DEF Goto
<1>6. Alone(c) /\ LockTypes'
  BY <1>1, <1>2, <1>3, <1>5 DEF Alone, LockTypes, PurchasingTypes, PurchasesTypes
<1>7. StagesFit(c)'
  BY <1>1, <1>3, <1>5 DEF StagesFit
<1>8. Rolled(c) = {} /\ Rolled(c)' = {} /\ \A v : RaisedOf(c, v)' = {}
  BY <1>1, <1>5 DEF Rolled, RaisedOf, Raised
<1>9. OrderIsHeld(c)'
  <2>1. Receiving(c)
    BY <1>1, <1>3 DEF Receiving, Holding
  <2>2. \A i : LineIsRolled(c, i)' = LineIsRolled(c, i)
    BY <1>1, <1>8 DEF LineIsRolled
  <2> QED BY <1>1, <1>2, <2>1, <2>2 DEF OrderIsHeld
<1>10. LinesAreThere(c)'
  BY <1>1, <1>5 DEF LinesAreThere, Receivable, Want
<1>11. req[c].warehouse \in WarehouseIds
  BY <1>1 DEF Receivable
<1>12. LevelsAreHeld(c)'
  <2>1. ASSUME NEW v \in VariantIds PROVE LevelIsHeld(c, v)'
    <3>1. onHand[ShelfOf(c, v)] \in Nat
      BY <1>2, <1>11 DEF PurchasingTypes, PurchasesTypes, ShelfOf, Shelves
    <3>2. Quantity(req[c].lines, {}) = 0
      BY <1>3, QuantitySums
    <3>3. SeenOnHand(c, ShelfOf(c, v))' = onHand[ShelfOf(c, v)] /\ ShelfOf(c, v)' = ShelfOf(c, v)
      BY <1>1, <1>3 DEF SeenOnHand, ShelfOf
    <3>4. Quantity(req'[c].lines, RaisedOf(c, v)') = 0
      BY <1>1, <1>8, <3>2
    <3> QED BY <1>1, <1>8, <3>1, <3>3, <3>4 DEF LevelIsHeld
  <2> QED BY <1>1, <1>3, <2>1 DEF LevelsAreHeld
<1>13. CostsAreHeld(c)'
  <2>1. ASSUME NEW v \in VariantIds PROVE CostIsHeld(c, v)'
    BY <1>1, <1>3, <1>8 DEF CostIsHeld, SeenCost
  <2> QED BY <1>1, <1>3, <1>5, <2>1 DEF CostsAreHeld
<1> QED BY <1>1, <1>3, <1>5, <1>6, <1>7, <1>9, <1>10, <1>12, <1>13, ReceiptStepKeeps DEF Holding

\* A receipt that has lines left has one that comes next.
LEMMA NextIsOne ==
  ASSUME PurchasingInv, NEW c \in Requests, Applying(c), NEW n \in todo[c], IsNext(c, n)
  PROVE  /\ n \in DOMAIN req[c].lines /\ todo[c] \subseteq DOMAIN req[c].lines
         /\ VariantOf(c, n) \in VariantIds
         /\ \A m \in todo[c] : IsNext(c, m) => m = n
<1>1. /\ PurchasingTypes /\ OrderIsHeld(c) /\ LinesAreThere(c)
  BY DEF PurchasingInv, PurchaseFits
<1>2. todo[c] \subseteq DOMAIN req[c].lines /\ todo[c] \subseteq Nat
  BY <1>1 DEF LinesAreThere, PurchasingTypes
<1>3. \A m \in todo[c] : VariantOf(c, m) \in VariantIds
  BY <1>1, <1>2, LinesAre DEF VariantOf, Line
<1>4. \A m \in todo[c] : VariantOf(c, m) \in Nat
  BY <1>3, PurchasingAssumption
<1> QED BY <1>2, <1>3, <1>4 DEF IsNext

\* The roll-up of a line moves what it has received, and nothing else.
LEMMA RollUpMoves ==
  ASSUME NEW lines, NEW want, want.line \in DOMAIN lines, lines[want.line] \in Line,
         want.quantity \in Nat
  PROVE  /\ DOMAIN RolledUp(lines, want) = DOMAIN lines
         /\ \A i \in DOMAIN lines \ {want.line} : RolledUp(lines, want)[i] = lines[i]
         /\ LET line == RolledUp(lines, want)[want.line]
            IN  /\ line \in Line
                /\ line.variant = lines[want.line].variant /\ line.cost = lines[want.line].cost
                /\ line.ordered = lines[want.line].ordered
                /\ line.received = lines[want.line].received + want.quantity
<1>1. lines[want.line].received + want.quantity \in Nat
  BY DEF Line
<1>2. RolledUp(lines, want)[want.line] =
        [lines[want.line] EXCEPT !.received = lines[want.line].received + want.quantity]
  BY DEF RolledUp
<1> QED BY <1>1, <1>2 DEF RolledUp, Line

\* The roll-up moves one line of the view, under the header's and the variant's lock.
LEMMA LockVariantKeeps ==
  ASSUME PurchasingInv, NEW c \in Requests, LockVariant(c)
  PROVE  PurchasingInv'
<1>1. PICK n \in todo[c] :
         /\ IsNext(c, n) /\ Fits(c, n)
         /\ variantLock[VariantOf(c, n)] \in {NoRequest, c}
         /\ variantLock' = [variantLock EXCEPT ![VariantOf(c, n)] = c]
         /\ view' = [view EXCEPT ![c] = Seen(RolledUp(view[c].lines, Want(c, n)), view[c].shelf,
                      Put(view[c].cost, VariantOf(c, n), SeenCost(c, VariantOf(c, n))))]
  BY DEF LockVariant
<1> DEFINE o == req[c].order
           v == VariantOf(c, n)
           want == Want(c, n)
<1>2. /\ pc[c] = "variant" /\ Goto(c, "shelf")
      /\ UNCHANGED <<tables, history, req, todo, orderLock, shelfLock, sequenceLock>>
      /\ UNCHANGED <<order, onHand, average, worth, dust, req, todo, orderLock, shelfLock, shared>>
  BY DEF LockVariant, tables, history
<1>3. /\ PurchasingTypes /\ StagesFit(c) /\ OrderIsHeld(c) /\ LinesAreThere(c) /\ LevelsAreHeld(c)
      /\ CostsAreHeld(c)
  BY DEF PurchasingInv, PurchaseFits
<1>4. /\ pc \in [Requests -> Labels] /\ todo \in [Requests -> SUBSET Nat] /\ DOMAIN view = Requests
      /\ variantLock \in [VariantIds -> Requests \cup {NoRequest}] /\ req[c] \in Request
  BY <1>3 DEF PurchasingTypes, PurchasesTypes
<1>5. Applying(c) /\ Receiving(c) /\ req[c].op = "receive"
  BY <1>2, <1>3 DEF Applying, Receiving, StagesFit, Holding
<1>6. /\ n \in DOMAIN req[c].lines /\ todo[c] \subseteq DOMAIN req[c].lines /\ v \in VariantIds
      /\ \A m \in todo[c] : IsNext(c, m) => m = n
  BY <1>1, <1>5, NextIsOne
<1>7. /\ \A m \in DOMAIN req[c].lines : /\ LineOf(c, m) \in Line /\ Want(c, m).quantity \in Nat \ {0}
                                        /\ Want(c, m).line \in DOMAIN order[o].lines
      /\ DOMAIN view[c].lines = DOMAIN order[o].lines
  BY <1>3, <1>5, LinesAre DEF OrderIsHeld
<1>8. /\ want.line \in DOMAIN view[c].lines /\ want.quantity \in Nat \ {0}
      /\ view[c].lines[want.line] = LineOf(c, n)
  BY <1>6, <1>7 DEF LineOf
<1>9. /\ view'[c].lines = RolledUp(view[c].lines, want) /\ view'[c].shelf = view[c].shelf
      /\ view'[c].cost = Put(view[c].cost, v, SeenCost(c, v))
  BY <1>1, <1>4 DEF Seen
<1>10. /\ DOMAIN view'[c].lines = DOMAIN view[c].lines
       /\ \A i \in DOMAIN view[c].lines \ {want.line} : view'[c].lines[i] = view[c].lines[i]
       /\ LET line == view'[c].lines[want.line]
          IN  /\ line \in Line
              /\ line.variant = LineOf(c, n).variant /\ line.cost = LineOf(c, n).cost
              /\ line.ordered = LineOf(c, n).ordered
              /\ line.received = LineOf(c, n).received + want.quantity
  <2>1. view[c].lines[want.line] \in Line
    BY <1>6, <1>7, <1>8
  <2> HIDE DEF want
  <2> QED BY <1>8, <1>9, <2>1, RollUpMoves
<1>11. \A m \in DOMAIN req[c].lines :
         /\ Want(c, m)' = Want(c, m)
         /\ LineOf(c, m)'.variant = LineOf(c, m).variant /\ LineOf(c, m)'.cost = LineOf(c, m).cost
  <2> TAKE m \in DOMAIN req[c].lines
  <2>1. Want(c, m)' = Want(c, m) /\ LineOf(c, m)' = view'[c].lines[Want(c, m).line]
    BY <1>2 DEF Want, LineOf
  <2>2. CASE Want(c, m).line = want.line
    BY <1>8, <1>10, <2>1, <2>2 DEF LineOf
  <2>3. CASE Want(c, m).line # want.line
    BY <1>7, <1>10, <2>1, <2>3 DEF LineOf
  <2> QED BY <2>2, <2>3
<1>12. /\ \A m \in DOMAIN req[c].lines : VariantOf(c, m)' = VariantOf(c, m)
       /\ \A m \in todo[c] : IsNext(c, m)' = IsNext(c, m)
       /\ \A u : Bringing(c, u)' = Bringing(c, u) /\ ShelfOf(c, u)' = ShelfOf(c, u)
  <2>1. \A m \in DOMAIN req[c].lines : VariantOf(c, m)' = VariantOf(c, m)
    BY <1>11 DEF VariantOf
  <2>2. \A m \in todo[c] : IsNext(c, m)' = IsNext(c, m)
    BY <1>2, <1>6, <2>1 DEF IsNext
  <2>3. \A u : Bringing(c, u)' = Bringing(c, u) /\ ShelfOf(c, u)' = ShelfOf(c, u)
    BY <1>2, <2>1 DEF Bringing, ShelfOf
  <2> QED BY <2>1, <2>2, <2>3
<1>13. Raised(c)' = Raised(c) /\ \A u : RaisedOf(c, u)' = RaisedOf(c, u)
  BY <1>2, <1>12 DEF Raised, RaisedOf
<1>14. \A places : CostOf(c, places)' = CostOf(c, places)
  <2>1. [m \in DOMAIN req'[c].lines |-> Want(c, m)'.quantity * LineOf(c, m)'.cost] =
          [m \in DOMAIN req[c].lines |-> Want(c, m).quantity * LineOf(c, m).cost]
    BY <1>2, <1>11
  <2> QED BY <2>1 DEF CostOf
<1>15. pc' = [pc EXCEPT ![c] = "shelf"] /\ pc'[c] = "shelf" /\ DOMAIN view' = Requests
  BY <1>1, <1>2, <1>4 DEF Goto
<1>16. Alone(c) /\ LockTypes'
  <2>1. \A d \in Requests \ {c} : \A u \in VariantIds : variantLock'[u] = d <=> variantLock[u] = d
    BY <1>1, <1>4, <1>6, PurchasingAssumption
  <2>2. variantLock' \in [VariantIds -> Requests \cup {NoRequest}]
    BY <1>1, <1>4
  <2> QED BY <1>1, <1>2, <1>3, <1>4, <1>15, <2>1, <2>2
          DEF Alone, LockTypes, PurchasingTypes, PurchasesTypes
<1>17. StagesFit(c)'
  BY <1>2, <1>5, <1>15 DEF StagesFit
<1>18. OrderIsHeld(c)'
  <2>1. /\ order[o] # NoOrder /\ orderLock[o] = c
        /\ \A i \in DOMAIN order[o].lines : LineIsRolled(c, i)
    BY <1>3, <1>5 DEF OrderIsHeld
  <2>2. Rolled(c)' = Rolled(c) \cup {n} /\ n \notin Rolled(c)
    BY <1>1, <1>2, <1>6, <1>12, <1>15 DEF Rolled
  <2>3. ASSUME NEW i \in DOMAIN order[o].lines PROVE LineIsRolled(c, i)'
    <3> DEFINE stored == order[o].lines[i]
               seen == view[c].lines[i]
               places == Naming(req[c].lines, i) \cap Rolled(c)
    <3>1. /\ seen \in Line /\ seen.variant = stored.variant /\ seen.ordered = stored.ordered
          /\ seen.received = stored.received + Quantity(req[c].lines, places)
          /\ seen.received <= seen.ordered
      BY <2>1 DEF LineIsRolled
    <3>2. order'[req'[c].order].lines[i] = stored /\ req'[c].lines = req[c].lines
      BY <1>2
    <3>3. CASE i # want.line
      <4>1. n \notin Naming(req[c].lines, i)
        BY <3>3 DEF Naming, Want
      <4>2. Naming(req[c].lines, i) \cap Rolled(c)' = places
        BY <2>2, <4>1
      <4>3. Quantity(req'[c].lines, Naming(req'[c].lines, i) \cap Rolled(c)') =
              Quantity(req[c].lines, places)
        BY <3>2, <4>2
      <4>4. view'[c].lines[i] = seen
        BY <1>7, <1>10, <3>3
      <4> QED BY <3>1, <3>2, <4>3, <4>4 DEF LineIsRolled
    <3>4. CASE i = want.line
      <4>1. n \in Naming(req[c].lines, i)
        BY <1>6, <3>4 DEF Naming, Want
      <4>2. Naming(req[c].lines, i) \cap Rolled(c)' = places \cup {n} /\ n \notin places
        BY <2>2, <4>1
      <4>3. places \subseteq DOMAIN req[c].lines
        BY DEF Naming
      <4>4. /\ Quantity(req[c].lines, places) \in Nat
            /\ Quantity(req[c].lines, places \cup {n}) =
                 Quantity(req[c].lines, places) + req[c].lines[n].quantity
        BY <1>4, <1>5, <1>6, <4>2, <4>3, QuantitySums
      <4>5. Quantity(req'[c].lines, Naming(req'[c].lines, i) \cap Rolled(c)') =
              Quantity(req[c].lines, places) + want.quantity
        BY <3>2, <4>2, <4>4 DEF Want
      <4>6. seen = LineOf(c, n)
        BY <1>8, <3>4
      <4>7. LET line == view'[c].lines[i]
            IN  /\ line \in Line /\ line.variant = seen.variant /\ line.ordered = seen.ordered
                /\ line.received = seen.received + want.quantity
        BY <1>10, <3>4, <4>6
      <4>8. seen.received + want.quantity <= seen.ordered
        BY <1>1, <4>6 DEF Fits
      <4>9. stored.received \in Int
        <5>1. stored \in Line
          BY <1>3, <1>4, <2>1, ReceiptHas, <1>5 DEF PurchasingTypes, PurchasesTypes
        <5> QED BY <5>1 DEF Line
      <4>10. seen.received + want.quantity =
               stored.received + (Quantity(req[c].lines, places) + want.quantity)
        BY <1>8, <3>1, <4>4, <4>9
      <4> QED BY <3>1, <3>2, <4>5, <4>7, <4>8, <4>10 DEF LineIsRolled
    <3> QED BY <3>3, <3>4
  <2> QED BY <1>2, <1>7, <1>10, <2>1, <2>3 DEF OrderIsHeld
<1>19. LinesAreThere(c)'
  BY <1>2, <1>3, <1>5, <1>10, <1>11 DEF LinesAreThere
<1>20. \A s : SeenOnHand(c, s)' = SeenOnHand(c, s)
  BY <1>2, <1>9 DEF SeenOnHand
<1>21. LevelsAreHeld(c)'
  <2>1. ASSUME NEW u \in VariantIds PROVE LevelIsHeld(c, u)'
    <3>1. LevelIsHeld(c, u)
      BY <1>3, <1>5 DEF LevelsAreHeld
    <3> QED BY <1>2, <1>9, <1>12, <1>13, <1>20, <3>1 DEF LevelIsHeld
  <2> QED BY <1>2, <1>3, <1>5, <1>9, <2>1 DEF LevelsAreHeld
<1>22. DOMAIN view'[c].cost = DOMAIN view[c].cost \cup {v}
  BY <1>9 DEF Put
<1>23. \A u \in VariantIds : SeenCost(c, u)' = SeenCost(c, u)
  BY <1>2, <1>9 DEF SeenCost, Put
<1>24. CostsAreHeld(c)'
  <2>1. /\ DOMAIN view[c].cost \subseteq {u \in VariantIds : variantLock[u] = c}
        /\ \A u \in VariantIds : CostIsHeld(c, u)
    BY <1>3, <1>5 DEF CostsAreHeld
  <2>2. DOMAIN view'[c].cost \subseteq {u \in VariantIds : variantLock'[u] = c}
    BY <1>1, <1>4, <1>6, <1>22, <2>1
  <2>3. \A m \in todo[c] : IsNext(c, m) => VariantOf(c, m)' \in DOMAIN view'[c].cost
    BY <1>6, <1>12, <1>22
  <2>4. ASSUME NEW u \in VariantIds PROVE CostIsHeld(c, u)'
    <3>1. Homes(u)' = Homes(u)
      <4>1. /\ UNCHANGED <<tables, req>>
            /\ \A d \in Requests : req[d].op = "adjust" =>
                 (pc'[d] = "done" <=> pc[d] = "done")
        BY <1>2, <1>4, <1>5, <1>15
      <4> QED BY <4>1, SumsKept
    <3>2. CarriesOwn(c, u)' = CarriesOwn(c, u)
      BY <1>2, <1>12, <1>13, <1>14, <1>20, <1>23 DEF CarriesOwn
    <3> QED BY <1>2, <1>13, <1>22, <1>23, <2>1, <3>1, <3>2 DEF CostIsHeld
  <2> QED BY <1>2, <1>12, <2>2, <2>3, <2>4 DEF CostsAreHeld
<1> QED BY <1>2, <1>4, <1>5, <1>15, <1>16, <1>17, <1>18, <1>19, <1>21, <1>24, ReceiptStepKeeps
        DEF Holding

\* One more division cuts off less than one more units' worth.
LEMMA SlackGrows ==
  ASSUME NEW slack \in Nat, NEW k \in Nat, NEW units \in Nat, NEW quantity \in Nat
  PROVE  /\ slack + k * units \in Nat
         /\ slack + (k + 1) * (units + quantity) \in Nat
         /\ slack + k * units + units + quantity <= slack + (k + 1) * (units + quantity)
<1>1. PICK all \in Nat : all = k * units
  OBVIOUS
<1>2. PICK more \in Nat : more = k * quantity
  OBVIOUS
<1>3. (k + 1) * (units + quantity) = all + more + units + quantity
  BY <1>1, <1>2
<1> QED BY ONLY <1>1, <1>2, <1>3, slack \in Nat, units \in Nat, quantity \in Nat

\* A set within one element has at most one.
LEMMA WithinOne ==
  ASSUME NEW x, NEW S, S \subseteq {x}
  PROVE  Cardinality(S) <= 1
<1>1. S = {} \/ S = {x}
  OBVIOUS
<1>2. Cardinality({}) = 0 /\ Cardinality({x}) = 1
  BY FS_EmptySet, FS_Singleton
<1> QED BY <1>1, <1>2

\* What a receipt sees of a variant is a level and a cost that carry.
LEMMA SeenCarries ==
  ASSUME PurchasingInv, NEW c \in Requests, Applying(c), NEW v \in VariantIds
  PROVE  /\ ShelfOf(c, v) \in Shelves
         /\ RaisedOf(c, v) \subseteq DOMAIN req[c].lines /\ IsFiniteSet(RaisedOf(c, v))
         /\ SeenOnHand(c, ShelfOf(c, v)) \in Nat /\ SeenCost(c, v) \in Nat
         /\ Homes(v) \subseteq {req[c].warehouse} => CarriesOwn(c, v)
<1> DEFINE w == req[c].warehouse
           s == ShelfOf(c, v)
<1>1. /\ PurchasingTypes /\ OrderIsHeld(c) /\ LinesAreThere(c) /\ LevelsAreHeld(c)
      /\ CostsAreHeld(c) /\ AverageCarriesTheCostOfOneWarehouse
  BY DEF PurchasingInv, PurchaseFits
<1>2. /\ req[c] \in Request /\ req[c].op = "receive"
      /\ onHand \in [Shelves -> Nat] /\ average \in [VariantIds -> Nat]
      /\ worth \in [VariantIds -> Int] /\ dust \in [VariantIds -> Nat]
  BY <1>1 DEF PurchasingTypes, PurchasesTypes, Applying
<1>3. w \in WarehouseIds /\ s \in Shelves /\ s = <<w, v>>
  BY <1>1 DEF LinesAreThere, ShelfOf, Shelves
<1>4. RaisedOf(c, v) \subseteq DOMAIN req[c].lines
  BY DEF RaisedOf, Bringing
<1>5. IsFiniteSet(RaisedOf(c, v))
  BY <1>2, <1>4, ReceiptHas, FS_Subset
<1>6. LevelIsHeld(c, v) /\ CostIsHeld(c, v)
  BY <1>1 DEF LevelsAreHeld, CostsAreHeld
<1>7. Quantity(req[c].lines, RaisedOf(c, v)) \in Nat /\ Quantity(req[c].lines, {}) = 0
  BY <1>2, <1>4, QuantitySums
<1>8. SeenOnHand(c, s) \in Nat
  BY <1>2, <1>3, <1>6, <1>7 DEF LevelIsHeld
<1>9. SeenCost(c, v) \in Nat
  BY <1>2, <1>6 DEF CostIsHeld
<1>10. ASSUME Homes(v) \subseteq {w} PROVE CarriesOwn(c, v)
  <2>1. CASE RaisedOf(c, v) # {}
    BY <1>6, <1>10, <2>1 DEF CostIsHeld
  <2>2. CASE RaisedOf(c, v) = {}
    <3>1. CostIsCarried(v)
      BY <1>1, <1>10, WithinOne DEF AverageCarriesTheCostOfOneWarehouse
    <3>2. UnitsOf(onHand, v) = onHand[s]
      BY <1>3, <1>10, OneHome
    <3>3. SeenOnHand(c, s) = onHand[s] /\ SeenCost(c, v) = average[v]
      BY <1>2, <1>3, <1>6, <1>7, <2>2 DEF LevelIsHeld, CostIsHeld
    <3>4. Cardinality(RaisedOf(c, v)) = 0
      BY <2>2, FS_EmptySet
    <3>5. CostOf(c, RaisedOf(c, v)) = 0
      BY <1>1, <2>2, CostSums
    <3>6. worth[v] + CostOf(c, RaisedOf(c, v)) = worth[v]
      BY <1>2, <3>5
    <3>7. dust[v] + Cardinality(RaisedOf(c, v)) * SeenOnHand(c, s) = dust[v]
      BY <1>2, <1>8, <3>4
    <3>8. worth[v] - onHand[s] * average[v] \in 0..dust[v]
      BY <3>1, <3>2 DEF CostIsCarried
    <3> QED BY <3>3, <3>6, <3>7, <3>8 DEF CarriesOwn, Carries
  <2> QED BY <2>1, <2>2
<1> QED BY <1>3, <1>4, <1>5, <1>8, <1>9, <1>10

\* The raise moves one level and one average cost of the view, under both locks.
LEMMA RaiseShelfKeeps ==
  ASSUME PurchasingInv, NEW c \in Requests, RaiseShelf(c)
  PROVE  PurchasingInv'
<1>1. PICK n \in todo[c] :
         /\ IsNext(c, n) /\ Raise(c, n)
         /\ shelfLock[ShelfOf(c, VariantOf(c, n))] \in {NoRequest, c}
         /\ shelfLock' = [shelfLock EXCEPT ![ShelfOf(c, VariantOf(c, n))] = c]
  BY DEF RaiseShelf
<1>2. PICK v, s, quantity, price, units, cost, raised :
         /\ v = VariantOf(c, n) /\ s = ShelfOf(c, v) /\ raised = RaisedOf(c, v)
         /\ quantity = Want(c, n).quantity /\ price = LineOf(c, n).cost
         /\ units = SeenOnHand(c, s) /\ cost = SeenCost(c, v)
  OBVIOUS
<1>3. /\ pc[c] = "shelf"
      /\ UNCHANGED <<tables, history, req, orderLock, variantLock, sequenceLock>>
      /\ UNCHANGED <<order, onHand, average, worth, dust, req, orderLock, variantLock, shared>>
  BY DEF RaiseShelf, tables, history
<1>4. /\ PurchasingTypes /\ StagesFit(c) /\ OrderIsHeld(c) /\ LinesAreThere(c) /\ LevelsAreHeld(c)
      /\ CostsAreHeld(c)
  BY DEF PurchasingInv, PurchaseFits
<1>5. /\ pc \in [Requests -> Labels] /\ todo \in [Requests -> SUBSET Nat] /\ DOMAIN view = Requests
      /\ shelfLock \in [Shelves -> Requests \cup {NoRequest}] /\ req[c] \in Request
      /\ worth \in [VariantIds -> Int] /\ dust \in [VariantIds -> Nat]
      /\ onHand \in [Shelves -> Nat]
  BY <1>4 DEF PurchasingTypes, PurchasesTypes
<1>6. Applying(c) /\ Receiving(c) /\ req[c].op = "receive"
  BY <1>3, <1>4 DEF Applying, Receiving, StagesFit, Holding
<1>7. /\ n \in DOMAIN req[c].lines /\ todo[c] \subseteq DOMAIN req[c].lines /\ v \in VariantIds
      /\ \A m \in todo[c] : IsNext(c, m) => m = n
  BY <1>1, <1>2, <1>6, NextIsOne
<1>8. LineOf(c, n) \in Line /\ quantity \in Nat \ {0} /\ price \in Nat
  BY <1>2, <1>4, <1>6, <1>7, LinesAre DEF Line
<1>9. PICK label \in {"finish", "variant"} :
         /\ Goto(c, label) /\ pc'[c] = label
         /\ label = "finish" => todo[c] = {n}
  BY <1>1, <1>5 DEF Raise, Goto
<1>10. /\ view' = [view EXCEPT ![c] = Seen(view[c].lines, Put(view[c].shelf, s, units + quantity),
                   Put(view[c].cost, v, MovingAverage(units, cost, quantity, price)))]
      /\ todo' = [todo EXCEPT ![c] = todo[c] \ {n}]
  BY <1>1, <1>2 DEF Raise
<1>11. /\ view'[c].lines = view[c].lines
       /\ view'[c].shelf = Put(view[c].shelf, s, units + quantity)
       /\ view'[c].cost = Put(view[c].cost, v, MovingAverage(units, cost, quantity, price))
       /\ todo'[c] = todo[c] \ {n} /\ todo' \in [Requests -> SUBSET Nat] /\ DOMAIN view' = Requests
  BY <1>5, <1>10 DEF Seen
<1>12. /\ \A m : /\ Want(c, m)' = Want(c, m) /\ LineOf(c, m)' = LineOf(c, m)
                 /\ VariantOf(c, m)' = VariantOf(c, m)
       /\ \A u : Bringing(c, u)' = Bringing(c, u) /\ ShelfOf(c, u)' = ShelfOf(c, u)
       /\ \A places : CostOf(c, places)' = CostOf(c, places)
  BY <1>3, <1>11 DEF Want, LineOf, VariantOf, Bringing, ShelfOf, CostOf
<1>13. /\ ShelfOf(c, v) = s /\ VariantOf(c, n) = v /\ RaisedOf(c, v) = raised
       /\ units = SeenOnHand(c, s) /\ cost = SeenCost(c, v)
       /\ quantity = Want(c, n).quantity /\ price = LineOf(c, n).cost
       /\ \A u : ShelfOf(c, u) = s => u = v
  BY <1>2 DEF ShelfOf
<1>14. /\ s \in Shelves /\ raised \subseteq DOMAIN req[c].lines /\ IsFiniteSet(raised)
       /\ units \in Nat /\ cost \in Nat
       /\ Homes(v) \subseteq {req[c].warehouse} => CarriesOwn(c, v)
  BY <1>6, <1>7, <1>13, SeenCarries
<1>15. Alone(c) /\ LockTypes'
  <2>1. \A d \in Requests \ {c} : \A x \in Shelves : shelfLock'[x] = d <=> shelfLock[x] = d
    BY <1>1, <1>5, <1>13, <1>14, PurchasingAssumption
  <2>2. shelfLock' \in [Shelves -> Requests \cup {NoRequest}]
    BY <1>1, <1>5
  <2>3. \A d \in Requests \ {c} : pc'[d] = pc[d] /\ todo'[d] = todo[d] /\ view'[d] = view[d]
    BY <1>5, <1>9, <1>10 DEF Goto
  <2> QED BY <1>3, <1>4, <2>1, <2>2, <2>3 DEF Alone, LockTypes, PurchasingTypes, PurchasesTypes
<1>16. StagesFit(c)'
  BY <1>3, <1>6, <1>9, <1>11 DEF StagesFit
<1>17. OrderIsHeld(c)'
  <2>1. Rolled(c)' = Rolled(c)
    BY <1>1, <1>3, <1>7, <1>9, <1>11 DEF Rolled
  <2>2. \A i : LineIsRolled(c, i)' = LineIsRolled(c, i)
    BY <1>3, <1>11, <2>1 DEF LineIsRolled
  <2> QED BY <1>3, <1>4, <1>6, <1>11, <2>2 DEF OrderIsHeld
<1>18. LinesAreThere(c)'
  BY <1>3, <1>4, <1>6, <1>11, <1>12 DEF LinesAreThere
<1>19. /\ n \notin raised /\ RaisedOf(c, v)' = raised \cup {n}
       /\ \A u : u # v => RaisedOf(c, u)' = RaisedOf(c, u)
  <2>1. n \in Bringing(c, v) /\ \A u : u # v => n \notin Bringing(c, u)
    BY <1>7, <1>13 DEF Bringing
  <2>2. Raised(c)' = Raised(c) \cup {n} /\ n \notin Raised(c)
    BY <1>1, <1>3, <1>7, <1>11 DEF Raised
  <2> QED BY <1>12, <1>13, <2>1, <2>2 DEF RaisedOf
<1>20. /\ SeenOnHand(c, s)' = units + quantity
       /\ \A x \in Shelves : x # s => SeenOnHand(c, x)' = SeenOnHand(c, x)
       /\ DOMAIN view'[c].shelf = DOMAIN view[c].shelf \cup {s}
  BY <1>3, <1>11 DEF SeenOnHand, Put
<1>21. /\ SeenCost(c, v)' = MovingAverage(units, cost, quantity, price)
       /\ \A u \in VariantIds : u # v => SeenCost(c, u)' = SeenCost(c, u)
       /\ DOMAIN view'[c].cost = DOMAIN view[c].cost \cup {v}
  BY <1>3, <1>11 DEF SeenCost, Put
<1>22. LevelsAreHeld(c)'
  <2>1. /\ DOMAIN view[c].shelf \subseteq {x \in Shelves : shelfLock[x] = c /\ x[1] = req[c].warehouse}
        /\ \A u \in VariantIds : LevelIsHeld(c, u)
    BY <1>4, <1>6 DEF LevelsAreHeld
  <2>2. s[1] = req[c].warehouse
    BY <1>13 DEF ShelfOf
  <2>3. DOMAIN view'[c].shelf \subseteq {x \in Shelves : shelfLock'[x] = c /\ x[1] = req'[c].warehouse}
    BY <1>1, <1>3, <1>5, <1>13, <1>14, <1>20, <2>1, <2>2
  <2>4. ASSUME NEW u \in VariantIds PROVE LevelIsHeld(c, u)'
    <3>1. CASE u # v
      <4>1. ShelfOf(c, u) \in Shelves /\ ShelfOf(c, u) # s
        BY <1>6, <1>13, <3>1, SeenCarries
      <4> QED BY <1>3, <1>12, <1>19, <1>20, <2>1, <3>1, <4>1 DEF LevelIsHeld
    <3>2. CASE u = v
      <4>1. units = onHand[s] + Quantity(req[c].lines, raised)
        BY <1>7, <1>13, <2>1 DEF LevelIsHeld
      <4>2. /\ Quantity(req[c].lines, raised) \in Nat
            /\ Quantity(req[c].lines, raised \cup {n}) = Quantity(req[c].lines, raised) + quantity
        BY <1>5, <1>6, <1>7, <1>13, <1>14, <1>19, QuantitySums DEF Want
      <4>3. onHand[s] \in Nat
        BY <1>5, <1>14
      <4>4. units + quantity = onHand[s] + Quantity(req[c].lines, raised \cup {n})
        BY <1>8, <4>1, <4>2, <4>3
      <4>5. ShelfOf(c, v)' = s /\ req'[c].lines = req[c].lines /\ onHand' = onHand
        BY <1>3, <1>12, <1>13
      <4> QED BY <1>19, <1>20, <3>2, <4>4, <4>5 DEF LevelIsHeld
    <3> QED BY <3>1, <3>2
  <2> QED BY <2>3, <2>4 DEF LevelsAreHeld
<1>23. CostsAreHeld(c)'
  <2>1. /\ DOMAIN view[c].cost \subseteq {u \in VariantIds : variantLock[u] = c}
        /\ \A u \in VariantIds : CostIsHeld(c, u)
        /\ v \in DOMAIN view[c].cost
    BY <1>1, <1>3, <1>4, <1>6, <1>13 DEF CostsAreHeld
  <2>2. \A u : Homes(u)' = Homes(u)
    <3>1. /\ UNCHANGED <<tables, req>>
          /\ \A d \in Requests : req[d].op = "adjust" =>
               (pc'[d] = "done" <=> pc[d] = "done")
      BY <1>3, <1>5, <1>6, <1>9 DEF Goto
    <3> QED BY <3>1, SumsKept
  <2>3. ASSUME NEW u \in VariantIds PROVE CostIsHeld(c, u)'
    <3>1. CASE u # v
      <4>1. ShelfOf(c, u) \in Shelves /\ ShelfOf(c, u) # s
        BY <1>6, <1>13, <3>1, SeenCarries
      <4>2. SeenOnHand(c, ShelfOf(c, u))' = SeenOnHand(c, ShelfOf(c, u))
        BY <1>12, <1>20, <4>1
      <4>3. CarriesOwn(c, u)' = CarriesOwn(c, u)
        BY <1>3, <1>12, <1>19, <1>21, <3>1, <4>2 DEF CarriesOwn
      <4> QED BY <1>3, <1>19, <1>21, <2>1, <2>2, <3>1, <4>3 DEF CostIsHeld
    <3>2. CASE u = v
      <4>1. MovingAverage(units, cost, quantity, price) \in Nat
        <5>1. 0 - units * cost \in Int /\ Carries(units * cost, units, cost, 0)
          BY <1>14 DEF Carries
        <5>2. units * cost \in Int
          BY <1>14
        <5> QED BY <1>8, <1>14, <5>1, <5>2, MovingAverageCarries
      <4>2. ASSUME Homes(v) \subseteq {req[c].warehouse} PROVE CarriesOwn(c, v)'
        <5>1. PICK k \in Nat : k = Cardinality(raised)
          BY <1>14, FS_CardinalityType
        <5>2. Cardinality(raised \cup {n}) = k + 1
          BY <1>14, <1>19, <5>1, FS_AddElement
        <5>3. PICK value \in Int : value = worth[v] + CostOf(c, raised)
          BY <1>4, <1>5, <1>6, <1>7, <1>14, CostSums
        <5>4. PICK slack \in Nat : slack = dust[v]
          BY <1>5, <1>7
        <5>5. Carries(value, units, cost, slack + k * units)
          BY <1>13, <1>14, <4>2, <5>1, <5>3, <5>4 DEF CarriesOwn
        <5>6. slack + k * units \in Nat
          BY <1>14, SlackGrows
        <5>7. Carries(value + quantity * price, units + quantity,
                      MovingAverage(units, cost, quantity, price), slack + k * units + units + quantity)
          BY <1>8, <1>14, <5>5, <5>6, MovingAverageCarries
        <5>8. Carries(value + quantity * price, units + quantity,
                      MovingAverage(units, cost, quantity, price), slack + (k + 1) * (units + quantity))
          <6>1. PICK more \in Nat : more = slack + (k + 1) * (units + quantity)
            BY <1>8, <1>14, SlackGrows
          <6>2. PICK less \in Nat : less = slack + k * units + units + quantity
            BY <1>8, <1>14, <5>6
          <6>3. less <= more
            BY <1>8, <1>14, <6>1, <6>2, SlackGrows
          <6>4. PICK before \in Int : before = value + quantity * price
            BY <1>8
          <6>5. PICK after \in Int :
                  after = (units + quantity) * MovingAverage(units, cost, quantity, price)
            BY <1>8, <1>14, <4>1
          <6>6. before - after \in 0..less
            BY <5>7, <6>2, <6>4, <6>5 DEF Carries
          <6>7. before - after \in 0..more
            BY ONLY <6>3, <6>6, CarriesMore
          <6> QED BY <6>1, <6>4, <6>5, <6>7 DEF Carries
        <5>9. CostOf(c, raised \cup {n}) = CostOf(c, raised) + quantity * price
          BY <1>4, <1>6, <1>7, <1>13, <1>14, <1>19, CostSums
        <5>10. worth[v] + CostOf(c, raised \cup {n}) = value + quantity * price
          <6>1. CostOf(c, raised) \in Nat /\ worth[v] \in Int
            BY <1>4, <1>5, <1>6, <1>7, <1>14, CostSums
          <6>2. quantity * price \in Int
            BY <1>8
          <6> QED BY <5>3, <5>9, <6>1, <6>2
        <5>11. /\ ShelfOf(c, v)' = s /\ SeenOnHand(c, s)' = units + quantity
               /\ worth'[v] = worth[v] /\ dust'[v] = slack
               /\ CostOf(c, raised \cup {n})' = CostOf(c, raised \cup {n})
          BY <1>3, <1>12, <1>13, <1>20, <5>4
        <5> QED BY <1>19, <1>21, <5>2, <5>8, <5>10, <5>11 DEF CarriesOwn
      <4>3. RaisedOf(c, v)' # {} /\ v \in DOMAIN view'[c].cost /\ SeenCost(c, v)' \in Nat
        BY <1>19, <1>21, <4>1
      <4>4. req'[c].warehouse = req[c].warehouse
        BY <1>3
      <4> QED BY <2>2, <3>2, <4>2, <4>3, <4>4 DEF CostIsHeld
    <3> QED BY <3>1, <3>2
  <2>4. DOMAIN view'[c].cost \subseteq {u \in VariantIds : variantLock'[u] = c}
    BY <1>3, <1>21, <2>1
  <2>5. pc'[c] # "shelf"
    BY <1>9
  <2> QED BY <2>3, <2>4, <2>5 DEF CostsAreHeld
<1> QED BY <1>3, <1>6, <1>9, <1>11, <1>15, <1>16, <1>17, <1>18, <1>22, <1>23, ReceiptStepKeeps
        DEF Holding

-----------------------------------------------------------------------------
(* The steps that write the tables.                                        *)

\* What the shelves hold moves as the only level that moves.
LEMMA UnitsMove ==
  ASSUME NEW before \in [Shelves -> Nat], NEW after \in [Shelves -> Nat],
         NEW v \in VariantIds, NEW w \in WarehouseIds,
         \A u \in WarehouseIds \ {w} : after[<<u, v>>] = before[<<u, v>>]
  PROVE  /\ UnitsOf(before, v) \in Nat
         /\ UnitsOf(after, v) = UnitsOf(before, v) + after[<<w, v>>] - before[<<w, v>>]
<1> DEFINE f == [u \in WarehouseIds |-> before[<<u, v>>]]
           g == [u \in WarehouseIds |-> after[<<u, v>>]]
           others == WarehouseIds \ {w}
<1>1. \A u \in WarehouseIds : <<u, v>> \in Shelves
  BY DEF Shelves
<1>2. /\ \A u \in WarehouseIds : f[u] = before[<<u, v>>] /\ f[u] \in Nat
      /\ \A u \in WarehouseIds : g[u] = after[<<u, v>>] /\ g[u] \in Nat
      /\ \A u \in others : g[u] = f[u]
      /\ \A u \in WarehouseIds : f[u] \in Int
      /\ \A u \in WarehouseIds : g[u] \in Int
  BY <1>1
<1>3. UnitsOf(before, v) = SumFunctionOnSet(f, WarehouseIds)
  BY DEF UnitsOf, SumFunction
<1>4. UnitsOf(after, v) = SumFunctionOnSet(g, WarehouseIds)
  BY DEF UnitsOf, SumFunction
<1> HIDE DEF f, g
<1>5. IsFiniteSet(WarehouseIds) /\ IsFiniteSet(others)
  BY PurchasingAssumption, FS_Subset
<1>6. SumFunctionOnSet(f, WarehouseIds) \in Nat /\ SumFunctionOnSet(f, others) \in Nat
  BY <1>2, <1>5, SumNat
<1>7. SumFunctionOnSet(f, WarehouseIds) = f[w] + SumFunctionOnSet(f, others)
  BY <1>2, <1>5, SumRemove
<1>8. SumFunctionOnSet(g, WarehouseIds) = g[w] + SumFunctionOnSet(g, others)
  BY <1>2, <1>5, SumRemove
<1>9. SumFunctionOnSet(g, others) = SumFunctionOnSet(f, others)
  BY <1>2, <1>5, SumSame
<1>10. f[w] \in Nat /\ g[w] \in Nat /\ f[w] = before[<<w, v>>] /\ g[w] = after[<<w, v>>]
  BY <1>2
<1> QED BY <1>3, <1>4, <1>6, <1>7, <1>8, <1>9, <1>10

\* The orders that receipts name, and their receipts, have not moved.
LEMMA ReceiptsKept ==
  ASSUME req' = req, receipt' = receipt,
         \A d \in Requests : receipt[d] # <<>> => order'[req[d].order] = order[req[d].order]
  PROVE  /\ \A o : ReceiptsOf(o)' = ReceiptsOf(o)
         /\ \A o, i : CameOf(o, i)' = CameOf(o, i)
         /\ \A w, v : Brought(w, v)' = Brought(w, v)
<1>1. \A o : ReceiptsOf(o)' = ReceiptsOf(o)
  BY DEF ReceiptsOf
<1>2. \A w : ReceiptsInto(w)' = ReceiptsInto(w)
  BY DEF ReceiptsInto
<1>3. \A o, i : CameOf(o, i)' = CameOf(o, i)
  BY <1>1 DEF CameOf
<1>4. \A d \in Requests : \A v : Received(d, v)' = Received(d, v)
  <2> TAKE d \in Requests
  <2> TAKE v
  <2>1. CASE receipt[d] # <<>>
    BY <2>1 DEF Received
  <2>2. CASE receipt[d] = <<>>
    <3>1. {n \in DOMAIN receipt[d] : order'[req[d].order].lines[receipt[d][n].line].variant = v} = {}
      BY <2>2
    <3>2. {n \in DOMAIN receipt[d] : order[req[d].order].lines[receipt[d][n].line].variant = v} = {}
      BY <2>2
    <3> QED BY <3>1, <3>2 DEF Received
  <2> QED BY <2>1, <2>2
<1>5. \A w, v : Brought(w, v)' = Brought(w, v)
  <2> TAKE w, v
  <2>1. [d \in Requests |-> Received(d, v)'] = [d \in Requests |-> Received(d, v)]
    BY <1>4
  <2> QED BY <1>2, <2>1 DEF Brought
<1> QED BY <1>1, <1>3, <1>5

\* The adjustments stay the same while the others move.
LEMMA AdjustedKept ==
  ASSUME req' = req, NEW c \in Requests, req[c].op # "adjust",
         \A d \in Requests \ {c} : pc'[d] = pc[d]
  PROVE  \A w, v : Adjusters(w, v)' = Adjusters(w, v) /\ Adjusted(w, v)' = Adjusted(w, v)
<1>1. \A w, v : Adjusters(w, v)' = Adjusters(w, v)
  BY DEF Adjusters
<1> QED BY <1>1 DEF Adjusted

\* A new order starts without receipts.
LEMMA CommitOrderKeeps ==
  ASSUME PurchasingInv, NEW c \in Requests, CommitOrder(c)
  PROVE  PurchasingInv'
<1>1. /\ pc[c] = "finish" /\ req[c].op = "create"
      /\ order' = [order EXCEPT ![c] = Placed(req[c].lines, nextPo)]
      /\ nextPo' = nextPo + 1 /\ EndTransaction(c, "done")
      /\ UNCHANGED <<receipt, onHand, average, worth, dust, req>>
  BY DEF CommitOrder, history
<1>2. /\ PurchasingTypes /\ PurchasesTypes /\ StagesFit(c) /\ ReceiptsAreAtomic
      /\ AverageCarriesTheCostOfOneWarehouse
      /\ \A d \in Requests : PurchaseFits(d) /\ ReceiptIsWhole(d)
  BY DEF PurchasingInv, PurchaseFits, PurchasingTypes
<1>3. /\ req[c] \in Request /\ DOMAIN order = OrderIds /\ c \in OrderIds
      /\ pc \in [Requests -> Labels] /\ DOMAIN receipt = Requests
  BY <1>2 DEF PurchasingTypes, OrderIds
<1>4. /\ Alone(c) /\ LockTypes' /\ todo'[c] = {} /\ todo' \in [Requests -> SUBSET Nat]
      /\ DOMAIN view' = Requests
      /\ pc' = [pc EXCEPT ![c] = "done"] /\ \A o \in OrderIds : orderLock'[o] # c
  BY <1>1, <1>2, EndedAlone
<1>5. receipt[c] = <<>> /\ order[c] = NoOrder
  BY <1>1, NothingWritten
<1>6. /\ \A d \in Requests : receipt[d] # <<>> => req[d].order # c
      /\ ReceiptsOf(c) = {}
  <2>1. \A d \in Requests : receipt[d] # <<>> => req[d].order # c
    BY <1>2, <1>5 DEF ReceiptIsWhole
  <2> QED BY <2>1 DEF ReceiptsOf
<1>7. /\ order'[c] = Placed(req[c].lines, nextPo) /\ DOMAIN order' = OrderIds
      /\ \A o \in OrderIds : o # c => order'[o] = order[o]
      /\ \A o : o # c => order'[o] = order[o]
  BY <1>1, <1>3
<1>8. /\ order'[c].status = "ordered" /\ order'[c] # NoOrder
      /\ DOMAIN order'[c].lines = DOMAIN req[c].lines
      /\ \A i \in DOMAIN req[c].lines :
           order'[c].lines[i] \in Line /\ order'[c].lines[i].received = 0
  <2>1. order'[c].status = "ordered" /\ NoOrder.status = "none"
    BY <1>7 DEF Placed, NoOrder
  <2>2. order'[c].lines = [i \in DOMAIN req[c].lines |-> Fresh(req[c].lines[i])]
    BY <1>7 DEF Placed
  <2>3. \A i \in DOMAIN req[c].lines : req[c].lines[i] \in CreatePurchaseOrderLineDto
    BY <1>1, <1>3, CreateHas
  <2>4. \A i \in DOMAIN req[c].lines : req[c].lines[i].variant \in VariantIds
    BY <1>1, <1>2 DEF StagesFit
  <2>5. \A i \in DOMAIN req[c].lines :
          Fresh(req[c].lines[i]) \in Line /\ Fresh(req[c].lines[i]).received = 0
    BY <2>3, <2>4 DEF Fresh, Line, CreatePurchaseOrderLineDto
  <2> QED BY <2>1, <2>2, <2>5
<1>9. PurchasingTypes'
  <2>1. IsFiniteSet({d \in Requests : pc'[d] = "done"})
    BY <1>2, <1>4, DoneIsFinite DEF PurchasingTypes, Alone
  <2>2. pc' \in [Requests -> Labels] /\ pc'[c] = "done"
    BY <1>3, <1>4 DEF Labels, Final
  <2>3. \A o \in OrderIds, d \in Requests : orderLock'[o] = d => pc'[d] \in Holding
    <3> TAKE o \in OrderIds, d \in Requests
    <3>1. CASE d = c
      BY <1>4, <3>1
    <3>2. CASE d # c
      BY <1>2, <1>4, <3>2 DEF Alone, PurchasesTypes
    <3> QED BY <3>1, <3>2
  <2>4. nextPo' \in Nat \ {0} /\ onHand' \in [Shelves -> Nat] /\ average' \in [VariantIds -> Nat]
    BY <1>1, <1>2 DEF PurchasesTypes
  <2>5. ASSUME NEW o \in OrderIds
        PROVE  \/ order'[o] = NoOrder
               \/ /\ order'[o].status \in {"ordered", "partially_received", "received"}
                  /\ \A i \in DOMAIN order'[o].lines : order'[o].lines[i] \in Line
    BY <1>2, <1>7, <1>8 DEF PurchasesTypes
  <2>6. PurchasesTypes'
    BY <1>4, <2>3, <2>4, <2>5 DEF PurchasesTypes, LockTypes
  <2> QED BY <1>1, <1>2, <1>4, <1>7, <2>1, <2>2, <2>6 DEF PurchasingTypes
<1>10. /\ \A o : ReceiptsOf(o)' = ReceiptsOf(o)
       /\ \A o, i : CameOf(o, i)' = CameOf(o, i)
       /\ \A w, v : Brought(w, v)' = Brought(w, v)
  BY <1>1, <1>6, <1>7, ReceiptsKept
<1>11. \A w, v : Adjusters(w, v)' = Adjusters(w, v) /\ Adjusted(w, v)' = Adjusted(w, v)
  BY <1>1, <1>4, AdjustedKept DEF Alone
<1>12. \A v : Homes(v)' = Homes(v)
  BY <1>10, <1>11 DEF Homes
<1>13. ASSUME NEW d \in Requests \ {c} PROVE PurchaseFits(d)'
  <2>1. /\ order'[d] # NoOrder => order[d] # NoOrder
        /\ \A o \in OrderIds : order[o] # NoOrder => order'[o] = order[o]
    BY <1>5, <1>7
  <2>2. Undisturbed(d)
    BY <1>1, <1>4, <1>12, <2>1 DEF Undisturbed, Alone
  <2> QED BY <1>2, <1>9, <2>2, UndisturbedFits
<1>14. PurchaseFits(c)'
  <2>1. pc'[c] = "done" /\ req' = req /\ receipt'[c] = <<>>
    BY <1>1, <1>3, <1>4, <1>5
  <2> QED BY <1>1, <1>4, <2>1, AtRestFits DEF Receiving, Holding, StagesFit, ReceiptIsWhole,
                                          OrderIsNew, AdjustmentHolds
<1>15. ReceiptsAreAtomic'
  <2>1. ASSUME NEW o \in OrderIds, order'[o] # NoOrder
        PROVE  StatusAgrees(o)' /\ \A i \in DOMAIN order'[o].lines : LineAgrees(o, i)'
    <3>1. CASE o # c
      <4>1. order'[o] = order[o]
        BY <1>7, <3>1
      <4>2. StatusAgrees(o) /\ \A i \in DOMAIN order[o].lines : LineAgrees(o, i)
        BY <1>2, <2>1, <4>1 DEF ReceiptsAreAtomic
      <4> QED BY <1>10, <4>1, <4>2 DEF StatusAgrees, LineAgrees
    <3>2. CASE o = c
      <4>1. StatusAgrees(c)'
        BY <1>6, <1>8, <1>10 DEF StatusAgrees
      <4>2. ASSUME NEW i \in DOMAIN order'[c].lines PROVE LineAgrees(c, i)'
        <5>1. CameOf(c, i) = 0
          BY <1>6, SumEmpty DEF CameOf
        <5>2. order'[c].lines[i].ordered \in Nat
          BY <1>8 DEF Line
        <5> QED BY <1>8, <1>10, <5>1, <5>2 DEF LineAgrees
      <4> QED BY <3>2, <4>1, <4>2
    <3> QED BY <3>1, <3>2
  <2> QED BY <1>1, <1>2, <1>10, <1>11, <2>1 DEF ReceiptsAreAtomic
<1>16. AverageCarriesTheCostOfOneWarehouse'
  <2>1. \A v : CostIsCarried(v)' = CostIsCarried(v)
    BY <1>1 DEF CostIsCarried, UnitsOf
  <2> QED BY <1>2, <1>12, <2>1 DEF AverageCarriesTheCostOfOneWarehouse
<1> QED BY <1>9, <1>13, <1>14, <1>15, <1>16 DEF PurchasingInv

\* Among finitely many warehouses, fewer homes are no more.
LEMMA FewerHomes ==
  ASSUME NEW A, NEW B, A \subseteq B, B \subseteq WarehouseIds, Cardinality(B) <= 1
  PROVE  Cardinality(A) <= 1
<1>1. IsFiniteSet(B)
  BY PurchasingAssumption, FS_Subset
<1>2. IsFiniteSet(A) /\ Cardinality(A) <= Cardinality(B)
  BY <1>1, FS_Subset
<1>3. Cardinality(A) \in Nat /\ Cardinality(B) \in Nat
  BY <1>1, <1>2, FS_CardinalityType
<1> QED BY <1>2, <1>3

\* The only home of a variant is the one it is known to have.
LEMMA OnlyHome ==
  ASSUME NEW B, B \subseteq WarehouseIds, Cardinality(B) <= 1, NEW w \in B
  PROVE  B \subseteq {w}
<1>1. IsFiniteSet(B) /\ IsFiniteSet(B \ {w})
  BY PurchasingAssumption, FS_Subset
<1>2. Cardinality(B \ {w}) = Cardinality(B) - 1
  BY <1>1, FS_RemoveElement
<1>3. Cardinality(B \ {w}) \in Nat /\ Cardinality(B) \in Nat
  BY <1>1, FS_CardinalityType
<1>4. B \ {w} = {}
  <2>1. Cardinality(B \ {w}) = 0
    BY <1>2, <1>3
  <2> QED BY <1>1, <2>1, FS_EmptySet
<1> QED BY <1>4

\* Units that come or go at the average cost carry what they carried.
LEMMA CarriesAlong ==
  ASSUME NEW value \in Int, NEW units \in Int, NEW delta \in Int, NEW cost \in Nat, NEW slack \in Nat,
         value - units * cost \in 0..slack
  PROVE  (value + delta * cost) - (units + delta) * cost \in 0..slack
<1>1. PICK was \in Int : was = units * cost
  OBVIOUS
<1>2. PICK move \in Int : move = delta * cost
  OBVIOUS
<1>3. (units + delta) * cost = was + move
  BY <1>1, <1>2
<1> QED BY ONLY <1>1, <1>2, <1>3, value \in Int, slack \in Nat, value - units * cost \in 0..slack

\* An adjustment moves the level it has locked, at the average cost.
LEMMA AdjustKeeps ==
  ASSUME PurchasingInv, NEW c \in Requests, Adjust(c)
  PROVE  PurchasingInv'
<1>1. PICK w, v, delta, shelf :
         /\ w = req[c].warehouse /\ v = req[c].variant /\ delta = req[c].delta /\ shelf = <<w, v>>
  OBVIOUS
<1>2. /\ pc[c] = "finish" /\ req[c].op = "adjust" /\ shelfLock[shelf] = c
      /\ EndTransaction(c, "done")
      /\ UNCHANGED <<order, receipt, average, nextPo, req, dust>>
      /\ onHand' = [onHand EXCEPT ![shelf] = onHand[shelf] + delta]
      /\ worth' = [worth EXCEPT ![v] = worth[v] + delta * average[v]]
      /\ onHand[shelf] + delta >= 0
  BY <1>1 DEF Adjust, AdjustedShelf, AdjustmentHolds, PurchasingInv, PurchaseFits
<1>3. /\ PurchasingTypes /\ PurchasesTypes /\ StagesFit(c) /\ ReceiptsAreAtomic
      /\ AverageCarriesTheCostOfOneWarehouse
      /\ \A d \in Requests : PurchaseFits(d)
  BY DEF PurchasingInv, PurchaseFits, PurchasingTypes
<1>4. /\ req[c] \in Request /\ pc \in [Requests -> Labels]
      /\ onHand \in [Shelves -> Nat] /\ average \in [VariantIds -> Nat]
      /\ worth \in [VariantIds -> Int] /\ dust \in [VariantIds -> Nat]
  BY <1>3 DEF PurchasingTypes, PurchasesTypes
<1>5. w \in WarehouseIds /\ v \in VariantIds /\ delta \in Int /\ shelf \in Shelves
  BY <1>1, <1>2, <1>4, AdjustmentHas DEF Shelves
<1>6. /\ Alone(c) /\ LockTypes' /\ todo'[c] = {} /\ todo' \in [Requests -> SUBSET Nat]
      /\ DOMAIN view' = Requests
      /\ pc' = [pc EXCEPT ![c] = "done"] /\ pc'[c] = "done" /\ pc' \in [Requests -> Labels]
      /\ \A d \in Requests \ {c} : pc'[d] = pc[d]
      /\ \A o \in OrderIds : orderLock'[o] # c
  <2>1. /\ Alone(c) /\ LockTypes' /\ todo'[c] = {} /\ todo' \in [Requests -> SUBSET Nat]
        /\ DOMAIN view' = Requests /\ pc' = [pc EXCEPT ![c] = "done"]
        /\ \A o \in OrderIds : orderLock'[o] # c
    BY <1>2, <1>3, EndedAlone
  <2> QED BY <1>4, <2>1 DEF Labels, Final
<1>7. /\ onHand' \in [Shelves -> Nat] /\ onHand'[shelf] = onHand[shelf] + delta
      /\ \A s \in Shelves : s # shelf => onHand'[s] = onHand[s]
  BY <1>2, <1>4, <1>5
<1>8. /\ worth' \in [VariantIds -> Int] /\ worth'[v] = worth[v] + delta * average[v]
      /\ \A u \in VariantIds : u # v => worth'[u] = worth[u]
  <2>1. delta * average[v] \in Int
    BY <1>4, <1>5
  <2> QED BY <1>2, <1>4, <1>5, <2>1
<1>9. PurchasingTypes'
  <2>1. IsFiniteSet({d \in Requests : pc'[d] = "done"})
    BY <1>3, <1>6, DoneIsFinite DEF PurchasingTypes
  <2>2. \A o \in OrderIds, d \in Requests : orderLock'[o] = d => pc'[d] \in Holding
    BY <1>3, <1>6 DEF PurchasesTypes, Alone
  <2>3. PurchasesTypes'
    BY <1>2, <1>3, <1>6, <1>7, <2>2 DEF PurchasesTypes, LockTypes
  <2> QED BY <1>2, <1>3, <1>6, <1>8, <2>1, <2>3 DEF PurchasingTypes
<1>10. /\ \A o : ReceiptsOf(o)' = ReceiptsOf(o)
       /\ \A o, i : CameOf(o, i)' = CameOf(o, i)
       /\ \A x, u : Brought(x, u)' = Brought(x, u)
  BY <1>2, ReceiptsKept
<1>11. /\ Adjusters(w, v)' = Adjusters(w, v) \cup {c} /\ c \notin Adjusters(w, v)
       /\ \A x, u : <<x, u>> # shelf => Adjusters(x, u)' = Adjusters(x, u)
  BY <1>1, <1>2, <1>6 DEF Adjusters
<1>12. /\ Adjusted(w, v)' = Adjusted(w, v) + delta
       /\ \A x, u : <<x, u>> # shelf => Adjusted(x, u)' = Adjusted(x, u)
  <2> DEFINE f == [d \in Requests |-> req[d].delta]
  <2>1. \A d \in Adjusters(w, v) \cup {c} : f[d] \in Int
    BY <1>2, <1>3, <1>5, AdjustmentHas DEF Adjusters, PurchasingTypes
  <2>2. /\ \A x, u : Adjusted(x, u) = SumFunctionOnSet(f, Adjusters(x, u))
        /\ \A x, u : Adjusted(x, u)' = SumFunctionOnSet(f, Adjusters(x, u)')
        /\ f[c] = delta
    BY <1>1, <1>2 DEF Adjusted
  <2> HIDE DEF f
  <2>3. IsFiniteSet(Adjusters(w, v)) /\ Adjusted(w, v) \in Int
    BY TableSums
  <2>4. SumFunctionOnSet(f, Adjusters(w, v) \cup {c}) = f[c] + SumFunctionOnSet(f, Adjusters(w, v))
    BY <1>11, <2>1, <2>3, SumAdd
  <2>5. Adjusted(w, v)' = f[c] + Adjusted(w, v)
    BY <1>11, <2>2, <2>4
  <2>6. Adjusted(w, v)' = Adjusted(w, v) + delta
    BY <1>5, <2>2, <2>3, <2>5
  <2> QED BY <1>11, <2>2, <2>6
<1>13. /\ \A u : u # v => Homes(u)' = Homes(u)
       /\ Homes(v) \subseteq Homes(v)' /\ w \in Homes(v)' /\ Homes(v)' \subseteq WarehouseIds
  <2>1. \A u : u # v => Homes(u)' = Homes(u)
    BY <1>10, <1>11 DEF Homes
  <2>2. \A x : Adjusters(x, v) # {} => Adjusters(x, v)' # {}
    BY <1>11
  <2>3. Homes(v) \subseteq Homes(v)'
    BY <1>10, <2>2 DEF Homes
  <2>4. w \in Homes(v)' /\ Homes(v)' \subseteq WarehouseIds
    BY <1>5, <1>11 DEF Homes
  <2> QED BY <2>1, <2>3, <2>4
<1>14. ASSUME NEW d \in Requests \ {c} PROVE PurchaseFits(d)'
  <2>1. \A s \in Shelves : shelfLock[s] = d => shelfLock'[s] = d /\ onHand'[s] = onHand[s]
    BY <1>2, <1>6, <1>7 DEF Alone
  <2>2. ASSUME NEW u \in VariantIds, ShelfOf(d, u) \in Shelves, shelfLock[ShelfOf(d, u)] = d,
               Homes(u)' \subseteq {req[d].warehouse}
        PROVE  Homes(u) \subseteq {req[d].warehouse} /\ worth'[u] = worth[u]
    <3>1. u # v
      <4>1. SUFFICES ASSUME u = v PROVE FALSE
        OBVIOUS
      <4>2. req[d].warehouse = w
        BY <1>13, <2>2, <4>1
      <4>3. ShelfOf(d, u) = shelf
        BY <1>1, <4>1, <4>2 DEF ShelfOf
      <4> QED BY <1>2, <2>2, <4>3, PurchasingAssumption
    <3> QED BY <1>8, <1>13, <2>2, <3>1
  <2>3. /\ pc'[d] = pc[d] /\ todo'[d] = todo[d] /\ view'[d] = view[d] /\ receipt'[d] = receipt[d]
        /\ req' = req /\ order' = order /\ dust' = dust /\ average' = average
        /\ \A o \in OrderIds : orderLock[o] = d => orderLock'[o] = d
        /\ \A u \in VariantIds : variantLock[u] = d => variantLock'[u] = d
    BY <1>2, <1>6 DEF Alone
  <2>4. Undisturbed(d)
    BY <2>1, <2>2, <2>3 DEF Undisturbed
  <2> QED BY <1>3, <1>9, <2>4, UndisturbedFits
<1>15. PurchaseFits(c)'
  <2>1. receipt'[c] = <<>> /\ req' = req /\ todo'[c] = {}
    BY <1>2, <1>6, NothingWritten
  <2> QED BY <1>2, <1>6, <2>1, AtRestFits DEF Receiving, Holding, StagesFit, ReceiptIsWhole,
                                              OrderIsNew, AdjustmentHolds
<1>16. ReceiptsAreAtomic'
  <2>1. ASSUME NEW o \in OrderIds, order'[o] # NoOrder
        PROVE  StatusAgrees(o)' /\ \A i \in DOMAIN order'[o].lines : LineAgrees(o, i)'
    <3>1. StatusAgrees(o) /\ \A i \in DOMAIN order[o].lines : LineAgrees(o, i)
      BY <1>2, <1>3, <2>1 DEF ReceiptsAreAtomic
    <3> QED BY <1>2, <1>10, <3>1 DEF StatusAgrees, LineAgrees
  <2>2. ASSUME NEW x \in WarehouseIds, NEW u \in VariantIds
        PROVE  onHand'[<<x, u>>] = OnShelf[<<x, u>>] + Brought(x, u)' + Adjusted(x, u)'
    <3>1. onHand[<<x, u>>] = OnShelf[<<x, u>>] + Brought(x, u) + Adjusted(x, u)
      BY <1>3 DEF ReceiptsAreAtomic
    <3>2. OnShelf[<<x, u>>] \in Nat /\ Brought(x, u) \in Nat /\ Adjusted(x, u) \in Int
      BY PurchasingAssumption, TableSums
    <3>3. <<x, u>> \in Shelves
      BY DEF Shelves
    <3>4. CASE <<x, u>> = shelf
      <4>1. x = w /\ u = v
        BY <1>1, <3>4
      <4>2. onHand'[<<x, u>>] = onHand[<<x, u>>] + delta /\ Adjusted(x, u)' = Adjusted(x, u) + delta
        BY <1>1, <1>7, <1>12, <4>1
      <4> QED BY <1>5, <1>10, <3>1, <3>2, <4>2
    <3>5. CASE <<x, u>> # shelf
      BY <1>7, <1>10, <1>12, <3>1, <3>3, <3>5
    <3> QED BY <3>4, <3>5
  <2> QED BY <2>1, <2>2 DEF ReceiptsAreAtomic
<1>17. AverageCarriesTheCostOfOneWarehouse'
  <2>1. ASSUME NEW u \in VariantIds, Cardinality(Homes(u)') <= 1 PROVE CostIsCarried(u)'
    <3>1. CASE u # v
      <4>1. CostIsCarried(u)
        BY <1>3, <1>13, <2>1, <3>1 DEF AverageCarriesTheCostOfOneWarehouse
      <4>2. \A x \in WarehouseIds : onHand'[<<x, u>>] = onHand[<<x, u>>]
        BY <1>1, <1>7, <3>1 DEF Shelves
      <4>3. UnitsOf(onHand, u)' = UnitsOf(onHand, u)
        BY <4>2 DEF UnitsOf
      <4> QED BY <1>2, <1>8, <3>1, <4>1, <4>3 DEF CostIsCarried
    <3>2. CASE u = v
      <4>1. Cardinality(Homes(v)) <= 1
        BY <1>13, <2>1, <3>2, FewerHomes
      <4>2. worth[v] - UnitsOf(onHand, v) * average[v] \in 0..dust[v]
        BY <1>3, <1>5, <4>1 DEF AverageCarriesTheCostOfOneWarehouse, CostIsCarried
      <4>3. \A x \in WarehouseIds \ {w} : onHand'[<<x, v>>] = onHand[<<x, v>>]
        BY <1>1, <1>5, <1>7 DEF Shelves
      <4>4. /\ UnitsOf(onHand, v) \in Nat
            /\ UnitsOf(onHand', v) = UnitsOf(onHand, v) + onHand'[<<w, v>>] - onHand[<<w, v>>]
        <5> QED BY <1>4, <1>5, <1>7, <4>3, UnitsMove
      <4>5. UnitsOf(onHand', v) = UnitsOf(onHand, v) + delta
        <5>1. onHand[shelf] \in Nat
          BY <1>4, <1>5
        <5> QED BY <1>1, <1>5, <1>7, <4>4, <5>1
      <4>6. worth[v] \in Int /\ average[v] \in Nat /\ dust[v] \in Nat
        BY <1>4, <1>5
      <4>7. (worth[v] + delta * average[v]) - (UnitsOf(onHand, v) + delta) * average[v] \in 0..dust[v]
        <5> QED BY <1>5, <4>2, <4>4, <4>6, CarriesAlong
      <4>8. UnitsOf(onHand, v)' = UnitsOf(onHand', v)
        BY <1>2 DEF UnitsOf
      <4>9. worth'[v] - UnitsOf(onHand', v) * average[v] \in 0..dust[v]
        BY <1>8, <4>5, <4>7
      <4> QED BY <1>2, <3>2, <4>8, <4>9 DEF CostIsCarried
    <3> QED BY <3>1, <3>2
  <2> QED BY <2>1 DEF AverageCarriesTheCostOfOneWarehouse
<1> QED BY <1>9, <1>14, <1>15, <1>16, <1>17 DEF PurchasingInv

\* When its last line is applied, everything of a receipt is in its view.
LEMMA AllIsSeen ==
  ASSUME PurchasingInv, NEW c \in Requests, pc[c] = "finish", req[c].op = "receive"
  PROVE  /\ Applying(c) /\ Receiving(c) /\ todo[c] = {}
         /\ \A i : Naming(req[c].lines, i) \cap Rolled(c) = Naming(req[c].lines, i)
         /\ \A v : RaisedOf(c, v) = Bringing(c, v)
<1>1. StagesFit(c)
  BY DEF PurchasingInv, PurchaseFits
<1>2. todo[c] = {}
  BY <1>1 DEF StagesFit
<1> QED BY <1>2 DEF Applying, Receiving, Holding, Naming, Rolled, RaisedOf, Raised, Bringing

\* The rows a receipt sees are the committed ones, but for those it has locked.
LEMMA SeenRows ==
  ASSUME PurchasingInv, NEW c \in Requests, Applying(c)
  PROVE  /\ \A s \in Shelves : SeenOnHand(c, s) \in Nat
         /\ \A s \in Shelves : shelfLock[s] # c => SeenOnHand(c, s) = onHand[s]
         /\ \A s \in Shelves : s[1] # req[c].warehouse => SeenOnHand(c, s) = onHand[s]
         /\ \A v \in VariantIds : variantLock[v] # c =>
              SeenCost(c, v) = average[v] /\ RaisedOf(c, v) = {}
<1>1. LevelsAreHeld(c) /\ CostsAreHeld(c) /\ onHand \in [Shelves -> Nat]
  BY DEF PurchasingInv, PurchaseFits, PurchasingTypes, PurchasesTypes
<1>2. DOMAIN view[c].shelf \subseteq {s \in Shelves : shelfLock[s] = c /\ s[1] = req[c].warehouse}
  BY <1>1 DEF LevelsAreHeld
<1>3. \A s \in Shelves : s \notin DOMAIN view[c].shelf => SeenOnHand(c, s) = onHand[s]
  BY DEF SeenOnHand
<1>4. \A s \in Shelves : shelfLock[s] # c => SeenOnHand(c, s) = onHand[s]
  BY <1>2, <1>3
<1>5. \A s \in Shelves : s[1] # req[c].warehouse => SeenOnHand(c, s) = onHand[s]
  BY <1>2, <1>3
<1>6. ASSUME NEW s \in Shelves PROVE SeenOnHand(c, s) \in Nat
  <2>1. CASE s[1] # req[c].warehouse
    BY <1>1, <1>5, <2>1
  <2>2. CASE s[1] = req[c].warehouse
    <3>1. s[2] \in VariantIds /\ s = ShelfOf(c, s[2])
      BY <2>2 DEF Shelves, ShelfOf
    <3>2. SeenOnHand(c, ShelfOf(c, s[2])) \in Nat
      BY <3>1, SeenCarries
    <3> QED BY <3>1, <3>2
  <2> QED BY <2>1, <2>2
<1>7. ASSUME NEW v \in VariantIds, variantLock[v] # c
      PROVE  SeenCost(c, v) = average[v] /\ RaisedOf(c, v) = {}
  <2>1. v \notin DOMAIN view[c].cost
    BY <1>1, <1>7 DEF CostsAreHeld
  <2>2. CostIsHeld(c, v)
    BY <1>1 DEF CostsAreHeld
  <2> QED BY <2>1, <2>2 DEF SeenCost, CostIsHeld
<1> QED BY <1>4, <1>5, <1>6, <1>7

\* What committing a receipt does to the tables.
LEMMA CommitMoves ==
  ASSUME PurchasingInv, NEW c \in Requests, CommitReceipt(c)
  PROVE  LET o == req[c].order
         IN  /\ pc[c] = "finish" /\ req[c].op = "receive" /\ req[c] \in Request
             /\ EndTransaction(c, "done") /\ req' = req /\ nextPo' = nextPo
             /\ o \in OrderIds /\ order[o] # NoOrder /\ order'[o] # NoOrder
             /\ DOMAIN order' = OrderIds /\ DOMAIN receipt' = Requests
             /\ order'[o].status = StatusOf(view[c].lines) /\ order'[o].lines = view[c].lines
             /\ DOMAIN order'[o].lines = DOMAIN order[o].lines
             /\ \A x : x # o => order'[x] = order[x]
             /\ receipt[c] = <<>> /\ order[c] = NoOrder
             /\ receipt'[c] = req[c].lines /\ req[c].lines # <<>>
             /\ \A d \in Requests \ {c} : receipt'[d] = receipt[d]
<1> DEFINE o == req[c].order
<1>1. /\ pc[c] = "finish" /\ req[c].op = "receive"
      /\ order' = [order EXCEPT ![o] = [status |-> StatusOf(view[c].lines),
                                        number |-> order[o].number, lines |-> view[c].lines]]
      /\ receipt' = [receipt EXCEPT ![c] = req[c].lines]
      /\ EndTransaction(c, "done") /\ req' = req /\ nextPo' = nextPo
  BY DEF CommitReceipt
<1>2. /\ req[c] \in Request /\ DOMAIN order = OrderIds /\ DOMAIN receipt = Requests /\ OrderIsHeld(c)
  BY DEF PurchasingInv, PurchasingTypes, PurchaseFits
<1>3. o \in OrderIds /\ req[c].lines # <<>>
  BY <1>1, <1>2, ReceiptHas
<1>4. Receiving(c)
  BY <1>1, AllIsSeen
<1>5. order[o] # NoOrder /\ DOMAIN view[c].lines = DOMAIN order[o].lines
  BY <1>2, <1>4 DEF OrderIsHeld
<1>6. receipt[c] = <<>> /\ order[c] = NoOrder
  BY <1>1, NothingWritten
<1>7. order'[o] = [status |-> StatusOf(view[c].lines),
                   number |-> order[o].number, lines |-> view[c].lines]
  BY <1>1, <1>2, <1>3
<1>8. order'[o].status = StatusOf(view[c].lines) /\ order'[o].lines = view[c].lines
  BY <1>7
<1>9. order'[o] # NoOrder
  <2>1. order'[o].status \in {"received", "partially_received"}
    BY <1>8 DEF StatusOf
  <2>2. NoOrder.status = "none"
    BY DEF NoOrder
  <2> QED BY <2>1, <2>2
<1>10. /\ DOMAIN order' = OrderIds /\ DOMAIN receipt' = Requests
       /\ \A x : x # o => order'[x] = order[x]
       /\ receipt'[c] = req[c].lines
       /\ \A d \in Requests \ {c} : receipt'[d] = receipt[d]
  BY <1>1, <1>2
<1> QED BY <1>1, <1>2, <1>3, <1>5, <1>6, <1>8, <1>9, <1>10

\* The committed receipts, and the sums over them, grow by the one that commits.
LEMMA CommitSums ==
  ASSUME PurchasingInv, NEW c \in Requests, CommitReceipt(c),
         NEW o, o = req[c].order, NEW w, w = req[c].warehouse
  PROVE  /\ c \in ReceiptsOf(o)'
         /\ \A x : x # o => ReceiptsOf(x)' = ReceiptsOf(x)
         /\ \A x, i : x # o => CameOf(x, i)' = CameOf(x, i)
         /\ \A i : CameOf(o, i)' = CameOf(o, i) + Quantity(req[c].lines, Naming(req[c].lines, i))
         /\ \A x, v : x # w => Brought(x, v)' = Brought(x, v)
         /\ \A v : Brought(w, v)' = Brought(w, v) + Quantity(req[c].lines, Bringing(c, v))
<1>1. PICK lines : lines = req[c].lines
  OBVIOUS
<1>2. /\ pc[c] = "finish" /\ req[c].op = "receive" /\ req[c] \in Request
      /\ EndTransaction(c, "done") /\ req' = req
      /\ o \in OrderIds /\ order[o] # NoOrder /\ order'[o] # NoOrder
      /\ order'[o].lines = view[c].lines /\ DOMAIN order'[o].lines = DOMAIN order[o].lines
      /\ \A x : x # o => order'[x] = order[x]
      /\ receipt[c] = <<>> /\ receipt'[c] = lines /\ lines # <<>>
      /\ \A d \in Requests \ {c} : receipt'[d] = receipt[d]
  BY <1>1, CommitMoves
<1>3. Applying(c) /\ Receiving(c)
  BY <1>2, AllIsSeen
<1>4. /\ \A d \in Requests : ReceiptIsWhole(d) /\ req[d] \in Request
      /\ OrderIsHeld(c) /\ LinesAreThere(c) /\ PurchasingTypes
  BY DEF PurchasingInv, PurchaseFits, PurchasingTypes
<1>5. ASSUME NEW d \in Requests, receipt[d] # <<>>
      PROVE  req[d].op = "receive" /\ receipt[d] = req[d].lines
  BY <1>4, <1>5 DEF ReceiptIsWhole
<1>6. /\ ReceiptsOf(o)' = ReceiptsOf(o) \cup {c} /\ c \notin ReceiptsOf(o)
      /\ \A x : c \notin ReceiptsOf(x) /\ (x # o => ReceiptsOf(x)' = ReceiptsOf(x))
  BY <1>1, <1>2 DEF ReceiptsOf
<1>7. /\ ReceiptsInto(w)' = ReceiptsInto(w) \cup {c}
      /\ \A x : c \notin ReceiptsInto(x) /\ (x # w => ReceiptsInto(x)' = ReceiptsInto(x))
  BY <1>1, <1>2 DEF ReceiptsInto
<1>8. \A x : IsFiniteSet(ReceiptsOf(x)) /\ IsFiniteSet(ReceiptsInto(x))
  <2> TAKE x
  <2>1. ReceiptsOf(x) \subseteq {d \in Requests : pc[d] = "done"}
    BY <1>4 DEF ReceiptsOf, ReceiptIsWhole
  <2> QED BY <1>4, <2>1, TableSums, FS_Subset DEF PurchasingTypes
<1>9. ASSUME NEW i
      PROVE  /\ \A x : x # o => CameOf(x, i)' = CameOf(x, i)
             /\ CameOf(o, i)' = CameOf(o, i) + Quantity(lines, Naming(lines, i))
  <2> DEFINE f == [d \in Requests |-> Quantity(receipt[d], Naming(receipt[d], i))]
             g == [d \in Requests |-> Quantity(receipt'[d], Naming(receipt'[d], i))]
  <2>1. \A d \in Requests : receipt[d] # <<>> => f[d] \in Int
    <3> TAKE d \in Requests
    <3> SUFFICES ASSUME receipt[d] # <<>> PROVE f[d] \in Int
      OBVIOUS
    <3>1. Naming(req[d].lines, i) \subseteq DOMAIN req[d].lines
      BY DEF Naming
    <3>2. Quantity(req[d].lines, Naming(req[d].lines, i)) \in Nat
      BY <1>4, <1>5, <3>1, QuantitySums
    <3> QED BY <1>5, <3>2
  <2>2. /\ g[c] = Quantity(lines, Naming(lines, i))
        /\ \A d \in Requests \ {c} : g[d] = f[d]
    BY <1>2
  <2>3. g[c] \in Int
    <3>1. Naming(lines, i) \subseteq DOMAIN lines
      BY DEF Naming
    <3>2. Quantity(lines, Naming(lines, i)) \in Nat
      BY <1>1, <1>2, <3>1, QuantitySums
    <3> QED BY <2>2, <3>2
  <2>4. /\ \A x : CameOf(x, i) = SumFunctionOnSet(f, ReceiptsOf(x))
        /\ \A x : CameOf(x, i)' = SumFunctionOnSet(g, ReceiptsOf(x)')
    BY DEF CameOf
  <2> HIDE DEF f, g
  <2>5. \A x : /\ \A d \in ReceiptsOf(x) : g[d] = f[d]
               /\ \A d \in ReceiptsOf(x) : f[d] \in Int
               /\ \A d \in ReceiptsOf(x) : g[d] \in Int
    BY <1>6, <2>1, <2>2 DEF ReceiptsOf
  <2>6. \A x : SumFunctionOnSet(g, ReceiptsOf(x)) = SumFunctionOnSet(f, ReceiptsOf(x))
    BY <1>8, <2>5, SumSame
  <2>7. SumFunctionOnSet(g, ReceiptsOf(o) \cup {c}) = g[c] + SumFunctionOnSet(g, ReceiptsOf(o))
    <3>1. \A d \in ReceiptsOf(o) \cup {c} : g[d] \in Int
      BY <2>3, <2>5
    <3> QED BY <1>6, <1>8, <3>1, SumAdd
  <2>8. SumFunctionOnSet(f, ReceiptsOf(o)) \in Int
    BY <1>8, <2>5, SumInt
  <2>9. CameOf(o, i)' = SumFunctionOnSet(g, ReceiptsOf(o) \cup {c})
    BY <1>6, <2>4
  <2>10. CameOf(o, i)' = g[c] + CameOf(o, i) /\ CameOf(o, i) \in Int
    BY <2>4, <2>6, <2>7, <2>8, <2>9
  <2>11. CameOf(o, i)' = CameOf(o, i) + Quantity(lines, Naming(lines, i))
    BY <2>2, <2>3, <2>10
  <2>12. ASSUME NEW x, x # o PROVE CameOf(x, i)' = CameOf(x, i)
    <3>1. CameOf(x, i)' = SumFunctionOnSet(g, ReceiptsOf(x))
      BY <1>6, <2>4, <2>12
    <3> QED BY <2>4, <2>6, <3>1
  <2> QED BY <2>11, <2>12
<1>10. ASSUME NEW d \in Requests \ {c}, receipt[d] # <<>>, NEW v
       PROVE  Received(d, v)' = Received(d, v)
  <2>1. receipt'[d] = receipt[d] /\ req' = req
    BY <1>2
  <2>2. \A n \in DOMAIN receipt[d] :
          order'[req[d].order].lines[receipt[d][n].line].variant =
            order[req[d].order].lines[receipt[d][n].line].variant
    <3>1. CASE req[d].order # o
      BY <1>2, <3>1
    <3>2. CASE req[d].order = o
      <4>1. \A n \in DOMAIN receipt[d] : receipt[d][n].line \in DOMAIN order[o].lines
        BY <1>4, <1>10, <3>2 DEF ReceiptIsWhole
      <4>2. \A i \in DOMAIN order[o].lines : view[c].lines[i].variant = order[o].lines[i].variant
        BY <1>1, <1>3, <1>4 DEF OrderIsHeld, LineIsRolled
      <4>3. order'[o].lines = view[c].lines
        BY <1>2
      <4> QED BY <3>2, <4>1, <4>2, <4>3
    <3> QED BY <3>1, <3>2
  <2>3. {n \in DOMAIN receipt'[d] : order'[req'[d].order].lines[receipt'[d][n].line].variant = v} =
          {n \in DOMAIN receipt[d] : order[req[d].order].lines[receipt[d][n].line].variant = v}
    BY <2>1, <2>2
  <2> QED BY <2>1, <2>3 DEF Received
<1>11. ASSUME NEW v PROVE Received(c, v)' = Quantity(lines, Bringing(c, v))
  <2>1. {n \in DOMAIN receipt'[c] : order'[req'[c].order].lines[receipt'[c][n].line].variant = v} =
          Bringing(c, v)
    BY <1>1, <1>2 DEF Bringing, VariantOf, LineOf, Want
  <2> QED BY <1>2, <2>1 DEF Received
<1>12. ASSUME NEW v
       PROVE  /\ \A x : x # w => Brought(x, v)' = Brought(x, v)
              /\ Brought(w, v)' = Brought(w, v) + Quantity(lines, Bringing(c, v))
  <2> DEFINE f == [d \in Requests |-> Received(d, v)]
             g == [d \in Requests |-> Received(d, v)']
  <2>1. \A d \in Requests : receipt[d] # <<>> => f[d] \in Int
    BY ReceivedIsNat
  <2>2. /\ g[c] = Quantity(lines, Bringing(c, v))
        /\ \A d \in Requests \ {c} : receipt[d] # <<>> => g[d] = f[d]
    BY <1>10, <1>11
  <2>3. g[c] \in Int
    <3>1. Bringing(c, v) \subseteq DOMAIN lines
      BY <1>1 DEF Bringing
    <3>2. Quantity(lines, Bringing(c, v)) \in Nat
      BY <1>1, <1>2, <3>1, QuantitySums
    <3> QED BY <2>2, <3>2
  <2>4. /\ \A x : Brought(x, v) = SumFunctionOnSet(f, ReceiptsInto(x))
        /\ \A x : Brought(x, v)' = SumFunctionOnSet(g, ReceiptsInto(x)')
    BY DEF Brought
  <2> HIDE DEF f, g
  <2>5. \A x : /\ \A d \in ReceiptsInto(x) : g[d] = f[d]
               /\ \A d \in ReceiptsInto(x) : f[d] \in Int
               /\ \A d \in ReceiptsInto(x) : g[d] \in Int
    BY <1>7, <2>1, <2>2 DEF ReceiptsInto
  <2>6. \A x : SumFunctionOnSet(g, ReceiptsInto(x)) = SumFunctionOnSet(f, ReceiptsInto(x))
    BY <1>8, <2>5, SumSame
  <2>7. SumFunctionOnSet(g, ReceiptsInto(w) \cup {c}) = g[c] + SumFunctionOnSet(g, ReceiptsInto(w))
    <3>1. \A d \in ReceiptsInto(w) \cup {c} : g[d] \in Int
      BY <2>3, <2>5
    <3> QED BY <1>7, <1>8, <3>1, SumAdd
  <2>8. SumFunctionOnSet(f, ReceiptsInto(w)) \in Int
    BY <1>8, <2>5, SumInt
  <2>9. Brought(w, v)' = SumFunctionOnSet(g, ReceiptsInto(w) \cup {c})
    BY <1>7, <2>4
  <2>10. Brought(w, v)' = g[c] + Brought(w, v) /\ Brought(w, v) \in Int
    BY <2>4, <2>6, <2>7, <2>8, <2>9
  <2>11. Brought(w, v)' = Brought(w, v) + Quantity(lines, Bringing(c, v))
    BY <2>2, <2>3, <2>10
  <2>12. ASSUME NEW x, x # w PROVE Brought(x, v)' = Brought(x, v)
    <3>1. Brought(x, v)' = SumFunctionOnSet(g, ReceiptsInto(x))
      BY <1>7, <2>4, <2>12
    <3> QED BY <2>4, <2>6, <3>1
  <2> QED BY <2>11, <2>12
<1>13. c \in ReceiptsOf(o)'
  BY <1>6
<1> QED BY <1>1, <1>6, <1>9, <1>12, <1>13

\* The commit writes what the view holds, and nobody has moved it meanwhile.
LEMMA CommitReceiptKeeps ==
  ASSUME PurchasingInv, NEW c \in Requests, CommitReceipt(c)
  PROVE  PurchasingInv'
<1>1. PICK o, w, lines : o = req[c].order /\ w = req[c].warehouse /\ lines = req[c].lines
  OBVIOUS
<1>2. /\ pc[c] = "finish" /\ req[c].op = "receive" /\ req[c] \in Request
      /\ EndTransaction(c, "done") /\ req' = req /\ nextPo' = nextPo
      /\ o \in OrderIds /\ order[o] # NoOrder /\ order'[o] # NoOrder
      /\ DOMAIN order' = OrderIds /\ DOMAIN receipt' = Requests
      /\ order'[o].status = StatusOf(view[c].lines) /\ order'[o].lines = view[c].lines
      /\ DOMAIN order'[o].lines = DOMAIN order[o].lines
      /\ \A x : x # o => order'[x] = order[x]
      /\ receipt[c] = <<>> /\ order[c] = NoOrder
      /\ receipt'[c] = lines /\ lines # <<>>
      /\ \A d \in Requests \ {c} : receipt'[d] = receipt[d]
  BY <1>1, CommitMoves
<1>3. /\ onHand' = [s \in Shelves |-> SeenOnHand(c, s)]
      /\ average' = [v \in VariantIds |-> SeenCost(c, v)]
      /\ worth' = [v \in VariantIds |-> worth[v] + CostOf(c, Bringing(c, v))]
      /\ dust' = [v \in VariantIds |->
                    dust[v] + Cardinality(Bringing(c, v)) * SeenOnHand(c, ShelfOf(c, v))]
  BY DEF CommitReceipt
<1>4. /\ Applying(c) /\ Receiving(c) /\ todo[c] = {}
      /\ \A i : Naming(lines, i) \cap Rolled(c) = Naming(lines, i)
      /\ \A v : RaisedOf(c, v) = Bringing(c, v)
  BY <1>1, <1>2, AllIsSeen
<1>5. /\ PurchasingTypes /\ PurchasesTypes /\ OrderIsHeld(c) /\ LinesAreThere(c) /\ LevelsAreHeld(c)
      /\ ReceiptsAreAtomic /\ AverageCarriesTheCostOfOneWarehouse
      /\ \A d \in Requests : PurchaseFits(d)
  BY DEF PurchasingInv, PurchaseFits, PurchasingTypes
<1>6. /\ worth \in [VariantIds -> Int] /\ dust \in [VariantIds -> Nat]
      /\ onHand \in [Shelves -> Nat] /\ average \in [VariantIds -> Nat]
      /\ pc \in [Requests -> Labels]
  BY <1>5 DEF PurchasingTypes, PurchasesTypes
<1>7. /\ Alone(c) /\ LockTypes' /\ todo'[c] = {} /\ todo' \in [Requests -> SUBSET Nat]
      /\ DOMAIN view' = Requests
      /\ pc' = [pc EXCEPT ![c] = "done"] /\ \A x \in OrderIds : orderLock'[x] # c
  BY <1>2, <1>5, EndedAlone
<1>8. /\ w \in WarehouseIds /\ \A n \in DOMAIN lines : lines[n].line \in DOMAIN view[c].lines
      /\ DOMAIN view[c].lines = DOMAIN order[o].lines
      /\ orderLock[o] = c
  BY <1>1, <1>4, <1>5 DEF LinesAreThere, OrderIsHeld, Want
<1>9. \A i \in DOMAIN order[o].lines :
        /\ view[c].lines[i] \in Line
        /\ view[c].lines[i].received = order[o].lines[i].received + Quantity(lines, Naming(lines, i))
        /\ view[c].lines[i].received <= view[c].lines[i].ordered
  BY <1>1, <1>4, <1>5 DEF OrderIsHeld, LineIsRolled
<1>10. /\ \A s \in Shelves : SeenOnHand(c, s) \in Nat
       /\ \A s \in Shelves : shelfLock[s] # c => SeenOnHand(c, s) = onHand[s]
       /\ \A s \in Shelves : s[1] # w => SeenOnHand(c, s) = onHand[s]
       /\ \A v \in VariantIds : variantLock[v] # c =>
            SeenCost(c, v) = average[v] /\ Bringing(c, v) = {}
  BY <1>1, <1>4, SeenRows
<1>11. \A v \in VariantIds :
         /\ ShelfOf(c, v) \in Shelves /\ ShelfOf(c, v) = <<w, v>>
         /\ Bringing(c, v) \subseteq DOMAIN lines /\ IsFiniteSet(Bringing(c, v))
         /\ SeenOnHand(c, <<w, v>>) \in Nat /\ SeenCost(c, v) \in Nat
         /\ Homes(v) \subseteq {w} => CarriesOwn(c, v)
         /\ SeenOnHand(c, <<w, v>>) = onHand[<<w, v>>] + Quantity(lines, Bringing(c, v))
  <2> TAKE v \in VariantIds
  <2>1. ShelfOf(c, v) = <<w, v>>
    BY <1>1 DEF ShelfOf
  <2>2. LevelIsHeld(c, v)
    BY <1>4, <1>5 DEF LevelsAreHeld
  <2>3. SeenOnHand(c, <<w, v>>) = onHand[<<w, v>>] + Quantity(lines, Bringing(c, v))
    BY <1>1, <1>4, <2>1, <2>2 DEF LevelIsHeld
  <2> QED BY <1>1, <1>4, <2>1, <2>3, SeenCarries
<1>12. /\ \A v \in VariantIds : CostOf(c, Bringing(c, v)) \in Nat /\ CostOf(c, {}) = 0
       /\ \A v \in VariantIds : Cardinality(Bringing(c, v)) \in Nat
  <2>1. \A v \in VariantIds : CostOf(c, Bringing(c, v)) \in Nat /\ CostOf(c, {}) = 0
    BY <1>1, <1>4, <1>5, <1>11, CostSums
  <2> QED BY <1>11, <2>1, FS_CardinalityType
<1>13. /\ \A v \in VariantIds : /\ worth'[v] = worth[v] + CostOf(c, Bringing(c, v))
                                /\ dust'[v] = dust[v]
                                     + Cardinality(Bringing(c, v)) * SeenOnHand(c, <<w, v>>)
                                /\ average'[v] = SeenCost(c, v)
       /\ \A s \in Shelves : onHand'[s] = SeenOnHand(c, s)
  BY <1>3, <1>11
<1>14. /\ onHand' \in [Shelves -> Nat] /\ average' \in [VariantIds -> Nat]
       /\ worth' \in [VariantIds -> Int] /\ dust' \in [VariantIds -> Nat]
  <2>1. \A v \in VariantIds : worth[v] + CostOf(c, Bringing(c, v)) \in Int
    BY <1>6, <1>12
  <2>2. \A v \in VariantIds :
          dust[v] + Cardinality(Bringing(c, v)) * SeenOnHand(c, ShelfOf(c, v)) \in Nat
    BY <1>6, <1>11, <1>12, SlackGrows
  <2> QED BY <1>3, <1>10, <1>11, <2>1, <2>2
<1>15. PurchasingTypes'
  <2>1. IsFiniteSet({d \in Requests : pc'[d] = "done"})
    BY <1>5, <1>7, DoneIsFinite DEF PurchasingTypes, Alone
  <2>2. pc' \in [Requests -> Labels] /\ pc'[c] = "done"
    BY <1>6, <1>7 DEF Labels, Final
  <2>3. \A x \in OrderIds, d \in Requests : orderLock'[x] = d => pc'[d] \in Holding
    <3> TAKE x \in OrderIds, d \in Requests
    <3>1. CASE d = c
      BY <1>7, <3>1
    <3>2. CASE d # c
      BY <1>5, <1>7, <3>2 DEF Alone, PurchasesTypes
    <3> QED BY <3>1, <3>2
  <2>4. nextPo' \in Nat \ {0}
    BY <1>2, <1>5 DEF PurchasesTypes
  <2>5. ASSUME NEW x \in OrderIds
        PROVE  \/ order'[x] = NoOrder
               \/ /\ order'[x].status \in {"ordered", "partially_received", "received"}
                  /\ \A i \in DOMAIN order'[x].lines : order'[x].lines[i] \in Line
    <3>1. CASE x # o
      BY <1>2, <1>5, <3>1 DEF PurchasesTypes
    <3>2. CASE x = o
      BY <1>2, <1>8, <1>9, <3>2 DEF StatusOf
    <3> QED BY <3>1, <3>2
  <2>6. PurchasesTypes'
    BY <1>7, <1>14, <2>3, <2>4, <2>5 DEF PurchasesTypes, LockTypes
  <2> QED BY <1>2, <1>5, <1>7, <1>14, <2>1, <2>2, <2>6 DEF PurchasingTypes
<1>16. /\ c \in ReceiptsOf(o)'
       /\ \A x : x # o => ReceiptsOf(x)' = ReceiptsOf(x)
       /\ \A x, i : x # o => CameOf(x, i)' = CameOf(x, i)
       /\ \A i : CameOf(o, i)' = CameOf(o, i) + Quantity(lines, Naming(lines, i))
       /\ \A x, v : x # w => Brought(x, v)' = Brought(x, v)
       /\ \A v : Brought(w, v)' = Brought(w, v) + Quantity(lines, Bringing(c, v))
  BY <1>1, CommitSums
<1>17. \A x, v : Adjusters(x, v)' = Adjusters(x, v) /\ Adjusted(x, v)' = Adjusted(x, v)
  BY <1>2, <1>7, AdjustedKept DEF Alone
<1>18. \A v \in VariantIds : /\ Quantity(lines, Bringing(c, v)) \in Nat
                             /\ Quantity(lines, {}) = 0
                             /\ Bringing(c, v) # {} => Quantity(lines, Bringing(c, v)) > 0
  BY <1>1, <1>2, <1>11, QuantitySums
<1>19. ASSUME NEW v \in VariantIds
       PROVE  /\ Homes(v) \subseteq Homes(v)' /\ Homes(v)' \subseteq WarehouseIds
              /\ Bringing(c, v) # {} => w \in Homes(v)'
              /\ Bringing(c, v) = {} => Homes(v)' = Homes(v)
  <2>1. \A x : Brought(x, v) \in Nat
    BY TableSums
  <2>2. \A x : Brought(x, v) > 0 => Brought(x, v)' > 0
    BY <1>16, <1>18, <2>1
  <2>3. Bringing(c, v) # {} => Brought(w, v)' > 0
    BY <1>16, <1>18, <2>1
  <2>4. Bringing(c, v) = {} => \A x : Brought(x, v)' = Brought(x, v)
    BY <1>16, <1>18, <2>1
  <2> QED BY <1>8, <1>17, <2>2, <2>3, <2>4 DEF Homes
<1>20. ASSUME NEW v \in VariantIds, Bringing(c, v) = {}
       PROVE  /\ worth'[v] = worth[v] /\ dust'[v] = dust[v]
              /\ average'[v] = average[v] /\ onHand'[<<w, v>>] = onHand[<<w, v>>]
  <2>1. worth[v] \in Int /\ dust[v] \in Nat /\ SeenOnHand(c, <<w, v>>) \in Nat /\ <<w, v>> \in Shelves
    BY <1>6, <1>11
  <2>2. Cardinality(Bringing(c, v)) = 0
    BY <1>20, FS_EmptySet
  <2>3. Cardinality(Bringing(c, v)) * SeenOnHand(c, <<w, v>>) = 0
    BY <2>1, <2>2
  <2>4. worth'[v] = worth[v] /\ dust'[v] = dust[v]
    <3>1. CostOf(c, Bringing(c, v)) = 0
      BY <1>12, <1>20
    <3>2. worth'[v] = worth[v] + 0 /\ dust'[v] = dust[v] + 0
      BY <1>13, <2>3, <3>1
    <3> QED BY <2>1, <3>2
  <2>5. CostIsHeld(c, v)
    BY <1>4, <1>5 DEF PurchaseFits, CostsAreHeld
  <2>6. average'[v] = average[v]
    BY <1>4, <1>13, <1>20, <2>5 DEF CostIsHeld
  <2>7. onHand[<<w, v>>] \in Nat
    BY <1>6, <2>1
  <2>8. onHand'[<<w, v>>] = onHand[<<w, v>>]
    <3>1. Quantity(lines, Bringing(c, v)) = 0
      BY <1>18, <1>20
    <3>2. onHand'[<<w, v>>] = onHand[<<w, v>>] + 0
      BY <1>11, <1>13, <2>1, <3>1
    <3> QED BY <2>7, <3>2
  <2> QED BY <2>4, <2>6, <2>8
<1>21. ASSUME NEW d \in Requests \ {c} PROVE PurchaseFits(d)'
  <2>1. \A x \in OrderIds : order[x] # NoOrder /\ orderLock[x] = d =>
          order'[x] = order[x] /\ orderLock'[x] = d
    BY <1>2, <1>7, <1>8 DEF Alone
  <2>2. /\ \A x \in OrderIds : order[x] # NoOrder =>
             order'[x] # NoOrder /\ DOMAIN order'[x].lines = DOMAIN order[x].lines
        /\ order'[d] # NoOrder => order[d] # NoOrder
    BY <1>2
  <2>3. \A s \in Shelves : shelfLock[s] = d => shelfLock'[s] = d /\ onHand'[s] = onHand[s]
    BY <1>7, <1>10, <1>13 DEF Alone
  <2>4. \A v \in VariantIds : variantLock[v] = d =>
          variantLock'[v] = d /\ average'[v] = average[v] /\ Bringing(c, v) = {}
    BY <1>7, <1>10, <1>13 DEF Alone
  <2>5. \A v \in VariantIds : variantLock[v] = d =>
          Homes(v)' = Homes(v) /\ worth'[v] = worth[v] /\ dust'[v] = dust[v]
    BY <1>19, <1>20, <2>4
  <2>6. /\ pc'[d] = pc[d] /\ todo'[d] = todo[d] /\ view'[d] = view[d] /\ receipt'[d] = receipt[d]
        /\ req' = req
    BY <1>2, <1>7 DEF Alone
  <2>7. Undisturbed(d)
    BY <2>1, <2>2, <2>3, <2>4, <2>5, <2>6 DEF Undisturbed
  <2> QED BY <1>5, <1>15, <2>7, UndisturbedFits
<1>22. PurchaseFits(c)'
  <2>1. pc'[c] = "done"
    BY <1>6, <1>7
  <2>2. ReceiptIsWhole(c)'
    BY <1>1, <1>2, <1>8, <2>1 DEF ReceiptIsWhole
  <2> QED BY <1>2, <1>7, <2>1, <2>2, AtRestFits DEF Receiving, Holding, StagesFit, OrderIsNew,
                                                 AdjustmentHolds
<1>23. ReceiptsAreAtomic'
  <2>1. ASSUME NEW x \in OrderIds, order'[x] # NoOrder
        PROVE  StatusAgrees(x)' /\ \A i \in DOMAIN order'[x].lines : LineAgrees(x, i)'
    <3>1. CASE x # o
      <4>1. /\ order'[x] = order[x] /\ ReceiptsOf(x)' = ReceiptsOf(x)
            /\ \A i : CameOf(x, i)' = CameOf(x, i)
        BY <1>2, <1>16, <3>1
      <4>2. StatusAgrees(x) /\ \A i \in DOMAIN order[x].lines : LineAgrees(x, i)
        BY <1>5, <2>1, <4>1 DEF ReceiptsAreAtomic
      <4> QED BY <4>1, <4>2 DEF StatusAgrees, LineAgrees
    <3>2. CASE x = o
      <4>1. ASSUME NEW i \in DOMAIN order[o].lines PROVE LineAgrees(o, i)'
        <5>1. order[o].lines[i].received = CameOf(o, i)
          BY <1>2, <1>5 DEF ReceiptsAreAtomic, LineAgrees
        <5>2. order'[o].lines[i].received = CameOf(o, i)'
          BY <1>2, <1>9, <1>16, <5>1
        <5>3. order'[o].lines[i].received <= order'[o].lines[i].ordered
          BY <1>2, <1>9
        <5> QED BY <5>2, <5>3 DEF LineAgrees
      <4>2. StatusAgrees(o)'
        <5>1. \A i \in DOMAIN order[o].lines :
                view[c].lines[i].received >= view[c].lines[i].ordered <=>
                  view[c].lines[i].received = view[c].lines[i].ordered
          BY <1>9 DEF Line
        <5>2. order'[o].status =
                IF \A i \in DOMAIN order'[o].lines :
                     order'[o].lines[i].received = order'[o].lines[i].ordered
                THEN "received" ELSE "partially_received"
          BY <1>2, <1>8, <5>1 DEF StatusOf
        <5>3. ReceiptsOf(o)' # {}
          BY <1>16
        <5> QED BY <5>2, <5>3 DEF StatusAgrees
      <4> QED BY <1>2, <3>2, <4>1, <4>2
    <3> QED BY <3>1, <3>2
  <2>2. ASSUME NEW x \in WarehouseIds, NEW v \in VariantIds
        PROVE  onHand'[<<x, v>>] = OnShelf[<<x, v>>] + Brought(x, v)' + Adjusted(x, v)'
    <3>1. onHand[<<x, v>>] = OnShelf[<<x, v>>] + Brought(x, v) + Adjusted(x, v)
      BY <1>5 DEF ReceiptsAreAtomic
    <3>2. OnShelf[<<x, v>>] \in Nat /\ Brought(x, v) \in Nat /\ Adjusted(x, v) \in Int
      BY PurchasingAssumption, TableSums
    <3>3. <<x, v>> \in Shelves /\ <<x, v>>[1] = x
      BY DEF Shelves
    <3>4. CASE x = w
      <4>1. onHand'[<<x, v>>] = onHand[<<x, v>>] + Quantity(lines, Bringing(c, v))
        BY <1>11, <1>13, <3>3, <3>4
      <4>2. Brought(x, v)' = Brought(x, v) + Quantity(lines, Bringing(c, v))
        BY <1>2, <1>16, <3>4
      <4>3. Quantity(lines, Bringing(c, v)) \in Nat
        BY <1>18
      <4> QED BY <1>17, <3>1, <3>2, <4>1, <4>2, <4>3
    <3>5. CASE x # w
      BY <1>10, <1>13, <1>16, <1>17, <3>1, <3>3, <3>5
    <3> QED BY <3>4, <3>5
  <2> QED BY <2>1, <2>2 DEF ReceiptsAreAtomic
<1>24. AverageCarriesTheCostOfOneWarehouse'
  <2>1. ASSUME NEW v \in VariantIds, Cardinality(Homes(v)') <= 1 PROVE CostIsCarried(v)'
    <3>1. \A x \in WarehouseIds \ {w} : onHand'[<<x, v>>] = onHand[<<x, v>>]
      BY <1>10, <1>13 DEF Shelves
    <3>2. /\ UnitsOf(onHand, v) \in Nat
          /\ UnitsOf(onHand', v) = UnitsOf(onHand, v) + onHand'[<<w, v>>] - onHand[<<w, v>>]
      BY <1>6, <1>8, <1>14, <3>1, UnitsMove
    <3>3. onHand[<<w, v>>] \in Nat /\ onHand'[<<w, v>>] \in Nat
      BY <1>6, <1>11, <1>14
    <3>4. UnitsOf(onHand, v)' = UnitsOf(onHand', v)
      BY DEF UnitsOf
    <3>5. CASE Bringing(c, v) = {}
      <4>1. CostIsCarried(v)
        BY <1>5, <1>19, <2>1, <3>5 DEF AverageCarriesTheCostOfOneWarehouse
      <4>2. UnitsOf(onHand', v) = UnitsOf(onHand, v)
        BY <1>20, <3>2, <3>3, <3>5
      <4> QED BY <1>20, <3>4, <3>5, <4>1, <4>2 DEF CostIsCarried
    <3>6. CASE Bringing(c, v) # {}
      <4>1. Homes(v) \subseteq {w}
        <5>1. w \in Homes(v)' /\ Homes(v)' \subseteq WarehouseIds /\ Homes(v) \subseteq Homes(v)'
          BY <1>19, <3>6
        <5>2. Homes(v)' \subseteq {w}
          BY <2>1, <5>1, OnlyHome
        <5> QED BY <5>1, <5>2
      <4>2. UnitsOf(onHand, v) = onHand[<<w, v>>]
        BY <1>8, <4>1, OneHome
      <4>3. UnitsOf(onHand', v) = SeenOnHand(c, <<w, v>>)
        BY <1>11, <1>13, <3>2, <3>3, <4>2
      <4>4. Carries(worth[v] + CostOf(c, Bringing(c, v)), SeenOnHand(c, <<w, v>>), SeenCost(c, v),
                    dust[v] + Cardinality(Bringing(c, v)) * SeenOnHand(c, <<w, v>>))
        BY <1>4, <1>11, <4>1 DEF CarriesOwn
      <4>5. worth'[v] - UnitsOf(onHand', v) * average'[v] \in 0..dust'[v]
        BY <1>13, <4>3, <4>4 DEF Carries
      <4> QED BY <3>4, <4>5 DEF CostIsCarried
    <3> QED BY <3>5, <3>6
  <2> QED BY <2>1 DEF AverageCarriesTheCostOfOneWarehouse
<1> QED BY <1>15, <1>21, <1>22, <1>23, <1>24 DEF PurchasingInv

-----------------------------------------------------------------------------
(* The invariant, and the properties that follow.                          *)

\* The standing orders have had no receipt.
LEMMA PurchasesStartFit ==
  ASSUME PurchasesInit
  PROVE  PurchasingInv
<1>1. /\ req \in Errands
      /\ order = [o \in OrderIds |-> IF o \in Requests THEN NoOrder ELSE Placed(StandingOrders[o], o)]
      /\ receipt = [c \in Requests |-> <<>>] /\ onHand = OnShelf
      /\ average = [v \in VariantIds |-> CostAtStart]
      /\ nextPo = Len(StandingOrders) + 1
      /\ pc = [c \in Requests |-> "idle"] /\ todo = [c \in Requests |-> {}]
      /\ view = [c \in Requests |-> NoView]
      /\ orderLock = [o \in OrderIds |-> NoRequest]
      /\ variantLock = [v \in VariantIds |-> NoRequest]
      /\ shelfLock = [s \in Shelves |-> NoRequest]
      /\ shared = [c \in Requests |-> {}]
      /\ worth = [v \in VariantIds |-> UnitsOf(OnShelf, v) * CostAtStart]
      /\ dust = [v \in VariantIds |-> 0]
  BY DEF PurchasesInit
<1>2. \A v \in VariantIds : UnitsOf(OnShelf, v) \in Nat
  <2> TAKE v \in VariantIds
  <2> DEFINE f == [w \in WarehouseIds |-> OnShelf[<<w, v>>]]
  <2>1. \A w \in WarehouseIds : f[w] \in Nat
    BY PurchasingAssumption
  <2>2. UnitsOf(OnShelf, v) = SumFunctionOnSet(f, WarehouseIds)
    BY DEF UnitsOf, SumFunction
  <2> HIDE DEF f
  <2> QED BY <2>1, <2>2, SumNat, PurchasingAssumption
<1>3. ASSUME NEW o \in OrderIds, order[o] # NoOrder
      PROVE  /\ o \notin Requests /\ order[o].status = "ordered"
             /\ \A i \in DOMAIN order[o].lines :
                  order[o].lines[i] \in Line /\ order[o].lines[i].received = 0
  <2>1. o \notin Requests /\ o \in DOMAIN StandingOrders /\ order[o] = Placed(StandingOrders[o], o)
    BY <1>1, <1>3 DEF OrderIds
  <2>2. /\ order[o].status = "ordered"
        /\ order[o].lines = [i \in DOMAIN StandingOrders[o] |-> Fresh(StandingOrders[o][i])]
    BY <2>1 DEF Placed
  <2>3. StandingOrders[o] \in Range(StandingOrders)
    BY <2>1 DEF Range
  <2>4. \A i \in DOMAIN StandingOrders[o] : StandingOrders[o][i] \in Range(StandingOrders[o])
    BY DEF Range
  <2>5. \A i \in DOMAIN StandingOrders[o] :
          /\ StandingOrders[o][i] \in CreatePurchaseOrderLineDto
          /\ StandingOrders[o][i].variant \in VariantIds
    BY <2>3, <2>4, PurchasingAssumption
  <2>6. \A i \in DOMAIN StandingOrders[o] :
          Fresh(StandingOrders[o][i]) \in Line /\ Fresh(StandingOrders[o][i]).received = 0
    BY <2>5 DEF Fresh, Line, CreatePurchaseOrderLineDto
  <2> QED BY <2>1, <2>2, <2>6
<1>4. \A c \in Requests : /\ pc[c] = "idle" /\ receipt[c] = <<>> /\ todo[c] = {}
                          /\ order[c] = NoOrder /\ req[c] \in Request
  BY <1>1, PurchasingAssumption DEF OrderIds
<1>5. PurchasesTypes
  <2>1. onHand \in [Shelves -> Nat] /\ average \in [VariantIds -> Nat]
    BY <1>1, PurchasingAssumption DEF Shelves
  <2>2. nextPo \in Nat \ {0}
    BY <1>1, PurchasingAssumption
  <2>3. \A o \in OrderIds, c \in Requests : orderLock[o] # c
    BY <1>1, PurchasingAssumption
  <2>4. /\ orderLock \in [OrderIds -> Requests \cup {NoRequest}]
        /\ variantLock \in [VariantIds -> Requests \cup {NoRequest}]
        /\ shelfLock \in [Shelves -> Requests \cup {NoRequest}]
        /\ shared \in [Requests -> SUBSET VariantIds]
    BY <1>1
  <2> QED BY <1>3, <2>1, <2>2, <2>3, <2>4 DEF PurchasesTypes
<1>6. PurchasingTypes
  <2>1. pc \in [Requests -> Labels] /\ todo \in [Requests -> SUBSET Nat]
    BY <1>1 DEF Labels
  <2>2. worth \in [VariantIds -> Int] /\ dust \in [VariantIds -> Nat]
    BY <1>1, <1>2, PurchasingAssumption
  <2>3. {c \in Requests : pc[c] = "done"} = {}
    BY <1>4
  <2> QED BY <1>1, <1>4, <1>5, <2>1, <2>2, <2>3, FS_EmptySet DEF PurchasingTypes
<1>7. ASSUME NEW c \in Requests PROVE PurchaseFits(c)
  BY <1>4 DEF PurchaseFits, StagesFit, OrderIsHeld, LinesAreThere, LevelsAreHeld, CostsAreHeld,
              ReceiptIsWhole, OrderIsNew, AdjustmentHolds, Receiving, Applying, Holding
<1>8. /\ \A o : ReceiptsOf(o) = {} /\ \A i : CameOf(o, i) = 0
      /\ \A w, v : Brought(w, v) = 0 /\ Adjusted(w, v) = 0
  <2>1. \A o : ReceiptsOf(o) = {}
    BY <1>4 DEF ReceiptsOf
  <2>2. \A w : ReceiptsInto(w) = {}
    BY <1>4 DEF ReceiptsInto
  <2>3. \A w, v : Adjusters(w, v) = {}
    BY <1>4 DEF Adjusters
  <2> QED BY <2>1, <2>2, <2>3, SumEmpty DEF CameOf, Brought, Adjusted
<1>9. ReceiptsAreAtomic
  <2>1. ASSUME NEW o \in OrderIds, order[o] # NoOrder
        PROVE  StatusAgrees(o) /\ \A i \in DOMAIN order[o].lines : LineAgrees(o, i)
    <3>1. StatusAgrees(o)
      BY <1>3, <1>8, <2>1 DEF StatusAgrees
    <3>2. \A i \in DOMAIN order[o].lines : LineAgrees(o, i)
      BY <1>3, <1>8, <2>1 DEF LineAgrees, Line
    <3> QED BY <3>1, <3>2
  <2>2. \A w \in WarehouseIds, v \in VariantIds :
          onHand[<<w, v>>] = OnShelf[<<w, v>>] + Brought(w, v) + Adjusted(w, v)
    BY <1>1, <1>8, PurchasingAssumption
  <2> QED BY <2>1, <2>2 DEF ReceiptsAreAtomic
<1>10. AverageCarriesTheCostOfOneWarehouse
  <2>1. ASSUME NEW v \in VariantIds PROVE CostIsCarried(v)
    <3>1. UnitsOf(OnShelf, v) * CostAtStart \in Int
      BY <1>2, PurchasingAssumption
    <3>2. /\ worth[v] = UnitsOf(OnShelf, v) * CostAtStart /\ dust[v] = 0
          /\ average[v] = CostAtStart /\ onHand = OnShelf
      BY <1>1
    <3>3. worth[v] - UnitsOf(onHand, v) * average[v] = 0
      BY <3>1, <3>2
    <3> QED BY <3>2, <3>3 DEF CostIsCarried
  <2> QED BY <2>1 DEF AverageCarriesTheCostOfOneWarehouse
<1> QED BY <1>6, <1>7, <1>9, <1>10 DEF PurchasingInv

\* Nothing moves.
LEMMA PurchasesStutter ==
  ASSUME PurchasingInv, UNCHANGED purchaseVars
  PROVE  PurchasingInv'
<1>1. /\ UNCHANGED <<order, receipt, onHand, average, nextPo, req, pc, todo, view,
                     orderLock, variantLock, shelfLock, sequenceLock, shared, worth, dust>>
      /\ UNCHANGED <<tables, history>>
  BY DEF purchaseVars, tables, history
<1>2. PurchasingTypes'
  BY <1>1 DEF PurchasingInv, PurchasingTypes, PurchasesTypes
<1>3. ASSUME NEW d \in Requests PROVE PurchaseFits(d)'
  <2>1. \A v : Homes(v)' = Homes(v)
    BY <1>1, SumsKept
  <2>2. Undisturbed(d)
    BY <1>1, <2>1 DEF Undisturbed
  <2> QED BY <1>2, <2>2, UndisturbedFits DEF PurchasingInv
<1>4. ReceiptsAreAtomic' /\ AverageCarriesTheCostOfOneWarehouse'
  BY <1>1, TablesKeep
<1> QED BY <1>2, <1>3, <1>4 DEF PurchasingInv

\* Every step keeps the invariant.
LEMMA PurchasingStepKeeps ==
  ASSUME PurchasingInv, PurchasesNext
  PROVE  PurchasingInv'
<1>1. CASE AllAnswered
  BY <1>1, PurchasesStutter DEF AllAnswered
<1>2. CASE \E c \in Requests : PurchasesStep(c) \/ Crash(c)
  <2>1. PICK c \in Requests : PurchasesStep(c) \/ Crash(c)
    BY <1>2
  <2>2. CASE BeginCreate(c)
    BY <2>2, BeginCreateKeeps
  <2>3. CASE IssuePoNumber(c)
    BY <2>3, IssuePoNumberKeeps
  <2>4. CASE InsertOrder(c)
    BY <2>4, InsertOrderKeeps
  <2>5. CASE CommitOrder(c)
    BY <2>5, CommitOrderKeeps
  <2>6. CASE BeginReceive(c)
    BY <2>6, BeginReceiveKeeps
  <2>7. CASE LockOrder(c)
    BY <2>7, LockOrderKeeps
  <2>8. CASE InsertReceipt(c)
    BY <2>8, InsertReceiptKeeps
  <2>9. CASE LockVariant(c)
    BY <2>9, LockVariantKeeps
  <2>10. CASE RaiseShelf(c)
    BY <2>10, RaiseShelfKeeps
  <2>11. CASE CommitReceipt(c)
    BY <2>11, CommitReceiptKeeps
  <2>12. CASE Adjust(c)
    BY <2>12, AdjustKeeps
  <2>13. CASE FindNoOrder(c) \/ RefuseReceived(c) \/ RefuseLines(c) \/ KeyConflict(c)
                \/ RollUpFails(c) \/ DeadlockVictim(c) \/ Crash(c)
    BY <2>13, LeavesKeep
  <2>14. CASE InsertLine(c)
    BY <2>14, InsertLineKeeps
  <2>15. CASE LockLevel(c)
    BY <2>15, LockLevelKeeps
  <2>16. CASE InsertAdjustment(c)
    BY <2>16, InsertAdjustmentKeeps
  <2> QED BY <2>1, <2>2, <2>3, <2>4, <2>5, <2>6, <2>7, <2>8, <2>9, <2>10, <2>11, <2>12, <2>13,
             <2>14, <2>15, <2>16 DEF PurchasesStep
<1> QED BY <1>1, <1>2 DEF PurchasesNext

\* The locks, the views and the tables of the purchases stay in step.
THEOREM PurchasingInvariant == PurchasesSpec => []PurchasingInv
<1>1. PurchasesInit => PurchasingInv
  BY PurchasesStartFit
<1>2. PurchasingInv /\ [PurchasesNext]_purchaseVars => PurchasingInv'
  BY PurchasingStepKeeps, PurchasesStutter
<1> QED BY <1>1, <1>2, PTL DEF PurchasesSpec

\* "Concurrent receipts on the same PO serialize": whatever runs beside them, the
\* lines of every order have received what the committed receipts say, never more
\* than was ordered, the status follows, and on-hand has risen by the receipts.
THEOREM ReceiptsStayAtomic == PurchasesSpec => []ReceiptsAreAtomic
<1>1. PurchasingInv => ReceiptsAreAtomic
  BY DEF PurchasingInv
<1> QED BY <1>1, PurchasingInvariant, PTL

\* The average cost of a variant that one warehouse alone has held is derived from
\* its receipts: it carries what the units have cost, but for the divisions' remainders.
THEOREM AverageStaysDerived == PurchasesSpec => []AverageCarriesTheCostOfOneWarehouse
<1>1. PurchasingInv => AverageCarriesTheCostOfOneWarehouse
  BY DEF PurchasingInv
<1> QED BY <1>1, PurchasingInvariant, PTL
=============================================================================

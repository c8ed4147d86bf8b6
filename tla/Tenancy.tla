------------------------------ MODULE Tenancy ------------------------------
(***************************************************************************)
(* The members of one company: how they are invited, join, change their    *)
(* role and overrides, and are removed.                                    *)
(*                                                                         *)
(* Every operation is one or two READ COMMITTED transactions.  A statement *)
(* is an action; a transaction's writes appear at its last one.  A member  *)
(* row, an invitation and an override row are named by the call that       *)
(* inserted them.                                                          *)
(***************************************************************************)
EXTENDS Access

CONSTANTS
  Menu,          \* bound: the requests that are made
  FirstMembers,  \* member rows left by earlier requests
  FirstInvites,  \* pending invitations among them
  FirstOverrides,\* overrides of those members
  NoInvite, NoCall, NoChange

InviteRow == [user : Users, role : Roles, keys : SUBSET (Permissions \X BOOLEAN),
              status : {"pending", "accepted", "revoked"}]

\* What the validation of bodies, and the tokens of the callers, let through.
WellFormed(r) ==
  /\ r.does \in {"create", "switch", "accept"} => r.who \in Users
  /\ r.does = "invite" =>
       r.user \in Users /\ r.role \in Roles /\ r.keys \subseteq Permissions \X BOOLEAN
  /\ r.does = "assign" =>
       /\ r.user \in Users /\ r.role \in Roles \cup {NoChange}
       /\ r.keys = NoChange \/ r.keys \subseteq Permissions \X BOOLEAN
  /\ r.does = "toggle" => r.what \in Features \X {"on", "off"}
  /\ r.does = "subscribe" => r.what[1] \in Plans

\* The unique index on (company, user) holds for the first rows.
ASSUME TenancyAssumption ==
  /\ NoCall \notin Calls
  /\ NoMember \notin MemberRow /\ NoInvite \notin InviteRow
  /\ FirstMembers \in [FirstIds -> MemberRow \cup {NoMember}]
  /\ \A i, j \in FirstIds :
       FirstMembers[i] # NoMember /\ FirstMembers[j] # NoMember
         /\ FirstMembers[i].user = FirstMembers[j].user => i = j
  /\ \A i \in FirstIds :
       FirstInvites[i] # NoInvite => FirstInvites[i] \in InviteRow /\ FirstInvites[i].status = "pending"
  /\ \A i \in FirstIds : FirstOverrides[i] \subseteq Permissions \X BOOLEAN \X {i}
  /\ \A r \in Menu : WellFormed(r)

VARIABLES
  invite,     \* invitations
  tenant,     \* users with an access token for the company
  lock,       \* the call that updated a member row and has not committed
  admitted,   \* history: how many members an invitation let in
  raced       \* history: what another call wrote between a check and its write

rowVars == <<plan, member, invite, overrides, tenant>>
callVars == <<req, at, snap>>
memberVars == <<rowVars, callVars, lock, admitted, raced>>
vars == <<memberVars, flags, cache, read, historyVars>>

\* The cache is empty, or full of what earlier requests left in it.
Init ==
  /\ \/ /\ plan = "none"
        /\ member = [i \in Ids |-> NoMember]
        /\ invite = [i \in Ids |-> NoInvite]
        /\ overrides = [i \in Ids |-> {}]
        /\ tenant = {}
     \/ /\ plan = "pro"
        /\ member = [i \in Ids |-> IF i \in FirstIds THEN FirstMembers[i] ELSE NoMember]
        /\ invite = [i \in Ids |-> IF i \in FirstIds THEN FirstInvites[i] ELSE NoInvite]
        /\ overrides = [i \in Ids |-> IF i \in FirstIds THEN FirstOverrides[i] ELSE {}]
        /\ tenant = {u \in Users : MembersOf(u) # {}}
  /\ flags = {}
  /\ req = [c \in Calls |-> NoReq]
  /\ at = [c \in Calls |-> "idle"]
  /\ snap = [c \in Calls |-> {}]
  /\ \E full \in {{}, tenant} :
       cache = [s \in Servers |-> [u \in Users |->
                  IF u \in full THEN [caps |-> Now(u), left |-> Ttl] ELSE NoEntry]]
  /\ read = [c \in Calls |-> NoRead]
  /\ lost = {} /\ excused = {} /\ torn = {}
  /\ lock = [i \in Ids |-> NoCall]
  /\ admitted = [i \in Ids |-> 0]
  /\ raced = {}

NoRowChanges == UNCHANGED <<rowVars, lock, admitted, raced>>

\* TenancyService.assertActiveTenant: the token names the company and the
\* caller is still a member; inviting an owner takes an owner.
AssertActiveTenant(c) ==
  LET mine == MembersOf(req[c].who) IN
  /\ at[c] = "assert"
  /\ IF mine = {} \/ (/\ req[c].does = "invite" /\ req[c].role = "owner"
                      /\ \A m \in mine : member[m].role # "owner")
       THEN Go(c, "refused")
       ELSE Go(c, IF req[c].role = "custom" THEN "keys" ELSE req[c].does)
  /\ NoRowChanges

-----------------------------------------------------------------------------
(* Founding and switching: both end by binding the session to the company. *)

AskCreate(c, r) ==
  /\ r.does = "create"
  /\ Arrive(c, r, c, "found")
  /\ NoRowChanges

\* The company, its owner and its trial of the pro plan are one transaction; a
\* second company of the same slug hits the unique index.
CreateCompany(c) ==
  /\ at[c] = "found"
  /\ IF plan # "none"
       THEN Go(c, "refused") /\ UNCHANGED <<plan, member>>
       ELSE /\ Go(c, "bind")
            /\ plan' = "pro"
            /\ member' = [member EXCEPT ![c] = [user |-> req[c].who, role |-> "owner"]]
  /\ UNCHANGED <<invite, overrides, tenant, lock, admitted, raced>>

SwitchCompany(c, r) ==
  /\ r.does = "switch"
  /\ plan # "none"
  /\ Arrive(c, r, c, IF MembersOf(r.who) = {} THEN "refused" ELSE "bind")
  /\ NoRowChanges

\* The session may have been revoked meanwhile.
Reissue(c) ==
  /\ at[c] = "bind"
  /\ \/ Go(c, "ok") /\ tenant' = tenant \cup {req[c].who}
     \/ Go(c, "refused") /\ UNCHANGED tenant
  /\ UNCHANGED <<plan, member, invite, overrides, lock, admitted, raced>>

-----------------------------------------------------------------------------
(* Invitations.                                                            *)

AskInvite(c, r) ==
  /\ r.does = "invite"
  /\ r.who \in tenant
  /\ (r.role = "custom") = (r.keys # {})
  /\ Arrive(c, r, c, "assert")
  /\ NoRowChanges

\* The keys of a custom role are checked against the rows, not the cache.
ResolveCustomPermissionKeys(c) ==
  /\ at[c] = "keys"
  /\ Go(c, IF \A k \in req[c].keys : k[1] \in AvailablePermissions(CompanyFeatures)
             THEN req[c].does ELSE "refused")
  /\ NoRowChanges

CreateInvitation(c) ==
  /\ at[c] = "invite"
  /\ Go(c, "ok")
  /\ invite' = [invite EXCEPT ![c] = [user |-> req[c].user, role |-> req[c].role,
                                      keys |-> req[c].keys, status |-> "pending"]]
  /\ UNCHANGED <<plan, member, overrides, tenant, lock, admitted, raced>>

AskRevoke(c, r) ==
  /\ r.does = "revoke"
  /\ r.who \in tenant
  /\ \E i \in Ids : invite[i] # NoInvite /\ Arrive(c, r, i, "assert")
  /\ NoRowChanges

RevokeInvitation(c) ==
  LET i == req[c].on IN
  /\ at[c] = "revoke"
  /\ IF invite[i].status = "pending"
       THEN Go(c, "ok") /\ invite' = [invite EXCEPT ![i].status = "revoked"]
       ELSE Go(c, "refused") /\ UNCHANGED invite
  /\ UNCHANGED <<plan, member, overrides, tenant, lock, admitted, raced>>

\* The invitation is read without a lock; it may also have expired.
AcceptInvitation(c, r) ==
  /\ r.does = "accept"
  /\ \E i \in Ids, next \in {"existing", "refused"} :
       /\ invite[i] # NoInvite
       /\ next = "existing" => invite[i].status = "pending" /\ invite[i].user = r.who
       /\ Arrive(c, r, i, next)
  /\ NoRowChanges

\* A member is told so, and the invitation stays as it is.
ReadExisting(c) ==
  /\ at[c] = "existing"
  /\ Go(c, IF MembersOf(req[c].who) = {} THEN "join" ELSE "ok")
  /\ NoRowChanges

\* The unique index on (company, user) makes a second insert wait for the
\* first and then fail.
Join(c) ==
  /\ at[c] = "join"
  /\ \A d \in Calls : at[d] = "mark" => req[d].who # req[c].who
  /\ Go(c, IF MembersOf(req[c].who) = {} THEN "mark" ELSE "failed")
  /\ NoRowChanges

\* The member, with the keys of a custom role, appears here.
LetIn(c) ==
  LET i == req[c].on IN
  /\ member' = [member EXCEPT ![c] = [user |-> req[c].who, role |-> invite[i].role]]
  /\ overrides' = [overrides EXCEPT ![c] = {<<k[1], k[2], c>> : k \in invite[i].keys}]
  /\ admitted' = [admitted EXCEPT ![i] = @ + 1]

\* The last statement marks a pending invitation; that it found none is not
\* looked at.
MarkAccepted(c) ==
  LET i == req[c].on IN
  /\ at[c] = "mark"
  /\ Go(c, "ok")
  /\ LetIn(c)
  /\ invite' = [invite EXCEPT ![i].status = IF @ = "pending" THEN "accepted" ELSE @]
  /\ raced' = raced \cup (IF invite[i].status = "pending" THEN {} ELSE {"accept"})
  /\ UNCHANGED <<plan, tenant, lock>>

-----------------------------------------------------------------------------
(* Removing a member.                                                      *)

AskRemove(c, r) ==
  /\ r.does = "remove"
  /\ r.who \in tenant
  /\ \E m \in MembersOf(r.user) : Arrive(c, r, m, "assert")
  /\ NoRowChanges

FindToRemove(c) ==
  LET m == req[c].on IN
  /\ at[c] = "remove"
  /\ Go(c, IF member[m] = NoMember THEN "refused"
           ELSE IF member[m].role = "owner" THEN "count" ELSE "delete")
  /\ NoRowChanges

\* Mutant: an owner is removed like anybody else.
CountOwners_Skipped(c) ==
  /\ at[c] = "count"
  /\ Go(c, "delete")
  /\ NoRowChanges

CountOwners(c) ==
  /\ at[c] = "count"
  /\ Go(c, IF Cardinality(Owners) <= 1 THEN "refused" ELSE "delete")
  /\ NoRowChanges

\* Writes of an owner's row, or of one that is made an owner's, between another
\* call's count and its delete.
OwnerRace(c) == IF \E d \in Calls \ {c} : at[d] = "delete" THEN {"owner"} ELSE {}

\* Rows of member m that call d has deleted and not committed.
Clearing(d, m) ==
  IF at[d] = "create" /\ req[d].on = m THEN snap[d] \cap overrides[m] ELSE {}

\* The delete waits for a writer of the row and takes the overrides with it.
DeleteMember(c) ==
  LET m == req[c].on IN
  /\ at[c] = "delete"
  /\ lock[m] = NoCall
  /\ \A d \in Calls : Clearing(d, m) = {}
  /\ IF member[m] = NoMember
       THEN Go(c, "failed") /\ UNCHANGED <<member, overrides, raced>>
       ELSE /\ Go(c, "ok")
            /\ member' = [member EXCEPT ![m] = NoMember]
            /\ overrides' = [overrides EXCEPT ![m] = {}]
            /\ raced' = raced \cup OwnerRace(c)
  /\ UNCHANGED <<plan, invite, tenant, lock, admitted>>

-----------------------------------------------------------------------------
(* Assigning a template, overrides or both.                                *)

\* role or keys = NoChange leaves that part alone.
AskAssign(c, r) ==
  /\ r.does = "assign"
  /\ r.who \in tenant
  /\ r.role # NoChange \/ r.keys # NoChange
  /\ \E m \in MembersOf(r.user) : Arrive(c, r, m, "find")
  /\ NoRowChanges

FindToAssign(c) ==
  /\ at[c] = "find"
  /\ Go(c, IF member[req[c].on] = NoMember THEN "refused"
           ELSE IF req[c].role # NoChange THEN "role" ELSE "clear")
  /\ NoRowChanges

\* Updating the role locks the row, if it is still there.
UpdateRole(c) ==
  LET m == req[c].on IN
  /\ at[c] = "role"
  /\ lock[m] = NoCall
  /\ lock' = [lock EXCEPT ![m] = IF member[m] = NoMember THEN NoCall ELSE c]
  /\ Go(c, IF req[c].keys = NoChange THEN "commit" ELSE "clear")
  /\ UNCHANGED <<rowVars, admitted, raced>>

\* The delete statement sees the rows committed now ...
SeeOverrides(c) ==
  LET m == req[c].on IN
  /\ at[c] = "clear"
  /\ Goto(c, req[c], "wait", overrides[m])
  /\ raced' = raced \cup
       (IF \E d \in Calls \ {c} : at[d] \in {"wait", "create"} /\ req[d].on = m
          THEN {"overrides"} ELSE {})
  /\ UNCHANGED <<rowVars, lock, admitted>>

\* ... and waits for whoever is deleting one of them.
ClearOverrides(c) ==
  LET m == req[c].on IN
  /\ at[c] = "wait"
  /\ \A d \in Calls \ {c} : Clearing(d, m) \cap snap[c] = {}
  /\ Go(c, "create")
  /\ NoRowChanges

Unlock(c) == lock' = [i \in Ids |-> IF lock[i] = c THEN NoCall ELSE lock[i]]

NewRows(c) == {<<k[1], k[2], c>> : k \in req[c].keys}

\* Mutant: the old overrides are not deleted.
CreateOverrides_Adds(c) ==
  LET m == req[c].on IN
  /\ at[c] = "create"
  /\ IF member[m] = NoMember \/ \E row \in overrides[m], k \in req[c].keys : row[1] = k[1]
       THEN Go(c, "failed") /\ UNCHANGED overrides /\ Unlock(c)
       ELSE /\ Go(c, "commit")
            /\ overrides' = [overrides EXCEPT ![m] = @ \cup NewRows(c)]
            /\ UNCHANGED lock
  /\ UNCHANGED <<plan, member, invite, tenant, admitted, raced>>

\* The new rows need the member, and one row per key; the role follows in the
\* same transaction.
CommitAssign(c, rows, keep) ==
  LET m == req[c].on IN
  /\ overrides' = [overrides EXCEPT ![m] = keep \cup rows]
  /\ member' = IF req[c].role = NoChange \/ lock[m] # c THEN member
               ELSE [member EXCEPT ![m].role = req[c].role]
  /\ raced' = raced \cup (IF m \in Owners \/ req[c].role = "owner" THEN OwnerRace(c) ELSE {})
  /\ Go(c, "audit")
  /\ Unlock(c)
  /\ UNCHANGED <<plan, invite, tenant, admitted>>

CreateOverrides(c) ==
  LET m == req[c].on
      keep == overrides[m] \ snap[c] IN
  /\ at[c] = "create"
  /\ IF member[m] = NoMember \/ \E row \in keep, k \in req[c].keys : row[1] = k[1]
       THEN /\ Go(c, "failed")
            /\ Unlock(c)
            /\ UNCHANGED <<rowVars, admitted, raced>>
       ELSE CommitAssign(c, NewRows(c), keep)

AssignRoleOnly(c) ==
  /\ at[c] = "commit"
  /\ CommitAssign(c, {}, overrides[req[c].on])

-----------------------------------------------------------------------------

\* The process dies, or a statement fails: the transaction is rolled back, and
\* what follows the commit is skipped.
Fail(c) ==
  /\ at[c] \notin {"idle", "done"}
  /\ Go(c, "failed")
  /\ Unlock(c)
  /\ read' = [read EXCEPT ![c] = NoRead]
  /\ UNCHANGED <<rowVars, flags, cache, admitted, raced>>

\* Any gated route of another module.
AskUse(c, r) ==
  /\ r.does = "use"
  /\ r.who \in tenant
  /\ Arrive(c, r, c, "ok")
  /\ NoRowChanges

Ask(c, r) ==
  \/ AskCreate(c, r) \/ SwitchCompany(c, r) \/ AskInvite(c, r) \/ AskRevoke(c, r)
  \/ AcceptInvitation(c, r) \/ AskRemove(c, r) \/ AskAssign(c, r) \/ AskUse(c, r)

Continue(c) ==
  \/ AssertActiveTenant(c) \/ CreateCompany(c) \/ Reissue(c)
  \/ ResolveCustomPermissionKeys(c) \/ CreateInvitation(c) \/ RevokeInvitation(c)
  \/ ReadExisting(c) \/ Join(c) \/ MarkAccepted(c)
  \/ FindToRemove(c) \/ CountOwners(c) \/ DeleteMember(c)
  \/ FindToAssign(c) \/ UpdateRole(c) \/ SeeOverrides(c) \/ ClearOverrides(c)
  \/ CreateOverrides(c) \/ AssignRoleOnly(c)

Step(c) ==
  \/ /\ \/ Continue(c)
        \/ at[c] = "idle" /\ \E r \in Menu : Ask(c, r)
     /\ UNCHANGED <<flags, cache, read>>
  \/ /\ Guard(c) \/ AuditChange(c)
     /\ UNCHANGED <<rowVars, flags, lock, admitted, raced>>
  \/ /\ \/ WriteFlag(c) \/ SetPlan(c)
        \/ at[c] = "idle" /\ \E r \in Menu : AskToggle(c, r) \/ AskPlan(c, r)
     /\ UNCHANGED <<member, invite, overrides, tenant, lock, admitted, raced, cache, read>>

Next ==
  \/ \E c \in Calls : Step(c) /\ Remember(c, FALSE)
  \/ \E c \in Calls : Fail(c) /\ Remember(c, TRUE)
  \/ Tick /\ UNCHANGED <<invite, tenant, lock, admitted, raced>>

Spec == Init /\ [][Next]_vars

-----------------------------------------------------------------------------
(* Properties.                                                             *)

\* Types of the rows and the calls; one membership per user (the unique index).
TypeOK ==
  /\ plan \in Plans \cup {"none"}
  /\ flags \subseteq Features \X {"on", "off"}
  /\ member \in [Ids -> MemberRow \cup {NoMember}]
  /\ \A i \in Ids : invite[i] = NoInvite \/ invite[i] \in InviteRow
  /\ \A m \in Ids : overrides[m] \subseteq Permissions \X BOOLEAN \X Ids
  /\ tenant \subseteq Users
  /\ \A s \in Servers, u \in Users : cache[s][u] = NoEntry \/ cache[s][u].left \in 1..Ttl
  /\ lock \in [Ids -> Calls \cup {NoCall}]
  /\ \A u \in Users : Cardinality(MembersOf(u)) <= 1

\* An invitation lets one member in, none once it was revoked, and is accepted
\* exactly if it did (TenancyRepository.acceptInvitationByCode, "all
\* atomically"), unless it changed between the lookup and the last statement.
InvitationsAreSpentOnce ==
  "accept" \notin raced =>
    \A i \in Ids : invite[i] # NoInvite =>
      admitted[i] = IF invite[i].status = "accepted" THEN 1 ELSE 0

\* The overrides of a member are the "full replacement set" of one assignment
\* (access-management.port.ts), unless two assignments of overrides overlapped.
OverridesAreOneSet ==
  "overrides" \notin raced =>
    \A m \in Ids : \A r, s \in overrides[m] : r[3] = s[3]

\* "Cannot remove the company's last owner" (TenancyService.removeMember): no
\* removal leaves a company without an owner, unless an owner's row was written
\* between another removal's count of the owners and its delete.  (An
\* assignment may: it changes the last owner's template without counting.)
RemovalLeavesAnOwnerUnlessRaced ==
  [][Owners # {} /\ Owners' = {} /\ "owner" \notin raced'
       => \A m \in Ids : member[m] # NoMember => member'[m] # NoMember]_vars
=============================================================================

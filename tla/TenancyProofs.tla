--------------------------- MODULE TenancyProofs ---------------------------
(***************************************************************************)
(* Proofs about Tenancy and Access, for every number of calls, processes,  *)
(* users and requests, every plan, flag and override; then about           *)
(* AccountingPeriods, for every number of requests, every month and every  *)
(* amount.                                                                 *)
(*                                                                         *)
(* The inductive invariant of Tenancy has two halves. The first is about   *)
(* the rows: what a call has checked is still so when it writes, unless    *)
(* the history says that another call wrote in between. The second is      *)
(* about the caches: what a guard has read agrees with the rows, or its    *)
(* entry is excused, or what it still grants was held at most Ttl ticks    *)
(* ago.                                                                    *)
(*                                                                         *)
(* That of AccountingPeriods is about the transactions: a period asserted  *)
(* open is open still or was closed since, and has its row, in the table   *)
(* or in the transaction that inserts it; the sequence of invoice numbers  *)
(* stands one above the last committed invoice, and whoever has taken a    *)
(* number holds its row; a close past its gap check has no open month      *)
(* below it but a late one.                                                *)
(***************************************************************************)
EXTENDS Tenancy, AccountingPeriods, SumTheorems

-----------------------------------------------------------------------------
(* The inductive invariant: calls.                                         *)

Guarding == {"guard", "member", "overrides", "store"}
Assigning == {"find", "role", "clear", "wait", "create", "commit"}
Accepting == {"existing", "join", "mark"}
Writing == {"found", "bind", "assert", "keys", "invite", "revoke", "remove", "count", "delete",
            "updateFlag", "createFlag", "setPlan", "audit"} \cup Assigning \cup Accepting
Statements == Guarding \cup Writing \cup {"idle", "done"}

\* The request a statement works for.
Fits(stmt, does) ==
  /\ stmt = "found" => does = "create"
  /\ stmt = "bind" => does \in {"create", "switch"}
  /\ stmt \in {"assert", "keys"} => does \in {"invite", "revoke", "remove"}
  /\ stmt = "invite" => does = "invite"
  /\ stmt = "revoke" => does = "revoke"
  /\ stmt \in {"remove", "count", "delete"} => does = "remove"
  /\ stmt \in Accepting => does = "accept"
  /\ stmt \in Assigning => does = "assign"
  /\ stmt \in {"updateFlag", "createFlag"} => does = "toggle"
  /\ stmt = "setPlan" => does = "subscribe"
  /\ stmt = "audit" => does \in {"assign", "toggle", "subscribe"}

\* What a guard may let a call go on to.
Beginnings == {"found", "bind", "assert", "existing", "find", "updateFlag", "createFlag", "setPlan"}

Active(c) == at[c] \notin {"idle", "done"}

\* A row that is there, or was: its call has inserted it.
Settled(m) == m \in FirstIds \/ (m \in Calls /\ at[m] \in {"bind", "done"})

\* The request of a call, and the row it is for.
Requested(c) ==
  LET r == req[c] IN
  /\ WellFormed(r) /\ r.via \in Servers /\ r.on \in Ids
  /\ IF at[c] \in Guarding
       THEN \/ r.next \in Answers
            \/ r.next \in Beginnings /\ Fits(r.next, r.does) /\ (r.next = "bind" => r.does = "switch")
       ELSE Fits(at[c], r.does)
  /\ r.does # "create" \/ at[c] = "bind" => plan # "none"
  /\ r.does \in {"accept", "revoke"} => invite[r.on] # NoInvite
  /\ r.does \in {"remove", "assign"} => Settled(r.on)
  /\ r.does = "assign" => /\ member[r.on] = NoMember \/ member[r.on].user = r.user
                          /\ r.role # NoChange \/ r.keys # NoChange
  /\ at[c] \in {"clear", "wait", "create"} => r.keys # NoChange

CallsInv == \A c \in Calls : Active(c) => Requested(c)

-----------------------------------------------------------------------------
(* The inductive invariant: rows.                                          *)

Shapes ==
  /\ plan \in Plans \cup {"none"}
  /\ flags \subseteq Features \X {"on", "off"}
  /\ member \in [Ids -> MemberRow \cup {NoMember}]
  /\ invite \in [Ids -> InviteRow \cup {NoInvite}]
  /\ overrides \in [Ids -> SUBSET (Permissions \X BOOLEAN \X Ids)]
  /\ tenant \subseteq Users
  /\ at \in [Calls -> Statements]
  /\ req = [c \in Calls |-> req[c]]
  /\ snap = [c \in Calls |-> snap[c]]
  /\ lock \in [Ids -> Calls \cup {NoCall}]
  /\ admitted \in [Ids -> Nat]

\* One membership per user: what the unique index promises.
MembersInv ==
  /\ \A c \in Calls : member[c] # NoMember => at[c] \in {"bind", "done"}
  /\ \A m, n \in Ids :
       member[m] # NoMember /\ member[n] # NoMember /\ member[m].user = member[n].user => m = n
  /\ \A c \in Calls : at[c] = "mark" => MembersOf(req[c].who) = {}
  /\ \A c, d \in Calls : at[c] = "mark" /\ at[d] = "mark" /\ req[c].who = req[d].who => c = d
  /\ plan = "none" => /\ \A i \in Ids : member[i] = NoMember /\ invite[i] = NoInvite
                      /\ tenant = {}
  /\ \A m \in Ids : lock[m] # NoCall => member[m] # NoMember

InvitesInv ==
  /\ \A c \in Calls : invite[c] # NoInvite => at[c] = "done"
  /\ \A i \in Ids : invite[i] = NoInvite => admitted[i] = 0
  /\ InvitationsAreSpentOnce

\* A replacement has seen every override it replaces.
OverridesInv ==
  "overrides" \notin raced =>
    /\ \A m \in Ids : \A r, s \in overrides[m] : r[3] = s[3]
    /\ \A c \in Calls : at[c] \in {"wait", "create"} => overrides[req[c].on] \subseteq snap[c]
    /\ \A c, d \in Calls :
         at[c] \in {"wait", "create"} /\ at[d] \in {"wait", "create"} /\ req[c].on = req[d].on => c = d

\* A removal that has counted leaves an owner.
OwnersInv ==
  "owner" \notin raced =>
    \A c \in Calls : at[c] = "delete" /\ req[c].on \in Owners => \E o \in Owners : o # req[c].on

RowsInv ==
  /\ Shapes
  /\ CallsInv
  /\ MembersInv
  /\ InvitesInv
  /\ OverridesInv
  /\ OwnersInv

-----------------------------------------------------------------------------
(* The inductive invariant: caches.                                        *)

Reading == {"member", "overrides", "store"}

CacheShapes ==
  /\ cache = [s \in Servers |-> [u \in Users |-> cache[s][u]]]
  /\ \A s \in Servers, u \in Users :
       cache[s][u] # NoEntry =>
         /\ cache[s][u] = [caps |-> cache[s][u].caps, left |-> cache[s][u].left]
         /\ cache[s][u].left \in 1..Ttl
  /\ read = [c \in Calls |-> read[c]]
  /\ \A c \in Calls : at[c] = "member" =>
       read[c] = [features |-> read[c].features, role |-> read[c].role, on |-> read[c].on]
  /\ \A l \in lost : l = <<l[1], l[2], l[3]>> /\ l[3] \in Nat

\* What a guard has read for user u is what the rows hold.
Fresh(c, u) ==
  /\ at[c] = "member" => read[c].features = CompanyFeatures
  /\ at[c] = "overrides" => /\ read[c].features = CompanyFeatures
                            /\ read[c].on \in MembersOf(u)
                            /\ read[c].role = member[read[c].on].role
  /\ at[c] = "store" => read[c] = Now(u)

\* It is, or its entry will be excused; and what it grants beyond the rows was
\* held since the last tick, unless the rows changed between its statements.
GuardInv(c, s, u) ==
  at[c] \in Reading /\ req[c].via = s /\ req[c].who = u =>
    /\ Fresh(c, u) \/ <<s, u>> \in excused
    /\ u \notin torn =>
         /\ at[c] # "store" => Fresh(c, u)
         /\ at[c] = "store" =>
              \A a \in Atoms(read[c]) \ Atoms(Now(u)) : <<u, a, 0>> \in lost

\* A call between its commit and the invalidation of a user's entry.
Promised(c, s, u) ==
  at[c] = "audit" /\ req[c].via = s /\ (req[c].does = "assign" => req[c].user = u)

\* An entry agrees with the rows, or is excused, or is about to go; and what it
\* grants beyond the rows was held, and is known to be lost.
EntryInv(s, u) ==
  cache[s][u] # NoEntry =>
    /\ \/ cache[s][u].caps = Now(u)
       \/ <<s, u>> \in excused
       \/ \E c \in Calls : Promised(c, s, u)
    /\ u \notin torn =>
         \A a \in Atoms(cache[s][u].caps) \ Atoms(Now(u)) :
           \E l \in lost : l[1] = u /\ l[2] = a /\ l[3] + cache[s][u].left <= Ttl

CachesInv ==
  /\ CacheShapes
  /\ \A c \in Calls, s \in Servers, u \in Users : GuardInv(c, s, u)
  /\ \A s \in Servers, u \in Users : EntryInv(s, u)

IInv == RowsInv /\ CachesInv

-----------------------------------------------------------------------------
(* Steps of one call.                                                      *)

Alone(c) == \A d \in Calls \ {c} : at'[d] = at[d] /\ req'[d] = req[d] /\ snap'[d] = snap[d]

LEMMA GotoEffect ==
  ASSUME Shapes, NEW c \in Calls, NEW request, NEW next \in Statements \cup Answers, NEW seen,
         Goto(c, request, next, seen)
  PROVE  /\ Alone(c)
         /\ at' \in [Calls -> Statements]
         /\ req' = [d \in Calls |-> req'[d]] /\ snap' = [d \in Calls |-> snap'[d]]
         /\ next \in Answers => at'[c] = "done"
         /\ next \notin Answers => at'[c] = next /\ req'[c] = request /\ snap'[c] = seen
<1> DEFINE stmt == IF next \in Answers THEN "done" ELSE next
<1>1. stmt \in Statements
  BY DEF Statements
<1>2. /\ at' = [at EXCEPT ![c] = stmt]
      /\ req' = [req EXCEPT ![c] = IF next \in Answers THEN NoReq ELSE request]
      /\ snap' = [snap EXCEPT ![c] = IF next \in Answers THEN {} ELSE seen]
  BY DEF Goto
<1>3. at' \in [Calls -> Statements] /\ at'[c] = stmt /\ \A d \in Calls \ {c} : at'[d] = at[d]
  BY <1>1, <1>2 DEF Shapes
<1>4. /\ req' = [d \in Calls |-> req'[d]]
      /\ req'[c] = (IF next \in Answers THEN NoReq ELSE request)
      /\ \A d \in Calls \ {c} : req'[d] = req[d]
  BY <1>2 DEF Shapes
<1>5. /\ snap' = [d \in Calls |-> snap'[d]]
      /\ snap'[c] = (IF next \in Answers THEN {} ELSE seen)
      /\ \A d \in Calls \ {c} : snap'[d] = snap[d]
  BY <1>2 DEF Shapes
<1> QED
  BY <1>3, <1>4, <1>5 DEF Alone

\* What every step of a call does to the rows, and to the other calls.
Gentle(c) ==
  /\ Alone(c) /\ Shapes'
  /\ at[c] # "done" /\ (at[c] = "bind" => at'[c] \in {"bind", "done"})
  /\ \A i \in Ids : invite[i] # NoInvite => invite'[i] # NoInvite
  /\ \A m \in Ids :
       \/ member'[m] = NoMember
       \/ member[m] # NoMember /\ member'[m].user = member[m].user
       \/ m = c /\ at[c] # "bind"
  /\ plan # "none" => plan' # "none"

LEMMA CallsStep ==
  ASSUME RowsInv, NEW c \in Calls, Gentle(c), Active(c)' => Requested(c)'
  PROVE  CallsInv'
<1> SUFFICES ASSUME NEW d \in Calls, d # c, Active(d)' PROVE Requested(d)'
  BY DEF CallsInv
<1>1. at'[d] = at[d] /\ req'[d] = req[d]
  BY DEF Gentle, Alone
<1>2. Active(d) /\ Requested(d)
  BY <1>1 DEF RowsInv, CallsInv, Active
<1>3. WellFormed(req'[d])
  BY <1>1, <1>2 DEF Requested
<1>4. req[d].does \in {"remove", "assign"} =>
        \/ req[d].on \in FirstIds
        \/ req[d].on \in Calls /\ at'[req[d].on] \in {"bind", "done"}
  BY <1>2 DEF Requested, Settled, Gentle, Alone
<1>5. req[d].does \in {"accept", "revoke"} => invite'[req[d].on] # NoInvite
  BY <1>2 DEF Requested, Gentle
<1>6. req[d].does = "assign" =>
        member'[req[d].on] = NoMember \/ member'[req[d].on].user = req[d].user
  <2> SUFFICES ASSUME req[d].does = "assign"
               PROVE  member'[req[d].on] = NoMember \/ member'[req[d].on].user = req[d].user
    OBVIOUS
  <2>1. /\ req[d].on \in Ids /\ Settled(req[d].on)
        /\ member[req[d].on] = NoMember \/ member[req[d].on].user = req[d].user
    BY <1>2 DEF Requested
  <2>2. req[d].on = c => at[c] = "bind"
    BY <2>1, AccessAssumption DEF Settled, Gentle
  <2> QED
    BY <2>1, <2>2 DEF Gentle
<1>7. (req[d].does # "create" \/ at[d] = "bind") => plan' # "none"
  BY <1>2 DEF Requested, Gentle
<1>8. WellFormed(req[d])' <=> WellFormed(req'[d])
  BY DEF WellFormed
<1> QED
  BY <1>1, <1>2, <1>3, <1>4, <1>5, <1>6, <1>7, <1>8 DEF Requested, Settled

\* No new member, and a new mark only for a user who is none.
LEMMA MembersStep ==
  ASSUME RowsInv, NEW c \in Calls, Gentle(c),
         \A m \in Ids : member'[m] # NoMember => member[m] # NoMember /\ member'[m].user = member[m].user,
         at'[c] = "mark" =>
           /\ MembersOf(req'[c].who) = {}
           /\ \A d \in Calls \ {c} : at[d] = "mark" => req[d].who # req'[c].who,
         plan = "none" => invite' = invite /\ tenant' = tenant,
         \A m \in Ids : lock'[m] # NoCall => member'[m] # NoMember
  PROVE  MembersInv'
<1>1. MembersInv /\ Calls \subseteq Ids
  BY DEF RowsInv, Ids
<1>2. \A u : MembersOf(u)' \subseteq MembersOf(u)
  BY DEF MembersOf
<1>3. \A d \in Calls \ {c} : at'[d] = at[d] /\ req'[d] = req[d]
  BY DEF Gentle, Alone
<1>4. \A d \in Calls : member'[d] # NoMember => at'[d] \in {"bind", "done"}
  BY <1>1, <1>3 DEF MembersInv, Gentle
<1>5. \A m, n \in Ids :
        member'[m] # NoMember /\ member'[n] # NoMember /\ member'[m].user = member'[n].user => m = n
  BY <1>1 DEF MembersInv
<1>6. \A d \in Calls : at'[d] = "mark" => MembersOf(req[d].who)' = {} \/ d = c
  BY <1>1, <1>2, <1>3 DEF MembersInv
<1>7. \A d \in Calls : at'[d] = "mark" => {m \in Ids : member'[m] # NoMember /\ member'[m].user = req'[d].who} = {}
  BY <1>1, <1>2, <1>3, <1>6 DEF MembersOf
<1>8. \A d, e \in Calls : at'[d] = "mark" /\ at'[e] = "mark" /\ req'[d].who = req'[e].who => d = e
  BY <1>1, <1>3 DEF MembersInv
<1>9. plan' = "none" => /\ \A i \in Ids : member'[i] = NoMember /\ invite'[i] = NoInvite
                        /\ tenant' = {}
  BY <1>1 DEF MembersInv, Gentle
<1> QED
  BY <1>4, <1>5, <1>7, <1>8, <1>9 DEF MembersInv, MembersOf

LEMMA InvitesStay ==
  ASSUME RowsInv, NEW c \in Calls, Gentle(c), invite' = invite, admitted' = admitted, raced \subseteq raced'
  PROVE  InvitesInv'
<1>1. \A d \in Calls : invite[d] # NoInvite => at'[d] = "done"
  BY DEF RowsInv, InvitesInv, Gentle, Alone
<1>2. InvitationsAreSpentOnce'
  BY DEF RowsInv, InvitesInv, InvitationsAreSpentOnce
<1> QED
  BY <1>1, <1>2 DEF RowsInv, InvitesInv

LEMMA OverridesStep ==
  ASSUME RowsInv, NEW c \in Calls, Gentle(c), \A m \in Ids : overrides'[m] \subseteq overrides[m],
         raced \subseteq raced',
         at'[c] \in {"wait", "create"} => at[c] = "wait" /\ req'[c] = req[c] /\ snap'[c] = snap[c]
  PROVE  OverridesInv'
<1> SUFFICES ASSUME "overrides" \notin raced'
             PROVE  /\ \A m \in Ids : \A r, s \in overrides'[m] : r[3] = s[3]
                    /\ \A d \in Calls : at'[d] \in {"wait", "create"} => overrides'[req'[d].on] \subseteq snap'[d]
                    /\ \A d, e \in Calls :
                         at'[d] \in {"wait", "create"} /\ at'[e] \in {"wait", "create"}
                           /\ req'[d].on = req'[e].on => d = e
  BY DEF OverridesInv
<1>1. /\ \A m \in Ids : \A r, s \in overrides[m] : r[3] = s[3]
      /\ \A d \in Calls : at[d] \in {"wait", "create"} => overrides[req[d].on] \subseteq snap[d]
      /\ \A d, e \in Calls :
           at[d] \in {"wait", "create"} /\ at[e] \in {"wait", "create"} /\ req[d].on = req[e].on => d = e
  BY DEF RowsInv, OverridesInv
<1>2. \A d \in Calls : at'[d] \in {"wait", "create"} =>
        at[d] \in {"wait", "create"} /\ req'[d] = req[d] /\ snap'[d] = snap[d]
  BY DEF Gentle, Alone
<1>3. \A d \in Calls : at[d] \in {"wait", "create"} => req[d].on \in Ids
  BY DEF RowsInv, CallsInv, Active, Requested
<1> QED
  BY <1>1, <1>2, <1>3

LEMMA OwnersStep ==
  ASSUME RowsInv, NEW c \in Calls, Gentle(c), member' = member, raced \subseteq raced',
         at'[c] = "delete" /\ req'[c].on \in Owners => \E o \in Owners : o # req'[c].on
  PROVE  OwnersInv'
<1>1. Owners' = Owners
  BY DEF Owners
<1>2. \A d \in Calls \ {c} : at'[d] = at[d] /\ req'[d] = req[d]
  BY DEF Gentle, Alone
<1> QED
  BY <1>1, <1>2 DEF RowsInv, OwnersInv

RowsStay == UNCHANGED <<plan, flags, member, invite, overrides, tenant, lock, admitted, raced>>

LEMMA QuietRows ==
  ASSUME RowsInv, NEW c \in Calls, RowsStay, Alone(c), at' \in [Calls -> Statements],
         req' = [d \in Calls |-> req'[d]], snap' = [d \in Calls |-> snap'[d]],
         at[c] # "done", at[c] = "bind" => at'[c] \in {"bind", "done"},
         Active(c)' => Requested(c)',
         at'[c] = "mark" =>
           /\ MembersOf(req'[c].who) = {}
           /\ \A d \in Calls \ {c} : at[d] = "mark" => req[d].who # req'[c].who,
         at'[c] \in {"wait", "create"} => at[c] = "wait" /\ req'[c] = req[c] /\ snap'[c] = snap[c],
         at'[c] = "delete" /\ req'[c].on \in Owners => \E o \in Owners : o # req'[c].on
  PROVE  RowsInv'
<1>1. Shapes'
  BY DEF RowsInv, Shapes, RowsStay
<1>2. Gentle(c)
  BY <1>1 DEF Gentle, RowsStay
<1>3. CallsInv'
  BY <1>2, CallsStep
<1>4. MembersInv'
  <2>1. /\ \A m \in Ids : member'[m] # NoMember => member[m] # NoMember /\ member'[m].user = member[m].user
        /\ \A m \in Ids : lock'[m] # NoCall => member'[m] # NoMember
        /\ plan = "none" => invite' = invite /\ tenant' = tenant
    BY DEF RowsStay, RowsInv, MembersInv
  <2> QED
    BY <1>2, <2>1, MembersStep
<1>5. InvitesInv'
  BY <1>2, InvitesStay DEF RowsStay
<1>6. OverridesInv'
  BY <1>2, OverridesStep DEF RowsStay
<1>7. OwnersInv'
  BY <1>2, OwnersStep DEF RowsStay
<1> QED
  BY <1>1, <1>3, <1>4, <1>5, <1>6, <1>7 DEF RowsInv

-----------------------------------------------------------------------------
(* Steps that write no row.                                                *)

\* A call goes on, or is answered.
LEMMA GoKeepsRows ==
  ASSUME RowsInv, NEW c \in Calls, RowsStay, Active(c), NEW next \in Guarding \cup Writing \cup Answers,
         Go(c, next), at[c] = "bind" => next \in Answers,
         next \in Guarding => at[c] \in Guarding,
         next \in Writing => Fits(next, req[c].does) /\ (next = "bind" => req[c].does # "create"),
         next = "mark" =>
           /\ MembersOf(req[c].who) = {}
           /\ \A d \in Calls \ {c} : at[d] = "mark" => req[d].who # req[c].who,
         next \in {"wait", "create"} => at[c] = "wait",
         next \in {"clear", "wait", "create"} => req[c].keys # NoChange,
         next = "delete" /\ req[c].on \in Owners => \E o \in Owners : o # req[c].on
  PROVE  RowsInv'
<1>1. Shapes /\ Requested(c) /\ next \in Statements \cup Answers
  BY DEF RowsInv, CallsInv, Statements
<1>2. /\ Alone(c) /\ at' \in [Calls -> Statements]
      /\ req' = [d \in Calls |-> req'[d]] /\ snap' = [d \in Calls |-> snap'[d]]
      /\ next \in Answers => at'[c] = "done"
      /\ next \notin Answers => at'[c] = next /\ req'[c] = req[c] /\ snap'[c] = snap[c]
  BY <1>1, GotoEffect DEF Go
<1>3. at[c] # "done" /\ at[c] # "idle"
  BY DEF Active
<1>4. next \in Writing \cup Guarding => next \notin Answers
  BY DEF Writing, Guarding, Answers, Assigning, Accepting
<1>5. Active(c)' => next \notin Answers
  BY <1>2 DEF Active
<1>6. ASSUME Active(c)' PROVE Requested(c)'
  <2>1. at'[c] = next /\ req'[c] = req[c] /\ snap'[c] = snap[c]
    BY <1>2, <1>5, <1>6
  <2>2. WellFormed(req[c])' = WellFormed(req'[c])
    BY DEF WellFormed
  <2>3. \A m : Settled(m) => (m \in FirstIds \/ (m \in Calls /\ at'[m] \in {"bind", "done"}))
    BY <1>2, <1>3, <1>4 DEF Settled, Alone
  <2>4. req[c].does # "create" \/ next = "bind" => plan # "none"
    BY <1>1, <1>3 DEF Requested, Writing
  <2>5. next \in Writing => next \notin Guarding
    BY DEF Writing, Guarding, Assigning, Accepting
  <2> QED
    BY <1>1, <1>5, <1>6, <2>1, <2>2, <2>3, <2>4, <2>5 DEF Requested, RowsStay, Settled
<1>7. at[c] = "bind" => at'[c] \in {"bind", "done"}
  BY <1>2
<1>8. at'[c] = "mark" =>
           /\ MembersOf(req'[c].who) = {}
           /\ \A d \in Calls \ {c} : at[d] = "mark" => req[d].who # req'[c].who
  BY <1>2
<1>9. at'[c] \in {"wait", "create"} => at[c] = "wait" /\ req'[c] = req[c] /\ snap'[c] = snap[c]
  BY <1>2
<1>10. at'[c] = "delete" /\ req'[c].on \in Owners => \E o \in Owners : o # req'[c].on
  BY <1>2
<1> HIDE DEF Active, Requested
<1> QED
  BY <1>2, <1>3, <1>6, <1>7, <1>8, <1>9, <1>10, QuietRows

\* A request arrives.
LEMMA ArriveKeepsRows ==
  ASSUME RowsInv, NEW c \in Calls, RowsStay, at[c] = "idle", NEW r \in Menu, NEW i \in Ids,
         NEW next \in Beginnings \cup Answers, Arrive(c, r, i, next),
         next \in Answers \/ (Fits(next, r.does) /\ (next = "bind" => r.does = "switch")),
         r.does # "create" => plan # "none",
         r.does \in {"accept", "revoke"} => invite[i] # NoInvite,
         r.does \in {"remove", "assign"} => Settled(i),
         r.does = "assign" => /\ member[i] = NoMember \/ member[i].user = r.user
                              /\ r.role # NoChange \/ r.keys # NoChange
  PROVE  RowsInv'
<1>1. PICK s \in Servers :
        Goto(c, [does |-> r.does, who |-> r.who, role |-> r.role, keys |-> r.keys,
                 what |-> r.what, user |-> r.user, on |-> i, via |-> s, next |-> next],
             IF Needs[RouteOf(r)] = NoNeed THEN next ELSE "guard", {})
  BY DEF Arrive
<1> DEFINE request == [does |-> r.does, who |-> r.who, role |-> r.role, keys |-> r.keys,
                       what |-> r.what, user |-> r.user, on |-> i, via |-> s, next |-> next]
           first == IF Needs[RouteOf(r)] = NoNeed THEN next ELSE "guard"
<1>2. /\ first \in {"guard"} \cup Beginnings \cup Answers
      /\ first \in Statements \cup Answers
      /\ first \in {"guard", next}
  BY DEF Statements, Guarding, Writing, Beginnings, Accepting, Assigning
<1>3. Shapes
  BY DEF RowsInv
<1> HIDE DEF first
<1>4. /\ Alone(c) /\ at' \in [Calls -> Statements]
      /\ req' = [d \in Calls |-> req'[d]] /\ snap' = [d \in Calls |-> snap'[d]]
      /\ first \in Answers => at'[c] = "done"
      /\ first \notin Answers => at'[c] = first /\ req'[c] = request
  <2>1. Goto(c, request, first, {})
    BY <1>1 DEF first
  <2> HIDE DEF request
  <2> QED
    BY <1>2, <1>3, <2>1, GotoEffect
<1>5. at'[c] \in {"done", "guard"} \cup Beginnings
  BY <1>2, <1>4
<1>6. ASSUME Active(c)' PROVE Requested(c)'
  <2>1. first \notin Answers /\ at'[c] = first /\ req'[c] = request
    BY <1>4, <1>6 DEF Active
  <2>2. WellFormed(r)
    BY TenancyAssumption
  <2>3. WellFormed(request)
    BY <2>2 DEF WellFormed
  <2>4. /\ request.does = r.does /\ request.who = r.who /\ request.user = r.user /\ request.on = i
        /\ request.via = s /\ request.next = next /\ request.role = r.role /\ request.keys = r.keys
    OBVIOUS
  <2> HIDE DEF request
  <2>5. WellFormed(req[c])' = WellFormed(req'[c])
    BY DEF WellFormed
  <2>6. first \in Guarding => first = "guard"
    BY <1>2, <2>1 DEF Guarding, Beginnings
  <2>7. first = "guard" \/ (first = next /\ Fits(next, r.does) /\ (next = "bind" => r.does = "switch"))
    BY <1>2, <2>1
  <2>8. \A m : Settled(m) => (m \in FirstIds \/ (m \in Calls /\ at'[m] \in {"bind", "done"}))
    BY <1>4 DEF Settled, Alone
  <2>9. /\ r.does # "create" \/ first = "bind" => plan' # "none"
        /\ r.does \in {"accept", "revoke"} => invite'[i] # NoInvite
        /\ r.does = "assign" => /\ member'[i] = NoMember \/ member'[i].user = r.user
                                /\ r.role # NoChange \/ r.keys # NoChange
        /\ first \notin {"clear", "wait", "create"}
    BY <1>2, <2>1, <2>6, <2>7 DEF RowsStay, Beginnings
  <2>10. r.does \in {"remove", "assign"} => Settled(req[c].on)'
    BY <2>1, <2>4, <2>8 DEF Settled
  <2>11. IF first \in Guarding
           THEN \/ next \in Answers
                \/ next \in Beginnings /\ Fits(next, r.does) /\ (next = "bind" => r.does = "switch")
           ELSE Fits(first, r.does)
    BY <2>6, <2>7 DEF Guarding
  <2> HIDE DEF Settled, WellFormed
  <2> QED
    BY <2>1, <2>3, <2>4, <2>5, <2>9, <2>10, <2>11 DEF Requested
<1>7. at'[c] \notin {"mark", "wait", "create", "delete"}
  BY <1>5 DEF Beginnings
<1> HIDE DEF Active, Requested
<1> QED
  BY <1>4, <1>6, <1>7, QuietRows

LEMMA RowsStayFor ==
  ASSUME NoRowChanges, flags' = flags PROVE RowsStay
BY DEF NoRowChanges, rowVars, RowsStay

LEMMA MembersSettled ==
  ASSUME RowsInv, NEW m \in Ids, member[m] # NoMember PROVE Settled(m)
BY DEF RowsInv, MembersInv, Settled, Ids

LEMMA AskKeepsRows ==
  ASSUME RowsInv, NEW c \in Calls, at[c] = "idle", NEW r \in Menu, flags' = flags,
         Ask(c, r) \/ AskToggle(c, r) \/ AskPlan(c, r),
         UNCHANGED <<member, invite, overrides, tenant, lock, admitted, raced>>
  PROVE  RowsInv'
<1>1. RowsStay
  BY DEF Ask, AskCreate, SwitchCompany, AskInvite, AskRevoke, AcceptInvitation, AskRemove, AskAssign,
         AskUse, NoRowChanges, rowVars, AskToggle, AskPlan, RowsStay
<1>2. c \in Ids /\ \A u \in tenant : plan # "none"
  BY DEF Ids, RowsInv, MembersInv
<1>3. {"found", "bind", "assert", "existing", "find", "updateFlag", "createFlag", "setPlan", "refused", "ok"}
        \subseteq Beginnings \cup Answers
  BY DEF Beginnings, Answers
<1>4. ASSUME NEW m \in Ids, member[m] # NoMember PROVE Settled(m) /\ plan # "none"
  BY <1>4, MembersSettled DEF RowsInv, MembersInv
<1>5. \A u : MembersOf(u) \subseteq Ids /\ \A m \in MembersOf(u) : member[m] # NoMember /\ member[m].user = u
  BY DEF MembersOf
<1>6. CASE AskCreate(c, r)
  BY <1>1, <1>2, <1>3, <1>6, ArriveKeepsRows DEF AskCreate, Fits, Accepting, Assigning
<1>7. CASE SwitchCompany(c, r)
  BY <1>1, <1>2, <1>3, <1>7, ArriveKeepsRows DEF SwitchCompany, Fits, Accepting, Assigning, Answers
<1>8. CASE AskInvite(c, r)
  BY <1>1, <1>2, <1>3, <1>8, ArriveKeepsRows DEF AskInvite, Fits, Accepting, Assigning
<1>9. CASE AskRevoke(c, r)
  BY <1>1, <1>2, <1>3, <1>9, ArriveKeepsRows DEF AskRevoke, Fits, Accepting, Assigning
<1>10. CASE AcceptInvitation(c, r)
  <2>1. PICK i \in Ids, next \in {"existing", "refused"} : invite[i] # NoInvite /\ Arrive(c, r, i, next)
    BY <1>10 DEF AcceptInvitation
  <2>2. plan # "none" /\ r.does = "accept"
    BY <1>10, <2>1 DEF AcceptInvitation, RowsInv, MembersInv
  <2> QED
    BY <1>1, <1>3, <2>1, <2>2, ArriveKeepsRows DEF Fits, Accepting, Assigning, Answers
<1>11. CASE AskRemove(c, r)
  <2>1. PICK m \in MembersOf(r.user) : Arrive(c, r, m, "assert")
    BY <1>11 DEF AskRemove
  <2>2. m \in Ids /\ Settled(m) /\ plan # "none" /\ r.does = "remove"
    BY <1>4, <1>5, <1>11 DEF AskRemove
  <2> QED
    BY <1>1, <1>3, <2>1, <2>2, ArriveKeepsRows DEF Fits, Accepting, Assigning
<1>12. CASE AskAssign(c, r)
  <2>1. PICK m \in MembersOf(r.user) : Arrive(c, r, m, "find")
    BY <1>12 DEF AskAssign
  <2>2. m \in Ids /\ Settled(m) /\ plan # "none" /\ r.does = "assign" /\ member[m].user = r.user
        /\ (r.role # NoChange \/ r.keys # NoChange)
    BY <1>4, <1>5, <1>12 DEF AskAssign
  <2> QED
    BY <1>1, <1>3, <2>1, <2>2, ArriveKeepsRows DEF Fits, Accepting, Assigning
<1>13. CASE AskUse(c, r)
  BY <1>1, <1>2, <1>3, <1>13, ArriveKeepsRows DEF AskUse, Answers
<1>14. CASE AskToggle(c, r)
  BY <1>1, <1>2, <1>3, <1>14, ArriveKeepsRows DEF AskToggle, Fits, Accepting, Assigning
<1>15. CASE AskPlan(c, r)
  BY <1>1, <1>2, <1>3, <1>15, ArriveKeepsRows DEF AskPlan, Fits, Accepting, Assigning
<1> QED
  BY <1>6, <1>7, <1>8, <1>9, <1>10, <1>11, <1>12, <1>13, <1>14, <1>15 DEF Ask

LEMMA GuardKeepsRows ==
  ASSUME RowsInv, NEW c \in Calls, Guard(c) \/ AuditChange(c), RowsStay
  PROVE  RowsInv'
<1>1. CASE AuditChange(c)
  BY <1>1, GoKeepsRows DEF AuditChange, Active, Answers, Guarding, Writing, Assigning, Accepting
<1>2. CASE Guard(c)
  <2>1. at[c] \in Guarding /\ Active(c) /\ Requested(c)
    BY <1>2 DEF Guard, GuardHit, ReadCompany, ReadMember, ReadOverrides, Store, Guarding, Active,
                RowsInv, CallsInv
  <2>2. PICK next \in Guarding \cup Answers \cup Beginnings :
           Go(c, next) /\ (next \in Guarding \cup Answers \/ next = req[c].next)
    <3>1. req[c].next \in Answers \cup Beginnings
      BY <2>1 DEF Requested
    <3>2. ASSUME NEW caps, Decide(c, caps)
          PROVE  \E next \in Guarding \cup Answers \cup Beginnings :
                   Go(c, next) /\ (next \in Guarding \cup Answers \/ next = req[c].next)
      BY <3>1, <3>2 DEF Decide, Answers
    <3> QED
      BY <1>2, <3>2 DEF Guard, GuardHit, ReadCompany, ReadMember, ReadOverrides, Store, Guarding
  <2>3. next \in Guarding \cup Writing \cup Answers
    BY DEF Writing, Beginnings, Assigning, Accepting
  <2>4. next \in Writing => /\ Fits(next, req[c].does) /\ (next = "bind" => req[c].does # "create")
                            /\ next \in Beginnings
    BY <2>1, <2>2 DEF Requested, Writing, Guarding, Answers, Assigning, Accepting
  <2>5. next \notin {"mark", "clear", "wait", "create", "delete"} /\ at[c] # "bind"
    BY <2>1, <2>4 DEF Beginnings, Guarding, Answers, Writing, Assigning, Accepting
  <2> QED
    BY <2>1, <2>2, <2>3, <2>4, <2>5, GoKeepsRows
<1> QED
  BY <1>1, <1>2

\* Of a count above one an owner is left.
LEMMA AnotherOne ==
  ASSUME NEW S, NEW x \in S, ~(Cardinality(S) <= 1)
  PROVE  \E y \in S : y # x
<1> SUFFICES ASSUME \A y \in S : y = x PROVE FALSE
  OBVIOUS
<1>1. S = {x}
  OBVIOUS
<1>2. Cardinality({x}) = 1
  BY FS_Singleton
<1> QED
  BY <1>1, <1>2

LEMMA ChecksKeepRows ==
  ASSUME RowsInv, NEW c \in Calls, flags' = flags,
         \/ AssertActiveTenant(c) \/ ResolveCustomPermissionKeys(c)
         \/ ReadExisting(c) \/ Join(c) \/ FindToRemove(c) \/ CountOwners(c) \/ FindToAssign(c)
         \/ ClearOverrides(c)
  PROVE  RowsInv'
<1>1. RowsStay
  BY DEF AssertActiveTenant, ResolveCustomPermissionKeys, ReadExisting, Join, FindToRemove,
         CountOwners, FindToAssign, ClearOverrides, NoRowChanges, rowVars, RowsStay
<1>2. /\ Active(c) /\ Requested(c) /\ at[c] \notin Guarding /\ at[c] # "bind"
      /\ Fits(at[c], req[c].does)
  BY DEF AssertActiveTenant, ResolveCustomPermissionKeys, ReadExisting, Join, FindToRemove,
         CountOwners, FindToAssign, ClearOverrides, Active, Guarding, RowsInv, CallsInv, Requested
<1> USE DEF Answers, Guarding, Writing, Assigning, Accepting
<1>3. CASE AssertActiveTenant(c) \/ ResolveCustomPermissionKeys(c)
  <2>1. req[c].does \in {"invite", "revoke", "remove"}
    BY <1>2, <1>3 DEF AssertActiveTenant, ResolveCustomPermissionKeys, Fits
  <2>2. PICK next \in {"refused", "keys", req[c].does} : Go(c, next)
    BY <1>3 DEF AssertActiveTenant, ResolveCustomPermissionKeys
  <2>3. next \in Writing => Fits(next, req[c].does)
    BY <2>1 DEF Fits
  <2> QED
    BY <1>1, <1>2, <2>1, <2>2, <2>3, GoKeepsRows
<1>4. CASE ReadExisting(c)
  <2>1. PICK next \in {"join", "ok"} : Go(c, next)
    BY <1>4 DEF ReadExisting
  <2>2. next \in Writing => Fits(next, req[c].does)
    BY <1>2, <1>4 DEF ReadExisting, Fits
  <2> QED
    BY <1>1, <1>2, <2>1, <2>2, GoKeepsRows
<1>5. CASE Join(c)
  <2>1. PICK next \in {"mark", "failed"} : Go(c, next) /\ (next = "mark" => MembersOf(req[c].who) = {})
    BY <1>5 DEF Join
  <2>2. next \in Writing => Fits(next, req[c].does)
    BY <1>2, <1>5 DEF Join, Fits
  <2>3. \A d \in Calls \ {c} : at[d] = "mark" => req[d].who # req[c].who
    BY <1>5 DEF Join
  <2> QED
    BY <1>1, <1>2, <2>1, <2>2, <2>3, GoKeepsRows
<1>6. CASE FindToRemove(c)
  <2>1. PICK next \in {"refused", "count", "delete"} :
          Go(c, next) /\ (next = "delete" => member[req[c].on].role # "owner")
    BY <1>6 DEF FindToRemove
  <2>2. next \in Writing => Fits(next, req[c].does)
    BY <1>2, <1>6 DEF FindToRemove, Fits
  <2>3. next = "delete" => req[c].on \notin Owners
    BY <2>1 DEF Owners
  <2> QED
    BY <1>1, <1>2, <2>1, <2>2, <2>3, GoKeepsRows
<1>7. CASE CountOwners(c)
  <2>1. PICK next \in {"refused", "delete"} : Go(c, next) /\ (next = "delete" => ~(Cardinality(Owners) <= 1))
    BY <1>7 DEF CountOwners
  <2>2. next \in Writing => Fits(next, req[c].does)
    BY <1>2, <1>7 DEF CountOwners, Fits
  <2>3. next = "delete" /\ req[c].on \in Owners => \E o \in Owners : o # req[c].on
    BY <2>1, AnotherOne
  <2> QED
    BY <1>1, <1>2, <2>1, <2>2, <2>3, GoKeepsRows
<1>8. CASE FindToAssign(c) \/ ClearOverrides(c)
  <2>1. PICK next \in {"refused", "role", "clear", "create"} : Go(c, next) /\ (next = "create" => at[c] = "wait")
                                                          /\ (next \in {"clear", "create"} => req[c].keys # NoChange)
    <3>1. ASSUME FindToAssign(c) PROVE req[c].role # NoChange \/ req[c].keys # NoChange
      BY <1>2, <3>1 DEF FindToAssign, Requested, Fits
    <3>2. ASSUME ClearOverrides(c) PROVE req[c].keys # NoChange
      BY <1>2, <3>2 DEF ClearOverrides, Requested
    <3> QED
      BY <1>8, <3>1, <3>2 DEF FindToAssign, ClearOverrides
  <2>2. next \in Writing => Fits(next, req[c].does)
    BY <1>2, <1>8 DEF FindToAssign, ClearOverrides, Fits
  <2> QED
    BY <1>1, <1>2, <2>1, <2>2, GoKeepsRows
<1> QED
  BY <1>3, <1>4, <1>5, <1>6, <1>7, <1>8

-----------------------------------------------------------------------------
(* Steps that write rows.                                                  *)

\* A call goes on from one statement to the next, or is answered; what is left
\* to show of it is its request.
LEMMA GoWrites ==
  ASSUME RowsInv, NEW c \in Calls, Active(c), NEW next \in Writing \cup Answers, NEW seen,
         Goto(c, req[c], next, seen)
  PROVE  /\ Alone(c) /\ Requested(c)
         /\ at' \in [Calls -> Statements]
         /\ req' = [d \in Calls |-> req'[d]] /\ snap' = [d \in Calls |-> snap'[d]]
         /\ next \in Answers => at'[c] = "done" /\ ~Active(c)'
         /\ next \notin Answers => at'[c] = next /\ req'[c] = req[c] /\ snap'[c] = seen
<1>1. Shapes /\ next \in Statements \cup Answers /\ Requested(c)
  BY DEF RowsInv, CallsInv, Statements
<1> QED
  BY <1>1, GotoEffect DEF Active

\* The next statement of a call that writes: its row stays what it was.
LEMMA WriterStaysRequested ==
  ASSUME RowsInv, NEW c \in Calls, Gentle(c), Requested(c), req'[c] = req[c], at'[c] \in Writing,
         Fits(at'[c], req[c].does), req[c].does # "create" \/ at'[c] = "bind" => plan' # "none",
         at[c] # "bind", at'[c] \in {"clear", "wait", "create"} => req[c].keys # NoChange
  PROVE  Requested(c)'
<1>1. at'[c] \notin Guarding
  BY DEF Guarding, Writing, Assigning, Accepting
<1>2. WellFormed(req[c])' <=> WellFormed(req'[c])
  BY DEF WellFormed
<1>3. req[c].does \in {"accept", "revoke"} => invite'[req[c].on] # NoInvite
  BY DEF Requested, Gentle
<1>4. req[c].does \in {"remove", "assign"} =>
        /\ req[c].on # c
        /\ req[c].on \in FirstIds \/ (req[c].on \in Calls /\ at'[req[c].on] \in {"bind", "done"})
  BY AccessAssumption DEF Requested, Settled, Gentle, Alone
<1>5. req[c].does = "assign" => member'[req[c].on] = NoMember \/ member'[req[c].on].user = req[c].user
  BY <1>4 DEF Requested, Gentle
<1> QED
  BY <1>1, <1>2, <1>3, <1>4, <1>5 DEF Requested, Settled

LEMMA CreateCompanyKeepsRows ==
  ASSUME RowsInv, NEW c \in Calls, CreateCompany(c), flags' = flags
  PROVE  RowsInv'
<1>1. /\ Shapes /\ MembersInv /\ CallsInv /\ OwnersInv /\ Active(c) /\ Requested(c)
      /\ at[c] = "found" /\ at[c] \notin Guarding
  BY DEF CreateCompany, Active, Guarding, RowsInv, CallsInv
<1>2. req[c].does = "create" /\ req[c].who \in Users
  BY <1>1 DEF Requested, Fits, WellFormed
<1>3. CASE plan # "none"
  <2>1. Go(c, "refused") /\ RowsStay
    BY <1>3 DEF CreateCompany, RowsStay
  <2> QED
    BY <1>1, <2>1, GoKeepsRows DEF Answers, Guarding, Writing, Assigning, Accepting
<1>4. CASE plan = "none"
  <2>1. /\ Go(c, "bind") /\ plan' = "pro"
        /\ member' = [member EXCEPT ![c] = [user |-> req[c].who, role |-> "owner"]]
        /\ UNCHANGED <<flags, invite, overrides, tenant, lock, admitted, raced>>
    BY <1>4 DEF CreateCompany
  <2>2. /\ Alone(c) /\ at' \in [Calls -> Statements]
        /\ req' = [d \in Calls |-> req'[d]] /\ snap' = [d \in Calls |-> snap'[d]]
        /\ at'[c] = "bind" /\ req'[c] = req[c]
    <3>1. "bind" \in Writing /\ "bind" \notin Answers
      BY DEF Writing, Answers
    <3> QED
      BY <1>1, <2>1, <3>1, GoWrites DEF Go
  <2>3. [user |-> req[c].who, role |-> "owner"] \in MemberRow
    BY <1>2 DEF MemberRow, Roles, Templates
  <2>4. Shapes'
    BY <1>1, <2>1, <2>2, <2>3 DEF Shapes, Plans, PlanFeatures
  <2>5. \A i \in Ids : member[i] = NoMember /\ invite[i] = NoInvite /\ lock[i] = NoCall
    BY <1>1, <1>4 DEF MembersInv
  <2>6. c \in Ids /\ \A i \in Ids \ {c} : member'[i] = NoMember
    BY <1>1, <2>1, <2>5 DEF Shapes, Ids
  <2>7. Gentle(c)
    BY <1>1, <2>1, <2>2, <2>4, <2>5, <2>6 DEF Gentle
  <2>8. CallsInv'
    <3>1. at'[c] \in Writing /\ Fits(at'[c], req[c].does) /\ plan' # "none" /\ at[c] # "bind"
      BY <1>1, <1>2, <2>1, <2>2 DEF Writing, Fits, Accepting, Assigning
    <3>2. Requested(c)'
      BY <1>1, <2>2, <2>7, <3>1, WriterStaysRequested
    <3> QED
      BY <2>7, <3>2, CallsStep
  <2>9. \A d \in Calls : Active(d) /\ d # c => req[d].does = "create"
    BY <1>1, <1>4 DEF CallsInv, Requested
  <2>10. \A d \in Calls : at'[d] \notin {"mark", "delete"}
    <3> SUFFICES ASSUME NEW d \in Calls, at'[d] \in {"mark", "delete"} PROVE FALSE
      OBVIOUS
    <3>1. d # c /\ at[d] = at'[d]
      BY <2>2 DEF Alone
    <3>2. Active(d) /\ Requested(d) /\ at[d] \notin Guarding
      BY <1>1, <3>1 DEF Active, CallsInv, Guarding
    <3> QED
      BY <2>9, <3>1, <3>2 DEF Requested, Fits, Accepting
  <2>11. MembersInv'
    <3>1. plan' # "none" /\ \A m \in Ids : lock'[m] = NoCall
      BY <2>1, <2>5
    <3>2. \A d \in Calls : member'[d] # NoMember => at'[d] \in {"bind", "done"}
      BY <2>2, <2>6 DEF Ids
    <3> QED
      BY <2>6, <2>10, <3>1, <3>2 DEF MembersInv
  <2>12. InvitesInv'
    BY <2>1, <2>7, InvitesStay
  <2>13. OverridesInv'
    BY <2>1, <2>2, <2>7, OverridesStep
  <2>14. OwnersInv'
    BY <2>10 DEF OwnersInv
  <2> QED
    BY <2>4, <2>8, <2>11, <2>12, <2>13, <2>14 DEF RowsInv
<1> QED
  BY <1>3, <1>4

LEMMA ReissueKeepsRows ==
  ASSUME RowsInv, NEW c \in Calls, Reissue(c), flags' = flags
  PROVE  RowsInv'
<1>1. /\ Shapes /\ MembersInv /\ Active(c) /\ Requested(c) /\ at[c] = "bind" /\ at[c] \notin Guarding
  BY DEF Reissue, Active, Guarding, RowsInv, CallsInv
<1>2. req[c].who \in Users /\ plan # "none"
  BY <1>1 DEF Requested, Fits, WellFormed
<1>3. PICK next \in {"ok", "refused"} : Go(c, next)
  BY DEF Reissue
<1>4. tenant' \subseteq tenant \cup {req[c].who}
  BY DEF Reissue
<1>5. UNCHANGED <<plan, flags, member, invite, overrides, lock, admitted, raced>>
  BY DEF Reissue
<1>6. /\ Alone(c) /\ at' \in [Calls -> Statements]
      /\ req' = [d \in Calls |-> req'[d]] /\ snap' = [d \in Calls |-> snap'[d]]
      /\ at'[c] = "done" /\ ~Active(c)'
  BY <1>1, <1>3, GoWrites DEF Go, Answers
<1>7. Shapes'
  BY <1>1, <1>2, <1>4, <1>5, <1>6 DEF Shapes
<1>8. Gentle(c)
  BY <1>1, <1>5, <1>6, <1>7 DEF Gentle
<1>9. CallsInv'
  BY <1>6, <1>8, CallsStep
<1>10. MembersInv'
  <2>1. /\ \A m \in Ids : member'[m] # NoMember => member[m] # NoMember /\ member'[m].user = member[m].user
        /\ \A m \in Ids : lock'[m] # NoCall => member'[m] # NoMember
    BY <1>1, <1>5 DEF MembersInv
  <2> QED
    BY <1>2, <1>6, <1>8, <2>1, MembersStep
<1>11. InvitesInv' /\ OverridesInv' /\ OwnersInv'
  BY <1>5, <1>6, <1>8, InvitesStay, OverridesStep, OwnersStep
<1> QED
  BY <1>7, <1>9, <1>10, <1>11 DEF RowsInv

LEMMA CreateInvitationKeepsRows ==
  ASSUME RowsInv, NEW c \in Calls, CreateInvitation(c), flags' = flags
  PROVE  RowsInv'
<1>1. /\ Shapes /\ MembersInv /\ InvitesInv /\ Active(c) /\ Requested(c)
      /\ at[c] = "invite" /\ at[c] \notin Guarding
  BY DEF CreateInvitation, Active, Guarding, RowsInv, CallsInv
<1> DEFINE row == [user |-> req[c].user, role |-> req[c].role, keys |-> req[c].keys, status |-> "pending"]
<1>2. row \in InviteRow /\ row # NoInvite /\ plan # "none"
  BY <1>1, TenancyAssumption DEF Requested, Fits, WellFormed, InviteRow
<1>3. /\ Go(c, "ok") /\ invite' = [invite EXCEPT ![c] = row]
      /\ UNCHANGED <<plan, flags, member, overrides, tenant, lock, admitted, raced>>
  BY DEF CreateInvitation
<1>4. row.status = "pending"
  OBVIOUS
<1> HIDE DEF row
<1>5. /\ Alone(c) /\ at' \in [Calls -> Statements]
      /\ req' = [d \in Calls |-> req'[d]] /\ snap' = [d \in Calls |-> snap'[d]]
      /\ at'[c] = "done" /\ ~Active(c)'
  BY <1>1, <1>3, GoWrites DEF Go, Answers
<1>6. c \in Ids
  BY DEF Ids
<1>7. invite'[c] = row /\ \A i \in Ids \ {c} : invite'[i] = invite[i]
  BY <1>1, <1>3, <1>6 DEF Shapes
<1>8. Shapes'
  BY <1>1, <1>2, <1>3, <1>5 DEF Shapes
<1>9. Gentle(c)
  BY <1>1, <1>2, <1>3, <1>5, <1>7, <1>8 DEF Gentle
<1>10. CallsInv'
  BY <1>5, <1>9, CallsStep
<1>11. MembersInv'
  <2>1. /\ \A m \in Ids : member'[m] # NoMember => member[m] # NoMember /\ member'[m].user = member[m].user
        /\ \A m \in Ids : lock'[m] # NoCall => member'[m] # NoMember
    BY <1>1, <1>3 DEF MembersInv
  <2> QED
    BY <1>2, <1>5, <1>9, <2>1, MembersStep
<1>12. InvitesInv'
  <2>1. invite[c] = NoInvite /\ admitted[c] = 0
    BY <1>1, <1>6 DEF InvitesInv
  <2>2. \A d \in Calls : invite'[d] # NoInvite => at'[d] = "done"
    BY <1>1, <1>5, <1>7, <1>6 DEF InvitesInv, Alone, Ids
  <2>3. \A i \in Ids : invite'[i] = NoInvite => admitted'[i] = 0
    BY <1>1, <1>2, <1>3, <1>7 DEF InvitesInv
  <2>4. InvitationsAreSpentOnce'
    BY <1>1, <1>3, <1>4, <1>7, <2>1 DEF InvitesInv, InvitationsAreSpentOnce
  <2> QED
    BY <2>2, <2>3, <2>4 DEF InvitesInv
<1>13. OverridesInv' /\ OwnersInv'
  BY <1>3, <1>5, <1>9, OverridesStep, OwnersStep
<1> QED
  BY <1>8, <1>10, <1>11, <1>12, <1>13 DEF RowsInv

LEMMA RevokeInvitationKeepsRows ==
  ASSUME RowsInv, NEW c \in Calls, RevokeInvitation(c), flags' = flags
  PROVE  RowsInv'
<1> DEFINE i == req[c].on
<1>1. /\ Shapes /\ MembersInv /\ InvitesInv /\ Active(c) /\ Requested(c)
      /\ at[c] = "revoke" /\ at[c] \notin Guarding
  BY DEF RevokeInvitation, Active, Guarding, RowsInv, CallsInv
<1>2. i \in Ids /\ invite[i] \in InviteRow /\ plan # "none"
  BY <1>1 DEF Requested, Fits, Shapes
<1>3. CASE invite[i].status # "pending"
  <2>1. Go(c, "refused") /\ RowsStay
    BY <1>3 DEF RevokeInvitation, RowsStay
  <2> QED
    BY <1>1, <2>1, GoKeepsRows DEF Answers, Guarding, Writing, Assigning, Accepting
<1>4. CASE invite[i].status = "pending"
  <2>1. /\ Go(c, "ok") /\ invite' = [invite EXCEPT ![i].status = "revoked"]
        /\ UNCHANGED <<plan, flags, member, overrides, tenant, lock, admitted, raced>>
    BY <1>4 DEF RevokeInvitation
  <2>2. /\ Alone(c) /\ at' \in [Calls -> Statements]
        /\ req' = [d \in Calls |-> req'[d]] /\ snap' = [d \in Calls |-> snap'[d]]
        /\ at'[c] = "done" /\ ~Active(c)'
    BY <1>1, <2>1, GoWrites DEF Go, Answers
  <2>3. /\ invite'[i] \in InviteRow /\ invite'[i].status = "revoked"
        /\ invite'[i] # NoInvite
        /\ \A j \in Ids \ {i} : invite'[j] = invite[j]
        /\ invite' \in [Ids -> InviteRow \cup {NoInvite}]
    BY <1>1, <1>2, <2>1, TenancyAssumption DEF Shapes, InviteRow
  <2> HIDE DEF i
  <2>4. Shapes'
    BY <1>1, <2>1, <2>2, <2>3 DEF Shapes
  <2>5. invite[i] # NoInvite
    BY <1>2, TenancyAssumption
  <2>6. Gentle(c)
    BY <1>1, <2>1, <2>2, <2>3, <2>4 DEF Gentle
  <2>7. CallsInv'
    BY <2>2, <2>6, CallsStep
  <2>8. MembersInv'
    <3>1. /\ \A m \in Ids : member'[m] # NoMember => member[m] # NoMember /\ member'[m].user = member[m].user
          /\ \A m \in Ids : lock'[m] # NoCall => member'[m] # NoMember
      BY <1>1, <2>1 DEF MembersInv
    <3> QED
      BY <1>2, <2>2, <2>6, <3>1, MembersStep
  <2>9. InvitesInv'
    <3>1. \A d \in Calls : invite'[d] # NoInvite => at'[d] = "done"
      BY <1>1, <2>2, <2>3, <2>5 DEF InvitesInv, Alone, Ids
    <3>2. \A j \in Ids : invite'[j] = NoInvite => admitted'[j] = 0
      BY <1>1, <2>1, <2>3 DEF InvitesInv
    <3>3. InvitationsAreSpentOnce'
      BY <1>1, <1>2, <1>4, <2>1, <2>3, <2>5 DEF InvitesInv, InvitationsAreSpentOnce
    <3> QED
      BY <3>1, <3>2, <3>3 DEF InvitesInv
  <2>10. OverridesInv' /\ OwnersInv'
    BY <2>1, <2>2, <2>6, OverridesStep, OwnersStep
  <2> QED
    BY <2>4, <2>7, <2>8, <2>9, <2>10 DEF RowsInv
<1> QED
  BY <1>3, <1>4

LEMMA MarkAcceptedKeepsRows ==
  ASSUME RowsInv, NEW c \in Calls, MarkAccepted(c), flags' = flags
  PROVE  RowsInv'
<1> DEFINE i == req[c].on
           u == req[c].who
           keys == {<<k[1], k[2], c>> : k \in invite[i].keys}
<1>1. /\ Shapes /\ MembersInv /\ InvitesInv /\ OverridesInv /\ CallsInv /\ Active(c) /\ Requested(c)
      /\ at[c] = "mark" /\ at[c] \notin Guarding
  BY DEF MarkAccepted, Active, Guarding, RowsInv, CallsInv
<1>2. /\ i \in Ids /\ invite[i] \in InviteRow /\ invite[i] # NoInvite /\ plan # "none"
      /\ u \in Users /\ c \in Ids
  BY <1>1 DEF Requested, Fits, Accepting, Shapes, WellFormed, Ids
<1>3. /\ Go(c, "ok")
      /\ member' = [member EXCEPT ![c] = [user |-> u, role |-> invite[i].role]]
      /\ overrides' = [overrides EXCEPT ![c] = keys]
      /\ admitted' = [admitted EXCEPT ![i] = @ + 1]
      /\ invite' = [invite EXCEPT ![i].status = IF @ = "pending" THEN "accepted" ELSE @]
      /\ raced' = raced \cup (IF invite[i].status = "pending" THEN {} ELSE {"accept"})
      /\ UNCHANGED <<plan, tenant, lock, flags>>
  BY DEF MarkAccepted, LetIn
<1>4. /\ Alone(c) /\ at' \in [Calls -> Statements]
      /\ req' = [d \in Calls |-> req'[d]] /\ snap' = [d \in Calls |-> snap'[d]]
      /\ at'[c] = "done" /\ ~Active(c)'
  BY <1>1, <1>3, GoWrites DEF Go, Answers
<1>5. [user |-> u, role |-> invite[i].role] \in MemberRow
  BY <1>2 DEF MemberRow, InviteRow
<1>6. keys \subseteq Permissions \X BOOLEAN \X Ids /\ \A r \in keys : r[3] = c
  BY <1>2 DEF InviteRow
<1>7. /\ invite'[i] \in InviteRow /\ invite'[i] # NoInvite
      /\ invite'[i].status = IF invite[i].status = "pending" THEN "accepted" ELSE invite[i].status
      /\ \A j \in Ids \ {i} : invite'[j] = invite[j]
      /\ invite' \in [Ids -> InviteRow \cup {NoInvite}]
  BY <1>1, <1>2, <1>3, TenancyAssumption DEF Shapes, InviteRow
<1>8. /\ member'[c] = [user |-> u, role |-> invite[i].role] /\ member'[c].user = u
      /\ \A m \in Ids \ {c} : member'[m] = member[m]
      /\ member' \in [Ids -> MemberRow \cup {NoMember}]
  BY <1>1, <1>2, <1>3, <1>5 DEF Shapes
<1>9. /\ overrides'[c] = keys /\ \A m \in Ids \ {c} : overrides'[m] = overrides[m]
      /\ overrides' \in [Ids -> SUBSET (Permissions \X BOOLEAN \X Ids)]
  BY <1>1, <1>2, <1>3, <1>6 DEF Shapes
<1>10. /\ admitted'[i] = admitted[i] + 1 /\ \A j \in Ids \ {i} : admitted'[j] = admitted[j]
       /\ admitted' \in [Ids -> Nat]
  BY <1>1, <1>2, <1>3 DEF Shapes
<1>11. member'[c] # NoMember /\ member[c] = NoMember
  BY <1>1, <1>5, <1>8, TenancyAssumption DEF MembersInv
<1> HIDE DEF keys, i, u
<1>12. Shapes'
  BY <1>1, <1>3, <1>4, <1>7, <1>8, <1>9, <1>10 DEF Shapes
<1>13. Gentle(c)
  BY <1>1, <1>3, <1>4, <1>7, <1>8, <1>12 DEF Gentle
<1>14. CallsInv'
  BY <1>4, <1>13, CallsStep
<1>15. MembersInv'
  <2>1. MembersOf(u) = {} /\ \A d \in Calls \ {c} : at[d] = "mark" => req[d].who # u
    BY <1>1 DEF MembersInv, u
  <2>2. \A m \in Ids \ {c} : member'[m] # NoMember => member'[m].user # u
    BY <1>8, <2>1 DEF MembersOf
  <2>3. \A d \in Calls : member'[d] # NoMember => at'[d] \in {"bind", "done"}
    BY <1>1, <1>2, <1>4, <1>8 DEF MembersInv, Alone, Ids
  <2>4. \A m, n \in Ids :
          member'[m] # NoMember /\ member'[n] # NoMember /\ member'[m].user = member'[n].user => m = n
    BY <1>1, <1>8, <2>2 DEF MembersInv
  <2>5. \A d \in Calls : at'[d] = "mark" => d # c /\ at[d] = "mark" /\ req'[d] = req[d]
    BY <1>4 DEF Alone
  <2>6. \A d \in Calls : at'[d] = "mark" => {m \in Ids : member'[m] # NoMember /\ member'[m].user = req'[d].who} = {}
    <3> SUFFICES ASSUME NEW d \in Calls, at'[d] = "mark", NEW m \in Ids, member'[m] # NoMember
                 PROVE  member'[m].user # req'[d].who
      OBVIOUS
    <3>1. MembersOf(req[d].who) = {} /\ req[d].who # u
      BY <1>1, <2>1, <2>5 DEF MembersInv
    <3> QED
      BY <1>8, <2>5, <3>1 DEF MembersOf
  <2>7. \A d, e \in Calls : at'[d] = "mark" /\ at'[e] = "mark" /\ req'[d].who = req'[e].who => d = e
    BY <1>1, <2>5 DEF MembersInv
  <2>8. plan' # "none" /\ \A m \in Ids : lock'[m] # NoCall => member'[m] # NoMember
    BY <1>1, <1>2, <1>3, <1>8, <1>11 DEF MembersInv
  <2> QED
    BY <2>3, <2>4, <2>6, <2>7, <2>8 DEF MembersInv, MembersOf
<1>16. InvitesInv'
  <2>1. \A d \in Calls : invite'[d] # NoInvite => at'[d] = "done"
    BY <1>1, <1>2, <1>4, <1>7 DEF InvitesInv, Alone, Ids
  <2>2. \A j \in Ids : invite'[j] = NoInvite => admitted'[j] = 0
    BY <1>1, <1>7, <1>10 DEF InvitesInv
  <2>3. ASSUME "accept" \notin raced', NEW j \in Ids, invite'[j] # NoInvite
        PROVE  admitted'[j] = IF invite'[j].status = "accepted" THEN 1 ELSE 0
    <3>1. invite[i].status = "pending" /\ "accept" \notin raced
      BY <1>3, <2>3
    <3>2. \A k \in Ids : invite[k] # NoInvite =>
            admitted[k] = IF invite[k].status = "accepted" THEN 1 ELSE 0
      BY <1>1, <3>1 DEF InvitesInv, InvitationsAreSpentOnce
    <3> QED
      BY <1>2, <1>7, <1>10, <2>3, <3>1, <3>2
  <2> QED
    BY <2>1, <2>2, <2>3 DEF InvitesInv, InvitationsAreSpentOnce
<1>17. \A d \in Calls : at'[d] \in {"wait", "create", "delete"} =>
         /\ d # c /\ at[d] = at'[d] /\ req'[d] = req[d] /\ snap'[d] = snap[d]
         /\ req[d].on \in Ids /\ req[d].on # c
  <2> SUFFICES ASSUME NEW d \in Calls, at'[d] \in {"wait", "create", "delete"}
               PROVE  /\ d # c /\ at[d] = at'[d] /\ req'[d] = req[d] /\ snap'[d] = snap[d]
                      /\ req[d].on \in Ids /\ req[d].on # c
    OBVIOUS
  <2>1. d # c /\ at[d] = at'[d] /\ req'[d] = req[d] /\ snap'[d] = snap[d]
    BY <1>4 DEF Alone
  <2>2. Requested(d) /\ at[d] \notin Guarding
    BY <1>1, <2>1 DEF CallsInv, Active, Guarding
  <2>3. req[d].on \in Ids /\ Settled(req[d].on)
    BY <2>1, <2>2 DEF Requested, Fits, Assigning
  <2> QED
    BY <1>1, <2>1, <2>3, AccessAssumption DEF Settled
<1>18. OverridesInv'
  <2> SUFFICES ASSUME "overrides" \notin raced
               PROVE  /\ \A m \in Ids : \A r, s \in overrides'[m] : r[3] = s[3]
                      /\ \A d \in Calls : at'[d] \in {"wait", "create"} => overrides'[req'[d].on] \subseteq snap'[d]
                      /\ \A d, e \in Calls :
                           at'[d] \in {"wait", "create"} /\ at'[e] \in {"wait", "create"}
                             /\ req'[d].on = req'[e].on => d = e
    BY <1>3 DEF OverridesInv
  <2>1. /\ \A m \in Ids : \A r, s \in overrides[m] : r[3] = s[3]
        /\ \A d \in Calls : at[d] \in {"wait", "create"} => overrides[req[d].on] \subseteq snap[d]
        /\ \A d, e \in Calls :
             at[d] \in {"wait", "create"} /\ at[e] \in {"wait", "create"} /\ req[d].on = req[e].on => d = e
    BY <1>1 DEF OverridesInv
  <2> QED
    BY <1>6, <1>9, <1>17, <2>1
<1>19. OwnersInv'
  <2> SUFFICES ASSUME "owner" \notin raced, NEW d \in Calls, at'[d] = "delete", req'[d].on \in Owners'
               PROVE  \E o \in Owners' : o # req'[d].on
    BY <1>3 DEF OwnersInv
  <2>1. Owners \subseteq Owners'
    BY <1>8, <1>11 DEF Owners
  <2>2. at[d] = "delete" /\ req'[d] = req[d] /\ req[d].on \in Owners
    BY <1>8, <1>17 DEF Owners
  <2> QED
    BY <2>1, <2>2 DEF RowsInv, OwnersInv
<1> QED
  BY <1>12, <1>14, <1>15, <1>16, <1>18, <1>19 DEF RowsInv

LEMMA DeleteMemberKeepsRows ==
  ASSUME RowsInv, NEW c \in Calls, DeleteMember(c), flags' = flags
  PROVE  RowsInv'
<1> DEFINE m == req[c].on
<1>1. /\ Shapes /\ MembersInv /\ OwnersInv /\ Active(c) /\ Requested(c)
      /\ at[c] = "delete" /\ at[c] \notin Guarding
  BY DEF DeleteMember, Active, Guarding, RowsInv, CallsInv
<1>2. m \in Ids /\ plan # "none"
  BY <1>1 DEF Requested, Fits
<1>3. CASE member[m] = NoMember
  <2>1. Go(c, "failed") /\ RowsStay
    BY <1>3 DEF DeleteMember, RowsStay
  <2> QED
    BY <1>1, <2>1, GoKeepsRows DEF Answers, Guarding, Writing, Assigning, Accepting
<1>4. CASE member[m] # NoMember
  <2>1. /\ Go(c, "ok")
        /\ member' = [member EXCEPT ![m] = NoMember]
        /\ overrides' = [overrides EXCEPT ![m] = {}]
        /\ raced' = raced \cup OwnerRace(c)
        /\ lock[m] = NoCall
        /\ UNCHANGED <<plan, invite, tenant, lock, admitted, flags>>
    BY <1>4 DEF DeleteMember
  <2>2. /\ Alone(c) /\ at' \in [Calls -> Statements]
        /\ req' = [d \in Calls |-> req'[d]] /\ snap' = [d \in Calls |-> snap'[d]]
        /\ at'[c] = "done" /\ ~Active(c)'
    BY <1>1, <2>1, GoWrites DEF Go, Answers
  <2>3. /\ member'[m] = NoMember /\ \A k \in Ids \ {m} : member'[k] = member[k]
        /\ overrides'[m] = {} /\ \A k \in Ids \ {m} : overrides'[k] = overrides[k]
    BY <1>1, <1>2, <2>1 DEF Shapes
  <2> HIDE DEF m
  <2>4. Shapes'
    BY <1>1, <2>1, <2>2 DEF Shapes
  <2>5. Gentle(c)
    BY <1>1, <2>1, <2>2, <2>3, <2>4 DEF Gentle
  <2>6. CallsInv'
    BY <2>2, <2>5, CallsStep
  <2>7. MembersInv'
    <3>1. /\ \A k \in Ids : member'[k] # NoMember => member[k] # NoMember /\ member'[k].user = member[k].user
          /\ \A k \in Ids : lock'[k] # NoCall => member'[k] # NoMember
      BY <1>1, <2>1, <2>3 DEF MembersInv
    <3> QED
      BY <1>2, <2>2, <2>5, <3>1, MembersStep
  <2>8. InvitesInv'
    BY <2>1, <2>5, InvitesStay
  <2>9. OverridesInv'
    <3>1. \A k \in Ids : overrides'[k] \subseteq overrides[k]
      BY <2>3
    <3> QED
      BY <2>1, <2>2, <2>5, <3>1, OverridesStep
  <2>10. OwnersInv'
    <3>1. "owner" \notin raced' => \A d \in Calls \ {c} : at[d] # "delete"
      BY <2>1 DEF OwnerRace
    <3> QED
      BY <2>2, <3>1 DEF OwnersInv, Alone
  <2> QED
    BY <2>4, <2>6, <2>7, <2>8, <2>9, <2>10 DEF RowsInv
<1> QED
  BY <1>3, <1>4

LEMMA UpdateRoleKeepsRows ==
  ASSUME RowsInv, NEW c \in Calls, UpdateRole(c), flags' = flags
  PROVE  RowsInv'
<1> DEFINE m == req[c].on
<1>1. /\ Shapes /\ MembersInv /\ Active(c) /\ Requested(c)
      /\ at[c] = "role" /\ at[c] \notin Guarding
  BY DEF UpdateRole, Active, Guarding, RowsInv, CallsInv
<1>2. m \in Ids /\ plan # "none" /\ req[c].does = "assign"
  BY <1>1 DEF Requested, Fits, Assigning
<1>3. PICK next \in {"commit", "clear"} : Go(c, next) /\ (next = "clear" => req[c].keys # NoChange)
  BY DEF UpdateRole
<1>4. /\ lock' = [lock EXCEPT ![m] = IF member[m] = NoMember THEN NoCall ELSE c]
      /\ UNCHANGED <<plan, flags, member, invite, overrides, tenant, admitted, raced>>
  BY DEF UpdateRole, rowVars
<1>5. next \in Writing /\ next \notin Answers /\ Fits(next, "assign") /\ next \notin {"bind", "mark", "wait", "create", "delete"}
  BY DEF Writing, Answers, Assigning, Accepting, Fits
<1>6. /\ Alone(c) /\ at' \in [Calls -> Statements]
      /\ req' = [d \in Calls |-> req'[d]] /\ snap' = [d \in Calls |-> snap'[d]]
      /\ at'[c] = next /\ req'[c] = req[c]
  BY <1>1, <1>3, <1>5, GoWrites DEF Go
<1>7. \A k \in Ids : lock'[k] # NoCall => member'[k] # NoMember
  BY <1>1, <1>2, <1>4 DEF Shapes, MembersInv
<1> HIDE DEF m
<1>8. Shapes'
  BY <1>1, <1>4, <1>6 DEF Shapes
<1>9. Gentle(c)
  BY <1>1, <1>4, <1>6, <1>8 DEF Gentle
<1>10. CallsInv'
  <2>1. Requested(c)'
    BY <1>1, <1>2, <1>3, <1>4, <1>5, <1>6, <1>9, WriterStaysRequested
  <2> QED
    BY <1>9, <2>1, CallsStep
<1>11. MembersInv'
  BY <1>4, <1>5, <1>6, <1>7, <1>9, MembersStep
<1>12. InvitesInv' /\ OverridesInv' /\ OwnersInv'
  BY <1>4, <1>5, <1>6, <1>9, InvitesStay, OverridesStep, OwnersStep
<1> QED
  BY <1>8, <1>10, <1>11, <1>12 DEF RowsInv

LEMMA SeeOverridesKeepsRows ==
  ASSUME RowsInv, NEW c \in Calls, SeeOverrides(c), flags' = flags
  PROVE  RowsInv'
<1> DEFINE m == req[c].on
<1>1. /\ Shapes /\ MembersInv /\ OverridesInv /\ Active(c) /\ Requested(c)
      /\ at[c] = "clear" /\ at[c] \notin Guarding
  BY DEF SeeOverrides, Active, Guarding, RowsInv, CallsInv
<1>2. m \in Ids /\ plan # "none" /\ req[c].does = "assign" /\ req[c].keys # NoChange
  BY <1>1 DEF Requested, Fits, Assigning
<1>3. /\ Goto(c, req[c], "wait", overrides[m])
      /\ raced' = raced \cup
           (IF \E d \in Calls \ {c} : at[d] \in {"wait", "create"} /\ req[d].on = m
              THEN {"overrides"} ELSE {})
      /\ UNCHANGED <<plan, flags, member, invite, overrides, tenant, lock, admitted>>
  BY DEF SeeOverrides, rowVars
<1>4. "wait" \in Writing \cup Answers /\ "wait" \in Writing /\ "wait" \notin Answers /\ Fits("wait", "assign")
  BY DEF Writing, Answers, Assigning, Accepting, Fits
<1>5. /\ Alone(c) /\ at' \in [Calls -> Statements]
      /\ req' = [d \in Calls |-> req'[d]] /\ snap' = [d \in Calls |-> snap'[d]]
      /\ at'[c] = "wait" /\ req'[c] = req[c] /\ snap'[c] = overrides[m]
  <2> DEFINE seen == overrides[m]
  <2>1. Goto(c, req[c], "wait", seen)
    BY <1>3
  <2> HIDE DEF seen
  <2>2. /\ Alone(c) /\ at' \in [Calls -> Statements]
        /\ req' = [d \in Calls |-> req'[d]] /\ snap' = [d \in Calls |-> snap'[d]]
        /\ at'[c] = "wait" /\ req'[c] = req[c] /\ snap'[c] = seen
    BY <1>1, <1>4, <2>1, GoWrites
  <2> QED
    BY <2>2 DEF seen
<1> HIDE DEF m
<1>6. Shapes'
  BY <1>1, <1>3, <1>5 DEF Shapes
<1>7. Gentle(c)
  BY <1>1, <1>3, <1>5, <1>6 DEF Gentle
<1>8. CallsInv'
  <2>1. Requested(c)'
    BY <1>1, <1>2, <1>3, <1>4, <1>5, <1>7, WriterStaysRequested
  <2> QED
    BY <1>7, <2>1, CallsStep
<1>9. MembersInv'
  <2>1. \A k \in Ids : lock'[k] # NoCall => member'[k] # NoMember
    BY <1>1, <1>3 DEF MembersInv
  <2> QED
    BY <1>3, <1>5, <1>7, <2>1, MembersStep
<1>10. InvitesInv' /\ OwnersInv'
  BY <1>3, <1>5, <1>7, InvitesStay, OwnersStep
<1>11. OverridesInv'
  <2> SUFFICES ASSUME "overrides" \notin raced'
               PROVE  /\ \A k \in Ids : \A r, s \in overrides'[k] : r[3] = s[3]
                      /\ \A d \in Calls : at'[d] \in {"wait", "create"} => overrides'[req'[d].on] \subseteq snap'[d]
                      /\ \A d, e \in Calls :
                           at'[d] \in {"wait", "create"} /\ at'[e] \in {"wait", "create"}
                             /\ req'[d].on = req'[e].on => d = e
    BY DEF OverridesInv
  <2>1. /\ \A d \in Calls \ {c} : at[d] \in {"wait", "create"} => req[d].on # m
        /\ "overrides" \notin raced
    BY <1>3
  <2>2. /\ \A k \in Ids : \A r, s \in overrides[k] : r[3] = s[3]
        /\ \A d \in Calls : at[d] \in {"wait", "create"} => overrides[req[d].on] \subseteq snap[d]
        /\ \A d, e \in Calls :
             at[d] \in {"wait", "create"} /\ at[e] \in {"wait", "create"} /\ req[d].on = req[e].on => d = e
    BY <1>1, <2>1 DEF OverridesInv
  <2>3. \A d \in Calls \ {c} : at'[d] = at[d] /\ req'[d] = req[d] /\ snap'[d] = snap[d]
    BY <1>5 DEF Alone
  <2>4. req'[c].on = m /\ snap'[c] = overrides[m]
    BY <1>5 DEF m
  <2> QED
    BY <1>3, <2>1, <2>2, <2>3, <2>4
<1> QED
  BY <1>6, <1>8, <1>9, <1>10, <1>11 DEF RowsInv

\* A call fails, and its transaction with it.
LEMMA RollbackKeepsRows ==
  ASSUME RowsInv, NEW c \in Calls, Active(c), Go(c, "failed"), Unlock(c),
         UNCHANGED <<plan, flags, member, invite, overrides, tenant, admitted, raced>>
  PROVE  RowsInv'
<1>1. Shapes /\ MembersInv
  BY DEF RowsInv
<1>2. /\ Alone(c) /\ at' \in [Calls -> Statements]
      /\ req' = [d \in Calls |-> req'[d]] /\ snap' = [d \in Calls |-> snap'[d]]
      /\ at'[c] = "done" /\ ~Active(c)'
  BY GoWrites DEF Go, Answers
<1>3. lock' \in [Ids -> Calls \cup {NoCall}] /\ \A m \in Ids : lock'[m] # NoCall => lock[m] # NoCall
  BY <1>1 DEF Unlock, Shapes
<1>4. Shapes'
  BY <1>1, <1>2, <1>3 DEF Shapes
<1>5. at[c] # "done"
  BY DEF Active
<1>6. Gentle(c)
  BY <1>1, <1>2, <1>4, <1>5 DEF Gentle
<1>7. CallsInv'
  BY <1>2, <1>6, CallsStep
<1>8. MembersInv'
  <2>1. \A m \in Ids : lock'[m] # NoCall => member'[m] # NoMember
    BY <1>1, <1>3 DEF MembersInv
  <2> QED
    BY <1>2, <1>6, <2>1, MembersStep
<1>9. InvitesInv' /\ OverridesInv' /\ OwnersInv'
  BY <1>2, <1>6, InvitesStay, OverridesStep, OwnersStep
<1> QED
  BY <1>4, <1>7, <1>8, <1>9 DEF RowsInv

LEMMA PlatformKeepsRows ==
  ASSUME RowsInv, NEW c \in Calls, WriteFlag(c) \/ SetPlan(c),
         UNCHANGED <<member, invite, overrides, tenant, lock, admitted, raced>>
  PROVE  RowsInv'
<1>1. /\ Shapes /\ MembersInv /\ Active(c) /\ Requested(c) /\ at[c] \notin Guarding /\ at[c] # "bind"
      /\ at[c] \in {"updateFlag", "createFlag"} => WriteFlag(c)
      /\ at[c] \in {"updateFlag", "createFlag", "setPlan"}
  BY DEF WriteFlag, SetPlan, Active, Guarding, RowsInv, CallsInv
<1>2. /\ plan # "none"
      /\ at[c] = "setPlan" => req[c].does = "subscribe" /\ req[c].what[1] \in Plans
      /\ at[c] # "setPlan" => req[c].does = "toggle" /\ req[c].what \in Features \X {"on", "off"}
  BY <1>1 DEF Requested, Fits, WellFormed
<1>3. CASE Go(c, "failed") /\ flags' = flags /\ plan' = plan
  BY <1>1, <1>3, GoKeepsRows DEF RowsStay, Answers, Guarding, Writing, Assigning, Accepting
<1>4. CASE ~(Go(c, "failed") /\ flags' = flags /\ plan' = plan)
  <2>1. /\ Go(c, "audit")
        /\ flags' \subseteq flags \cup (Features \X {"on", "off"})
        /\ plan' \in Plans \/ plan' = plan
    <3>1. CASE at[c] = "setPlan"
      BY <1>1, <1>2, <3>1 DEF WriteFlag, SetPlan
    <3>2. CASE at[c] # "setPlan"
      <4>1. WriteFlag(c) /\ req[c].what \in Features \X {"on", "off"}
        BY <1>1, <1>2, <3>2
      <4>2. /\ Go(c, "audit") /\ plan' = plan
            /\ flags' = (flags \ {<<req[c].what[1], "on">>, <<req[c].what[1], "off">>}) \cup {req[c].what}
        BY <1>4, <4>1 DEF WriteFlag
      <4> QED
        BY <4>1, <4>2
    <3> QED
      BY <3>1, <3>2
  <2>2. "audit" \in Writing /\ "audit" \notin Answers /\ Fits("audit", req[c].does)
    BY <1>1, <1>2 DEF Writing, Answers, Fits, Accepting, Assigning
  <2>3. /\ Alone(c) /\ at' \in [Calls -> Statements]
        /\ req' = [d \in Calls |-> req'[d]] /\ snap' = [d \in Calls |-> snap'[d]]
        /\ at'[c] = "audit" /\ req'[c] = req[c]
    BY <1>1, <2>1, <2>2, GoWrites DEF Go
  <2>4. plan' \in Plans \cup {"none"} /\ plan' # "none" /\ flags' \subseteq Features \X {"on", "off"}
    BY <1>1, <1>2, <2>1 DEF Shapes, Plans, PlanFeatures
  <2>5. Shapes'
    BY <1>1, <2>3, <2>4 DEF Shapes
  <2>6. Gentle(c)
    BY <1>1, <2>3, <2>4, <2>5 DEF Gentle
  <2>7. CallsInv'
    <3>1. Requested(c)'
      BY <1>1, <2>2, <2>3, <2>4, <2>6, WriterStaysRequested
    <3> QED
      BY <2>6, <3>1, CallsStep
  <2>8. MembersInv'
    <3>1. \A m \in Ids : lock'[m] # NoCall => member'[m] # NoMember
      BY <1>1 DEF MembersInv
    <3> QED
      BY <2>3, <2>6, <3>1, MembersStep
  <2>9. InvitesInv' /\ OverridesInv' /\ OwnersInv'
    BY <2>3, <2>6, InvitesStay, OverridesStep, OwnersStep
  <2> QED
    BY <2>5, <2>7, <2>8, <2>9 DEF RowsInv
<1> QED
  BY <1>3, <1>4

\* What the commit of an assignment writes: only the role and the overrides of
\* the member that it is for.
LEMMA CommitEffect ==
  ASSUME RowsInv, NEW c \in Calls, NEW rows, NEW keep, CommitAssign(c, rows, keep),
         keep \subseteq overrides[req[c].on],
         (at[c] = "create" /\ rows = NewRows(c)) \/ (at[c] = "commit" /\ rows = {}),
         NEW m, m = req[c].on
  PROVE  /\ Active(c) /\ Requested(c) /\ req[c].does = "assign" /\ m \in Ids /\ plan # "none"
         /\ Alone(c) /\ at' \in [Calls -> Statements]
         /\ req' = [d \in Calls |-> req'[d]] /\ snap' = [d \in Calls |-> snap'[d]]
         /\ at'[c] = "audit" /\ req'[c] = req[c]
         /\ lock' \in [Ids -> Calls \cup {NoCall}]
         /\ \A k \in Ids : lock'[k] # NoCall => lock[k] # NoCall
         /\ member' \in [Ids -> MemberRow \cup {NoMember}]
         /\ \A k \in Ids \ {m} : member'[k] = member[k]
         /\ member[m] = NoMember => member'[m] = NoMember
         /\ member[m] # NoMember => /\ member'[m] # NoMember /\ member'[m].user = member[m].user
                                    /\ member'[m].role \in {member[m].role, req[c].role}
         /\ overrides'[m] = keep \cup rows /\ \A k \in Ids \ {m} : overrides'[k] = overrides[k]
         /\ overrides' \in [Ids -> SUBSET (Permissions \X BOOLEAN \X Ids)]
<1>1. /\ Shapes /\ MembersInv /\ Active(c) /\ Requested(c)
      /\ at[c] \in {"create", "commit"} /\ at[c] \notin Guarding
  BY DEF Active, Guarding, RowsInv, CallsInv
<1>2. /\ m \in Ids /\ plan # "none" /\ req[c].does = "assign"
      /\ req[c].role \in Roles \cup {NoChange} /\ c \in Ids
  BY <1>1 DEF Requested, Fits, Assigning, WellFormed, Ids
<1>3. /\ overrides' = [overrides EXCEPT ![m] = keep \cup rows]
      /\ member' = IF req[c].role = NoChange \/ lock[m] # c THEN member
                   ELSE [member EXCEPT ![m].role = req[c].role]
      /\ Go(c, "audit")
      /\ Unlock(c)
  BY DEF CommitAssign
<1>4. "audit" \in Writing /\ "audit" \notin Answers
  BY DEF Writing, Answers
<1>5. /\ Alone(c) /\ at' \in [Calls -> Statements]
      /\ req' = [d \in Calls |-> req'[d]] /\ snap' = [d \in Calls |-> snap'[d]]
      /\ at'[c] = "audit" /\ req'[c] = req[c]
  BY <1>1, <1>3, <1>4, GoWrites DEF Go
<1>6. rows \subseteq Permissions \X BOOLEAN \X Ids
  <2>1. CASE at[c] = "create"
    <3>1. req[c].keys \subseteq Permissions \X BOOLEAN
      BY <1>1, <1>2, <2>1 DEF Requested, WellFormed
    <3> QED
      BY <1>2, <2>1, <3>1 DEF NewRows
  <2> QED
    BY <1>1, <2>1
<1>7. /\ lock' \in [Ids -> Calls \cup {NoCall}]
      /\ \A k \in Ids : lock'[k] # NoCall => lock[k] # NoCall
  BY <1>1, <1>3 DEF Unlock, Shapes
<1>8. /\ member' \in [Ids -> MemberRow \cup {NoMember}]
      /\ \A k \in Ids \ {m} : member'[k] = member[k]
      /\ member[m] = NoMember => member'[m] = NoMember
      /\ member[m] # NoMember => /\ member'[m] # NoMember /\ member'[m].user = member[m].user
                                 /\ member'[m].role \in {member[m].role, req[c].role}
  <2>1. CASE member' = member
    BY <1>1, <2>1 DEF Shapes
  <2>2. CASE member' # member
    <3>1. /\ member' = [member EXCEPT ![m].role = req[c].role]
          /\ req[c].role \in Roles /\ lock[m] = c
      BY <1>2, <1>3, <2>2
    <3>2. member[m] # NoMember /\ member[m] \in MemberRow
      BY <1>1, <1>2, <3>1, TenancyAssumption DEF MembersInv, Shapes
    <3>3. member'[m] = [member[m] EXCEPT !.role = req[c].role] /\ member'[m] \in MemberRow
      BY <1>1, <1>2, <3>1, <3>2 DEF Shapes, MemberRow
    <3>4. /\ member'[m] # NoMember /\ member'[m].user = member[m].user /\ member'[m].role = req[c].role
          /\ \A k \in Ids \ {m} : member'[k] = member[k]
      BY <1>1, <1>2, <3>1, <3>2, <3>3, TenancyAssumption DEF Shapes, MemberRow
    <3> QED
      BY <1>1, <3>1, <3>2, <3>3, <3>4 DEF Shapes
  <2> QED
    BY <2>1, <2>2
<1>9. /\ overrides'[m] = keep \cup rows /\ \A k \in Ids \ {m} : overrides'[k] = overrides[k]
      /\ overrides' \in [Ids -> SUBSET (Permissions \X BOOLEAN \X Ids)]
  BY <1>1, <1>2, <1>3, <1>6 DEF Shapes
<1> QED
  BY <1>1, <1>2, <1>5, <1>7, <1>8, <1>9

\* A replacement writes what it has seen, and an assignment that makes or
\* unmakes an owner is noted.
LEMMA CommitKeepsRows ==
  ASSUME RowsInv, NEW c \in Calls, flags' = flags, NEW rows, NEW keep,
         CommitAssign(c, rows, keep),
         keep \subseteq overrides[req[c].on],
         \/ at[c] = "create" /\ rows = NewRows(c) /\ keep = overrides[req[c].on] \ snap[c]
         \/ at[c] = "commit" /\ rows = {}
  PROVE  RowsInv'
<1> PICK m : m = req[c].on
  OBVIOUS
<1> (at[c] = "create" /\ rows = NewRows(c)) \/ (at[c] = "commit" /\ rows = {})
  OBVIOUS
<1>1. /\ Shapes /\ MembersInv /\ OverridesInv /\ OwnersInv /\ CallsInv /\ Active(c) /\ Requested(c)
      /\ at[c] \in {"create", "commit"}
  BY DEF Active, RowsInv, CallsInv
<1>2. /\ req[c].does = "assign" /\ m \in Ids /\ plan # "none"
      /\ Alone(c) /\ at' \in [Calls -> Statements]
      /\ req' = [d \in Calls |-> req'[d]] /\ snap' = [d \in Calls |-> snap'[d]]
      /\ at'[c] = "audit" /\ req'[c] = req[c]
      /\ lock' \in [Ids -> Calls \cup {NoCall}]
      /\ \A k \in Ids : lock'[k] # NoCall => lock[k] # NoCall
  BY CommitEffect
<1>3. /\ member' \in [Ids -> MemberRow \cup {NoMember}]
      /\ \A k \in Ids \ {m} : member'[k] = member[k]
      /\ member[m] = NoMember => member'[m] = NoMember
      /\ member[m] # NoMember => /\ member'[m] # NoMember /\ member'[m].user = member[m].user
                                 /\ member'[m].role \in {member[m].role, req[c].role}
      /\ overrides'[m] = keep \cup rows /\ \A k \in Ids \ {m} : overrides'[k] = overrides[k]
      /\ overrides' \in [Ids -> SUBSET (Permissions \X BOOLEAN \X Ids)]
  BY CommitEffect
<1>4. /\ raced' = raced \cup (IF m \in Owners \/ req[c].role = "owner" THEN OwnerRace(c) ELSE {})
      /\ UNCHANGED <<plan, invite, tenant, admitted, flags>>
  BY DEF CommitAssign
<1>5. "audit" \in Writing /\ Fits("audit", "assign")
  BY DEF Writing, Assigning, Accepting, Fits
<1>6. Shapes'
  BY <1>1, <1>2, <1>3, <1>4 DEF Shapes
<1>7. \A k \in Ids : /\ member'[k] = NoMember <=> member[k] = NoMember
                     /\ member[k] # NoMember => member'[k].user = member[k].user
  BY <1>2, <1>3
<1>8. Gentle(c)
  BY <1>1, <1>2, <1>4, <1>6, <1>7 DEF Gentle
<1>9. CallsInv'
  <2>1. Requested(c)'
    BY <1>1, <1>2, <1>4, <1>5, <1>8, WriterStaysRequested
  <2> QED
    BY <1>8, <2>1, CallsStep
<1>10. MembersInv'
  <2>1. \A k \in Ids : lock'[k] # NoCall => member'[k] # NoMember
    BY <1>1, <1>2, <1>7 DEF MembersInv
  <2> QED
    BY <1>2, <1>4, <1>7, <1>8, <2>1, MembersStep
<1>11. InvitesInv'
  BY <1>4, <1>8, InvitesStay
<1>12. OverridesInv'
  <2>1. CASE at[c] = "commit"
    <3>1. \A k \in Ids : overrides'[k] \subseteq overrides[k]
      BY <1>2, <1>3, <2>1
    <3> QED
      BY <1>2, <1>4, <1>8, <3>1, OverridesStep
  <2>2. CASE at[c] = "create"
    <3> SUFFICES ASSUME "overrides" \notin raced
                 PROVE  /\ \A k \in Ids : \A r, s \in overrides'[k] : r[3] = s[3]
                        /\ \A d \in Calls : at'[d] \in {"wait", "create"} => overrides'[req'[d].on] \subseteq snap'[d]
                        /\ \A d, e \in Calls :
                             at'[d] \in {"wait", "create"} /\ at'[e] \in {"wait", "create"}
                               /\ req'[d].on = req'[e].on => d = e
      BY <1>4 DEF OverridesInv
    <3>1. /\ \A k \in Ids : \A r, s \in overrides[k] : r[3] = s[3]
          /\ \A d \in Calls : at[d] \in {"wait", "create"} => overrides[req[d].on] \subseteq snap[d]
          /\ \A d, e \in Calls :
               at[d] \in {"wait", "create"} /\ at[e] \in {"wait", "create"} /\ req[d].on = req[e].on => d = e
      BY <1>1 DEF OverridesInv
    <3>2. rows = NewRows(c) /\ keep = {}
      BY <2>2, <3>1
    <3>3. \A r \in overrides'[m] : r[3] = c
      BY <1>3, <3>2 DEF NewRows
    <3>4. \A d \in Calls : at'[d] \in {"wait", "create"} =>
            /\ at[d] \in {"wait", "create"} /\ req'[d] = req[d] /\ snap'[d] = snap[d] /\ d # c
            /\ req[d].on # m
      BY <1>2, <2>2, <3>1 DEF Alone
    <3>5. \A d \in Calls : at'[d] \in {"wait", "create"} => req[d].on \in Ids
      <4> TAKE d \in Calls
      <4> HAVE at'[d] \in {"wait", "create"}
      <4> QED
        BY <1>1, <3>4 DEF CallsInv, Active, Requested
    <3>6. \A k \in Ids : \A r, s \in overrides'[k] : r[3] = s[3]
      BY <1>3, <3>1, <3>3
    <3>7. \A d \in Calls : at'[d] \in {"wait", "create"} => overrides'[req'[d].on] \subseteq snap'[d]
      BY <1>3, <3>1, <3>4, <3>5
    <3> QED
      BY <3>1, <3>4, <3>6, <3>7
  <2> QED
    BY <1>1, <2>1, <2>2
<1>13. OwnersInv'
  <2> SUFFICES ASSUME "owner" \notin raced', NEW d \in Calls, at'[d] = "delete", req'[d].on \in Owners'
               PROVE  \E o \in Owners' : o # req'[d].on
    BY DEF OwnersInv
  <2>1. "owner" \notin raced /\ d # c /\ at[d] = "delete" /\ req'[d] = req[d]
    BY <1>2, <1>4 DEF Alone
  <2>2. m \notin Owners /\ req[c].role # "owner"
    BY <1>4, <2>1 DEF OwnerRace
  <2>3. Owners' = Owners
    BY <1>2, <1>3, <2>2 DEF Owners
  <2> QED
    BY <1>1, <2>1, <2>3 DEF OwnersInv
<1> QED
  BY <1>6, <1>9, <1>10, <1>11, <1>12, <1>13 DEF RowsInv

LEMMA RowsInit == Init => RowsInv
<1> SUFFICES ASSUME Init PROVE RowsInv
  OBVIOUS
<1>1. /\ flags = {} /\ req = [c \in Calls |-> NoReq] /\ at = [c \in Calls |-> "idle"]
      /\ snap = [c \in Calls |-> {}] /\ lock = [i \in Ids |-> NoCall]
      /\ admitted = [i \in Ids |-> 0] /\ raced = {}
  BY DEF Init
<1>2. /\ plan \in Plans \cup {"none"}
      /\ member \in [Ids -> MemberRow \cup {NoMember}]
      /\ invite \in [Ids -> InviteRow \cup {NoInvite}]
      /\ overrides \in [Ids -> SUBSET (Permissions \X BOOLEAN \X Ids)]
      /\ tenant \subseteq Users
      /\ \A c \in Calls : member[c] = NoMember /\ invite[c] = NoInvite
      /\ \A m, n \in Ids :
           member[m] # NoMember /\ member[n] # NoMember /\ member[m].user = member[n].user => m = n
      /\ \A i \in Ids : invite[i] # NoInvite => invite[i].status = "pending"
      /\ \A m \in Ids : \A r \in overrides[m] : r[3] = m
      /\ plan = "none" => /\ \A i \in Ids : member[i] = NoMember /\ invite[i] = NoInvite
                          /\ tenant = {}
  <2>1. CASE /\ plan = "none"
             /\ member = [i \in Ids |-> NoMember]
             /\ invite = [i \in Ids |-> NoInvite]
             /\ overrides = [i \in Ids |-> {}]
             /\ tenant = {}
    BY <2>1 DEF Ids
  <2>2. CASE /\ plan = "pro"
             /\ member = [i \in Ids |-> IF i \in FirstIds THEN FirstMembers[i] ELSE NoMember]
             /\ invite = [i \in Ids |-> IF i \in FirstIds THEN FirstInvites[i] ELSE NoInvite]
             /\ overrides = [i \in Ids |-> IF i \in FirstIds THEN FirstOverrides[i] ELSE {}]
             /\ tenant = {u \in Users : MembersOf(u) # {}}
    <3>1. \A i \in Ids : i \in FirstIds \/ (i \in Calls /\ i \notin FirstIds)
      BY AccessAssumption DEF Ids
    <3>2. /\ plan \in Plans /\ plan # "none" /\ tenant \subseteq Users
          /\ \A c \in Calls : c \in Ids /\ c \notin FirstIds
      BY <2>2, AccessAssumption DEF Plans, PlanFeatures, Ids
    <3>3. /\ member \in [Ids -> MemberRow \cup {NoMember}]
          /\ invite \in [Ids -> InviteRow \cup {NoInvite}]
      BY <2>2, <3>1, TenancyAssumption
    <3>4. \A i \in Ids : overrides[i] \subseteq Permissions \X BOOLEAN \X {i}
      BY <2>2, <3>1, TenancyAssumption
    <3>5. overrides \in [Ids -> SUBSET (Permissions \X BOOLEAN \X Ids)]
      <4>1. \A i \in Ids : overrides[i] \subseteq Permissions \X BOOLEAN \X Ids
        BY <3>4
      <4>2. overrides = [i \in Ids |-> overrides[i]]
        BY <2>2
      <4> HIDE <2>2
      <4> QED
        BY <4>1, <4>2
    <3>6. \A m \in Ids : \A r \in overrides[m] : r[3] = m
      BY <3>4
    <3>7. \A m, n \in Ids :
            member[m] # NoMember /\ member[n] # NoMember /\ member[m].user = member[n].user => m = n
      BY <2>2, <3>1, TenancyAssumption
    <3>8. /\ \A c \in Calls : member[c] = NoMember /\ invite[c] = NoInvite
          /\ \A i \in Ids : invite[i] # NoInvite => invite[i].status = "pending"
      BY <2>2, <3>1, <3>2, TenancyAssumption
    <3> QED
      BY <3>2, <3>3, <3>5, <3>6, <3>7, <3>8
  <2> QED
    BY <2>1, <2>2 DEF Init
<1>3. Shapes
  BY <1>1, <1>2 DEF Shapes, Statements
<1>4. \A c \in Calls : at[c] = "idle"
  BY <1>1
<1>5. CallsInv /\ OwnersInv
  BY <1>4 DEF CallsInv, Active, OwnersInv
<1>6. MembersInv
  BY <1>1, <1>2, <1>4 DEF MembersInv
<1>7. InvitesInv
  BY <1>1, <1>2 DEF InvitesInv, InvitationsAreSpentOnce
<1>8. OverridesInv
  <2>1. \A m \in Ids : \A r, s \in overrides[m] : r[3] = s[3]
    BY <1>2
  <2> QED
    BY <1>4, <2>1 DEF OverridesInv
<1> QED
  BY <1>3, <1>5, <1>6, <1>7, <1>8 DEF RowsInv

LEMMA ContinueKeepsRows ==
  ASSUME RowsInv, NEW c \in Calls, Continue(c), flags' = flags
  PROVE  RowsInv'
<1>1. CASE CreateOverrides(c)
  <2> DEFINE keep == overrides[req[c].on] \ snap[c]
  <2>1. CASE /\ Go(c, "failed") /\ Unlock(c) /\ UNCHANGED <<rowVars, admitted, raced>>
    <3>1. Active(c)
      BY <1>1 DEF CreateOverrides, Active
    <3> QED
      BY <2>1, <3>1, RollbackKeepsRows DEF rowVars
  <2>2. CASE CommitAssign(c, NewRows(c), keep)
    <3>1. at[c] = "create"
      BY <1>1 DEF CreateOverrides
    <3>2. PICK rows, kept : rows = NewRows(c) /\ kept = keep
      OBVIOUS
    <3>3. CommitAssign(c, rows, kept)
      BY <2>2, <3>2
    <3>4. kept \subseteq overrides[req[c].on] /\ kept = overrides[req[c].on] \ snap[c]
      BY <3>2
    <3> QED
      BY <3>1, <3>2, <3>3, <3>4, CommitKeepsRows
  <2> QED
    BY <1>1, <2>1, <2>2 DEF CreateOverrides
<1>2. CASE AssignRoleOnly(c)
  <2>1. at[c] = "commit" /\ CommitAssign(c, {}, overrides[req[c].on])
    BY <1>2 DEF AssignRoleOnly
  <2>2. PICK rows, kept : rows = {} /\ kept = overrides[req[c].on]
    OBVIOUS
  <2>3. CommitAssign(c, rows, kept)
    BY <2>1, <2>2
  <2> QED
    BY <2>1, <2>2, <2>3, CommitKeepsRows
<1>3. CASE \/ AssertActiveTenant(c) \/ ResolveCustomPermissionKeys(c)
           \/ ReadExisting(c) \/ Join(c) \/ FindToRemove(c) \/ CountOwners(c) \/ FindToAssign(c)
           \/ ClearOverrides(c)
  BY <1>3, ChecksKeepRows
<1>4. CASE \/ CreateCompany(c) \/ Reissue(c) \/ CreateInvitation(c) \/ RevokeInvitation(c)
           \/ MarkAccepted(c) \/ DeleteMember(c) \/ UpdateRole(c) \/ SeeOverrides(c)
  BY <1>4, CreateCompanyKeepsRows, ReissueKeepsRows, CreateInvitationKeepsRows,
     RevokeInvitationKeepsRows, MarkAcceptedKeepsRows, DeleteMemberKeepsRows,
     UpdateRoleKeepsRows, SeeOverridesKeepsRows
<1> QED
  BY <1>1, <1>2, <1>3, <1>4 DEF Continue

LEMMA RowsNext == RowsInv /\ [Next]_vars => RowsInv'
<1> SUFFICES ASSUME RowsInv, [Next]_vars PROVE RowsInv'
  OBVIOUS
<1>1. CASE UNCHANGED <<flags, rowVars, callVars, lock, admitted, raced>>
  BY <1>1 DEF rowVars, callVars, RowsInv, Shapes, CallsInv, Active, Requested, WellFormed, Settled,
              MembersInv, MembersOf, InvitesInv, InvitationsAreSpentOnce, OverridesInv, OwnersInv, Owners
<1>2. ASSUME NEW c \in Calls, Step(c) PROVE RowsInv'
  <2>1. CASE Continue(c) /\ flags' = flags
    BY <2>1, ContinueKeepsRows
  <2>2. CASE at[c] = "idle" /\ (\E r \in Menu : Ask(c, r)) /\ UNCHANGED <<flags, cache, read>>
    <3>1. PICK r \in Menu : Ask(c, r)
      BY <2>2
    <3>2. NoRowChanges
      BY <3>1 DEF Ask, AskCreate, SwitchCompany, AskInvite, AskRevoke, AcceptInvitation, AskRemove,
                  AskAssign, AskUse
    <3> QED
      BY <2>2, <3>1, <3>2, AskKeepsRows DEF NoRowChanges, rowVars
  <2>3. CASE (Guard(c) \/ AuditChange(c)) /\ UNCHANGED <<rowVars, flags, lock, admitted, raced>>
    <3>1. RowsStay
      BY <2>3 DEF rowVars, RowsStay
    <3> QED
      BY <2>3, <3>1, GuardKeepsRows
  <2>4. CASE /\ WriteFlag(c) \/ SetPlan(c)
             /\ UNCHANGED <<member, invite, overrides, tenant, lock, admitted, raced, cache, read>>
    BY <2>4, PlatformKeepsRows
  <2>5. CASE /\ at[c] = "idle" /\ \E r \in Menu : AskToggle(c, r) \/ AskPlan(c, r)
             /\ UNCHANGED <<member, invite, overrides, tenant, lock, admitted, raced, cache, read>>
    <3>1. PICK r \in Menu : AskToggle(c, r) \/ AskPlan(c, r)
      BY <2>5
    <3>2. flags' = flags
      BY <3>1 DEF AskToggle, AskPlan
    <3> QED
      BY <2>5, <3>1, <3>2, AskKeepsRows
  <2> QED
    BY <1>2, <2>1, <2>2, <2>3, <2>4, <2>5 DEF Step
<1>3. ASSUME NEW c \in Calls, Fail(c) PROVE RowsInv'
  <2>1. Active(c)
    BY <1>3 DEF Fail, Active
  <2> QED
    BY <1>3, <2>1, RollbackKeepsRows DEF Fail, rowVars
<1>4. CASE UNCHANGED vars
  BY <1>1, <1>4 DEF vars, memberVars
<1>5. CASE Tick /\ UNCHANGED <<invite, tenant, lock, admitted, raced>>
  BY <1>1, <1>5 DEF Tick, rowVars, callVars
<1> QED
  BY <1>2, <1>3, <1>4, <1>5 DEF Next

-----------------------------------------------------------------------------
(* What a step remembers.                                                  *)

\* The rows of a user determine what a guard would resolve.
LEMMA NowFollowsRows ==
  ASSUME NEW u, RowsOf(u)' = RowsOf(u)
  PROVE  /\ Now(u)' = Now(u) /\ CompanyFeatures' = CompanyFeatures /\ MembersOf(u)' = MembersOf(u)
         /\ \A m \in MembersOf(u) : member'[m].role = member[m].role /\ overrides'[m] = overrides[m]
<1> DEFINE rows  == [m \in MembersOf(u) |-> <<member[m].role, overrides[m]>>]
           rows2 == [m \in MembersOf(u)' |-> <<member'[m].role, overrides'[m]>>]
<1>1. CompanyFeatures' = CompanyFeatures /\ rows2 = rows
  BY DEF RowsOf
<1>2. DOMAIN rows = MembersOf(u) /\ DOMAIN rows2 = MembersOf(u)'
  OBVIOUS
<1>3. MembersOf(u)' = MembersOf(u)
  BY <1>1, <1>2
<1>4. ASSUME NEW m \in MembersOf(u)
      PROVE  member'[m].role = member[m].role /\ overrides'[m] = overrides[m]
  <2>1. rows[m] = <<member[m].role, overrides[m]>> /\ rows2[m] = <<member'[m].role, overrides'[m]>>
    BY <1>3
  <2> HIDE DEF rows, rows2
  <2> QED
    BY <1>1, <2>1
<1>5. Now(u)' = Now(u)
  <2> DEFINE First(S) == CHOOSE i \in S : TRUE
  <2>1. Now(u) = IF MembersOf(u) = {} THEN Capabilities(CompanyFeatures, "none", {})
                 ELSE Capabilities(CompanyFeatures, member[First(MembersOf(u))].role, overrides[First(MembersOf(u))])
    BY DEF Now
  <2>2. Now(u)' = IF MembersOf(u)' = {} THEN Capabilities(CompanyFeatures', "none", {})
                  ELSE Capabilities(CompanyFeatures', member'[First(MembersOf(u)')].role,
                                    overrides'[First(MembersOf(u)')])
    BY DEF Now, Capabilities
  <2>3. \A S : S # {} => First(S) \in S
    OBVIOUS
  <2> HIDE DEF First
  <2>4. CASE MembersOf(u) = {}
    BY <1>1, <1>3, <2>1, <2>2, <2>4
  <2>5. CASE MembersOf(u) # {}
    <3>1. First(MembersOf(u)') = First(MembersOf(u)) /\ First(MembersOf(u)) \in MembersOf(u)
      BY <1>3, <2>3, <2>5
    <3> QED
      BY <1>1, <1>3, <1>4, <2>1, <2>2, <2>5, <3>1
  <2> QED
    BY <2>4, <2>5
<1> QED
  BY <1>1, <1>3, <1>4, <1>5

\* One membership per user: the rows that a guard reads are that member's.
LEMMA NowIs ==
  ASSUME MembersInv, NEW u, NEW m \in MembersOf(u)
  PROVE  Now(u) = Capabilities(CompanyFeatures, member[m].role, overrides[m])
<1>1. \A i \in MembersOf(u) : i = m
  BY DEF MembersInv, MembersOf
<1>2. (CHOOSE i \in MembersOf(u) : TRUE) = m
  BY <1>1
<1> QED
  BY <1>2 DEF Now

\* The history of a step of c, for one user.
Remembered(c, died, u) ==
  /\ \A s \in Servers :
       /\ Stands(s, u)'
       /\ \/ <<s, u>> \in excused
          \/ RowsOf(u)' # RowsOf(u) /\ Filling(s, u)
          \/ Now(u)' # Now(u) /\ cache[s][u] # NoEntry /\ ~(at'[c] = "audit" /\ req[c].via = s)
          \/ died /\ at[c] = "audit" /\ req[c].via = s
       => <<s, u>> \in excused'
  /\ /\ StandsSomewhere(u)'
     /\ \/ u \in torn
        \/ /\ RowsOf(u)' # RowsOf(u)
           /\ \E d \in Calls : at[d] \in {"member", "overrides"} /\ req[d].who = u
     => u \in torn'
  /\ StandsSomewhere(u)' =>
       /\ \A l \in lost : l[1] = u /\ (Now(u)' = Now(u) \/ l[2] \notin Atoms(Now(u)')) => l \in lost'
       /\ Now(u)' # Now(u) => \A a \in Atoms(Now(u)) \ Atoms(Now(u)') : <<u, a, 0>> \in lost'

LEMMA RememberEffect ==
  ASSUME NEW c \in Calls, NEW died \in BOOLEAN, Remember(c, died),
         NEW u \in Users
  PROVE  Remembered(c, died, u)
<1> DEFINE rows     == <<plan, flags, member, overrides>>
           moved    == IF rows' = rows THEN {} ELSE {v \in Users : RowsOf(v)' # RowsOf(v)}
           changed  == {v \in moved : Now(v)' # Now(v)}
           promised == IF at'[c] = "audit" THEN {req[c].via} ELSE {}
           behind   == {p \in (Servers \ promised) \X changed : cache[p[1]][p[2]] # NoEntry}
                         \cup {p \in Servers \X moved : Filling(p[1], p[2])}
           skipped  == IF died /\ at[c] = "audit" THEN {req[c].via} \X Users ELSE {}
           news     == UNION {{<<v, a, 0>> : a \in Atoms(Now(v))} : v \in changed}
<1>1. /\ excused' = {p \in excused \cup behind \cup skipped : Stands(p[1], p[2])'}
      /\ torn' = {v \in torn \cup {w \in moved : \E d \in Calls :
                                     at[d] \in {"member", "overrides"} /\ req[d].who = w} :
                    StandsSomewhere(v)'}
      /\ lost' = {l \in lost \cup news : /\ StandsSomewhere(l[1])'
                                         /\ l[1] \in changed => l[2] \notin Atoms(Now(l[1]))'}
  BY DEF Remember
<1>2. u \in moved <=> RowsOf(u)' # RowsOf(u)
  <2>1. rows' = rows => RowsOf(u)' = RowsOf(u)
    BY DEF RowsOf, CompanyFeatures, Flagged, MembersOf
  <2> QED
    BY <2>1
<1>3. u \in changed <=> Now(u)' # Now(u)
  BY <1>2, NowFollowsRows
<1> HIDE DEF moved, rows
<1>4. ASSUME NEW s \in Servers, Stands(s, u)',
             \/ <<s, u>> \in excused
             \/ RowsOf(u)' # RowsOf(u) /\ Filling(s, u)
             \/ Now(u)' # Now(u) /\ cache[s][u] # NoEntry /\ ~(at'[c] = "audit" /\ req[c].via = s)
             \/ died /\ at[c] = "audit" /\ req[c].via = s
      PROVE  <<s, u>> \in excused'
  <2>1. RowsOf(u)' # RowsOf(u) /\ Filling(s, u) => <<s, u>> \in behind
    BY <1>2
  <2>2. Now(u)' # Now(u) /\ cache[s][u] # NoEntry /\ ~(at'[c] = "audit" /\ req[c].via = s) => <<s, u>> \in behind
    BY <1>3
  <2>3. died /\ at[c] = "audit" /\ req[c].via = s => <<s, u>> \in skipped
    OBVIOUS
  <2>4. <<s, u>> \in excused \cup behind \cup skipped
    BY <1>4, <2>1, <2>2, <2>3
  <2> HIDE DEF behind, skipped
  <2> QED
    BY <1>1, <1>4, <2>4
<1>5. ASSUME StandsSomewhere(u)',
             \/ u \in torn
             \/ /\ RowsOf(u)' # RowsOf(u)
                /\ \E d \in Calls : at[d] \in {"member", "overrides"} /\ req[d].who = u
      PROVE  u \in torn'
  BY <1>1, <1>2, <1>5
<1> HIDE DEF behind, skipped
<1>6. ASSUME StandsSomewhere(u)', NEW l \in lost, l[1] = u, Now(u)' = Now(u) \/ l[2] \notin Atoms(Now(u)')
      PROVE  l \in lost'
  BY <1>1, <1>3, <1>6
<1>7. ASSUME StandsSomewhere(u)', Now(u)' # Now(u), NEW a \in Atoms(Now(u)) \ Atoms(Now(u)')
      PROVE  <<u, a, 0>> \in lost'
  <2>1. u \in changed
    BY <1>3, <1>7
  <2> HIDE DEF changed
  <2>2. <<u, a, 0>> \in news
    BY <2>1
  <2> HIDE DEF news
  <2> QED
    BY <1>1, <1>7, <2>2
<1> QED
  BY <1>4, <1>5, <1>6, <1>7 DEF Remembered

-----------------------------------------------------------------------------
(* The caches.                                                             *)

\* A step of another call: what a guard has read stays fresh, or is excused.
LEMMA OtherGuardsKeep ==
  ASSUME NEW c \in Calls, NEW died \in BOOLEAN, Remember(c, died), Alone(c),
         NEW d \in Calls, d # c, read'[d] = read[d],
         NEW s \in Servers, NEW u \in Users, GuardInv(d, s, u)
  PROVE  GuardInv(d, s, u)'
<1>1. at'[d] = at[d] /\ req'[d] = req[d] /\ read'[d] = read[d]
  BY DEF Alone
<1> SUFFICES ASSUME at[d] \in Reading, req[d].via = s, req[d].who = u
             PROVE  GuardInv(d, s, u)'
  BY <1>1 DEF GuardInv
<1>2. Filling(s, u) /\ Filling(s, u)'
  BY <1>1 DEF Filling, Reading
<1>3. Stands(s, u)' /\ StandsSomewhere(u)'
  BY <1>2 DEF Stands, StandsSomewhere
<1>4. Remembered(c, died, u)
  BY RememberEffect
<1>5. ASSUME RowsOf(u)' = RowsOf(u), Fresh(d, u) PROVE Fresh(d, u)'
  BY <1>1, <1>5, NowFollowsRows DEF Fresh
<1>6. Fresh(d, u)' \/ <<s, u>> \in excused'
  <2>1. Fresh(d, u) \/ <<s, u>> \in excused
    BY DEF GuardInv
  <2>2. <<s, u>> \in excused \/ RowsOf(u)' # RowsOf(u) => <<s, u>> \in excused'
    BY <1>2, <1>3, <1>4 DEF Remembered
  <2> QED
    BY <1>5, <2>1, <2>2
<1>7. ASSUME u \notin torn', at[d] # "store" PROVE Fresh(d, u)'
  <2>1. at[d] \in {"member", "overrides"}
    BY <1>7 DEF Reading
  <2>2. u \notin torn /\ RowsOf(u)' = RowsOf(u)
    BY <1>3, <1>4, <1>7, <2>1 DEF Remembered
  <2> QED
    BY <1>5, <1>7, <2>2 DEF GuardInv
<1>8. ASSUME u \notin torn', at[d] = "store", NEW a \in Atoms(read[d]) \ Atoms(Now(u)')
      PROVE  <<u, a, 0>> \in lost'
  <2>1. u \notin torn
    BY <1>3, <1>4, <1>8 DEF Remembered
  <2>2. CASE a \in Atoms(Now(u))
    <3>1. Now(u)' # Now(u)
      BY <1>8, <2>2
    <3> QED
      BY <1>3, <1>4, <1>8, <2>2, <3>1 DEF Remembered
  <2>3. CASE a \notin Atoms(Now(u))
    <3>1. <<u, a, 0>> \in lost
      BY <1>8, <2>1, <2>3 DEF GuardInv
    <3>2. \A l \in lost : l[1] = u /\ l[2] \notin Atoms(Now(u)') => l \in lost'
      BY <1>3, <1>4 DEF Remembered
    <3>3. PICK l : l = <<u, a, 0>>
      OBVIOUS
    <3> QED
      BY <1>8, <3>1, <3>2, <3>3
  <2> QED
    BY <2>2, <2>3
<1>9. Atoms(read[d])' = Atoms(read[d]) /\ Atoms(Now(u))' = Atoms(Now(u)')
  BY <1>1 DEF Atoms
<1> QED
  BY <1>1, <1>6, <1>7, <1>8, <1>9 DEF GuardInv

\* An entry that a step leaves where it is.
LEMMA EntryStays ==
  ASSUME NEW c \in Calls, NEW died \in BOOLEAN, Remember(c, died), Alone(c), CacheShapes,
         NEW s \in Servers, NEW u \in Users, EntryInv(s, u), cache'[s][u] = cache[s][u],
         at'[c] = "audit" => /\ req'[c] = req[c]
                             /\ RowsOf(u)' # RowsOf(u) /\ req[c].does = "assign" => req[c].user = u,
         Promised(c, s, u) => died
  PROVE  EntryInv(s, u)'
<1> SUFFICES ASSUME cache[s][u] # NoEntry PROVE EntryInv(s, u)'
  BY DEF EntryInv
<1>1. Stands(s, u)' /\ StandsSomewhere(u)'
  BY DEF Stands, StandsSomewhere
<1>2. Remembered(c, died, u)
  BY RememberEffect
<1>3. \/ cache[s][u].caps = Now(u)'
      \/ <<s, u>> \in excused'
      \/ \E d \in Calls : Promised(d, s, u)'
  <2>1. CASE <<s, u>> \in excused
    BY <1>1, <1>2, <2>1 DEF Remembered
  <2>2. CASE cache[s][u].caps = Now(u)
    <3>1. CASE Now(u)' = Now(u)
      BY <2>2, <3>1
    <3>2. CASE Now(u)' # Now(u)
      <4>1. CASE at'[c] = "audit" /\ req[c].via = s
        <5>1. RowsOf(u)' # RowsOf(u)
          BY <3>2, NowFollowsRows
        <5>2. req'[c].via = s /\ (req'[c].does = "assign" => req'[c].user = u)
          BY <4>1, <5>1
        <5>3. Promised(c, s, u)'
          BY <4>1, <5>2 DEF Promised
        <5> QED
          BY <5>3
      <4> QED
        BY <1>1, <1>2, <3>2, <4>1 DEF Remembered
    <3> QED
      BY <3>1, <3>2
  <2>3. ASSUME NEW d \in Calls, Promised(d, s, u)
        PROVE  <<s, u>> \in excused' \/ Promised(d, s, u)'
    <3>1. CASE d = c
      <4>1. died /\ at[c] = "audit" /\ req[c].via = s
        BY <2>3, <3>1 DEF Promised
      <4> QED
        BY <1>1, <1>2, <4>1 DEF Remembered
    <3>2. CASE d # c
      BY <2>3, <3>2 DEF Promised, Alone
    <3> QED
      BY <3>1, <3>2
  <2> QED
    BY <2>1, <2>2, <2>3 DEF EntryInv
<1>4. ASSUME u \notin torn', NEW a \in Atoms(cache[s][u].caps) \ Atoms(Now(u)')
      PROVE  \E l \in lost' : l[1] = u /\ l[2] = a /\ l[3] + cache[s][u].left <= Ttl
  <2>1. u \notin torn
    BY <1>1, <1>2, <1>4 DEF Remembered
  <2>2. cache[s][u].left \in 1..Ttl
    BY DEF CacheShapes
  <2>3. CASE a \in Atoms(Now(u))
    <3>1. Now(u)' # Now(u)
      BY <1>4, <2>3
    <3>2. <<u, a, 0>> \in lost'
      BY <1>1, <1>2, <1>4, <2>3, <3>1 DEF Remembered
    <3>3. 0 + cache[s][u].left <= Ttl
      BY <2>2, AccessAssumption
    <3> QED
      BY <3>2, <3>3
  <2>4. CASE a \notin Atoms(Now(u))
    <3>1. PICK l \in lost : l[1] = u /\ l[2] = a /\ l[3] + cache[s][u].left <= Ttl
      BY <1>4, <2>1, <2>4 DEF EntryInv
    <3>2. l \in lost'
      BY <1>1, <1>2, <1>4, <3>1 DEF Remembered
    <3> QED
      BY <3>1, <3>2
  <2> QED
    BY <2>3, <2>4
<1>5. Atoms(cache[s][u].caps)' = Atoms(cache[s][u].caps) /\ Atoms(Now(u))' = Atoms(Now(u)')
  BY DEF Atoms
<1> QED
  BY <1>3, <1>4, <1>5 DEF EntryInv

LEMMA LostKeepsShape ==
  ASSUME CacheShapes, NEW c \in Calls, NEW died \in BOOLEAN, Remember(c, died)
  PROVE  \A l \in lost' : l = <<l[1], l[2], l[3]>> /\ l[3] \in Nat
<1>1. ASSUME NEW l \in lost'
      PROVE  l \in lost \/ \E v, a : l = <<v, a, 0>>
  BY DEF Remember
<1>2. \A l \in lost : l = <<l[1], l[2], l[3]>> /\ l[3] \in Nat
  BY DEF CacheShapes
<1> QED
  BY <1>1, <1>2

\* A commit that a promise of invalidation follows moves only what will be
\* invalidated.
Covered(c) ==
  at'[c] = "audit" =>
    /\ req'[c] = req[c]
    /\ \A u \in Users : RowsOf(u)' # RowsOf(u) /\ req[c].does = "assign" => req[c].user = u

Ordinary(c) == Alone(c) /\ at[c] # "audit" /\ at'[c] \notin Reading /\ Covered(c)

LEMMA OrdinaryGo ==
  ASSUME RowsInv, NEW c \in Calls, Active(c), at[c] # "audit", NEW next \in Writing \cup Answers,
         NEW seen, Goto(c, req[c], next, seen), next # "audit" \/ req[c].does # "assign"
  PROVE  Ordinary(c)
<1>1. /\ Alone(c)
      /\ next \in Answers => at'[c] = "done"
      /\ next \notin Answers => at'[c] = next /\ req'[c] = req[c]
  BY GoWrites
<1>2. at'[c] \notin Reading
  BY <1>1 DEF Reading, Writing, Assigning, Accepting
<1> QED
  BY <1>1, <1>2 DEF Ordinary, Covered

LEMMA OrdinaryCommit ==
  ASSUME RowsInv, NEW c \in Calls, NEW rows, NEW keep, CommitAssign(c, rows, keep), flags' = flags,
         keep \subseteq overrides[req[c].on],
         (at[c] = "create" /\ rows = NewRows(c)) \/ (at[c] = "commit" /\ rows = {})
  PROVE  Ordinary(c)
<1> PICK m : m = req[c].on
  OBVIOUS
<1>1. /\ Active(c) /\ Requested(c) /\ req[c].does = "assign" /\ m \in Ids
      /\ Alone(c) /\ at'[c] = "audit" /\ req'[c] = req[c]
      /\ \A k \in Ids \ {m} : member'[k] = member[k]
      /\ member[m] = NoMember => member'[m] = NoMember
      /\ member[m] # NoMember => member'[m] # NoMember /\ member'[m].user = member[m].user
      /\ \A k \in Ids \ {m} : overrides'[k] = overrides[k]
  BY CommitEffect
<1>2. CompanyFeatures' = CompanyFeatures
  BY DEF CommitAssign, CompanyFeatures, Flagged
<1>3. member[m] = NoMember \/ member[m].user = req[c].user
  BY <1>1 DEF Requested
<1>4. ASSUME NEW u \in Users, req[c].user # u PROVE RowsOf(u)' = RowsOf(u)
  <2>1. MembersOf(u)' = MembersOf(u) /\ m \notin MembersOf(u) /\ MembersOf(u) \subseteq Ids
    BY <1>1, <1>3, <1>4 DEF MembersOf
  <2>2. \A k \in MembersOf(u) : member'[k] = member[k] /\ overrides'[k] = overrides[k]
    BY <1>1, <2>1
  <2>3. [k \in MembersOf(u) |-> <<member[k].role, overrides[k]>>]
          = [k \in MembersOf(u)' |-> <<member'[k].role, overrides'[k]>>]
    BY <2>1, <2>2
  <2> QED
    BY <1>2, <2>3 DEF RowsOf
<1> QED
  BY <1>1, <1>4 DEF Ordinary, Covered, Reading

LEMMA ContinueIsOrdinary ==
  ASSUME RowsInv, NEW c \in Calls, Continue(c), flags' = flags
  PROVE  Ordinary(c)
<1>1. CASE CreateOverrides(c)
  <2>1. Active(c) /\ at[c] = "create"
    BY <1>1 DEF CreateOverrides, Active
  <2>2. CASE Go(c, "failed")
    BY <2>1, <2>2, OrdinaryGo DEF Go, Answers
  <2>3. CASE CommitAssign(c, NewRows(c), overrides[req[c].on] \ snap[c])
    <3>1. PICK rows, keep : rows = NewRows(c) /\ keep = overrides[req[c].on] \ snap[c]
      OBVIOUS
    <3>2. CommitAssign(c, rows, keep) /\ keep \subseteq overrides[req[c].on]
      BY <2>3, <3>1
    <3> QED
      BY <2>1, <3>1, <3>2, OrdinaryCommit
  <2> QED
    BY <1>1, <2>2, <2>3 DEF CreateOverrides
<1>2. CASE AssignRoleOnly(c)
  <2>1. at[c] = "commit" /\ CommitAssign(c, {}, overrides[req[c].on])
    BY <1>2 DEF AssignRoleOnly
  <2>2. PICK rows, keep : rows = {} /\ keep = overrides[req[c].on]
    OBVIOUS
  <2>3. CommitAssign(c, rows, keep)
    BY <2>1, <2>2
  <2> QED
    BY <2>1, <2>2, <2>3, OrdinaryCommit
<1>3. CASE ~(CreateOverrides(c) \/ AssignRoleOnly(c))
  <2> USE DEF Answers
  <2>1. Active(c) /\ at[c] # "audit"
    BY <1>3 DEF Continue, AssertActiveTenant, CreateCompany, Reissue, ResolveCustomPermissionKeys,
                CreateInvitation, RevokeInvitation, ReadExisting, Join, MarkAccepted, FindToRemove,
                CountOwners, DeleteMember, FindToAssign, UpdateRole, SeeOverrides, ClearOverrides, Active
  <2>2. ASSUME NEW next \in (Writing \ {"audit"}) \cup Answers, Go(c, next) PROVE Ordinary(c)
    BY <2>1, <2>2, OrdinaryGo DEF Go
  <2>3. {"keys", "invite", "revoke", "remove", "bind", "join", "mark", "count", "delete", "role", "clear",
         "commit", "create", "refused", "failed", "ok"} \subseteq (Writing \ {"audit"}) \cup Answers
    BY DEF Writing, Assigning, Accepting
  <2>4. CASE AssertActiveTenant(c) \/ ResolveCustomPermissionKeys(c)
    <3>1. req[c].does \in {"invite", "revoke", "remove"}
      BY <2>1, <2>4 DEF AssertActiveTenant, ResolveCustomPermissionKeys, RowsInv, CallsInv, Requested,
                        Fits, Guarding
    <3>2. PICK next \in {"refused", "keys", req[c].does} : Go(c, next)
      BY <2>4 DEF AssertActiveTenant, ResolveCustomPermissionKeys
    <3> QED
      BY <2>2, <2>3, <3>1, <3>2
  <2>5. CASE SeeOverrides(c)
    <3>1. PICK seen : seen = overrides[req[c].on]
      OBVIOUS
    <3>2. Goto(c, req[c], "wait", seen)
      BY <2>5, <3>1 DEF SeeOverrides
    <3>3. "wait" \in Writing \cup Answers /\ "wait" # "audit"
      BY DEF Writing, Assigning
    <3> QED
      BY <2>1, <3>2, <3>3, OrdinaryGo
  <2>6. CASE CreateCompany(c) \/ Reissue(c)
    <3>1. \E next \in {"refused", "bind", "ok"} : Go(c, next)
      BY <2>6 DEF CreateCompany, Reissue
    <3> QED
      BY <2>2, <2>3, <3>1
  <2>7. CASE CreateInvitation(c) \/ RevokeInvitation(c) \/ MarkAccepted(c)
    <3>1. \E next \in {"refused", "ok"} : Go(c, next)
      BY <2>7 DEF CreateInvitation, RevokeInvitation, MarkAccepted
    <3> QED
      BY <2>2, <2>3, <3>1
  <2>8. CASE ReadExisting(c) \/ Join(c)
    <3>1. \E next \in {"join", "ok", "mark", "failed"} : Go(c, next)
      BY <2>8 DEF ReadExisting, Join
    <3> QED
      BY <2>2, <2>3, <3>1
  <2>9. CASE FindToRemove(c) \/ CountOwners(c) \/ DeleteMember(c)
    <3>1. \E next \in {"refused", "count", "delete", "failed", "ok"} : Go(c, next)
      BY <2>9 DEF FindToRemove, CountOwners, DeleteMember
    <3> QED
      BY <2>2, <2>3, <3>1
  <2>10. CASE FindToAssign(c) \/ UpdateRole(c) \/ ClearOverrides(c)
    <3>1. \E next \in {"refused", "role", "clear", "commit", "create"} : Go(c, next)
      BY <2>10 DEF FindToAssign, UpdateRole, ClearOverrides
    <3> QED
      BY <2>2, <2>3, <3>1
  <2> QED
    BY <1>3, <2>4, <2>5, <2>6, <2>7, <2>8, <2>9, <2>10 DEF Continue
<1> QED
  BY <1>1, <1>2, <1>3

LEMMA PlatformIsOrdinary ==
  ASSUME RowsInv, NEW c \in Calls, WriteFlag(c) \/ SetPlan(c)
  PROVE  Ordinary(c)
<1>1. Active(c) /\ at[c] # "audit" /\ req[c].does # "assign"
  BY DEF WriteFlag, SetPlan, Active, RowsInv, CallsInv, Requested, Fits, Guarding
<1>2. PICK next \in {"audit", "failed"} : Go(c, next)
  BY DEF WriteFlag, SetPlan
<1>3. next \in Writing \cup Answers
  BY DEF Writing, Answers
<1> QED
  BY <1>1, <1>2, <1>3, OrdinaryGo DEF Go

LEMMA ArriveIsOrdinary ==
  ASSUME RowsInv, NEW c \in Calls, at[c] = "idle", NEW r, NEW i, NEW next \in Beginnings \cup Answers,
         Arrive(c, r, i, next)
  PROVE  Ordinary(c)
<1>1. PICK request, first :
        /\ first \in {"guard", next}
        /\ Goto(c, request, first, {})
  BY DEF Arrive
<1>2. Shapes /\ first \in Statements \cup Answers /\ first \notin Reading \cup {"audit"}
  BY <1>1 DEF RowsInv, Statements, Guarding, Writing, Beginnings, Accepting, Assigning, Reading, Answers
<1>3. Alone(c) /\ at'[c] \in {"done", first}
  <2>1. PICK seen : seen = {} /\ Goto(c, request, first, seen)
    BY <1>1
  <2> QED
    BY <1>2, <2>1, GotoEffect
<1> QED
  BY <1>2, <1>3 DEF Ordinary, Covered, Reading

LEMMA AskIsOrdinary ==
  ASSUME RowsInv, NEW c \in Calls, at[c] = "idle", NEW r \in Menu,
         Ask(c, r) \/ AskToggle(c, r) \/ AskPlan(c, r)
  PROVE  Ordinary(c)
<1>1. \E i : \E next \in {"found", "refused", "bind", "assert", "existing", "find", "ok", "updateFlag",
                              "createFlag", "setPlan"} : Arrive(c, r, i, next)
  BY DEF Ask, AskCreate, SwitchCompany, AskInvite, AskRevoke, AcceptInvitation, AskRemove, AskAssign,
         AskUse, AskToggle, AskPlan
<1>2. {"found", "refused", "bind", "assert", "existing", "find", "ok", "updateFlag", "createFlag", "setPlan"}
        \subseteq Beginnings \cup Answers
  BY DEF Beginnings, Answers
<1> QED
  BY <1>1, <1>2, ArriveIsOrdinary

LEMMA StepKeepsCaches ==
  ASSUME CachesInv, NEW c \in Calls, NEW died \in BOOLEAN, Remember(c, died),
         Alone(c), Covered(c), at[c] = "audit" => died, at'[c] \notin Reading,
         cache' = cache, read' = [d \in Calls |-> read'[d]], \A d \in Calls \ {c} : read'[d] = read[d]
  PROVE  CachesInv'
<1>1. CacheShapes'
  <2>1. \A l \in lost' : l = <<l[1], l[2], l[3]>> /\ l[3] \in Nat
    BY LostKeepsShape DEF CachesInv
  <2>2. \A d \in Calls : at'[d] = "member" =>
          read'[d] = [features |-> read'[d].features, role |-> read'[d].role, on |-> read'[d].on]
    BY DEF CachesInv, CacheShapes, Alone, Reading
  <2> QED
    BY <2>1, <2>2 DEF CachesInv, CacheShapes
<1>2. ASSUME NEW d \in Calls, NEW s \in Servers, NEW u \in Users PROVE GuardInv(d, s, u)'
  <2>1. CASE d = c
    BY <2>1 DEF GuardInv
  <2>2. CASE d # c
    BY <2>2, OtherGuardsKeep DEF CachesInv
  <2> QED
    BY <2>1, <2>2
<1>3. ASSUME NEW s \in Servers, NEW u \in Users PROVE EntryInv(s, u)'
  BY EntryStays DEF CachesInv, Covered, Promised
<1> QED
  BY <1>1, <1>2, <1>3 DEF CachesInv

LEMMA AuditKeepsCaches ==
  ASSUME RowsInv, CachesInv, NEW c \in Calls, AuditChange(c), Remember(c, FALSE)
  PROVE  CachesInv'
<1>1. /\ at[c] = "audit" /\ Go(c, "ok") /\ read' = read
      /\ cache' = [cache EXCEPT ![req[c].via] =
                 [u \in Users |-> IF req[c].does # "assign" \/ u = req[c].user THEN NoEntry ELSE @[u]]]
  BY DEF AuditChange
<1>2. /\ Alone(c) /\ at'[c] = "done"
  BY <1>1, GoWrites DEF Go, Answers, Active
<1>3. /\ cache' = [s \in Servers |-> [u \in Users |-> cache'[s][u]]]
      /\ \A s \in Servers, u \in Users :
           cache'[s][u] = IF s = req[c].via /\ (req[c].does # "assign" \/ u = req[c].user)
                            THEN NoEntry ELSE cache[s][u]
  BY <1>1 DEF CachesInv, CacheShapes
<1>4. CacheShapes'
  <2>1. \A l \in lost' : l = <<l[1], l[2], l[3]>> /\ l[3] \in Nat
    BY LostKeepsShape DEF CachesInv
  <2>2. \A d \in Calls : at'[d] = "member" =>
          read'[d] = [features |-> read'[d].features, role |-> read'[d].role, on |-> read'[d].on]
    BY <1>1, <1>2 DEF CachesInv, CacheShapes, Alone
  <2>3. \A s \in Servers, u \in Users :
          cache'[s][u] # NoEntry =>
            /\ cache'[s][u] = [caps |-> cache'[s][u].caps, left |-> cache'[s][u].left]
            /\ cache'[s][u].left \in 1..Ttl
    <3>1. \A s \in Servers, u \in Users : cache'[s][u] # NoEntry => cache'[s][u] = cache[s][u]
      BY <1>3
    <3> QED
      BY <3>1 DEF CachesInv, CacheShapes
  <2>4. read' = [d \in Calls |-> read'[d]]
    BY <1>1 DEF CachesInv, CacheShapes
  <2>5. cache' = [s \in Servers |-> [u \in Users |-> cache'[s][u]]]
    BY <1>3
  <2> HIDE <1>1
  <2> QED
    BY <2>1, <2>2, <2>3, <2>4, <2>5 DEF CacheShapes
<1>5. ASSUME NEW d \in Calls, NEW s \in Servers, NEW u \in Users PROVE GuardInv(d, s, u)'
  <2>1. CASE d = c
    BY <1>2, <2>1 DEF GuardInv, Reading
  <2>2. CASE d # c
    BY <1>1, <1>2, <2>2, OtherGuardsKeep DEF CachesInv
  <2> QED
    BY <2>1, <2>2
<1>6. ASSUME NEW s \in Servers, NEW u \in Users PROVE EntryInv(s, u)'
  <2>1. CASE s = req[c].via /\ (req[c].does # "assign" \/ u = req[c].user)
    <3>1. cache'[s][u] = NoEntry
      BY <1>3, <2>1
    <3> QED
      BY <3>1 DEF EntryInv
  <2>2. CASE ~(s = req[c].via /\ (req[c].does # "assign" \/ u = req[c].user))
    <3>1. cache'[s][u] = cache[s][u] /\ ~ Promised(c, s, u)
      BY <1>3, <2>2 DEF Promised
    <3> QED
      BY <1>2, <3>1, EntryStays DEF CachesInv
  <2> QED
    BY <2>1, <2>2
<1> QED
  BY <1>4, <1>5, <1>6 DEF CachesInv

\* A step of a guard moves no rows.
LEMMA GuardMoves ==
  ASSUME RowsInv, NEW c \in Calls, Guard(c)
  PROVE  /\ Alone(c) /\ at[c] \in Guarding /\ Requested(c)
         /\ (GuardHit(c) \/ Store(c)) => at'[c] \notin Guarding \cup {"audit"}
         /\ ReadCompany(c) => at'[c] = "member" /\ req'[c] = req[c]
         /\ ReadMember(c) => at'[c] = (IF MembersOf(req[c].who) = {} THEN "store" ELSE "overrides")
                             /\ req'[c] = req[c]
         /\ ReadOverrides(c) => at'[c] = "store" /\ req'[c] = req[c]
<1>1. /\ Shapes /\ at[c] \in Guarding /\ Requested(c)
  BY DEF Guard, GuardHit, ReadCompany, ReadMember, ReadOverrides, Store, Guarding, Active,
         RowsInv, CallsInv
<1>2. ASSUME NEW next \in Statements \cup Answers, Go(c, next)
      PROVE  /\ Alone(c)
             /\ next \in Answers => at'[c] = "done"
             /\ next \notin Answers => at'[c] = next /\ req'[c] = req[c]
  BY <1>1, <1>2, GotoEffect DEF Go
<1>3. {"member", "overrides", "store"} \subseteq Statements /\ {"member", "overrides", "store"} \cap Answers = {}
  BY DEF Statements, Guarding, Answers
<1>4. ASSUME GuardHit(c) \/ Store(c)
      PROVE  Alone(c) /\ at'[c] \notin Guarding \cup {"audit"}
  <2>1. PICK caps : Decide(c, caps)
    BY <1>4 DEF GuardHit, Store
  <2>2. req[c].next \in Answers \cup Beginnings
    BY <1>1 DEF Requested
  <2>3. PICK next \in Answers \cup Beginnings : Go(c, next)
    BY <2>1, <2>2 DEF Decide, Answers
  <2>4. next \in Statements \cup Answers /\ next \notin Guarding \cup {"audit"}
    BY DEF Statements, Writing, Beginnings, Assigning, Accepting, Answers, Guarding
  <2> QED
    BY <1>2, <2>3, <2>4 DEF Guarding
<1>5. ASSUME ReadCompany(c) PROVE Alone(c) /\ at'[c] = "member" /\ req'[c] = req[c]
  BY <1>2, <1>3, <1>5 DEF ReadCompany
<1>6. ASSUME ReadMember(c)
      PROVE  /\ Alone(c) /\ req'[c] = req[c]
             /\ at'[c] = IF MembersOf(req[c].who) = {} THEN "store" ELSE "overrides"
  <2>1. Go(c, IF MembersOf(req[c].who) = {} THEN "store" ELSE "overrides")
    BY <1>6 DEF ReadMember
  <2> QED
    BY <1>2, <1>3, <2>1
<1>7. ASSUME ReadOverrides(c) PROVE Alone(c) /\ at'[c] = "store" /\ req'[c] = req[c]
  BY <1>2, <1>3, <1>7 DEF ReadOverrides
<1> QED
  BY <1>1, <1>4, <1>5, <1>6, <1>7 DEF Guard

\* A guard that reads: what it has read is fresh, or its entry is excused.
LEMMA ReadsKeepCaches ==
  ASSUME RowsInv, CachesInv, NEW c \in Calls, RowsStay, Remember(c, FALSE),
         ReadCompany(c) \/ ReadMember(c) \/ ReadOverrides(c)
  PROVE  CachesInv'
<1>1. Alone(c) /\ req'[c] = req[c] /\ cache' = cache /\ MembersInv
  BY GuardMoves DEF Guard, ReadCompany, ReadMember, ReadOverrides, RowsInv
<1>2. at'[c] # "audit" /\ at[c] # "audit"
  BY GuardMoves DEF Guard, Guarding
<1>3. /\ read' = [d \in Calls |-> read'[d]]
      /\ \A d \in Calls \ {c} : read'[d] = read[d]
  BY DEF ReadCompany, ReadMember, ReadOverrides, CachesInv, CacheShapes
<1>4. \A u : Now(u)' = Now(u) /\ MembersOf(u)' = MembersOf(u)
  BY DEF RowsStay, Now, MembersOf, CompanyFeatures, Flagged
<1>5. member' = member /\ overrides' = overrides /\ CompanyFeatures' = CompanyFeatures
  BY DEF RowsStay, CompanyFeatures, Flagged
<1>6. CacheShapes'
  <2>1. \A l \in lost' : l = <<l[1], l[2], l[3]>> /\ l[3] \in Nat
    BY LostKeepsShape DEF CachesInv
  <2>2. ASSUME NEW d \in Calls, at'[d] = "member"
        PROVE  read'[d] = [features |-> read'[d].features, role |-> read'[d].role, on |-> read'[d].on]
    <3>1. CASE d = c
      <4>1. ReadCompany(c)
        BY <2>2, <3>1, GuardMoves DEF Guard
      <4>2. read'[c] = [features |-> CompanyFeatures, role |-> "none", on |-> c]
        BY <4>1 DEF ReadCompany, CachesInv, CacheShapes
      <4> QED
        BY <3>1, <4>2
    <3>2. CASE d # c
      BY <1>1, <1>3, <2>2, <3>2 DEF CachesInv, CacheShapes, Alone
    <3> QED
      BY <3>1, <3>2
  <2> QED
    BY <1>1, <1>3, <2>1, <2>2 DEF CachesInv, CacheShapes
<1>7. ASSUME NEW s \in Servers, NEW u \in Users, req[c].via = s, req[c].who = u
      PROVE  GuardInv(c, s, u)'
  <2>1. Remembered(c, FALSE, u)
    BY RememberEffect
  <2>2. ASSUME at[c] \in {"member", "overrides"}, <<s, u>> \in excused, at'[c] \in Reading
        PROVE  <<s, u>> \in excused'
    <3>1. Stands(s, u)'
      BY <1>1, <1>7, <2>2 DEF Stands, Filling, Reading
    <3> QED
      BY <2>1, <2>2, <3>1 DEF Remembered
  <2>3. ASSUME u \notin torn', at'[c] \in Reading PROVE u \notin torn
    <3>1. StandsSomewhere(u)'
      BY <1>1, <1>7, <2>3 DEF StandsSomewhere, Stands, Filling, Reading
    <3> QED
      BY <2>1, <2>3, <3>1 DEF Remembered
  <2>4. SUFFICES /\ Fresh(c, u)' \/ <<s, u>> \in excused'
                 /\ at'[c] \in Reading /\ u \notin torn' => Fresh(c, u)'
    <3>1. CASE at'[c] = "store"
      <4>1. Fresh(c, u)' => read'[c] = Now(u)'
        BY <3>1 DEF Fresh
      <4>2. Fresh(c, u)' => Atoms(read[c])' = Atoms(Now(u))'
        BY <4>1 DEF Atoms
      <4> QED
        BY <2>4, <3>1, <4>2 DEF GuardInv
    <3>2. CASE at'[c] # "store"
      BY <2>4, <3>2 DEF GuardInv
    <3> QED
      BY <3>1, <3>2
  <2>5. CASE ReadCompany(c)
    <3>1. at'[c] = "member" /\ read'[c] = [features |-> CompanyFeatures, role |-> "none", on |-> c]
      BY <2>5, GuardMoves DEF Guard, ReadCompany, CachesInv, CacheShapes
    <3>2. Fresh(c, u)'
      BY <1>5, <3>1 DEF Fresh
    <3> QED
      BY <3>2
  <2>6. CASE ReadMember(c)
    <3>1. at[c] = "member" /\ at[c] \in Reading
      BY <2>6 DEF ReadMember, Reading
    <3>2. ASSUME Fresh(c, u) PROVE Fresh(c, u)'
      <4>1. read[c].features = CompanyFeatures
        BY <3>1, <3>2 DEF Fresh
      <4>2. CASE MembersOf(u) = {}
        <5>1. at'[c] = "store" /\ read'[c] = Capabilities(read[c].features, "none", {})
          BY <1>7, <2>6, <4>2, GuardMoves DEF Guard, ReadMember, CachesInv, CacheShapes
        <5>2. read'[c] = Now(u)
          BY <4>1, <4>2, <5>1 DEF Now
        <5> QED
          BY <1>4, <5>1, <5>2 DEF Fresh
      <4>3. CASE MembersOf(u) # {}
        <5>1. PICK m \in MembersOf(u) :
                read' = [read EXCEPT ![c] = [@ EXCEPT !.role = member[m].role, !.on = m]]
          BY <1>7, <2>6, <4>3 DEF ReadMember
        <5>2. read[c] = [features |-> read[c].features, role |-> read[c].role, on |-> read[c].on]
          BY <3>1 DEF CachesInv, CacheShapes
        <5>3. /\ read'[c] = [read[c] EXCEPT !.role = member[m].role, !.on = m]
              /\ at'[c] = "overrides"
          BY <1>7, <2>6, <4>3, <5>1, GuardMoves DEF Guard, CachesInv, CacheShapes
        <5>4. read'[c].features = CompanyFeatures /\ read'[c].on = m /\ read'[c].role = member[m].role
          BY <4>1, <5>2, <5>3
        <5> QED
          BY <1>4, <1>5, <5>3, <5>4 DEF Fresh
      <4> QED
        BY <4>2, <4>3
    <3>3. GuardInv(c, s, u) /\ at'[c] \in Reading
      BY <2>6, GuardMoves DEF Guard, CachesInv, Reading
    <3> QED
      BY <1>7, <2>2, <2>3, <3>1, <3>2, <3>3 DEF GuardInv
  <2>7. CASE ReadOverrides(c)
    <3>1. at[c] = "overrides" /\ at[c] \in Reading /\ at'[c] = "store"
      BY <2>7, GuardMoves DEF Guard, ReadOverrides, Reading
    <3>2. ASSUME Fresh(c, u) PROVE Fresh(c, u)'
      <4>1. PICK m \in MembersOf(u) :
              read[c].features = CompanyFeatures /\ read[c].role = member[m].role /\ read[c].on = m
        BY <3>1, <3>2 DEF Fresh
      <4>2. read'[c] = Capabilities(CompanyFeatures, member[m].role, overrides[m])
        BY <2>7, <4>1 DEF ReadOverrides, CachesInv, CacheShapes
      <4>3. read'[c] = Now(u)
        BY <1>1, <4>2, NowIs
      <4> QED
        BY <1>4, <3>1, <4>3 DEF Fresh
    <3>3. GuardInv(c, s, u) /\ at'[c] \in Reading
      BY <3>1 DEF CachesInv, Reading
    <3> QED
      BY <1>7, <2>2, <2>3, <3>1, <3>2, <3>3 DEF GuardInv
  <2> QED
    BY <2>5, <2>6, <2>7
<1>8. ASSUME NEW d \in Calls, NEW s \in Servers, NEW u \in Users PROVE GuardInv(d, s, u)'
  <2>1. CASE d = c
    BY <1>1, <1>7, <2>1 DEF GuardInv
  <2>2. CASE d # c
    BY <1>1, <1>3, <2>2, OtherGuardsKeep DEF CachesInv
  <2> QED
    BY <2>1, <2>2
<1>9. ASSUME NEW s \in Servers, NEW u \in Users PROVE EntryInv(s, u)'
  BY <1>1, <1>2, EntryStays DEF CachesInv, Promised
<1> QED
  BY <1>6, <1>8, <1>9 DEF CachesInv

LEMMA HitKeepsCaches ==
  ASSUME RowsInv, CachesInv, NEW c \in Calls, Remember(c, FALSE), GuardHit(c)
  PROVE  CachesInv'
<1>1. Alone(c) /\ at[c] # "audit" /\ at'[c] # "audit" /\ at'[c] \notin Reading
  BY GuardMoves DEF Guard, Guarding, Reading
<1>2. cache' = cache /\ read' = read
  BY DEF GuardHit
<1>3. read' = [d \in Calls |-> read'[d]] /\ \A d \in Calls \ {c} : read'[d] = read[d]
  BY <1>2 DEF CachesInv, CacheShapes
<1> QED
  BY <1>1, <1>2, <1>3, StepKeepsCaches DEF Covered

\* What a guard stores.
LEMMA StoreKeepsCaches ==
  ASSUME RowsInv, CachesInv, NEW c \in Calls, RowsStay, Remember(c, FALSE), Store(c)
  PROVE  CachesInv'
<1>1. Alone(c) /\ at[c] = "store" /\ at'[c] # "audit" /\ at'[c] \notin Reading
  BY GuardMoves DEF Guard, Guarding, Reading, Store
<1>2. /\ read' = [d \in Calls |-> read'[d]]
      /\ \A d \in Calls \ {c} : read'[d] = read[d]
      /\ cache' = [cache EXCEPT ![req[c].via][req[c].who] = [caps |-> read[c], left |-> Ttl]]
  BY DEF Store, CachesInv, CacheShapes
<1>3. /\ cache' = [s \in Servers |-> [u \in Users |-> cache'[s][u]]]
      /\ \A s \in Servers, u \in Users :
           cache'[s][u] = IF s = req[c].via /\ u = req[c].who THEN [caps |-> read[c], left |-> Ttl]
                          ELSE cache[s][u]
  <2>1. cache = [s \in Servers |-> [u \in Users |-> cache[s][u]]]
    BY DEF CachesInv, CacheShapes
  <2>2. PICK v, w, x : v = req[c].via /\ w = req[c].who /\ x = [caps |-> read[c], left |-> Ttl]
    OBVIOUS
  <2>3. PICK f, g : f = cache /\ g = cache'
    OBVIOUS
  <2>4. g = [f EXCEPT ![v][w] = x]
    BY <1>2, <2>2, <2>3
  <2>5. f = [s \in Servers |-> [u \in Users |-> f[s][u]]]
    BY <2>1, <2>3
  <2>6. DOMAIN f = Servers /\ \A s \in Servers : f[s] = [u \in Users |-> f[s][u]]
    BY <2>5
  <2>7. g = [s \in Servers |-> IF s = v THEN [f[v] EXCEPT ![w] = x] ELSE f[s]]
    BY <2>4, <2>6
  <2> HIDE <2>4, <2>5
  <2>8. ASSUME NEW s \in Servers
        PROVE  /\ g[s] = [u \in Users |-> g[s][u]]
               /\ \A u \in Users : g[s][u] = IF s = v /\ u = w THEN x ELSE f[s][u]
    <3>1. CASE s # v
      <4>1. g[s] = f[s]
        BY <2>7, <3>1
      <4> QED
        BY <2>6, <3>1, <4>1
    <3>2. CASE s = v
      <4>1. g[s] = [f[s] EXCEPT ![w] = x] /\ f[s] = [u \in Users |-> f[s][u]]
        BY <2>6, <2>7, <3>2
      <4>2. g[s] = [u \in Users |-> IF u = w THEN x ELSE f[s][u]]
        BY <4>1
      <4> QED
        BY <3>2, <4>2
    <3> QED
      BY <3>1, <3>2
  <2>9. g = [s \in Servers |-> g[s]]
    BY <2>7
  <2>10. g = [s \in Servers |-> [u \in Users |-> g[s][u]]]
    BY <2>8, <2>9
  <2> QED
    BY <2>2, <2>3, <2>8, <2>10
<1>4. \A u : Now(u)' = Now(u)
  BY DEF RowsStay, Now, MembersOf, CompanyFeatures, Flagged
<1>5. CacheShapes'
  <2>1. \A l \in lost' : l = <<l[1], l[2], l[3]>> /\ l[3] \in Nat
    BY LostKeepsShape DEF CachesInv
  <2>2. \A d \in Calls : at'[d] = "member" =>
          read'[d] = [features |-> read'[d].features, role |-> read'[d].role, on |-> read'[d].on]
    BY <1>1, <1>2 DEF CachesInv, CacheShapes, Alone, Reading
  <2>3. ASSUME NEW s \in Servers, NEW u \in Users, cache'[s][u] # NoEntry
        PROVE  /\ cache'[s][u] = [caps |-> cache'[s][u].caps, left |-> cache'[s][u].left]
               /\ cache'[s][u].left \in 1..Ttl
    <3>1. CASE s = req[c].via /\ u = req[c].who
      <4>1. cache'[s][u] = [caps |-> read[c], left |-> Ttl]
        BY <1>3, <3>1
      <4> QED
        BY <4>1, AccessAssumption
    <3>2. CASE ~(s = req[c].via /\ u = req[c].who)
      <4>1. cache'[s][u] = cache[s][u]
        BY <1>3, <3>2
      <4> QED
        BY <2>3, <4>1 DEF CachesInv, CacheShapes
    <3> QED
      BY <3>1, <3>2
  <2> HIDE <1>2
  <2>4. read' = [d \in Calls |-> read'[d]] /\ cache' = [s \in Servers |-> [u \in Users |-> cache'[s][u]]]
    BY <1>2, <1>3
  <2> QED
    BY <2>1, <2>2, <2>3, <2>4 DEF CacheShapes
<1>6. ASSUME NEW d \in Calls, NEW s \in Servers, NEW u \in Users PROVE GuardInv(d, s, u)'
  <2>1. CASE d = c
    BY <1>1, <2>1 DEF GuardInv
  <2>2. CASE d # c
    BY <1>1, <1>2, <2>2, OtherGuardsKeep DEF CachesInv
  <2> QED
    BY <2>1, <2>2
<1>7. ASSUME NEW s \in Servers, NEW u \in Users PROVE EntryInv(s, u)'
  <2>1. CASE ~(s = req[c].via /\ u = req[c].who)
    <3>1. cache'[s][u] = cache[s][u]
      BY <1>3, <2>1
    <3> QED
      BY <1>1, <3>1, EntryStays DEF CachesInv, Promised
  <2>2. CASE s = req[c].via /\ u = req[c].who
    <3> SUFFICES ASSUME cache'[s][u] # NoEntry PROVE EntryInv(s, u)'
      BY DEF EntryInv
    <3>1. cache'[s][u].caps = read[c] /\ cache'[s][u].left = Ttl
      BY <1>3, <2>2
    <3>2. GuardInv(c, s, u) /\ at[c] \in Reading /\ req[c].via = s /\ req[c].who = u
      BY <1>1, <2>2 DEF CachesInv, Reading
    <3>3. Stands(s, u)' /\ StandsSomewhere(u)'
      BY DEF Stands, StandsSomewhere
    <3>4. Remembered(c, FALSE, u)
      BY RememberEffect
    <3>5. cache'[s][u].caps = Now(u)' \/ <<s, u>> \in excused'
      <4>1. Fresh(c, u) => read[c] = Now(u)
        BY <1>1 DEF Fresh
      <4>2. <<s, u>> \in excused => <<s, u>> \in excused'
        BY <3>3, <3>4 DEF Remembered
      <4> QED
        BY <1>4, <3>1, <3>2, <4>1, <4>2 DEF GuardInv
    <3>6. ASSUME u \notin torn', NEW a \in Atoms(read[c]) \ Atoms(Now(u))
          PROVE  \E l \in lost' : l[1] = u /\ l[2] = a /\ l[3] + Ttl <= Ttl
      <4>1. u \notin torn
        BY <3>3, <3>4, <3>6 DEF Remembered
      <4>2. <<u, a, 0>> \in lost
        BY <1>1, <3>2, <3>6, <4>1 DEF GuardInv
      <4>3. PICK l : l = <<u, a, 0>>
        OBVIOUS
      <4>4. l \in lost' /\ l[1] = u /\ l[2] = a /\ l[3] = 0
        BY <1>4, <3>3, <3>4, <4>2, <4>3 DEF Remembered
      <4>5. 0 + Ttl <= Ttl
        BY AccessAssumption
      <4> QED
        BY <4>4, <4>5
    <3>7. Atoms(cache[s][u].caps)' = Atoms(read[c]) /\ Atoms(Now(u))' = Atoms(Now(u))
      BY <1>4, <3>1 DEF Atoms
    <3> QED
      BY <3>1, <3>5, <3>6, <3>7 DEF EntryInv
  <2> QED
    BY <2>1, <2>2
<1> QED
  BY <1>5, <1>6, <1>7 DEF CachesInv

\* A tick ages the entries and what is known to be lost together.
LEMMA TickKeepsCaches ==
  ASSUME RowsInv, CachesInv, Tick
  PROVE  CachesInv'
<1>1. /\ \A s \in Servers, u \in Users : ~ Filling(s, u)
      /\ cache' = [s \in Servers |-> [u \in Users |->
           IF cache[s][u] = NoEntry \/ cache[s][u].left = 1 THEN NoEntry
           ELSE [cache[s][u] EXCEPT !.left = @ - 1]]]
      /\ UNCHANGED <<plan, flags, member, overrides, req, at, snap, read>>
      /\ lost' = {<<l[1], l[2], l[3] + 1>> :
                    l \in {k \in lost : k[3] < Ttl /\ StandsSomewhere(k[1])'}}
      /\ excused' = {p \in excused : Stands(p[1], p[2])'}
      /\ torn' = {u \in torn : StandsSomewhere(u)'}
  BY DEF Tick
<1>2. /\ \A s \in Servers, u \in Users : cache[s][u] # NoEntry =>
           /\ cache[s][u] = [caps |-> cache[s][u].caps, left |-> cache[s][u].left]
           /\ cache[s][u].left \in 1..Ttl
      /\ \A l \in lost : l = <<l[1], l[2], l[3]>> /\ l[3] \in Nat
  BY DEF CachesInv, CacheShapes
<1>3. ASSUME NEW s \in Servers, NEW u \in Users, cache'[s][u] # NoEntry
      PROVE  /\ cache[s][u] # NoEntry /\ cache[s][u].left \in 2..Ttl
             /\ cache'[s][u] = [caps |-> cache[s][u].caps, left |-> cache[s][u].left - 1]
             /\ cache'[s][u].left \in 1..Ttl
             /\ cache'[s][u].caps = cache[s][u].caps
             /\ cache'[s][u].left = cache[s][u].left - 1
  <2>1. /\ cache[s][u] # NoEntry /\ cache[s][u].left # 1
        /\ cache'[s][u] = [cache[s][u] EXCEPT !.left = @ - 1]
    BY <1>1, <1>3
  <2>2. cache[s][u].left \in 2..Ttl
    <3>1. PICK n : n = cache[s][u].left
      OBVIOUS
    <3>2. n \in 1..Ttl /\ n # 1
      BY <1>2, <2>1, <3>1
    <3>3. n \in 2..Ttl
      BY <3>2, AccessAssumption
    <3> QED
      BY <3>1, <3>3
  <2>3. PICK e : e = cache[s][u]
    OBVIOUS
  <2>4. e = [caps |-> e.caps, left |-> e.left]
    BY <1>2, <2>1, <2>3
  <2>5. [e EXCEPT !.left = @ - 1] = [caps |-> e.caps, left |-> e.left - 1]
    BY <2>4
  <2> QED
    BY <2>1, <2>2, <2>3, <2>5, AccessAssumption
<1>4. \A u : Now(u)' = Now(u)
  BY <1>1 DEF Now, MembersOf, CompanyFeatures, Flagged
<1>5. CacheShapes'
  <2>1. cache' = [s \in Servers |-> [u \in Users |-> cache'[s][u]]]
    BY <1>1
  <2>2. \A l \in lost' : l = <<l[1], l[2], l[3]>> /\ l[3] \in Nat
    BY <1>1, <1>2
  <2>3. /\ read' = [d \in Calls |-> read'[d]]
        /\ \A d \in Calls : at'[d] = "member" =>
             read'[d] = [features |-> read'[d].features, role |-> read'[d].role, on |-> read'[d].on]
    BY <1>1 DEF CachesInv, CacheShapes
  <2>4. \A s \in Servers, u \in Users :
          cache'[s][u] # NoEntry =>
            /\ cache'[s][u] = [caps |-> cache'[s][u].caps, left |-> cache'[s][u].left]
            /\ cache'[s][u].left \in 1..Ttl
    <3> TAKE s \in Servers, u \in Users
    <3> HAVE cache'[s][u] # NoEntry
    <3>1. /\ cache'[s][u] = [caps |-> cache[s][u].caps, left |-> cache[s][u].left - 1]
          /\ cache'[s][u].left \in 1..Ttl
      BY <1>3
    <3> QED
      BY <3>1
  <2> HIDE <1>1
  <2> QED
    BY <2>1, <2>2, <2>3, <2>4 DEF CacheShapes
<1>6. ASSUME NEW d \in Calls, NEW s \in Servers, NEW u \in Users PROVE GuardInv(d, s, u)'
  BY <1>1 DEF GuardInv, Filling, Reading
<1>7. ASSUME NEW s \in Servers, NEW u \in Users PROVE EntryInv(s, u)'
  <2> SUFFICES ASSUME cache'[s][u] # NoEntry PROVE EntryInv(s, u)'
    BY DEF EntryInv
  <2>1. Stands(s, u)' /\ StandsSomewhere(u)'
    BY DEF Stands, StandsSomewhere
  <2>2. /\ cache'[s][u].caps = Now(u)' \/ <<s, u>> \in excused' \/ \E d \in Calls : Promised(d, s, u)'
    BY <1>1, <1>3, <1>4, <2>1 DEF CachesInv, EntryInv, Promised
  <2>3. ASSUME u \notin torn', NEW a \in Atoms(cache[s][u].caps) \ Atoms(Now(u))
        PROVE  \E l \in lost' : l[1] = u /\ l[2] = a /\ l[3] + cache'[s][u].left <= Ttl
    <3>1. u \notin torn
      BY <1>1, <2>1, <2>3
    <3>2. PICK l \in lost : l[1] = u /\ l[2] = a /\ l[3] + cache[s][u].left <= Ttl
      <4>1. EntryInv(s, u) /\ cache[s][u] # NoEntry
        BY <1>3 DEF CachesInv
      <4> QED
        BY <2>3, <3>1, <4>1 DEF EntryInv
    <3> PICK n : n = cache[s][u].left
      OBVIOUS
    <3> PICK j : j = l[3]
      OBVIOUS
    <3>3. j \in Nat /\ n \in 2..Ttl /\ j + n <= Ttl /\ cache'[s][u].left = n - 1
      BY <1>2, <1>3, <3>2
    <3>8. j < Ttl /\ j + 1 + (n - 1) <= Ttl
      BY <3>3, AccessAssumption
    <3>4. PICK k : k = <<l[1], l[2], l[3] + 1>>
      OBVIOUS
    <3>5. k \in lost'
      BY <1>1, <2>1, <3>2, <3>8, <3>4
    <3>6. k[1] = u /\ k[2] = a /\ k[3] = j + 1
      BY <3>2, <3>4
    <3> QED
      BY <3>3, <3>5, <3>6, <3>8
  <2>4. Atoms(cache[s][u].caps)' = Atoms(cache[s][u].caps) /\ Atoms(Now(u))' = Atoms(Now(u))
    BY <1>3, <1>4 DEF Atoms
  <2> QED
    BY <2>2, <2>3, <2>4 DEF EntryInv
<1> QED
  BY <1>5, <1>6, <1>7 DEF CachesInv

LEMMA CachesInit == Init => CachesInv
<1> SUFFICES ASSUME Init PROVE CachesInv
  OBVIOUS
<1>1. /\ at = [c \in Calls |-> "idle"] /\ read = [c \in Calls |-> NoRead] /\ lost = {}
  BY DEF Init
<1>2. PICK full :
        cache = [s \in Servers |-> [u \in Users |->
                   IF u \in full THEN [caps |-> Now(u), left |-> Ttl] ELSE NoEntry]]
  BY DEF Init
<1>3. ASSUME NEW s \in Servers, NEW u \in Users, cache[s][u] # NoEntry
      PROVE  cache[s][u] = [caps |-> Now(u), left |-> Ttl]
  BY <1>2, <1>3
<1>4. cache = [s \in Servers |-> [u \in Users |-> cache[s][u]]]
  BY <1>2
<1> HIDE <1>2
<1>5. CacheShapes
  <2>1. Ttl \in 1..Ttl
    BY AccessAssumption
  <2> QED
    <3>1. \A s \in Servers, u \in Users :
            cache[s][u] # NoEntry =>
              /\ cache[s][u] = [caps |-> cache[s][u].caps, left |-> cache[s][u].left]
              /\ cache[s][u].left \in 1..Ttl
      <4> TAKE s \in Servers, u \in Users
      <4> HAVE cache[s][u] # NoEntry
      <4>1. cache[s][u] = [caps |-> Now(u), left |-> Ttl]
        BY <1>3
      <4> QED
        BY <2>1, <4>1
    <3>2. /\ read = [c \in Calls |-> read[c]] /\ lost = {}
          /\ \A c \in Calls : at[c] # "member"
      BY <1>1
    <3> QED
      BY <1>4, <3>1, <3>2 DEF CacheShapes
<1>6. \A c \in Calls, s \in Servers, u \in Users : GuardInv(c, s, u)
  BY <1>1 DEF GuardInv, Reading
<1>7. ASSUME NEW s \in Servers, NEW u \in Users PROVE EntryInv(s, u)
  <2>1. cache[s][u] # NoEntry => cache[s][u].caps = Now(u)
    <3> SUFFICES ASSUME cache[s][u] # NoEntry PROVE cache[s][u].caps = Now(u)
      OBVIOUS
    <3>1. PICK now : now = Now(u)
      OBVIOUS
    <3>2. cache[s][u] = [caps |-> now, left |-> Ttl]
      BY <1>3, <3>1
    <3> QED
      BY <3>1, <3>2
  <2>2. cache[s][u] # NoEntry => Atoms(cache[s][u].caps) = Atoms(Now(u))
    BY <2>1
  <2> QED
    BY <2>1, <2>2 DEF EntryInv
<1> QED
  BY <1>5, <1>6, <1>7 DEF CachesInv

LEMMA CachesNext == IInv /\ [Next]_vars => CachesInv'
<1> SUFFICES ASSUME RowsInv, CachesInv, [Next]_vars PROVE CachesInv'
  BY DEF IInv
<1>1. CASE UNCHANGED vars
  <2>1. UNCHANGED <<plan, flags, member, overrides, req, at, cache, read, lost, excused, torn>>
    BY <1>1 DEF vars, memberVars, rowVars, callVars, historyVars
  <2>2. \A u : Now(u)' = Now(u) /\ MembersOf(u)' = MembersOf(u)
    BY <2>1 DEF Now, MembersOf, CompanyFeatures, Flagged
  <2>3. CompanyFeatures' = CompanyFeatures
    BY <2>1 DEF CompanyFeatures, Flagged
  <2>4. CacheShapes'
    BY <2>1 DEF CachesInv, CacheShapes
  <2>5. ASSUME NEW c \in Calls, NEW s \in Servers, NEW u \in Users PROVE GuardInv(c, s, u)'
    <3>1. GuardInv(c, s, u)
      BY DEF CachesInv
    <3>2. Fresh(c, u)' = Fresh(c, u)
      BY <2>1, <2>2, <2>3 DEF Fresh
    <3>3. Atoms(read[c])' = Atoms(read[c]) /\ Atoms(Now(u))' = Atoms(Now(u))
      BY <2>1, <2>2 DEF Atoms
    <3> QED
      BY <2>1, <3>1, <3>2, <3>3 DEF GuardInv
  <2>6. ASSUME NEW s \in Servers, NEW u \in Users PROVE EntryInv(s, u)'
    <3>1. EntryInv(s, u)
      BY DEF CachesInv
    <3>2. Atoms(cache[s][u].caps)' = Atoms(cache[s][u].caps) /\ Atoms(Now(u))' = Atoms(Now(u))
      BY <2>1, <2>2 DEF Atoms
    <3> QED
      BY <2>1, <2>2, <3>1, <3>2 DEF EntryInv, Promised
  <2> QED
    BY <2>4, <2>5, <2>6 DEF CachesInv
<1>2. CASE Tick /\ UNCHANGED <<invite, tenant, lock, admitted, raced>>
  BY <1>2, TickKeepsCaches
<1>3. ASSUME NEW c \in Calls, Ordinary(c), cache' = cache, read' = read, Remember(c, FALSE)
      PROVE  CachesInv'
  <2>1. read' = [d \in Calls |-> read'[d]] /\ \A d \in Calls \ {c} : read'[d] = read[d]
    BY <1>3 DEF CachesInv, CacheShapes
  <2> QED
    BY <1>3, <2>1, StepKeepsCaches DEF Ordinary
<1>4. ASSUME NEW c \in Calls, Step(c), Remember(c, FALSE) PROVE CachesInv'
  <2>1. CASE Continue(c) /\ UNCHANGED <<flags, cache, read>>
    BY <1>3, <1>4, <2>1, ContinueIsOrdinary
  <2>2. CASE at[c] = "idle" /\ (\E r \in Menu : Ask(c, r)) /\ UNCHANGED <<flags, cache, read>>
    BY <1>3, <1>4, <2>2, AskIsOrdinary
  <2>3. CASE (Guard(c) \/ AuditChange(c)) /\ UNCHANGED <<rowVars, flags, lock, admitted, raced>>
    <3>1. RowsStay
      BY <2>3 DEF rowVars, RowsStay
    <3> QED
      BY <1>4, <2>3, <3>1, AuditKeepsCaches, HitKeepsCaches, StoreKeepsCaches, ReadsKeepCaches DEF Guard
  <2>4. CASE /\ WriteFlag(c) \/ SetPlan(c)
             /\ UNCHANGED <<member, invite, overrides, tenant, lock, admitted, raced, cache, read>>
    BY <1>3, <1>4, <2>4, PlatformIsOrdinary
  <2>5. CASE /\ at[c] = "idle" /\ \E r \in Menu : AskToggle(c, r) \/ AskPlan(c, r)
             /\ UNCHANGED <<member, invite, overrides, tenant, lock, admitted, raced, cache, read>>
    BY <1>3, <1>4, <2>5, AskIsOrdinary
  <2> QED
    BY <1>4, <2>1, <2>2, <2>3, <2>4, <2>5 DEF Step
<1>5. ASSUME NEW c \in Calls, Fail(c), Remember(c, TRUE) PROVE CachesInv'
  <2>1. /\ Go(c, "failed") /\ Active(c) /\ cache' = cache
        /\ read' = [read EXCEPT ![c] = NoRead]
    BY <1>5 DEF Fail, Active
  <2>2. Alone(c) /\ at'[c] = "done"
    BY <2>1, GoWrites DEF Go, Answers
  <2>3. read' = [d \in Calls |-> read'[d]] /\ \A d \in Calls \ {c} : read'[d] = read[d]
    BY <2>1 DEF CachesInv, CacheShapes
  <2> QED
    BY <1>5, <2>1, <2>2, <2>3, StepKeepsCaches DEF Covered, Reading
<1> QED
  BY <1>1, <1>2, <1>4, <1>5 DEF Next

-----------------------------------------------------------------------------
(* Theorems.                                                               *)

\* The inductive invariant: what each call has checked of the rows, and how far
\* each guard and each entry may be behind them.
THEOREM TenancyInvariant == Spec => []IInv
<1>1. Init => IInv
  BY RowsInit, CachesInit DEF IInv
<1>2. IInv /\ [Next]_vars => IInv'
  BY RowsNext, CachesNext DEF IInv
<1> QED
  BY <1>1, <1>2, PTL DEF Spec

\* An invitation lets in one member, and only if it is marked accepted, however
\* acceptances and revocations interleave, unless it changed between its lookup
\* and the transaction's last statement (acceptInvitationByCode).
THEOREM InvitationsLetOneMemberIn == Spec => []InvitationsAreSpentOnce
<1>1. IInv => InvitationsAreSpentOnce
  BY DEF IInv, RowsInv, InvitesInv
<1> QED
  BY <1>1, TenancyInvariant, PTL

\* A member's overrides come from one assignment, unless two assignments to the
\* member overlapped (AccessRepository.assignMemberPermissions).
THEOREM AssignmentsReplaceAllOverrides == Spec => []OverridesAreOneSet
<1>1. IInv => OverridesAreOneSet
  BY DEF IInv, RowsInv, OverridesInv, OverridesAreOneSet
<1> QED
  BY <1>1, TenancyInvariant, PTL

\* A cached set is at most Ttl ticks behind the rows (capability-cache.ts),
\* except for a user whose rows changed while one resolution was reading them.
THEOREM CachedSetsAreAtMostTtlOld == Spec => []StaleAtMostTtl
<1>1. IInv => StaleAtMostTtl
  BY DEF IInv, CachesInv, EntryInv, StaleAtMostTtl
<1> QED
  BY <1>1, TenancyInvariant, PTL

\* A cached set agrees with the rows, but for the changes that the code does not
\* invalidate in this process and those whose invalidation is still to come.
THEOREM InvalidationsKeepTheCache == Spec => []CacheAgreesUnlessBehind
<1>1. IInv => CacheAgreesUnlessBehind
  BY DEF IInv, CachesInv, EntryInv, Promised, CacheAgreesUnlessBehind
<1> QED
  BY <1>1, TenancyInvariant, PTL

\* The types of the rows, and one membership per user.
THEOREM TenancyTypeCorrect == Spec => []TypeOK
<1>1. IInv => TypeOK
  <2> SUFFICES ASSUME IInv PROVE TypeOK
    OBVIOUS
  <2>1. /\ plan \in Plans \cup {"none"}
        /\ flags \subseteq Features \X {"on", "off"}
        /\ member \in [Ids -> MemberRow \cup {NoMember}]
        /\ tenant \subseteq Users
        /\ lock \in [Ids -> Calls \cup {NoCall}]
    BY DEF IInv, RowsInv, Shapes
  <2>2. \A i \in Ids : invite[i] = NoInvite \/ invite[i] \in InviteRow
    BY DEF IInv, RowsInv, Shapes
  <2>3. \A m \in Ids : overrides[m] \subseteq Permissions \X BOOLEAN \X Ids
    BY DEF IInv, RowsInv, Shapes
  <2>4. \A s \in Servers, u \in Users : cache[s][u] = NoEntry \/ cache[s][u].left \in 1..Ttl
    BY DEF IInv, CachesInv, CacheShapes
  <2>5. ASSUME NEW u \in Users PROVE Cardinality(MembersOf(u)) <= 1
    <3>1. CASE MembersOf(u) = {}
      BY <3>1, FS_EmptySet
    <3>2. CASE MembersOf(u) # {}
      <4>1. PICK m : m \in MembersOf(u)
        BY <3>2
      <4>2. MembersOf(u) = {m}
        BY <4>1 DEF IInv, RowsInv, MembersInv, MembersOf
      <4>3. Cardinality({m}) = 1
        BY FS_Singleton
      <4> QED
        BY <4>2, <4>3
    <3> QED
      BY <3>1, <3>2
  <2> QED
    BY <2>1, <2>2, <2>3, <2>4, <2>5 DEF TypeOK
<1> QED
  BY <1>1, TenancyInvariant, PTL

\* Only a removal takes a member away.
LEMMA MembersLeaveByRemoval ==
  ASSUME RowsInv, [Next]_vars, NEW m \in Ids, member[m] # NoMember, member'[m] = NoMember
  PROVE  \E c \in Calls : DeleteMember(c) /\ req[c].on = m
<1>1. member' # member
  OBVIOUS
<1>2. PICK c \in Calls : Continue(c) /\ flags' = flags
  BY <1>1 DEF Next, Step, Fail, Tick, WriteFlag, SetPlan, Ask, AskCreate, SwitchCompany, AskInvite,
              AskRevoke, AcceptInvitation, AskRemove, AskAssign, AskUse, NoRowChanges, rowVars,
              vars, memberVars
<1>3. /\ Shapes /\ MembersInv
      /\ Active(c) => Requested(c)
      /\ \A row \in MemberRow : row # NoMember
  BY TenancyAssumption DEF RowsInv, CallsInv
<1>4. CASE DeleteMember(c)
  <2>1. PICK k : k = req[c].on
    OBVIOUS
  <2>2. member' = [member EXCEPT ![k] = NoMember]
    BY <1>1, <1>4, <2>1 DEF DeleteMember
  <2>3. k = m
    BY <1>3, <2>2 DEF Shapes
  <2> QED
    BY <1>4, <2>1, <2>3
<1>5. CASE CreateCompany(c)
  <2>1. member' = [member EXCEPT ![c] = [user |-> req[c].who, role |-> "owner"]] /\ plan = "none"
    BY <1>1, <1>5 DEF CreateCompany
  <2> QED
    BY <1>3, <2>1 DEF MembersInv
<1>6. CASE MarkAccepted(c)
  <2>1. Active(c) /\ at[c] = "mark" /\ Requested(c)
    BY <1>3, <1>6 DEF MarkAccepted, Active
  <2>2. req[c].who \in Users /\ invite[req[c].on] \in InviteRow
    <3>1. req[c].does = "accept"
      BY <2>1 DEF Requested, Fits, Accepting, Guarding
    <3> QED
      BY <1>3, <2>1, <3>1 DEF Requested, WellFormed, Shapes
  <2>3. [user |-> req[c].who, role |-> invite[req[c].on].role] \in MemberRow
    BY <2>2 DEF MemberRow, InviteRow
  <2>4. PICK row \in MemberRow : member' = [member EXCEPT ![c] = row]
    BY <1>6, <2>3 DEF MarkAccepted, LetIn
  <2> QED
    BY <1>3, <2>4 DEF Shapes
<1>7. CASE CreateOverrides(c) \/ AssignRoleOnly(c)
  <2>1. PICK rows, keep :
          /\ CommitAssign(c, rows, keep)
          /\ keep \subseteq overrides[req[c].on]
          /\ (at[c] = "create" /\ rows = NewRows(c)) \/ (at[c] = "commit" /\ rows = {})
    BY <1>1, <1>7 DEF CreateOverrides, AssignRoleOnly, rowVars
  <2>2. PICK k : k = req[c].on
    OBVIOUS
  <2>3. /\ \A j \in Ids \ {k} : member'[j] = member[j]
        /\ member[k] # NoMember => member'[k] # NoMember
    BY <2>1, <2>2, CommitEffect
  <2> QED
    BY <2>3
<1> QED
  BY <1>1, <1>2, <1>4, <1>5, <1>6, <1>7
     DEF Continue, AssertActiveTenant, Reissue, ResolveCustomPermissionKeys, CreateInvitation,
         RevokeInvitation, ReadExisting, Join, FindToRemove, CountOwners, FindToAssign, UpdateRole,
         SeeOverrides, ClearOverrides, NoRowChanges, rowVars

\* "Cannot remove the company's last owner" (TenancyService.removeMember): no
\* removal does, unless an owner's row was written between the count and the
\* delete of another.
THEOREM RemovalsLeaveAnOwner == Spec => RemovalLeavesAnOwnerUnlessRaced
<1>1. ASSUME IInv, [Next]_vars, Owners # {}, Owners' = {}, "owner" \notin raced',
             NEW m \in Ids, member[m] # NoMember
      PROVE  member'[m] # NoMember
  <2> SUFFICES ASSUME member'[m] = NoMember PROVE FALSE
    OBVIOUS
  <2>1. RowsInv
    BY <1>1 DEF IInv
  <2>2. PICK c \in Calls : DeleteMember(c) /\ req[c].on = m
    BY <1>1, <2>1, MembersLeaveByRemoval
  <2>3. member' = [member EXCEPT ![m] = NoMember] /\ "owner" \notin raced /\ at[c] = "delete"
    BY <1>1, <2>2 DEF DeleteMember
  <2>4. \A o \in Owners : o # m => o \in Owners'
    BY <2>1, <2>3 DEF Owners, RowsInv, Shapes
  <2>5. m \in Owners
    BY <1>1, <2>4
  <2>6. \E o \in Owners : o # m
    BY <2>1, <2>2, <2>3, <2>5 DEF RowsInv, OwnersInv
  <2> QED
    BY <1>1, <2>4, <2>6
<1>2. IInv /\ [Next]_vars =>
        [Owners # {} /\ Owners' = {} /\ "owner" \notin raced'
           => \A m \in Ids : member[m] # NoMember => member'[m] # NoMember]_vars
  BY <1>1
<1> QED
  BY <1>2, TenancyInvariant, PTL DEF Spec, RemovalLeavesAnOwnerUnlessRaced

-----------------------------------------------------------------------------
(* The inductive invariant of the books.                                   *)

\* The writes that assert a period and insert a row of their own.
DatedOps == {"expense", "invoice", "refund", "reconcile"}
InsertOps == DatedOps \cup {"payment"}

\* Where a write is while it asserts its periods.
Asserts == {"assert", "touch", "insertPeriod", "open"}
Working == Asserts \cup {"edit", "resolve", "rate", "number", "insert", "written"}

\* Every step belongs to the requests that take it.
BooksStageFits(c) ==
  /\ pc[c] \in Asserts => asked[c].op \in DatedOps \cup {"editExpense"}
  /\ pc[c] = "edit" => asked[c].op = "editExpense"
  /\ pc[c] = "resolve" => asked[c].op \in DatedOps \ {"expense"}
  /\ pc[c] \in {"rate", "number"} => asked[c].op = "invoice"
  /\ pc[c] = "insert" => asked[c].op \in InsertOps
  /\ pc[c] \in {"gaps", "close"} => asked[c].op = "close"
  /\ pc[c] = "written" => asked[c].op \in InsertOps \cup {"editExpense", "close"}

\* A write holds on to the periods it has asserted, the one of an edit's new date among them.
DatesStand(c) ==
  /\ pc[c] = "idle" => dated[c] = <<>>
  /\ pc[c] \in Working /\ asked[c].op \in DatedOps \cup {"editExpense"} => dated[c] # <<>>
  /\ asked[c].op = "editExpense" /\ asked[c].day # Absent
       /\ (pc[c] = "edit" \/ (pc[c] \in Asserts /\ Len(dated[c]) # 1))
       => asked[c].day \in Range(dated[c])

\* The places of the periods found not closed, and of those that have a row by now.
Looked(c) == IF pc[c] = "assert" THEN 1..(Len(dated[c]) - 1) ELSE 1..Len(dated[c])
Ensured(c) ==
  IF pc[c] \in {"assert", "touch", "insertPeriod"} THEN 1..(Len(dated[c]) - 1)
                                                   ELSE 1..Len(dated[c])

\* What was asserted is so, or a close has come in between.
AssertionsStand(c) ==
  /\ \A i \in Looked(c) : period[dated[c][i]] = "closed" => dated[c][i] \in closedSince[c]
  /\ \A i \in Ensured(c) :
       period[dated[c][i]] # "absent" \/ periodLock[dated[c][i]] = c

\* A VAT amount is the exact one rounded half up, at a rate the company has set.
VatFits(row) == Rounded(row.vat, ExactVat(row.amount, row.bps)) /\ row.bps \in Rates

\* The row about to be committed is the request's own, dated in what it has asserted.
DraftFits(c) ==
  /\ pc[c] = "number" \/ (pc[c] = "insert" /\ asked[c].op = "invoice") =>
       draft[c] \in InvoiceTotals /\ VatFits(draft[c])
  /\ pc[c] = "insert" /\ asked[c].op = "reconcile" => EveryLineHasAParcel(c)
  /\ pc[c] = "written" /\ asked[c].op \in InsertOps =>
       draft[c] \in Row /\ draft[c].kind = asked[c].op
  /\ pc[c] = "written" /\ asked[c].op \in DatedOps /\ c \notin astray =>
       draft[c].period \in Range(dated[c])

\* An edit's expense is there, and stays as it is once the edit holds its row.
EditFits(c) ==
  LET target == asked[c].target IN
  asked[c].op = "editExpense" =>
    /\ pc[c] \in Working => book[target].kind = "expense"
    /\ pc[c] = "written" =>
         /\ rowLock[target] = c /\ draft[c] \in Row /\ draft[c].kind = "expense"
         /\ draft[c].period \in {book[target].period} \cup Range(dated[c])
         /\ c \notin astray => book[target].period \in Range(dated[c])

\* A row in the books is of a request that is done.
BookedIsDone(c) == book[c] # NoRow => pc[c] = "done" /\ book[c].kind = asked[c].op

\* The sequence's row is locked from the number on, and stands one above the last invoice.
NumberHeld(c) ==
  asked[c].op = "invoice" =>
    /\ pc[c] \in {"insert", "written"} => numberLock = c
    /\ pc[c] = "written" => draft[c].number = nextNumber /\ VatFits(draft[c])

Invoices == {c \in Clients : book[c].kind = "invoice"}

InvoicesAreNumbered ==
  /\ rate \in Rates
  /\ IsFiniteSet(Invoices) /\ nextNumber = Cardinality(Invoices) + 1
  /\ {book[c].number : c \in Invoices} = 1..Cardinality(Invoices)
  /\ \A c \in Invoices : VatFits(book[c])

\* A close past its gap check leaves no month open below it but a late one.
ClosesFit ==
  /\ \A c \in Clients : asked[c].op = "close" /\ pc[c] \in {"close", "written"} =>
       \A p \in PeriodKeys : p < asked[c].day /\ period[p] = "open" => p \in late
  /\ GapsAreLateActivity

RequestFits(c) ==
  /\ BooksStageFits(c) /\ DatesStand(c) /\ AssertionsStand(c)
  /\ DraftFits(c) /\ EditFits(c) /\ BookedIsDone(c) /\ NumberHeld(c)

BooksInv ==
  /\ BooksTypes
  /\ \A c \in Clients : RequestFits(c)
  /\ InvoicesAreNumbered
  /\ ClosesFit

-----------------------------------------------------------------------------
(* Rows and requests.                                                      *)

RowOps == {"expense", "payment", "refund", "reconcile", "invoice"}

\* What every row of the books has.
LEMMA RowHas ==
  ASSUME NEW r \in Row
  PROVE  /\ r.kind \in RowOps /\ r.period \in PeriodKeys /\ r.amount \in Nat
         /\ r # NoRow
<1>1. NoRow.kind = "none"
  BY DEF NoRow
<1>2. r.kind \in RowOps /\ r.period \in PeriodKeys /\ r.amount \in Nat
  BY DEF Row, CashRow, ReconciliationRow, InvoiceRow, RowOps
<1>3. r # NoRow
  BY <1>1, <1>2 DEF RowOps
<1> QED BY <1>2, <1>3

\* ... and every invoice.
LEMMA InvoiceHas ==
  ASSUME NEW r \in Row, r.kind = "invoice"
  PROVE  r.number \in Nat \ {0} /\ r.vat \in Nat /\ r.bps \in BasisPoints
BY DEF Row, CashRow, ReconciliationRow, InvoiceRow

\* A row of the books is no row, or has a kind.
LEMMA BookHas ==
  ASSUME BooksTypes, NEW c \in Clients
  PROVE  /\ book[c] = NoRow \/ book[c] \in Row
         /\ book[c] = NoRow <=> book[c].kind = "none"
         /\ book[c] = NoRow <=> book[c].kind \notin RowOps
<1>1. book[c] = NoRow \/ book[c] \in Row
  BY DEF BooksTypes, BookRows
<1>2. NoRow.kind = "none"
  BY DEF NoRow
<1>3. book[c] \in Row => book[c].kind \in RowOps /\ book[c] # NoRow
  BY RowHas
<1> QED BY <1>1, <1>2, <1>3 DEF RowOps

\* A patched expense is an expense, dated where it was or where the patch says.
LEMMA PatchedIs ==
  ASSUME NEW r \in Row, r.kind = "expense", NEW patch \in UpdateExpenseDto
  PROVE  /\ Patched(r, patch) \in Row /\ Patched(r, patch).kind = "expense"
         /\ Patched(r, patch).period = IF patch.day = Absent THEN r.period ELSE patch.day
<1> DEFINE amount == IF patch.amount = Absent THEN r.amount ELSE patch.amount
           day == IF patch.day = Absent THEN r.period ELSE patch.day
<1>1. r \in CashRow
  BY DEF Row, CashRow, ReconciliationRow, InvoiceRow
<1>2. amount \in Nat /\ day \in PeriodKeys
  BY <1>1 DEF UpdateExpenseDto, Amounts, CashRow
<1>3. Patched(r, patch) = [r EXCEPT !.amount = amount, !.period = day]
  BY DEF Patched
<1> HIDE DEF amount, day
<1>4. Patched(r, patch) \in CashRow /\ Patched(r, patch).kind = "expense"
      /\ Patched(r, patch).period = day
  BY ONLY <1>1, <1>2, <1>3, r.kind = "expense" DEF CashRow
<1> QED BY <1>4 DEF Row, day

\* What a request is, by its operation.
LEMMA AskedIs ==
  ASSUME BooksTypes, NEW c \in Clients
  PROVE  /\ asked[c].op = "expense" => asked[c] \in CreateExpenseDto
         /\ asked[c].op = "editExpense" => asked[c] \in UpdateExpenseDto
         /\ asked[c].op = "payment" => asked[c] \in CreatePaymentDto
         /\ asked[c].op = "invoice" => asked[c] \in CreateInvoiceDto
         /\ asked[c].op = "refund" => asked[c] \in CreateRefundDto
         /\ asked[c].op = "reconcile" => asked[c] \in CreateReconciliationDto
         /\ asked[c].op = "taxSettings" => asked[c] \in UpdateTaxSettingsDto
         /\ asked[c].op = "close" => asked[c] \in ClosePeriod
<1>1. asked[c] \in Request
  BY BookAssumption DEF BooksTypes
<1>2. /\ asked[c] \in CreateExpenseDto => asked[c].op = "expense"
      /\ asked[c] \in UpdateExpenseDto => asked[c].op = "editExpense"
      /\ asked[c] \in CreatePaymentDto => asked[c].op = "payment"
      /\ asked[c] \in CreateInvoiceDto => asked[c].op = "invoice"
      /\ asked[c] \in CreateRefundDto => asked[c].op = "refund"
      /\ asked[c] \in CreateReconciliationDto => asked[c].op = "reconcile"
      /\ asked[c] \in UpdateTaxSettingsDto => asked[c].op = "taxSettings"
      /\ asked[c] \in ClosePeriod => asked[c].op = "close"
  BY DEF CreateExpenseDto, UpdateExpenseDto, CreatePaymentDto, CreateInvoiceDto, CreateRefundDto,
         CreateReconciliationDto, UpdateTaxSettingsDto, ClosePeriod
<1> QED BY <1>1, <1>2 DEF Request

\* What the lines of a document add up to.
LEMMA LinesAddUp ==
  ASSUME NEW n \in Nat, NEW f, DOMAIN f = 1..n, \A i \in 1..n : f[i] \in Nat
  PROVE  SumFunction(f) \in Nat
<1>1. IsFiniteSet(1..n)
  BY FS_Interval
<1> QED BY <1>1, SumNat DEF SumFunction

\* The totals of the documents.
LEMMA TotalsAreUnits ==
  /\ \A lines \in Seq(CreateInvoiceLineDto) : Subtotal(lines) \in Nat
  /\ \A lines \in Seq(CreateReconciliationLineDto) :
       /\ Stated(lines) \in Nat
       /\ (\A line \in Range(lines) : line.parcel \in DOMAIN Parcels) => Fees(lines) \in Nat
<1>1. ASSUME NEW lines \in Seq(CreateInvoiceLineDto) PROVE Subtotal(lines) \in Nat
  <2> DEFINE f == [i \in DOMAIN lines |-> lines[i].quantity * lines[i].price]
  <2>1. ASSUME NEW i \in 1..Len(lines) PROVE f[i] \in Nat
    <3>1. lines[i] \in CreateInvoiceLineDto
      OBVIOUS
    <3>2. lines[i].quantity \in Nat /\ lines[i].price \in Nat
      BY <3>1 DEF CreateInvoiceLineDto
    <3>3. \A x, y \in Nat : x * y \in Nat
      OBVIOUS
    <3>4. f[i] = lines[i].quantity * lines[i].price
      OBVIOUS
    <3> QED BY <3>2, <3>3, <3>4
  <2>2. DOMAIN f = 1..Len(lines) /\ Len(lines) \in Nat
    OBVIOUS
  <2> HIDE DEF f
  <2>3. SumFunction(f) \in Nat
    BY <2>1, <2>2, LinesAddUp
  <2> QED BY <2>3 DEF Subtotal, f
<1>2. ASSUME NEW lines \in Seq(CreateReconciliationLineDto) PROVE Stated(lines) \in Nat
  <2> DEFINE f == [i \in DOMAIN lines |-> lines[i].stated]
  <2>1. ASSUME NEW i \in 1..Len(lines) PROVE f[i] \in Nat
    <3>1. lines[i] \in CreateReconciliationLineDto
      OBVIOUS
    <3> QED BY <3>1 DEF CreateReconciliationLineDto
  <2>2. DOMAIN f = 1..Len(lines) /\ Len(lines) \in Nat
    OBVIOUS
  <2> HIDE DEF f
  <2>3. SumFunction(f) \in Nat
    BY <2>1, <2>2, LinesAddUp
  <2> QED BY <2>3 DEF Stated, f
<1>3. ASSUME NEW lines \in Seq(CreateReconciliationLineDto),
             \A line \in Range(lines) : line.parcel \in DOMAIN Parcels
      PROVE  Fees(lines) \in Nat
  <2> DEFINE f == [i \in DOMAIN lines |-> Parcels[lines[i].parcel]]
  <2>1. ASSUME NEW i \in 1..Len(lines) PROVE f[i] \in Nat
    <3>1. lines[i] \in Range(lines)
      BY DEF Range
    <3>2. Parcels[lines[i].parcel] \in Range(Parcels)
      BY <1>3, <3>1 DEF Range
    <3> QED BY <3>2, PeriodAssumption
  <2>2. DOMAIN f = 1..Len(lines) /\ Len(lines) \in Nat
    OBVIOUS
  <2> HIDE DEF f
  <2>3. SumFunction(f) \in Nat
    BY <2>1, <2>2, LinesAddUp
  <2> QED BY <2>3 DEF Fees, f
<1> QED BY <1>1, <1>2, <1>3
-----------------------------------------------------------------------------
(* What the steps of the others leave of a request.                        *)

\* Nothing a step does touches the request of d, except that the clock of the
\* closes runs on and a row it has committed may be edited.
Undisturbed(d) ==
  /\ asked' = asked
  /\ pc'[d] = pc[d] /\ dated'[d] = dated[d] /\ draft'[d] = draft[d]
  /\ d \in astray' <=> d \in astray
  /\ closedSince[d] \subseteq closedSince'[d]
  /\ \A p \in PeriodKeys :
       /\ periodLock[p] = d => periodLock'[p] = d \/ period'[p] # "absent"
       /\ period[p] # "absent" => period'[p] # "absent"
       /\ period'[p] = "closed" => period[p] = "closed" \/ p \in closedSince'[d]
  /\ numberLock = d => numberLock' = d /\ nextNumber' = nextNumber
  /\ book[d] = NoRow => book'[d] = NoRow
  /\ book[d] # NoRow => book'[d].kind = book[d].kind
  /\ asked[d].op = "editExpense" =>
       /\ book[asked[d].target].kind = "expense" => book'[asked[d].target].kind = "expense"
       /\ rowLock[asked[d].target] = d /\ book[asked[d].target].kind = "expense" =>
            rowLock'[asked[d].target] = d /\ book'[asked[d].target] = book[asked[d].target]

\* A request that is left alone still fits.
LEMMA UndisturbedFits ==
  ASSUME BooksTypes, BooksTypes', NEW d \in Clients, RequestFits(d), Undisturbed(d)
  PROVE  RequestFits(d)'
<1> DEFINE target == asked[d].target
<1>1. /\ asked' = asked /\ pc'[d] = pc[d] /\ dated'[d] = dated[d] /\ draft'[d] = draft[d]
      /\ d \in astray' <=> d \in astray
  BY DEF Undisturbed
<1>2. BooksStageFits(d)'
  BY <1>1 DEF RequestFits, BooksStageFits
<1>3. DatesStand(d)'
  BY <1>1 DEF RequestFits, DatesStand
<1>4. AssertionsStand(d)'
  <2>1. dated[d] \in Seq(PeriodKeys)
    BY DEF BooksTypes
  <2>2. Looked(d)' = Looked(d) /\ Ensured(d)' = Ensured(d)
    BY <1>1 DEF Looked, Ensured
  <2>3. Looked(d) \subseteq 1..Len(dated[d]) /\ Ensured(d) \subseteq 1..Len(dated[d])
    BY <2>1 DEF Looked, Ensured
  <2>4. \A i \in 1..Len(dated[d]) : dated[d][i] \in PeriodKeys
    BY <2>1
  <2>5. \A p \in PeriodKeys :
          /\ periodLock[p] = d => periodLock'[p] = d \/ period'[p] # "absent"
          /\ period[p] # "absent" => period'[p] # "absent"
          /\ period'[p] = "closed" => period[p] = "closed" \/ p \in closedSince'[d]
    BY DEF Undisturbed
  <2>6. closedSince[d] \subseteq closedSince'[d]
    BY DEF Undisturbed
  <2>7. ASSUME NEW i \in Looked(d), period'[dated[d][i]] = "closed"
        PROVE  dated[d][i] \in closedSince'[d]
    <3>1. dated[d][i] \in PeriodKeys
      BY <2>3, <2>4
    <3>2. period[dated[d][i]] = "closed" => dated[d][i] \in closedSince[d]
      BY DEF RequestFits, AssertionsStand
    <3> QED BY <2>5, <2>6, <2>7, <3>1, <3>2
  <2>8. ASSUME NEW i \in Ensured(d)
        PROVE  period'[dated[d][i]] # "absent" \/ periodLock'[dated[d][i]] = d
    <3>1. dated[d][i] \in PeriodKeys
      BY <2>3, <2>4
    <3>2. period[dated[d][i]] # "absent" \/ periodLock[dated[d][i]] = d
      BY DEF RequestFits, AssertionsStand
    <3> QED BY <2>5, <3>1, <3>2
  <2> QED BY <1>1, <2>2, <2>7, <2>8 DEF AssertionsStand
<1>5. DraftFits(d)'
  <2>1. VatFits(draft[d])' = VatFits(draft[d])
    BY <1>1 DEF VatFits, Rates
  <2>2. DraftFits(d) /\ EveryLineHasAParcel(d)' = EveryLineHasAParcel(d)
    BY <1>1 DEF RequestFits, EveryLineHasAParcel
  <2> QED BY <1>1, <2>1, <2>2 DEF DraftFits
<1>6. EditFits(d)'
  <2>1. SUFFICES ASSUME asked[d].op = "editExpense" PROVE EditFits(d)'
    BY <1>1 DEF EditFits
  <2>2. /\ book[target].kind = "expense" => book'[target].kind = "expense"
        /\ rowLock[target] = d /\ book[target].kind = "expense" =>
             rowLock'[target] = d /\ book'[target] = book[target]
    BY <2>1 DEF Undisturbed
  <2>3. pc[d] \in Working => book[target].kind = "expense"
    BY <2>1 DEF RequestFits, EditFits
  <2>4. pc[d] = "written" =>
          /\ rowLock[target] = d /\ draft[d] \in Row /\ draft[d].kind = "expense"
          /\ draft[d].period \in {book[target].period} \cup Range(dated[d])
          /\ d \notin astray => book[target].period \in Range(dated[d])
    BY <2>1 DEF RequestFits, EditFits
  <2> HIDE DEF target
  <2>5. pc'[d] \in Working => book'[target].kind = "expense"
    BY <1>1, <2>2, <2>3
  <2>6. pc'[d] = "written" =>
          /\ rowLock'[target] = d /\ draft'[d] \in Row /\ draft'[d].kind = "expense"
          /\ draft'[d].period \in {book'[target].period} \cup Range(dated'[d])
          /\ d \notin astray' => book'[target].period \in Range(dated'[d])
    <3>1. pc[d] = "written" => book[target].kind = "expense"
      BY <2>3 DEF Working
    <3> QED BY <1>1, <2>2, <2>4, <3>1
  <2> QED BY <1>1, <2>5, <2>6 DEF EditFits, target
<1>7. BookedIsDone(d)'
  BY <1>1 DEF RequestFits, BookedIsDone, Undisturbed
<1>8. NumberHeld(d)'
  <2>1. VatFits(draft[d])' = VatFits(draft[d])
    BY <1>1 DEF VatFits, Rates
  <2> QED BY <1>1, <2>1 DEF RequestFits, NumberHeld, Undisturbed
<1> QED BY <1>2, <1>3, <1>4, <1>5, <1>6, <1>7, <1>8 DEF RequestFits

\* Without a new row or number the invoices stay numbered.
LEMMA InvoicesStand ==
  ASSUME InvoicesAreNumbered, UNCHANGED <<nextNumber, asked>>, rate' \in Rates,
         Invoices' = Invoices, \A c \in Invoices : book'[c] = book[c]
  PROVE  InvoicesAreNumbered'
<1>1. Invoices' = Invoices /\ Rates' = Rates /\ rate' \in Rates
  BY DEF Rates
<1>2. {book[c].number : c \in Invoices}' = {book[c].number : c \in Invoices}
  BY <1>1
<1>3. ASSUME NEW c \in Invoices PROVE VatFits(book[c])'
  <2>1. VatFits(book[c])
    BY DEF InvoicesAreNumbered
  <2>2. VatFits(book[c])' = VatFits(book[c])
    BY ONLY <1>1, book'[c] = book[c] DEF VatFits
  <2> QED BY <2>1, <2>2
<1>4. IsFiniteSet(Invoices)' /\ Cardinality(Invoices)' = Cardinality(Invoices)
  BY <1>1 DEF InvoicesAreNumbered
<1> QED BY <1>1, <1>2, <1>3, <1>4 DEF InvoicesAreNumbered

\* A step that is the request's own: nothing is committed.
OwnStep(c) ==
  /\ UNCHANGED <<period, book, nextNumber, rate, asked, late>>
  /\ \A d \in Clients \ {c} : /\ pc'[d] = pc[d] /\ dated'[d] = dated[d] /\ draft'[d] = draft[d]
                              /\ closedSince'[d] = closedSince[d]
  /\ astray' \in {astray, astray \cup {c}}
  /\ \A p \in PeriodKeys : periodLock'[p] = periodLock[p] \/ periodLock[p] \in {Nobody, c}
  /\ \A r \in Clients : rowLock'[r] = rowLock[r] \/ rowLock[r] \in {Nobody, c}
  /\ numberLock' = numberLock \/ numberLock \in {Nobody, c}

\* It keeps the invariant when it keeps its own request fitting, and a close
\* passes its gap check only where there is no gap.
LEMMA OwnStepKeeps ==
  ASSUME BooksInv, BooksTypes', NEW c \in Clients, OwnStep(c), RequestFits(c)',
         asked[c].op = "close" /\ pc'[c] \in {"close", "written"} =>
           \A p \in PeriodKeys : p < asked[c].day /\ period[p] = "open" => p \in late
  PROVE  BooksInv'
<1>1. BooksTypes /\ InvoicesAreNumbered /\ ClosesFit /\ GapsAreLateActivity
  BY DEF BooksInv, ClosesFit
<1>2. ASSUME NEW d \in Clients \ {c} PROVE RequestFits(d)'
  <2>1. d # Nobody
    BY PeriodAssumption
  <2>2. asked[d].op = "editExpense" => asked[d].target \in Clients
    BY <1>1, AskedIs DEF UpdateExpenseDto
  <2>3. d \in astray' <=> d \in astray
    BY DEF OwnStep
  <2>4. RequestFits(d)
    BY DEF BooksInv
  <2>5. Undisturbed(d)
    BY <2>1, <2>2, <2>3 DEF OwnStep, Undisturbed
  <2> QED BY <1>1, <2>4, <2>5, UndisturbedFits
<1>3. InvoicesAreNumbered'
  <2>1. UNCHANGED <<nextNumber, asked, rate, book>>
    BY DEF OwnStep
  <2>2. rate' \in Rates /\ Invoices' = Invoices
    BY <1>1, <2>1 DEF InvoicesAreNumbered, Invoices
  <2> QED BY <1>1, <2>1, <2>2, InvoicesStand
<1>4. GapsAreLateActivity'
  BY <1>1 DEF OwnStep, GapsAreLateActivity
<1>5. ASSUME NEW d \in Clients, asked'[d].op = "close", pc'[d] \in {"close", "written"},
             NEW p \in PeriodKeys, p < asked'[d].day, period'[p] = "open"
      PROVE  p \in late'
  <2>1. asked' = asked /\ period' = period /\ late' = late
    BY DEF OwnStep
  <2>2. CASE d = c
    BY <1>5, <2>1, <2>2
  <2>3. CASE d # c
    <3>1. pc'[d] = pc[d]
      BY <2>3 DEF OwnStep
    <3> QED BY <1>1, <1>5, <2>1, <3>1 DEF ClosesFit
  <2> QED BY <2>2, <2>3
<1>6. ClosesFit'
  BY <1>4, <1>5 DEF ClosesFit
<1> QED BY <1>2, <1>3, <1>6 DEF BooksInv
-----------------------------------------------------------------------------
(* Requests that leave.                                                    *)

\* A step that commits nothing keeps the types when what it moves has them.
LEMMA TypesFollow ==
  ASSUME BooksTypes, UNCHANGED <<committed, asked, late>>,
         pc' \in [Clients -> Labels], dated' \in [Clients -> Seq(PeriodKeys)],
         draft' \in [Clients -> DraftRows],
         periodLock' \in [PeriodKeys -> Clients \cup {Nobody}],
         numberLock' \in Clients \cup {Nobody},
         rowLock' \in [Clients -> Clients \cup {Nobody}],
         closedSince' \in [Clients -> SUBSET PeriodKeys], astray' \subseteq Clients
  PROVE  BooksTypes'
<1>1. UNCHANGED <<asked, period, book, nextNumber, rate, month, late>>
  BY DEF committed
<1>2. /\ asked' \in Books
      /\ period' \in [PeriodKeys -> {"absent", "open", "closed"}]
      /\ book' \in [Clients -> BookRows]
      /\ nextNumber' \in Nat \ {0}
      /\ rate' \in BasisPoints /\ month' \in PeriodKeys
      /\ late' \subseteq PeriodKeys
  BY <1>1 DEF BooksTypes
<1>3. /\ pc' \in [Clients -> Labels] /\ dated' \in [Clients -> Seq(PeriodKeys)]
      /\ draft' \in [Clients -> DraftRows]
      /\ periodLock' \in [PeriodKeys -> Clients \cup {Nobody}]
      /\ numberLock' \in Clients \cup {Nobody}
      /\ rowLock' \in [Clients -> Clients \cup {Nobody}]
      /\ closedSince' \in [Clients -> SUBSET PeriodKeys] /\ astray' \subseteq Clients
  OBVIOUS
<1> QED BY ONLY <1>2, <1>3 DEF BooksTypes

\* What the end of a transaction leaves of the types.
LEMMA EndTypes ==
  ASSUME BooksTypes, NEW c \in Clients, NEW outcome \in Labels, EndTransaction(c, outcome)
  PROVE  /\ pc' \in [Clients -> Labels] /\ pc'[c] = outcome
         /\ dated' \in [Clients -> Seq(PeriodKeys)]
         /\ draft' \in [Clients -> DraftRows]
         /\ periodLock' \in [PeriodKeys -> Clients \cup {Nobody}]
         /\ numberLock' \in Clients \cup {Nobody}
         /\ rowLock' \in [Clients -> Clients \cup {Nobody}]
<1>1. <<>> \in Seq(PeriodKeys)
  OBVIOUS
<1>2. pc' \in [Clients -> Labels] /\ pc'[c] = outcome
  BY DEF EndTransaction, GoOn, BooksTypes
<1>3. dated' \in [Clients -> Seq(PeriodKeys)]
  BY <1>1 DEF EndTransaction, BooksTypes
<1>4. draft' \in [Clients -> DraftRows]
  BY DEF EndTransaction, BooksTypes, DraftRows
<1>5. /\ periodLock' \in [PeriodKeys -> Clients \cup {Nobody}]
      /\ numberLock' \in Clients \cup {Nobody}
      /\ rowLock' \in [Clients -> Clients \cup {Nobody}]
  BY DEF EndTransaction, BooksTypes
<1> QED BY <1>2, <1>3, <1>4, <1>5

\* ... and of the others: their places and their locks.
LEMMA EndFrame ==
  ASSUME BooksTypes, NEW c \in Clients, NEW outcome \in Labels, EndTransaction(c, outcome)
  PROVE  /\ \A d \in Clients \ {c} : pc'[d] = pc[d] /\ dated'[d] = dated[d] /\ draft'[d] = draft[d]
         /\ \A p \in PeriodKeys : /\ periodLock[p] # c => periodLock'[p] = periodLock[p]
                                  /\ periodLock[p] = c => periodLock'[p] = Nobody
         /\ \A r \in Clients : rowLock[r] # c => rowLock'[r] = rowLock[r]
         /\ numberLock # c => numberLock' = numberLock
BY DEF EndTransaction, GoOn, BooksTypes

\* A request that is over fits.
LEMMA OverFits ==
  ASSUME NEW c \in Clients, pc'[c] \in Final, BookedIsDone(c)', dated'[c] = <<>>
  PROVE  RequestFits(c)'
<1>1. BooksStageFits(c)'
  BY DEF Final, BooksStageFits, Asserts
<1>2. DatesStand(c)' /\ NumberHeld(c)' /\ EditFits(c)' /\ DraftFits(c)'
  BY DEF Final, DatesStand, NumberHeld, EditFits, DraftFits, Working, Asserts
<1>3. Len(dated'[c]) = 0 /\ \A i : i \notin 1..0
  OBVIOUS
<1>4. pc'[c] \notin {"assert", "touch", "insertPeriod"}
  BY DEF Final
<1>5. Looked(c)' = {} /\ Ensured(c)' = {}
  BY <1>3, <1>4 DEF Looked, Ensured
<1>6. AssertionsStand(c)'
  BY <1>5 DEF AssertionsStand
<1> QED BY <1>1, <1>2, <1>6 DEF RequestFits

\* A request that leaves without a write.
LEMMA LeaveKeeps ==
  ASSUME BooksInv, NEW c \in Clients, pc[c] # "done",
         NEW outcome \in {"rejected", "aborted", "failed"}, Leave(c, outcome)
  PROVE  BooksInv'
<1>1. BooksTypes /\ outcome \in Labels /\ outcome \in Final /\ outcome \notin {"close", "written"}
  BY DEF BooksInv, Labels, Final
<1>2. EndTransaction(c, outcome) /\ UNCHANGED <<committed, history, asked>>
  BY DEF Leave
<1>3. BooksTypes'
  <2>1. UNCHANGED <<committed, asked, late>> /\ UNCHANGED <<closedSince, astray>>
    BY <1>2 DEF history
  <2>2. closedSince' \in [Clients -> SUBSET PeriodKeys] /\ astray' \subseteq Clients
    BY <1>1, <2>1 DEF BooksTypes
  <2>3. /\ pc' \in [Clients -> Labels]
        /\ dated' \in [Clients -> Seq(PeriodKeys)]
        /\ draft' \in [Clients -> DraftRows]
        /\ periodLock' \in [PeriodKeys -> Clients \cup {Nobody}]
        /\ numberLock' \in Clients \cup {Nobody}
        /\ rowLock' \in [Clients -> Clients \cup {Nobody}]
    BY ONLY <1>1, <1>2, EndTypes
  <2> QED BY ONLY <1>1, <2>1, <2>2, <2>3, TypesFollow
<1>4. book[c] = NoRow
  BY DEF BooksInv, RequestFits, BookedIsDone
<1>5. pc'[c] = outcome /\ dated'[c] = <<>> /\ book'[c] = NoRow
  BY <1>1, <1>2, <1>4 DEF EndTransaction, GoOn, BooksTypes, committed
<1>6. RequestFits(c)'
  BY <1>1, <1>5, OverFits DEF BookedIsDone
<1>7. OwnStep(c)
  <2>1. UNCHANGED <<period, book, nextNumber, rate, asked, late, astray, closedSince>>
    BY <1>2 DEF committed, history
  <2> QED BY <1>1, <1>2, <2>1, EndFrame DEF OwnStep
<1> QED BY <1>1, <1>3, <1>5, <1>6, <1>7, OwnStepKeeps
-----------------------------------------------------------------------------
(* The steps of a transaction before it commits.                           *)

\* A request that is not done has no row in the books.
LEMMA NoRowYet ==
  ASSUME BooksInv, NEW c \in Clients, pc[c] # "done"
  PROVE  book[c] = NoRow
BY DEF BooksInv, RequestFits, BookedIsDone

\* Only the place of the request moves.
LEMMA MoveKeeps ==
  ASSUME BooksInv, NEW c \in Clients, NEW label \in Labels, GoOn(c, label),
         UNCHANGED <<committed, history, asked, dated, draft, locks>>,
         RequestFits(c)',
         asked[c].op = "close" /\ label \in {"close", "written"} =>
           \A p \in PeriodKeys : p < asked[c].day /\ period[p] = "open" => p \in late
  PROVE  BooksInv'
<1>1. BooksTypes
  BY DEF BooksInv
<1>2. /\ UNCHANGED <<committed, asked, late>>
      /\ UNCHANGED <<closedSince, astray, dated, draft, periodLock, numberLock, rowLock>>
  BY DEF history, locks
<1>3. /\ pc' \in [Clients -> Labels] /\ pc'[c] = label
      /\ \A d \in Clients \ {c} : pc'[d] = pc[d]
  BY <1>1 DEF BooksTypes, GoOn
<1>4. /\ dated' \in [Clients -> Seq(PeriodKeys)]
      /\ draft' \in [Clients -> DraftRows]
      /\ periodLock' \in [PeriodKeys -> Clients \cup {Nobody}]
      /\ numberLock' \in Clients \cup {Nobody}
      /\ rowLock' \in [Clients -> Clients \cup {Nobody}]
      /\ closedSince' \in [Clients -> SUBSET PeriodKeys] /\ astray' \subseteq Clients
  BY <1>1, <1>2 DEF BooksTypes
<1>5. BooksTypes'
  BY ONLY <1>1, <1>2, <1>3, <1>4, TypesFollow
<1>6. OwnStep(c)
  BY <1>2, <1>3 DEF OwnStep, committed
<1> QED BY <1>3, <1>5, <1>6, OwnStepKeeps

\* A request that goes on asserting fits when its assertions stand.
LEMMA AssertsOn ==
  ASSUME BooksInv, NEW c \in Clients, pc[c] \in Asserts, pc'[c] \in Asserts,
         UNCHANGED <<book, asked, dated>>, AssertionsStand(c)'
  PROVE  RequestFits(c)'
<1>1. BooksStageFits(c) /\ DatesStand(c) /\ EditFits(c)
  BY DEF BooksInv, RequestFits
<1>2. BooksStageFits(c)' /\ DatesStand(c)'
  BY <1>1 DEF BooksStageFits, DatesStand, Asserts, Working
<1>3. DraftFits(c)' /\ NumberHeld(c)' /\ EditFits(c)'
  BY <1>1 DEF DraftFits, NumberHeld, EditFits, Asserts, Working
<1>4. BookedIsDone(c)'
  BY NoRowYet DEF BookedIsDone, Asserts
<1> QED BY <1>2, <1>3, <1>4 DEF RequestFits

\* The period being asserted is the last one dated.
LEMMA AssertingIs ==
  ASSUME BooksInv, NEW c \in Clients, pc[c] \in Asserts
  PROVE  /\ Len(dated[c]) \in Nat \ {0} /\ dated[c][Len(dated[c])] = Asserting(c)
         /\ Asserting(c) \in PeriodKeys /\ dated[c] \in Seq(PeriodKeys)
         /\ \A i \in 1..Len(dated[c]) : dated[c][i] \in PeriodKeys
<1>1. dated[c] \in Seq(PeriodKeys)
  BY DEF BooksInv, BooksTypes
<1>2. dated[c] # <<>>
  BY DEF BooksInv, RequestFits, BooksStageFits, DatesStand, Asserts, Working
<1> QED BY <1>1, <1>2 DEF Asserting, Last

\* The period's status is read: a closed one refuses the write.
LEMMA AssertOpenKeeps ==
  ASSUME BooksInv, NEW c \in Clients, AssertOpen(c)
  PROVE  BooksInv'
<1>1. pc[c] = "assert" /\ pc[c] # "done" /\ pc[c] \in Asserts
  BY DEF AssertOpen, Asserts
<1>2. CASE period[Asserting(c)] = "closed"
  BY <1>1, <1>2, LeaveKeeps DEF AssertOpen
<1>3. CASE period[Asserting(c)] # "closed"
  <2> DEFINE label == IF period[Asserting(c)] = "absent" THEN "touch" ELSE "open"
  <2>1. GoOn(c, label) /\ UNCHANGED <<committed, history, asked, dated, draft, locks>>
    BY <1>3 DEF AssertOpen
  <2>2. label \in Labels /\ label \in Asserts /\ label \notin {"close", "written"}
    BY DEF Labels, Asserts
  <2>3. pc'[c] = label /\ UNCHANGED <<period, book, asked, dated, closedSince, periodLock>>
    BY <2>1 DEF GoOn, BooksInv, BooksTypes, committed, history, locks
  <2>4. AssertionsStand(c)'
    <3> DEFINE n == Len(dated[c])
    <3>1. n \in Nat \ {0} /\ dated[c][n] = Asserting(c)
      BY <1>1, AssertingIs
    <3>2. Looked(c) = 1..(n - 1) /\ Ensured(c) = 1..(n - 1) /\ Looked(c)' = 1..n
      BY <1>1, <2>3 DEF Looked, Ensured
    <3>3. Ensured(c)' = IF period[Asserting(c)] = "absent" THEN 1..(n - 1) ELSE 1..n
      BY <2>3 DEF Ensured
    <3>4. AssertionsStand(c)
      BY DEF BooksInv, RequestFits
    <3> HIDE DEF n, label
    <3>5. \A i \in 1..n : i = n \/ i \in 1..(n - 1)
      BY <3>1
    <3>6. /\ \A i \in Looked(c)' : period[dated[c][i]] = "closed" => dated[c][i] \in closedSince[c]
          /\ \A i \in Ensured(c)' : period[dated[c][i]] # "absent" \/ periodLock[dated[c][i]] = c
      BY <1>3, <3>1, <3>2, <3>3, <3>4, <3>5 DEF AssertionsStand
    <3> QED BY <2>3, <3>6 DEF AssertionsStand
  <2> HIDE DEF label
  <2>5. RequestFits(c)'
    BY <1>1, <2>2, <2>3, <2>4, AssertsOn
  <2> QED BY <2>1, <2>2, <2>5, MoveKeeps
<1> QED BY <1>2, <1>3

\* The upsert looks again.
LEMMA TouchPeriodKeeps ==
  ASSUME BooksInv, NEW c \in Clients, TouchPeriod(c)
  PROVE  BooksInv'
<1> DEFINE label == IF period[Asserting(c)] = "absent" THEN "insertPeriod" ELSE "open"
           n == Len(dated[c])
<1>1. /\ pc[c] = "touch" /\ pc[c] \in Asserts
      /\ GoOn(c, label) /\ UNCHANGED <<committed, history, asked, dated, draft, locks>>
  BY DEF TouchPeriod, Asserts
<1>2. label \in Labels /\ label \in Asserts /\ label \notin {"close", "written"}
  BY DEF Labels, Asserts
<1>3. pc'[c] = label /\ UNCHANGED <<period, book, asked, dated, closedSince, periodLock>>
  BY <1>1 DEF GoOn, BooksInv, BooksTypes, committed, history, locks
<1>4. n \in Nat \ {0} /\ dated[c][n] = Asserting(c)
  BY <1>1, AssertingIs
<1>5. Looked(c) = 1..n /\ Ensured(c) = 1..(n - 1) /\ Looked(c)' = 1..n
  BY <1>1, <1>3 DEF Looked, Ensured
<1>6. Ensured(c)' = IF period[Asserting(c)] = "absent" THEN 1..(n - 1) ELSE 1..n
  BY <1>3 DEF Ensured
<1>7. AssertionsStand(c)
  BY DEF BooksInv, RequestFits
<1> HIDE DEF n, label
<1>8. \A i \in 1..n : i = n \/ i \in 1..(n - 1)
  BY <1>4
<1>9. /\ \A i \in Looked(c)' : period[dated[c][i]] = "closed" => dated[c][i] \in closedSince[c]
      /\ \A i \in Ensured(c)' : period[dated[c][i]] # "absent" \/ periodLock[dated[c][i]] = c
  BY <1>4, <1>5, <1>6, <1>7, <1>8 DEF AssertionsStand
<1>10. AssertionsStand(c)'
  BY <1>3, <1>9 DEF AssertionsStand
<1>11. RequestFits(c)'
  BY <1>1, <1>2, <1>3, <1>10, AssertsOn
<1> QED BY <1>1, <1>2, <1>11, MoveKeeps

\* The insert of the period's row, or its failure.
LEMMA InsertPeriodKeeps ==
  ASSUME BooksInv, NEW c \in Clients, InsertPeriod(c)
  PROVE  BooksInv'
<1> DEFINE n == Len(dated[c])
           p == Asserting(c)
<1>1. pc[c] = "insertPeriod" /\ pc[c] # "done" /\ pc[c] \in Asserts /\ BooksTypes
  BY DEF InsertPeriod, Asserts, BooksInv
<1>2. n \in Nat \ {0} /\ dated[c][n] = p /\ p \in PeriodKeys
      /\ \A i \in 1..n : dated[c][i] \in PeriodKeys
  BY <1>1, AssertingIs
<1>3. CASE period[p] # "absent"
  BY <1>1, <1>3, LeaveKeeps DEF InsertPeriod
<1>4. CASE period[p] = "absent"
  <2>1. /\ periodLock[p] \in {Nobody, c} /\ periodLock' = [periodLock EXCEPT ![p] = c]
        /\ GoOn(c, "open")
        /\ UNCHANGED <<committed, history, asked, dated, draft, numberLock, rowLock>>
    BY <1>4 DEF InsertPeriod
  <2>2. UNCHANGED <<committed, asked, late>>
        /\ UNCHANGED <<period, book, dated, draft, numberLock, rowLock, closedSince, astray>>
    BY <2>1 DEF history, committed
  <2>3. /\ pc' \in [Clients -> Labels] /\ pc'[c] = "open"
        /\ \A d \in Clients \ {c} : pc'[d] = pc[d]
    BY <1>1, <2>1 DEF BooksTypes, GoOn, Labels
  <2>4. /\ periodLock' \in [PeriodKeys -> Clients \cup {Nobody}] /\ periodLock'[p] = c
        /\ \A q \in PeriodKeys : periodLock'[q] = periodLock[q] \/ q = p
    BY <1>1, <1>2, <2>1 DEF BooksTypes
  <2>5. /\ dated' \in [Clients -> Seq(PeriodKeys)]
        /\ draft' \in [Clients -> DraftRows]
        /\ numberLock' \in Clients \cup {Nobody}
        /\ rowLock' \in [Clients -> Clients \cup {Nobody}]
        /\ closedSince' \in [Clients -> SUBSET PeriodKeys] /\ astray' \subseteq Clients
    BY <1>1, <2>2 DEF BooksTypes
  <2>6. BooksTypes'
    BY ONLY <1>1, <2>2, <2>3, <2>4, <2>5, TypesFollow
  <2>7. Looked(c) = 1..n /\ Ensured(c) = 1..(n - 1) /\ Looked(c)' = 1..n /\ Ensured(c)' = 1..n
    BY <1>1, <2>2, <2>3 DEF Looked, Ensured
  <2>8. AssertionsStand(c)
    BY DEF BooksInv, RequestFits
  <2> HIDE DEF n, p
  <2>9. \A i \in 1..n : i = n \/ i \in 1..(n - 1)
    BY <1>2
  <2>10. /\ \A i \in 1..n : period[dated[c][i]] = "closed" => dated[c][i] \in closedSince[c]
         /\ \A i \in 1..n : period[dated[c][i]] # "absent" \/ periodLock'[dated[c][i]] = c
    BY <1>2, <2>4, <2>7, <2>8, <2>9 DEF AssertionsStand
  <2>11. AssertionsStand(c)'
    BY <2>2, <2>7, <2>10 DEF AssertionsStand
  <2>12. RequestFits(c)'
    BY <1>1, <2>2, <2>3, <2>11, AssertsOn DEF Asserts
  <2>13. OwnStep(c)
    BY <2>1, <2>2, <2>3, <2>4 DEF OwnStep, committed
  <2> QED BY <2>3, <2>6, <2>12, <2>13, OwnStepKeeps
<1> QED BY <1>3, <1>4

\* The second assertion of an edit, or the way on.
LEMMA ProceedKeeps ==
  ASSUME BooksInv, NEW c \in Clients, Proceed(c)
  PROVE  BooksInv'
<1> DEFINE n == Len(dated[c])
<1>1. pc[c] = "open" /\ pc[c] # "done" /\ pc[c] \in Asserts /\ BooksTypes
  BY DEF Proceed, Asserts, BooksInv
<1>2. n \in Nat \ {0} /\ dated[c] \in Seq(PeriodKeys)
  BY <1>1, AssertingIs
<1>3. BooksStageFits(c) /\ DatesStand(c) /\ AssertionsStand(c) /\ EditFits(c) /\ book[c] = NoRow
  BY <1>1, NoRowYet DEF BooksInv, RequestFits
<1>4. Looked(c) = 1..n /\ Ensured(c) = 1..n
  BY <1>1 DEF Looked, Ensured
<1>5. CASE asked[c].op = "editExpense" /\ asked[c].day # Absent /\ n = 1
  <2> DEFINE day == asked[c].day
  <2>1. /\ GoOn(c, "assert") /\ dated' = [dated EXCEPT ![c] = Append(dated[c], day)]
        /\ UNCHANGED <<committed, history, asked, draft, locks>>
    BY <1>5 DEF Proceed
  <2>2. day \in PeriodKeys
    BY <1>1, <1>5, AskedIs DEF UpdateExpenseDto
  <2>3. /\ UNCHANGED <<committed, asked, late>>
        /\ UNCHANGED <<period, book, draft, periodLock, numberLock, rowLock, closedSince, astray>>
    BY <2>1 DEF history, committed, locks
  <2>4. /\ pc' \in [Clients -> Labels] /\ pc'[c] = "assert"
        /\ \A d \in Clients \ {c} : pc'[d] = pc[d]
    BY <1>1, <2>1 DEF BooksTypes, GoOn, Labels
  <2>5. /\ dated' \in [Clients -> Seq(PeriodKeys)] /\ dated'[c] = Append(dated[c], day)
        /\ \A d \in Clients \ {c} : dated'[d] = dated[d]
    BY <1>1, <1>2, <2>1, <2>2 DEF BooksTypes
  <2>6. /\ draft' \in [Clients -> DraftRows]
        /\ periodLock' \in [PeriodKeys -> Clients \cup {Nobody}]
        /\ numberLock' \in Clients \cup {Nobody}
        /\ rowLock' \in [Clients -> Clients \cup {Nobody}]
        /\ closedSince' \in [Clients -> SUBSET PeriodKeys] /\ astray' \subseteq Clients
    BY <1>1, <2>3 DEF BooksTypes
  <2>7. BooksTypes'
    BY ONLY <1>1, <2>3, <2>4, <2>5, <2>6, TypesFollow
  <2>8. /\ Len(dated'[c]) = n + 1 /\ \A i \in 1..n : dated'[c][i] = dated[c][i]
        /\ dated'[c] # <<>> /\ dated'[c][n + 1] = day
    BY <1>2, <2>2, <2>5
  <2>9. day \in Range(dated'[c])
    BY <1>2, <2>8 DEF Range
  <2> HIDE DEF n
  <2>10. Looked(c)' = 1..n /\ Ensured(c)' = 1..n
    BY <1>2, <2>4, <2>8 DEF Looked, Ensured
  <2>11. AssertionsStand(c)'
    BY <1>3, <1>4, <2>3, <2>8, <2>10 DEF AssertionsStand
  <2>12. BooksStageFits(c)' /\ DatesStand(c)'
    BY <1>5, <2>3, <2>4, <2>8, <2>9 DEF BooksStageFits, DatesStand, Asserts, Working
  <2>13. DraftFits(c)' /\ NumberHeld(c)' /\ EditFits(c)' /\ BookedIsDone(c)'
    BY <1>1, <1>3, <1>5, <2>3, <2>4
       DEF DraftFits, NumberHeld, EditFits, BookedIsDone, Asserts, Working
  <2>14. RequestFits(c)'
    BY <2>11, <2>12, <2>13 DEF RequestFits
  <2>15. OwnStep(c)
    BY <2>3, <2>4, <2>5 DEF OwnStep, committed
  <2> QED BY <2>4, <2>7, <2>14, <2>15, OwnStepKeeps
<1>6. CASE ~(asked[c].op = "editExpense" /\ asked[c].day # Absent /\ n = 1)
  <2> DEFINE label == CASE asked[c].op = "editExpense" -> "edit"
                        [] asked[c].op \in {"invoice", "refund", "reconcile"} -> "resolve"
                        [] OTHER -> "insert"
  <2>1. GoOn(c, label) /\ UNCHANGED <<committed, history, asked, dated, draft, locks>>
    BY <1>6 DEF Proceed
  <2>2. asked[c].op \in DatedOps \cup {"editExpense"}
    BY <1>1, <1>3 DEF BooksStageFits
  <2>3. /\ asked[c].op = "editExpense" => label = "edit"
        /\ asked[c].op \in {"invoice", "refund", "reconcile"} => label = "resolve"
        /\ asked[c].op = "expense" => label = "insert"
    OBVIOUS
  <2>4. label \in Labels /\ label \in {"edit", "resolve", "insert"}
    BY <2>2, <2>3 DEF Labels, DatedOps
  <2>5. pc'[c] = label /\ UNCHANGED <<period, book, asked, dated, draft, closedSince, periodLock>>
    BY <1>1, <2>1 DEF GoOn, BooksTypes, committed, history, locks
  <2>6. pc'[c] = label
    BY <2>5
  <2> HIDE DEF label
  <2>7. Looked(c)' = 1..n /\ Ensured(c)' = 1..n
    BY <2>4, <2>5 DEF Looked, Ensured
  <2>8. AssertionsStand(c)'
    BY <1>3, <1>4, <2>5, <2>7 DEF AssertionsStand
  <2>9. BooksStageFits(c)'
    BY <2>2, <2>3, <2>4, <2>5 DEF BooksStageFits, DatedOps, InsertOps, Asserts
  <2>10. DatesStand(c)'
    BY <1>1, <1>2, <1>3, <1>6, <2>2, <2>3, <2>4, <2>5 DEF DatesStand, Asserts, Working, DatedOps
  <2>11. DraftFits(c)' /\ NumberHeld(c)' /\ EditFits(c)' /\ BookedIsDone(c)'
    BY <1>1, <1>3, <2>2, <2>3, <2>4, <2>5
       DEF DraftFits, NumberHeld, EditFits, BookedIsDone, Asserts, Working, DatedOps
  <2>12. RequestFits(c)'
    BY <2>8, <2>9, <2>10, <2>11 DEF RequestFits
  <2> QED BY <2>1, <2>4, <2>12, MoveKeeps
<1> QED BY <1>5, <1>6
-----------------------------------------------------------------------------
(* The beginnings.                                                         *)

\* A request of no dates has no assertion to stand by.
LEMMA NothingAsserted ==
  ASSUME NEW c \in Clients,
         dated'[c] = <<>> \/ (pc'[c] = "assert" /\ Len(dated'[c]) = 1)
  PROVE  AssertionsStand(c)'
<1>1. \A i : i \notin 1..0 /\ i \notin 1..(1 - 1)
  OBVIOUS
<1>2. dated'[c] = <<>> => Len(dated'[c]) = 0
  OBVIOUS
<1>3. 0 - 1 < 1 /\ \A i : i \notin 1..(0 - 1)
  OBVIOUS
<1>4. \A i : i \notin Looked(c)' /\ i \notin Ensured(c)'
  BY <1>1, <1>2, <1>3 DEF Looked, Ensured
<1> QED BY <1>4 DEF AssertionsStand

\* The first period an expense, an edit or a document asserts.
LEMMA FirstAssertedIs ==
  ASSUME BooksTypes, NEW c \in Clients, asked[c].op \in DatedOps \cup {"editExpense"},
         asked[c].op = "editExpense" => book[asked[c].target].kind = "expense"
  PROVE  FirstAsserted(c) \in PeriodKeys
<1>1. CASE asked[c].op = "editExpense"
  <2>1. asked[c].target \in Clients
    BY <1>1, AskedIs DEF UpdateExpenseDto
  <2>2. book[asked[c].target] \in Row
    BY <1>1, <2>1, BookHas DEF RowOps
  <2>3. book[asked[c].target].period \in PeriodKeys
    BY <2>2, RowHas
  <2> QED BY <1>1, <2>3 DEF FirstAsserted
<1>2. CASE asked[c].op = "expense"
  <2>1. asked[c].day \in PeriodKeys
    BY <1>2, AskedIs DEF CreateExpenseDto
  <2> QED BY <1>2, <2>1 DEF FirstAsserted
<1>3. CASE asked[c].op \notin {"editExpense", "expense"}
  BY <1>3 DEF FirstAsserted, BooksTypes
<1> QED BY <1>1, <1>2, <1>3

\* How a write begins: it is answered at once, goes straight to its insert, or
\* asserts a first period.
LEMMA BeginKeeps ==
  ASSUME BooksInv, NEW c \in Clients, pc[c] = "idle", NEW label, GoOn(c, label),
         closedSince' = [closedSince EXCEPT ![c] = {}],
         UNCHANGED <<committed, asked, draft, locks, late, astray>>,
         \/ label \in {"replayed", "notFound"} /\ UNCHANGED dated
         \/ label = "insert" /\ asked[c].op = "payment" /\ UNCHANGED dated
         \/ /\ label = "assert" /\ asked[c].op \in DatedOps \cup {"editExpense"}
            /\ asked[c].op = "editExpense" => book[asked[c].target].kind = "expense"
            /\ dated' = [dated EXCEPT ![c] = <<FirstAsserted(c)>>]
  PROVE  BooksInv'
<1>1. BooksTypes /\ book[c] = NoRow /\ dated[c] = <<>> /\ DatesStand(c)
  BY NoRowYet DEF BooksInv, RequestFits, DatesStand
<1>2. UNCHANGED <<committed, asked, late>>
      /\ UNCHANGED <<period, book, draft, periodLock, numberLock, rowLock, astray>>
  BY DEF committed, locks
<1>3. label \in Labels /\ label \in {"replayed", "notFound", "insert", "assert"}
  BY DEF Labels, Final
<1>4. /\ pc' \in [Clients -> Labels] /\ pc'[c] = label
      /\ \A d \in Clients \ {c} : pc'[d] = pc[d]
  BY <1>1, <1>3 DEF BooksTypes, GoOn
<1>5. /\ closedSince' \in [Clients -> SUBSET PeriodKeys]
      /\ \A d \in Clients \ {c} : closedSince'[d] = closedSince[d]
  BY <1>1 DEF BooksTypes
<1>6. /\ dated' \in [Clients -> Seq(PeriodKeys)]
      /\ \A d \in Clients \ {c} : dated'[d] = dated[d]
      /\ label = "assert" => dated'[c] # <<>> /\ Len(dated'[c]) = 1
      /\ label # "assert" => dated'[c] = <<>>
  <2>1. CASE label # "assert"
    BY <1>1, <2>1 DEF BooksTypes
  <2>2. CASE label = "assert"
    <3>1. FirstAsserted(c) \in PeriodKeys
      BY <1>1, <2>2, FirstAssertedIs
    <3>2. \A p \in PeriodKeys : <<p>> \in Seq(PeriodKeys) /\ <<p>> # <<>> /\ Len(<<p>>) = 1
      OBVIOUS
    <3>3. /\ dated' = [dated EXCEPT ![c] = <<FirstAsserted(c)>>]
          /\ dated \in [Clients -> Seq(PeriodKeys)]
      BY <1>1, <2>2 DEF BooksTypes
    <3>4. <<FirstAsserted(c)>> \in Seq(PeriodKeys) /\ <<FirstAsserted(c)>> # <<>>
          /\ Len(<<FirstAsserted(c)>>) = 1
      BY <3>1, <3>2
    <3> QED BY ONLY <2>2, <3>3, <3>4
  <2> QED BY <2>1, <2>2
<1>7. /\ draft' \in [Clients -> DraftRows]
      /\ periodLock' \in [PeriodKeys -> Clients \cup {Nobody}]
      /\ numberLock' \in Clients \cup {Nobody}
      /\ rowLock' \in [Clients -> Clients \cup {Nobody}] /\ astray' \subseteq Clients
  <2>1. UNCHANGED <<draft, periodLock, numberLock, rowLock, astray>>
    BY <1>2
  <2>2. BooksTypes
    BY <1>1
  <2> QED BY ONLY <2>1, <2>2 DEF BooksTypes
<1>8. BooksTypes'
  BY ONLY <1>1, <1>2, <1>4, <1>5, <1>6, <1>7, TypesFollow
<1>9. OwnStep(c)
  BY <1>2, <1>4, <1>5, <1>6 DEF OwnStep, committed
<1>10. RequestFits(c)'
  <2>1. CASE label \in {"replayed", "notFound"}
    <3>1. label # "assert" /\ pc'[c] \in Final
      BY <1>4, <2>1 DEF Final
    <3> QED BY <1>1, <1>2, <1>6, <3>1, OverFits DEF BookedIsDone
  <2>2. CASE label = "insert"
    <3>1. asked[c].op = "payment" /\ pc'[c] = "insert" /\ asked'[c].op = "payment"
      BY <1>2, <1>4, <2>2
    <3>2. AssertionsStand(c)'
      BY <1>6, <2>2, NothingAsserted
    <3>3. BooksStageFits(c)'
      BY <3>1 DEF BooksStageFits, InsertOps, Asserts
    <3>4. DatesStand(c)' /\ EditFits(c)' /\ NumberHeld(c)' /\ DraftFits(c)'
      BY <3>1 DEF DatesStand, EditFits, NumberHeld, DraftFits, Working, Asserts, DatedOps
    <3>5. BookedIsDone(c)'
      BY <1>1, <1>2 DEF BookedIsDone
    <3> QED BY <3>2, <3>3, <3>4, <3>5 DEF RequestFits
  <2>3. CASE label = "assert"
    <3>1. /\ pc'[c] = "assert" /\ asked' = asked /\ book' = book
          /\ asked[c].op \in DatedOps \cup {"editExpense"}
          /\ asked[c].op = "editExpense" => book[asked[c].target].kind = "expense"
      BY <1>2, <1>4, <2>3
    <3>2. AssertionsStand(c)'
      BY <1>6, <3>1, <2>3, NothingAsserted
    <3>3. BooksStageFits(c)'
      BY <3>1 DEF BooksStageFits
    <3>4. DatesStand(c)'
      BY <1>6, <2>3, <3>1 DEF DatesStand, Asserts
    <3>5. EditFits(c)' /\ NumberHeld(c)' /\ DraftFits(c)'
      BY <3>1 DEF EditFits, NumberHeld, DraftFits, Working
    <3>6. BookedIsDone(c)'
      BY <1>1, <1>2 DEF BookedIsDone
    <3> QED BY <3>2, <3>3, <3>4, <3>5, <3>6 DEF RequestFits
  <2> QED BY <1>3, <2>1, <2>2, <2>3
<1> QED BY <1>3, <1>4, <1>8, <1>9, <1>10, OwnStepKeeps

\* Every write begins one of these ways.
LEMMA BeginsKeep ==
  ASSUME BooksInv, NEW c \in Clients,
         \/ BeginExpense(c) \/ BeginInvoice(c) \/ BeginRefund(c) \/ BeginReconciliation(c)
         \/ BeginPayment(c) \/ BeginEdit(c)
  PROVE  BooksInv'
<1>1. ASSUME NEW op \in DatedOps, Begin(c, op, "assert", FALSE)
      PROVE  BooksInv'
  <2> DEFINE label == IF KeyStored(c) THEN "replayed" ELSE "assert"
  <2>1. /\ pc[c] = "idle" /\ asked[c].op = op /\ GoOn(c, label)
        /\ closedSince' = [closedSince EXCEPT ![c] = {}]
        /\ UNCHANGED <<committed, asked, draft, locks, late, astray>>
        /\ dated' = IF KeyStored(c) THEN dated ELSE [dated EXCEPT ![c] = <<FirstAsserted(c)>>]
    BY <1>1 DEF Begin
  <2>2. op # "editExpense"
    BY DEF DatedOps
  <2> QED BY <2>1, <2>2, BeginKeeps
<1>2. ASSUME BeginPayment(c) PROVE BooksInv'
  <2> DEFINE label == IF KeyStored(c) THEN "replayed" ELSE "insert"
  <2>1. /\ pc[c] = "idle" /\ asked[c].op = "payment" /\ GoOn(c, label)
        /\ closedSince' = [closedSince EXCEPT ![c] = {}]
        /\ UNCHANGED <<committed, asked, draft, locks, late, astray>>
        /\ dated' = dated
    BY <1>2 DEF Begin, BeginPayment
  <2> QED BY <2>1, BeginKeeps
<1>3. ASSUME BeginEdit(c) PROVE BooksInv'
  <2> DEFINE missing == book[asked[c].target].kind # "expense"
             label == IF missing THEN "notFound" ELSE "assert"
  <2>1. /\ pc[c] = "idle" /\ asked[c].op = "editExpense"
        /\ closedSince' = [closedSince EXCEPT ![c] = {}]
        /\ UNCHANGED <<committed, asked, draft, locks, late, astray>>
    BY <1>3 DEF Begin, BeginEdit
  <2>2. asked[c].key = NoKey
    BY <2>1, AskedIs DEF BooksInv, UpdateExpenseDto
  <2>3. ~KeyStored(c)
    BY <2>2 DEF KeyStored, SameKey
  <2>4. GoOn(c, label)
        /\ dated' = IF ~missing THEN [dated EXCEPT ![c] = <<FirstAsserted(c)>>] ELSE dated
    BY <1>3, <2>3 DEF Begin, BeginEdit
  <2>5. \/ label \in {"replayed", "notFound"} /\ UNCHANGED dated
        \/ /\ label = "assert" /\ book[asked[c].target].kind = "expense"
           /\ dated' = [dated EXCEPT ![c] = <<FirstAsserted(c)>>]
    BY <2>4
  <2> HIDE DEF label, missing
  <2> QED BY <2>1, <2>4, <2>5, BeginKeeps
<1> QED BY <1>1, <1>2, <1>3
        DEF BeginExpense, BeginInvoice, BeginRefund, BeginReconciliation, DatedOps

\* A close begins: it is a replay, or locks the period's row when there is one.
LEMMA BeginCloseKeeps ==
  ASSUME BooksInv, NEW c \in Clients, BeginClose(c)
  PROVE  BooksInv'
<1> DEFINE p == asked[c].day
           label == IF period[p] = "closed" THEN "replayed" ELSE "gaps"
<1>1. /\ pc[c] = "idle" /\ asked[c].op = "close" /\ GoOn(c, label)
      /\ closedSince' = [closedSince EXCEPT ![c] = {}]
      /\ UNCHANGED <<committed, asked, dated, draft, numberLock, rowLock, late, astray>>
      /\ \/ periodLock' = periodLock
         \/ period[p] = "open" /\ periodLock[p] = Nobody
            /\ periodLock' = [periodLock EXCEPT ![p] = c]
  BY DEF BeginClose
<1>2. BooksTypes /\ book[c] = NoRow /\ dated[c] = <<>>
  BY <1>1, NoRowYet DEF BooksInv, RequestFits, DatesStand
<1>3. UNCHANGED <<committed, asked, late>>
      /\ UNCHANGED <<period, book, dated, draft, numberLock, rowLock, astray>>
  BY <1>1 DEF committed
<1>4. label \in Labels /\ label \in {"replayed", "gaps"}
  BY DEF Labels, Final
<1>5. p \in PeriodKeys
  BY <1>1, <1>2, AskedIs DEF ClosePeriod
<1> HIDE DEF p, label
<1>6. /\ pc' \in [Clients -> Labels] /\ pc'[c] = label
      /\ \A d \in Clients \ {c} : pc'[d] = pc[d]
  BY <1>1, <1>2, <1>4 DEF BooksTypes, GoOn
<1>7. /\ closedSince' \in [Clients -> SUBSET PeriodKeys]
      /\ \A d \in Clients \ {c} : closedSince'[d] = closedSince[d]
  BY <1>1, <1>2 DEF BooksTypes
<1>8. /\ periodLock' \in [PeriodKeys -> Clients \cup {Nobody}]
      /\ \A q \in PeriodKeys : periodLock'[q] = periodLock[q] \/ periodLock[q] \in {Nobody, c}
  <2>1. CASE periodLock' = periodLock
    BY <1>2, <2>1 DEF BooksTypes
  <2>2. CASE periodLock[p] = Nobody /\ periodLock' = [periodLock EXCEPT ![p] = c]
    BY <1>2, <1>5, <2>2 DEF BooksTypes
  <2> QED BY <1>1, <2>1, <2>2
<1>9. /\ dated' \in [Clients -> Seq(PeriodKeys)]
      /\ draft' \in [Clients -> DraftRows]
      /\ numberLock' \in Clients \cup {Nobody}
      /\ rowLock' \in [Clients -> Clients \cup {Nobody}] /\ astray' \subseteq Clients
  BY <1>2, <1>3 DEF BooksTypes
<1>10. BooksTypes'
  BY ONLY <1>2, <1>3, <1>6, <1>7, <1>8, <1>9, TypesFollow
<1>11. OwnStep(c)
  BY <1>3, <1>6, <1>7, <1>8 DEF OwnStep, committed
<1>12. RequestFits(c)'
  <2>1. asked'[c].op = "close" /\ pc'[c] \in {"replayed", "gaps"} /\ dated'[c] = <<>>
    BY <1>1, <1>2, <1>3, <1>4, <1>6
  <2>2. AssertionsStand(c)'
    BY <2>1, NothingAsserted
  <2>3. BooksStageFits(c)' /\ DatesStand(c)' /\ EditFits(c)' /\ NumberHeld(c)' /\ DraftFits(c)'
    BY <2>1 DEF BooksStageFits, DatesStand, EditFits, NumberHeld, DraftFits, Working, Asserts
  <2>4. BookedIsDone(c)'
    BY <1>2, <1>3 DEF BookedIsDone
  <2> QED BY <2>2, <2>3, <2>4 DEF RequestFits
<1> QED BY <1>4, <1>6, <1>10, <1>11, <1>12, OwnStepKeeps
-----------------------------------------------------------------------------
(* Between the assertion and the commit.                                   *)

\* What stays of the assertions once they are made.
LEMMA AssertedOn ==
  ASSUME NEW c \in Clients, AssertionsStand(c),
         UNCHANGED <<period, dated, periodLock, closedSince>>,
         pc[c] \notin {"assert", "touch", "insertPeriod"},
         pc'[c] \notin {"assert", "touch", "insertPeriod"}
  PROVE  AssertionsStand(c)'
<1>1. Looked(c)' = Looked(c) /\ Ensured(c)' = Ensured(c)
  BY DEF Looked, Ensured
<1> QED BY <1>1 DEF AssertionsStand

\* The lookup of what a document refers to.
LEMMA ResolveKeeps ==
  ASSUME BooksInv, NEW c \in Clients, Resolve(c)
  PROVE  BooksInv'
<1> DEFINE label == IF asked[c].op = "invoice" THEN "rate" ELSE "insert"
<1>1. pc[c] = "resolve" /\ pc[c] # "done"
  BY DEF Resolve
<1>2. CASE Leave(c, "rejected")
  BY <1>1, <1>2, LeaveKeeps
<1>3. CASE /\ asked[c].op = "reconcile" => EveryLineHasAParcel(c)
           /\ GoOn(c, label) /\ UNCHANGED <<committed, history, asked, dated, draft, locks>>
  <2>1. label \in Labels /\ label \in {"rate", "insert"}
    BY DEF Labels
  <2>2. BooksStageFits(c) /\ DatesStand(c) /\ AssertionsStand(c) /\ EditFits(c) /\ book[c] = NoRow
    BY <1>1, NoRowYet DEF BooksInv, RequestFits
  <2>3. pc'[c] = label /\ asked[c].op \in DatedOps \ {"expense"}
    BY <1>1, <1>3, <2>2 DEF GoOn, BooksInv, BooksTypes, BooksStageFits
  <2>4. UNCHANGED <<period, book, asked, dated, draft, closedSince, periodLock, numberLock>>
    BY <1>3 DEF committed, history, locks
  <2>5. AssertionsStand(c)'
    BY <1>1, <2>1, <2>2, <2>3, <2>4, AssertedOn
  <2>6. BooksStageFits(c)' /\ DatesStand(c)'
    BY <1>1, <2>2, <2>3, <2>4
       DEF BooksStageFits, DatesStand, Asserts, Working, DatedOps, InsertOps
  <2>7. EditFits(c)' /\ BookedIsDone(c)' /\ NumberHeld(c)'
    BY <2>2, <2>3, <2>4 DEF EditFits, BookedIsDone, NumberHeld, DatedOps
  <2>8. DraftFits(c)'
    <3>1. asked[c].op = "reconcile" => EveryLineHasAParcel(c)
      BY <1>3
    <3>2. EveryLineHasAParcel(c)' = EveryLineHasAParcel(c)
      BY <2>4 DEF EveryLineHasAParcel
    <3> QED BY <2>3, <2>4, <3>1, <3>2 DEF DraftFits
  <2>9. RequestFits(c)'
    BY <2>5, <2>6, <2>7, <2>8 DEF RequestFits
  <2> HIDE DEF label
  <2> QED BY <1>3, <2>1, <2>9, MoveKeeps
<1> QED BY <1>2, <1>3 DEF Resolve

\* Adding half a unit before the division rounds half up.
HalfUp(e) == (e + 5000) \div 10000

LEMMA HalfUpRounds ==
  ASSUME NEW e \in Nat
  PROVE  HalfUp(e) \in Nat /\ Rounded(HalfUp(e), e)
<1>1. PICK n \in Nat : n = e + 5000
  OBVIOUS
<1>2. PICK q : q = n \div 10000
  OBVIOUS
<1>3. q \in Nat /\ 10000 * q <= n /\ n < 10000 * q + 10000
  BY ONLY <1>1, <1>2, SMTT(60)
<1>4. Rounded(q, e)
  BY ONLY <1>1, <1>3, e \in Nat, SMTT(60) DEF Rounded
<1> QED BY ONLY <1>1, <1>2, <1>3, <1>4, SMTT(60) DEF HalfUp

\* VAT is the exact amount rounded half up.
LEMMA VatRounds ==
  ASSUME NEW subtotal \in Nat, NEW bps \in Nat
  PROVE  /\ ComputeVat(subtotal, bps) \in Nat
         /\ Rounded(ComputeVat(subtotal, bps), ExactVat(subtotal, bps))
<1>1. \A x, y \in Nat : x * y \in Nat
  OBVIOUS
<1>2. ExactVat(subtotal, bps) \in Nat
  BY ONLY <1>1, subtotal \in Nat, bps \in Nat DEF ExactVat
<1>3. ComputeVat(subtotal, bps) = HalfUp(ExactVat(subtotal, bps))
  BY ONLY SMTT(60) DEF ComputeVat, HalfUp
<1> QED BY ONLY <1>2, <1>3, HalfUpRounds

\* The totals of an invoice.
LEMMA ReadRateKeeps ==
  ASSUME BooksInv, NEW c \in Clients, ReadRate(c)
  PROVE  BooksInv'
<1> DEFINE subtotal == Subtotal(BilledLines(c))
           vat == ComputeVat(subtotal, rate)
           totals == [kind |-> "invoice", amount |-> subtotal, bps |-> rate, vat |-> vat]
<1>1. /\ pc[c] = "rate" /\ pc[c] # "done" /\ draft' = [draft EXCEPT ![c] = totals]
      /\ GoOn(c, "number") /\ UNCHANGED <<committed, history, asked, dated, locks>>
  BY DEF ReadRate
<1>2. /\ BooksTypes /\ BooksStageFits(c) /\ DatesStand(c) /\ AssertionsStand(c)
      /\ book[c] = NoRow /\ rate \in Rates
  BY <1>1, NoRowYet DEF BooksInv, RequestFits, InvoicesAreNumbered
<1>3. asked[c].op = "invoice" /\ rate \in BasisPoints
  BY <1>1, <1>2 DEF BooksStageFits, BooksTypes
<1>4. BilledLines(c) \in Seq(CreateInvoiceLineDto)
  <2>1. asked[c].lines \in Seq(CreateInvoiceLineDto)
    BY <1>2, <1>3, AskedIs DEF CreateInvoiceDto
  <2>2. \A o \in DOMAIN OrderItems : OrderItems[o] \in Seq(CreateInvoiceLineDto)
    BY PeriodAssumption DEF Range
  <2>3. <<>> \in Seq(CreateInvoiceLineDto)
    OBVIOUS
  <2> QED BY <2>1, <2>2, <2>3 DEF BilledLines
<1>5. subtotal \in Nat
  BY <1>4, TotalsAreUnits
<1>6. vat \in Nat /\ Rounded(vat, ExactVat(subtotal, rate))
  <2>1. rate \in Nat
    BY <1>3 DEF BasisPoints
  <2> HIDE DEF subtotal
  <2> QED BY ONLY <1>5, <2>1, VatRounds, Zenon
<1>7. totals \in InvoiceTotals /\ VatFits(totals)
  BY ONLY <1>2, <1>3, <1>5, <1>6 DEF InvoiceTotals, VatFits
<1> HIDE DEF totals
<1>8. /\ UNCHANGED <<committed, asked, late>>
      /\ UNCHANGED <<period, book, dated, periodLock, numberLock, rowLock, closedSince, astray>>
  BY <1>1 DEF committed, history, locks
<1>9. /\ pc' \in [Clients -> Labels] /\ pc'[c] = "number"
      /\ \A d \in Clients \ {c} : pc'[d] = pc[d]
  BY <1>1, <1>2 DEF BooksTypes, GoOn, Labels
<1>10. /\ draft' \in [Clients -> DraftRows] /\ draft'[c] = totals
       /\ \A d \in Clients \ {c} : draft'[d] = draft[d]
  BY <1>1, <1>2, <1>7 DEF BooksTypes, DraftRows
<1>11. /\ dated' \in [Clients -> Seq(PeriodKeys)]
       /\ periodLock' \in [PeriodKeys -> Clients \cup {Nobody}]
       /\ numberLock' \in Clients \cup {Nobody}
       /\ rowLock' \in [Clients -> Clients \cup {Nobody}]
       /\ closedSince' \in [Clients -> SUBSET PeriodKeys] /\ astray' \subseteq Clients
  <2>1. UNCHANGED <<dated, periodLock, numberLock, rowLock, closedSince, astray>> /\ BooksTypes
    BY <1>2, <1>8
  <2> QED BY ONLY <2>1 DEF BooksTypes
<1>12. BooksTypes'
  BY ONLY <1>2, <1>8, <1>9, <1>10, <1>11, TypesFollow
<1>13. OwnStep(c)
  BY <1>8, <1>9, <1>10 DEF OwnStep, committed
<1>14. RequestFits(c)'
  <2>1. AssertionsStand(c)'
    BY <1>1, <1>2, <1>8, <1>9, AssertedOn
  <2>2. BooksStageFits(c)' /\ DatesStand(c)'
    BY <1>1, <1>2, <1>3, <1>8, <1>9 DEF BooksStageFits, DatesStand, Asserts, Working, DatedOps
  <2>3. EditFits(c)' /\ BookedIsDone(c)' /\ NumberHeld(c)'
    BY <1>2, <1>3, <1>8, <1>9 DEF EditFits, BookedIsDone, NumberHeld
  <2>4. VatFits(draft[c])'
    BY <1>7, <1>8, <1>10 DEF VatFits, Rates
  <2>5. DraftFits(c)'
    BY <1>7, <1>9, <1>10, <2>4 DEF DraftFits
  <2> QED BY <2>1, <2>2, <2>3, <2>5 DEF RequestFits
<1> QED BY <1>9, <1>12, <1>13, <1>14, OwnStepKeeps

\* The invoice's number is taken with the row lock of the sequence.
LEMMA IssueNumberKeeps ==
  ASSUME BooksInv, NEW c \in Clients, IssueNumber(c)
  PROVE  BooksInv'
<1>1. /\ pc[c] = "number" /\ pc[c] # "done" /\ numberLock = Nobody /\ numberLock' = c
      /\ GoOn(c, "insert")
      /\ UNCHANGED <<committed, history, asked, dated, draft, periodLock, rowLock>>
  BY DEF IssueNumber
<1>2. /\ BooksTypes /\ BooksStageFits(c) /\ DatesStand(c) /\ AssertionsStand(c) /\ DraftFits(c)
      /\ book[c] = NoRow
  BY <1>1, NoRowYet DEF BooksInv, RequestFits
<1>3. asked[c].op = "invoice" /\ draft[c] \in InvoiceTotals /\ VatFits(draft[c])
  BY <1>1, <1>2 DEF BooksStageFits, DraftFits
<1>4. /\ UNCHANGED <<committed, asked, late>>
      /\ UNCHANGED <<period, book, dated, draft, periodLock, rowLock, closedSince, astray>>
  BY <1>1 DEF committed, history
<1>5. /\ pc' \in [Clients -> Labels] /\ pc'[c] = "insert"
      /\ \A d \in Clients \ {c} : pc'[d] = pc[d]
  BY <1>1, <1>2 DEF BooksTypes, GoOn, Labels
<1>6. /\ dated' \in [Clients -> Seq(PeriodKeys)]
      /\ draft' \in [Clients -> DraftRows]
      /\ periodLock' \in [PeriodKeys -> Clients \cup {Nobody}]
      /\ rowLock' \in [Clients -> Clients \cup {Nobody}]
      /\ closedSince' \in [Clients -> SUBSET PeriodKeys] /\ astray' \subseteq Clients
  <2>1. UNCHANGED <<dated, draft, periodLock, rowLock, closedSince, astray>> /\ BooksTypes
    BY <1>2, <1>4
  <2> QED BY ONLY <2>1 DEF BooksTypes
<1>7. numberLock' \in Clients \cup {Nobody}
  BY <1>1
<1>8. BooksTypes'
  BY ONLY <1>2, <1>4, <1>5, <1>6, <1>7, TypesFollow
<1>9. OwnStep(c)
  BY <1>1, <1>4, <1>5 DEF OwnStep, committed
<1>10. RequestFits(c)'
  <2>1. AssertionsStand(c)'
    BY <1>1, <1>2, <1>4, <1>5, AssertedOn
  <2>2. BooksStageFits(c)' /\ DatesStand(c)'
    BY <1>1, <1>2, <1>3, <1>4, <1>5
       DEF BooksStageFits, DatesStand, Asserts, Working, DatedOps, InsertOps
  <2>3. EditFits(c)' /\ BookedIsDone(c)' /\ NumberHeld(c)'
    BY <1>1, <1>2, <1>3, <1>4, <1>5 DEF EditFits, BookedIsDone, NumberHeld
  <2>4. VatFits(draft[c])'
    <3>1. VatFits(draft[c])' = VatFits(draft[c])
      BY ONLY <1>4 DEF VatFits, Rates
    <3> QED BY <1>3, <3>1
  <2>5. DraftFits(c)'
    BY <1>3, <1>4, <1>5, <2>4 DEF DraftFits
  <2> QED BY <2>1, <2>2, <2>3, <2>5 DEF RequestFits
<1> QED BY <1>5, <1>8, <1>9, <1>10, OwnStepKeeps
\* The rows a write may make.
LEMMA CashRowIs ==
  ASSUME NEW k \in {"expense", "payment", "refund"}, NEW p \in PeriodKeys, NEW a \in Nat,
         NEW r, r = [kind |-> k, period |-> p, amount |-> a]
  PROVE  r \in Row /\ r.kind = k
<1>1. r \in CashRow /\ r.kind = k
  BY DEF CashRow
<1> QED BY <1>1 DEF Row

\* ... a reconciliation.
LEMMA ReconciliationRowIs ==
  ASSUME NEW p \in PeriodKeys, NEW a \in Nat, NEW v \in Int,
         NEW r, r = [kind |-> "reconcile", period |-> p, amount |-> a, variance |-> v]
  PROVE  r \in Row /\ r.kind = "reconcile"
<1>1. r \in ReconciliationRow /\ r.kind = "reconcile"
  BY DEF ReconciliationRow
<1> QED BY <1>1 DEF Row

\* What the totals of an invoice have.
LEMMA TotalsHave ==
  ASSUME NEW r \in InvoiceTotals
  PROVE  r.amount \in Nat /\ r.bps \in BasisPoints /\ r.vat \in Nat
BY DEF InvoiceTotals

\* The row a request inserts is its own.
LEMMA NewRowIs ==
  ASSUME BooksTypes, NEW c \in Clients, asked[c].op \in InsertOps,
         asked[c].op = "invoice" => draft[c] \in InvoiceTotals,
         asked[c].op = "reconcile" => EveryLineHasAParcel(c)
  PROVE  /\ NewRow(c) \in Row /\ NewRow(c).kind = asked[c].op
         /\ asked[c].op = "invoice" =>
              /\ NewRow(c).number = nextNumber /\ NewRow(c).amount = draft[c].amount
              /\ NewRow(c).bps = draft[c].bps /\ NewRow(c).vat = draft[c].vat
<1>1. month \in PeriodKeys /\ nextNumber \in Nat \ {0}
  BY DEF BooksTypes
<1>2. CASE asked[c].op = "invoice"
  <2> DEFINE row == NewRow(c)
  <2>1. PICK a, b, v : a = draft[c].amount /\ b = draft[c].bps /\ v = draft[c].vat
    OBVIOUS
  <2>2. a \in Nat /\ b \in BasisPoints /\ v \in Nat
    <3>1. draft[c] \in InvoiceTotals
      BY <1>2
    <3> QED BY <2>1, <3>1, TotalsHave
  <2>3. row = [kind |-> "invoice", period |-> month, amount |-> a, bps |-> b, vat |-> v,
               number |-> nextNumber]
    BY <1>2, <2>1 DEF NewRow
  <2> HIDE DEF row
  <2>4. row \in InvoiceRow
    BY ONLY <1>1, <2>2, <2>3 DEF InvoiceRow
  <2>5. /\ row.kind = "invoice" /\ row.number = nextNumber
        /\ row.amount = a /\ row.bps = b /\ row.vat = v
    BY ONLY <2>3
  <2>6. row \in Row
    BY <2>4 DEF Row
  <2> QED BY <1>2, <2>1, <2>5, <2>6 DEF row
<1>3. CASE asked[c].op = "reconcile"
  <2> DEFINE stated == Stated(asked[c].lines)
             fees == Fees(asked[c].lines)
  <2>1. asked[c].lines \in Seq(CreateReconciliationLineDto)
    BY <1>3, AskedIs DEF CreateReconciliationDto
  <2>2. stated \in Nat /\ fees \in Nat
    BY <1>3, <2>1, TotalsAreUnits DEF EveryLineHasAParcel
  <2>3. NewRow(c) = [kind |-> "reconcile", period |-> month, amount |-> stated,
                     variance |-> stated - fees]
    BY <1>3 DEF NewRow
  <2> HIDE DEF stated, fees
  <2>4. stated - fees \in Int
    BY <2>2
  <2>5. NewRow(c) \in Row /\ NewRow(c).kind = "reconcile"
    BY ONLY <1>1, <2>2, <2>3, <2>4, ReconciliationRowIs
  <2> QED BY <1>3, <2>5
<1>4. CASE asked[c].op \in {"refund", "expense", "payment"}
  <2>1. \/ asked[c] \in CreateRefundDto \/ asked[c] \in CreateExpenseDto
        \/ asked[c] \in CreatePaymentDto
    BY <1>4, AskedIs
  <2>2. asked[c].amount \in Nat
    BY <2>1 DEF CreateRefundDto, CreateExpenseDto, CreatePaymentDto, Amounts
  <2>3. PICK day \in PeriodKeys :
          NewRow(c) = [kind |-> asked[c].op, period |-> day, amount |-> asked[c].amount]
    <3>1. CASE asked[c].op = "refund"
      BY <1>1, <3>1 DEF NewRow
    <3>2. CASE asked[c].op \in {"expense", "payment"}
      <4>1. asked[c].day \in PeriodKeys \/ asked[c].day = Absent
        BY <3>2, AskedIs DEF CreateExpenseDto, CreatePaymentDto
      <4>2. NewRow(c) = [kind |-> asked[c].op, amount |-> asked[c].amount,
                         period |-> IF asked[c].day = Absent THEN month ELSE asked[c].day]
        BY <3>2 DEF NewRow
      <4> QED BY <1>1, <4>1, <4>2
    <3> QED BY <1>4, <3>1, <3>2
  <2>4. NewRow(c) \in Row /\ NewRow(c).kind = asked[c].op
    BY ONLY <1>4, <2>2, <2>3, CashRowIs
  <2> QED BY <1>4, <2>4
<1> QED BY <1>2, <1>3, <1>4 DEF InsertOps, DatedOps

\* The insert.
LEMMA InsertKeeps ==
  ASSUME BooksInv, NEW c \in Clients, Insert(c)
  PROVE  BooksInv'
<1> DEFINE row == NewRow(c)
<1>1. /\ pc[c] = "insert" /\ pc[c] # "done" /\ draft' = [draft EXCEPT ![c] = row]
      /\ astray' = IF dated[c] # <<>> /\ row.period # Asserting(c)
                   THEN astray \cup {c} ELSE astray
      /\ GoOn(c, "written")
      /\ UNCHANGED <<committed, asked, dated, locks, closedSince, late>>
  BY DEF Insert
<1>2. /\ BooksTypes /\ BooksStageFits(c) /\ DatesStand(c) /\ AssertionsStand(c) /\ DraftFits(c)
      /\ NumberHeld(c) /\ book[c] = NoRow
  BY <1>1, NoRowYet DEF BooksInv, RequestFits
<1>3. /\ asked[c].op \in InsertOps
      /\ asked[c].op = "invoice" =>
           draft[c] \in InvoiceTotals /\ VatFits(draft[c]) /\ numberLock = c
      /\ asked[c].op = "reconcile" => EveryLineHasAParcel(c)
  BY <1>1, <1>2 DEF BooksStageFits, DraftFits, NumberHeld
<1>4. /\ row \in Row /\ row.kind = asked[c].op
      /\ asked[c].op = "invoice" =>
           /\ row.number = nextNumber /\ row.amount = draft[c].amount
           /\ row.bps = draft[c].bps /\ row.vat = draft[c].vat
  BY <1>2, <1>3, NewRowIs
<1> HIDE DEF row
<1>5. /\ UNCHANGED <<committed, asked, late>>
      /\ UNCHANGED <<period, book, nextNumber, dated, periodLock, numberLock, rowLock, closedSince>>
  BY <1>1 DEF committed, locks
<1>6. /\ pc' \in [Clients -> Labels] /\ pc'[c] = "written"
      /\ \A d \in Clients \ {c} : pc'[d] = pc[d]
  BY <1>1, <1>2 DEF BooksTypes, GoOn, Labels
<1>7. /\ draft' \in [Clients -> DraftRows] /\ draft'[c] = row
      /\ \A d \in Clients \ {c} : draft'[d] = draft[d]
  BY <1>1, <1>2, <1>4 DEF BooksTypes, DraftRows
<1>8. /\ dated' \in [Clients -> Seq(PeriodKeys)]
      /\ periodLock' \in [PeriodKeys -> Clients \cup {Nobody}]
      /\ numberLock' \in Clients \cup {Nobody}
      /\ rowLock' \in [Clients -> Clients \cup {Nobody}]
      /\ closedSince' \in [Clients -> SUBSET PeriodKeys]
  <2>1. UNCHANGED <<dated, periodLock, numberLock, rowLock, closedSince>>
    BY <1>5
  <2>2. BooksTypes
    BY <1>2
  <2> QED BY ONLY <2>1, <2>2 DEF BooksTypes
<1>9. astray' \subseteq Clients /\ astray' \in {astray, astray \cup {c}}
  BY <1>1, <1>2 DEF BooksTypes
<1>10. BooksTypes'
  BY ONLY <1>2, <1>5, <1>6, <1>7, <1>8, <1>9, TypesFollow
<1>11. OwnStep(c)
  BY <1>5, <1>6, <1>7, <1>9 DEF OwnStep, committed
<1>12. AssertionsStand(c)'
  BY <1>1, <1>2, <1>5, <1>6, AssertedOn
<1>13. BooksStageFits(c)' /\ DatesStand(c)'
  BY <1>1, <1>2, <1>3, <1>5, <1>6
     DEF BooksStageFits, DatesStand, Asserts, Working, DatedOps, InsertOps
<1>14. EditFits(c)' /\ BookedIsDone(c)'
  BY <1>2, <1>3, <1>5, <1>6 DEF EditFits, BookedIsDone, InsertOps, DatedOps
<1>15. asked[c].op \in DatedOps /\ c \notin astray' => row.period \in Range(dated[c])
  <2>1. SUFFICES ASSUME asked[c].op \in DatedOps, c \notin astray'
                 PROVE  row.period \in Range(dated[c])
    OBVIOUS
  <2>2. dated[c] # <<>> /\ dated[c] \in Seq(PeriodKeys)
    BY <1>1, <1>2, <2>1 DEF DatesStand, Working, BooksTypes
  <2>3. Asserting(c) \in Range(dated[c])
    BY <2>2 DEF Asserting, Last, Range
  <2>4. row.period = Asserting(c)
    BY <1>1, <2>1, <2>2
  <2> QED BY <2>3, <2>4
<1>16. DraftFits(c)'
  BY <1>4, <1>5, <1>6, <1>7, <1>15 DEF DraftFits
<1>17. NumberHeld(c)'
  <2>1. SUFFICES ASSUME asked[c].op = "invoice" PROVE NumberHeld(c)'
    BY <1>5 DEF NumberHeld
  <2>2. VatFits(draft[c])'
    BY <1>3, <1>4, <1>5, <1>7, <2>1 DEF VatFits, Rates
  <2> QED BY <1>3, <1>4, <1>5, <1>6, <1>7, <2>1, <2>2 DEF NumberHeld
<1>18. RequestFits(c)'
  BY <1>12, <1>13, <1>14, <1>16, <1>17 DEF RequestFits
<1>19. asked[c].op # "close"
  BY <1>3 DEF InsertOps, DatedOps
<1> QED BY <1>10, <1>11, <1>18, <1>19, OwnStepKeeps

\* The edit of an expense.
LEMMA EditRowKeeps ==
  ASSUME BooksInv, NEW c \in Clients, EditRow(c)
  PROVE  BooksInv'
<1> DEFINE r == asked[c].target
           row == Patched(book[r], asked[c])
<1>1. /\ pc[c] = "edit" /\ pc[c] # "done" /\ rowLock[r] = Nobody
      /\ rowLock' = [rowLock EXCEPT ![r] = c] /\ draft' = [draft EXCEPT ![c] = row]
      /\ astray' = IF book[r].period \in Range(dated[c]) THEN astray ELSE astray \cup {c}
      /\ GoOn(c, "written")
      /\ UNCHANGED <<committed, asked, dated, periodLock, numberLock, closedSince, late>>
  BY DEF EditRow
<1>2. /\ BooksTypes /\ BooksStageFits(c) /\ DatesStand(c) /\ AssertionsStand(c) /\ EditFits(c)
      /\ book[c] = NoRow
  BY <1>1, NoRowYet DEF BooksInv, RequestFits
<1>3. asked[c].op = "editExpense" /\ book[r].kind = "expense"
  BY <1>1, <1>2 DEF BooksStageFits, EditFits, Working
<1>4. asked[c] \in UpdateExpenseDto /\ r \in Clients
  BY <1>2, <1>3, AskedIs DEF UpdateExpenseDto
<1>5. book[r] \in Row
  BY <1>2, <1>3, <1>4, BookHas DEF RowOps
<1>6. /\ row \in Row /\ row.kind = "expense"
      /\ row.period = IF asked[c].day = Absent THEN book[r].period ELSE asked[c].day
  BY <1>3, <1>4, <1>5, PatchedIs
<1>7. asked[c].day # Absent => asked[c].day \in Range(dated[c])
  BY <1>1, <1>2, <1>3 DEF DatesStand
<1> HIDE DEF row, r
<1>8. /\ UNCHANGED <<committed, asked, late>>
      /\ UNCHANGED <<period, book, nextNumber, dated, periodLock, numberLock, closedSince>>
  BY <1>1 DEF committed
<1>9. /\ pc' \in [Clients -> Labels] /\ pc'[c] = "written"
      /\ \A d \in Clients \ {c} : pc'[d] = pc[d]
  BY <1>1, <1>2 DEF BooksTypes, GoOn, Labels
<1>10. /\ draft' \in [Clients -> DraftRows] /\ draft'[c] = row
       /\ \A d \in Clients \ {c} : draft'[d] = draft[d]
  BY <1>1, <1>2, <1>6 DEF BooksTypes, DraftRows
<1>11. /\ rowLock' \in [Clients -> Clients \cup {Nobody}] /\ rowLock'[r] = c
       /\ \A q \in Clients : rowLock'[q] = rowLock[q] \/ rowLock[q] = Nobody
  BY <1>1, <1>2, <1>4 DEF BooksTypes
<1>12. /\ dated' \in [Clients -> Seq(PeriodKeys)]
       /\ periodLock' \in [PeriodKeys -> Clients \cup {Nobody}]
       /\ numberLock' \in Clients \cup {Nobody}
       /\ closedSince' \in [Clients -> SUBSET PeriodKeys]
  <2>1. UNCHANGED <<dated, periodLock, numberLock, closedSince>>
    BY <1>8
  <2>2. BooksTypes
    BY <1>2
  <2> QED BY ONLY <2>1, <2>2 DEF BooksTypes
<1>13. astray' \subseteq Clients /\ astray' \in {astray, astray \cup {c}}
  BY <1>1, <1>2 DEF BooksTypes
<1>14. BooksTypes'
  BY ONLY <1>2, <1>8, <1>9, <1>10, <1>11, <1>12, <1>13, TypesFollow
<1>15. OwnStep(c)
  BY <1>8, <1>9, <1>10, <1>11, <1>13 DEF OwnStep, committed
<1>16. AssertionsStand(c)'
  BY <1>1, <1>2, <1>8, <1>9, AssertedOn
<1>17. BooksStageFits(c)' /\ DatesStand(c)' /\ DraftFits(c)' /\ NumberHeld(c)'
  BY <1>1, <1>2, <1>3, <1>8, <1>9
     DEF BooksStageFits, DatesStand, DraftFits, NumberHeld, Asserts, Working, DatedOps, InsertOps
<1>18. BookedIsDone(c)'
  BY <1>2, <1>8 DEF BookedIsDone
<1>19. EditFits(c)'
  <2>1. asked'[c].target = r /\ book'[r].kind = "expense"
    BY <1>3, <1>8 DEF r
  <2>2. draft'[c] \in Row /\ draft'[c].kind = "expense"
        /\ draft'[c].period \in {book'[r].period} \cup Range(dated'[c])
    BY <1>6, <1>7, <1>8, <1>10
  <2>3. c \notin astray' => book'[r].period \in Range(dated'[c])
    BY <1>1, <1>8
  <2> QED BY <1>11, <2>1, <2>2, <2>3 DEF EditFits
<1>20. RequestFits(c)'
  BY <1>16, <1>17, <1>18, <1>19 DEF RequestFits
<1> QED BY <1>3, <1>14, <1>15, <1>20, OwnStepKeeps

\* The other steps of a transaction that is not about to commit: the conflict on
\* the key, the gap check, the upsert of a close, the death of the process.
LEMMA OtherStepsKeep ==
  ASSUME BooksInv, NEW c \in Clients,
         KeyConflict(c) \/ CheckGaps(c) \/ UpsertClosed(c) \/ Crash(c)
  PROVE  BooksInv'
<1>1. ASSUME KeyConflict(c) PROVE BooksInv'
  BY <1>1, LeaveKeeps DEF KeyConflict
<1>2. ASSUME Crash(c) PROVE BooksInv'
  BY <1>2, LeaveKeeps DEF Crash, Final
<1>3. ASSUME CheckGaps(c) PROVE BooksInv'
  <2>1. pc[c] = "gaps" /\ pc[c] # "done"
    BY <1>3 DEF CheckGaps
  <2>2. CASE \E p \in PeriodKeys : p < asked[c].day /\ period[p] = "open"
    BY <1>3, <2>1, <2>2, LeaveKeeps DEF CheckGaps
  <2>3. CASE ~\E p \in PeriodKeys : p < asked[c].day /\ period[p] = "open"
    <3>1. GoOn(c, "close") /\ UNCHANGED <<committed, history, asked, dated, draft, locks>>
      BY <1>3, <2>3 DEF CheckGaps
    <3>2. BooksStageFits(c) /\ AssertionsStand(c) /\ book[c] = NoRow
      BY <2>1, NoRowYet DEF BooksInv, RequestFits
    <3>3. pc'[c] = "close" /\ asked[c].op = "close" /\ "close" \in Labels
      BY <2>1, <3>1, <3>2 DEF GoOn, BooksInv, BooksTypes, BooksStageFits, Labels
    <3>4. UNCHANGED <<period, book, asked, dated, closedSince, periodLock>>
      BY <3>1 DEF committed, history, locks
    <3>5. AssertionsStand(c)'
      BY <2>1, <3>2, <3>3, <3>4, AssertedOn
    <3>6. BooksStageFits(c)' /\ DatesStand(c)' /\ EditFits(c)' /\ NumberHeld(c)' /\ DraftFits(c)'
      BY <3>3, <3>4
         DEF BooksStageFits, DatesStand, EditFits, NumberHeld, DraftFits, Working, Asserts
    <3>7. BookedIsDone(c)'
      BY <3>2, <3>4 DEF BookedIsDone
    <3>8. RequestFits(c)'
      BY <3>5, <3>6, <3>7 DEF RequestFits
    <3> QED BY <2>3, <3>1, <3>3, <3>8, MoveKeeps
  <2> QED BY <2>2, <2>3
<1>4. ASSUME UpsertClosed(c) PROVE BooksInv'
  <2> DEFINE p == asked[c].day
  <2>1. /\ pc[c] = "close" /\ pc[c] # "done" /\ periodLock[p] \in {Nobody, c}
        /\ periodLock' = [periodLock EXCEPT ![p] = c] /\ GoOn(c, "written")
        /\ UNCHANGED <<committed, history, asked, dated, draft, numberLock, rowLock>>
    BY <1>4 DEF UpsertClosed
  <2>2. BooksTypes /\ BooksStageFits(c) /\ AssertionsStand(c) /\ book[c] = NoRow /\ ClosesFit
    BY <2>1, NoRowYet DEF BooksInv, RequestFits
  <2>3. asked[c].op = "close" /\ p \in PeriodKeys
    BY <2>1, <2>2, AskedIs DEF BooksStageFits, ClosePeriod
  <2> HIDE DEF p
  <2>4. /\ UNCHANGED <<committed, asked, late>>
        /\ UNCHANGED <<period, book, dated, draft, numberLock, rowLock, closedSince, astray>>
    BY <2>1 DEF committed, history
  <2>5. /\ pc' \in [Clients -> Labels] /\ pc'[c] = "written"
        /\ \A d \in Clients \ {c} : pc'[d] = pc[d]
    BY <2>1, <2>2 DEF BooksTypes, GoOn, Labels
  <2>6. /\ periodLock' \in [PeriodKeys -> Clients \cup {Nobody}]
        /\ \A q \in PeriodKeys : \/ periodLock'[q] = periodLock[q]
                                 \/ periodLock[q] \in {Nobody, c} /\ periodLock'[q] = c
    BY <2>1, <2>2, <2>3 DEF BooksTypes
  <2>7. /\ dated' \in [Clients -> Seq(PeriodKeys)]
        /\ draft' \in [Clients -> DraftRows]
        /\ numberLock' \in Clients \cup {Nobody}
        /\ rowLock' \in [Clients -> Clients \cup {Nobody}]
        /\ closedSince' \in [Clients -> SUBSET PeriodKeys] /\ astray' \subseteq Clients
    <3>1. UNCHANGED <<dated, draft, numberLock, rowLock, closedSince, astray>>
      BY <2>4
    <3>2. BooksTypes
      BY <2>2
    <3> QED BY ONLY <3>1, <3>2 DEF BooksTypes
  <2>8. BooksTypes'
    BY ONLY <2>2, <2>4, <2>5, <2>6, <2>7, TypesFollow
  <2>9. OwnStep(c)
    BY <2>4, <2>5, <2>6 DEF OwnStep, committed
  <2>10. AssertionsStand(c)'
    <3>1. dated[c] \in Seq(PeriodKeys)
      BY <2>2 DEF BooksTypes
    <3>2. Looked(c) = 1..Len(dated[c]) /\ Ensured(c) = 1..Len(dated[c])
          /\ Looked(c)' = 1..Len(dated[c]) /\ Ensured(c)' = 1..Len(dated[c])
      BY <2>1, <2>4, <2>5 DEF Looked, Ensured
    <3>3. \A i \in 1..Len(dated[c]) : dated[c][i] \in PeriodKeys
      BY <3>1
    <3>4. \A q \in PeriodKeys : periodLock[q] = c => periodLock'[q] = c
      BY <2>6
    <3> QED BY <2>2, <2>4, <3>2, <3>3, <3>4 DEF AssertionsStand
  <2>11. BooksStageFits(c)' /\ DatesStand(c)' /\ EditFits(c)' /\ NumberHeld(c)' /\ DraftFits(c)'
    BY <2>3, <2>4, <2>5
       DEF BooksStageFits, DatesStand, EditFits, NumberHeld, DraftFits, Working, Asserts,
           DatedOps, InsertOps
  <2>12. BookedIsDone(c)'
    BY <2>2, <2>4 DEF BookedIsDone
  <2>13. RequestFits(c)'
    BY <2>10, <2>11, <2>12 DEF RequestFits
  <2>14. \A q \in PeriodKeys : q < asked[c].day /\ period[q] = "open" => q \in late
    BY <2>1, <2>2, <2>3 DEF ClosesFit
  <2> QED BY <2>8, <2>9, <2>13, <2>14, OwnStepKeeps
<1> QED BY <1>1, <1>2, <1>3, <1>4
-----------------------------------------------------------------------------
(* The commits.                                                            *)

\* The date of a row about to be committed has its period by then.
LEMMA DatedHasPeriod ==
  ASSUME BooksInv, NEW c \in Clients, pc[c] = "written", NEW p \in Range(dated[c])
  PROVE  p \in PeriodKeys /\ (period[p] # "absent" \/ p \in Touched(c))
<1>1. dated[c] \in Seq(PeriodKeys) /\ AssertionsStand(c)
  BY DEF BooksInv, BooksTypes, RequestFits
<1>2. PICK i \in 1..Len(dated[c]) : p = dated[c][i]
  BY <1>1 DEF Range
<1>3. p \in PeriodKeys /\ i \in Ensured(c)
  BY <1>1, <1>2 DEF Ensured
<1> QED BY <1>1, <1>2, <1>3 DEF AssertionsStand, Touched

\* What a write is about to commit, and where.
LEMMA WrittenIs ==
  ASSUME BooksInv, NEW c \in Clients, pc[c] = "written", asked[c].op # "close",
         NEW row, row = IF asked[c].op = "editExpense" THEN asked[c].target ELSE c
  PROVE  /\ row \in Clients /\ draft[c] \in Row /\ book[c] = NoRow
         /\ asked[c].op \in InsertOps => row = c /\ draft[c].kind = asked[c].op
         /\ asked[c].op \notin InsertOps =>
              /\ asked[c].op = "editExpense" /\ row = asked[c].target /\ row # c
              /\ draft[c].kind = "expense" /\ book[row].kind = "expense" /\ rowLock[row] = c
              /\ draft[c].period \in {book[row].period} \cup Range(dated[c])
<1>1. /\ BooksTypes /\ BooksStageFits(c) /\ DraftFits(c) /\ EditFits(c) /\ book[c] = NoRow
  BY NoRowYet DEF BooksInv, RequestFits
<1>2. asked[c].op \in InsertOps \cup {"editExpense"} /\ "editExpense" \notin InsertOps
  BY <1>1 DEF BooksStageFits, InsertOps, DatedOps
<1>3. CASE asked[c].op \in InsertOps
  BY <1>1, <1>2, <1>3 DEF DraftFits
<1>4. CASE asked[c].op = "editExpense"
  <2>1. row = asked[c].target /\ row \in Clients
    BY <1>1, <1>4, AskedIs DEF UpdateExpenseDto
  <2>2. /\ draft[c] \in Row /\ draft[c].kind = "expense" /\ book[row].kind = "expense"
        /\ rowLock[row] = c /\ draft[c].period \in {book[row].period} \cup Range(dated[c])
    BY <1>1, <1>4, <2>1 DEF EditFits, Working
  <2>3. row # c
    BY <1>1, <2>2 DEF NoRow
  <2> QED BY <1>1, <1>2, <1>4, <2>1, <2>2, <2>3
<1> QED BY <1>2, <1>3, <1>4

\* The commit of a write, as the rows of the books see it.
LEMMA CommitWriteBooks ==
  ASSUME BooksInv, NEW c \in Clients, CommitWrite(c)
  PROVE  /\ \E row \in Clients :
              /\ book' = [book EXCEPT ![row] = draft[c]]
              /\ row = IF asked[c].op = "editExpense" THEN asked[c].target ELSE c
         /\ BooksTypes'
<1> DEFINE row == IF asked[c].op = "editExpense" THEN asked[c].target ELSE c
<1>1. /\ pc[c] = "written" /\ asked[c].op # "close"
      /\ period' = [p \in PeriodKeys |-> IF p \in Touched(c) THEN "open" ELSE period[p]]
      /\ book' = [book EXCEPT ![row] = draft[c]]
      /\ nextNumber' = IF asked[c].op = "invoice" THEN draft[c].number + 1 ELSE nextNumber
      /\ late' = late \cup {p \in Touched(c) : \E q \in PeriodKeys : OvertakenBy(p, q)}
      /\ EndTransaction(c, "done")
      /\ UNCHANGED <<rate, month, asked, closedSince, astray>>
  BY DEF CommitWrite
<1> HIDE DEF row
<1>2. BooksTypes /\ "done" \in Labels
  BY DEF BooksInv, Labels, Final
<1>3. row \in Clients /\ draft[c] \in Row
  BY <1>1, WrittenIs DEF row
<1>4. book' \in [Clients -> BookRows]
  BY <1>1, <1>2, <1>3 DEF BooksTypes, BookRows
<1>5. period' \in [PeriodKeys -> {"absent", "open", "closed"}]
  BY <1>1, <1>2 DEF BooksTypes
<1>6. nextNumber' \in Nat \ {0}
  <2>1. asked[c].op = "invoice" => draft[c].number = nextNumber
    BY <1>1 DEF BooksInv, RequestFits, NumberHeld
  <2> QED BY <1>1, <1>2, <2>1 DEF BooksTypes
<1>7. late' \subseteq PeriodKeys
  BY <1>1, <1>2 DEF BooksTypes, Touched
<1>8. /\ asked' \in Books /\ rate' \in BasisPoints /\ month' \in PeriodKeys
      /\ closedSince' \in [Clients -> SUBSET PeriodKeys] /\ astray' \subseteq Clients
  <2>1. UNCHANGED <<rate, month, asked, closedSince, astray>>
    BY <1>1
  <2> QED BY ONLY <1>2, <2>1 DEF BooksTypes
<1>9. /\ pc' \in [Clients -> Labels]
      /\ dated' \in [Clients -> Seq(PeriodKeys)]
      /\ draft' \in [Clients -> DraftRows]
      /\ periodLock' \in [PeriodKeys -> Clients \cup {Nobody}]
      /\ numberLock' \in Clients \cup {Nobody}
      /\ rowLock' \in [Clients -> Clients \cup {Nobody}]
  BY ONLY <1>1, <1>2, EndTypes
<1>10. BooksTypes'
  BY ONLY <1>4, <1>5, <1>6, <1>7, <1>8, <1>9 DEF BooksTypes
<1> QED BY <1>1, <1>3, <1>10 DEF row

\* The requests of the others, and the one that is answered.
LEMMA CommitWriteRequests ==
  ASSUME BooksInv, NEW c \in Clients, CommitWrite(c), NEW d \in Clients
  PROVE  RequestFits(d)'
<1>1. /\ pc[c] = "written" /\ asked[c].op # "close"
      /\ period' = [p \in PeriodKeys |-> IF p \in Touched(c) THEN "open" ELSE period[p]]
      /\ nextNumber' = IF asked[c].op = "invoice" THEN draft[c].number + 1 ELSE nextNumber
      /\ EndTransaction(c, "done")
      /\ UNCHANGED <<rate, month, asked, closedSince, astray>>
  BY DEF CommitWrite
<1>2. BooksTypes /\ BooksTypes' /\ "done" \in Labels /\ "done" \in Final
  BY CommitWriteBooks DEF BooksInv, Labels, Final
<1>3. PICK row \in Clients : /\ book' = [book EXCEPT ![row] = draft[c]]
                             /\ row = IF asked[c].op = "editExpense" THEN asked[c].target ELSE c
  BY CommitWriteBooks
<1>4. /\ draft[c] \in Row /\ book[c] = NoRow
      /\ asked[c].op \in InsertOps => row = c /\ draft[c].kind = asked[c].op
      /\ asked[c].op \notin InsertOps =>
           /\ row # c /\ draft[c].kind = "expense" /\ book[row].kind = "expense"
           /\ rowLock[row] = c
  BY ONLY BooksInv, c \in Clients, <1>1, <1>3, WrittenIs
<1>5. /\ book'[row] = draft[c] /\ \A e \in Clients \ {row} : book'[e] = book[e]
  BY <1>2, <1>3 DEF BooksTypes
<1>6. NoRow.kind = "none"
  BY DEF NoRow
<1>7. CASE d = c
  <2>1. pc'[c] = "done" /\ dated'[c] = <<>>
    BY <1>1, <1>2 DEF EndTransaction, GoOn, BooksTypes
  <2>2. BookedIsDone(c)'
    <3>1. asked' = asked
      BY <1>1
    <3> QED BY <1>4, <1>5, <2>1, <3>1 DEF BookedIsDone
  <2> QED BY <1>2, <1>7, <2>1, <2>2, OverFits
<1>8. CASE d # c
  <2>1. RequestFits(d) /\ d # Nobody
    BY PeriodAssumption DEF BooksInv
  <2>2. /\ pc'[d] = pc[d] /\ dated'[d] = dated[d] /\ draft'[d] = draft[d]
        /\ \A p \in PeriodKeys : periodLock[p] # c => periodLock'[p] = periodLock[p]
        /\ \A r \in Clients : rowLock[r] # c => rowLock'[r] = rowLock[r]
        /\ numberLock # c => numberLock' = numberLock
    BY <1>1, <1>2, <1>8, EndFrame
  <2>3. \A p \in PeriodKeys :
          /\ periodLock[p] = d => periodLock'[p] = d \/ period'[p] # "absent"
          /\ period[p] # "absent" => period'[p] # "absent"
          /\ period'[p] = "closed" => period[p] = "closed" \/ p \in closedSince'[d]
    BY <1>1, <1>8, <2>2
  <2>4. numberLock = d => numberLock' = d /\ nextNumber' = nextNumber
    <3>1. asked[c].op = "invoice" => numberLock = c
      BY <1>1 DEF BooksInv, RequestFits, NumberHeld
    <3> QED BY <1>1, <1>8, <2>2, <3>1
  <2>5. /\ book[d] = NoRow => book'[d] = NoRow
        /\ book[d] # NoRow => book'[d].kind = book[d].kind
    BY <1>4, <1>5, <1>6, <1>8
  <2>6. ASSUME asked[d].op = "editExpense", NEW target, target = asked[d].target
        PROVE  /\ book[target].kind = "expense" => book'[target].kind = "expense"
               /\ rowLock[target] = d /\ book[target].kind = "expense" =>
                    rowLock'[target] = d /\ book'[target] = book[target]
    <3>1. target \in Clients
      BY <1>2, <2>6, AskedIs DEF UpdateExpenseDto
    <3> QED BY <1>4, <1>5, <1>6, <1>8, <2>2, <3>1
  <2>7. Undisturbed(d)
    BY <1>1, <2>2, <2>3, <2>4, <2>5, <2>6 DEF Undisturbed
  <2> QED BY <1>2, <2>1, <2>7, UndisturbedFits
<1> QED BY <1>7, <1>8

\* One more element, one more number.
LEMMA OneMoreNumber ==
  ASSUME NEW S, IsFiniteSet(S), NEW c, c \notin S
  PROVE  /\ IsFiniteSet(S \cup {c}) /\ Cardinality(S \cup {c}) = Cardinality(S) + 1
         /\ Cardinality(S) \in Nat
         /\ 1..Cardinality(S \cup {c}) = (1..Cardinality(S)) \cup {Cardinality(S) + 1}
<1>1. IsFiniteSet(S \cup {c}) /\ Cardinality(S \cup {c}) = Cardinality(S) + 1
  BY FS_AddElement
<1>2. Cardinality(S) \in Nat
  BY FS_CardinalityType
<1>3. \A n \in Nat : 1..(n + 1) = (1..n) \cup {n + 1}
  OBVIOUS
<1> QED BY <1>1, <1>2, <1>3

\* A committed invoice takes the next number.
LEMMA CommitWriteNumbers ==
  ASSUME BooksInv, NEW c \in Clients, CommitWrite(c)
  PROVE  InvoicesAreNumbered'
<1>1. /\ pc[c] = "written" /\ asked[c].op # "close"
      /\ nextNumber' = IF asked[c].op = "invoice" THEN draft[c].number + 1 ELSE nextNumber
      /\ UNCHANGED <<rate, asked>>
  BY DEF CommitWrite
<1>2. BooksTypes /\ InvoicesAreNumbered /\ NumberHeld(c)
  BY DEF BooksInv, RequestFits
<1>3. PICK row \in Clients : /\ book' = [book EXCEPT ![row] = draft[c]]
                             /\ row = IF asked[c].op = "editExpense" THEN asked[c].target ELSE c
  BY CommitWriteBooks
<1>4. /\ draft[c] \in Row /\ book[c] = NoRow
      /\ asked[c].op \in InsertOps => row = c /\ draft[c].kind = asked[c].op
      /\ asked[c].op \notin InsertOps =>
           /\ asked[c].op = "editExpense" /\ draft[c].kind = "expense"
           /\ book[row].kind = "expense"
  BY ONLY BooksInv, c \in Clients, <1>1, <1>3, WrittenIs
<1>5. /\ book'[row] = draft[c] /\ \A e \in Clients \ {row} : book'[e] = book[e]
  BY <1>2, <1>3 DEF BooksTypes
<1>6. book[row].kind # "invoice" /\ row \notin Invoices
  BY <1>4 DEF NoRow, Invoices
<1>7. CASE asked[c].op # "invoice"
  <2>1. draft[c].kind # "invoice"
    BY <1>4, <1>7
  <2>2. Invoices' = Invoices /\ \A e \in Invoices : book'[e] = book[e]
    BY <1>5, <1>6, <2>1 DEF Invoices
  <2>3. rate' \in Rates
    BY <1>1, <1>2 DEF InvoicesAreNumbered
  <2> QED BY <1>1, <1>2, <1>7, <2>2, <2>3, InvoicesStand
<1>8. CASE asked[c].op = "invoice"
  <2>1. row = c /\ draft[c].kind = "invoice"
    BY <1>4, <1>8 DEF InsertOps, DatedOps
  <2>2. draft[c].number = nextNumber /\ VatFits(draft[c])
    BY <1>1, <1>2, <1>8 DEF NumberHeld
  <2>3. Invoices' = Invoices \cup {c} /\ \A e \in Invoices : book'[e] = book[e]
    BY <1>5, <1>6, <2>1 DEF Invoices
  <2>4. /\ IsFiniteSet(Invoices) /\ nextNumber = Cardinality(Invoices) + 1
        /\ {book[e].number : e \in Invoices} = 1..Cardinality(Invoices) /\ rate \in Rates
    BY <1>2 DEF InvoicesAreNumbered
  <2>5. /\ IsFiniteSet(Invoices \cup {c})
        /\ Cardinality(Invoices \cup {c}) = Cardinality(Invoices) + 1
        /\ 1..Cardinality(Invoices \cup {c}) = (1..Cardinality(Invoices)) \cup {nextNumber}
    BY <1>6, <2>1, <2>4, OneMoreNumber
  <2>6. IsFiniteSet(Invoices)' /\ Cardinality(Invoices)' = nextNumber
    BY <2>3, <2>4, <2>5
  <2>7. nextNumber' = nextNumber + 1
    BY <1>1, <1>8, <2>2
  <2>8. {book'[e].number : e \in Invoices'} = {book[e].number : e \in Invoices} \cup {nextNumber}
    BY <1>5, <2>1, <2>2, <2>3
  <2>9. {book[e].number : e \in Invoices}' = (1..Cardinality(Invoices))'
    BY <2>3, <2>4, <2>5, <2>8
  <2>10. Rates' = Rates /\ rate' \in Rates
    BY <1>1, <2>4 DEF Rates
  <2>11. ASSUME NEW e \in Invoices' PROVE VatFits(book[e])'
    <3>1. CASE e = c
      BY ONLY <1>5, <2>1, <2>2, <2>10, <3>1 DEF VatFits
    <3>2. CASE e # c
      <4>1. VatFits(book[e]) /\ book'[e] = book[e]
        BY <1>2, <2>3, <3>2 DEF InvoicesAreNumbered
      <4> QED BY ONLY <2>10, <4>1 DEF VatFits
    <3> QED BY <3>1, <3>2
  <2> QED BY <2>6, <2>7, <2>9, <2>10, <2>11 DEF InvoicesAreNumbered
<1> QED BY <1>7, <1>8

\* A month that gets its row below a closed one, or one about to be, is late.
LEMMA CommitWriteGaps ==
  ASSUME BooksInv, NEW c \in Clients, CommitWrite(c)
  PROVE  ClosesFit'
<1>1. /\ pc[c] = "written" /\ asked[c].op # "close"
      /\ period' = [p \in PeriodKeys |-> IF p \in Touched(c) THEN "open" ELSE period[p]]
      /\ late' = late \cup {p \in Touched(c) : \E q \in PeriodKeys : OvertakenBy(p, q)}
      /\ EndTransaction(c, "done") /\ UNCHANGED <<asked, astray>>
  BY DEF CommitWrite
<1>2. /\ BooksTypes /\ ClosesFit /\ GapsAreLateActivity /\ DraftFits(c) /\ EditFits(c)
      /\ "done" \in Labels
  BY DEF BooksInv, RequestFits, ClosesFit, Labels, Final
<1>3. PICK row \in Clients : /\ book' = [book EXCEPT ![row] = draft[c]]
                             /\ row = IF asked[c].op = "editExpense" THEN asked[c].target ELSE c
  BY CommitWriteBooks
<1>4. /\ draft[c] \in Row
      /\ asked[c].op \in InsertOps => row = c /\ draft[c].kind = asked[c].op
      /\ asked[c].op \notin InsertOps =>
           /\ book[row].kind = "expense"
           /\ draft[c].period \in {book[row].period} \cup Range(dated[c])
  BY ONLY BooksInv, c \in Clients, <1>1, <1>3, WrittenIs
<1>5. /\ book'[row] = draft[c] /\ \A e \in Clients \ {row} : book'[e] = book[e]
  BY <1>2, <1>3 DEF BooksTypes
<1>6. /\ \A p \in PeriodKeys : period[p] # "absent" \/ p \in Touched(c) => period'[p] # "absent"
      /\ \A p \in PeriodKeys : period'[p] = "closed" => period[p] = "closed"
      /\ \A p \in PeriodKeys : period'[p] = "open" => period[p] = "open" \/ p \in Touched(c)
  BY <1>1
<1>7. ASSUME NEW d \in Clients, book'[d] # NoRow, book'[d].kind # "payment", d \notin astray'
      PROVE  period'[book'[d].period] # "absent"
  <2>1. \A e \in Clients : book[e] # NoRow =>
          book[e].period \in PeriodKeys
    BY <1>2, BookHas, RowHas
  <2>2. \A e \in Clients : book[e] # NoRow /\ book[e].kind # "payment" /\ e \notin astray =>
          period[book[e].period] # "absent"
    BY <1>2 DEF GapsAreLateActivity
  <2>3. \A p \in Range(dated[c]) : period'[p] # "absent"
    BY <1>1, <1>6, DatedHasPeriod
  <2>4. CASE d # row
    BY <1>1, <1>5, <1>6, <1>7, <2>1, <2>2, <2>4
  <2>5. CASE d = row /\ asked[c].op \in InsertOps
    <3>1. asked[c].op \in DatedOps /\ c \notin astray
      BY <1>1, <1>4, <1>5, <1>7, <2>5 DEF InsertOps
    <3>2. draft[c].period \in Range(dated[c])
      BY <1>1, <1>2, <3>1, <2>5 DEF DraftFits
    <3> QED BY <1>5, <2>3, <2>5, <3>2
  <2>6. CASE d = row /\ asked[c].op \notin InsertOps
    <3>1. book[row] # NoRow /\ book[row].kind # "payment" /\ row \notin astray
      BY <1>1, <1>4, <1>7, <2>6 DEF NoRow
    <3>2. period'[book[row].period] # "absent"
      BY <1>6, <2>1, <2>2, <3>1
    <3> QED BY <1>4, <1>5, <2>3, <2>6, <3>2
  <2> QED BY <2>4, <2>5, <2>6
<1>8. ASSUME NEW p \in PeriodKeys, NEW q \in PeriodKeys, p < q,
             period'[p] = "open", period'[q] = "closed"
      PROVE  p \in late'
  <2>1. period[q] = "closed"
    BY <1>6, <1>8
  <2>2. CASE period[p] = "open"
    BY <1>1, <1>2, <1>8, <2>1, <2>2 DEF GapsAreLateActivity
  <2>3. CASE p \in Touched(c)
    BY <1>1, <1>8, <2>1, <2>3 DEF OvertakenBy
  <2> QED BY <1>6, <1>8, <2>2, <2>3
<1>9. GapsAreLateActivity'
  BY <1>7, <1>8 DEF GapsAreLateActivity
<1>10. ASSUME NEW d \in Clients, asked'[d].op = "close", pc'[d] \in {"close", "written"},
              NEW p \in PeriodKeys, p < asked'[d].day, period'[p] = "open"
       PROVE  p \in late'
  <2>1. asked[d].op = "close" /\ asked[d].day \in PeriodKeys /\ p < asked[d].day
    BY <1>1, <1>2, <1>10, AskedIs DEF ClosePeriod
  <2>2. pc[d] \in {"close", "written"}
    <3>1. \A e \in Clients \ {c} : pc'[e] = pc[e]
      BY <1>1, <1>2, EndFrame
    <3> QED BY <1>1, <1>10, <2>1, <3>1
  <2>3. CASE period[p] = "open"
    BY <1>1, <1>2, <2>1, <2>2, <2>3 DEF ClosesFit
  <2>4. CASE p \in Touched(c)
    <3>1. OvertakenBy(p, asked[d].day)
      BY <2>1, <2>2 DEF OvertakenBy
    <3> QED BY <1>1, <2>1, <2>4, <3>1
  <2> QED BY <1>6, <1>10, <2>3, <2>4
<1> QED BY <1>9, <1>10 DEF ClosesFit

\* A close commits.
LEMMA CommitCloseKeeps ==
  ASSUME BooksInv, NEW c \in Clients, CommitClose(c)
  PROVE  BooksInv'
<1> DEFINE day == asked[c].day
<1>1. /\ pc[c] = "written" /\ asked[c].op = "close"
      /\ period' = [period EXCEPT ![day] = "closed"]
      /\ closedSince' = [d \in Clients |-> closedSince[d] \cup {day}]
      /\ EndTransaction(c, "done")
      /\ UNCHANGED <<book, nextNumber, rate, month, asked, late, astray>>
  BY DEF CommitClose
<1>2. /\ BooksTypes /\ ClosesFit /\ GapsAreLateActivity /\ InvoicesAreNumbered /\ book[c] = NoRow
      /\ "done" \in Labels /\ "done" \in Final
  BY <1>1, NoRowYet DEF BooksInv, ClosesFit, Labels, Final
<1>3. day \in PeriodKeys
  BY <1>1, <1>2, AskedIs DEF ClosePeriod
<1> HIDE DEF day
<1>4. /\ \A p \in PeriodKeys : period'[p] = IF p = day THEN "closed" ELSE period[p]
      /\ \A d \in Clients : closedSince'[d] = closedSince[d] \cup {day}
  BY <1>1, <1>2, <1>3 DEF BooksTypes
<1>5. BooksTypes'
  <2>1. /\ pc' \in [Clients -> Labels]
        /\ dated' \in [Clients -> Seq(PeriodKeys)]
        /\ draft' \in [Clients -> DraftRows]
        /\ periodLock' \in [PeriodKeys -> Clients \cup {Nobody}]
        /\ numberLock' \in Clients \cup {Nobody}
        /\ rowLock' \in [Clients -> Clients \cup {Nobody}]
    BY ONLY <1>1, <1>2, EndTypes
  <2>2. period' \in [PeriodKeys -> {"absent", "open", "closed"}]
    BY <1>1, <1>2 DEF BooksTypes
  <2>3. closedSince' \in [Clients -> SUBSET PeriodKeys]
    BY <1>1, <1>2, <1>3 DEF BooksTypes
  <2>4. /\ asked' \in Books /\ rate' \in BasisPoints /\ month' \in PeriodKeys
        /\ book' \in [Clients -> BookRows] /\ nextNumber' \in Nat \ {0}
        /\ late' \subseteq PeriodKeys /\ astray' \subseteq Clients
    <3>1. UNCHANGED <<book, nextNumber, rate, month, asked, late, astray>>
      BY <1>1
    <3>2. BooksTypes
      BY <1>2
    <3> QED BY ONLY <3>1, <3>2 DEF BooksTypes
  <2> QED BY ONLY <2>1, <2>2, <2>3, <2>4 DEF BooksTypes
<1>6. RequestFits(c)'
  <2>1. pc'[c] = "done" /\ dated'[c] = <<>>
    BY <1>1, <1>2 DEF EndTransaction, GoOn, BooksTypes
  <2>2. BookedIsDone(c)'
    BY <1>1, <1>2 DEF BookedIsDone
  <2> QED BY <1>2, <2>1, <2>2, OverFits
<1>7. ASSUME NEW d \in Clients \ {c} PROVE RequestFits(d)'
  <2>1. RequestFits(d) /\ d # Nobody
    BY PeriodAssumption DEF BooksInv
  <2>2. /\ pc'[d] = pc[d] /\ dated'[d] = dated[d] /\ draft'[d] = draft[d]
        /\ \A p \in PeriodKeys : periodLock[p] # c => periodLock'[p] = periodLock[p]
        /\ \A r \in Clients : rowLock[r] # c => rowLock'[r] = rowLock[r]
        /\ numberLock # c => numberLock' = numberLock
    BY <1>1, <1>2, EndFrame
  <2>3. \A p \in PeriodKeys :
          /\ periodLock[p] = d => periodLock'[p] = d \/ period'[p] # "absent"
          /\ period[p] # "absent" => period'[p] # "absent"
          /\ period'[p] = "closed" => period[p] = "closed" \/ p \in closedSince'[d]
    BY <1>4, <2>2
  <2>4. asked[d].op = "editExpense" => asked[d].target \in Clients
    BY <1>2, AskedIs DEF UpdateExpenseDto
  <2>5. Undisturbed(d)
    BY <1>1, <1>4, <2>1, <2>2, <2>3, <2>4 DEF Undisturbed
  <2> QED BY <1>2, <1>5, <2>1, <2>5, UndisturbedFits
<1>8. InvoicesAreNumbered'
  <2>1. Invoices' = Invoices /\ rate' \in Rates
    BY <1>1, <1>2 DEF Invoices, InvoicesAreNumbered
  <2> QED BY <1>1, <1>2, <2>1, InvoicesStand
<1>9. GapsAreLateActivity'
  <2>1. ASSUME NEW d \in Clients, book[d] # NoRow, book[d].kind # "payment", d \notin astray
        PROVE  period'[book[d].period] # "absent"
    <3>1. book[d].period \in PeriodKeys
      BY <1>2, <2>1, BookHas, RowHas
    <3> QED BY <1>2, <1>4, <2>1, <3>1 DEF GapsAreLateActivity
  <2>2. ASSUME NEW p \in PeriodKeys, NEW q \in PeriodKeys, p < q,
               period'[p] = "open", period'[q] = "closed"
        PROVE  p \in late
    <3>1. period[p] = "open"
      BY <1>4, <2>2
    <3>2. CASE q = day
      BY <1>1, <1>2, <2>2, <3>1, <3>2 DEF ClosesFit, day
    <3>3. CASE q # day
      BY <1>2, <1>4, <2>2, <3>1, <3>3 DEF GapsAreLateActivity
    <3> QED BY <3>2, <3>3
  <2> QED BY <1>1, <2>1, <2>2 DEF GapsAreLateActivity
<1>10. ClosesFit'
  <2>1. ASSUME NEW d \in Clients, asked'[d].op = "close", pc'[d] \in {"close", "written"},
               NEW p \in PeriodKeys, p < asked'[d].day, period'[p] = "open"
        PROVE  p \in late'
    <3>1. period[p] = "open" /\ asked' = asked /\ late' = late
      BY <1>1, <1>4, <2>1
    <3>2. pc[d] \in {"close", "written"}
      <4>1. \A e \in Clients \ {c} : pc'[e] = pc[e]
        BY <1>1, <1>2, EndFrame
      <4> QED BY <1>1, <2>1, <4>1
    <3> QED BY <1>2, <2>1, <3>1, <3>2 DEF ClosesFit
  <2> QED BY <1>9, <2>1 DEF ClosesFit
<1> QED BY <1>5, <1>6, <1>7, <1>8, <1>10 DEF BooksInv

\* A step of none of the requests: the clock, or nothing.
LEMMA ClockKeeps ==
  ASSUME BooksInv, month' \in PeriodKeys,
         UNCHANGED <<period, book, nextNumber, rate, asked, pc, dated, draft, locks, history>>
  PROVE  BooksInv'
<1>1. /\ UNCHANGED <<period, book, nextNumber, rate, asked, pc, dated, draft>>
      /\ UNCHANGED <<periodLock, numberLock, rowLock, closedSince, late, astray>>
  BY DEF locks, history
<1>2. BooksTypes /\ InvoicesAreNumbered /\ ClosesFit /\ GapsAreLateActivity
  BY DEF BooksInv, ClosesFit
<1>3. BooksTypes'
  <2>1. /\ asked' \in Books
        /\ period' \in [PeriodKeys -> {"absent", "open", "closed"}]
        /\ book' \in [Clients -> BookRows]
        /\ nextNumber' \in Nat \ {0}
        /\ rate' \in BasisPoints
        /\ pc' \in [Clients -> Labels]
        /\ dated' \in [Clients -> Seq(PeriodKeys)]
        /\ draft' \in [Clients -> DraftRows]
    BY <1>1, <1>2 DEF BooksTypes
  <2>2. /\ periodLock' \in [PeriodKeys -> Clients \cup {Nobody}]
        /\ numberLock' \in Clients \cup {Nobody}
        /\ rowLock' \in [Clients -> Clients \cup {Nobody}]
        /\ closedSince' \in [Clients -> SUBSET PeriodKeys]
        /\ late' \subseteq PeriodKeys /\ astray' \subseteq Clients
    BY <1>1, <1>2 DEF BooksTypes
  <2>3. month' \in PeriodKeys
    OBVIOUS
  <2> QED BY ONLY <2>1, <2>2, <2>3 DEF BooksTypes
<1>4. ASSUME NEW d \in Clients PROVE RequestFits(d)'
  <2>1. asked[d].op = "editExpense" => asked[d].target \in Clients
    BY <1>2, AskedIs DEF UpdateExpenseDto
  <2>2. Undisturbed(d)
    BY <1>1, <2>1 DEF Undisturbed
  <2>3. RequestFits(d)
    BY DEF BooksInv
  <2> QED BY <1>2, <1>3, <2>2, <2>3, UndisturbedFits
<1>5. InvoicesAreNumbered'
  <2>1. Invoices' = Invoices /\ rate' \in Rates
    BY <1>1, <1>2 DEF Invoices, InvoicesAreNumbered
  <2> QED BY <1>1, <1>2, <2>1, InvoicesStand
<1>6. ClosesFit'
  BY <1>1, <1>2 DEF ClosesFit, GapsAreLateActivity
<1> QED BY <1>3, <1>4, <1>5, <1>6 DEF BooksInv

\* The rate is set.
LEMMA UpdateTaxSettingsKeeps ==
  ASSUME BooksInv, NEW c \in Clients, UpdateTaxSettings(c)
  PROVE  BooksInv'
<1>1. /\ pc[c] = "idle" /\ asked[c].op = "taxSettings" /\ rate' = asked[c].bps /\ GoOn(c, "done")
      /\ UNCHANGED <<period, book, nextNumber, month, asked, dated, draft>>
      /\ UNCHANGED <<periodLock, numberLock, rowLock, closedSince, late, astray>>
  BY DEF UpdateTaxSettings, locks, history
<1>2. /\ BooksTypes /\ InvoicesAreNumbered /\ ClosesFit /\ GapsAreLateActivity
      /\ book[c] = NoRow /\ dated[c] = <<>> /\ "done" \in Labels /\ "done" \in Final
  BY <1>1, NoRowYet DEF BooksInv, RequestFits, DatesStand, ClosesFit, Labels, Final
<1>3. rate' \in BasisPoints
  BY <1>1, <1>2, AskedIs DEF UpdateTaxSettingsDto
<1>4. /\ pc' \in [Clients -> Labels] /\ pc'[c] = "done"
      /\ \A d \in Clients \ {c} : pc'[d] = pc[d]
  BY <1>1, <1>2 DEF BooksTypes, GoOn
<1>5. BooksTypes'
  <2>1. /\ asked' \in Books
        /\ period' \in [PeriodKeys -> {"absent", "open", "closed"}]
        /\ book' \in [Clients -> BookRows]
        /\ nextNumber' \in Nat \ {0} /\ month' \in PeriodKeys
        /\ dated' \in [Clients -> Seq(PeriodKeys)]
        /\ draft' \in [Clients -> DraftRows]
    BY <1>1, <1>2 DEF BooksTypes
  <2>2. /\ periodLock' \in [PeriodKeys -> Clients \cup {Nobody}]
        /\ numberLock' \in Clients \cup {Nobody}
        /\ rowLock' \in [Clients -> Clients \cup {Nobody}]
        /\ closedSince' \in [Clients -> SUBSET PeriodKeys]
        /\ late' \subseteq PeriodKeys /\ astray' \subseteq Clients
    BY <1>1, <1>2 DEF BooksTypes
  <2> QED BY ONLY <1>3, <1>4, <2>1, <2>2 DEF BooksTypes
<1>6. RequestFits(c)'
  BY <1>1, <1>2, <1>4, OverFits DEF BookedIsDone
<1>7. ASSUME NEW d \in Clients \ {c} PROVE RequestFits(d)'
  <2>1. asked[d].op = "editExpense" => asked[d].target \in Clients
    BY <1>2, AskedIs DEF UpdateExpenseDto
  <2>2. Undisturbed(d)
    BY <1>1, <1>4, <2>1 DEF Undisturbed
  <2>3. RequestFits(d)
    BY DEF BooksInv
  <2> QED BY <1>2, <1>5, <2>2, <2>3, UndisturbedFits
<1>8. InvoicesAreNumbered'
  <2>1. Invoices' = Invoices /\ rate' \in Rates
    BY <1>1 DEF Invoices, Rates
  <2> QED BY <1>1, <1>2, <2>1, InvoicesStand
<1>9. ClosesFit'
  BY <1>1, <1>2, <1>4 DEF ClosesFit, GapsAreLateActivity
<1> QED BY <1>5, <1>6, <1>7, <1>8, <1>9 DEF BooksInv

-----------------------------------------------------------------------------
(* The invariant.                                                          *)

\* Every run starts in it.
LEMMA BooksStart ==
  ASSUME BooksInit
  PROVE  BooksInv
<1>1. BooksTypes
  <2>1. /\ asked \in Books /\ nextNumber \in Nat \ {0} /\ month \in PeriodKeys
        /\ rate \in BasisPoints
    BY PeriodAssumption DEF BooksInit, BasisPoints
  <2>2. /\ period \in [PeriodKeys -> {"absent", "open", "closed"}]
        /\ book \in [Clients -> BookRows] /\ draft \in [Clients -> DraftRows]
        /\ pc \in [Clients -> Labels]
    BY DEF BooksInit, BookRows, DraftRows, Labels
  <2>3. dated \in [Clients -> Seq(PeriodKeys)]
    <3>1. <<>> \in Seq(PeriodKeys)
      OBVIOUS
    <3> QED BY <3>1 DEF BooksInit
  <2>4. /\ periodLock \in [PeriodKeys -> Clients \cup {Nobody}]
        /\ numberLock \in Clients \cup {Nobody}
        /\ rowLock \in [Clients -> Clients \cup {Nobody}]
        /\ closedSince \in [Clients -> SUBSET PeriodKeys]
        /\ late \subseteq PeriodKeys /\ astray \subseteq Clients
    BY DEF BooksInit
  <2> QED BY ONLY <2>1, <2>2, <2>3, <2>4 DEF BooksTypes
<1>2. ASSUME NEW c \in Clients PROVE RequestFits(c)
  <2>1. pc[c] = "idle" /\ dated[c] = <<>> /\ book[c] = NoRow
    BY DEF BooksInit
  <2>2. BooksStageFits(c) /\ DatesStand(c) /\ DraftFits(c) /\ EditFits(c) /\ NumberHeld(c)
    BY <2>1 DEF BooksStageFits, DatesStand, DraftFits, EditFits, NumberHeld, Asserts, Working
  <2>3. AssertionsStand(c) /\ BookedIsDone(c)
    <3>1. Len(dated[c]) = 0 /\ \A i : i \notin 1..0
      BY <2>1
    <3>2. Looked(c) = {} /\ Ensured(c) = {}
      BY <2>1, <3>1 DEF Looked, Ensured
    <3> QED BY <2>1, <3>2 DEF AssertionsStand, BookedIsDone
  <2> QED BY <2>2, <2>3 DEF RequestFits
<1>3. InvoicesAreNumbered
  <2>1. NoRow.kind = "none"
    BY DEF NoRow
  <2>2. Invoices = {}
    BY <2>1 DEF Invoices, BooksInit
  <2>3. IsFiniteSet({}) /\ Cardinality({}) = 0 /\ 1..0 = {}
    BY FS_EmptySet
  <2>4. rate \in Rates /\ nextNumber = 1
    BY DEF BooksInit, Rates
  <2> QED BY <2>2, <2>3, <2>4 DEF InvoicesAreNumbered
<1>4. ClosesFit
  BY DEF BooksInit, ClosesFit, GapsAreLateActivity
<1> QED BY <1>1, <1>2, <1>3, <1>4 DEF BooksInv

\* Every step keeps it.
LEMMA BooksStepKeeps ==
  ASSUME BooksInv, [BooksNext]_booksVars
  PROVE  BooksInv'
<1>1. month \in PeriodKeys
  BY DEF BooksInv, BooksTypes
<1>2. CASE UNCHANGED booksVars
  BY <1>1, <1>2, ClockKeeps DEF booksVars, locks, history
<1>3. CASE NextMonth
  BY <1>3, ClockKeeps DEF NextMonth
<1>4. ASSUME NEW c \in Clients, CommitWrite(c) PROVE BooksInv'
  <2>1. ASSUME NEW d \in Clients PROVE RequestFits(d)'
    BY <1>4, CommitWriteRequests
  <2>2. BooksTypes' /\ InvoicesAreNumbered' /\ ClosesFit'
    BY <1>4, CommitWriteBooks, CommitWriteNumbers, CommitWriteGaps
  <2> QED BY <2>1, <2>2 DEF BooksInv
<1>5. ASSUME NEW c \in Clients, BooksStep(c) \/ Crash(c) PROVE BooksInv'
  BY <1>4, <1>5, BeginsKeep, BeginCloseKeeps, AssertOpenKeeps, TouchPeriodKeeps, InsertPeriodKeeps,
     ProceedKeeps, ResolveKeeps, ReadRateKeeps, IssueNumberKeeps, InsertKeeps, EditRowKeeps,
     OtherStepsKeep, CommitCloseKeeps, UpdateTaxSettingsKeeps DEF BooksStep
<1> QED BY <1>2, <1>3, <1>5 DEF BooksNext, AllAnswered

\* The books stay typed, every request fits its stage, the invoices are numbered
\* without a gap and a close finds no month open below it but a late one.
THEOREM BooksInvariant == BooksSpec => []BooksInv
<1>1. BooksInit => BooksInv
  BY BooksStart
<1>2. BooksInv /\ [BooksNext]_booksVars => BooksInv'
  BY BooksStepKeeps
<1> QED BY <1>1, <1>2, PTL DEF BooksSpec

\* The committed invoices carry the numbers 1, 2, ... whatever failed in
\* between, and each its VAT rounded half up at a rate the company had set.
THEOREM InvoicesStaySound == BooksSpec => []InvoicesAreSound
<1>1. BooksInv => InvoicesAreSound
  BY DEF BooksInv, InvoicesAreNumbered, Invoices, VatFits, InvoicesAreSound
<1> QED BY <1>1, BooksInvariant, PTL

\* A month with dated activity has its row, and is open below a closed month
\* only when the row came after that close or between its check and its commit.
THEOREM GapsComeLate == BooksSpec => []GapsAreLateActivity
<1>1. BooksInv => GapsAreLateActivity
  BY DEF BooksInv, ClosesFit
<1> QED BY <1>1, BooksInvariant, PTL

-----------------------------------------------------------------------------
(* Closed books.                                                           *)

\* The rows of a month stay, and its reports with them, when no row that is or
\* was in it changes.
LEMMA ReportsStand ==
  ASSUME NEW p \in PeriodKeys,
         \A c \in Clients, kind \in Kinds :
           /\ book'[c].kind = kind /\ book'[c].period = p <=>
                book[c].kind = kind /\ book[c].period = p
           /\ book[c].kind = kind /\ book[c].period = p => book'[c] = book[c]
  PROVE  ReportsOf(p)' = ReportsOf(p)
<1>1. ASSUME NEW kind \in Kinds
      PROVE  RowsIn(p, kind)' = RowsIn(p, kind) /\ TotalOf(p, kind)' = TotalOf(p, kind)
  <2>1. RowsIn(p, kind)' = RowsIn(p, kind)
    BY DEF RowsIn
  <2>2. \A c \in RowsIn(p, kind) : book'[c] = book[c]
    BY DEF RowsIn
  <2>3. [c \in RowsIn(p, kind) |-> book[c].amount]' = [c \in RowsIn(p, kind) |-> book[c].amount]
    BY <2>1, <2>2
  <2> QED BY <2>1, <2>3 DEF TotalOf
<1>2. /\ "expense" \in Kinds /\ "invoice" \in Kinds /\ "payment" \in Kinds
      /\ "refund" \in Kinds /\ "reconcile" \in Kinds
  BY DEF Kinds
<1>3. NetIncome(p)' = NetIncome(p) /\ CashOut(p)' = CashOut(p)
  BY <1>1, <1>2 DEF NetIncome, CashOut
<1>4. BooksOf(p)' = BooksOf(p)
  <2>1. UNION {RowsIn(p, kind)' : kind \in Kinds} = UNION {RowsIn(p, kind) : kind \in Kinds}
    BY <1>1
  <2>2. \A c \in UNION {RowsIn(p, kind) : kind \in Kinds} : book'[c] = book[c]
    BY DEF RowsIn
  <2> QED BY <2>1, <2>2 DEF BooksOf
<1> QED BY <1>3, <1>4 DEF ReportsOf

\* Only a commit changes the books, and in a closed month only one that asserts
\* nothing, was moved, or had begun before the close.
LEMMA ClosedBooksStand ==
  ASSUME BooksInv, [BooksNext]_booksVars, NEW p \in PeriodKeys,
         period[p] = "closed", ReportsOf(p)' # ReportsOf(p)
  PROVE  \E c \in Clients :
           /\ pc[c] = "written" /\ pc'[c] = "done"
           /\ asked[c].op = "payment" \/ c \in astray \/ p \in closedSince[c]
<1>1. book' # book
  <2>1. book' = book => ReportsOf(p)' = ReportsOf(p)
    BY ReportsStand
  <2> QED BY <2>1
<1>2. PICK c \in Clients : CommitWrite(c)
  <2>1. \A c \in Clients : BooksStep(c) \/ Crash(c) => book' = book \/ CommitWrite(c)
    BY DEF BooksStep, BeginExpense, BeginInvoice, BeginRefund, BeginReconciliation, BeginPayment,
           BeginEdit, BeginClose, Begin, AssertOpen, TouchPeriod, InsertPeriod, Proceed, Resolve,
           ReadRate, IssueNumber, Insert, KeyConflict, EditRow, CheckGaps, UpsertClosed,
           CommitClose, UpdateTaxSettings, Crash, Leave, committed
  <2> QED BY <1>1, <2>1 DEF BooksNext, AllAnswered, NextMonth, booksVars
<1>3. pc[c] = "written" /\ asked[c].op # "close" /\ pc'[c] = "done"
  BY <1>2 DEF CommitWrite, EndTransaction, GoOn, BooksInv, BooksTypes
<1>4. SUFFICES ASSUME asked[c].op # "payment", c \notin astray, p \notin closedSince[c]
               PROVE  FALSE
  BY <1>3
<1>5. /\ BooksTypes /\ AssertionsStand(c) /\ DraftFits(c) /\ EditFits(c)
  BY DEF BooksInv, RequestFits
<1>6. PICK row \in Clients : /\ book' = [book EXCEPT ![row] = draft[c]]
                             /\ row = IF asked[c].op = "editExpense" THEN asked[c].target ELSE c
  BY <1>2, CommitWriteBooks
<1>7. /\ draft[c] \in Row /\ book[c] = NoRow
      /\ asked[c].op \in InsertOps => row = c /\ draft[c].kind = asked[c].op
      /\ asked[c].op \notin InsertOps =>
           /\ asked[c].op = "editExpense" /\ row = asked[c].target
           /\ draft[c].period \in {book[row].period} \cup Range(dated[c])
  BY ONLY BooksInv, c \in Clients, <1>3, <1>6, WrittenIs
<1>8. p \notin Range(dated[c])
  <2>1. ASSUME NEW i \in 1..Len(dated[c]), p = dated[c][i] PROVE FALSE
    <3>1. i \in Looked(c)
      BY <1>3 DEF Looked
    <3> QED BY <1>4, <1>5, <2>1, <3>1 DEF AssertionsStand
  <2>2. dated[c] \in Seq(PeriodKeys)
    BY <1>5 DEF BooksTypes
  <2> QED BY <2>1, <2>2 DEF Range
<1>9. draft[c].period # p /\ (book[row] = NoRow \/ book[row].period # p)
  <2>1. CASE asked[c].op \in InsertOps
    <3>1. draft[c].period \in Range(dated[c])
      BY <1>3, <1>4, <1>5, <2>1 DEF DraftFits, InsertOps
    <3> QED BY <1>7, <1>8, <2>1, <3>1
  <2>2. CASE asked[c].op \notin InsertOps
    <3>1. book[row].period \in Range(dated[c])
      BY <1>3, <1>4, <1>5, <1>7, <2>2 DEF EditFits
    <3> QED BY <1>7, <1>8, <2>2, <3>1
  <2> QED BY <2>1, <2>2
<1>10. /\ book'[row] = draft[c] /\ \A e \in Clients \ {row} : book'[e] = book[e]
  BY <1>5, <1>6 DEF BooksTypes
<1>11. NoRow.kind \notin Kinds
  BY DEF NoRow, Kinds
<1> QED BY <1>9, <1>10, <1>11, ReportsStand

\* No row enters, leaves or changes in a closed month, nor do its reports, but
\* by a payment, a row moved since its assertion, or a write begun before.
THEOREM ClosedBooksStayFinal == BooksSpec => ClosedBooksAreFinalUnlessRaced
<1>1. BooksInv /\ [BooksNext]_booksVars =>
        [\A p \in PeriodKeys : (period[p] = "closed" /\ ReportsOf(p)' # ReportsOf(p)) =>
           \E c \in Clients :
             /\ pc[c] = "written" /\ pc'[c] = "done"
             /\ asked[c].op = "payment" \/ c \in astray \/ p \in closedSince[c]]_booksVars
  BY ClosedBooksStand
<1> QED BY <1>1, BooksInvariant, PTL DEF BooksSpec, ClosedBooksAreFinalUnlessRaced
=============================================================================

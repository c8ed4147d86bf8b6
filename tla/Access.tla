------------------------------- MODULE Access -------------------------------
(***************************************************************************)
(* Who may do what in one company: the rows capabilities are resolved from,*)
(* the guard in front of every gated route, the capability cache of each   *)
(* API process, and the platform's switches.                               *)
(*                                                                         *)
(* A guard that misses the cache reads the rows statement by statement and *)
(* stores what it resolved, whatever happened meanwhile.                   *)
(***************************************************************************)
EXTENDS FiniteSets, Routes

CONSTANTS
  Calls,      \* requests
  Servers,    \* API processes, each with a cache of its own
  Users,      \* accounts
  FirstIds,   \* rows left by earlier requests
  AddOns,     \* features granted beyond the plan (nothing writes them)
  Ttl,        \* the cache's time to live, in ticks
  NoMember, NoEntry, NoRead

Ids == Calls \cup FirstIds
MemberRow == [user : Users, role : Roles]

ASSUME AccessAssumption ==
  /\ Calls \cap FirstIds = {}
  /\ AddOns \subseteq Features
  /\ Ttl \in Nat \ {0}

VARIABLES
  plan,       \* the subscription, "none" before the company exists
  flags,      \* company_feature_flags: pairs of a feature and "on" or "off"
  member,     \* company_members
  overrides,  \* member_permissions of a member: permission, granted, its row's call
  req,        \* what a call asks for
  at,         \* the statement it is at, or its answer
  snap,       \* the override rows its delete statement saw
  cache,      \* what a server holds for a user, and the ticks it has left
  read,       \* what a guard has read so far
  lost,       \* history: users, a capability each lost, and how many ticks ago
  excused,    \* history: caches that the code does not keep up with the rows
  torn        \* history: users whose rows changed under a guard reading them

historyVars == <<lost, excused, torn>>

MembersOf(u) == {m \in Ids : member[m] # NoMember /\ member[m].user = u}
Owners == {m \in Ids : member[m] # NoMember /\ member[m].role = "owner"}

-----------------------------------------------------------------------------
(* Resolution.                                                             *)

Flagged == {<<f[1], f[2] = "on">> : f \in flags}
CompanyFeatures ==
  EffectiveFeatures(IF plan = "none" THEN {} ELSE PlanFeatures[plan], AddOns, Flagged)

Granted(rows) == {<<row[1], row[2]>> : row \in rows}
Capabilities(features, role, rows) ==
  [features |-> features,
   permissions |-> EffectivePermissions(features, TemplatePermissions(role), Granted(rows))]

\* What a guard would resolve if it read everything now.
Now(u) ==
  IF MembersOf(u) = {} THEN Capabilities(CompanyFeatures, "none", {})
  ELSE LET m == CHOOSE i \in MembersOf(u) : TRUE IN
       Capabilities(CompanyFeatures, member[m].role, overrides[m])

\* The rows that a resolution reads.
RowsOf(u) == <<CompanyFeatures, [m \in MembersOf(u) |-> <<member[m].role, overrides[m]>>]>>

\* A capability by itself: a feature <<f>> or a permission.
Atoms(caps) == {<<f>> : f \in caps.features} \cup caps.permissions

-----------------------------------------------------------------------------
(* Calls.                                                                  *)

NoReq == [does |-> "none"]
Answers == {"ok", "refused", "failed"}

\* A call that is answered is forgotten, whatever the answer.
Goto(c, request, next, seen) ==
  /\ at' = [at EXCEPT ![c] = IF next \in Answers THEN "done" ELSE next]
  /\ req' = [req EXCEPT ![c] = IF next \in Answers THEN NoReq ELSE request]
  /\ snap' = [snap EXCEPT ![c] = IF next \in Answers THEN {} ELSE seen]

Go(c, next) == Goto(c, req[c], next, snap[c])

\* The route that a request takes.
RouteOf(r) ==
  CASE r.does = "create"    -> <<"tenancy", "createCompany">>
    [] r.does = "switch"    -> <<"tenancy", "switchCompany">>
    [] r.does = "invite"    -> <<"tenancy", "createInvitation">>
    [] r.does = "revoke"    -> <<"tenancy", "revokeInvitation">>
    [] r.does = "accept"    -> <<"tenancy", "acceptInvitation">>
    [] r.does = "remove"    -> <<"tenancy", "removeMember">>
    [] r.does = "assign"    -> <<"access", "assignMemberPermissions">>
    [] r.does = "toggle"    -> <<"admin", "toggleFeature">>
    [] r.does = "subscribe" -> <<"admin", "setSubscription">>
    [] OTHER                -> r.what

\* A request for row i arrives at a server; its guard, if it has one, is first.
Arrive(c, r, i, next) ==
  \E s \in Servers :
    Goto(c, [does |-> r.does, who |-> r.who, role |-> r.role, keys |-> r.keys,
             what |-> r.what, user |-> r.user, on |-> i, via |-> s, next |-> next],
         IF Needs[RouteOf(r)] = NoNeed THEN next ELSE "guard", {})

-----------------------------------------------------------------------------
(* The guard.                                                              *)

Decide(c, caps) ==
  Go(c, IF Can(caps.features, caps.permissions, Needs[RouteOf(req[c])])
          THEN req[c].next ELSE "refused")

\* Mutant: an entry that is used lives on.
GuardHit_Slides(c) ==
  LET r == req[c] IN
  /\ at[c] = "guard"
  /\ cache[r.via][r.who] # NoEntry
  /\ Decide(c, cache[r.via][r.who].caps)
  /\ cache' = [cache EXCEPT ![r.via][r.who].left = Ttl]
  /\ UNCHANGED read

GuardHit(c) ==
  LET r == req[c] IN
  /\ at[c] = "guard"
  /\ cache[r.via][r.who] # NoEntry
  /\ Decide(c, cache[r.via][r.who].caps)
  /\ UNCHANGED <<cache, read>>

ReadCompany(c) ==
  LET r == req[c] IN
  /\ at[c] = "guard"
  /\ cache[r.via][r.who] = NoEntry
  /\ Go(c, "member")
  /\ read' = [read EXCEPT ![c] = [features |-> CompanyFeatures, role |-> "none", on |-> c]]
  /\ UNCHANGED cache

ReadMember(c) ==
  LET mine == MembersOf(req[c].who) IN
  /\ at[c] = "member"
  /\ IF mine = {}
       THEN Go(c, "store") /\ read' = [read EXCEPT ![c] = Capabilities(@.features, "none", {})]
       ELSE \E m \in mine :
              /\ Go(c, "overrides")
              /\ read' = [read EXCEPT ![c] = [@ EXCEPT !.role = member[m].role, !.on = m]]
  /\ UNCHANGED cache

ReadOverrides(c) ==
  /\ at[c] = "overrides"
  /\ Go(c, "store")
  /\ read' = [read EXCEPT ![c] = Capabilities(@.features, @.role, overrides[@.on])]
  /\ UNCHANGED cache

Store(c) ==
  LET r == req[c] IN
  /\ at[c] = "store"
  /\ cache' = [cache EXCEPT ![r.via][r.who] = [caps |-> read[c], left |-> Ttl]]
  /\ Decide(c, read[c])
  /\ read' = [read EXCEPT ![c] = NoRead]

Filling(s, u) ==
  \E c \in Calls : /\ at[c] \in {"member", "overrides", "store"}
                   /\ req[c].via = s /\ req[c].who = u

-----------------------------------------------------------------------------
(* The platform's switches.                                                *)

AskToggle(c, r) ==
  /\ r.does = "toggle"
  /\ plan # "none"
  /\ Arrive(c, r, c, IF \E on \in {"on", "off"} : <<r.what[1], on>> \in flags
                          THEN "updateFlag" ELSE "createFlag")
  /\ UNCHANGED <<plan, flags>>

\* One row per feature: a flag that appeared since fails the insert.
WriteFlag(c) ==
  LET f == req[c].what[1] IN
  /\ at[c] \in {"updateFlag", "createFlag"}
  /\ IF at[c] = "createFlag" /\ \E on \in {"on", "off"} : <<f, on>> \in flags
       THEN Go(c, "failed") /\ UNCHANGED flags
       ELSE Go(c, "audit") /\ flags' = (flags \ {<<f, "on">>, <<f, "off">>}) \cup {req[c].what}
  /\ UNCHANGED plan

AskPlan(c, r) ==
  /\ r.does = "subscribe"
  /\ plan # "none"
  /\ Arrive(c, r, c, "setPlan")
  /\ UNCHANGED <<plan, flags>>

SetPlan(c) ==
  /\ at[c] = "setPlan"
  /\ Go(c, "audit")
  /\ plan' = req[c].what[1]
  /\ UNCHANGED flags

\* Mutant: an assignment drops the entry of the member who made it.
AuditChange_DropsActor(c) ==
  LET r == req[c] IN
  /\ at[c] = "audit"
  /\ Go(c, "ok")
  /\ cache' = [cache EXCEPT ![r.via] =
                 [u \in Users |-> IF r.does # "assign" \/ u = r.who THEN NoEntry ELSE @[u]]]
  /\ UNCHANGED read

\* The commit is behind; the audit row is written, and only then is this
\* process's cache told: of one member, or of the company.
AuditChange(c) ==
  LET r == req[c] IN
  /\ at[c] = "audit"
  /\ Go(c, "ok")
  /\ cache' = [cache EXCEPT ![r.via] =
                 [u \in Users |-> IF r.does # "assign" \/ u = r.user THEN NoEntry ELSE @[u]]]
  /\ UNCHANGED read

Guard(c) == GuardHit(c) \/ ReadCompany(c) \/ ReadMember(c) \/ ReadOverrides(c) \/ Store(c)

-----------------------------------------------------------------------------
(* Time and history.                                                       *)

Stands(s, u) == cache[s][u] # NoEntry \/ Filling(s, u)
StandsSomewhere(u) == \E s \in Servers : Stands(s, u)

\* Call c took a step, or died in it.
Remember(c, died) ==
  LET rows     == <<plan, flags, member, overrides>>
      moved    == IF rows' = rows THEN {} ELSE {u \in Users : RowsOf(u)' # RowsOf(u)}
      changed  == {u \in moved : Now(u)' # Now(u)}
      promised == IF at'[c] = "audit" THEN {req[c].via} ELSE {}
      late     == {p \in (Servers \ promised) \X changed : cache[p[1]][p[2]] # NoEntry}
                    \cup {p \in Servers \X moved : Filling(p[1], p[2])}
      skipped  == IF died /\ at[c] = "audit" THEN {req[c].via} \X Users ELSE {} IN
  /\ excused' = {p \in excused \cup late \cup skipped : Stands(p[1], p[2])'}
  /\ torn' = {u \in torn \cup {v \in moved : \E d \in Calls :
                                 at[d] \in {"member", "overrides"} /\ req[d].who = v} :
                StandsSomewhere(u)'}
  /\ lost' = {l \in lost \cup (UNION {{<<u, a, 0>> : a \in Atoms(Now(u))} : u \in changed}) :
                /\ StandsSomewhere(l[1])'
                /\ l[1] \in changed => l[2] \notin Atoms(Now(l[1]))'}

\* Bound: no tick while a guard reads, so a resolution is as old as its entry.
Tick ==
  /\ \A s \in Servers, u \in Users : ~ Filling(s, u)
  /\ \E s \in Servers, u \in Users : cache[s][u] # NoEntry
  /\ cache' = [s \in Servers |-> [u \in Users |->
       IF cache[s][u] = NoEntry \/ cache[s][u].left = 1 THEN NoEntry
       ELSE [cache[s][u] EXCEPT !.left = @ - 1]]]
  /\ UNCHANGED <<plan, flags, member, overrides, req, at, snap, read>>
  /\ lost' = {<<l[1], l[2], l[3] + 1>> :
                l \in {k \in lost : k[3] < Ttl /\ StandsSomewhere(k[1])'}}
  /\ excused' = {p \in excused : Stands(p[1], p[2])'}
  /\ torn' = {u \in torn : StandsSomewhere(u)'}

-----------------------------------------------------------------------------
(* Properties.                                                             *)

\* "The TTL is the upper bound on how long another instance can serve a stale
\* set" (capability-cache.ts): whatever a cached set still grants was held
\* within the last Ttl ticks, and the entry is gone before it is older; except
\* to a user whose rows changed between two statements of one resolution.
StaleAtMostTtl ==
  \A s \in Servers, u \in Users \ torn :
    cache[s][u] # NoEntry =>
      \A a \in Atoms(cache[s][u].caps) \ Atoms(Now(u)) :
        \E l \in lost : l[1] = u /\ l[2] = a /\ l[3] + cache[s][u].left <= Ttl

\* "Explicit invalidation on every permission/flag/plan change"
\* (capability-cache.ts): an entry agrees with the rows, unless the change was
\* made in another process, came while the entry was being resolved, is one that
\* invalidates nothing (joining, leaving), or its invalidation is still to come
\* or was lost with the audit row.
CacheAgreesUnlessBehind ==
  \A s \in Servers, u \in Users :
    cache[s][u] # NoEntry =>
      \/ cache[s][u].caps = Now(u)
      \/ <<s, u>> \in excused
      \/ \E c \in Calls : at[c] = "audit" /\ req[c].via = s
=============================================================================

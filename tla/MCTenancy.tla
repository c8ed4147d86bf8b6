----------------------------- MODULE MCTenancy -----------------------------
(***************************************************************************)
(* Instances of Tenancy for TLC: a company with two owners and a pending   *)
(* invitation, or no company yet.                                          *)
(***************************************************************************)
EXTENDS Tenancy, TLC

CONSTANTS ann, bob, cat, root, f1, f2, f3

mcFirstMembers ==
  (f1 :> [user |-> ann, role |-> "owner"]) @@ (f2 :> [user |-> bob, role |-> "owner"])
  @@ (f3 :> NoMember)

kManage == <<"access", "manage">>
kOrders == <<"orders", "read">>
kPush == <<"integrations", "manage">>
mcFirstInvites ==
  (f1 :> NoInvite) @@ (f2 :> NoInvite)
  @@ (f3 :> [user |-> cat, role |-> "custom", keys |-> {<<kOrders, TRUE>>}, status |-> "pending"])
mcFirstOverrides == (f1 :> {}) @@ (f2 :> {<<kOrders, FALSE, f2>>}) @@ (f3 :> {})

Req(does, who, user, role, keys, what) ==
  [does |-> does, who |-> who, user |-> user, role |-> role, keys |-> keys, what |-> what]
Own(does, who) == Req(does, who, who, NoChange, NoChange, <<>>)
mcMenu == {
  Own("create", ann), Own("switch", cat), Own("accept", cat),
  Req("invite", ann, cat, "owner", {}, <<>>),
  Req("invite", bob, cat, "custom", {<<kPush, TRUE>>}, <<>>),
  Req("revoke", ann, cat, NoChange, NoChange, <<>>),
  Req("remove", ann, bob, NoChange, NoChange, <<>>),
  Req("remove", bob, ann, NoChange, NoChange, <<>>),
  Req("assign", ann, bob, "warehouse", NoChange, <<>>),
  Req("assign", bob, ann, "call_center", {<<kManage, TRUE>>}, <<>>),
  Req("assign", ann, bob, NoChange, {<<kManage, FALSE>>}, <<>>),
  Req("use", bob, bob, NoChange, NoChange, <<"connections", "list">>),
  Req("use", cat, cat, NoChange, NoChange, <<"orders", "list">>),
  Req("toggle", root, root, NoChange, NoChange, <<"storefront_integration", "off">>),
  Req("toggle", root, root, NoChange, NoChange, <<"orders", "on">>),
  Req("subscribe", root, root, NoChange, NoChange, <<"free">>) }
TenancySymmetry == Permutations(Calls) \cup Permutations(Servers)
=============================================================================

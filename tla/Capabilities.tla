---------------------------- MODULE Capabilities ----------------------------
(***************************************************************************)
(* The access catalog and the three-layer resolution of a member's         *)
(* capabilities: subscription, feature flags, permissions.                 *)
(*                                                                         *)
(* A permission key "orders.read" is the pair <<"orders", "read">>.        *)
(***************************************************************************)
EXTENDS Naturals

\* "ai" ships switched off for the whole platform.
Features == {"master-data", "products", "inventory", "customers", "orders", "shipping",
             "finance", "analytics", "notifications", "storefront_integration", "ai"}
ActiveFeatures == Features \ {"ai"}

PermissionedFeatures == Features \ {"storefront_integration", "ai"}

Perms(subjects, levels) == subjects \X levels
ReadWrite(subjects) == Perms(subjects, {"read", "manage"})

Permissions == ReadWrite(PermissionedFeatures \cup {"access"}) \cup {<<"integrations", "manage">>}

\* The features that must be on for a permission to count; access.* has none.
Gates(permission) ==
  IF permission[1] = "access" THEN {}
  ELSE IF permission[1] = "integrations" THEN {"storefront_integration"}
  ELSE {permission[1]}

FreePlan == {"master-data", "products", "customers", "orders"}
StandardPlan == FreePlan \cup {"inventory", "shipping", "notifications"}

PlanFeatures ==
  [free     |-> FreePlan,
   standard |-> StandardPlan,
   pro      |-> StandardPlan \cup {"finance", "analytics", "storefront_integration"}]
Plans == DOMAIN PlanFeatures

Templates ==
  [owner         |-> Permissions,
   store_manager |-> {<<"access", "read">>, <<"integrations", "manage">>}
                       \cup ReadWrite({"orders", "products", "inventory", "customers", "shipping"})
                       \cup Perms({"analytics", "finance"}, {"read"}),
   call_center   |-> ReadWrite({"orders", "customers"}),
   warehouse     |-> ReadWrite({"inventory", "shipping"}) \cup Perms({"products", "orders"}, {"read"}),
   finance       |-> {<<"access", "read">>} \cup ReadWrite({"finance"})
                       \cup Perms({"analytics", "orders"}, {"read"}),
   marketing     |-> Perms({"analytics", "customers"}, {"read"}) \cup ReadWrite({"notifications"})]

\* A "custom" member has no template: its invitation's keys are overrides.
Roles == DOMAIN Templates \cup {"custom"}
TemplatePermissions(role) == IF role \in DOMAIN Templates THEN Templates[role] ELSE {}

-----------------------------------------------------------------------------

\* Plan and add-ons, with the company's own flags <<feature, on>> over them,
\* and the platform's switch over everything.
EffectiveFeatures(planned, addOns, flags) ==
  LET on  == {f \in Features : <<f, TRUE>> \in flags}
      off == {f \in Features : <<f, FALSE>> \in flags} IN
  (((planned \cup addOns) \ off) \cup on) \cap ActiveFeatures

\* The template with the member's overrides <<permission, granted>> over it,
\* less what a switched-off feature gates.
EffectivePermissions(features, granted, overrides) ==
  LET plus  == {p \in Permissions : <<p, TRUE>> \in overrides}
      minus == {p \in Permissions : <<p, FALSE>> \in overrides} IN
  {p \in (granted \ minus) \cup plus : Gates(p) \subseteq features}

\* What a custom role may be made of: every permission of the catalog that the
\* company's features leave standing.
AvailablePermissions(features) == EffectivePermissions(features, Permissions, {})

\* A requirement names a feature, a permission, both or none.
NoNeed == [feature |-> "none", permission |-> <<>>]
Can(features, permissions, need) ==
  /\ need.feature # "none" => need.feature \in features
  /\ need.permission # <<>> => need.permission \in permissions
=============================================================================

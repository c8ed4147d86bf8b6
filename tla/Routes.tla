------------------------------- MODULE Routes -------------------------------
(***************************************************************************)
(* The HTTP surface: every route of every controller, the guard in front   *)
(* of it and the capability it requires.                                   *)
(***************************************************************************)
EXTENDS Capabilities

Route(resource, ops, guard, feature, permission) ==
  {[op |-> <<resource, o>>, guard |-> guard,
    needs |-> [feature |-> feature, permission |-> permission]] : o \in ops}

\* JwtAuthGuard and AccessGuard with a feature and one of its permissions.
Gated(resource, feature, level, ops) ==
  Route(resource, ops, "capability", feature, <<feature, level>>)
Reads(resource, feature, ops) == Gated(resource, feature, "read", ops)
Writes(resource, feature, ops) == Gated(resource, feature, "manage", ops)
Core(resource, level, ops) == Route(resource, ops, "capability", "none", <<"access", level>>)
SignedIn(resource, ops) == Route(resource, ops, "jwt", "none", <<>>)
Open(resource, guard, ops) == Route(resource, ops, guard, "none", <<>>)

OrderRoutes ==
  Reads("orders", "orders", {"list", "statusCounts"})
  \cup Writes("orders", "orders", {"create", "bulkStatus", "bulkAssign", "parse", "importOrders"})
OneOrderRoutes ==
  Reads("orders", "orders", {"getOne", "activity"})
  \cup Writes("orders", "orders", {"update", "transition", "assign"})

CustomerRoutes ==
  Reads("customers", "customers", {"list", "getOne"})
  \cup Writes("customers", "customers", {"create", "export", "merge", "update", "archive"})
CustomerDetailRoutes ==
  Reads("customers", "customers", {"listOrders", "listAddresses"})
  \cup Writes("customers", "customers", {"createAddress", "updateAddress"})

ProductRoutes ==
  Reads("products", "products", {"list", "getOne", "listVariants"})
  \cup Writes("products", "products",
         {"create", "importProducts", "update", "archive", "createVariant", "updateVariant"})

InventoryRoutes ==
  Reads("inventory", "inventory", {"listStock"})
  \cup Writes("inventory", "inventory",
         {"setReorderPoint", "reserve", "release", "transfer", "adjust"})
WarehouseRoutes ==
  Reads("warehouses", "inventory", {"list", "getOne"})
  \cup Writes("warehouses", "inventory", {"create", "update", "archive"})

CarrierRoutes ==
  Reads("carriers", "shipping", {"listCarriers", "listBostaCities", "listBostaDistricts"})
  \cup Writes("carriers", "shipping", {"connectCarrier", "disconnectCarrier"})
ShipmentRoutes ==
  Reads("shipments", "shipping", {"getOne", "getByOrder"})
  \cup Writes("shipments", "shipping", {"create", "bulkCreate", "transition", "generateWaybill"})
WebhookRoutes == Open("shipping/webhooks", "signature", {"receive"})

ExpenseRoutes ==
  Reads("expenses", "finance", {"list", "getOne"}) \cup Writes("expenses", "finance", {"create", "update"})
InvoiceRoutes ==
  Reads("invoices", "finance", {"list", "getOne", "getPdf"}) \cup Writes("invoices", "finance", {"create"})
SupplierRoutes ==
  Reads("suppliers", "finance", {"list", "getOne"})
  \cup Writes("suppliers", "finance", {"create", "update", "archive"})
ReconciliationRoutes ==
  Reads("reconciliations", "finance", {"list", "getOne"}) \cup Writes("reconciliations", "finance", {"create"})
ReportRoutes == Reads("reports", "finance", {"cashCenter", "pnl"})
PeriodRoutes == Reads("periods", "finance", {"list"}) \cup Writes("periods", "finance", {"close"})
RefundRoutes == Reads("refunds", "finance", {"list"}) \cup Writes("refunds", "finance", {"create"})
TaxRoutes == Reads("tax-settings", "finance", {"get"}) \cup Writes("tax-settings", "finance", {"update"})
PurchaseOrderRoutes ==
  Reads("purchase-orders", "finance", {"list", "getOne"})
  \cup Writes("purchase-orders", "finance", {"create", "receive", "pay"})

AnalyticsRoutes ==
  Reads("analytics", "analytics", {"business", "products", "inventory", "staff", "profitability"})
  \cup Writes("analytics", "analytics", {"export"})

MasterDataRoutes ==
  Reads("master-data", "master-data", {"listResources", "list", "getOne"})
  \cup Writes("master-data", "master-data", {"create", "update", "remove"})

\* Every member's own: the feature, and no permission.
NotificationRoutes ==
  Route("notifications",
        {"list", "markRead", "getPreferences", "updatePreferences",
         "registerSubscription", "removeSubscription"},
        "capability", "notifications", <<>>)

ConnectionRoutes ==
  Route("connections",
        {"list", "create", "getOne", "update", "rotateKey", "revoke", "listEvents", "reprocess"},
        "capability", "storefront_integration", <<"integrations", "manage">>)
IngestionRoutes == Open("storefront", "api key", {"ingestOrder", "ingestProduct"})

TenancyRoutes ==
  SignedIn("tenancy", {"getMe", "listCompanies", "createCompany", "switchCompany",
                       "updateWhatsappSettings", "acceptInvitation"})
  \cup Core("tenancy", "read", {"listMembers"})
  \cup Core("tenancy", "manage",
            {"createInvitation", "listInvitations", "revokeInvitation", "removeMember"})

\* The capabilities themselves have no requirement.
AccessRoutes ==
  SignedIn("access", {"getCapabilities"})
  \cup Core("access", "read", {"listFeatures", "listPermissionTemplates", "listAvailablePermissions"})
  \cup Core("access", "manage", {"assignMemberPermissions"})

AdminRoutes == Open("admin", "super admin", {"listCompanies", "toggleFeature", "setSubscription"})

AuthRoutes ==
  Open("auth", "public", {"register", "login", "refresh"})
  \cup SignedIn("auth", {"logout", "listSessions", "revokeSession", "changePassword",
                         "requestAccountDeletion", "enrollTwoFactor", "verifyTwoFactor"})

HealthRoutes == Open("health", "public", {"liveness", "readiness"})

AllRoutes ==
  OrderRoutes \cup OneOrderRoutes \cup CustomerRoutes \cup CustomerDetailRoutes
  \cup ProductRoutes \cup InventoryRoutes \cup WarehouseRoutes
  \cup CarrierRoutes \cup ShipmentRoutes \cup WebhookRoutes
  \cup ExpenseRoutes \cup InvoiceRoutes \cup SupplierRoutes \cup ReconciliationRoutes
  \cup ReportRoutes \cup PeriodRoutes \cup RefundRoutes \cup TaxRoutes \cup PurchaseOrderRoutes
  \cup AnalyticsRoutes \cup MasterDataRoutes \cup NotificationRoutes
  \cup ConnectionRoutes \cup IngestionRoutes
  \cup TenancyRoutes \cup AccessRoutes \cup AdminRoutes \cup AuthRoutes \cup HealthRoutes

\* The controllers and the catalog agree: an owner on the plan with everything
\* may take every route, so that none asks for a feature or a permission the
\* catalog lacks, or gates one by the other's feature.
ASSUME RoutesAssumption ==
  \A r \in AllRoutes :
    Can(PlanFeatures.pro, EffectivePermissions(PlanFeatures.pro, Templates.owner, {}), r.needs)

Ops == {r.op : r \in AllRoutes}
Needs == [op \in Ops |-> (CHOOSE r \in AllRoutes : r.op = op).needs]
=============================================================================

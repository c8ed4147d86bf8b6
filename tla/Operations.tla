----------------------------- MODULE Operations -----------------------------
(***************************************************************************)
(* What each write of the services does after its repository transaction:  *)
(* the rows it adds to the audit log and the events it publishes, in order.*)
(*                                                                         *)
(* An item of a request is a sequence of steps [does, what, of, undo]:     *)
(* "commit" is the repository's transaction, "audit" a row of the audit    *)
(* log in a transaction of its own, "emit" an event, "forget" a cache      *)
(* entry and "carrier" a call to the carrier.  "of" names the row, and     *)
(* "undo" is what the caller does when the step fails.                     *)
(***************************************************************************)
EXTENDS Integers, Sequences, SequencesExt

Step(does, what) == [does |-> does, what |-> what, of |-> "row", undo |-> <<>>]
Commit == Step("commit", "")
Audit(action) == <<Step("audit", action)>>
Emit(event) == <<Step("emit", event)>>
Announced(action, event) == Audit(action) \o Emit(event)

\* How a request with several items goes on after one of them failed: an error
\* ends it; each item is stored, then each is announced; or row by row.
Operation(style, keyed, items) == [style |-> style, keyed |-> keyed, items |-> items]
Plain(trail) == Operation("one", FALSE, {<<Commit>> \o trail})
Keyed(trail) == Operation("one", TRUE, {<<Commit>> \o trail})
Either(keyed, trails) == Operation("one", keyed, {<<Commit>> \o t : t \in trails})
Read(trail) == Operation("one", FALSE, {[n \in DOMAIN trail |-> [trail[n] EXCEPT !.of = "read"]]})
InBulk(op) == [op EXCEPT !.style = "bulk"]
RowByRow(op) == [op EXCEPT !.style = "rows"]

Of(row, undo, op) ==
  {[n \in DOMAIN i |-> [i[n] EXCEPT !.of = row, !.undo = undo]] : i \in op.items}

-----------------------------------------------------------------------------
(* Customers.                                                              *)

CreateCustomer == Keyed(Announced("customer.created", "customer.created"))
UpdateCustomer == Plain(Announced("customer.updated", "customer.updated"))
ArchiveCustomer == Plain(Announced("customer.archived", "customer.updated"))
MergeCustomers == Plain(Announced("customer.merged", "customer.merged"))
CreateAddress == Plain(Announced("customer.address_created", "customer.updated"))
UpdateAddress == Plain(Announced("customer.address_updated", "customer.updated"))
ExportCustomers == Read(Announced("customer.exported", "customer.exported"))

(* Products.                                                               *)

CreateProduct == Plain(Announced("product.created", "product.created"))
UpdateProduct == Plain(Announced("product.updated", "product.updated"))
ArchiveProduct == Plain(Announced("product.archived", "product.archived"))
CreateVariant == Plain(Announced("product.variant_created", "product.updated"))
UpdateVariant == Plain(Announced("product.variant_updated", "product.updated"))

\* With a sku or a barcode the product gets its first variant, or is archived
\* when that fails; that the archive failed too is swallowed.
ImportProducts ==
  LET undo == CHOOSE u \in Of("archive", <<>>, ArchiveProduct) : TRUE
  IN  RowByRow(Operation("one", FALSE, CreateProduct.items \cup
        {p \o v : p \in CreateProduct.items, v \in Of("variant", undo, CreateVariant)}))

(* Master data and access: the cache is invalidated in between.            *)

AfterWrite(change) ==
  Plain(Audit(change) \o <<Step("forget", "")>> \o Emit("master_data.changed"))
CreateResource == AfterWrite("master_data.created")
UpdateResource == AfterWrite("master_data.updated")
DeactivateResource == AfterWrite("master_data.deactivated")

AccessChange(change) == Plain(Audit(change) \o <<Step("forget", "")>> \o Emit(change))
AssignMemberPermissions == AccessChange("access.permissions_changed")
ToggleFeature == AccessChange("access.feature_toggled")
SetSubscription == AccessChange("subscription.changed")

(* Inventory.                                                              *)

CreateWarehouse == Plain(Audit("inventory.warehouse_created"))
UpdateWarehouse == Plain(Audit("inventory.warehouse_updated"))
ArchiveWarehouse == Plain(Audit("inventory.warehouse_archived"))
SetReorderPoint == Plain(Audit("inventory.reorder_point_set"))

\* Per effect: stock.low too, when the level fell to the reorder point.
Effect == {Emit("stock.changed"), Emit("stock.changed") \o Emit("stock.low")}
Settle(action, effects) == Either(TRUE, {Audit(action) \o e : e \in effects})
Reserve == Settle("inventory.reserved", Effect)
Release == Settle("inventory.released", Effect)
Adjust == Settle("inventory.adjusted", Effect)
Transfer == Settle("inventory.transferred", {e \o f : e, f \in Effect})

(* Orders.                                                                 *)

CreateOrder == Keyed(Announced("order.created", "order.created"))
UpdateOrder ==
  Either(FALSE, {Audit("order.updated"),
                 Audit("order.updated")
                   \o Announced("order.payment_collected", "payment.collected")})
RecordTransition == Announced("order.status_changed", "order.status_changed")
TransitionOrder == Plain(RecordTransition)
AssignOrder == Plain(Announced("order.assigned", "order.assigned"))
BulkTransition == InBulk(TransitionOrder)
BulkAssign == InBulk(AssignOrder)

\* The rows carry no keys.
ImportOrders == RowByRow([CreateOrder EXCEPT !.keyed = FALSE])

(* Shipping.                                                               *)

ConnectCarrier == Plain(Audit("carrier.connected"))
DisconnectCarrier == Plain(Audit("carrier.disconnected"))
CreateShipment == Keyed(Announced("shipment.created", "shipment.created"))
BulkCreateShipments == InBulk(CreateShipment)
RecordShipmentTransition(action) ==
  {Announced(action, "shipment.status_changed") \o fee : fee \in {<<>>, Emit("shipment.delivered")}}
TransitionShipment == Either(FALSE, RecordShipmentTransition("shipment.status_changed"))
CancelShipment == Plain(Announced("shipment.cancelled", "shipment.status_changed"))
GenerateWaybill == Plain(<<Step("carrier", "")>> \o Audit("shipment.waybill_issued"))

(* Finance.                                                                *)

CreateSupplier == Plain(Audit("supplier.created"))
UpdateSupplier == Plain(Audit("supplier.updated"))
ArchiveSupplier == Plain(Audit("supplier.archived"))
CreatePurchaseOrder == Keyed(Audit("purchase_order.created"))
ReceivePurchaseOrder == Keyed(Announced("purchase_order.received", "purchase_order.received"))
PayPurchaseOrder == Keyed(Announced("purchase_order.payment_recorded", "payment.recorded"))
CreateExpense == Keyed(Audit("expense.created"))
UpdateExpense == Plain(Audit("expense.updated"))
UpdateTaxSettings == Plain(Audit("tax_settings.updated"))
CreateInvoice == Keyed(Announced("invoice.issued", "invoice.issued"))
CreateRefund == Keyed(Announced("refund.issued", "refund.issued"))
CreateReconciliation == Keyed(Audit("shipping_reconciliation.created"))
ClosePeriod == Keyed(Announced("period.closed", "period.closed"))

(* Storefront connections and analytics.                                   *)

CreateConnection == Plain(Audit("storefront_connection.created"))
UpdateConnection == Plain(Audit("storefront_connection.updated"))
RotateKey == Plain(Audit("storefront_connection.key_rotated"))
RevokeConnection == Plain(Audit("storefront_connection.revoked"))
ExportAxis == Read(Audit("analytics.exported"))

-----------------------------------------------------------------------------

Operations == {
  CreateCustomer, UpdateCustomer, ArchiveCustomer, MergeCustomers, CreateAddress, UpdateAddress,
  ExportCustomers, CreateProduct, UpdateProduct, ArchiveProduct, CreateVariant, UpdateVariant,
  ImportProducts, CreateResource, UpdateResource, DeactivateResource, AssignMemberPermissions,
  ToggleFeature, SetSubscription, CreateWarehouse, UpdateWarehouse, ArchiveWarehouse,
  SetReorderPoint, Reserve, Release, Adjust, Transfer, CreateOrder, UpdateOrder, TransitionOrder,
  AssignOrder, BulkTransition, BulkAssign, ImportOrders, ConnectCarrier, DisconnectCarrier,
  CreateShipment, BulkCreateShipments, TransitionShipment, CancelShipment, GenerateWaybill,
  CreateSupplier, UpdateSupplier, ArchiveSupplier, CreatePurchaseOrder, ReceivePurchaseOrder,
  PayPurchaseOrder, CreateExpense, UpdateExpense, UpdateTaxSettings, CreateInvoice, CreateRefund,
  CreateReconciliation, ClosePeriod, CreateConnection, UpdateConnection, RotateKey,
  RevokeConnection, ExportAxis }

\* The shape of the items.  Every step belongs to a row, and comes after the
\* commit of that row and before that of the next one; rows of a bulk have one
\* commit each.  A read commits nothing.
Kinds == {"commit", "audit", "emit", "forget", "carrier"}
IsCommit(s) == s.does = "commit"
SoundSteps(op, i) ==
  /\ DOMAIN i \subseteq Nat
  /\ \A n \in DOMAIN i :
       /\ i[n].does \in Kinds
       /\ IsCommit(i[n]) => i[n].of # "read"
       /\ i[n].of # "read" =>
            \E m \in DOMAIN i : /\ m <= n /\ IsCommit(i[m])
                               /\ \A l \in DOMAIN i : m <= l /\ l <= n => i[l].of = i[n].of
  /\ \A m, n \in DOMAIN i :
       /\ op.style = "bulk" \/ i[m].of = "read" => i[m].of = i[n].of
       /\ IsCommit(i[m]) /\ IsCommit(i[n]) /\ i[m].of = i[n].of => m = n

\* What is done to undo a step archives its row, and is not undone itself.
Archives(undo) == \E n \in DOMAIN undo : IsCommit(undo[n])
SoundUndo(op, undo) ==
  /\ SoundSteps(op, undo)
  /\ \A n \in DOMAIN undo : undo[n].of = "archive" /\ DOMAIN undo[n].undo = {}
  /\ op.keyed => DOMAIN undo = {}

\* Where the rest of a request goes on after an error, another row than the first
\* is undone with it.
Sound(op) == \A i \in op.items :
  /\ SoundSteps(op, i)
  /\ \A n \in DOMAIN i :
       /\ i[n].of # "archive" /\ SoundUndo(op, i[n].undo)
       /\ op.style = "one" \/ i[n].of = "row" \/ Archives(i[n].undo)

ASSUME OperationsAssumption == \A op \in Operations : Sound(op)

\* The closed catalogue of event types.
AccessEvents == {"access.permissions_changed", "access.feature_toggled", "subscription.changed"}
StoreEvents == {"master_data.changed", "product.created", "product.updated", "product.archived",
                "stock.changed", "stock.low", "customer.created", "customer.updated",
                "customer.exported", "customer.merged"}
OrderEvents == {"order.created", "order.status_changed", "order.assigned", "payment.collected",
                "shipment.created", "shipment.status_changed", "shipment.delivered"}
FinanceEvents == {"purchase_order.received", "payment.recorded", "invoice.issued",
                  "refund.issued", "period.closed"}
NotificationEvents == {"notification.created", "notification.delivered"}
Catalog ==
  AccessEvents \cup StoreEvents \cup OrderEvents \cup FinanceEvents \cup NotificationEvents

\* The events somebody subscribes to: the notification dispatcher.
Subscribed == {"order.status_changed", "payment.collected"}

Steps(op) == UNION {Range(i) : i \in op.items}
Published(op) == {s.what : s \in {t \in Steps(op) : t.does = "emit"}}

\* "Live now": every event of the catalogue has a publisher, the dispatcher for its
\* own two, and nothing else is published.
ASSUME CatalogAssumption ==
  UNION {Published(op) : op \in Operations} \cup NotificationEvents = Catalog
=============================================================================

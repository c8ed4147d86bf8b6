----------------------------- MODULE Storefront -----------------------------
(***************************************************************************)
(* A store connected to one company: its connection, the inbox of its      *)
(* order and product events, and what processing an event does to          *)
(* customers, products, stock and orders.  Several requests run at once,   *)
(* one statement or one transaction of another module at a time.           *)
(*                                                                         *)
(* Identity: an event is (connection, type, external id); a customer is    *)
(* its normalized phone, a variant its sku, a product the request that     *)
(* created it.                                                             *)
(***************************************************************************)
EXTENDS Integers, FiniteSets

CONSTANTS
  Calls,      \* bound: requests of the store and reprocess requests
  Events,
  Payload,    \* what an event says, by event
  Skus, Phones,
  Warehouses, \* bound: a subset of Nat, the newest one the greatest
  Scenarios,  \* bound: what is there and who asks for what, see StorefrontInit
  NoVariant, NoWarehouse, NoRow

\* What an event says, and what a warehouse keeps.
OrderPayload == [type: {"order"}, sku: Skus, phone: Phones]
ProductPayload ==
  [type: {"product"}, sku: Skus, target: Nat, active: BOOLEAN \cup {NoRow}]
ShelfRow == [active: BOOLEAN, default: BOOLEAN, onHand: [Skus -> Nat]]

\* A product is named by the call that created it, those from before by a string.
ProductIds == Calls \cup STRING
VariantRow == [product: ProductIds, active: BOOLEAN]

EventStates == {"pending", "processed", "failed"}
CustomerStates == {"active", "archived"}

ASSUME StorefrontAssumption ==
  /\ Warehouses \subseteq Nat /\ NoWarehouse \notin Warehouses
  /\ NoRow \notin EventStates /\ NoVariant \notin VariantRow
  /\ Payload \in [Events -> OrderPayload \cup ProductPayload]

\* What a run may begin with: rows, deliveries and reprocess requests, and what
\* users ask for: an update sets a status the DTO knows, a move names a level.
ASSUME ScenariosAssumption ==
  \A s \in Scenarios :
    /\ s.warehouse \in Warehouses \cup {NoWarehouse}
    /\ s.failed \subseteq Events
    /\ s.customers \in [Phones -> CustomerStates \cup {NoRow}]
    /\ s.variants \in [Skus -> VariantRow \cup {NoVariant}]
    /\ s.shelves \in [Warehouses -> ShelfRow]
    /\ \A c \in Calls : /\ s.requests[c].at \in {"auth", "find", "done"}
                         /\ s.requests[c].event \in Events
                         /\ s.requests[c].key \in Nat
    /\ \A call \in s.calls :
         /\ call.does = "update" => call.to \in {"active", "paused"}
         /\ call.does = "move" =>
              call.to[1] \in Warehouses /\ call.to[2] \in Skus /\ call.to[3] \in Int

VARIABLES
  conn,      \* the connection: [status, key, warehouse]
  events,    \* the inbox: "pending", "processed", "failed", or NoRow
  customers, \* by phone: "active", "archived", or NoRow
  products,  \* the products, by who created them
  variants,  \* by sku: [product, active]
  shelves,   \* warehouses: [active, default, onHand (by sku)]
  orders,    \* <<event, call>>: orders, and the call that made each
  req,       \* the requests
  calls,     \* what users still ask for
  slipped,   \* history: events whose order is there and whose request ended otherwise
  crossed,   \* history: events two requests ran at the same time
  lost       \* history: events whose request ended without marking them

catalogVars == <<customers, products, variants>>
historyVars == <<slipped, crossed, lost>>
storefrontVars == <<conn, events, catalogVars, shelves, orders, req, calls, historyVars>>

EventOf(c) == req[c].event
Said(c) == Payload[EventOf(c)]
Running(e) == {c \in Calls : req[c].event = e /\ req[c].at \notin {"auth", "find", "enqueue", "done"}}

StorefrontInit == \E s \in Scenarios :
  /\ conn = [status |-> "active", key |-> 1, warehouse |-> s.warehouse]
  /\ events = [e \in Events |-> IF e \in s.failed THEN "failed" ELSE NoRow]
  /\ customers = s.customers
  /\ variants = s.variants
  /\ products = {s.variants[k].product : k \in {i \in Skus : s.variants[i] # NoVariant}}
  /\ shelves = s.shelves
  /\ orders = {}
  /\ req = [c \in Calls |->
              [at |-> s.requests[c].at, event |-> s.requests[c].event, key |-> s.requests[c].key,
               again |-> s.requests[c].at = "find", product |-> NoRow,
               into |-> NoWarehouse, saw |-> 0, stirred |-> FALSE, answer |-> NoRow]]
  /\ calls = s.calls
  /\ slipped = {} /\ crossed = {} /\ lost = {}

Becomes(c, r) == req' = [req EXCEPT ![c] = r]

Go(c, at) == Becomes(c, [req[c] EXCEPT !.at = at])
GoInto(c, at, w) == Becomes(c, [req[c] EXCEPT !.at = at, !.into = w])
GoFor(c, at, p) == Becomes(c, [req[c] EXCEPT !.at = at, !.product = p])
GoSeeing(c, at, n) == Becomes(c, [req[c] EXCEPT !.at = at, !.saw = n])
End(c, answer) == Becomes(c, [req[c] EXCEPT !.at = "done", !.answer = answer])

\* Somebody else wrote the level the request has read.
Stir(r) == [r EXCEPT !.stirred = TRUE]

\* A level of a warehouse is set.
WithLevel(shelf, sku, level) == [shelf EXCEPT !.onHand = [shelf.onHand EXCEPT ![sku] = level]]

\* The error is caught, and the event will be marked failed.
Caught(c) == Go(c, "markFailed")

RowsStay == UNCHANGED <<conn, catalogVars, shelves, orders, calls>>

-----------------------------------------------------------------------------
(* Requests of the store.                                                  *)

\* The guard reads the active connections with the key's prefix.
Authenticate(c) ==
  /\ req[c].at = "auth"
  /\ IF conn.status = "active" /\ conn.key = req[c].key
       THEN GoInto(c, "enqueue", conn.warehouse)
       ELSE End(c, "unauthorized")
  /\ UNCHANGED <<events, historyVars>> /\ RowsStay

First(type) == IF type = "order" THEN "lines" ELSE "match"

\* The unique index stops a known event.  Its row is then looked up in the
\* transaction the violation has aborted, so the request ends in an error.
Enqueue(c) ==
  /\ req[c].at = "enqueue"
  /\ IF events[EventOf(c)] = NoRow
       THEN /\ events' = [events EXCEPT ![EventOf(c)] = "pending"]
            /\ Go(c, First(Said(c).type))
       ELSE End(c, "error") /\ UNCHANGED events
  /\ UNCHANGED historyVars /\ RowsStay

RunAgain(c) ==
  /\ GoInto(c, "attempt", conn.warehouse)
  /\ crossed' = crossed \cup IF Running(EventOf(c)) # {} THEN {EventOf(c)} ELSE {}
RefuseAgain(c) == End(c, "refused") /\ UNCHANGED crossed

\* Mutant: any event may be run again.
FindFailed_Any(c) ==
  /\ req[c].at = "find"
  /\ IF events[EventOf(c)] # NoRow THEN RunAgain(c) ELSE RefuseAgain(c)
  /\ UNCHANGED <<events, slipped, lost>> /\ RowsStay

\* A user runs a failed event again, whatever the status of its connection.
FindFailed(c) ==
  /\ req[c].at = "find"
  /\ IF events[EventOf(c)] = "failed" THEN RunAgain(c) ELSE RefuseAgain(c)
  /\ UNCHANGED <<events, slipped, lost>> /\ RowsStay

\* The count of attempts is all that is written.
IncrementAttempt(c) ==
  /\ req[c].at = "attempt"
  /\ Go(c, First(Said(c).type))
  /\ UNCHANGED <<events, historyVars>> /\ RowsStay

-----------------------------------------------------------------------------
(* An order.                                                               *)

Sold(sku) == variants[sku] # NoVariant /\ variants[sku].active

FindLines(c) ==
  /\ req[c].at = "lines"
  /\ IF Sold(Said(c).sku) THEN Go(c, "customer") ELSE Caught(c)
  /\ UNCHANGED <<events, historyVars>> /\ RowsStay

\* A list without ?active= leaves the archived customers out.
FindCustomer(c) ==
  /\ req[c].at = "customer"
  /\ Go(c, IF customers[Said(c).phone] = "active" THEN "order" ELSE "register")
  /\ UNCHANGED <<events, historyVars>> /\ RowsStay

\* The index on the phone covers the archived ones.
CreateCustomer(c) ==
  /\ req[c].at = "register"
  /\ IF customers[Said(c).phone] = NoRow
       THEN /\ customers' = [customers EXCEPT ![Said(c).phone] = "active"]
            /\ Go(c, "order")
       ELSE Go(c, "winner") /\ UNCHANGED customers
  /\ UNCHANGED <<conn, events, products, variants, shelves, orders, calls, historyVars>>

FindWinner(c) ==
  /\ req[c].at = "winner"
  /\ IF customers[Said(c).phone] = "active" THEN Go(c, "order") ELSE Caught(c)
  /\ UNCHANGED <<events, historyVars>> /\ RowsStay

\* One transaction, without an idempotency key; the variant is looked at again.
CreateOrder(c) ==
  /\ req[c].at = "order"
  /\ IF Sold(Said(c).sku)
       THEN /\ orders' = orders \cup {<<EventOf(c), c>>}
            /\ Go(c, "mark")
       ELSE Caught(c) /\ UNCHANGED orders
  /\ UNCHANGED <<conn, events, catalogVars, shelves, calls, historyVars>>

-----------------------------------------------------------------------------
(* A product.                                                              *)

MatchSku(c) ==
  /\ req[c].at = "match"
  /\ IF Sold(Said(c).sku)
       THEN GoFor(c, "variant", variants[Said(c).sku].product)
       ELSE Go(c, "product")
  /\ UNCHANGED <<events, historyVars>> /\ RowsStay

\* The name and description of the product go first; nothing here reads them.
UpdateVariant(c) ==
  /\ req[c].at = "variant"
  /\ variants' = IF Said(c).active = NoRow THEN variants
                 ELSE [variants EXCEPT ![Said(c).sku] =
                         [product |-> variants[Said(c).sku].product, active |-> Said(c).active]]
  /\ Go(c, "warehouse")
  /\ UNCHANGED <<conn, events, customers, products, shelves, orders, calls, historyVars>>

CreateProduct(c) ==
  /\ req[c].at = "product"
  /\ products' = products \cup {c}
  /\ GoFor(c, "newVariant", c)
  /\ UNCHANGED <<conn, events, customers, variants, shelves, orders, calls, historyVars>>

\* The index on the sku covers the inactive ones; on a conflict the new product
\* stays, without a variant.
CreateVariant(c) ==
  /\ req[c].at = "newVariant"
  /\ IF variants[Said(c).sku] = NoVariant
       THEN /\ variants' = [variants EXCEPT ![Said(c).sku] = [product |-> c, active |-> TRUE]]
            /\ Go(c, "warehouse")
       ELSE Caught(c) /\ UNCHANGED variants
  /\ UNCHANGED <<conn, events, customers, products, shelves, orders, calls, historyVars>>

Open == {w \in Warehouses : shelves[w].active}

\* The one flagged as the default, else the newest.
Preferred(w) ==
  IF \E v \in Open : shelves[v].default THEN shelves[w].default ELSE \A v \in Open : v <= w

\* The connection's own warehouse, as it was read when the request came in.
ResolveWarehouse(c) ==
  /\ req[c].at = "warehouse"
  /\ IF req[c].into # NoWarehouse THEN Go(c, "stock")
     ELSE IF Open # {} THEN \E w \in Open : Preferred(w) /\ GoInto(c, "stock", w)
     ELSE Caught(c)
  /\ UNCHANGED <<events, historyVars>> /\ RowsStay

Level(c) == shelves[req[c].into].onHand[Said(c).sku]

\* Mutant: the level of any warehouse.
ReadStock_Anywhere(c) ==
  /\ req[c].at = "stock"
  /\ \E w \in Warehouses :
       GoSeeing(c, IF shelves[w].onHand[Said(c).sku] = Said(c).target THEN "mark" ELSE "adjust",
                shelves[w].onHand[Said(c).sku])
  /\ UNCHANGED <<events, historyVars>> /\ RowsStay

ReadStock(c) ==
  /\ req[c].at = "stock"
  /\ GoSeeing(c, IF Level(c) = Said(c).target THEN "mark" ELSE "adjust", Level(c))
  /\ UNCHANGED <<events, historyVars>> /\ RowsStay

\* Requests that have read the level of a sku and not yet finished.
Watching(w, sku) ==
  {c \in Calls : /\ req[c].at \in {"adjust", "mark"} /\ Said(c).type = "product"
                 /\ Said(c).sku = sku /\ req[c].into = w}

\* The difference is applied to the level as it is now, under its lock.
Adjust(c) ==
  LET w == req[c].into
      sku == Said(c).sku
      level == Level(c) + Said(c).target - req[c].saw IN
  /\ req[c].at = "adjust"
  /\ IF shelves[w].active /\ level >= 0
       THEN /\ shelves' = [shelves EXCEPT ![w] = WithLevel(shelves[w], sku, level)]
            /\ req' = [b \in Calls |->
                 IF b = c THEN [req[c] EXCEPT !.at = "mark"]
                 ELSE IF b \in Watching(w, sku) THEN Stir(req[b]) ELSE req[b]]
       ELSE Caught(c) /\ UNCHANGED shelves
  /\ UNCHANGED <<conn, events, catalogVars, orders, calls, historyVars>>

-----------------------------------------------------------------------------
(* The end of a request.                                                   *)

\* A request of the store then notes the time on the connection.
MarkProcessed(c) ==
  /\ req[c].at = "mark"
  /\ events' = [events EXCEPT ![EventOf(c)] = "processed"]
  /\ IF req[c].again THEN End(c, "updated") ELSE Go(c, "touch")
  /\ UNCHANGED historyVars /\ RowsStay

Touch(c) ==
  /\ req[c].at = "touch"
  /\ End(c, "created")
  /\ UNCHANGED <<events, historyVars>> /\ RowsStay

Slip(c) == slipped' = slipped \cup IF <<EventOf(c), c>> \in orders THEN {EventOf(c)} ELSE {}

MarkFailed(c) ==
  /\ req[c].at = "markFailed"
  /\ events' = [events EXCEPT ![EventOf(c)] = "failed"]
  /\ Slip(c)
  /\ End(c, "error")
  /\ UNCHANGED <<crossed, lost>> /\ RowsStay

Guarded == {"lines", "customer", "register", "winner", "order", "match", "variant", "product",
            "newVariant", "warehouse", "stock", "adjust", "mark", "touch"}

\* Mutant: the error is not caught.
StatementFails_Escapes(c) ==
  /\ req[c].at \in Guarded
  /\ End(c, "error")
  /\ UNCHANGED <<events, historyVars>> /\ RowsStay

\* Any call between the two may fail, also after it has committed: the audit row
\* of a customer, a product, an adjustment or an order is written afterwards.
StatementFails(c) ==
  /\ req[c].at \in Guarded
  /\ Caught(c)
  /\ UNCHANGED <<events, historyVars>> /\ RowsStay

\* The process dies, or the event cannot be marked failed.
Die(c) ==
  /\ req[c].at # "done"
  /\ End(c, "none")
  /\ lost' = lost \cup {EventOf(c)}
  /\ Slip(c)
  /\ UNCHANGED <<events, crossed>> /\ RowsStay

-----------------------------------------------------------------------------
(* The users of the company.                                               *)

Ask(call) == call \in calls /\ calls' = calls \ {call}

\* Label and warehouse aside: the status is set whatever it was.
UpdateConnection(call) ==
  /\ call.does = "update" /\ Ask(call)
  /\ conn' = [conn EXCEPT !.status = call.to]
  /\ UNCHANGED <<events, catalogVars, shelves, orders, req, historyVars>>

RotateKey(call) ==
  /\ call.does = "rotate" /\ Ask(call)
  /\ conn' = [conn EXCEPT !.key = conn.key + 1]
  /\ UNCHANGED <<events, catalogVars, shelves, orders, req, historyVars>>

Revoke(call) ==
  /\ call.does = "revoke" /\ Ask(call)
  /\ conn' = [conn EXCEPT !.status = "revoked"]
  /\ UNCHANGED <<events, catalogVars, shelves, orders, req, historyVars>>

ArchiveCustomer(call) ==
  /\ call.does = "archiveCustomer" /\ Ask(call)
  /\ customers' = [customers EXCEPT ![call.to] = IF @ = NoRow THEN @ ELSE "archived"]
  /\ UNCHANGED <<conn, events, products, variants, shelves, orders, req, historyVars>>

\* The old default is cleared first; a target that does not exist, or is not of
\* this company, is found out afterwards, and the clear is committed all the same.
MakeDefault(call) ==
  /\ call.does = "default" /\ Ask(call)
  /\ shelves' = [w \in Warehouses |-> [shelves[w] EXCEPT !.default = w = call.to]]
  /\ UNCHANGED <<conn, events, catalogVars, orders, req, historyVars>>

ArchiveWarehouse(call) ==
  /\ call.does = "archiveWarehouse" /\ Ask(call)
  /\ shelves' = [w \in Warehouses |-> IF w = call.to
       THEN [shelves[w] EXCEPT !.active = FALSE, !.default = FALSE] ELSE shelves[w]]
  /\ UNCHANGED <<conn, events, catalogVars, orders, req, historyVars>>

\* A sale, a receipt or an adjustment.
MoveStock(call) ==
  /\ call.does = "move" /\ Ask(call)
  /\ LET w == call.to[1]
         level == shelves[w].onHand[call.to[2]] + call.to[3] IN
       /\ level >= 0
       /\ shelves' = [shelves EXCEPT ![w] = WithLevel(shelves[w], call.to[2], level)]
  /\ req' = [c \in Calls |-> IF c \in Watching(call.to[1], call.to[2])
                               THEN Stir(req[c]) ELSE req[c]]
  /\ UNCHANGED <<conn, events, catalogVars, orders, historyVars>>

-----------------------------------------------------------------------------

RequestStep(c) ==
  \/ Authenticate(c) \/ Enqueue(c) \/ FindFailed(c) \/ IncrementAttempt(c)
  \/ FindLines(c) \/ FindCustomer(c) \/ CreateCustomer(c) \/ FindWinner(c) \/ CreateOrder(c)
  \/ MatchSku(c) \/ UpdateVariant(c) \/ CreateProduct(c) \/ CreateVariant(c)
  \/ ResolveWarehouse(c) \/ ReadStock(c) \/ Adjust(c)
  \/ MarkProcessed(c) \/ Touch(c) \/ MarkFailed(c)

User(call) ==
  \/ UpdateConnection(call) \/ RotateKey(call) \/ Revoke(call) \/ ArchiveCustomer(call)
  \/ MakeDefault(call) \/ ArchiveWarehouse(call) \/ MoveStock(call)

StorefrontNext ==
  \/ \E c \in Calls : RequestStep(c) \/ StatementFails(c) \/ Die(c)
  \/ \E call \in calls : User(call)

\* A request is driven to its end by the process that serves it.
Fairness == \A c \in Calls : WF_storefrontVars(RequestStep(c))
StorefrontSpec == StorefrontInit /\ [][StorefrontNext]_storefrontVars /\ Fairness

-----------------------------------------------------------------------------
(* Properties.                                                             *)

Ats == Guarded \cup {"auth", "enqueue", "find", "attempt", "markFailed", "done"}

RequestRow ==
  [at: Ats, event: Events, key: Nat, again: BOOLEAN, product: ProductIds \cup {NoRow},
   into: Warehouses \cup {NoWarehouse}, saw: Nat, stirred: BOOLEAN,
   answer: {"created", "updated", "unauthorized", "refused", "error", "none", NoRow}]

StorefrontTypes ==
  /\ conn \in [status: {"active", "paused", "revoked"}, key: Nat,
               warehouse: Warehouses \cup {NoWarehouse}]
  /\ events \in [Events -> EventStates \cup {NoRow}]
  /\ customers \in [Phones -> CustomerStates \cup {NoRow}]
  /\ products \subseteq ProductIds
  /\ variants \in [Skus -> VariantRow \cup {NoVariant}]
  /\ shelves \in [Warehouses -> ShelfRow]
  /\ orders \subseteq Events \X Calls
  /\ req \in [Calls -> RequestRow]
  /\ slipped \subseteq Events /\ crossed \subseteq Events /\ lost \subseteq Events

\* An event makes one order, "a re-sent event is a no-op" (migration
\* 20260820000000_storefront_integration), unless it was marked failed after
\* its order was stored, its process died there, or it was run again twice at once.
EventsMakeOneOrder ==
  \A e \in Events : Cardinality({o \in orders : o[1] = e}) > 1 => e \in slipped \cup crossed

\* syncStock brings the level of the right warehouse to the quantity the event
\* gives, unless somebody else wrote that level between its read and the end.
StockMeetsTheFeed ==
  \A c \in Calls :
    req[c].at = "mark" /\ Said(c).type = "product" /\ ~req[c].stirred =>
      Level(c) = Said(c).target

\* An event does not stay pending, where neither the store nor a user can have
\* it run again, unless its request could not mark it.
EveryEventSettles ==
  \A e \in Events : events[e] = "pending" ~> (events[e] # "pending" \/ e \in lost)
=============================================================================

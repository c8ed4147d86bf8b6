---------------------------- MODULE MCStorefront ----------------------------
(***************************************************************************)
(* Instances of Storefront for TLC: a new order beside a second one of the *)
(* same phone or its own retry, a failed order run again twice, products   *)
(* with a new, a known and a retired sku, and users in between.            *)
(***************************************************************************)
EXTENDS Storefront, TLC

CONSTANTS c1, c2, c3, e1, e2, p1, p2, p3, mug, vase, ali, omar

mcPayload == (e1 :> [type |-> "order", sku |-> mug, phone |-> ali])
          @@ (e2 :> [type |-> "order", sku |-> mug, phone |-> ali])
          @@ (p1 :> [type |-> "product", sku |-> mug, target |-> 2, active |-> NoRow])
          @@ (p2 :> [type |-> "product", sku |-> mug, target |-> 1, active |-> FALSE])
          @@ (p3 :> [type |-> "product", sku |-> vase, target |-> 1, active |-> NoRow])
mcEvents == DOMAIN mcPayload

Deliver(e, key) == [at |-> "auth", event |-> e, key |-> key]
Again(e) == [at |-> "find", event |-> e, key |-> 0]
None == [at |-> "done", event |-> e1, key |-> 0]
Three(a, b, c) == (c1 :> a) @@ (c2 :> b) @@ (c3 :> c)

NoCustomers == [p \in Phones |-> NoRow]
Mugs == (mug :> [product |-> "old", active |-> TRUE]) @@ (vase :> NoVariant)
Retired == [Mugs EXCEPT ![mug].active = FALSE]
Shelf(default, mugs) == [active |-> TRUE, default |-> default, onHand |-> (mug :> mugs) @@ (vase :> 0)]
TwoShelves == (1 :> Shelf(TRUE, 1)) @@ (2 :> Shelf(FALSE, 0))
User1(does, to) == [does |-> does, to |-> to]

Scenario(requests, failed, custs, vars_, warehouse, users) ==
  [requests |-> requests, failed |-> failed, customers |-> custs, variants |-> vars_,
   warehouse |-> warehouse, shelves |-> TwoShelves, calls |-> users]

mcScenarios == {
  Scenario(Three(Deliver(e1, 1), Deliver(e1, 1), Again(e1)), {}, NoCustomers, Mugs, 1, {}),
  Scenario(Three(Deliver(e1, 1), Deliver(e2, 1), None), {}, NoCustomers, Mugs, 1,
           {User1("archiveCustomer", ali)}),
  Scenario(Three(Again(e1), Again(e1), None), {e1}, (ali :> "active") @@ (omar :> NoRow), Mugs, 1,
           {User1("revoke", NoRow)}),
  Scenario(Three(Deliver(p1, 1), Deliver(p2, 1), Deliver(e1, 1)), {}, NoCustomers, Mugs, 2, {}),
  Scenario(Three(Deliver(p3, 1), Deliver(p1, 1), None), {}, NoCustomers, Retired, NoWarehouse,
           {User1("default", 3), User1("archiveWarehouse", 1)}),
  Scenario(Three(Deliver(p1, 1), Again(p2), None), {p2}, NoCustomers, Mugs, NoWarehouse,
           {User1("default", 2), User1("move", <<1, mug, -1>>)}),
  Scenario(Three(Deliver(e1, 1), Deliver(p3, 2), None), {}, NoCustomers, Mugs, 1,
           {User1("rotate", NoRow), User1("revoke", NoRow), User1("update", "active")}) }
=============================================================================

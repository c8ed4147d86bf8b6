--------------------------- MODULE MCOrderMoney ----------------------------
(***************************************************************************)
(* Instances of OrderMoney for TLC.                                        *)
(***************************************************************************)
EXTENDS OrderMoney, TLC

CONSTANTS new1, new2, new3, new4, edit1, edit2, edit3, again1, move1, move2, join1, join2,
          ann, bob, cat, dan, phone1, phone2, phone3, phone4, k1, k2, rename1, rename2, close1,
          home, shop, flat, add1, add2, default1, default2, plain1

mcPerson(phone, key) == [phone |-> phone, key |-> key]
mcPhone(customer, phone) == [customer |-> customer, phone |-> phone]
mcHome(customer, governorate, isDefault) ==
  [customer |-> customer, governorateId |-> governorate, isDefault |-> isDefault]
mcSet(customer, address, governorate, isDefault, active) ==
  [customer |-> customer, address |-> address, isDefault |-> isDefault,
   governorateId |-> governorate, active |-> active]
mcNew(key, who, price, quantity, fee, discount, collected, pay) ==
  [customerId |-> who, key |-> key, items |-> <<[price |-> price, quantity |-> quantity]>>,
   shippingFee |-> fee, discount |-> discount, paymentStatus |-> pay, collectedAmount |-> collected]
mcEdit(order, lines, fee, discount, collected) ==
  [order |-> order, items |-> lines, shippingFee |-> fee, discount |-> discount,
   collectedAmount |-> collected]
mcJoin(from, into) == [from |-> from, into |-> into]
mcMove(order, to) == [order |-> order, toStatus |-> to]
mcLine(price, quantity) == [price |-> price, quantity |-> quantity]

\* Orders; two edits and a retry; orders beside merges; addresses beside a merge; customers.
mcScenarios == {
  {new1, new2, new3, new4, edit1, edit2, move1, move2},
  {new1, new2, edit1, again1, edit3},
  {new1, new2, new3, edit1, move1, join1, join2},
  {join1, join2, add1, add2, default1, default2, plain1},
  {new2, join1, cat, dan, rename1, rename2, close1}}

\* Four creates: two with one key, one whose discount the checks refuse.  Of
\* the first order the items, the discount and the collected amount are edited,
\* and one edit is sent again.
\* Of ann's addresses the second is made the default, and one that is bob's.
mcBodies ==
  (new1 :> mcNew(k1, ann, 1, 3, Absent, Absent, Absent, Absent))
    @@ (new2 :> mcNew(NoKey, ann, 1, 1, 0, 0, 1, "paid"))
    @@ (new3 :> mcNew(NoKey, bob, 2, 1, 0, 3, 0, "unpaid"))
    @@ (new4 :> mcNew(k1, ann, 1, 1, 0, 0, 0, "unpaid"))
    @@ (edit1 :> mcEdit(new1, <<mcLine(1, 1), mcLine(1, 1)>>, Absent, Absent, 1))
    @@ (again1 :> mcEdit(new1, <<mcLine(1, 1), mcLine(1, 1)>>, Absent, Absent, 1))
    @@ (edit2 :> mcEdit(new1, <<mcLine(2, 2)>>, 0, 3, Absent))
    @@ (edit3 :> mcEdit(new2, Absent, Absent, Absent, 1))
    @@ (move1 :> mcMove(new1, "cancelled")) @@ (move2 :> mcMove(new2, "confirming"))
    @@ (join1 :> mcJoin(ann, bob)) @@ (join2 :> mcJoin(bob, ann))
    @@ (ann :> mcPerson(phone1, NoKey)) @@ (bob :> mcPerson(phone2, NoKey))
    @@ (cat :> mcPerson(phone4, k2)) @@ (dan :> mcPerson(phone1, k2))
    @@ (rename1 :> mcPhone(ann, phone3)) @@ (rename2 :> mcPhone(bob, phone3))
    @@ (close1 :> [customer |-> bob])
    @@ (home :> mcHome(ann, Absent, TRUE)) @@ (shop :> mcHome(ann, Absent, FALSE))
    @@ (flat :> mcHome(bob, Absent, TRUE))
    @@ (add1 :> mcHome(ann, Absent, TRUE)) @@ (add2 :> mcHome(bob, "unknown", TRUE))
    @@ (default1 :> mcSet(ann, shop, Absent, TRUE, Absent))
    @@ (default2 :> mcSet(ann, flat, Absent, TRUE, Absent))
    @@ (plain1 :> mcSet(ann, home, Absent, FALSE, FALSE))

\* TLC computes a definition once, but not the one it puts in a constant's place.
mcBody == mcBodies
=============================================================================

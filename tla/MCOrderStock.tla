---------------------------- MODULE MCOrderStock ---------------------------
(***************************************************************************)
(* Instances of OrderStock for TLC.                                        *)
(***************************************************************************)
EXTENDS OrderStock, TLC

CONSTANTS o1, o2, v1, v2, w1, w2

mcItem(v, q) == [variant |-> v, qty |-> q]

\* One order lists a variant on two lines; the other wants the same variants.
mcTwoOrders ==
  (o1 :> <<mcItem(v1, 1), mcItem(v2, 1), mcItem(v1, 1)>>) @@
  (o2 :> <<mcItem(v2, 3), mcItem(v1, 1)>>)

\* Clients also replace the items of one of them, reserve a unit for it, and take
\* a unit off the shelf.
mcEditions == {[order |-> o1, items |-> <<mcItem(v1, 2)>>]}

mcCounts == {[variant |-> v1, delta |-> -1]}

mcAsks == {[order |-> o1, variant |-> v1, qty |-> 1]}

=============================================================================

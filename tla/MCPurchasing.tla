---------------------------- MODULE MCPurchasing ---------------------------
(***************************************************************************)
(* Instances of Purchasing for TLC.                                        *)
(***************************************************************************)
EXTENDS Purchasing, TLC

CONSTANTS c1, c2, c3, c4, k1

mcLine(v, n, cost) == [variant |-> v, ordered |-> n, cost |-> cost]
mcWant(i, n) == [line |-> i, quantity |-> n]

\* Two orders of the same two variants, listed in opposite orders.
mcStanding ==
  <<<<mcLine(1, 2, 7), mcLine(2, 2, 4)>>, <<mcLine(2, 3, 9), mcLine(1, 1, 2)>>>>

mcReceive(o, w, lines, key) ==
  [op |-> "receive", order |-> o, warehouse |-> w, lines |-> lines, key |-> key]
mcCreate(supplier, v, key) ==
  [op |-> "create", supplier |-> supplier, lines |-> <<mcLine(v, 1, 5)>>, key |-> key]
mcBoth ==
  [op |-> "create", supplier |-> "acme", lines |-> <<mcLine(2, 1, 5), mcLine(1, 1, 5)>>, key |-> NoKey]
mcAdjust(w, v, delta) ==
  [op |-> "adjust", warehouse |-> w, variant |-> v, delta |-> delta, key |-> NoKey]

mcPlan(a, b, c, d) == (c1 :> a) @@ (c2 :> b) @@ (c3 :> c) @@ (c4 :> d)

\* Receipts of one order beside those of the other.
mcWhole(o, key) == mcReceive(o, 1, <<mcWant(1, 2), mcWant(2, 1)>>, key)
mcRest(o) == mcReceive(o, 1, <<mcWant(2, 1)>>, NoKey)
mcAgain == mcReceive(1, 1, <<mcWant(2, 1)>>, k1)
mcTwice == mcReceive(1, 1, <<mcWant(2, 1), mcWant(2, 1)>>, NoKey)
mcElsewhere == mcReceive(1, 2, <<mcWant(2, 1), mcWant(1, 1)>>, NoKey)
mcUnknown == mcReceive(2, 3, <<mcWant(1, 1)>>, NoKey)

mcErrands ==
  {mcPlan(mcWhole(1, k1), mcWhole(2, NoKey), third, fourth) :
     third \in {mcRest(1), mcAgain, mcTwice, mcElsewhere},
     fourth \in {mcAdjust(1, 1, -1), mcAdjust(1, 2, 1), mcUnknown}}
  \cup {mcPlan(mcWhole(1, k1), mcRest(1), mcAgain, mcRest(1))}
  \cup {mcPlan(mcReceive(1, 1, <<mcWant(1, 2), mcWant(2, 2)>>, NoKey), mcRest(1), mcWhole(2, NoKey),
                mcAdjust(1, 2, -2))}
  \cup {mcPlan(mcWhole(1, NoKey), mcBoth, mcAdjust(1, 1, 1), mcRest(2))}
  \cup {mcPlan(mcCreate("acme", 1, k1), mcCreate("acme", 2, key), mcCreate(supplier, 3, NoKey),
                mcReceive(c1, 1, <<mcWant(1, 1)>>, NoKey)) :
          key \in {k1, NoKey}, supplier \in {"acme", "archived"}}

mcShelf == [s \in Shelves |-> IF s = <<1, 1>> THEN 1 ELSE 0]
=============================================================================

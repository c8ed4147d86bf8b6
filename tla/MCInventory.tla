---------------------------- MODULE MCInventory ----------------------------
(***************************************************************************)
(* Instances of Inventory for TLC.  Four calls; the plans say what each   *)
(* of them asks for.  Which call is c1 and which is c2 makes no            *)
(* difference, so the plans that a renaming of the calls turns into one    *)
(* another are explored once.                                              *)
(***************************************************************************)
EXTENDS Inventory, TLC

CONSTANTS c1, c2, c3, c4, k1, v1, v2

mcBase == [op |-> "reserve", from |-> 1, to |-> 2, variant |-> v1, qty |-> 1,
           key |-> NoKey, target |-> Nobody]

mcReserve(qty, key) == [mcBase EXCEPT !.qty = qty, !.key = key]
mcOversold == [mcBase EXCEPT !.variant = v2, !.qty = 3]
mcElsewhere == [mcBase EXCEPT !.from = 2, !.key = k1]
mcRelease(c) == [mcBase EXCEPT !.op = "release", !.target = c]
mcTransfer(from, to, key) ==
  [mcBase EXCEPT !.op = "transfer", !.from = from, !.to = to, !.key = key]
mcAdjust(qty, key) == [mcBase EXCEPT !.op = "adjust", !.qty = qty, !.key = key]
mcReorder == [mcBase EXCEPT !.op = "setReorderPoint", !.qty = 1]

mcPlan(r1, r2, r3, r4) == (c1 :> r1) @@ (c2 :> r2) @@ (c3 :> r3) @@ (c4 :> r4)

\* One level: reservations compete, or one of them is freed twice, while
\* another call changes the balance or the reorder point under them.
mcContended ==
  {mcPlan(mcReserve(1, NoKey), mcReserve(2, NoKey), r3, r4) :
     r3 \in {mcRelease(c1), mcAdjust(-2, NoKey)},
     r4 \in {mcRelease(c1), mcReorder, mcAdjust(-1, NoKey)}}

\* One key and two levels: retries race each other and calls that lock the
\* same levels from the other side.
mcRacing ==
  {mcPlan(mcReserve(1, k1), mcReserve(1, k1), mcElsewhere, mcOversold),
   mcPlan(mcTransfer(1, 2, k1), mcTransfer(1, 2, k1), mcTransfer(2, 1, NoKey), mcOversold),
   mcPlan(mcAdjust(1, k1), mcAdjust(1, k1), mcTransfer(2, 1, NoKey), mcOversold)}

mcPlans == mcContended \cup mcRacing
mcRequests == UNION {{p[c] : c \in Calls} : p \in mcPlans}

=============================================================================

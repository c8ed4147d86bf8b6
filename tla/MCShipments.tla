---------------------------- MODULE MCShipments ----------------------------
(***************************************************************************)
(* Instances of Shipments for TLC.                                         *)
(***************************************************************************)
EXTENDS Shipments, TLC

CONSTANTS o1, o2, c1, c2, c3, k1

\* Two calls race for o1; the third spends the key of the first on o2.
mcOrderOf == (c1 :> o1) @@ (c2 :> o1) @@ (c3 :> o2)
mcKeyOf == (c1 :> k1) @@ (c2 :> NoKey) @@ (c3 :> k1)
mcCarrierOf == (c1 :> "auto") @@ (c2 :> "bosta") @@ (c3 :> "manual")
mcFirstStatus == (o1 :> "ready") @@ (o2 :> "shipped")
=============================================================================

--------------------------- MODULE ShipmentStatus --------------------------
(***************************************************************************)
(* The shipment state machine.                                             *)
(*                                                                         *)
(* Source: modules/shipping/domain/shipment-status.ts.                     *)
(***************************************************************************)

Transitions ==
  [created    |-> {"picked_up", "cancelled"},
   picked_up  |-> {"in_transit", "returned", "cancelled"},
   in_transit |-> {"delivered", "returned"},
   delivered  |-> {},
   returned   |-> {},
   cancelled  |-> {}]

Statuses == DOMAIN Transitions

CanTransition(from, to) == to \in Transitions[from]

\* The states in which a shipment counts as the order's active one.
ActiveStatuses == {"created", "picked_up", "in_transit"}

\* The order statuses a shipment may be booked in.
ShippableOrderStatuses == {"ready", "shipped"}
=============================================================================

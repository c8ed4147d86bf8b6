---------------------------- MODULE OrderStatus ----------------------------
(***************************************************************************)
(* The order state machine: the legal transitions, the stock effect a      *)
(* transition triggers and the payment status an amount stands for.        *)
(*                                                                         *)
(* Source: modules/orders/domain/order-status.ts.                          *)
(***************************************************************************)
EXTENDS Integers

Transitions ==
  [new        |-> {"confirming", "processing", "cancelled", "postponed"},
   confirming |-> {"processing", "incomplete", "cancelled", "postponed"},
   processing |-> {"incomplete", "ready", "cancelled", "postponed"},
   incomplete |-> {"processing", "ready", "cancelled", "postponed"},
   ready      |-> {"shipped", "cancelled", "postponed"},
   shipped    |-> {"delivered", "returned", "postponed"},
   delivered  |-> {"completed", "returned", "exchanged"},
   completed  |-> {"returned", "exchanged"},
   postponed  |-> {"new", "confirming", "processing", "ready", "cancelled"},
   cancelled  |-> {},
   returned   |-> {"exchanged"},
   exchanged  |-> {}]

Statuses == DOMAIN Transitions

CanTransition(from, to) == to \in Transitions[from]

\* The states the source says hold a live stock reservation.
ReservingStates == {"processing", "incomplete", "ready", "postponed"}

\* Mutant: only a cancellation from `processing` gives the units back.
StockEffectOf_ReadyKeeps(from, to) ==
  CASE to = "processing" /\ from \notin ReservingStates -> "reserve"
    [] to = "shipped" -> "ship"
    [] to \in {"cancelled", "returned"} /\ from = "processing" -> "release"
    [] OTHER -> "none"

StockEffectOf(from, to) ==
  CASE to = "processing" /\ from \notin ReservingStates -> "reserve"
    [] to = "shipped" -> "ship"
    [] to \in {"cancelled", "returned"} /\ from \in ReservingStates -> "release"
    [] OTHER -> "none"

RequiresReason(to) == to = "cancelled"

PaymentStatuses == {"unpaid", "partial", "paid"}

DerivePaymentStatus(collected, total) ==
  CASE collected <= 0 -> "unpaid"
    [] collected > 0 /\ collected >= total -> "paid"
    [] OTHER -> "partial"
=============================================================================

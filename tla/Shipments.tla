----------------------------- MODULE Shipments -----------------------------
(***************************************************************************)
(* Booking, moving and cancelling the shipments of orders.                 *)
(*                                                                         *)
(* A booking is two short transactions with the carrier's HTTP call        *)
(* between them: the first checks that the order may be shipped, the       *)
(* second checks again and inserts the row.  Both take an advisory lock on *)
(* the order id and read the order itself without a lock.  A status        *)
(* transition is one transaction under the shipment's row lock; a          *)
(* cancellation calls the carrier inside it.  The two transactions of a    *)
(* booking run the same statements, so an action below is one statement of *)
(* either.                                                                 *)
(*                                                                         *)
(* A shipment is named by the call that booked it.                         *)
(***************************************************************************)
EXTENDS ShipmentStatus, FiniteSets, Naturals

CONSTANTS
  Orders,        \* orders of one company
  Calls,         \* calls of POST /shipments
  OrderOf,       \* the order a call ships
  KeyOf,         \* its Idempotency-Key, or NoKey
  CarrierOf,     \* the carrier the client chose, or "auto"
  NoKey, NoCall,
  FirstStatus,   \* the orders' status at the beginning
  MayFail,       \* bound: calls whose process dies or whose reply is lost
  MayCancel,     \* bound: shipments somebody tries to cancel
  MayConnect     \* bound: how often Bosta is connected or disconnected

Order == INSTANCE OrderStatus

ASSUME ShipmentsAssumption ==
  /\ OrderOf \in [Calls -> Orders]
  /\ CarrierOf \in [Calls -> {"manual", "bosta", "auto"}]
  /\ DOMAIN KeyOf = Calls
  /\ FirstStatus \in [Orders -> Order!Statuses]
  /\ NoCall \notin Calls
  /\ MayFail \subseteq Calls /\ MayCancel \subseteq Calls
  /\ MayConnect \in Nat

VARIABLES
  order,      \* orders.status
  connected,  \* is there an active Bosta connection?
  switches,   \* bound
  phase,      \* which of its transactions a call is in: 1 or 3
  at,         \* the statement it is at
  lock,       \* the call holding the advisory lock of an order
  inserted,   \* calls whose row is inserted and not committed
  ship,       \* shipments.status of the committed rows; "none"
  carrier,    \* shipments.carrier, from the handle the adapter returned
  parcel,     \* what the carrier knows: "none", "live", "cancelled"
  cancelling, \* cancellations inside their transaction: before or after the carrier
  answer      \* what a call was told

bookingVars == <<phase, at, lock, inserted, answer>>
rowVars == <<ship, carrier>>
worldVars == <<order, connected, switches>>
vars == <<worldVars, bookingVars, rowVars, parcel, cancelling>>

Init ==
  /\ order = FirstStatus
  /\ connected = TRUE
  /\ switches = 0
  /\ phase = [c \in Calls |-> 1]
  /\ at = [c \in Calls |-> "lookup"]
  /\ lock = [o \in Orders |-> NoCall]
  /\ inserted = {}
  /\ ship = [c \in Calls |-> "none"]
  /\ carrier = [c \in Calls |-> "none"]
  /\ parcel = [c \in Calls |-> "none"]
  /\ cancelling = [c \in Calls |-> "no"]
  /\ answer = [c \in Calls |-> "none"]

Rows == {c \in Calls : ship[c] # "none"}
SameKey(c) == {d \in Calls \ {c} : KeyOf[d] = KeyOf[c] /\ KeyOf[c] # NoKey}
Active(o) == {s \in Rows : OrderOf[s] = o /\ ship[s] \in ActiveStatuses}

-----------------------------------------------------------------------------
(* The statements of a booking.                                            *)

Goto(c, stmt) == at' = [at EXCEPT ![c] = stmt]

\* pg_advisory_xact_lock is released when the transaction ends.
Unlocked(c) == [o \in Orders |-> IF lock[o] = c THEN NoCall ELSE lock[o]]

\* Mutant: a refused call keeps the order's advisory lock.
End_KeepsLock(c, outcome) ==
  /\ Goto(c, "done")
  /\ answer' = [answer EXCEPT ![c] = outcome]
  /\ lock' = IF outcome = "created" THEN Unlocked(c) ELSE lock

End(c, outcome) ==
  /\ Goto(c, "done")
  /\ answer' = [answer EXCEPT ![c] = outcome]
  /\ lock' = Unlocked(c)

\* findByIdempotencyKey, before the lock.
Lookup(c) ==
  /\ at[c] = "lookup"
  /\ IF SameKey(c) \cap Rows # {}
     THEN End(c, "replayed")
     ELSE Goto(c, "lock") /\ UNCHANGED <<answer, lock>>
  /\ UNCHANGED <<worldVars, phase, inserted, rowVars, parcel, cancelling>>

Lock(c) ==
  /\ at[c] = "lock"
  /\ lock[OrderOf[c]] = NoCall
  /\ lock' = [lock EXCEPT ![OrderOf[c]] = c]
  /\ Goto(c, "order")
  /\ UNCHANGED <<worldVars, phase, inserted, answer, rowVars, parcel, cancelling>>

\* assertShippable, first read: the order's status, without a lock on its row.
ReadOrder(c) ==
  /\ at[c] = "order"
  /\ IF order[OrderOf[c]] \in ShippableOrderStatuses
     THEN Goto(c, "active") /\ UNCHANGED <<answer, lock>>
     ELSE End(c, "not_shippable")
  /\ UNCHANGED <<worldVars, phase, inserted, rowVars, parcel, cancelling>>

\* Mutant: only the first transaction looks for an active shipment.
ReadActive_OnlyEarly(c) ==
  /\ at[c] = "active"
  /\ IF phase[c] = 1 /\ Active(OrderOf[c]) # {}
     THEN End(c, "duplicate")
     ELSE IF phase[c] = 1
          THEN Goto(c, "carrier") /\ lock' = Unlocked(c) /\ UNCHANGED answer
          ELSE Goto(c, "insert") /\ UNCHANGED <<answer, lock>>
  /\ UNCHANGED <<worldVars, phase, inserted, rowVars, parcel, cancelling>>

\* assertShippable, second read.  The early transaction commits here.
ReadActive(c) ==
  /\ at[c] = "active"
  /\ \/ /\ Active(OrderOf[c]) # {}
        /\ End(c, "duplicate")
     \/ /\ Active(OrderOf[c]) = {} /\ phase[c] = 1
        /\ Goto(c, "carrier") /\ lock' = Unlocked(c) /\ UNCHANGED answer
     \/ /\ Active(OrderOf[c]) = {} /\ phase[c] = 3
        /\ Goto(c, "insert") /\ UNCHANGED <<answer, lock>>
  /\ UNCHANGED <<worldVars, phase, inserted, rowVars, parcel, cancelling>>

\* CarrierRouter.resolve.
Resolve(choice) ==
  IF choice = "auto" THEN (IF connected THEN "bosta" ELSE "manual") ELSE choice
Reachable(adapter) == adapter = "manual" \/ connected

\* createShipment with no transaction open: the carrier has the parcel.
CallCarrier(c) ==
  LET adapter == Resolve(CarrierOf[c])
  IN  /\ at[c] = "carrier"
      /\ Reachable(adapter)
      /\ parcel' = [parcel EXCEPT ![c] = "live"]
      /\ carrier' = [carrier EXCEPT ![c] = adapter]
      /\ phase' = [phase EXCEPT ![c] = 3]
      /\ Goto(c, "lookup")
      /\ UNCHANGED <<worldVars, lock, inserted, answer, ship, cancelling>>

\* Bosta refuses, or is not connected; the manual carrier never does.
CarrierRefuses(c) ==
  /\ at[c] = "carrier"
  /\ Resolve(CarrierOf[c]) = "bosta"
  /\ End(c, "carrier_error")
  /\ UNCHANGED <<worldVars, phase, inserted, rowVars, parcel, cancelling>>

\* The carrier took the parcel and its answer did not arrive in time.
CarrierReplyLost(c) ==
  /\ at[c] = "carrier" /\ c \in MayFail
  /\ Resolve(CarrierOf[c]) = "bosta" /\ connected
  /\ parcel' = [parcel EXCEPT ![c] = "live"]
  /\ End(c, "carrier_error")
  /\ UNCHANGED <<worldVars, phase, inserted, rowVars, cancelling>>

\* The INSERT waits for an uncommitted row of the same key; on a committed one
\* the replay read is sent to the transaction that just failed.
Insert(c) ==
  /\ at[c] = "insert"
  /\ SameKey(c) \cap inserted = {}
  /\ IF SameKey(c) \cap Rows # {}
     THEN End(c, "error") /\ UNCHANGED inserted
     ELSE inserted' = inserted \cup {c} /\ Goto(c, "commit") /\ UNCHANGED <<answer, lock>>
  /\ UNCHANGED <<worldVars, phase, rowVars, parcel, cancelling>>

Commit(c) ==
  /\ at[c] = "commit"
  /\ ship' = [ship EXCEPT ![c] = "created"]
  /\ inserted' = inserted \ {c}
  /\ End(c, "created")
  /\ UNCHANGED <<worldVars, phase, carrier, parcel, cancelling>>

\* The process dies: its transaction is rolled back and the client gets no answer.
Die(c) ==
  /\ c \in MayFail /\ at[c] # "done"
  /\ inserted' = inserted \ {c}
  /\ End(c, "lost")
  /\ UNCHANGED <<worldVars, phase, rowVars, parcel, cancelling>>

-----------------------------------------------------------------------------
(* Transitions of a stored shipment, by a user or by the webhook worker.   *)

RowLocked(s) == cancelling[s] # "no"

\* A transition that calls nobody is one atomic step.
Move(s, to) ==
  /\ s \in Rows /\ ~RowLocked(s)
  /\ to # "cancelled" /\ CanTransition(ship[s], to)
  /\ ship' = [ship EXCEPT ![s] = to]
  /\ UNCHANGED <<worldVars, bookingVars, carrier, parcel, cancelling>>

BeginCancel(s) ==
  /\ s \in Rows /\ s \in MayCancel /\ ~RowLocked(s)
  /\ CanTransition(ship[s], "cancelled")
  /\ cancelling' = [cancelling EXCEPT ![s] = "asked"]
  /\ UNCHANGED <<worldVars, bookingVars, rowVars, parcel>>

\* The router asks whatever carrier is connected now.  The manual carrier
\* does nothing; Bosta finds the parcel only if it has booked it.
Cancelled(s) ==
  IF Resolve("auto") = carrier[s] THEN [parcel EXCEPT ![s] = "cancelled"] ELSE parcel

CarrierCancels(s) ==
  /\ cancelling[s] = "asked"
  /\ Resolve("auto") = "manual" \/ carrier[s] = "bosta"
  /\ parcel' = Cancelled(s)
  /\ cancelling' = [cancelling EXCEPT ![s] = "told"]
  /\ UNCHANGED <<worldVars, bookingVars, rowVars>>

\* Mutant: the carrier's refusal is ignored.
AbortCancel_Ignored(s) ==
  /\ cancelling[s] # "no"
  /\ \/ cancelling[s] = "asked" /\ Resolve("auto") = "bosta"
     \/ s \in MayFail
  /\ ship' = [ship EXCEPT ![s] = "cancelled"]
  /\ cancelling' = [cancelling EXCEPT ![s] = "no"]
  /\ UNCHANGED <<worldVars, bookingVars, carrier, parcel>>

\* Bosta refuses, or the transaction is lost on either side of the call: the
\* process dies, or the call outlives the transaction's time limit.
AbortCancel(s) ==
  /\ cancelling[s] # "no"
  /\ \/ cancelling[s] = "asked" /\ Resolve("auto") = "bosta"
     \/ s \in MayFail
  /\ cancelling' = [cancelling EXCEPT ![s] = "no"]
  /\ UNCHANGED <<worldVars, bookingVars, rowVars, parcel>>

CommitCancel(s) ==
  /\ cancelling[s] = "told"
  /\ ship' = [ship EXCEPT ![s] = "cancelled"]
  /\ cancelling' = [cancelling EXCEPT ![s] = "no"]
  /\ UNCHANGED <<worldVars, bookingVars, carrier, parcel>>

-----------------------------------------------------------------------------
(* Around the shipments.                                                   *)

\* OrdersRepository.transition commits.
OrderMoves(o, to) ==
  /\ Order!CanTransition(order[o], to)
  /\ order' = [order EXCEPT ![o] = to]
  /\ UNCHANGED <<connected, switches, bookingVars, rowVars, parcel, cancelling>>

\* connectCarrier, disconnectCarrier.
Connect ==
  /\ switches < MayConnect
  /\ switches' = switches + 1
  /\ connected' = ~connected
  /\ UNCHANGED <<order, bookingVars, rowVars, parcel, cancelling>>

Book(c) ==
  \/ Lookup(c) \/ Lock(c) \/ ReadOrder(c) \/ ReadActive(c) \/ CallCarrier(c)
  \/ CarrierRefuses(c) \/ CarrierReplyLost(c) \/ Insert(c) \/ Commit(c)

Cancel(s) == CarrierCancels(s) \/ AbortCancel(s) \/ CommitCancel(s)

Next ==
  \/ \E c \in Calls : Book(c) \/ Die(c)
  \/ \E s \in Calls : BeginCancel(s) \/ Cancel(s)
  \/ \E s \in Calls, to \in Statuses : Move(s, to)
  \/ \E o \in Orders, to \in {"shipped", "cancelled"} : OrderMoves(o, to)
  \/ Connect

Spec == Init /\ [][Next]_vars

\* A running call goes on to its next statement.
FairSpec == Spec /\ \A c \in Calls : WF_vars(Book(c)) /\ WF_vars(Cancel(c))

-----------------------------------------------------------------------------
(* Properties.                                                             *)

Answers == {"none", "created", "replayed", "not_shippable", "duplicate",
            "carrier_error", "error", "lost"}

TypeOK ==
  /\ order \in [Orders -> Order!Statuses]
  /\ connected \in BOOLEAN
  /\ switches \in 0..MayConnect
  /\ phase \in [Calls -> {1, 3}]
  /\ at \in [Calls -> {"lookup", "lock", "order", "active", "carrier", "insert",
                       "commit", "done"}]
  /\ lock \in [Orders -> Calls \cup {NoCall}]
  /\ inserted \subseteq Calls
  /\ ship \in [Calls -> Statuses \cup {"none"}]
  /\ carrier \in [Calls -> {"none", "manual", "bosta"}]
  /\ parcel \in [Calls -> {"none", "live", "cancelled"}]
  /\ cancelling \in [Calls -> {"no", "asked", "told"}]
  /\ answer \in [Calls -> Answers]

\* "An order may hold at most one at a time", although no index enforces it,
\* only the advisory lock and the second check; and "replays instead of
\* duplicating": an idempotency key stores one shipment, although the calls that
\* carry it look it up before they lock and may be for different orders.
BookedOnce ==
  /\ \A o \in Orders : Cardinality(Active(o)) <= 1
  /\ \A s, t \in Rows : t \in SameKey(s) => s = t

\* While the carrier stays connected, a shipment that is cancelled here is
\* cancelled at the carrier: a refusal or a lost transaction never leaves a
\* parcel on its way that the company believes to be cancelled.
CancelledAtTheCarrier ==
  switches = 0 =>
    \A s \in Rows : ship[s] = "cancelled" /\ carrier[s] = "bosta" => parcel[s] = "cancelled"

\* Every booking ends with an answer: neither the advisory locks nor the
\* unique index make calls wait on each other for ever.
EveryCallAnswers == \A c \in Calls : <>(at[c] = "done")
=============================================================================

----------------------------- MODULE Purchasing ----------------------------
(***************************************************************************)
(* FinanceRepository: purchase orders and their receipts.                  *)
(*                                                                         *)
(* A receipt locks the order's header, checks every requested line against *)
(* what remains of it, inserts its row and then, variant by variant in the *)
(* order of their ids, locks the variant and its stock level, raises       *)
(* on-hand and rolls the variant's average cost; at the end it advances    *)
(* the order's status.  It is one READ COMMITTED transaction; receipts of  *)
(* other orders, and the inventory component's adjustments, run beside it. *)
(*                                                                         *)
(* An inserted line or adjustment refers to its variant: the foreign key   *)
(* keeps that row FOR KEY SHARE until the transaction ends, which the      *)
(* FOR UPDATE of a receipt excludes and waits for.  So transactions may    *)
(* wait on each other in a circle, and PostgreSQL aborts one of them.      *)
(***************************************************************************)
EXTENDS Integers, Sequences, FiniteSets, Functions

CONSTANTS
  Requests,       \* the requests of a run, each served once
  NoRequest,      \* no request: the holder of a free lock
  KeySet,         \* the Idempotency-Keys clients use
  NoKey,          \* the request carries no Idempotency-Key
  Suppliers,      \* the ids of the active suppliers
  VariantIds,     \* numbers: localeCompare orders variants by their id
  WarehouseIds,
  StandingOrders, \* the purchase orders placed before the run, numbered 1, 2, ..
  OnShelf,        \* the units of every variant in each warehouse at the start
  CostAtStart,    \* every variant's average cost at the start
  Errands         \* which call carries which request: the assignments explored

Shelves == WarehouseIds \X VariantIds

\* Purchase orders are named by their place among the standing ones, or by the
\* call that creates them.
OrderIds == DOMAIN StandingOrders \cup Requests

MaybeKey == KeySet \cup {NoKey}

\* What the bodies' validation lets through: lines, each of at least one unit at
\* a cost that is not negative.  Whether the ids exist is found out later.
CreatePurchaseOrderLineDto == [variant: Nat, ordered: Nat \ {0}, cost: Nat]

CreatePurchaseOrderDto ==
  {r \in [op: {"create"}, supplier: STRING, lines: Seq(CreatePurchaseOrderLineDto),
          key: MaybeKey] :
     r.lines # <<>>}

\* A line is named by its place in the order.
ReceiptLineDto == [line: Nat \ {0}, quantity: Nat \ {0}]

CreateReceiptDto ==
  {r \in [op: {"receive"}, order: OrderIds, warehouse: Nat, lines: Seq(ReceiptLineDto),
          key: MaybeKey] :
     r.lines # <<>>}

\* A signed number of units, never zero.
CreateAdjustmentDto ==
  [op: {"adjust"}, warehouse: WarehouseIds, variant: VariantIds, delta: Int \ {0}, key: {NoKey}]

Request == CreatePurchaseOrderDto \cup CreateReceiptDto \cup CreateAdjustmentDto

ASSUME PurchasingAssumption ==
  /\ VariantIds \subseteq Nat /\ WarehouseIds \subseteq Nat /\ IsFiniteSet(WarehouseIds)
  /\ StandingOrders \in Seq(Seq(CreatePurchaseOrderLineDto))
  /\ \A order \in Range(StandingOrders) : \A line \in Range(order) :
       line \in CreatePurchaseOrderLineDto /\ line.variant \in VariantIds
  /\ OnShelf \in [WarehouseIds \X VariantIds -> Nat]
  /\ CostAtStart \in Nat
  /\ NoRequest \notin Requests
  /\ \A plan \in Errands : \A c \in Requests : plan[c] \in Request

NoOrder == [status |-> "none"]

VARIABLES
  order,      \* purchase_orders with their lines, the committed rows
  receipt,    \* purchase_order_receipts with their lines, the committed rows
  onHand,     \* inventory_stock.on_hand, the committed rows
  average,    \* product_variants.average_cost, the committed rows
  nextPo,     \* purchase_order_sequences.next_number
  req,        \* the request every call carries
  pc,         \* where the transaction of a call is
  todo,       \* the places of the receipt lines a call still has to apply
  view,       \* orders, levels and costs as the call's transaction sees them
  orderLock, variantLock, shelfLock, sequenceLock,  \* the holders of row locks
  shared,     \* the variants whose rows a call's foreign keys keep
  worth,      \* history: what the units of a variant have cost
  dust        \* history: what the integer divisions may have cut off

tables == <<order, receipt, onHand, average, nextPo>>
locks == <<orderLock, variantLock, shelfLock, sequenceLock, shared>>
history == <<worth, dust>>
purchaseVars == <<order, receipt, onHand, average, nextPo, req, pc, todo, view,
                  orderLock, variantLock, shelfLock, sequenceLock, shared, worth, dust>>

Final == {"done", "replayed", "rejected", "notFound", "aborted", "failed"}

\* A line as it is stored: nothing of it has been received yet.
Fresh(line) == [variant |-> line.variant, ordered |-> line.ordered,
                received |-> 0, cost |-> line.cost]

Placed(lines, number) ==
  [status |-> "ordered", number |-> number, lines |-> [i \in DOMAIN lines |-> Fresh(lines[i])]]

\* The rows a transaction has not touched are read from the tables.
Seen(lines, shelf, cost) == [lines |-> lines, shelf |-> shelf, cost |-> cost]
NoView == Seen(<<>>, <<>>, <<>>)

UnitsOf(level, v) == SumFunction([w \in WarehouseIds |-> level[<<w, v>>]])

PurchasesInit ==
  /\ req \in Errands
  /\ order = [o \in OrderIds |->
                IF o \in Requests THEN NoOrder ELSE Placed(StandingOrders[o], o)]
  /\ receipt = [c \in Requests |-> <<>>]
  /\ onHand = OnShelf
  /\ average = [v \in VariantIds |-> CostAtStart]
  /\ nextPo = Len(StandingOrders) + 1
  /\ pc = [c \in Requests |-> "idle"]
  /\ todo = [c \in Requests |-> {}]
  /\ view = [c \in Requests |-> NoView]
  /\ orderLock = [o \in OrderIds |-> NoRequest]
  /\ variantLock = [v \in VariantIds |-> NoRequest]
  /\ shelfLock = [s \in Shelves |-> NoRequest]
  /\ sequenceLock = NoRequest
  /\ shared = [c \in Requests |-> {}]
  /\ worth = [v \in VariantIds |-> UnitsOf(OnShelf, v) * CostAtStart]
  /\ dust = [v \in VariantIds |-> 0]

-----------------------------------------------------------------------------
(* Helpers.                                                                *)

Goto(c, label) == pc' = [pc EXCEPT ![c] = label]

Freed(lock, c) == [x \in DOMAIN lock |-> IF lock[x] = c THEN NoRequest ELSE lock[x]]

\* Mutant: the header of the order stays locked.
EndTransaction_KeepsOrderLock(c, outcome) ==
  /\ Goto(c, outcome)
  /\ todo' = [todo EXCEPT ![c] = {}]
  /\ view' = [view EXCEPT ![c] = NoView]
  /\ variantLock' = Freed(variantLock, c)
  /\ shelfLock' = Freed(shelfLock, c)
  /\ sequenceLock' = IF sequenceLock = c THEN NoRequest ELSE sequenceLock
  /\ shared' = [shared EXCEPT ![c] = {}]
  /\ UNCHANGED orderLock

\* The transaction ends, either way: its locks are gone.
EndTransaction(c, outcome) ==
  /\ Goto(c, outcome)
  /\ todo' = [todo EXCEPT ![c] = {}]
  /\ view' = [view EXCEPT ![c] = NoView]
  /\ orderLock' = Freed(orderLock, c)
  /\ variantLock' = Freed(variantLock, c)
  /\ shelfLock' = Freed(shelfLock, c)
  /\ sequenceLock' = IF sequenceLock = c THEN NoRequest ELSE sequenceLock
  /\ shared' = [shared EXCEPT ![c] = {}]

\* ... without a write reaching the database.
Leave(c, outcome) == EndTransaction(c, outcome) /\ UNCHANGED <<tables, history, req>>

SameKey(c, d) == req[c].op = req[d].op /\ req[c].key # NoKey /\ req[c].key = req[d].key

\* A committed order or receipt carries the call's key.
KeyStored(c) ==
  \E d \in Requests : SameKey(c, d) /\ (order[d] # NoOrder \/ receipt[d] # <<>>)

\* ... or one another transaction has inserted and not committed.
Pending(c) ==
  {d \in Requests \ {c} : SameKey(c, d) /\ pc[d] \in {"lines", "variant", "shelf", "finish"}}

KeyPending(c) == Pending(c) # {}

\* A row that refers to the variant is inserted: it waits for a FOR UPDATE.
Share(c, v) ==
  /\ variantLock[v] = NoRequest
  /\ shared' = [shared EXCEPT ![c] = @ \cup {v}]

\* The transactions that keep the row of a variant.
Sharers(v) == {d \in Requests : v \in shared[d]}

-----------------------------------------------------------------------------
(* createPurchaseOrder.                                                    *)

\* The key is looked up, then the supplier and every variant of the lines.
BeginCreate(c) ==
  /\ pc[c] = "idle"
  /\ req[c].op = "create"
  /\ Goto(c, CASE KeyStored(c) -> "replayed"
               [] req[c].supplier \notin Suppliers -> "rejected"
               [] \E line \in Range(req[c].lines) : line.variant \notin VariantIds -> "rejected"
               [] OTHER -> "number")
  /\ UNCHANGED <<tables, history, req, todo, view, locks>>

\* INSERT ... ON CONFLICT DO UPDATE on the sequence, which stays locked.
IssuePoNumber(c) ==
  /\ pc[c] = "number"
  /\ sequenceLock = NoRequest
  /\ sequenceLock' = c
  /\ Goto(c, "order")
  /\ UNCHANGED <<tables, history, req, todo, view, orderLock, variantLock, shelfLock, shared>>

\* The insert of the header either waits and conflicts, or stands.
InsertOrder(c) ==
  /\ pc[c] = "order"
  /\ ~KeyPending(c)
  /\ IF KeyStored(c) THEN Leave(c, "aborted")
     ELSE /\ Goto(c, "lines")
          /\ todo' = [todo EXCEPT ![c] = DOMAIN req[c].lines]
          /\ UNCHANGED <<tables, history, req, view, locks>>

\* The lines are inserted in the order of the request.
InsertLine(c) ==
  /\ pc[c] = "lines"
  /\ \E n \in todo[c] :
       /\ \A m \in todo[c] : n <= m
       /\ Share(c, req[c].lines[n].variant)
       /\ todo' = [todo EXCEPT ![c] = @ \ {n}]
       /\ Goto(c, IF todo[c] = {n} THEN "finish" ELSE "lines")
  /\ UNCHANGED <<tables, history, req, view, orderLock, variantLock, shelfLock, sequenceLock>>

CommitOrder(c) ==
  /\ pc[c] = "finish"
  /\ req[c].op = "create"
  /\ order' = [order EXCEPT ![c] = Placed(req[c].lines, nextPo)]
  /\ nextPo' = nextPo + 1
  /\ EndTransaction(c, "done")
  /\ UNCHANGED <<receipt, onHand, average, history, req>>

-----------------------------------------------------------------------------
(* receivePurchaseOrder, before anything is written.                       *)

BeginReceive(c) ==
  /\ pc[c] = "idle"
  /\ req[c].op = "receive"
  /\ Goto(c, IF KeyStored(c) THEN "replayed" ELSE "lock")
  /\ UNCHANGED <<tables, history, req, todo, view, locks>>

\* Mutant: the header and its lines are read without waiting for their lock.
LockOrder_NoWait(c) ==
  /\ pc[c] = "lock"
  /\ order[req[c].order] # NoOrder
  /\ order[req[c].order].status # "received"
  /\ orderLock' = [orderLock EXCEPT ![req[c].order] = c]
  /\ view' = [view EXCEPT ![c] = Seen(order[req[c].order].lines, <<>>, <<>>)]
  /\ Goto(c, "check")
  /\ UNCHANGED <<tables, history, req, todo, variantLock, shelfLock, sequenceLock, shared>>

\* SELECT ... FOR UPDATE of the header, then of the lines; the status is
\* looked at under the lock.
LockOrder(c) ==
  /\ pc[c] = "lock"
  /\ order[req[c].order] # NoOrder
  /\ orderLock[req[c].order] = NoRequest
  /\ order[req[c].order].status # "received"
  /\ orderLock' = [orderLock EXCEPT ![req[c].order] = c]
  /\ view' = [view EXCEPT ![c] = Seen(order[req[c].order].lines, <<>>, <<>>)]
  /\ Goto(c, "check")
  /\ UNCHANGED <<tables, history, req, todo, variantLock, shelfLock, sequenceLock, shared>>

\* The order is not there.
FindNoOrder(c) ==
  /\ pc[c] = "lock"
  /\ order[req[c].order] = NoOrder
  /\ Leave(c, "notFound")

\* IllegalPurchaseOrderStateError.  (Nothing ever cancels an order.)
RefuseReceived(c) ==
  /\ pc[c] = "lock"
  /\ order[req[c].order] # NoOrder
  /\ orderLock[req[c].order] = NoRequest
  /\ order[req[c].order].status = "received"
  /\ Leave(c, "rejected")

\* A requested line, the line of the order it names, and where its units go.
Want(c, n) == req[c].lines[n]
LineOf(c, n) == view[c].lines[Want(c, n).line]
VariantOf(c, n) == LineOf(c, n).variant
ShelfOf(c, v) == <<req[c].warehouse, v>>

\* Every requested line is checked by itself against what remains of its line.
Receivable(c) ==
  /\ \A n \in DOMAIN req[c].lines :
       /\ Want(c, n).line \in DOMAIN view[c].lines
       /\ Want(c, n).quantity <= LineOf(c, n).ordered - LineOf(c, n).received
  /\ req[c].warehouse \in WarehouseIds

\* ReferenceNotFoundError for a line or the warehouse, OverReceiptError.
RefuseLines(c) == pc[c] = "check" /\ ~Receivable(c) /\ Leave(c, "rejected")

\* The receipt row is inserted, once no other transaction holds its key.
InsertReceipt(c) ==
  /\ pc[c] = "check"
  /\ Receivable(c)
  /\ ~KeyPending(c) /\ ~KeyStored(c)
  /\ todo' = [todo EXCEPT ![c] = DOMAIN req[c].lines]
  /\ Goto(c, "variant")
  /\ UNCHANGED <<tables, history, req, view, locks>>

\* The insert violates the unique index on the key, and the stored receipt is
\* looked up in the transaction PostgreSQL has just aborted.
KeyConflict(c) ==
  /\ pc[c] = "check"
  /\ Receivable(c)
  /\ ~KeyPending(c) /\ KeyStored(c)
  /\ Leave(c, "aborted")

-----------------------------------------------------------------------------
(* applyReceiptToStock, one line after the other.                          *)

\* Mutant: the lines are applied in the order of the request.
IsNext_AsGiven(c, n) == \A m \in todo[c] : n <= m

\* The lines are applied in the order of their variants; equal variants keep the
\* order they have in the request.
IsNext(c, n) ==
  \A m \in todo[c] : \/ VariantOf(c, n) < VariantOf(c, m)
                     \/ VariantOf(c, n) = VariantOf(c, m) /\ n <= m

\* What the transaction sees: its own write, or the committed row.
SeenCost(c, v) == IF v \in DOMAIN view[c].cost THEN view[c].cost[v] ELSE average[v]
SeenOnHand(c, s) == IF s \in DOMAIN view[c].shelf THEN view[c].shelf[s] ELSE onHand[s]

Put(f, x, y) == [z \in DOMAIN f \cup {x} |-> IF z = x THEN y ELSE f[z]]

\* The roll-up of the order's line stays within CHECK (quantity_received <=
\* quantity_ordered), which it may not when two requested lines name one line.
Fits(c, n) == LineOf(c, n).received + Want(c, n).quantity <= LineOf(c, n).ordered

RolledUp(lines, want) ==
  [i \in DOMAIN lines |->
     IF i = want.line THEN [lines[i] EXCEPT !.received = lines[i].received + want.quantity]
                      ELSE lines[i]]

\* The receipt line and the roll-up, which the CHECK refuses.
RollUpFails(c) ==
  /\ pc[c] = "variant"
  /\ \E n \in todo[c] : IsNext(c, n) /\ ~Fits(c, n)
  /\ Leave(c, "failed")

\* Mutant: the variant is read without waiting for its row lock.
LockVariant_NoWait(c) ==
  /\ pc[c] = "variant"
  /\ \E n \in todo[c] :
       LET v == VariantOf(c, n)
       IN  /\ IsNext(c, n) /\ Fits(c, n)
           /\ variantLock' = [variantLock EXCEPT ![v] = c]
           /\ view' = [view EXCEPT ![c] = Seen(RolledUp(view[c].lines, Want(c, n)), view[c].shelf,
                                               Put(view[c].cost, v, SeenCost(c, v)))]
  /\ Goto(c, "shelf")
  /\ UNCHANGED <<tables, history, req, todo, orderLock, shelfLock, sequenceLock, shared>>

\* ... then the variant's row is locked and its average cost read.
LockVariant(c) ==
  /\ pc[c] = "variant"
  /\ \E n \in todo[c] :
       LET v == VariantOf(c, n)
       IN  /\ IsNext(c, n) /\ Fits(c, n)
           /\ variantLock[v] \in {NoRequest, c} /\ Sharers(v) \subseteq {c}
           /\ variantLock' = [variantLock EXCEPT ![v] = c]
           /\ view' = [view EXCEPT ![c] = Seen(RolledUp(view[c].lines, Want(c, n)), view[c].shelf,
                                               Put(view[c].cost, v, SeenCost(c, v)))]
  /\ Goto(c, "shelf")
  /\ UNCHANGED <<tables, history, req, todo, orderLock, shelfLock, sequenceLock, shared>>

\* The moving average, in whole minor units.
MovingAverage(before, cost, quantity, unitCost) ==
  IF before + quantity = 0 THEN cost
  ELSE (before * cost + quantity * unitCost) \div (before + quantity)

\* On-hand and the average cost, as the line at n moves them.
Raise(c, n) ==
  LET v == VariantOf(c, n)
      shelf == ShelfOf(c, v)
  IN  /\ view' = [view EXCEPT ![c] = Seen(view[c].lines,
                    Put(view[c].shelf, shelf, SeenOnHand(c, shelf) + Want(c, n).quantity),
                    Put(view[c].cost, v, MovingAverage(SeenOnHand(c, shelf), SeenCost(c, v),
                                                       Want(c, n).quantity, LineOf(c, n).cost)))]
      /\ todo' = [todo EXCEPT ![c] = todo[c] \ {n}]
      /\ Goto(c, IF todo[c] = {n} THEN "finish" ELSE "variant")

\* ensureStockLevel, and the writes of the line: on-hand and average cost.
RaiseShelf(c) ==
  /\ pc[c] = "shelf"
  /\ \E n \in todo[c] :
       LET shelf == ShelfOf(c, VariantOf(c, n))
       IN  /\ IsNext(c, n)
           /\ shelfLock[shelf] \in {NoRequest, c}
           /\ shelfLock' = [shelfLock EXCEPT ![shelf] = c]
           /\ Raise(c, n)
  /\ UNCHANGED <<tables, history, req, orderLock, variantLock, sequenceLock, shared>>

-----------------------------------------------------------------------------
(* The end of the transaction, and the rest of the world.                  *)

\* The status of an order that has had a receipt.
StatusOf(lines) ==
  IF \A i \in DOMAIN lines : lines[i].received >= lines[i].ordered
  THEN "received" ELSE "partially_received"

\* The requested lines that bring in units of a variant, and what these cost.
Bringing(c, v) == {n \in DOMAIN req[c].lines : VariantOf(c, n) = v}
CostOf(c, places) ==
  SumFunctionOnSet([n \in DOMAIN req[c].lines |-> Want(c, n).quantity * LineOf(c, n).cost], places)

CommitReceipt(c) ==
  LET o == req[c].order
  IN  /\ pc[c] = "finish"
      /\ req[c].op = "receive"
      /\ order' = [order EXCEPT ![o] = [status |-> StatusOf(view[c].lines),
                                        number |-> order[o].number, lines |-> view[c].lines]]
      /\ receipt' = [receipt EXCEPT ![c] = req[c].lines]
      /\ onHand' = [s \in Shelves |-> SeenOnHand(c, s)]
      /\ average' = [v \in VariantIds |-> SeenCost(c, v)]
      /\ worth' = [v \in VariantIds |-> worth[v] + CostOf(c, Bringing(c, v))]
      /\ dust' = [v \in VariantIds |->
                    dust[v] + Cardinality(Bringing(c, v)) * SeenOnHand(c, ShelfOf(c, v))]
      /\ EndTransaction(c, "done")
      /\ UNCHANGED <<nextPo, req>>

\* InventoryRepository.adjust: lock the level, refuse to go below zero ...
AdjustedShelf(c) == <<req[c].warehouse, req[c].variant>>

LockLevel(c) ==
  /\ pc[c] = "idle"
  /\ req[c].op = "adjust"
  /\ shelfLock[AdjustedShelf(c)] = NoRequest
  /\ IF onHand[AdjustedShelf(c)] + req[c].delta < 0
     THEN Goto(c, "rejected") /\ UNCHANGED shelfLock
     ELSE Goto(c, "row") /\ shelfLock' = [shelfLock EXCEPT ![AdjustedShelf(c)] = c]
  /\ UNCHANGED <<tables, history, req, todo, view, orderLock, variantLock, sequenceLock, shared>>

\* ... insert the adjustment, which keeps the variant ...
InsertAdjustment(c) ==
  /\ pc[c] = "row"
  /\ Share(c, req[c].variant)
  /\ Goto(c, "finish")
  /\ UNCHANGED <<tables, history, req, todo, view, orderLock, variantLock, shelfLock, sequenceLock>>

\* ... and move the level.  The units that come or go are worth what the variant
\* costs on average.
Adjust(c) ==
  LET v == req[c].variant
  IN  /\ pc[c] = "finish"
      /\ req[c].op = "adjust"
      /\ onHand' = [onHand EXCEPT ![AdjustedShelf(c)] = @ + req[c].delta]
      /\ worth' = [worth EXCEPT ![v] = @ + req[c].delta * average[v]]
      /\ EndTransaction(c, "done")
      /\ UNCHANGED <<order, receipt, average, nextPo, req, dust>>

\* The process or its connection dies: the transaction is rolled back.
Crash(c) == pc[c] \notin {"idle"} \cup Final /\ Leave(c, "failed")

\* The transactions whose end a transaction waits for.
Blockers(c) ==
  {d \in Requests \ {c} :
     \/ pc[c] = "number" /\ sequenceLock = d
     \/ pc[c] \in {"order", "check"} /\ d \in Pending(c)
     \/ pc[c] = "lines" /\ \E n \in todo[c] :
          (\A m \in todo[c] : n <= m) /\ variantLock[req[c].lines[n].variant] = d
     \/ pc[c] = "row" /\ variantLock[req[c].variant] = d
     \/ pc[c] = "lock" /\ orderLock[req[c].order] = d
     \/ /\ pc[c] = "variant"
        /\ \E n \in todo[c] :
             /\ IsNext(c, n) /\ Fits(c, n)
             /\ variantLock[VariantOf(c, n)] = d \/ d \in Sharers(VariantOf(c, n))
     \/ pc[c] = "shelf" /\ \E n \in todo[c] :
          IsNext(c, n) /\ shelfLock[ShelfOf(c, VariantOf(c, n))] = d}

\* PostgreSQL's deadlock detector aborts one transaction of a circle, in which
\* each waits for the next.
DeadlockVictim(c) ==
  LET waits == [d \in Requests |-> Blockers(d)]
  IN  /\ waits[c] # {}
      /\ \E ring \in SUBSET {d \in Requests : waits[d] # {}} :
           /\ c \in ring
           /\ \E next \in [ring -> ring] :
                IsInjective(next) /\ \A d \in ring : next[d] \in waits[d]
      /\ Leave(c, "aborted")

PurchasesStep(c) ==
  \/ BeginCreate(c) \/ IssuePoNumber(c) \/ InsertOrder(c) \/ InsertLine(c) \/ CommitOrder(c)
  \/ BeginReceive(c) \/ LockOrder(c) \/ FindNoOrder(c) \/ RefuseReceived(c)
  \/ RefuseLines(c) \/ InsertReceipt(c) \/ KeyConflict(c)
  \/ RollUpFails(c) \/ LockVariant(c) \/ RaiseShelf(c) \/ CommitReceipt(c)
  \/ LockLevel(c) \/ InsertAdjustment(c) \/ Adjust(c)
  \/ DeadlockVictim(c)

\* All calls have been answered: the run stops here, and nowhere else.
AllAnswered == (\A c \in Requests : pc[c] \in Final) /\ UNCHANGED purchaseVars

PurchasesNext ==
  \/ AllAnswered
  \/ \E c \in Requests : PurchasesStep(c) \/ Crash(c)

PurchasesSpec == PurchasesInit /\ [][PurchasesNext]_purchaseVars

\* A request's async function is driven to its end; the lock queue of the
\* database wakes a waiter up.
FairPurchases == PurchasesSpec /\ \A c \in Requests : WF_purchaseVars(PurchasesStep(c))

-----------------------------------------------------------------------------
(* Properties.                                                             *)

Line == [variant: VariantIds, ordered: Nat \ {0}, received: Nat, cost: Nat]

\* Where a receipt holds its order.
Holding == {"check", "variant", "shelf", "finish"}

PurchasesTypes ==
  /\ \A o \in OrderIds :
       \/ order[o] = NoOrder
       \/ /\ order[o].status \in {"ordered", "partially_received", "received"}
          /\ \A i \in DOMAIN order[o].lines : order[o].lines[i] \in Line
  /\ onHand \in [Shelves -> Nat]
  /\ average \in [VariantIds -> Nat]
  /\ nextPo \in Nat \ {0}
  /\ orderLock \in [OrderIds -> Requests \cup {NoRequest}]
  /\ variantLock \in [VariantIds -> Requests \cup {NoRequest}]
  /\ shelfLock \in [Shelves -> Requests \cup {NoRequest}]
  /\ shared \in [Requests -> SUBSET VariantIds]
  /\ \A o \in OrderIds, c \in Requests : orderLock[o] = c => pc[c] \in Holding

\* The units that some of the requested lines bring in, and the lines that name
\* a line of the order.
Quantity(lines, places) == SumFunctionOnSet([n \in DOMAIN lines |-> lines[n].quantity], places)
Naming(lines, i) == {n \in DOMAIN lines : lines[n].line = i}

\* The committed receipts of an order, and what they say came of a line.
ReceiptsOf(o) == {c \in Requests : receipt[c] # <<>> /\ req[c].order = o}

CameOf(o, i) ==
  SumFunctionOnSet([c \in Requests |-> Quantity(receipt[c], Naming(receipt[c], i))], ReceiptsOf(o))

\* The units of a variant that receipts have brought into a warehouse.
Received(c, v) ==
  Quantity(receipt[c], {n \in DOMAIN receipt[c] :
                          order[req[c].order].lines[receipt[c][n].line].variant = v})

ReceiptsInto(w) == {c \in Requests : receipt[c] # <<>> /\ req[c].warehouse = w}

Brought(w, v) == SumFunctionOnSet([c \in Requests |-> Received(c, v)], ReceiptsInto(w))

\* The adjustments of a level, and what they have changed.
Adjusters(w, v) ==
  {c \in Requests : /\ req[c].op = "adjust" /\ pc[c] = "done"
                    /\ req[c].warehouse = w /\ req[c].variant = v}

Adjusted(w, v) == SumFunctionOnSet([c \in Requests |-> req[c].delta], Adjusters(w, v))

\* A line of an order has received what the receipts say, never more than was
\* ordered.
LineAgrees(o, i) ==
  /\ order[o].lines[i].received = CameOf(o, i)
  /\ order[o].lines[i].received <= order[o].lines[i].ordered

\* The status of an order follows from its receipts and its lines.
StatusAgrees(o) ==
  LET lines == order[o].lines
      complete == \A i \in DOMAIN lines : lines[i].received = lines[i].ordered
  IN  order[o].status = IF ReceiptsOf(o) = {} THEN "ordered"
                        ELSE IF complete THEN "received" ELSE "partially_received"

\* "Concurrent receipts on the same PO serialize": the lines have received what
\* the receipts say, never more than was ordered, and the status says so; on-hand
\* has risen by exactly the lines of the receipts, on top of the adjustments
\* made meanwhile.
ReceiptsAreAtomic ==
  /\ \A o \in OrderIds : order[o] # NoOrder =>
       StatusAgrees(o) /\ \A i \in DOMAIN order[o].lines : LineAgrees(o, i)
  /\ \A w \in WarehouseIds, v \in VariantIds :
       onHand[<<w, v>>] = OnShelf[<<w, v>>] + Brought(w, v) + Adjusted(w, v)

\* The units on the shelves, at the average cost, are worth what they have
\* cost, less at most what the integer divisions have cut off.
CostIsCarried(v) == worth[v] - UnitsOf(onHand, v) * average[v] \in 0..dust[v]

\* The warehouses that have ever held a variant.
Homes(v) ==
  {w \in WarehouseIds : OnShelf[<<w, v>>] > 0 \/ Brought(w, v) > 0 \/ Adjusters(w, v) # {}}

\* "averageCost is the moving-average cost ... DERIVED from receipts": so it is
\* for every variant that one warehouse alone has held, however receipts and
\* adjustments interleave.
AverageCarriesTheCostOfOneWarehouse ==
  \A v \in VariantIds : Cardinality(Homes(v)) <= 1 => CostIsCarried(v)

\* "In a deterministic order so two receipts touching an overlapping variant
\* set cannot deadlock": among any receipts there is one that waits for none of
\* the others, so in a circle there is a create or an adjustment.
ReceiptsAloneDoNotDeadlock ==
  LET waits == [c \in Requests |-> Blockers(c)]
  IN  \A ring \in SUBSET {c \in Requests : req[c].op = "receive"} :
        ring # {} => \E c \in ring : waits[c] \cap ring = {}

\* Every request is answered: what it waits for ends, or a circle is broken.
EveryRequestEnds == \A c \in Requests : (pc[c] # "idle") ~> (pc[c] \in Final)
=============================================================================

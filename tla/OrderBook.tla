----------------------------- MODULE OrderBook -----------------------------
(***************************************************************************)
(* What a status transition promises: the order moves along the machine    *)
(* and the stock moves with it in one instant.  Entering `processing`      *)
(* reserves every line the order lists or nothing; shipping takes exactly  *)
(* the units the order holds out of on-hand and committed; a pre-ship      *)
(* cancellation gives exactly those units back.                            *)
(*                                                                         *)
(* Around the transitions, clients write the same rows: they replace an    *)
(* order's items, reserve units and free reservations one by one, and      *)
(* change what is on hand (adjustments, transfers) whatever is reserved.   *)
(*                                                                         *)
(* Orders live in one warehouse here: the level of a variant is the level  *)
(* of the order's (or the default) warehouse.                              *)
(***************************************************************************)
EXTENDS OrderStatus, Sequences, FiniteSets, FiniteSetsExt

CONSTANTS
  Orders,         \* order ids
  NoOrder,        \* the order of a reservation made for none
  Variants,       \* product variant ids
  Placed,         \* the items every order was created with
  Editions,       \* bound: the items clients replace an order's with
  Counts,         \* bound: what adjustments and transfers add to a level
  Asks,           \* bound: the single reservations clients make
  Oversell,       \* the variants whose product has allow_oversell
  InitialOnHand   \* units on hand of every variant at the start

Item == [variant: Variants, qty: Nat \ {0}]

\* order_items: `batch` is the write that inserted the row, `place` its rank in it.
LineRecord ==
  [order: Orders, batch: Nat, place: Nat \ {0}, variant: Variants, qty: Nat \ {0}]

ASSUME OrderAssumption ==
  /\ NoOrder \notin Orders
  /\ Placed \in [Orders -> Seq(Item)]
  /\ Oversell \subseteq Variants
  /\ InitialOnHand \in Nat
  /\ \A edition \in Editions : edition.order \in Orders /\ edition.items \in Seq(Item)
  /\ \A count \in Counts : count.variant \in Variants /\ count.delta \in Int
  /\ \A ask \in Asks : /\ ask.order \in Orders \cup {NoOrder}
                       /\ ask.variant \in Variants /\ ask.qty \in Nat \ {0}

VARIABLES
  status,   \* orders.status
  lines,    \* order_items of every order
  stock,    \* inventory_stock of every variant
  active,   \* the stock_reservations whose status is 'active'
  trail,    \* order_activities of kind 'status_changed', per order; history: with
            \*   the lines at the move, and whether it applied stock effects
  writes,   \* how many edits, adjustments, transfer sides and single
            \*   reservations were committed; names the rows they insert
  shortfall \* history: how far the last adjustment or transfer of a variant left
            \*   its on-hand below its committed

bookVars == <<status, lines, stock, active, trail, writes, shortfall>>

Listed(o, batch, items) ==
  {[order |-> o, batch |-> batch, place |-> i,
    variant |-> items[i].variant, qty |-> items[i].qty] : i \in DOMAIN items}

\* A reservation row: the line it was made for and when, which tells apart the
\* rows of an order that reserves more than once; and one a client asked for.
Reservation(l, at) == [order |-> l.order, batch |-> l.batch, place |-> l.place,
                       variant |-> l.variant, qty |-> l.qty, at |-> at]

Asked(ask, batch) == [order |-> ask.order, batch |-> batch, place |-> 0,
                      variant |-> ask.variant, qty |-> ask.qty, at |-> 0]

RowsFor(rows, at) == {Reservation(l, at) : l \in rows}

Units(rows, v) == SumFunction([l \in {k \in rows : k.variant = v} |-> l.qty])

HeldBy(o) == {r \in active : r.order = o}

Available(level) == level.onHand - level.committed

\* The variants an order asks too much of: the demand of all its lines on a
\* variant against what is available of it.
\* Mutant: each line is checked in isolation.
Shortages_PerLine(rows, levels) ==
  {v \in Variants \ Oversell :
     \E l \in rows : l.variant = v /\ l.qty > Available(levels[v])}

Shortages(rows, levels) ==
  {v \in Variants \ Oversell : Units(rows, v) > Available(levels[v]) /\ Units(rows, v) > 0}

BookInit ==
  /\ status = [o \in Orders |-> "new"]
  /\ lines = [o \in Orders |-> Listed(o, 0, Placed[o])]
  /\ stock = [v \in Variants |-> [onHand |-> InitialOnHand, committed |-> 0]]
  /\ active = {}
  /\ trail = [o \in Orders |-> <<>>]
  /\ writes = 0
  /\ shortfall = [v \in Variants |-> 0]

-----------------------------------------------------------------------------
(* The transitions.                                                        *)

Moves(o, to, stocked) ==
  /\ CanTransition(status[o], to)
  /\ status' = [status EXCEPT ![o] = to]
  /\ trail' = [trail EXCEPT ![o] = Append(@, [from |-> status[o], to |-> to,
                                              stocked |-> stocked, lines |-> lines[o]])]
  /\ UNCHANGED <<lines, writes, shortfall>>

\* A move without a stock effect, or of a company that does not use the
\* inventory feature at the time.
BookMove(o, to, stocked) ==
  /\ stocked => StockEffectOf(status[o], to) = "none"
  /\ Moves(o, to, stocked)
  /\ UNCHANGED <<stock, active>>

BookReserve(o, to) ==
  /\ StockEffectOf(status[o], to) = "reserve"
  /\ Shortages(lines[o], stock) = {}
  /\ Moves(o, to, TRUE)
  /\ stock' = [v \in Variants |-> [stock[v] EXCEPT !.committed = @ + Units(lines[o], v)]]
  /\ active' = active \cup RowsFor(lines[o], Len(trail[o]))

BookShip(o, to) ==
  /\ StockEffectOf(status[o], to) = "ship"
  /\ Moves(o, to, TRUE)
  /\ stock' = [v \in Variants |->
                 [stock[v] EXCEPT !.committed = @ - Units(HeldBy(o), v),
                                  !.onHand = @ - Units(HeldBy(o), v)]]
  /\ active' = active \ HeldBy(o)

BookRelease(o, to) ==
  /\ StockEffectOf(status[o], to) = "release"
  /\ Moves(o, to, TRUE)
  /\ stock' = [v \in Variants |->
                 [stock[v] EXCEPT !.committed = @ - Units(HeldBy(o), v)]]
  /\ active' = active \ HeldBy(o)

-----------------------------------------------------------------------------
(* What clients write besides.                                             *)

\* One reservation is freed through the inventory component.
BookFree(r) ==
  /\ stock' = [stock EXCEPT ![r.variant].committed = @ - r.qty]
  /\ active' = active \ {r}
  /\ UNCHANGED <<status, lines, trail, writes, shortfall>>

\* One reservation is made there, of what is available.
BookAsk(ask) ==
  /\ ask.variant \in Oversell \/ ask.qty <= Available(stock[ask.variant])
  /\ stock' = [stock EXCEPT ![ask.variant].committed = @ + ask.qty]
  /\ active' = active \cup {Asked(ask, writes + 1)}
  /\ writes' = writes + 1
  /\ UNCHANGED <<status, lines, trail, shortfall>>

\* An adjustment or one side of a transfer: only on-hand is checked.
BookCount(count) ==
  LET onHand == stock[count.variant].onHand + count.delta
      committed == stock[count.variant].committed
  IN  /\ onHand >= 0
      /\ stock' = [stock EXCEPT ![count.variant].onHand = onHand]
      /\ shortfall' = [shortfall EXCEPT ![count.variant] =
                         IF onHand < committed THEN committed - onHand ELSE 0]
      /\ writes' = writes + 1
      /\ UNCHANGED <<status, lines, active, trail>>

\* An order's items are replaced, in any status and whatever it holds; an edit
\* that overlapped another leaves the lines of both.
BookEdit(edition, gone) ==
  /\ lines' = [lines EXCEPT ![edition.order] =
                 (@ \ gone) \cup Listed(edition.order, writes + 1, edition.items)]
  /\ writes' = writes + 1
  /\ UNCHANGED <<status, stock, active, trail, shortfall>>

BookNext ==
  \/ \E r \in active : BookFree(r)
  \/ \E ask \in Asks : BookAsk(ask)
  \/ \E count \in Counts : BookCount(count)
  \/ \E edition \in Editions : \E gone \in SUBSET lines[edition.order] : BookEdit(edition, gone)
  \/ \E o \in Orders, to \in Statuses :
       \/ \E stocked \in BOOLEAN : BookMove(o, to, stocked)
       \/ BookReserve(o, to) \/ BookShip(o, to) \/ BookRelease(o, to)

=============================================================================

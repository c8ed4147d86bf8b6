--------------------------- MODULE StockRequests ---------------------------
(***************************************************************************)
(* The vocabulary of the inventory component: stock levels, the requests   *)
(* that change them, what each request is permitted to do to a level and   *)
(* how it moves the units.  Both the abstract ledger (StockLedger) and the *)
(* transaction-level specification (Inventory) are written with it.        *)
(*                                                                         *)
(* Source: modules/inventory/infrastructure/inventory.repository.ts.       *)
(***************************************************************************)
EXTENDS Integers, FiniteSets

CONSTANTS
  Warehouses,     \* warehouse ids; numbers, because transfer() sorts the ids
  Variants,       \* product variant ids
  Oversell,       \* the variants whose product has allow_oversell
  InitialOnHand,  \* the units every level starts with
  Calls,          \* API calls; the log row a call inserts is named by the call
  Nobody,         \* no call: the holder of a free lock, the target of a
                  \*   request that is not a release
  Keys,           \* Idempotency-Key header values
  NoKey,          \* the header was not sent
  Requests        \* the requests the clients may send

Ops == {"reserve", "release", "transfer", "adjust", "setReorderPoint"}

\* The operations that append a row to a log table of their own, with the
\* idempotency key under that table's partial unique index.
LoggingOps == {"reserve", "transfer", "adjust"}

\* `qty` is the quantity, the signed quantityDelta of an adjustment or the
\* new reorder point; `target` is the reservation a release names; a request
\* ignores the fields its operation does not have.
Request == [op: Ops, from: Warehouses, to: Warehouses, variant: Variants,
            qty: Int, key: Keys \cup {NoKey}, target: Calls \cup {Nobody}]

\* What the DTOs and InventoryService.transfer have rejected before the
\* repository is called.
WellFormed(r) ==
  /\ r.op \in {"reserve", "transfer"} => r.qty > 0
  /\ r.op = "setReorderPoint" => r.qty >= 0
  /\ r.op = "transfer" => r.from # r.to
  /\ r.op \notin LoggingOps => r.key = NoKey
  /\ r.op = "release" => r.target # Nobody

ASSUME StockAssumption ==
  /\ Warehouses \subseteq Nat
  /\ Oversell \subseteq Variants
  /\ InitialOnHand \in Nat
  /\ NoKey \notin Keys
  /\ Nobody \notin Calls
  /\ Requests \subseteq Request
  /\ \A r \in Requests : WellFormed(r)

-----------------------------------------------------------------------------
(* Levels: the row of inventory_stock for a (warehouse, variant) pair.  A   *)
(* missing row counts as the zero row that ensureLevel() would create.      *)

Levels == Warehouses \X Variants

Level == [onHand: Int, committed: Int, reorder: Nat]

\* The levels a company starts with: units received, nothing committed yet.
InitialLevels ==
  [l \in Levels |-> [onHand |-> InitialOnHand, committed |-> 0, reorder |-> 0]]

Available(level) == level.onHand - level.committed

Moved(level, onHandDelta, committedDelta) ==
  [onHand |-> level.onHand + onHandDelta,
   committed |-> level.committed + committedDelta,
   reorder |-> level.reorder]

\* Math.min(quantity, level.committed)
Releasable(level, qty) == IF qty <= level.committed THEN qty ELSE level.committed

\* The edge on which stock.low is emitted.
CrossedLow(before, after) ==
  /\ after.reorder > 0
  /\ Available(before) > after.reorder
  /\ Available(after) <= after.reorder

SourceLevel(r) == <<r.from, r.variant>>
TargetLevel(r) == <<r.to, r.variant>>

\* Two requests that collide on the unique index of their log table.
SameKey(r1, r2) == r1.op = r2.op /\ r1.key = r2.key /\ r1.key # NoKey

-----------------------------------------------------------------------------
(* What a request does to the levels s.  A release passes the request of    *)
(* the reservation it frees.                                                *)

\* Mutant: a reservation is checked against on-hand, not available, units.
Permitted_OnHandOnly(r, s) ==
  /\ r.op = "reserve" =>
       r.variant \in Oversell \/ r.qty <= s[SourceLevel(r)].onHand
  /\ r.op = "transfer" => r.qty <= s[SourceLevel(r)].onHand
  /\ r.op = "adjust" => s[SourceLevel(r)].onHand + r.qty >= 0

Permitted(r, s) ==
  /\ r.op = "reserve" =>
       r.variant \in Oversell \/ r.qty <= Available(s[SourceLevel(r)])
  /\ r.op = "transfer" => r.qty <= s[SourceLevel(r)].onHand
  /\ r.op = "adjust" => s[SourceLevel(r)].onHand + r.qty >= 0

Reserved(r, s) == [s EXCEPT ![SourceLevel(r)] = Moved(@, 0, r.qty)]

Released(r, s) ==
  [s EXCEPT ![SourceLevel(r)] = Moved(@, 0, -Releasable(@, r.qty))]

Transferred(r, s) ==
  [s EXCEPT ![SourceLevel(r)] = Moved(@, -r.qty, 0),
            ![TargetLevel(r)] = Moved(@, r.qty, 0)]

Adjusted(r, s) == [s EXCEPT ![SourceLevel(r)] = Moved(@, r.qty, 0)]

Repointed(r, s) == [s EXCEPT ![SourceLevel(r)].reorder = r.qty]
=============================================================================

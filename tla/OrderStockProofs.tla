------------------------- MODULE OrderStockProofs --------------------------
(***************************************************************************)
(* Proofs about OrderStock, for every set of orders, items, variants and   *)
(* connections, and whatever moves, edits, counts, reservations, releases  *)
(* and failures interleave; and about Storefront, which places those       *)
(* orders, for every store, its events and its requests.                   *)
(*                                                                         *)
(* The inductive invariant of OrderStock says what the row locks are for.  *)
(* The order's lock keeps its status and its lines, and its reservations   *)
(* from growing, since a foreign key makes whoever inserts either wait;    *)
(* the level's lock keeps the committed row what the transaction's own     *)
(* view started from, so the view is that row less the reservations it has *)
(* taken. Rows are read without a lock: a reservation taken after somebody *)
(* released it is the one thing no lock prevents, and what `raced` stands  *)
(* for.                                                                    *)
(*                                                                         *)
(* The one of Storefront says who runs an event. The unique index lets one *)
(* request run it until it fails; the request of an order is then on its   *)
(* way to the mark, or has left the event processed, which nobody runs     *)
(* again. A level a request has read stays what it was until a write of    *)
(* somebody else stirs the request.                                        *)
(***************************************************************************)
EXTENDS OrderStock, Storefront, SumTheorems

-----------------------------------------------------------------------------
(* The inductive invariant.                                                *)

Effects == {"none", "reserve", "ship", "release"}

MoveAsked == [kind: {"move"}, order: Orders, to: Targets, reason: BOOLEAN, applyStock: BOOLEAN]

MoveLocked ==
  [kind: {"move"}, order: Orders, to: Targets, reason: BOOLEAN, applyStock: BOOLEAN,
   from: Statuses, effect: Effects]

ReleaseJob == [kind: {"release"}, effect: {"release"}]

CountJob == [kind: {"count"}, what: Counts]
AskJob == [kind: {"ask"}, what: Asks]
EditJob == [kind: {"edit"}, what: Editions]

\* The rows an order or a transaction refers to have been written: by a move that
\* is in the trail, or by one of the writes.
Written(rows) == \A r \in rows :
  IF r.place = 0 THEN r.batch <= writes ELSE r.order \in Orders /\ r.at < Len(trail[r.order])

LinesTyped == \A o \in Orders :
  /\ lines[o] \subseteq LineRecord
  /\ IsFiniteSet(lines[o])
  /\ \A l \in lines[o] : l.order = o

BookTypes ==
  /\ status \in [Orders -> Statuses]
  /\ lines \in [Orders -> SUBSET LineRecord] /\ LinesTyped
  /\ stock \in Levels
  /\ trail \in [Orders -> Seq(MoveRecord)]
  /\ active \subseteq ReservationRow /\ IsFiniteSet(active) /\ Written(active)
  /\ writes \in Nat
  /\ shortfall \in [Variants -> Nat]
  /\ raced \in BOOLEAN

Types ==
  /\ pc \in [Workers -> {"idle", "lockOrder", "check", "levels", "lockLevel", "insert", "edit"}]
  /\ job = [w \in Workers |-> job[w]]
  /\ todo = [w \in Workers |-> todo[w]]
  /\ taken = [w \in Workers |-> taken[w]]
  /\ view \in [Workers -> Levels]
  /\ orderLock \in [Orders -> Workers \cup {Nobody}]
  /\ levelLock \in [Variants -> Workers \cup {Nobody}]

Consuming(w) == pc[w] = "levels" /\ job[w].effect \in {"ship", "release"}

JobOK(w) ==
  /\ pc[w] = "idle" => job[w] = NoJob
  /\ pc[w] = "lockOrder" => job[w] \in MoveAsked
  /\ pc[w] = "check" => job[w] \in MoveLocked
  /\ pc[w] = "levels" =>
       \/ job[w] \in MoveLocked /\ CanTransition(job[w].from, job[w].to)
       \/ job[w] \in ReleaseJob
  /\ pc[w] = "lockLevel" => job[w] \in CountJob \cup AskJob
  /\ pc[w] = "insert" => job[w] \in AskJob
  /\ pc[w] = "edit" => job[w] \in EditJob
  /\ pc[w] \notin {"levels", "edit"} => todo[w] = {}
  /\ pc[w] # "levels" => taken[w] = {}

\* The order's lock is the move's, and with it the status it has read.
OrderLocked(w) ==
  /\ pc[w] \in {"check", "levels"} /\ job[w].kind = "move" =>
       /\ orderLock[job[w].order] = w
       /\ job[w].from = status[job[w].order]
       /\ job[w].effect = IF job[w].applyStock THEN StockEffectOf(job[w].from, job[w].to)
                          ELSE "none"
  /\ \A o \in Orders : orderLock[o] = w =>
       pc[w] \in {"check", "levels"} /\ job[w].kind = "move" /\ job[w].order = o

\* A reserving move has read the lines of its order, has locked the levels of all
\* of them but those to do, and sees these levels as they are.
Reserving(w) ==
  pc[w] = "levels" /\ job[w].effect = "reserve" =>
    /\ todo[w] \cup taken[w] = lines[job[w].order]
    /\ \A l \in taken[w] : levelLock[l.variant] = w
    /\ \A v \in Variants : levelLock[v] = w => view[w][v] = stock[v]

\* A reservation that waits for its order has the level, and what it asks is there.
Asking(w) ==
  pc[w] = "insert" =>
    levelLock[job[w].what.variant] = w /\ Grants("ask", job[w].what)

\* The rows a consuming transaction has read are still those of its order, or
\* the one reservation it releases.
RowsRead(w) ==
  /\ Consuming(w) =>
       /\ todo[w] \cup taken[w] \subseteq ReservationRow
       /\ IsFiniteSet(todo[w]) /\ IsFiniteSet(taken[w])
       /\ todo[w] \cap taken[w] = {}
       /\ Written(todo[w] \cup taken[w])
       /\ \A r \in taken[w] : levelLock[r.variant] = w
       /\ job[w].kind = "move" =>
            /\ \A r \in todo[w] \cup taken[w] : r.order = job[w].order
            /\ HeldBy(job[w].order) \subseteq todo[w] \cup taken[w]
       /\ job[w].kind = "release" =>
            \E r \in todo[w] \cup taken[w] :
              r.order \in Releasing \cup {NoOrder} /\ todo[w] \cup taken[w] = {r}
  /\ pc[w] = "levels" /\ job[w].effect = "none" => todo[w] = {} /\ taken[w] = {}

\* Its view is the committed row less what it has taken, unless a row it has
\* taken was not active any more.
Less(level, units, effect) ==
  [onHand |-> level.onHand - IF effect = "ship" THEN units ELSE 0,
   committed |-> level.committed - units]

ViewOK(w) ==
  /\ \A v \in Variants : levelLock[v] = w =>
       \/ pc[w] = "levels" /\ job[w].effect # "none"
       \/ pc[w] = "insert" /\ v = job[w].what.variant
  /\ Consuming(w) /\ ~raced /\ taken[w] \subseteq active =>
       \A v \in Variants : levelLock[v] = w =>
         view[w][v] = Less(stock[v], Units(taken[w], v), job[w].effect)

WorkerOK(w) ==
  JobOK(w) /\ OrderLocked(w) /\ Reserving(w) /\ Asking(w) /\ RowsRead(w) /\ ViewOK(w)

WorkersInv == \A w \in Workers : WorkerOK(w)

IInv == BookTypes /\ Types /\ WorkersInv /\ BackedUntilRaced /\ HoldingsFollowTheTrail

-----------------------------------------------------------------------------
(* Units.                                                                  *)

Quantified(rows) == IsFiniteSet(rows) /\ \A r \in rows : r.qty \in Nat

Of(rows, v) == {r \in rows : r.variant = v}

LEMMA UnitsAreSum ==
  ASSUME NEW rows, Quantified(rows), NEW v, NEW f, NEW part, part \subseteq rows,
         \A r \in part : f[r] = r.qty
  PROVE  Units(part, v) = SumFunctionOnSet(f, Of(part, v))
<1> DEFINE S == Of(part, v)
           g == [l \in S |-> l.qty]
<1>1. Units(part, v) = SumFunctionOnSet(g, S)
  BY DEF Units, SumFunction, Of
<1>2. IsFiniteSet(S)
  BY FS_Subset DEF Quantified, Of
<1>3. \A x \in S : g[x] = f[x]
  BY DEF Of
<1> HIDE DEF g, S
<1>4. SumFunctionOnSet(g, S) = SumFunctionOnSet(f, S)
  BY <1>2, <1>3, SumSame
<1> QED
  BY <1>1, <1>4 DEF S

LEMMA UnitsNat ==
  ASSUME NEW rows, Quantified(rows), NEW v
  PROVE  Units(rows, v) \in Nat
<1> DEFINE f == [r \in rows |-> r.qty]
<1>1. IsFiniteSet(Of(rows, v))
  BY FS_Subset DEF Quantified, Of
<1>2. \A r \in rows : f[r] = r.qty
  OBVIOUS
<1>3. \A x \in Of(rows, v) : f[x] \in Nat
  BY DEF Of, Quantified
<1> HIDE DEF f
<1> QED
  BY <1>1, <1>2, <1>3, UnitsAreSum, SumNat

LEMMA UnitsSplit ==
  ASSUME NEW A, NEW B, Quantified(A), Quantified(B), A \cap B = {}, NEW v
  PROVE  Units(A \cup B, v) = Units(A, v) + Units(B, v)
<1> DEFINE f == [r \in A \cup B |-> r.qty]
<1>1. Quantified(A \cup B)
  BY FS_Union DEF Quantified
<1>2. \A r \in A \cup B : f[r] = r.qty /\ f[r] \in Int
  BY DEF Quantified
<1>3. IsFiniteSet(Of(A, v)) /\ IsFiniteSet(Of(B, v))
  BY FS_Subset DEF Quantified, Of
<1>4. Of(A \cup B, v) = Of(A, v) \cup Of(B, v) /\ Of(A, v) \cap Of(B, v) = {}
  BY DEF Of
<1>5. \A x \in Of(A, v) \cup Of(B, v) : f[x] \in Int
  BY <1>2 DEF Of
<1> HIDE DEF f
<1>6. Units(A \cup B, v) = SumFunctionOnSet(f, Of(A \cup B, v))
  BY <1>1, <1>2, UnitsAreSum
<1>7. Units(A, v) = SumFunctionOnSet(f, Of(A, v)) /\ Units(B, v) = SumFunctionOnSet(f, Of(B, v))
  BY <1>1, <1>2, UnitsAreSum
<1>8. SumFunctionOnSet(f, Of(A, v) \cup Of(B, v))
        = SumFunctionOnSet(f, Of(A, v)) + SumFunctionOnSet(f, Of(B, v))
  BY <1>3, <1>4, <1>5, SumUnion
<1> QED
  BY <1>4, <1>6, <1>7, <1>8, Zenon

LEMMA UnitsPart ==
  ASSUME NEW A, Quantified(A), NEW B, B \subseteq A, NEW v
  PROVE  /\ Quantified(B)
         /\ Units(A \ B, v) = Units(A, v) - Units(B, v)
         /\ Units(B, v) <= Units(A, v)
<1>1. Quantified(B) /\ Quantified(A \ B) /\ B \cap (A \ B) = {} /\ B \cup (A \ B) = A
  BY FS_Subset DEF Quantified
<1>2. Units(B \cup (A \ B), v) = Units(B, v) + Units(A \ B, v)
  BY <1>1, UnitsSplit
<1>3. Units(B \cup (A \ B), v) = Units(A, v)
  BY <1>1, Zenon
<1>4. Units(B, v) \in Nat /\ Units(A \ B, v) \in Nat
  BY <1>1, UnitsNat
<1> QED
  BY <1>1, <1>2, <1>3, <1>4

LEMMA UnitsOfNone ==
  ASSUME NEW rows, NEW v, \A r \in rows : r.variant # v
  PROVE  Units(rows, v) = 0
<1>1. {k \in rows : k.variant = v} = {}
  OBVIOUS
<1>2. Units(rows, v) = SumFunctionOnSet([l \in {k \in rows : k.variant = v} |-> l.qty],
                                        {k \in rows : k.variant = v})
  BY DEF Units, SumFunction
<1> QED
  BY <1>1, <1>2, SumEmpty, Zenon

LEMMA UnitsOfOne ==
  ASSUME NEW r, r.qty \in Nat, NEW v
  PROVE  /\ Quantified({r})
         /\ Units({r}, v) = IF r.variant = v THEN r.qty ELSE 0
<1>1. Quantified({r})
  BY FS_Singleton DEF Quantified
<1>2. CASE r.variant # v
  BY <1>1, <1>2, UnitsOfNone
<1>3. CASE r.variant = v
  <2> DEFINE f == [x \in {r} |-> r.qty]
  <2>1. \A x \in {r} : f[x] = x.qty /\ f[x] \in Int
    OBVIOUS
  <2>2. Of({r}, v) = {r} /\ {r} \ {r} = {}
    BY <1>3 DEF Of
  <2>3. f[r] = r.qty
    OBVIOUS
  <2> HIDE DEF f
  <2>4. Units({r}, v) = SumFunctionOnSet(f, Of({r}, v))
    BY <1>1, <2>1, UnitsAreSum
  <2>5. SumFunctionOnSet(f, {r}) = f[r] + SumFunctionOnSet(f, {r} \ {r})
    BY <1>1, <2>1, SumRemove DEF Quantified
  <2>6. SumFunctionOnSet(f, {r} \ {r}) = 0
    BY <2>2, SumEmpty, Zenon
  <2>7. SumFunctionOnSet(f, Of({r}, v)) = SumFunctionOnSet(f, {r})
    BY <2>2, Zenon
  <2> QED
    BY <1>1, <1>3, <2>3, <2>4, <2>5, <2>6, <2>7
<1> QED
  BY <1>2, <1>3

\* The reservations made for some lines hold the units of the lines.
LEMMA UnitsOfRows ==
  ASSUME NEW L, L \subseteq LineRecord, IsFiniteSet(L), NEW n, NEW v
  PROVE  /\ Quantified(RowsFor(L, n)) /\ Quantified(L)
         /\ Units(RowsFor(L, n), v) = Units(L, v)
<1> DEFINE h == [l \in L |-> Reservation(l, n)]
           S == Of(L, v)
           f == [l \in L |-> l.qty]
           g == [r \in RowsFor(L, n) |-> r.qty]
<1>1. Quantified(L)
  BY DEF Quantified, LineRecord
<1>2. \A x, y \in L : h[x] = h[y] => x = y
  BY DEF Reservation, LineRecord
<1>3. \A x \in L : f[x] \in Int /\ h[x] \in RowsFor(L, n) /\ g[h[x]] = f[x] /\ h[x].variant = x.variant
  BY DEF Reservation, LineRecord, RowsFor
<1>4. RowsFor(L, n) = {h[l] : l \in L}
  BY DEF RowsFor
<1>5. h \in Surjection(L, {h[l] : l \in L})
  BY DEF Surjection
<1>6. IsFiniteSet(RowsFor(L, n))
  BY <1>4, <1>5, FS_Surjection
<1>7. Quantified(RowsFor(L, n))
  BY <1>6 DEF Quantified, RowsFor, Reservation, LineRecord
<1>8. Of(RowsFor(L, n), v) = {h[l] : l \in S}
  <2> HIDE DEF h, f, g
  <2> QED
    BY <1>3, <1>4 DEF Of
<1>9. IsFiniteSet(S) /\ S \subseteq L
  BY FS_Subset DEF Of
<1>10. (\A r \in RowsFor(L, n) : g[r] = r.qty) /\ \A l \in L : f[l] = l.qty
  OBVIOUS
<1> HIDE DEF f, g, h
<1>11. Units(RowsFor(L, n), v) = SumFunctionOnSet(g, Of(RowsFor(L, n), v))
  BY <1>7, <1>10, UnitsAreSum
<1>12. Units(L, v) = SumFunctionOnSet(f, S)
  BY <1>1, <1>10, UnitsAreSum
<1>13. SumFunctionOnSet(g, {h[l] : l \in S}) = SumFunctionOnSet(f, S)
  <2> HIDE DEF S
  <2> QED
    BY <1>2, <1>3, <1>9, SumImage
<1>14. Units(RowsFor(L, n), v) = Units(L, v)
  BY <1>8, <1>11, <1>12, <1>13, Zenon
<1> QED
  BY <1>1, <1>7, <1>14

-----------------------------------------------------------------------------
(* One worker's step, and the others.                                      *)

\* What a step of another worker may not change for u.
Unharmed(u) ==
  /\ pc'[u] = pc[u] /\ job'[u] = job[u] /\ todo'[u] = todo[u]
  /\ taken'[u] = taken[u] /\ view'[u] = view[u]
  /\ \A o \in Orders : orderLock'[o] = u <=> orderLock[o] = u
  /\ \A v \in Variants : levelLock'[v] = u <=> levelLock[v] = u
  /\ \A v \in Variants : levelLock[v] = u => stock'[v] = stock[v]
  /\ \A o \in Orders : orderLock[o] = u =>
       /\ status'[o] = status[o] /\ lines'[o] = lines[o]
       /\ HeldBy(o)' \subseteq HeldBy(o)
  /\ \A o \in Orders : Len(trail[o]) <= Len(trail'[o])
  /\ writes <= writes'
  /\ raced => raced'
  /\ Consuming(u) /\ taken[u] \subseteq active' => taken[u] \subseteq active

\* Trails and writes only grow, so what was written stays so.
LEMMA StaysWritten ==
  ASSUME BookTypes, BookTypes', writes <= writes',
         \A o \in Orders : Len(trail[o]) <= Len(trail'[o]),
         NEW r, r.at \in Nat, r.batch \in Nat,
         IF r.place = 0 THEN r.batch <= writes ELSE r.order \in Orders /\ r.at < Len(trail[r.order])
  PROVE  IF r.place = 0 THEN r.batch <= writes'
         ELSE r.order \in Orders /\ r.at < Len(trail'[r.order])
<1>1. CASE r.place = 0
  BY <1>1 DEF BookTypes
<1>2. CASE r.place # 0
  <2>1. r.order \in Orders /\ r.at < Len(trail[r.order])
    BY <1>2
  <2>2. Len(trail[r.order]) \in Nat /\ Len(trail'[r.order]) \in Nat
    BY <2>1 DEF BookTypes
  <2> QED
    BY <1>2, <2>1, <2>2
<1> QED
  BY <1>1, <1>2

LEMMA OthersKeep ==
  ASSUME BookTypes, BookTypes', NEW u \in Workers, WorkerOK(u), Unharmed(u)
  PROVE  WorkerOK(u)'
<1>1. JobOK(u)'
  BY DEF WorkerOK, JobOK, Unharmed
<1>2. OrderLocked(u)'
  <2>1. ASSUME pc[u] \in {"check", "levels"}, job[u].kind = "move"
        PROVE  /\ job[u].order \in Orders /\ orderLock'[job[u].order] = u
               /\ job[u].from = status'[job[u].order]
               /\ job[u].effect = IF job[u].applyStock
                                  THEN StockEffectOf(job[u].from, job[u].to) ELSE "none"
    <3>1. orderLock[job[u].order] = u /\ job[u].from = status[job[u].order]
          /\ job[u].effect = IF job[u].applyStock
                             THEN StockEffectOf(job[u].from, job[u].to) ELSE "none"
      BY <2>1 DEF WorkerOK, OrderLocked
    <3>2. job[u].order \in Orders
      BY <2>1 DEF WorkerOK, JobOK, MoveLocked, ReleaseJob
    <3> QED
      BY <3>1, <3>2 DEF Unharmed
  <2>2. ASSUME NEW o \in Orders, orderLock'[o] = u
        PROVE  pc[u] \in {"check", "levels"} /\ job[u].kind = "move" /\ job[u].order = o
    BY <2>2 DEF WorkerOK, OrderLocked, Unharmed
  <2> QED
    BY <2>1, <2>2 DEF OrderLocked, Unharmed
<1>3. Reserving(u)'
  <2> SUFFICES ASSUME pc[u] = "levels", job[u].effect = "reserve"
               PROVE  /\ todo[u] \cup taken[u] = lines'[job[u].order]
                      /\ \A l \in taken[u] : levelLock'[l.variant] = u
                      /\ \A v \in Variants : levelLock'[v] = u => view[u][v] = stock'[v]
    BY DEF Reserving, Unharmed
  <2>1. /\ todo[u] \cup taken[u] = lines[job[u].order]
        /\ \A l \in taken[u] : levelLock[l.variant] = u
        /\ \A v \in Variants : levelLock[v] = u => view[u][v] = stock[v]
    BY DEF WorkerOK, Reserving
  <2>2. job[u].order \in Orders /\ orderLock[job[u].order] = u
    <3>1. job[u] \in MoveLocked
      BY DEF WorkerOK, JobOK, ReleaseJob
    <3> QED
      BY <3>1 DEF WorkerOK, OrderLocked, MoveLocked
  <2>3. lines'[job[u].order] = lines[job[u].order]
    BY <2>2 DEF Unharmed
  <2>4. \A l \in taken[u] : l.variant \in Variants
    BY <2>1, <2>2 DEF BookTypes, LinesTyped, LineRecord
  <2> QED
    BY <2>1, <2>3, <2>4 DEF Unharmed
<1>6. Asking(u)'
  <2> SUFFICES ASSUME pc[u] = "insert"
               PROVE  levelLock'[job[u].what.variant] = u /\ Grants("ask", job[u].what)'
    BY DEF Asking, Unharmed, Grants
  <2>1. levelLock[job[u].what.variant] = u /\ Grants("ask", job[u].what)
    BY DEF WorkerOK, Asking
  <2>2. job[u].what \in Asks
    BY DEF WorkerOK, JobOK, AskJob
  <2>3. job[u].what.variant \in Variants
    BY <2>2, OrderAssumption
  <2>4. stock'[job[u].what.variant] = stock[job[u].what.variant]
        /\ levelLock'[job[u].what.variant] = u
    BY <2>1, <2>3 DEF Unharmed
  <2>5. job'[u] = job[u]
    BY DEF Unharmed
  <2> QED
    BY <2>1, <2>4, <2>5 DEF Grants
<1>4. RowsRead(u)'
  <2>1. Consuming(u)' <=> Consuming(u)
    BY DEF Consuming, Unharmed
  <2>2. ASSUME Consuming(u)
        PROVE  /\ Written(todo[u] \cup taken[u])'
               /\ \A r \in taken[u] : levelLock'[r.variant] = u
               /\ job[u].kind = "move" => HeldBy(job[u].order)' \subseteq todo[u] \cup taken[u]
    <3>1. /\ todo[u] \cup taken[u] \subseteq ReservationRow
          /\ Written(todo[u] \cup taken[u])
          /\ \A r \in taken[u] : levelLock[r.variant] = u
          /\ job[u].kind = "move" => HeldBy(job[u].order) \subseteq todo[u] \cup taken[u]
      BY <2>2 DEF WorkerOK, RowsRead
    <3>2. \A r \in todo[u] \cup taken[u] : r.variant \in Variants /\ r.at \in Nat /\ r.batch \in Nat
      BY <3>1 DEF ReservationRow
    <3>5. Written(todo[u] \cup taken[u])'
      <4>1. \A r \in todo[u] \cup taken[u] :
              IF r.place = 0 THEN r.batch <= writes'
              ELSE r.order \in Orders /\ r.at < Len(trail'[r.order])
        BY <3>1, <3>2, StaysWritten DEF Written, Unharmed
      <4> QED
        BY <4>1 DEF Written, Unharmed
    <3>6. ASSUME job[u].kind = "move"
          PROVE  HeldBy(job[u].order)' \subseteq HeldBy(job[u].order)
      <4>1. job[u].order \in Orders /\ orderLock[job[u].order] = u
        BY <2>2, <3>6 DEF WorkerOK, JobOK, OrderLocked, MoveLocked, ReleaseJob, Consuming
      <4>2. HeldBy(job[u].order)' = {r \in active' : r.order = job[u].order}
        BY DEF HeldBy, Unharmed
      <4>3. ASSUME NEW o \in Orders, orderLock[o] = u
            PROVE  {r \in active' : r.order = o} \subseteq {r \in active : r.order = o}
        BY <4>3 DEF Unharmed, HeldBy
      <4> QED
        BY <4>1, <4>2, <4>3 DEF HeldBy
    <3>7. \A r \in taken[u] : levelLock'[r.variant] = u
      BY <3>1, <3>2 DEF Unharmed
    <3> QED
      BY <3>1, <3>5, <3>6, <3>7
  <2>3. pc'[u] = pc[u] /\ job'[u] = job[u] /\ todo'[u] = todo[u] /\ taken'[u] = taken[u]
    BY DEF Unharmed
  <2>4. RowsRead(u)
    BY DEF WorkerOK
  <2>5. HeldBy(job[u].order)' = {r \in active' : r.order = job[u].order}
    BY <2>3 DEF HeldBy
  <2>6. Written(todo[u] \cup taken[u])' =
          \A r \in todo[u] \cup taken[u] :
            IF r.place = 0 THEN r.batch <= writes'
            ELSE r.order \in Orders /\ r.at < Len(trail'[r.order])
    BY <2>3 DEF Written
  <2> QED
    BY <2>1, <2>2, <2>3, <2>4, <2>5, <2>6 DEF RowsRead, Written, HeldBy
<1>5. ViewOK(u)'
  <2>1. Consuming(u)' <=> Consuming(u)
    BY DEF Consuming, Unharmed
  <2>2. \A v \in Variants : levelLock'[v] = u =>
          \/ pc[u] = "levels" /\ job[u].effect # "none"
          \/ pc[u] = "insert" /\ v = job[u].what.variant
    BY DEF WorkerOK, ViewOK, Unharmed
  <2>3. ASSUME Consuming(u), ~raced', taken[u] \subseteq active', NEW v \in Variants,
               levelLock'[v] = u
        PROVE  view[u][v] = Less(stock'[v], Units(taken[u], v), job[u].effect)
    BY <2>3 DEF WorkerOK, ViewOK, Unharmed
  <2>4. pc'[u] = pc[u] /\ job'[u] = job[u] /\ taken'[u] = taken[u] /\ view'[u] = view[u]
    BY DEF Unharmed
  <2> QED
    BY <2>1, <2>2, <2>3, <2>4 DEF ViewOK
<1> QED
  BY <1>1, <1>2, <1>3, <1>4, <1>5, <1>6 DEF WorkerOK

\* What a step of w leaves of the other transactions, the book aside.
Aside(w) ==
  \A u \in Workers \ {w} :
    /\ pc'[u] = pc[u] /\ job'[u] = job[u] /\ todo'[u] = todo[u]
    /\ taken'[u] = taken[u] /\ view'[u] = view[u]
    /\ \A o \in Orders : orderLock'[o] = u <=> orderLock[o] = u
    /\ \A v \in Variants : levelLock'[v] = u <=> levelLock[v] = u

BookStays == UNCHANGED <<bookVars, raced>>

LEMMA BookKept ==
  ASSUME BookTypes, BackedUntilRaced, HoldingsFollowTheTrail, BookStays
  PROVE  BookTypes' /\ BackedUntilRaced' /\ HoldingsFollowTheTrail'
<1>1. /\ status' = status /\ lines' = lines /\ stock' = stock /\ active' = active
      /\ trail' = trail /\ writes' = writes /\ shortfall' = shortfall /\ raced' = raced
  BY DEF BookStays, bookVars
<1>2. BookTypes'
  BY <1>1 DEF BookTypes, Written, LinesTyped
<1>3. BackedUntilRaced'
  BY <1>1 DEF BackedUntilRaced
<1>4. HoldingsFollowTheTrail'
  BY <1>1 DEF HoldingsFollowTheTrail, HeldBy, Due
<1> QED
  BY <1>2, <1>3, <1>4

LEMMA QuietStep ==
  ASSUME BookTypes, BackedUntilRaced, HoldingsFollowTheTrail, WorkersInv, BookStays,
         NEW w \in Workers, Aside(w), WorkerOK(w)'
  PROVE  BookTypes' /\ BackedUntilRaced' /\ HoldingsFollowTheTrail' /\ WorkersInv'
<1>1. BookTypes' /\ BackedUntilRaced' /\ HoldingsFollowTheTrail'
  BY BookKept
<1>2. ASSUME NEW u \in Workers, u # w PROVE WorkerOK(u)'
  <2>1. WorkerOK(u)
    BY DEF WorkersInv
  <2>2. \A o \in Orders : Len(trail[o]) <= Len(trail[o])
    BY DEF BookTypes
  <2>3. /\ status' = status /\ lines' = lines /\ stock' = stock /\ active' = active
        /\ trail' = trail /\ writes' = writes /\ raced' = raced /\ writes <= writes
    BY DEF BookStays, bookVars, BookTypes
  <2>4. Unharmed(u)
    BY <1>2, <2>2, <2>3 DEF Aside, Unharmed, HeldBy
  <2> QED
    BY <1>1, <2>1, <2>4, OthersKeep
<1> QED
  BY <1>1, <1>2 DEF WorkersInv

\* However a transaction ends, it holds nothing any more.
LEMMA EndFrees ==
  ASSUME Types, InitialStock \in Levels, NEW w \in Workers, EndTransaction(w)
  PROVE  Types' /\ Aside(w) /\ WorkerOK(w)'
<1>1. /\ pc'[w] = "idle" /\ job'[w] = NoJob /\ todo'[w] = {} /\ taken'[w] = {}
      /\ \A o \in Orders : orderLock'[o] # w
      /\ \A v \in Variants : levelLock'[v] # w
  BY WorkerAssumption DEF EndTransaction, Types
<1>2. Types'
  BY DEF EndTransaction, Types
<1>3. Aside(w)
  <2> SUFFICES ASSUME NEW u \in Workers \ {w}
               PROVE  /\ pc'[u] = pc[u] /\ job'[u] = job[u] /\ todo'[u] = todo[u]
                      /\ taken'[u] = taken[u] /\ view'[u] = view[u]
                      /\ \A o \in Orders : orderLock'[o] = u <=> orderLock[o] = u
                      /\ \A v \in Variants : levelLock'[v] = u <=> levelLock[v] = u
    BY DEF Aside
  <2>1. /\ pc'[u] = pc[u] /\ job'[u] = job[u] /\ todo'[u] = todo[u]
        /\ taken'[u] = taken[u] /\ view'[u] = view[u]
    BY DEF EndTransaction, Types
  <2>2. \A o \in Orders : orderLock'[o] = u <=> orderLock[o] = u
    BY WorkerAssumption DEF EndTransaction
  <2>3. \A v \in Variants : levelLock'[v] = u <=> levelLock[v] = u
    BY WorkerAssumption DEF EndTransaction
  <2> QED
    BY <2>1, <2>2, <2>3
<1>4. WorkerOK(w)'
  BY <1>1 DEF WorkerOK, JobOK, OrderLocked, Reserving, Asking, RowsRead, ViewOK, Consuming
<1> QED
  BY <1>2, <1>3, <1>4

LEMMA InitialStockTyped == InitialStock \in Levels
BY OrderAssumption DEF InitialStock, Levels

LEMMA RollbackKeeps ==
  ASSUME IInv, NEW w \in Workers, Rollback(w)
  PROVE  IInv'
<1>1. Types' /\ Aside(w) /\ WorkerOK(w)'
  BY EndFrees, InitialStockTyped DEF IInv, Rollback
<1>2. BookStays
  BY DEF Rollback, BookStays
<1> QED
  BY <1>1, <1>2, QuietStep DEF IInv

LEMMA BeginMoveKeeps ==
  ASSUME IInv, NEW w \in Workers, BeginMove(w)
  PROVE  IInv'
<1>1. BookStays
  BY DEF BeginMove, BookStays
<1>2. pc[w] = "idle"
  BY DEF BeginMove
<1>3. PICK j : job' = [job EXCEPT ![w] = j] /\ j \in MoveAsked
  <2>1. PICK o \in Orders, to \in Targets :
        \E applyStock \in {TRUE, o \notin Unstocking}, reason \in {TRUE, ~RequiresReason(to)} :
          /\ pc[w] = "idle"
          /\ Committed < MaxCommits
          /\ job' = [job EXCEPT ![w] = [kind |-> "move", order |-> o, to |-> to,
                                        reason |-> reason, applyStock |-> applyStock]]
          /\ pc' = [pc EXCEPT ![w] = "lockOrder"]
          /\ UNCHANGED <<bookVars, raced, todo, taken, view, orderLock, levelLock>>
    BY Zenon DEF BeginMove
  <2>2. PICK applyStock \in {TRUE, o \notin Unstocking}, reason \in {TRUE, ~RequiresReason(to)} :
             job' = [job EXCEPT ![w] = [kind |-> "move", order |-> o, to |-> to,
                                        reason |-> reason, applyStock |-> applyStock]]
    BY <2>1
  <2>3. applyStock \in BOOLEAN /\ reason \in BOOLEAN
    BY DEF RequiresReason
  <2>4. [kind |-> "move", order |-> o, to |-> to, reason |-> reason, applyStock |-> applyStock]
          \in MoveAsked
    BY <2>3 DEF MoveAsked
  <2> QED
    BY <2>2, <2>4
<1>4. /\ pc' = [pc EXCEPT ![w] = "lockOrder"]
      /\ UNCHANGED <<todo, taken, view, orderLock, levelLock>>
  BY DEF BeginMove
<1>5. Types'
  BY <1>3, <1>4 DEF Types, IInv
<1>6. Aside(w)
  BY <1>3, <1>4 DEF Types, IInv, Aside
<1>7. WorkerOK(w)'
  <2>1. WorkerOK(w)
    BY DEF IInv, WorkersInv
  <2>2. pc'[w] = "lockOrder" /\ job'[w] \in MoveAsked /\ todo'[w] = {} /\ taken'[w] = {}
        /\ (\A o \in Orders : orderLock'[o] # w) /\ (\A v \in Variants : levelLock'[v] # w)
    BY <1>2, <1>3, <1>4, <2>1 DEF IInv, Types, WorkerOK, JobOK, OrderLocked, ViewOK
  <2> QED
    BY <2>2 DEF WorkerOK, JobOK, OrderLocked, Reserving, Asking, RowsRead, ViewOK, Consuming
<1> QED
  BY <1>1, <1>5, <1>6, <1>7, QuietStep DEF IInv

LEMMA LockOrderKeeps ==
  ASSUME IInv, NEW w \in Workers, LockOrder(w)
  PROVE  IInv'
<1> DEFINE asked == job[w]
           j == [kind |-> "move", order |-> asked.order, to |-> asked.to, reason |-> asked.reason,
                 applyStock |-> asked.applyStock, from |-> status[asked.order],
                 effect |-> IF asked.applyStock THEN StockEffectOf(status[asked.order], asked.to)
                            ELSE "none"]
<1>1. BookStays
  BY DEF LockOrder, BookStays
<1>2. WorkerOK(w) /\ pc[w] = "lockOrder" /\ asked \in MoveAsked
  BY DEF IInv, WorkersInv, WorkerOK, JobOK, LockOrder
<1>3. /\ pc' = [pc EXCEPT ![w] = "check"] /\ job' = [job EXCEPT ![w] = j]
      /\ orderLock[asked.order] = Nobody /\ orderLock' = [orderLock EXCEPT ![asked.order] = w]
      /\ UNCHANGED <<todo, taken, view, levelLock, status>>
  BY DEF LockOrder, bookVars
<1>4. j \in MoveLocked
  <2>1. asked.order \in Orders /\ asked.to \in Targets /\ asked.reason \in BOOLEAN
        /\ asked.applyStock \in BOOLEAN
    BY <1>2 DEF MoveAsked
  <2>2. status[asked.order] \in Statuses
    BY <2>1 DEF IInv, BookTypes
  <2>3. j.effect \in Effects
    BY DEF Effects, StockEffectOf
  <2> QED
    BY <2>1, <2>2, <2>3 DEF MoveLocked
<1>5. j.kind = "move" /\ j.order \in Orders /\ j.order = asked.order /\ j.from = status[j.order]
      /\ j.effect = IF j.applyStock THEN StockEffectOf(j.from, j.to) ELSE "none"
  BY <1>2 DEF MoveAsked
<1> HIDE DEF j
<1>6. Types'
  BY <1>2, <1>3, <1>5 DEF Types, IInv, MoveAsked
<1>7. Aside(w)
  BY <1>3, <1>5, WorkerAssumption DEF Types, IInv, Aside
<1>8. WorkerOK(w)'
  <2>1. pc'[w] = "check" /\ job'[w] = j /\ todo'[w] = {} /\ taken'[w] = {}
        /\ (\A o \in Orders : orderLock'[o] = w <=> o = j.order)
        /\ (\A v \in Variants : levelLock'[v] # w)
    BY <1>2, <1>3, <1>5 DEF IInv, Types, WorkerOK, JobOK, OrderLocked, ViewOK
  <2> QED
    BY <2>1, <1>3, <1>4, <1>5 DEF WorkerOK, JobOK, OrderLocked, Reserving, Asking, RowsRead, ViewOK, Consuming
<1> QED
  BY <1>1, <1>6, <1>7, <1>8, QuietStep DEF IInv

LEMMA BeginReleaseKeeps ==
  ASSUME IInv, NEW w \in Workers, BeginRelease(w)
  PROVE  IInv'
<1>1. BookStays
  BY DEF BeginRelease, BookStays
<1>2. PICK r \in active :
        /\ r.order \in Releasing \cup {NoOrder} /\ pc[w] = "idle"
        /\ job' = [job EXCEPT ![w] = [kind |-> "release", effect |-> "release"]]
        /\ todo' = [todo EXCEPT ![w] = {r}]
        /\ pc' = [pc EXCEPT ![w] = "levels"]
        /\ UNCHANGED <<taken, view, orderLock, levelLock, trail, writes>>
  BY DEF BeginRelease, bookVars
<1>3. WorkerOK(w)
  BY DEF IInv, WorkersInv
<1>4. r \in ReservationRow /\ Written({r})
  BY DEF IInv, BookTypes, Written
<1>5. Types'
  BY <1>2 DEF Types, IInv
<1>6. Aside(w)
  BY <1>2 DEF Types, IInv, Aside
<1>7. WorkerOK(w)'
  <2>1. /\ pc'[w] = "levels" /\ job'[w] = [kind |-> "release", effect |-> "release"]
        /\ todo'[w] = {r} /\ taken'[w] = {}
        /\ (\A o \in Orders : orderLock'[o] # w) /\ (\A v \in Variants : levelLock'[v] # w)
    BY <1>2, <1>3 DEF IInv, Types, WorkerOK, JobOK, OrderLocked, ViewOK
  <2>2. job'[w].kind = "release" /\ job'[w].effect = "release" /\ job'[w] \in ReleaseJob
    BY <2>1 DEF ReleaseJob
  <2>3. JobOK(w)' /\ OrderLocked(w)' /\ Reserving(w)' /\ Asking(w)' /\ ViewOK(w)'
    BY <2>1, <2>2 DEF JobOK, OrderLocked, Reserving, Asking, ViewOK
  <2>4. IsFiniteSet({r}) /\ IsFiniteSet({}) /\ {r} \cup {} = {r}
    BY FS_Singleton, FS_EmptySet
  <2>5. Written({r})' /\ {r} \subseteq ReservationRow
    BY <1>2, <1>4 DEF Written
  <2>6. RowsRead(w)'
    BY <2>1, <2>2, <2>4, <2>5, <1>2 DEF RowsRead, Consuming, Written
  <2> QED
    BY <2>3, <2>6 DEF WorkerOK
<1> QED
  BY <1>1, <1>5, <1>6, <1>7, QuietStep DEF IInv

LEMMA ReadRowsKeeps ==
  ASSUME IInv, NEW w \in Workers, ReadRows(w)
  PROVE  IInv'
<1> DEFINE j == job[w]
           read == CASE j.effect = "reserve" -> lines[j.order]
                     [] j.effect \in {"ship", "release"} -> HeldBy(j.order)
                     [] OTHER -> {}
<1>1. BookStays
  BY DEF ReadRows, BookStays
<1>2. /\ pc[w] = "check" /\ CanTransition(j.from, j.to)
      /\ todo' = [todo EXCEPT ![w] = read] /\ pc' = [pc EXCEPT ![w] = "levels"]
      /\ UNCHANGED <<job, taken, view, orderLock, levelLock, status, lines, active, trail, writes>>
  BY DEF ReadRows, bookVars
<1>3. JobOK(w) /\ OrderLocked(w) /\ ViewOK(w)
  BY DEF IInv, WorkersInv, WorkerOK
<1>4. j \in MoveLocked /\ taken[w] = {} /\ \A v \in Variants : levelLock[v] # w
  BY <1>2, <1>3 DEF JobOK, ViewOK
<1>5. Types'
  BY <1>2 DEF Types, IInv
<1>6. Aside(w)
  BY <1>2 DEF Types, IInv, Aside
<1>7. /\ pc'[w] = "levels" /\ job'[w] = j /\ todo'[w] = read /\ taken'[w] = {}
      /\ j.kind = "move" /\ \A v \in Variants : levelLock'[v] # w
  BY <1>2, <1>4 DEF Types, IInv, MoveLocked
<1>8. JobOK(w)'
  BY <1>2, <1>4, <1>7 DEF JobOK
<1>9. OrderLocked(w)'
  BY <1>2, <1>3, <1>7 DEF OrderLocked
<1>10. Reserving(w)' /\ Asking(w)'
  <2>1. j.effect = "reserve" => read = lines[j.order]
    OBVIOUS
  <2> HIDE DEF read, j
  <2>2. job' = job /\ lines' = lines
    BY <1>2
  <2>3. j.effect = "reserve" => todo'[w] \cup taken'[w] = lines[j.order]
    BY <1>7, <2>1
  <2> QED
    BY <1>7, <2>2, <2>3 DEF Reserving, Asking
<1>11. ViewOK(w)'
  <2>1. \A v \in Variants : levelLock'[v] # w
    BY <1>7
  <2> QED
    BY <2>1 DEF ViewOK
<1>12. RowsRead(w)'
  <2>1. CASE j.effect \in {"ship", "release"}
    <3>1. read = HeldBy(j.order)
      BY <2>1
    <3>2. /\ HeldBy(j.order) \subseteq active
          /\ \A r \in HeldBy(j.order) : r.order = j.order
      BY DEF HeldBy
    <3>3. /\ HeldBy(j.order) \subseteq ReservationRow /\ IsFiniteSet(HeldBy(j.order))
          /\ Written(HeldBy(j.order))
      BY <3>2, FS_Subset DEF IInv, BookTypes, Written
    <3>4. HeldBy(j.order)' = HeldBy(j.order) /\ Written(HeldBy(j.order))'
      BY <1>2, <3>3 DEF HeldBy, Written
    <3>5. IsFiniteSet({}) /\ HeldBy(j.order) \cup {} = HeldBy(j.order)
      BY FS_EmptySet
    <3>6. todo'[w] = HeldBy(j.order)
      BY <1>7, <3>1
    <3>7. HeldBy(job[w].order)' = HeldBy(j.order)
      BY <3>4, <1>2
    <3> HIDE DEF read, j
    <3> QED
      BY <1>7, <3>2, <3>3, <3>4, <3>5, <3>6, <3>7, <2>1 DEF RowsRead, Written
  <2>2. CASE j.effect \notin {"ship", "release"}
    <3>1. j.effect = "none" => read = {}
      OBVIOUS
    <3> HIDE DEF read, j
    <3> QED
      BY <2>2, <3>1, <1>7 DEF RowsRead, Consuming
  <2> QED
    BY <2>1, <2>2
<1> QED
  BY <1>1, <1>5, <1>6, <1>8, <1>9, <1>10, <1>11, <1>12, QuietStep DEF IInv, WorkerOK

LEMMA LockAside ==
  ASSUME Types, NEW w \in Workers, NEW v \in Variants, LockLevel(w, v)
  PROVE  /\ levelLock' \in [Variants -> Workers \cup {Nobody}]
         /\ levelLock'[v] = w
         /\ \A x \in Variants : x # v => levelLock'[x] = levelLock[x]
         /\ \A u \in Workers \ {w}, x \in Variants : levelLock'[x] = u <=> levelLock[x] = u
BY WorkerAssumption DEF Types, LockLevel

LEMMA ReserveLevelKeeps ==
  ASSUME IInv, NEW w \in Workers, ReserveLevel(w)
  PROVE  IInv'
<1>1. PICK v \in {l.variant : l \in todo[w]} :
    /\ pc[w] = "levels" /\ job[w].effect = "reserve"
    /\ LockLevel(w, v)
    /\ view' = [view EXCEPT ![w][v] = Seen(w, v)]
    /\ taken' = [taken EXCEPT ![w] = @ \cup {l \in todo[w] : l.variant = v}]
    /\ todo' = [todo EXCEPT ![w] = {l \in @ : l.variant # v}]
    /\ UNCHANGED <<bookVars, raced, pc, job, orderLock>>
  BY DEF ReserveLevel
<1>2. BookStays
  BY <1>1 DEF BookStays
<1>3. /\ UNCHANGED <<pc, job, orderLock, status, lines, stock, active, trail, writes>>
  BY <1>1 DEF bookVars
<1>4. JobOK(w) /\ OrderLocked(w) /\ Reserving(w) /\ ViewOK(w)
  BY DEF IInv, WorkersInv, WorkerOK
<1>5. /\ todo[w] \cup taken[w] = lines[job[w].order]
      /\ \A l \in taken[w] : levelLock[l.variant] = w
      /\ \A x \in Variants : levelLock[x] = w => view[w][x] = stock[x]
  BY <1>1, <1>4 DEF Reserving
<1>20. \A l \in todo[w] \cup taken[w] : l.variant \in Variants
  <2>1. job[w].order \in Orders
    BY <1>1, <1>4 DEF JobOK, MoveLocked, ReleaseJob
  <2> QED
    BY <1>5, <2>1 DEF IInv, BookTypes, LinesTyped, LineRecord
<1>6. v \in Variants
  BY <1>1, <1>20
<1>7. Seen(w, v) = stock[v]
  BY <1>5, <1>6 DEF Seen
<1>8. /\ view \in [Workers -> Levels] /\ stock[v] \in [onHand: Nat, committed: Nat]
  BY <1>6 DEF IInv, Types, BookTypes, Levels
<1>9. view' \in [Workers -> Levels] /\ view'[w] = [view[w] EXCEPT ![v] = stock[v]]
      /\ \A u \in Workers \ {w} : view'[u] = view[u]
  BY <1>1, <1>7, <1>8 DEF Levels
<1>10. /\ levelLock' \in [Variants -> Workers \cup {Nobody}]
       /\ levelLock'[v] = w
       /\ \A x \in Variants : x # v => levelLock'[x] = levelLock[x]
       /\ \A u \in Workers \ {w}, x \in Variants : levelLock'[x] = u <=> levelLock[x] = u
  BY <1>1, <1>6, LockAside DEF IInv
<1>11. /\ todo'[w] = {l \in todo[w] : l.variant # v}
       /\ taken'[w] = taken[w] \cup {l \in todo[w] : l.variant = v}
       /\ \A u \in Workers \ {w} : todo'[u] = todo[u] /\ taken'[u] = taken[u]
       /\ taken' = [u \in Workers |-> taken'[u]] /\ todo' = [u \in Workers |-> todo'[u]]
  BY <1>1 DEF IInv, Types
<1>12. Types'
  BY <1>3, <1>9, <1>10, <1>11 DEF IInv, Types
<1>13. Aside(w)
  BY <1>3, <1>9, <1>10, <1>11 DEF Aside
<1>14. JobOK(w)'
  BY <1>1, <1>3, <1>4 DEF JobOK
<1>15. OrderLocked(w)'
  BY <1>3, <1>4 DEF OrderLocked
<1>16. Reserving(w)'
  <2>1. \A x \in Variants : levelLock'[x] = w => view'[w][x] = stock[x]
    <3>1. view[w] \in Levels
      BY <1>8
    <3>2. view'[w][v] = stock[v] /\ \A x \in Variants : x # v => view'[w][x] = view[w][x]
      BY <3>1, <1>6, <1>9 DEF Levels
    <3> QED
      BY <3>2, <1>5, <1>10
  <2>2. todo'[w] \cup taken'[w] = lines'[job[w].order]
    BY <1>3, <1>5, <1>11
  <2>3. ASSUME NEW l \in taken'[w] PROVE levelLock'[l.variant] = w
    BY <1>5, <1>10, <1>11, <1>20
  <2> QED
    BY <1>3, <2>1, <2>2, <2>3 DEF Reserving
<1>17. RowsRead(w)' /\ ViewOK(w)' /\ Asking(w)'
  BY <1>1, <1>3 DEF RowsRead, ViewOK, Asking, Consuming
<1> QED
  BY <1>2, <1>12, <1>13, <1>14, <1>15, <1>16, <1>17, QuietStep DEF IInv, WorkerOK

\* What Consumed does while the units are there.
LEMMA ConsumedLess ==
  ASSUME NEW level \in [onHand: Nat, committed: Nat], NEW qty \in Nat, NEW effect
  PROVE  /\ Consumed(level, qty, effect).committed \in Nat
         /\ Consumed(level, qty, effect).onHand \in Int
         /\ Consumed(level, qty, effect) =
              [onHand |-> Consumed(level, qty, effect).onHand,
               committed |-> Consumed(level, qty, effect).committed]
         /\ qty <= level.committed => Consumed(level, qty, effect) = Less(level, qty, effect)
BY DEF Consumed, Less

LEMMA ConsumeRowKeeps ==
  ASSUME IInv, NEW w \in Workers, ConsumeRow(w)
  PROVE  IInv'
<1>1. PICK r \in todo[w] :
        LET after == Consumed(Seen(w, r.variant), r.qty, job[w].effect)
        IN  /\ pc[w] = "levels"
            /\ job[w].effect \in {"ship", "release"}
            /\ LockLevel(w, r.variant)
            /\ after.onHand >= 0
            /\ view' = [view EXCEPT ![w][r.variant] = after]
            /\ taken' = [taken EXCEPT ![w] = @ \cup {r}]
            /\ todo' = [todo EXCEPT ![w] = @ \ {r}]
            /\ UNCHANGED <<bookVars, raced, pc, job, orderLock>>
  BY DEF ConsumeRow
<1> DEFINE v == r.variant
           seen == Seen(w, v)
           effect == job[w].effect
           after == Consumed(seen, r.qty, effect)
<1>2. BookStays /\ UNCHANGED <<pc, job, orderLock, status, lines, stock, active, trail, writes, raced>>
  BY <1>1 DEF BookStays, bookVars
<1>3. JobOK(w) /\ OrderLocked(w) /\ RowsRead(w) /\ ViewOK(w)
  BY DEF IInv, WorkersInv, WorkerOK
<1>4. Consuming(w)
  BY <1>1 DEF Consuming
<1>5. /\ todo[w] \cup taken[w] \subseteq ReservationRow
      /\ IsFiniteSet(todo[w]) /\ IsFiniteSet(taken[w])
      /\ todo[w] \cap taken[w] = {}
      /\ Written(todo[w] \cup taken[w])
      /\ \A t \in taken[w] : levelLock[t.variant] = w
  BY <1>3, <1>4 DEF RowsRead
<1>6. r \in ReservationRow /\ v \in Variants /\ r.qty \in Nat /\ r \notin taken[w]
  BY <1>5 DEF ReservationRow
<1>7. /\ view \in [Workers -> Levels] /\ stock \in Levels
      /\ stock[v] \in [onHand: Nat, committed: Nat] /\ view[w][v] \in [onHand: Nat, committed: Nat]
  BY <1>6 DEF IInv, Types, BookTypes, Levels
<1>8. seen \in [onHand: Nat, committed: Nat]
  BY <1>7 DEF Seen
<1>9. after \in [onHand: Nat, committed: Nat]
  <2>1. after.onHand >= 0
    BY <1>1
  <2>2. after.committed \in Nat /\ after.onHand \in Int
        /\ after = [onHand |-> after.onHand, committed |-> after.committed]
    BY <1>6, <1>8, ConsumedLess
  <2> HIDE DEF after
  <2> QED
    BY <2>1, <2>2
<1> HIDE DEF after
<1>10. /\ taken'[w] = taken[w] \cup {r} /\ todo'[w] = todo[w] \ {r}
       /\ \A u \in Workers \ {w} : taken'[u] = taken[u] /\ todo'[u] = todo[u]
       /\ taken' = [u \in Workers |-> taken'[u]] /\ todo' = [u \in Workers |-> todo'[u]]
  BY <1>1 DEF IInv, Types
<1>11. /\ view' \in [Workers -> Levels]
       /\ view'[w][v] = after
       /\ \A x \in Variants : x # v => view'[w][x] = view[w][x]
       /\ \A u \in Workers \ {w} : view'[u] = view[u]
  <2>1. view' = [view EXCEPT ![w][v] = after]
    BY <1>1 DEF after
  <2> QED
    BY <2>1, <1>6, <1>7, <1>9 DEF Levels
<1>12. /\ levelLock' \in [Variants -> Workers \cup {Nobody}]
       /\ levelLock'[v] = w
       /\ \A x \in Variants : x # v => levelLock'[x] = levelLock[x]
       /\ \A u \in Workers \ {w}, x \in Variants : levelLock'[x] = u <=> levelLock[x] = u
  BY <1>1, <1>6, LockAside DEF IInv
<1>13. Types'
  BY <1>2, <1>10, <1>11, <1>12 DEF IInv, Types
<1>14. Aside(w)
  BY <1>2, <1>10, <1>11, <1>12 DEF Aside
<1>15. JobOK(w)' /\ OrderLocked(w)' /\ Reserving(w)' /\ Asking(w)'
  BY <1>1, <1>2, <1>3 DEF JobOK, OrderLocked, Reserving, Asking
<1>16. todo'[w] \cup taken'[w] = todo[w] \cup taken[w]
  BY <1>10
<1>17. RowsRead(w)'
  <2>1. IsFiniteSet(todo'[w]) /\ IsFiniteSet(taken'[w]) /\ todo'[w] \cap taken'[w] = {}
    BY <1>5, <1>10, FS_AddElement, FS_RemoveElement
  <2>2. \A t \in taken'[w] : levelLock'[t.variant] = w
    <3> SUFFICES ASSUME NEW t \in taken'[w] PROVE levelLock'[t.variant] = w
      OBVIOUS
    <3>1. CASE t = r
      BY <3>1, <1>12
    <3>2. CASE t \in taken[w]
      <4>1. t.variant \in Variants /\ levelLock[t.variant] = w
        BY <3>2, <1>5 DEF ReservationRow
      <4> QED
        BY <4>1, <1>12
    <3> QED
      BY <3>1, <3>2, <1>10
  <2>3. HeldBy(job[w].order)' = HeldBy(job[w].order)
    BY <1>2 DEF HeldBy
  <2>4. Written(todo[w] \cup taken[w]) /\ trail' = trail /\ writes' = writes
    BY <1>2, <1>5
  <2>5. /\ job[w].kind = "move" =>
            /\ \A t \in todo[w] \cup taken[w] : t.order = job[w].order
            /\ HeldBy(job[w].order) \subseteq todo[w] \cup taken[w]
        /\ job[w].kind = "release" =>
            \E t \in todo[w] \cup taken[w] :
              t.order \in Releasing \cup {NoOrder} /\ todo[w] \cup taken[w] = {t}
    BY <1>3, <1>4 DEF RowsRead
  <2>6. job'[w] = job[w] /\ pc'[w] = pc[w] /\ job[w].effect # "none"
    BY <1>1, <1>2
  <2>7. /\ todo'[w] \cup taken'[w] \subseteq ReservationRow
        /\ Written(todo'[w] \cup taken'[w])
        /\ job[w].kind = "move" =>
            /\ \A t \in todo'[w] \cup taken'[w] : t.order = job[w].order
            /\ HeldBy(job[w].order)' \subseteq todo'[w] \cup taken'[w]
        /\ job[w].kind = "release" =>
            \E t \in todo'[w] \cup taken'[w] :
              t.order \in Releasing \cup {NoOrder} /\ todo'[w] \cup taken'[w] = {t}
    BY <1>5, <1>16, <2>3, <2>4, <2>5
  <2>8. Written(todo[w] \cup taken[w])'
    BY <2>4, <2>7, <1>16 DEF Written
  <2> QED
    BY <2>1, <2>2, <2>6, <2>7, <2>8 DEF RowsRead
<1>18. ViewOK(w)'
  <2>1. pc'[w] = "levels" /\ job'[w] = job[w] /\ job[w].effect # "none"
    BY <1>1, <1>2
  <2>2. ASSUME ~raced, taken[w] \cup {r} \subseteq active, NEW x \in Variants, levelLock'[x] = w
        PROVE  view'[w][x] = Less(stock[x], Units(taken[w] \cup {r}, x), effect)
    <3>1. Quantified(active) /\ Quantified(taken[w]) /\ Quantified({r})
          /\ Units({r}, x) = IF v = x THEN r.qty ELSE 0
      BY <2>2, <1>5, <1>6, UnitsOfOne DEF IInv, BookTypes, ReservationRow, Quantified
    <3>2. Units(taken[w] \cup {r}, x) = Units(taken[w], x) + Units({r}, x)
      BY <3>1, <1>6, UnitsSplit
    <3>3. Units(taken[w], x) \in Nat
      BY <3>1, UnitsNat
    <3>4. levelLock[x] = w => view[w][x] = Less(stock[x], Units(taken[w], x), effect)
      BY <2>2, <1>3, <1>4 DEF ViewOK
    <3>5. CASE x # v
      <4>1. levelLock[x] = w
        BY <3>5, <2>2, <1>12
      <4>2. Units(taken[w] \cup {r}, x) = Units(taken[w], x)
        BY <3>1, <3>2, <3>3, <3>5
      <4>3. view'[w][x] = view[w][x]
        BY <3>5, <1>11
      <4> QED
        BY <3>4, <4>1, <4>2, <4>3
    <3>6. CASE x = v
      <4>1. Units(taken[w] \cup {r}, v) = Units(taken[w], v) + r.qty /\ Units(taken[w], v) \in Nat
        BY <3>1, <3>2, <3>3, <3>6
      <4>2. seen = Less(stock[v], Units(taken[w], v), effect)
        <5>1. CASE levelLock[v] = w
          BY <5>1, <3>4, <3>6 DEF Seen
        <5>2. CASE levelLock[v] # w
          <6>1. \A t \in taken[w] : t.variant # v
            BY <5>2, <1>5
          <6>2. Units(taken[w], v) = 0
            BY <6>1, UnitsOfNone
          <6>3. seen = stock[v]
            BY <5>2 DEF Seen
          <6> QED
            BY <6>2, <6>3, <1>7 DEF Less
        <5> QED
          BY <5>1, <5>2
      <4>3. Units(taken[w] \cup {r}, v) <= Units(active, v)
        BY <2>2, <3>1, UnitsPart
      <4>4. stock[v].committed = Units(active, v) /\ Units(active, v) \in Nat
        BY <2>2, <1>6, <3>1, UnitsNat DEF IInv, BackedUntilRaced
      <4>5. r.qty <= seen.committed
        BY <4>1, <4>2, <4>3, <4>4, <1>6 DEF Less
      <4>6. after = Less(seen, r.qty, effect)
        BY <4>5, <1>6, <1>8, ConsumedLess DEF after
      <4>7. after = Less(stock[v], Units(taken[w], v) + r.qty, effect)
        <5> DEFINE n == Units(taken[w], v)
        <5>1. n \in Nat /\ r.qty \in Nat /\ stock[v].onHand \in Nat /\ stock[v].committed \in Nat
          BY <4>1, <1>6, <1>7
        <5> HIDE DEF n
        <5>2. seen = Less(stock[v], n, effect)
          BY <4>2 DEF n
        <5>3. after = Less(stock[v], n + r.qty, effect)
          BY <5>1, <5>2, <4>6 DEF Less
        <5> QED
          BY <5>3 DEF n
      <4> QED
        BY <3>6, <4>1, <4>7, <1>11
    <3> QED
      BY <3>5, <3>6
  <2> QED
    BY <2>1, <2>2, <1>2, <1>10 DEF ViewOK
<1> QED
  BY <1>2, <1>13, <1>14, <1>15, <1>17, <1>18, QuietStep DEF IInv, WorkerOK

-----------------------------------------------------------------------------
(* The atomic book keeps every level backed.                               *)

Backed(v) ==
  /\ stock[v].committed = Units(active, v)
  /\ v \in Oversell \/ Units(active, v) <= stock[v].onHand + shortfall[v]

LEMMA LinesQuantified ==
  ASSUME BookTypes, NEW o \in Orders
  PROVE  lines[o] \subseteq LineRecord /\ IsFiniteSet(lines[o]) /\ Quantified(lines[o])
BY DEF BookTypes, LinesTyped, LineRecord, Quantified

LEMMA ActiveQuantified ==
  ASSUME BookTypes, NEW R, R \subseteq active
  PROVE  Quantified(R)
BY FS_Subset DEF BookTypes, Quantified, ReservationRow

\* The rows a reservation writes are new.
LEMMA RowsAreFresh ==
  ASSUME BookTypes, NEW o \in Orders
  PROVE  active \cap RowsFor(lines[o], Len(trail[o])) = {}
<1> SUFFICES ASSUME NEW r \in active, NEW l \in lines[o], r = Reservation(l, Len(trail[o]))
             PROVE  FALSE
  BY DEF RowsFor
<1>1. r.order = o /\ r.at = Len(trail[o]) /\ r.place # 0
  BY DEF Reservation, BookTypes, LinesTyped, LineRecord
<1>2. r.at < Len(trail[r.order])
  BY <1>1 DEF BookTypes, Written
<1> QED
  BY <1>1, <1>2 DEF BookTypes

\* So is the row a client's reservation writes.
LEMMA AskedIsFresh ==
  ASSUME BookTypes, NEW ask
  PROVE  Asked(ask, writes + 1) \notin active
<1> DEFINE r == Asked(ask, writes + 1)
<1> SUFFICES ASSUME r \in active PROVE FALSE
  OBVIOUS
<1>1. r.place = 0 /\ r.batch = writes + 1
  BY DEF Asked
<1>2. r.batch <= writes
  BY <1>1 DEF BookTypes, Written
<1> QED
  BY <1>1, <1>2 DEF BookTypes

LEMMA ReserveBacked ==
  ASSUME BookTypes, NEW o \in Orders, NEW to, BookReserve(o, to), NEW v \in Variants, Backed(v)
  PROVE  Backed(v)'
<1> DEFINE L == lines[o]
           rows == RowsFor(L, Len(trail[o]))
           old == Units(active, v)
           new == Units(L, v)
<1>1. Quantified(L) /\ Quantified(rows) /\ Units(rows, v) = new
  BY LinesQuantified, UnitsOfRows
<1>2. Quantified(active) /\ active \cap rows = {}
  BY ActiveQuantified, RowsAreFresh
<1>3. old \in Nat /\ new \in Nat
  BY <1>1, <1>2, UnitsNat
<1>4. active' = active \cup rows
  BY DEF BookReserve
<1>5. Units(active \cup rows, v) = old + new
  <2> HIDE DEF rows
  <2> QED
    BY <1>1, <1>2, UnitsSplit
<1>6. Units(active', v) = old + new
  BY <1>4, <1>5
<1>7. stock[v] \in [onHand: Nat, committed: Nat]
  BY DEF BookTypes, Levels
<1>8. /\ stock'[v].committed = stock[v].committed + new /\ stock'[v].onHand = stock[v].onHand
      /\ shortfall'[v] = shortfall[v] /\ shortfall[v] \in Nat
  BY <1>7 DEF BookReserve, Moves, BookTypes
<1>9. v \notin Oversell => new <= stock[v].onHand - stock[v].committed \/ new = 0
  <2>1. Shortages(lines[o], stock) = {}
    BY DEF BookReserve
  <2> QED
    BY <2>1, <1>3, <1>7 DEF Shortages, Available
<1> HIDE DEF old, new
<1>10. Backed(v)' = (/\ stock'[v].committed = Units(active', v)
                     /\ v \in Oversell \/ Units(active', v) <= stock'[v].onHand + shortfall'[v])
  BY DEF Backed
<1>11. stock[v].committed = old /\ (v \in Oversell \/ old <= stock[v].onHand + shortfall[v])
  BY DEF Backed, old
<1> QED
  BY <1>3, <1>6, <1>7, <1>8, <1>9, <1>10, <1>11

LEMMA ConsumedBacked ==
  ASSUME BookTypes, NEW R, R \subseteq active, NEW v \in Variants, Backed(v), NEW effect,
         active' = active \ R, stock'[v] = Less(stock[v], Units(R, v), effect),
         shortfall'[v] = shortfall[v]
  PROVE  Backed(v)'
<1> DEFINE held == Units(R, v)
           old == Units(active, v)
<1>1. Quantified(active) /\ Quantified(R)
  BY ActiveQuantified
<1>2. Units(active \ R, v) = old - held /\ held <= old /\ held \in Nat /\ old \in Nat
  <2>1. Units(active \ R, v) = Units(active, v) - Units(R, v) /\ Units(R, v) <= Units(active, v)
    BY <1>1, UnitsPart
  <2>2. Units(active, v) \in Nat /\ Units(R, v) \in Nat
    BY <1>1, UnitsNat
  <2> QED
    BY <2>1, <2>2
<1>3. stock[v] \in [onHand: Nat, committed: Nat] /\ shortfall[v] \in Nat
  BY DEF BookTypes, Levels
<1>4. stock[v].committed = old /\ (v \in Oversell \/ old <= stock[v].onHand + shortfall[v])
  BY DEF Backed
<1>5. Units(active', v) = old - held
  BY <1>2
<1> HIDE DEF old
<1>6. stock'[v].committed = old - held
      /\ stock'[v].onHand = stock[v].onHand - IF effect = "ship" THEN held ELSE 0
  BY <1>4 DEF Less
<1> HIDE DEF held
<1>7. v \in Oversell \/ old - held <= stock'[v].onHand + shortfall'[v]
  BY <1>2, <1>3, <1>4, <1>6
<1> QED
  BY <1>5, <1>6, <1>7 DEF Backed

LEMMA AskBacked ==
  ASSUME BookTypes, NEW ask \in Asks, BookAsk(ask), NEW v \in Variants, Backed(v)
  PROVE  Backed(v)'
<1> DEFINE r == Asked(ask, writes + 1)
           old == Units(active, v)
<1>1. ask.variant \in Variants /\ ask.qty \in Nat
  BY OrderAssumption
<1>2. r.variant = ask.variant /\ r.qty = ask.qty
  BY DEF Asked
<1>3. Quantified({r}) /\ Units({r}, v) = IF ask.variant = v THEN ask.qty ELSE 0
  BY <1>1, <1>2, UnitsOfOne
<1>4. Quantified(active) /\ active \cap {r} = {}
  BY ActiveQuantified, AskedIsFresh
<1>5. active' = active \cup {r} /\ shortfall' = shortfall
  BY DEF BookAsk
<1> HIDE DEF r
<1>6. Units(active \cup {r}, v) = old + Units({r}, v) /\ old \in Nat
  BY <1>3, <1>4, UnitsSplit, UnitsNat
<1>7. /\ stock[v] \in [onHand: Nat, committed: Nat] /\ shortfall[v] \in Nat
      /\ stock \in [Variants -> [onHand: Nat, committed: Nat]]
  BY DEF BookTypes, Levels
<1>8. stock[v].committed = old /\ (v \in Oversell \/ old <= stock[v].onHand + shortfall[v])
  BY DEF Backed
<1>9. CASE ask.variant = v
  <2>1. stock'[v] = [stock[v] EXCEPT !.committed = @ + ask.qty]
    BY <1>1, <1>7, <1>9 DEF BookAsk
  <2>2. stock'[v].committed = stock[v].committed + ask.qty /\ stock'[v].onHand = stock[v].onHand
    BY <1>7, <2>1
  <2>3. v \in Oversell \/ ask.qty <= stock[v].onHand - stock[v].committed
    BY <1>9 DEF BookAsk, Available
  <2>4. Units(active', v) = old + ask.qty
    BY <1>3, <1>5, <1>6, <1>9
  <2> HIDE DEF old
  <2> QED
    BY <1>1, <1>5, <1>6, <1>7, <1>8, <2>2, <2>3, <2>4 DEF Backed
<1>10. CASE ask.variant # v
  <2>1. stock'[v] = stock[v]
    BY <1>7, <1>10 DEF BookAsk
  <2>2. Units(active', v) = old
    BY <1>3, <1>5, <1>6, <1>10
  <2> QED
    BY <1>5, <1>8, <2>1, <2>2 DEF Backed
<1> QED
  BY <1>9, <1>10

LEMMA CountBacked ==
  ASSUME BookTypes, NEW count \in Counts, BookCount(count), NEW v \in Variants, Backed(v)
  PROVE  Backed(v)'
<1> DEFINE old == Units(active, v)
           onHand == stock[count.variant].onHand + count.delta
<1>1. count.variant \in Variants /\ count.delta \in Int
  BY OrderAssumption
<1>2. /\ stock[v] \in [onHand: Nat, committed: Nat] /\ shortfall[v] \in Nat
      /\ stock \in [Variants -> [onHand: Nat, committed: Nat]] /\ shortfall \in [Variants -> Nat]
  BY DEF BookTypes, Levels
<1>3. stock[v].committed = old /\ (v \in Oversell \/ old <= stock[v].onHand + shortfall[v])
  BY DEF Backed
<1>4. active' = active /\ old \in Nat
  BY ActiveQuantified, UnitsNat DEF BookCount
<1>5. CASE count.variant = v
  <2>1. /\ stock'[v] = [stock[v] EXCEPT !.onHand = onHand]
        /\ shortfall'[v] = IF onHand < stock[v].committed THEN stock[v].committed - onHand ELSE 0
        /\ onHand \in Int
    BY <1>1, <1>2, <1>5 DEF BookCount
  <2> HIDE DEF onHand, old
  <2>2. stock'[v].committed = stock[v].committed /\ stock'[v].onHand = onHand
    BY <1>2, <2>1
  <2>3. old <= stock'[v].onHand + shortfall'[v]
    BY <1>2, <1>3, <1>4, <2>1, <2>2
  <2> QED
    BY <1>3, <1>4, <2>2, <2>3 DEF Backed, old
<1>6. CASE count.variant # v
  <2>1. stock'[v] = stock[v] /\ shortfall'[v] = shortfall[v]
    BY <1>2, <1>6 DEF BookCount
  <2> QED
    BY <1>4, <2>1 DEF Backed
<1> QED
  BY <1>5, <1>6

LEMMA BookKeepsBacked ==
  ASSUME BookTypes, BookNext, NEW v \in Variants, Backed(v)
  PROVE  Backed(v)'
<1>0. stock[v] \in [onHand: Nat, committed: Nat]
  BY DEF BookTypes, Levels
<1>1. ASSUME NEW r \in active, BookFree(r) PROVE Backed(v)'
  <2>1. r.qty \in Nat /\ r.variant \in Variants
    BY DEF BookTypes, ReservationRow
  <2>2. Units({r}, v) = IF r.variant = v THEN r.qty ELSE 0
    BY <2>1, UnitsOfOne
  <2>3. stock'[v] = Less(stock[v], Units({r}, v), "release")
    <3>1. CASE r.variant = v
      <4>1. stock'[v] = [stock[v] EXCEPT !.committed = @ - r.qty]
        BY <1>1, <3>1 DEF BookFree, BookTypes, Levels
      <4> QED
        BY <1>0, <2>2, <3>1, <4>1 DEF Less
    <3>2. CASE r.variant # v
      <4>1. stock'[v] = stock[v]
        BY <1>1, <3>2 DEF BookFree, BookTypes, Levels
      <4>2. Less(stock[v], 0, "release") = stock[v]
        BY <1>0 DEF Less
      <4> QED
        BY <2>2, <3>2, <4>1, <4>2
    <3> QED
      BY <3>1, <3>2
  <2>4. active' = active \ {r} /\ {r} \subseteq active /\ shortfall'[v] = shortfall[v]
    BY <1>1 DEF BookFree
  <2> QED
    BY <2>3, <2>4, ConsumedBacked
<1>2. ASSUME NEW o \in Orders, NEW to \in Statuses, NEW stocked \in BOOLEAN,
             BookMove(o, to, stocked)
      PROVE  Backed(v)'
  BY <1>2 DEF BookMove, Moves, Backed
<1>3. ASSUME NEW o \in Orders, NEW to \in Statuses, BookReserve(o, to) PROVE Backed(v)'
  BY <1>3, ReserveBacked
<1>4. ASSUME NEW o \in Orders, NEW to \in Statuses, BookShip(o, to) PROVE Backed(v)'
  <2>1. stock'[v] = Less(stock[v], Units(HeldBy(o), v), "ship")
    BY <1>0, <1>4 DEF BookShip, Less
  <2>2. active' = active \ HeldBy(o) /\ HeldBy(o) \subseteq active /\ shortfall'[v] = shortfall[v]
    BY <1>4 DEF BookShip, Moves, HeldBy
  <2> QED
    BY <2>1, <2>2, ConsumedBacked
<1>5. ASSUME NEW o \in Orders, NEW to \in Statuses, BookRelease(o, to) PROVE Backed(v)'
  <2>0. Units(HeldBy(o), v) \in Nat
    BY ActiveQuantified, UnitsNat DEF HeldBy
  <2>1. stock'[v] = Less(stock[v], Units(HeldBy(o), v), "release")
    BY <1>0, <1>5, <2>0 DEF BookRelease, Less
  <2>2. active' = active \ HeldBy(o) /\ HeldBy(o) \subseteq active /\ shortfall'[v] = shortfall[v]
    BY <1>5 DEF BookRelease, Moves, HeldBy
  <2> QED
    BY <2>1, <2>2, ConsumedBacked
<1>6. ASSUME NEW edition \in Editions, NEW gone \in SUBSET lines[edition.order],
             BookEdit(edition, gone)
      PROVE  Backed(v)'
  BY <1>6 DEF BookEdit, Backed
<1> QED
  BY <1>1, <1>2, <1>3, <1>4, <1>5, <1>6, AskBacked, CountBacked DEF BookNext

-----------------------------------------------------------------------------
(* The commits.                                                            *)

\* A commit touches the levels and the order it has locked, and adds only rows
\* nobody has read.
LEMMA CommitFrame ==
  ASSUME IInv, NEW w \in Workers, EndTransaction(w), BookTypes', raced => raced',
         \A v \in Variants : levelLock[v] \notin {w, Nobody} => stock'[v] = stock[v],
         \A o \in Orders : orderLock[o] \notin {w, Nobody} =>
           /\ status'[o] = status[o] /\ lines'[o] = lines[o]
           /\ HeldBy(o)' \subseteq HeldBy(o),
         \A o \in Orders : Len(trail[o]) <= Len(trail'[o]), writes <= writes',
         \A r \in active' \ active : ~Written({r})
  PROVE  Types' /\ WorkersInv'
<1>1. Types' /\ Aside(w) /\ WorkerOK(w)'
  BY EndFrees, InitialStockTyped DEF IInv
<1>2. ASSUME NEW u \in Workers, u # w PROVE WorkerOK(u)'
  <2>1. WorkerOK(u) /\ BookTypes
    BY DEF IInv, WorkersInv
  <2>2. ASSUME Consuming(u), taken[u] \subseteq active' PROVE taken[u] \subseteq active
    <3> SUFFICES ASSUME NEW r \in taken[u], r \notin active PROVE FALSE
      OBVIOUS
    <3>1. Written({r})
      BY <2>1, <2>2 DEF WorkerOK, RowsRead, Written
    <3> QED
      BY <2>2, <3>1
  <2>3. Unharmed(u)
    BY <1>1, <1>2, <2>2, WorkerAssumption DEF Aside, Unharmed
  <2> QED
    BY <2>1, <2>3, OthersKeep
<1> QED
  BY <1>1, <1>2 DEF WorkersInv

\* What a move that commits knows of its order.
LEMMA MoveKnows ==
  ASSUME IInv, NEW w \in Workers, pc[w] = "levels", job[w].kind = "move"
  PROVE  /\ job[w].order \in Orders /\ job[w].to \in Statuses
         /\ job[w].from = status[job[w].order]
         /\ CanTransition(status[job[w].order], job[w].to)
         /\ job[w].effect \in Effects
         /\ job[w].applyStock \in BOOLEAN
         /\ job[w].effect = IF job[w].applyStock THEN StockEffectOf(job[w].from, job[w].to)
                            ELSE "none"
         /\ orderLock[job[w].order] = w
<1>1. JobOK(w) /\ OrderLocked(w)
  BY DEF IInv, WorkersInv, WorkerOK
<1>2. job[w] \in MoveLocked /\ CanTransition(job[w].from, job[w].to)
  BY <1>1 DEF JobOK, ReleaseJob
<1> QED
  BY <1>1, <1>2, WorkerAssumption DEF OrderLocked, MoveLocked

-----------------------------------------------------------------------------
(* What an order holds, and what its activities account for.               *)

Own(o) == {r \in HeldBy(o) : r.place # 0}

\* What a move does to the stock is what its record says.
LEMMA MovesMean ==
  ASSUME NEW from \in Statuses, NEW to, CanTransition(from, to), NEW move,
         move.from = from, move.to = to
  PROVE  /\ Reserves(move) <=> move.stocked /\ StockEffectOf(from, to) = "reserve"
         /\ Ends(move) <=> move.stocked /\ StockEffectOf(from, to) \in {"ship", "release"}
         /\ ~(Reserves(move) /\ Ends(move))
<1>1. CASE from \in {"new", "confirming"}
  BY <1>1 DEF CanTransition, Transitions, StockEffectOf, ReservingStates, Reserves, Ends
<1>2. CASE from \in {"processing", "incomplete", "ready", "postponed"}
  BY <1>2 DEF CanTransition, Transitions, StockEffectOf, ReservingStates, Reserves, Ends
<1>3. CASE from \in {"shipped", "delivered", "completed"}
  BY <1>3 DEF CanTransition, Transitions, StockEffectOf, ReservingStates, Reserves, Ends
<1>4. CASE from \in {"cancelled", "returned", "exchanged"}
  BY <1>4 DEF CanTransition, Transitions, StockEffectOf, ReservingStates, Reserves, Ends
<1> QED
  BY <1>1, <1>2, <1>3, <1>4 DEF Statuses, Transitions

\* One more move ends what was due, or adds the lines of its moment.
LEMMA DueAfterMove ==
  ASSUME NEW o, trail[o] \in Seq(MoveRecord), NEW move \in MoveRecord,
         trail'[o] = Append(trail[o], move), ~(Reserves(move) /\ Ends(move))
  PROVE  Due(o)' = (IF Ends(move) THEN {} ELSE Due(o))
                   \cup (IF Reserves(move) THEN RowsFor(move.lines, Len(trail[o])) ELSE {})
<1> DEFINE n == Len(trail[o])
           standing == {k \in 1..n : /\ Reserves(trail[o][k])
                                     /\ \A later \in (k + 1)..n : ~Ends(trail[o][later])}
           after == {k \in 1..Len(trail'[o]) :
                       /\ Reserves(trail'[o][k])
                       /\ \A later \in (k + 1)..Len(trail'[o]) : ~Ends(trail'[o][later])}
           kept == IF Ends(move) THEN {} ELSE standing
           added == IF Reserves(move) THEN {n + 1} ELSE {}
<1>1. /\ n \in Nat /\ Len(trail'[o]) = n + 1 /\ trail'[o][n + 1] = move
      /\ \A k \in 1..n : trail'[o][k] = trail[o][k]
  OBVIOUS
<1>2. Due(o) = UNION {RowsFor(trail[o][k].lines, k - 1) : k \in standing}
  BY DEF Due
<1>3. Due(o)' = UNION {RowsFor(trail'[o][k].lines, k - 1) : k \in after}
  BY DEF Due
<1>4. after = kept \cup added
  <2>1. ASSUME NEW k \in after PROVE k \in kept \cup added
    <3>1. k \in 1..(n + 1) /\ Reserves(trail'[o][k])
          /\ \A later \in (k + 1)..(n + 1) : ~Ends(trail'[o][later])
      BY <1>1
    <3>2. CASE k = n + 1
      BY <1>1, <3>1, <3>2
    <3>3. CASE k \in 1..n
      <4>1. n + 1 \in (k + 1)..(n + 1) /\ (k + 1)..n \subseteq (k + 1)..(n + 1)
            /\ (k + 1)..n \subseteq 1..n
        BY <1>1, <3>3
      <4>2. ~Ends(move) /\ Reserves(trail[o][k])
        BY <1>1, <3>1, <3>3, <4>1
      <4>3. \A later \in (k + 1)..n : ~Ends(trail[o][later])
        BY <1>1, <3>1, <4>1
      <4> QED
        BY <3>3, <4>2, <4>3
    <3> QED
      BY <1>1, <3>1, <3>2, <3>3
  <2>2. ASSUME NEW k \in added PROVE k \in after
    <3>1. k = n + 1 /\ Reserves(move)
      BY <2>2
    <3>2. k \in 1..(n + 1) /\ (k + 1)..(n + 1) = {}
      BY <1>1, <3>1
    <3> QED
      BY <1>1, <3>1, <3>2
  <2>3. ASSUME NEW k \in kept PROVE k \in after
    <3>1. ~Ends(move) /\ k \in 1..n /\ Reserves(trail[o][k])
          /\ \A later \in (k + 1)..n : ~Ends(trail[o][later])
      BY <2>3
    <3>2. k \in 1..(n + 1) /\ (k + 1)..n \subseteq 1..n
          /\ \A later \in (k + 1)..(n + 1) : later \in (k + 1)..n \/ later = n + 1
      BY <1>1, <3>1
    <3>3. \A later \in (k + 1)..(n + 1) : ~Ends(trail'[o][later])
      BY <1>1, <3>1, <3>2
    <3> QED
      BY <1>1, <3>1, <3>2, <3>3
  <2> HIDE DEF after, kept, added
  <2> QED
    BY <2>1, <2>2, <2>3
<1>5. \A k \in standing : k \in 1..n
  OBVIOUS
<1> HIDE DEF after, standing, n
<1>6. CASE Ends(move)
  BY <1>1, <1>3, <1>4, <1>6
<1>7. CASE ~Ends(move) /\ Reserves(move)
  <2>1. after = standing \cup {n + 1}
    BY <1>4, <1>7
  <2>2. \A k \in standing : trail'[o][k] = trail[o][k]
    BY <1>1, <1>5
  <2>3. trail'[o][n + 1] = move /\ (n + 1) - 1 = n
    BY <1>1
  <2>4. Due(o)' = Due(o) \cup RowsFor(move.lines, n)
    BY <1>2, <1>3, <2>1, <2>2, <2>3
  <2> QED
    BY <1>7, <2>4 DEF n
<1>8. CASE ~Ends(move) /\ ~Reserves(move)
  <2>1. after = standing
    BY <1>4, <1>8
  <2>2. \A k \in standing : trail'[o][k] = trail[o][k]
    BY <1>1, <1>5
  <2>3. Due(o)' = Due(o)
    BY <1>2, <1>3, <2>1, <2>2
  <2> QED
    BY <1>8, <2>3
<1> QED
  BY <1>6, <1>7, <1>8

\* A move keeps the account if it does to the order's own rows what it records.
LEMMA HoldingsAfterMove ==
  ASSUME BookTypes, HoldingsFollowTheTrail, NEW o \in Orders, NEW move \in MoveRecord,
         trail'[o] = Append(trail[o], move), ~(Reserves(move) /\ Ends(move)),
         Own(o)' = (IF Ends(move) THEN {} ELSE Own(o))
                   \cup (IF Reserves(move) THEN RowsFor(move.lines, Len(trail[o])) ELSE {}),
         \A p \in Orders : p # o => trail'[p] = trail[p] /\ HeldBy(p)' = HeldBy(p)
  PROVE  HoldingsFollowTheTrail'
<1>1. trail[o] \in Seq(MoveRecord)
  BY DEF BookTypes
<1>2. Due(o)' = (IF Ends(move) THEN {} ELSE Due(o))
                \cup (IF Reserves(move) THEN RowsFor(move.lines, Len(trail[o])) ELSE {})
  BY <1>1, DueAfterMove
<1>3. \A p \in Orders : Own(p) \subseteq Due(p) /\ (p \notin Releasing => Due(p) \subseteq Own(p))
  BY DEF HoldingsFollowTheTrail, Own
<1>4. ASSUME NEW p \in Orders
      PROVE  Own(p)' \subseteq Due(p)' /\ (p \notin Releasing => Due(p)' \subseteq Own(p)')
  <2>1. CASE p = o
    <3>1. Own(o)' \subseteq Due(o)' /\ (o \notin Releasing => Due(o)' \subseteq Own(o)')
      BY <1>2, <1>3
    <3> QED
      BY <2>1, <3>1
  <2>2. CASE p # o
    <3>1. trail'[p] = trail[p] /\ HeldBy(p)' = HeldBy(p)
      BY <2>2
    <3>2. Due(p)' = Due(p)
      BY <3>1 DEF Due
    <3>3. Own(p)' = Own(p)
      BY <3>1 DEF Own
    <3> QED
      BY <1>3, <3>2, <3>3
  <2> QED
    BY <2>1, <2>2
<1> QED
  BY <1>4 DEF HoldingsFollowTheTrail, Own

\* Nothing but a release takes an order's own rows without a move.
LEMMA HoldingsStay ==
  ASSUME HoldingsFollowTheTrail, trail' = trail,
         \A o \in Orders : Own(o)' \subseteq Own(o) /\ (o \notin Releasing => Own(o)' = Own(o))
  PROVE  HoldingsFollowTheTrail'
<1>1. ASSUME NEW o \in Orders
      PROVE  Own(o)' \subseteq Due(o)' /\ (o \notin Releasing => Due(o)' \subseteq Own(o)')
  <2>1. Due(o)' = Due(o)
    BY DEF Due
  <2>2. Own(o) \subseteq Due(o) /\ (o \notin Releasing => Due(o) \subseteq Own(o))
    BY DEF HoldingsFollowTheTrail, Own
  <2> QED
    BY <2>1, <2>2
<1> QED
  BY <1>1 DEF HoldingsFollowTheTrail, Own

-----------------------------------------------------------------------------
(* The moves that commit.                                                  *)

\* The status and the trail of a move.
LEMMA MovedTrail ==
  ASSUME IInv, NEW w \in Workers, pc[w] = "levels", job[w].kind = "move", Moved(w),
         NEW o, o = job[w].order, NEW to, to = job[w].to,
         NEW move, move = [from |-> status[o], to |-> to,
                           stocked |-> job[w].applyStock, lines |-> lines[o]]
  PROVE  /\ Moves(o, to, job[w].applyStock)
         /\ status' \in [Orders -> Statuses]
         /\ trail' \in [Orders -> Seq(MoveRecord)]
         /\ move \in MoveRecord /\ trail'[o] = Append(trail[o], move)
         /\ \A p \in Orders : p # o => status'[p] = status[p] /\ trail'[p] = trail[p]
         /\ Len(trail'[o]) = Len(trail[o]) + 1
         /\ \A p \in Orders : Len(trail[p]) <= Len(trail'[p])
         /\ UNCHANGED <<lines, writes, shortfall>>
         /\ EndTransaction(w)
         /\ move.from = status[o] /\ move.to = to /\ move.stocked = job[w].applyStock
         /\ move.lines = lines[o]
<1>1. /\ o \in Orders /\ to \in Statuses /\ job[w].from = status[o] /\ CanTransition(status[o], to)
      /\ job[w].applyStock \in BOOLEAN
  BY MoveKnows
<1>2. /\ status \in [Orders -> Statuses] /\ trail \in [Orders -> Seq(MoveRecord)]
      /\ lines[o] \in SUBSET LineRecord
  BY <1>1 DEF IInv, BookTypes
<1>3. status' = [status EXCEPT ![o] = to] /\ trail' = [trail EXCEPT ![o] = Append(@, move)]
      /\ UNCHANGED <<lines, writes, shortfall>> /\ EndTransaction(w)
  BY <1>1 DEF Moved
<1>4. move \in MoveRecord /\ trail[o] \in Seq(MoveRecord)
  BY <1>1, <1>2 DEF MoveRecord
<1>5. trail'[o] = Append(trail[o], move) /\ \A p \in Orders : p # o => trail'[p] = trail[p]
  BY <1>1, <1>2, <1>3
<1>6. Append(trail[o], move) \in Seq(MoveRecord)
      /\ Len(Append(trail[o], move)) = Len(trail[o]) + 1
      /\ Len(trail[o]) \in Nat
  BY <1>4
<1>7. /\ status' \in [Orders -> Statuses]
      /\ trail' \in [Orders -> Seq(MoveRecord)]
      /\ \A p \in Orders : p # o => status'[p] = status[p]
  BY <1>1, <1>2, <1>3, <1>6
<1>8. \A p \in Orders : Len(trail[p]) <= Len(trail'[p])
  <2>1. \A p \in Orders : Len(trail[p]) \in Nat
    BY <1>2
  <2> QED
    BY <2>1, <1>5, <1>6
<1>9. Moves(o, to, job[w].applyStock)
  BY <1>1, <1>3 DEF Moves
<1>10. move.from = status[o] /\ move.to = to /\ move.stocked = job[w].applyStock
       /\ move.lines = lines[o]
  OBVIOUS
<1> QED
  BY <1>3, <1>4, <1>5, <1>6, <1>7, <1>8, <1>9, <1>10

\* The book after a step that is one of the atomic book, or a race.
LEMMA BackedAfter ==
  ASSUME IInv, BookTypes', raced => raced', raced' \/ BookNext
  PROVE  BackedUntilRaced'
<1> SUFFICES ASSUME NEW v \in Variants
             PROVE  /\ stock'[v].onHand >= 0
                    /\ raced' \/ Backed(v)'
  BY DEF BackedUntilRaced, Backed
<1>1. stock'[v].onHand >= 0
  BY DEF BookTypes, Levels
<1>2. ASSUME ~raced' PROVE Backed(v)'
  <2>1. Backed(v)
    BY <1>2 DEF IInv, BackedUntilRaced, Backed
  <2>2. BookTypes /\ BookNext
    BY <1>2 DEF IInv
  <2> QED
    BY <2>1, <2>2, BookKeepsBacked
<1> QED
  BY <1>1, <1>2

\* The rows of the trail that a move leaves, and its own, are written after it.
LEMMA MovedRowsWritten ==
  ASSUME BookTypes, NEW o \in Orders, writes' = writes,
         trail' \in [Orders -> Seq(MoveRecord)], Len(trail'[o]) = Len(trail[o]) + 1,
         \A p \in Orders : Len(trail[p]) <= Len(trail'[p]),
         NEW rows, \A r \in rows : r.order = o /\ r.at = Len(trail[o]) /\ r.place # 0,
         active' \subseteq active \cup rows
  PROVE  Written(active)'
<1> SUFFICES ASSUME NEW r \in active'
             PROVE  IF r.place = 0 THEN r.batch <= writes'
                    ELSE r.order \in Orders /\ r.at < Len(trail'[r.order])
  BY DEF Written
<1>1. \A p \in Orders : Len(trail[p]) \in Nat /\ Len(trail'[p]) \in Nat
  BY DEF BookTypes
<1>2. CASE r \in active
  <2>1. /\ r.at \in Nat
        /\ IF r.place = 0 THEN r.batch <= writes ELSE r.order \in Orders /\ r.at < Len(trail[r.order])
    BY <1>2 DEF BookTypes, Written, ReservationRow
  <2> QED
    BY <1>1, <2>1
<1>3. CASE r \in rows
  BY <1>1, <1>3
<1> QED
  BY <1>2, <1>3

\* The invariant after a step of the book that ends w's transaction.
LEMMA CommitKeeps ==
  ASSUME IInv, NEW w \in Workers, EndTransaction(w), BookTypes', HoldingsFollowTheTrail',
         raced => raced', raced' \/ BookNext,
         \A v \in Variants : levelLock[v] \notin {w, Nobody} => stock'[v] = stock[v],
         \A o \in Orders : orderLock[o] \notin {w, Nobody} =>
           /\ status'[o] = status[o] /\ lines'[o] = lines[o]
           /\ HeldBy(o)' \subseteq HeldBy(o),
         \A o \in Orders : Len(trail[o]) <= Len(trail'[o]), writes <= writes',
         \A r \in active' \ active : ~Written({r})
  PROVE  IInv'
<1>1. BackedUntilRaced'
  BY BackedAfter
<1>2. Types' /\ WorkersInv'
  BY CommitFrame
<1> QED
  BY <1>1, <1>2 DEF IInv

\* The invariant after a move, from what its order holds then.
LEMMA MovedKeeps ==
  ASSUME IInv, NEW w \in Workers, pc[w] = "levels", job[w].kind = "move", Moved(w),
         NEW o, o = job[w].order, NEW to, to = job[w].to,
         stock' \in Levels, \A v \in Variants : levelLock[v] # w => stock'[v] = stock[v],
         active' \subseteq active \cup RowsFor(lines[o], Len(trail[o])),
         \A p \in Orders : p # o => HeldBy(p)' = HeldBy(p),
         HoldingsFollowTheTrail',
         raced' \in BOOLEAN, raced => raced', raced' \/ BookNext
  PROVE  IInv'
<1>1. o \in Orders /\ orderLock[o] = w /\ to \in Statuses
  BY MoveKnows
<1>2. PICK move : move = [from |-> status[o], to |-> to,
                          stocked |-> job[w].applyStock, lines |-> lines[o]]
  OBVIOUS
<1>15. /\ status' \in [Orders -> Statuses]
       /\ trail' \in [Orders -> Seq(MoveRecord)]
       /\ \A p \in Orders : p # o => status'[p] = status[p]
       /\ Len(trail'[o]) = Len(trail[o]) + 1
       /\ \A p \in Orders : Len(trail[p]) <= Len(trail'[p])
       /\ UNCHANGED <<lines, writes, shortfall>> /\ EndTransaction(w)
  BY <1>2, MovedTrail
<1>3. BookTypes
  BY DEF IInv
<1> DEFINE rows == RowsFor(lines[o], Len(trail[o]))
<1>4. \A r \in rows : r \in ReservationRow /\ r.order = o /\ r.at = Len(trail[o]) /\ r.place # 0
  <2>1. Len(trail[o]) \in Nat
    BY <1>1, <1>3 DEF BookTypes
  <2>2. ASSUME NEW l \in lines[o]
        PROVE  /\ Reservation(l, Len(trail[o])) \in ReservationRow
               /\ Reservation(l, Len(trail[o])).order = o
               /\ Reservation(l, Len(trail[o])).at = Len(trail[o])
               /\ Reservation(l, Len(trail[o])).place # 0
    BY <1>1, <1>3, <2>1 DEF Reservation, BookTypes, LinesTyped, LineRecord, ReservationRow
  <2> QED
    BY <2>2 DEF RowsFor
<1>5. IsFiniteSet(rows)
  BY <1>1, <1>3, LinesQuantified, UnitsOfRows DEF Quantified
<1>6. BookTypes'
  <2>1. IsFiniteSet(active')
    <3>1. IsFiniteSet(active)
      BY <1>3 DEF BookTypes
    <3> HIDE DEF rows
    <3>2. IsFiniteSet(active \cup rows)
      BY <1>5, <3>1, FS_Union
    <3> QED
      BY <3>2, FS_Subset DEF rows
  <2>2. active' \subseteq ReservationRow
    BY <1>3, <1>4 DEF BookTypes
  <2>3. Written(active)'
    <3> HIDE DEF rows
    <3>1. active' \subseteq active \cup rows /\ writes' = writes
      BY <1>15 DEF rows
    <3>2. \A r \in rows : r.order = o /\ r.at = Len(trail[o]) /\ r.place # 0
      BY <1>4
    <3> QED
      BY <1>1, <1>3, <1>15, <3>1, <3>2, MovedRowsWritten
  <2>4. lines' \in [Orders -> SUBSET LineRecord] /\ LinesTyped' /\ writes' \in Nat
        /\ shortfall' \in [Variants -> Nat]
    BY <1>3, <1>15 DEF BookTypes, LinesTyped
  <2> QED
    BY <1>15, <2>1, <2>2, <2>3, <2>4 DEF BookTypes, Written
<1>8. ASSUME NEW p \in Orders, orderLock[p] \notin {w, Nobody}
      PROVE  status'[p] = status[p] /\ lines'[p] = lines[p] /\ HeldBy(p)' \subseteq HeldBy(p)
  BY <1>1, <1>8, <1>15
<1>9. \A r \in active' \ active : ~Written({r})
  <2>1. Len(trail[o]) \in Nat
    BY <1>1, <1>3 DEF BookTypes
  <2>2. ASSUME NEW r \in active' \ active PROVE r.place # 0 /\ ~(r.at < Len(trail[r.order]))
    BY <1>4, <2>1, <2>2
  <2> QED
    BY <2>2 DEF Written
<1>10. writes <= writes'
  BY <1>3, <1>15 DEF BookTypes
<1> QED
  BY <1>6, <1>8, <1>9, <1>10, <1>15, CommitKeeps

LEMMA CommitReserveKeeps ==
  ASSUME IInv, NEW w \in Workers, CommitReserve(w)
  PROVE  IInv' /\ BookNext
<1>1. PICK o, to : o = job[w].order /\ to = job[w].to
  OBVIOUS
<1> DEFINE L == lines[o]
           T == taken[w]
<1>2. /\ pc[w] = "levels" /\ todo[w] = {} /\ job[w].effect = "reserve"
      /\ Shortages(T, view[w]) = {}
      /\ stock' = [v \in Variants |->
           IF levelLock[v] = w
           THEN [v2 \in Variants |-> [view[w][v2] EXCEPT !.committed = @ + Units(T, v2)]][v]
           ELSE stock[v]]
      /\ active' = active \cup RowsFor(T, Len(trail[o]))
      /\ raced' = raced
      /\ Moved(w)
  BY <1>1 DEF CommitReserve, Published
<1>3. JobOK(w) /\ Reserving(w)
  BY DEF IInv, WorkersInv, WorkerOK
<1>4. job[w].kind = "move"
  BY <1>2, <1>3 DEF JobOK, MoveLocked, ReleaseJob
<1>5. /\ o \in Orders /\ to \in Statuses /\ job[w].from = status[o] /\ status[o] \in Statuses
      /\ CanTransition(status[o], to) /\ StockEffectOf(status[o], to) = "reserve"
      /\ job[w].applyStock = TRUE
  BY <1>1, <1>2, <1>4, MoveKnows DEF IInv, BookTypes
<1>7. /\ T = L /\ \A l \in L : levelLock[l.variant] = w
      /\ \A v \in Variants : levelLock[v] = w => view[w][v] = stock[v]
  BY <1>1, <1>2, <1>3 DEF Reserving
<1> DEFINE move == [from |-> status[o], to |-> to, stocked |-> job[w].applyStock, lines |-> lines[o]]
<1>8. /\ Moves(o, to, TRUE) /\ move \in MoveRecord /\ trail'[o] = Append(trail[o], move)
      /\ \A p \in Orders : p # o => trail'[p] = trail[p]
      /\ move.from = status[o] /\ move.to = to /\ move.stocked = TRUE /\ move.lines = L
  <2>1. /\ Moves(o, to, job[w].applyStock) /\ move \in MoveRecord
        /\ trail'[o] = Append(trail[o], move)
        /\ \A p \in Orders : p # o => trail'[p] = trail[p]
        /\ move.from = status[o] /\ move.to = to /\ move.stocked = job[w].applyStock
        /\ move.lines = L
    BY <1>1, <1>2, <1>4, MovedTrail
  <2> HIDE DEF move, L
  <2>2. Moves(o, to, TRUE)
    BY <1>5, <2>1, Zenon
  <2> QED
    BY <1>5, <2>1, <2>2
<1> HIDE DEF move
<1>9. \A v \in Variants : levelLock[v] # w => Units(L, v) = 0
  BY <1>7, UnitsOfNone
<1>10. \A v \in Variants : Units(L, v) \in Nat
  BY <1>5, LinesQuantified, UnitsNat DEF IInv
<1>11. Shortages(L, stock) = {}
  BY <1>2, <1>7, <1>9 DEF Shortages
<1>12. \A v \in Variants : stock[v] \in [onHand: Nat, committed: Nat]
  BY DEF IInv, BookTypes, Levels
<1>13. ASSUME NEW v \in Variants
       PROVE  stock'[v] = [stock[v] EXCEPT !.committed = @ + Units(L, v)]
  <2> HIDE DEF L
  <2>1. CASE levelLock[v] = w
    BY <1>2, <1>7, <2>1
  <2>2. CASE levelLock[v] # w
    <3>1. stock'[v] = stock[v] /\ Units(L, v) = 0
      BY <1>2, <1>9, <2>2
    <3> QED
      BY <3>1, <1>12
  <2> QED
    BY <2>1, <2>2
<1>14. stock' = [v \in Variants |-> [stock[v] EXCEPT !.committed = @ + Units(L, v)]]
  BY <1>2, <1>13
<1>15. active' = active \cup RowsFor(L, Len(trail[o]))
  BY <1>2, <1>7
<1>16. BookReserve(o, to)
  BY <1>5, <1>8, <1>11, <1>14, <1>15 DEF BookReserve
<1>17. BookNext
  BY <1>5, <1>16 DEF BookNext
<1>18. stock' \in Levels
  BY <1>10, <1>12, <1>14 DEF Levels
<1>19. \A r \in RowsFor(L, Len(trail[o])) : r.order = o /\ r.place # 0
  <2>1. \A l \in L : l.order = o /\ l.place # 0
    BY <1>5 DEF IInv, BookTypes, LinesTyped, LineRecord
  <2> QED
    BY <2>1 DEF RowsFor, Reservation
<1>20. \A p \in Orders : p # o => HeldBy(p)' = HeldBy(p)
  BY <1>15, <1>19 DEF HeldBy
<1>21. HoldingsFollowTheTrail'
  <2>1. Reserves(move) /\ ~Ends(move)
    BY <1>5, <1>8, MovesMean
  <2>2. Own(o)' = Own(o) \cup RowsFor(L, Len(trail[o]))
    BY <1>15, <1>19 DEF Own, HeldBy
  <2>3. BookTypes /\ HoldingsFollowTheTrail
    BY DEF IInv
  <2> QED
    BY <1>5, <1>8, <1>20, <2>1, <2>2, <2>3, HoldingsAfterMove
<1>22. \A v \in Variants : levelLock[v] # w => stock'[v] = stock[v]
  BY <1>2
<1>23. raced' \in BOOLEAN
  BY <1>2 DEF IInv, BookTypes
<1>24. IInv'
  BY <1>1, <1>2, <1>4, <1>15, <1>17, <1>18, <1>20, <1>21, <1>22, <1>23, MovedKeeps
<1> QED
  BY <1>17, <1>24

LEMMA ExceptBoth ==
  ASSUME NEW level \in [onHand: Nat, committed: Nat], NEW c \in Int, NEW d \in Int
  PROVE  [level EXCEPT !.committed = c, !.onHand = d] = [onHand |-> d, committed |-> c]
<1> DEFINE m == [level EXCEPT !.committed = c, !.onHand = d]
<1>1. m \in [onHand: Int, committed: Int]
  OBVIOUS
<1>2. m.onHand = d /\ m.committed = c
  OBVIOUS
<1> HIDE DEF m
<1>3. m = [onHand |-> d, committed |-> c]
  BY <1>1, <1>2
<1> QED
  BY <1>3 DEF m

LEMMA LessIsExcept ==
  ASSUME NEW level \in [onHand: Nat, committed: Nat], NEW n \in Nat
  PROVE  /\ Less(level, n, "release") = [level EXCEPT !.committed = @ - n]
         /\ Less(level, n, "ship") = [level EXCEPT !.committed = @ - n, !.onHand = @ - n]
<1>1. PICK c, d : c = level.committed - n /\ d = level.onHand - n
  OBVIOUS
<1>2. c \in Int /\ d \in Int
  BY <1>1
<1>3. [level EXCEPT !.committed = c, !.onHand = d] = [onHand |-> d, committed |-> c]
  BY <1>2, ExceptBoth
<1>4. [level EXCEPT !.committed = @ - n, !.onHand = @ - n] = [level EXCEPT !.committed = c, !.onHand = d]
  BY <1>1, Zenon
<1>5. Less(level, n, "ship") = [onHand |-> d, committed |-> c]
  BY <1>1 DEF Less
<1>6. Less(level, n, "release") = [level EXCEPT !.committed = @ - n]
  BY DEF Less
<1> QED
  BY <1>3, <1>4, <1>5, <1>6

LEMMA CommitPlainMoveKeeps ==
  ASSUME IInv, NEW w \in Workers, CommitMove(w), job[w].effect = "none"
  PROVE  IInv' /\ BookNext
<1>1. PICK o, to, stocked : o = job[w].order /\ to = job[w].to /\ stocked = job[w].applyStock
  OBVIOUS
<1>2. /\ pc[w] = "levels" /\ todo[w] = {} /\ job[w].kind = "move"
      /\ stock' = [v \in Variants |-> IF levelLock[v] = w THEN view[w][v] ELSE stock[v]]
      /\ active' = active \ taken[w]
      /\ raced' = (raced \/ ~(taken[w] \subseteq active))
      /\ Moved(w)
  BY DEF CommitMove, Published
<1>3. RowsRead(w) /\ ViewOK(w)
  BY DEF IInv, WorkersInv, WorkerOK
<1>4. taken[w] = {} /\ \A v \in Variants : levelLock[v] # w
  BY <1>2, <1>3 DEF RowsRead, ViewOK
<1>5. /\ o \in Orders /\ to \in Statuses /\ CanTransition(status[o], to)
      /\ stocked \in BOOLEAN /\ (stocked => StockEffectOf(status[o], to) = "none")
  BY <1>1, <1>2, MoveKnows
<1>6. BookTypes /\ HoldingsFollowTheTrail /\ stock \in Levels /\ status[o] \in Statuses
  BY <1>5 DEF IInv, BookTypes
<1>7. stock' = stock /\ active' = active /\ raced' = raced
  BY <1>2, <1>4, <1>6 DEF Levels, BookTypes
<1> DEFINE move == [from |-> status[o], to |-> to, stocked |-> job[w].applyStock, lines |-> lines[o]]
<1>8. /\ Moves(o, to, stocked) /\ move \in MoveRecord /\ trail'[o] = Append(trail[o], move)
      /\ \A p \in Orders : p # o => trail'[p] = trail[p]
      /\ move.from = status[o] /\ move.to = to /\ move.stocked = stocked
  BY <1>1, <1>2, MovedTrail
<1> HIDE DEF move
<1>9. BookMove(o, to, stocked)
  BY <1>5, <1>7, <1>8 DEF BookMove
<1>10. BookNext
  <2>1. \E s \in BOOLEAN : BookMove(o, to, s)
    BY <1>5, <1>9
  <2> QED
    BY <1>5, <2>1 DEF BookNext
<1>11. \A p \in Orders : HeldBy(p)' = HeldBy(p)
  BY <1>7 DEF HeldBy
<1>12. HoldingsFollowTheTrail'
  <2>1. ~Reserves(move) /\ ~Ends(move)
    BY <1>5, <1>6, <1>8, MovesMean
  <2>2. Own(o)' = Own(o)
    BY <1>7 DEF Own, HeldBy
  <2> QED
    BY <1>5, <1>6, <1>8, <1>11, <2>1, <2>2, HoldingsAfterMove
<1>13. stock' \in Levels /\ \A v \in Variants : stock'[v] = stock[v]
  BY <1>6, <1>7
<1>14. active' \subseteq active \cup RowsFor(lines[o], Len(trail[o]))
  BY <1>7
<1>15. raced' \in BOOLEAN
  BY <1>6, <1>7 DEF BookTypes
<1>16. IInv'
  BY <1>1, <1>2, <1>7, <1>10, <1>11, <1>12, <1>13, <1>14, <1>15, MovedKeeps
<1> QED
  BY <1>10, <1>16

LEMMA CommitConsumingMoveKeeps ==
  ASSUME IInv, NEW w \in Workers, CommitMove(w), job[w].effect # "none"
  PROVE  IInv' /\ (raced' \/ BookNext)
<1>1. PICK o, to, T, effect :
        o = job[w].order /\ to = job[w].to /\ T = taken[w] /\ effect = job[w].effect
  OBVIOUS
<1>2. /\ pc[w] = "levels" /\ todo[w] = {} /\ job[w].kind = "move" /\ effect # "reserve"
      /\ stock' = [v \in Variants |-> IF levelLock[v] = w THEN view[w][v] ELSE stock[v]]
      /\ active' = active \ T
      /\ raced' = (raced \/ ~(T \subseteq active))
      /\ Moved(w)
  BY <1>1 DEF CommitMove, Published
<1>3. RowsRead(w) /\ ViewOK(w)
  BY DEF IInv, WorkersInv, WorkerOK
<1>4. /\ o \in Orders /\ to \in Statuses /\ CanTransition(status[o], to)
      /\ effect \in {"ship", "release"} /\ effect = StockEffectOf(status[o], to)
      /\ job[w].applyStock = TRUE
  BY <1>1, <1>2, MoveKnows DEF Effects
<1>5. Consuming(w)
  BY <1>1, <1>2, <1>4 DEF Consuming
<1>6. /\ \A r \in T : levelLock[r.variant] = w
      /\ \A r \in T : r.order = o
      /\ HeldBy(o) \subseteq T
  BY <1>1, <1>2, <1>3, <1>5 DEF RowsRead
<1>7. BookTypes /\ HoldingsFollowTheTrail /\ status[o] \in Statuses
  BY <1>4 DEF IInv, BookTypes
<1>8. view \in [Workers -> Levels] /\ stock \in Levels
  BY DEF IInv, Types, BookTypes
<1>9. stock' \in Levels /\ \A v \in Variants : levelLock[v] # w => stock'[v] = stock[v]
  BY <1>2, <1>8 DEF Levels
<1>10. HeldBy(o)' = {} /\ \A p \in Orders : p # o => HeldBy(p)' = HeldBy(p)
  BY <1>2, <1>6 DEF HeldBy
<1> DEFINE move == [from |-> status[o], to |-> to, stocked |-> job[w].applyStock, lines |-> lines[o]]
<1>11. /\ Moves(o, to, TRUE) /\ move \in MoveRecord /\ trail'[o] = Append(trail[o], move)
       /\ \A p \in Orders : p # o => trail'[p] = trail[p]
       /\ move.from = status[o] /\ move.to = to /\ move.stocked = TRUE
  <2>1. /\ Moves(o, to, job[w].applyStock) /\ move \in MoveRecord
        /\ trail'[o] = Append(trail[o], move)
        /\ \A p \in Orders : p # o => trail'[p] = trail[p]
        /\ move.from = status[o] /\ move.to = to /\ move.stocked = job[w].applyStock
    BY <1>1, <1>2, MovedTrail
  <2> HIDE DEF move
  <2>2. Moves(o, to, TRUE)
    BY <1>4, <2>1, Zenon
  <2> QED
    BY <1>4, <2>1, <2>2
<1> HIDE DEF move
<1>12. raced' = (raced \/ ~(T \subseteq active)) /\ raced \in BOOLEAN
  BY <1>2 DEF IInv, BookTypes
<1>14. ASSUME ~raced' PROVE BookNext
  <2>1. ~raced /\ T \subseteq active
    BY <1>12, <1>14
  <2>2. T = HeldBy(o)
    BY <1>6, <2>1 DEF HeldBy
  <2>3. Quantified(T)
    BY <2>1, ActiveQuantified DEF IInv
  <2>4. ASSUME NEW v \in Variants PROVE stock'[v] = Less(stock[v], Units(T, v), effect)
    <3>1. CASE levelLock[v] = w
      <4>1. view[w][v] = Less(stock[v], Units(taken[w], v), job[w].effect)
        BY <3>1, <2>1, <1>1, <1>3, <1>5 DEF ViewOK
      <4> QED
        BY <1>1, <1>2, <3>1, <4>1
    <3>2. CASE levelLock[v] # w
      <4>1. Units(T, v) = 0
        BY <3>2, <1>6, UnitsOfNone
      <4>2. stock[v] \in [onHand: Nat, committed: Nat] /\ stock'[v] = stock[v]
        BY <3>2, <1>8, <1>9 DEF Levels
      <4> QED
        BY <4>1, <4>2 DEF Less
    <3> QED
      BY <3>1, <3>2
  <2>5. \A v \in Variants : stock[v] \in [onHand: Nat, committed: Nat] /\ Units(T, v) \in Nat
    BY <1>8, <2>3, UnitsNat DEF Levels
  <2>6. \A v \in Variants : stock'[v] = Less(stock[v], Units(HeldBy(o), v), effect)
    BY <2>2, <2>4
  <2>7. stock' = [v \in Variants |-> stock'[v]]
    BY <1>2
  <2>8. CASE effect = "ship"
    <3>1. ASSUME NEW v \in Variants
          PROVE  stock'[v] = [stock[v] EXCEPT !.committed = @ - Units(HeldBy(o), v),
                                              !.onHand = @ - Units(HeldBy(o), v)]
      BY <2>2, <2>5, <2>6, <2>8, LessIsExcept
    <3>2. stock' = [v \in Variants |-> [stock[v] EXCEPT !.committed = @ - Units(HeldBy(o), v),
                                                        !.onHand = @ - Units(HeldBy(o), v)]]
      BY <2>7, <3>1, Zenon
    <3>3. BookShip(o, to)
      BY <1>2, <1>4, <1>11, <2>2, <2>8, <3>2 DEF BookShip
    <3> QED
      BY <1>4, <3>3 DEF BookNext
  <2>9. CASE effect = "release"
    <3>1. ASSUME NEW v \in Variants
          PROVE  stock'[v] = [stock[v] EXCEPT !.committed = @ - Units(HeldBy(o), v)]
      BY <2>2, <2>5, <2>6, <2>9, LessIsExcept
    <3>2. stock' = [v \in Variants |-> [stock[v] EXCEPT !.committed = @ - Units(HeldBy(o), v)]]
      BY <2>7, <3>1, Zenon
    <3>3. BookRelease(o, to)
      BY <1>2, <1>4, <1>11, <2>2, <2>9, <3>2 DEF BookRelease
    <3> QED
      BY <1>4, <3>3 DEF BookNext
  <2> QED
    BY <1>4, <2>8, <2>9
<1>15. HoldingsFollowTheTrail'
  <2>1. ~Reserves(move) /\ Ends(move)
    BY <1>4, <1>7, <1>11, MovesMean
  <2>2. Own(o)' = {}
    BY <1>10 DEF Own
  <2> QED
    BY <1>4, <1>7, <1>10, <1>11, <2>1, <2>2, HoldingsAfterMove
<1>16. raced' \/ BookNext
  BY <1>14
<1>17. active' \subseteq active \cup RowsFor(lines[o], Len(trail[o]))
  BY <1>2
<1>18. raced' \in BOOLEAN /\ (raced => raced')
  BY <1>12
<1>19. IInv'
  BY <1>1, <1>2, <1>9, <1>10, <1>15, <1>16, <1>17, <1>18, MovedKeeps
<1> QED
  BY <1>16, <1>19

LEMMA CommitReleaseKeeps ==
  ASSUME IInv, NEW w \in Workers, CommitRelease(w)
  PROVE  IInv' /\ (raced' \/ BookNext)
<1>1. /\ pc[w] = "levels" /\ todo[w] = {} /\ job[w].kind = "release" /\ taken[w] \subseteq active
      /\ stock' = [v \in Variants |-> IF levelLock[v] = w THEN view[w][v] ELSE stock[v]]
      /\ active' = active \ taken[w]
      /\ EndTransaction(w)
      /\ UNCHANGED <<status, lines, trail, writes, shortfall, raced>>
  BY DEF CommitRelease, Published
<1>2. JobOK(w) /\ RowsRead(w) /\ ViewOK(w)
  BY DEF IInv, WorkersInv, WorkerOK
<1>3. job[w].effect = "release" /\ Consuming(w)
  BY <1>1, <1>2 DEF JobOK, MoveLocked, ReleaseJob, Consuming
<1>4. PICK r : r.order \in Releasing \cup {NoOrder} /\ todo[w] \cup taken[w] = {r}
  BY <1>1, <1>2, <1>3 DEF RowsRead
<1>5. taken[w] = {r} /\ r \in active
  BY <1>1, <1>4
<1>6. r.variant \in Variants /\ r.qty \in Nat /\ levelLock[r.variant] = w
  BY <1>2, <1>3, <1>5 DEF RowsRead, IInv, BookTypes, ReservationRow
<1>7. /\ view \in [Workers -> Levels] /\ stock \in Levels
      /\ \A v \in Variants : stock[v] \in [onHand: Nat, committed: Nat]
  BY DEF IInv, Types, BookTypes, Levels
<1>8. stock' \in Levels /\ \A v \in Variants : levelLock[v] # w => stock'[v] = stock[v]
  BY <1>1, <1>7 DEF Levels
<1>9. BookTypes'
  BY <1>1, <1>8, FS_Subset DEF IInv, BookTypes, Written, LinesTyped
<1>10. ASSUME ~raced' PROVE BookNext
  <2>1. ASSUME NEW v \in Variants
        PROVE  stock'[v] = IF v = r.variant THEN [stock[v] EXCEPT !.committed = @ - r.qty]
                           ELSE stock[v]
    <3>1. Units({r}, v) = IF r.variant = v THEN r.qty ELSE 0
      BY <1>6, UnitsOfOne
    <3>2. levelLock[v] = w => stock'[v] = Less(stock[v], Units({r}, v), "release")
      BY <1>1, <1>2, <1>3, <1>5, <1>10 DEF ViewOK
    <3>3. CASE v = r.variant
      <4>1. Units({r}, v) = r.qty
        BY <3>1, <3>3
      <4>2. stock'[v] = Less(stock[v], r.qty, "release")
        BY <1>6, <3>2, <3>3, <4>1
      <4>3. Less(stock[v], r.qty, "release") = [stock[v] EXCEPT !.committed = @ - r.qty]
        BY <1>6, <1>7, LessIsExcept
      <4> QED
        BY <3>3, <4>2, <4>3
    <3>4. CASE v # r.variant
      <4>1. Less(stock[v], 0, "release") = stock[v]
        BY <1>7 DEF Less
      <4>2. Units({r}, v) = 0
        BY <3>1, <3>4
      <4>3. stock'[v] = stock[v]
        BY <1>8, <3>2, <4>1, <4>2
      <4> QED
        BY <3>4, <4>3
    <3> QED
      BY <3>3, <3>4
  <2>2. stock' = [v \in Variants |-> stock'[v]] /\ stock = [v \in Variants |-> stock[v]]
    BY <1>1, <1>7 DEF Levels
  <2>3. stock' = [stock EXCEPT ![r.variant].committed = @ - r.qty]
    <3> DEFINE after == [stock EXCEPT ![r.variant].committed = @ - r.qty]
    <3>1. \A v \in Variants : after[v] = IF v = r.variant THEN [stock[v] EXCEPT !.committed = @ - r.qty]
                                         ELSE stock[v]
      BY <1>6, <2>2
    <3>2. after = [v \in Variants |-> after[v]]
      BY <2>2
    <3> HIDE DEF after
    <3>3. \A v \in Variants : after[v] = stock'[v]
      BY <2>1, <3>1
    <3>4. stock' = after
      BY <2>2, <3>2, <3>3
    <3> QED
      BY <3>4 DEF after
  <2>4. BookFree(r)
    BY <1>1, <1>5, <2>3 DEF BookFree
  <2> QED
    BY <1>5, <2>4 DEF BookNext
<1>11. ASSUME NEW p \in Orders
       PROVE  HeldBy(p)' \subseteq HeldBy(p) /\ (p \notin Releasing => HeldBy(p)' = HeldBy(p))
  BY <1>1, <1>4, <1>5, OrderAssumption DEF HeldBy
<1>12. HoldingsFollowTheTrail'
  <2>1. \A p \in Orders : Own(p)' \subseteq Own(p) /\ (p \notin Releasing => Own(p)' = Own(p))
    BY <1>11 DEF Own
  <2> QED
    BY <1>1, <2>1, HoldingsStay DEF IInv
<1>13. (\A p \in Orders : Len(trail[p]) <= Len(trail'[p])) /\ writes <= writes'
  BY <1>1 DEF IInv, BookTypes
<1>14. IInv'
  BY <1>1, <1>8, <1>9, <1>10, <1>11, <1>12, <1>13, CommitKeeps
<1> QED
  BY <1>10, <1>14

-----------------------------------------------------------------------------
(* The other writers.                                                      *)

LEMMA BeginWriteKeeps ==
  ASSUME IInv, NEW w \in Workers, NEW kind, NEW what, BeginWrite(w, kind, what),
         [kind |-> kind, what |-> what] \in CountJob \cup AskJob
  PROVE  IInv'
<1>1. BookStays
  BY DEF BeginWrite, BookStays
<1>2. PICK j : j = [kind |-> kind, what |-> what] /\ j \in CountJob \cup AskJob
  OBVIOUS
<1>3. /\ pc[w] = "idle" /\ pc' = [pc EXCEPT ![w] = "lockLevel"] /\ job' = [job EXCEPT ![w] = j]
      /\ UNCHANGED <<todo, taken, view, orderLock, levelLock>>
  BY <1>2 DEF BeginWrite
<1>4. Types' /\ Aside(w)
  BY <1>3 DEF Types, IInv, Aside
<1>5. WorkerOK(w)'
  <2>1. WorkerOK(w)
    BY DEF IInv, WorkersInv
  <2>2. pc'[w] = "lockLevel" /\ job'[w] = j /\ todo'[w] = {} /\ taken'[w] = {}
        /\ (\A o \in Orders : orderLock'[o] # w) /\ (\A v \in Variants : levelLock'[v] # w)
    BY <1>3, <2>1 DEF IInv, Types, WorkerOK, JobOK, OrderLocked, ViewOK
  <2> QED
    BY <1>2, <2>2 DEF WorkerOK, JobOK, OrderLocked, Reserving, Asking, RowsRead, ViewOK, Consuming
<1> QED
  BY <1>1, <1>4, <1>5, QuietStep DEF IInv

LEMMA BeginEditKeeps ==
  ASSUME IInv, NEW w \in Workers, BeginEdit(w)
  PROVE  IInv'
<1>1. BookStays
  BY DEF BeginEdit, BookStays
<1>2. PICK edition \in Editions :
        /\ pc[w] = "idle"
        /\ job' = [job EXCEPT ![w] = [kind |-> "edit", what |-> edition]]
        /\ todo' = [todo EXCEPT ![w] = lines[edition.order]]
        /\ pc' = [pc EXCEPT ![w] = "edit"]
        /\ UNCHANGED <<taken, view, orderLock, levelLock>>
  BY DEF BeginEdit
<1>3. PICK j : j = [kind |-> "edit", what |-> edition] /\ j \in EditJob
  <2>1. [kind |-> "edit", what |-> edition] \in EditJob
    BY DEF EditJob
  <2> QED
    BY <2>1
<1>4. Types' /\ Aside(w)
  BY <1>2 DEF Types, IInv, Aside
<1>5. WorkerOK(w)'
  <2>1. WorkerOK(w)
    BY DEF IInv, WorkersInv
  <2>2. pc'[w] = "edit" /\ job'[w] = j /\ taken'[w] = {}
        /\ (\A o \in Orders : orderLock'[o] # w) /\ (\A v \in Variants : levelLock'[v] # w)
    BY <1>2, <1>3, <2>1 DEF IInv, Types, WorkerOK, JobOK, OrderLocked, ViewOK
  <2> QED
    BY <1>3, <2>2 DEF WorkerOK, JobOK, OrderLocked, Reserving, Asking, RowsRead, ViewOK, Consuming
<1> QED
  BY <1>1, <1>4, <1>5, QuietStep DEF IInv

\* The level a reservation was granted units of stays locked until it commits.
LEMMA LockAskedKeeps ==
  ASSUME IInv, NEW w \in Workers, LockAsked(w)
  PROVE  IInv'
<1>1. PICK j, v : j = job[w] /\ v = j.what.variant
  OBVIOUS
<1>2. /\ pc[w] = "lockLevel" /\ j.kind = "ask" /\ levelLock[v] = Nobody /\ Grants("ask", j.what)
      /\ levelLock' = [levelLock EXCEPT ![v] = w] /\ pc' = [pc EXCEPT ![w] = "insert"]
      /\ UNCHANGED <<job, todo, taken, view, orderLock, stock>> /\ BookStays
  BY <1>1 DEF LockAsked, BookStays, bookVars
<1>3. WorkerOK(w)
  BY DEF IInv, WorkersInv
<1>4. j \in AskJob /\ v \in Variants
  <2>1. j \in AskJob
    BY <1>1, <1>2, <1>3 DEF WorkerOK, JobOK, CountJob
  <2>2. j.what \in Asks
    BY <2>1 DEF AskJob
  <2> QED
    BY <1>1, <2>1, <2>2, OrderAssumption
<1>5. /\ levelLock' \in [Variants -> Workers \cup {Nobody}] /\ levelLock'[v] = w
      /\ \A x \in Variants : x # v => levelLock'[x] = levelLock[x]
      /\ \A u \in Workers \ {w}, x \in Variants : levelLock'[x] = u <=> levelLock[x] = u
  BY <1>2, <1>4, LockAside DEF IInv, LockLevel
<1>6. Types' /\ Aside(w)
  BY <1>2, <1>5 DEF Types, IInv, Aside
<1>7. WorkerOK(w)'
  <2>1. pc'[w] = "insert" /\ job'[w] = j /\ todo'[w] = {} /\ taken'[w] = {}
        /\ (\A o \in Orders : orderLock'[o] # w)
        /\ (\A x \in Variants : levelLock'[x] = w => x = v)
    BY <1>1, <1>2, <1>3, <1>5 DEF IInv, Types, WorkerOK, JobOK, OrderLocked, ViewOK
  <2>2. Grants("ask", j.what)'
    BY <1>1, <1>2 DEF Grants
  <2>3. Asking(w)'
    BY <1>1, <1>2, <1>5, <2>1, <2>2 DEF Asking, Grants
  <2> QED
    BY <1>1, <1>4, <2>1, <2>3 DEF WorkerOK, JobOK, OrderLocked, Reserving, RowsRead, ViewOK, Consuming
<1> QED
  BY <1>2, <1>6, <1>7, QuietStep DEF IInv

LEMMA CommitCountKeeps ==
  ASSUME IInv, NEW w \in Workers, CommitCount(w)
  PROVE  IInv' /\ BookNext
<1>1. PICK count : count = job[w].what
  OBVIOUS
<1>2. /\ pc[w] = "lockLevel" /\ job[w].kind = "count" /\ levelLock[count.variant] = Nobody
      /\ BookCount(count) /\ EndTransaction(w) /\ raced' = raced
  BY <1>1 DEF CommitCount
<1>3. count \in Counts /\ count.variant \in Variants /\ count.delta \in Int
  <2>1. JobOK(w)
    BY DEF IInv, WorkersInv, WorkerOK
  <2>2. count \in Counts
    BY <1>1, <1>2, <2>1 DEF JobOK, CountJob, AskJob
  <2> QED
    BY <2>2, OrderAssumption
<1>4. BookNext
  BY <1>2, <1>3 DEF BookNext
<1>5. BookTypes /\ HoldingsFollowTheTrail
  BY DEF IInv
<1>6. PICK v, onHand, short :
        /\ v = count.variant /\ onHand = stock[v].onHand + count.delta
        /\ short = IF onHand < stock[v].committed THEN stock[v].committed - onHand ELSE 0
  OBVIOUS
<1>7. /\ onHand >= 0 /\ stock' = [stock EXCEPT ![v].onHand = onHand]
      /\ shortfall' = [shortfall EXCEPT ![v] = short] /\ writes' = writes + 1
      /\ UNCHANGED <<status, lines, active, trail>>
  BY <1>2, <1>6 DEF BookCount
<1>8. /\ v \in Variants /\ stock[v] \in [onHand: Nat, committed: Nat]
      /\ stock \in [Variants -> [onHand: Nat, committed: Nat]] /\ writes \in Nat
  BY <1>3, <1>5, <1>6 DEF BookTypes, Levels
<1>9. onHand \in Nat /\ short \in Nat
  <2>1. onHand \in Int
    BY <1>3, <1>6, <1>8
  <2> QED
    BY <1>6, <1>7, <1>8, <2>1
<1>10. stock' \in Levels /\ \A x \in Variants : x # v => stock'[x] = stock[x]
  BY <1>7, <1>8, <1>9 DEF Levels
<1>11. Written(active)'
  <2>1. \A r \in active : IF r.place = 0 THEN r.batch <= writes + 1
                          ELSE r.order \in Orders /\ r.at < Len(trail[r.order])
    BY <1>5, <1>8 DEF BookTypes, Written, ReservationRow
  <2> QED
    BY <1>7, <2>1 DEF Written
<1>12. BookTypes'
  BY <1>2, <1>5, <1>7, <1>8, <1>9, <1>10, <1>11 DEF BookTypes, LinesTyped, Written
<1>13. \A p \in Orders : HeldBy(p)' = HeldBy(p) /\ Own(p)' = Own(p)
  BY <1>7 DEF HeldBy, Own
<1>14. HoldingsFollowTheTrail'
  BY <1>5, <1>7, <1>13, HoldingsStay
<1>15. (\A p \in Orders : Len(trail[p]) <= Len(trail'[p])) /\ writes <= writes'
  BY <1>5, <1>7, <1>8 DEF BookTypes
<1>16. \A x \in Variants : levelLock[x] \notin {w, Nobody} => stock'[x] = stock[x]
  BY <1>2, <1>6, <1>10
<1>17. IInv'
  BY <1>2, <1>4, <1>7, <1>12, <1>13, <1>14, <1>15, <1>16, CommitKeeps
<1> QED
  BY <1>4, <1>17

LEMMA CommitAskKeeps ==
  ASSUME IInv, NEW w \in Workers, CommitAsk(w)
  PROVE  IInv' /\ BookNext
<1>1. PICK ask, v : ask = job[w].what /\ v = ask.variant
  OBVIOUS
<1>2. /\ pc[w] = "insert" /\ (ask.order \in Orders => orderLock[ask.order] = Nobody)
      /\ stock' = [stock EXCEPT ![v].committed = @ + ask.qty]
      /\ active' = active \cup {Asked(ask, writes + 1)} /\ writes' = writes + 1
      /\ EndTransaction(w) /\ UNCHANGED <<status, lines, trail, shortfall, raced>>
  BY <1>1 DEF CommitAsk
<1>3. JobOK(w) /\ Asking(w)
  BY DEF IInv, WorkersInv, WorkerOK
<1>4. ask \in Asks
  BY <1>1, <1>2, <1>3 DEF JobOK, AskJob
<1>5. ask.order \in Orders \cup {NoOrder} /\ v \in Variants /\ ask.qty \in Nat \ {0}
  BY <1>1, <1>4, OrderAssumption
<1>6. levelLock[v] = w /\ (v \in Oversell \/ ask.qty <= Available(stock[v]))
  <2>1. levelLock[v] = w /\ Grants("ask", ask)
    BY <1>1, <1>2, <1>3 DEF Asking
  <2> QED
    BY <1>1, <2>1 DEF Grants
<1>7. BookAsk(ask)
  BY <1>1, <1>2, <1>6 DEF BookAsk
<1>8. BookNext
  BY <1>4, <1>7 DEF BookNext
<1>9. BookTypes /\ HoldingsFollowTheTrail
  BY DEF IInv
<1>10. /\ stock[v] \in [onHand: Nat, committed: Nat] /\ writes \in Nat
       /\ stock \in [Variants -> [onHand: Nat, committed: Nat]]
  BY <1>5, <1>9 DEF BookTypes, Levels
<1>11. stock' \in Levels /\ \A x \in Variants : x # v => stock'[x] = stock[x]
  BY <1>2, <1>5, <1>10 DEF Levels
<1>12. PICK r : r = Asked(ask, writes + 1)
  OBVIOUS
<1>13. r \in ReservationRow /\ r.place = 0 /\ r.batch = writes + 1 /\ r.order = ask.order
  BY <1>1, <1>5, <1>10, <1>12 DEF Asked, ReservationRow
<1>14. active' = active \cup {r}
  BY <1>2, <1>12
<1>15. IsFiniteSet(active') /\ active' \subseteq ReservationRow
  <2>1. IsFiniteSet({r})
    BY FS_Singleton
  <2> QED
    BY <1>9, <1>13, <1>14, <2>1, FS_Union DEF BookTypes
<1>16. Written(active)'
  <2>1. \A q \in active : IF q.place = 0 THEN q.batch <= writes + 1
                          ELSE q.order \in Orders /\ q.at < Len(trail[q.order])
    BY <1>9, <1>10 DEF BookTypes, Written, ReservationRow
  <2>2. writes + 1 <= writes + 1
    BY <1>10
  <2> QED
    BY <1>2, <1>13, <1>14, <2>1, <2>2 DEF Written
<1>17. BookTypes'
  <2>1. /\ status' = status /\ lines' = lines /\ trail' = trail /\ shortfall' = shortfall
        /\ raced' = raced /\ writes' \in Nat
    BY <1>2, <1>10
  <2>2. lines' \in [Orders -> SUBSET LineRecord] /\ LinesTyped'
    BY <1>9, <2>1 DEF BookTypes, LinesTyped
  <2>3. status' \in [Orders -> Statuses] /\ trail' \in [Orders -> Seq(MoveRecord)]
        /\ shortfall' \in [Variants -> Nat] /\ raced' \in BOOLEAN
    BY <1>9, <2>1 DEF BookTypes
  <2> QED
    BY <1>11, <1>15, <1>16, <2>1, <2>2, <2>3 DEF BookTypes, Written
<1>18. \A p \in Orders : Own(p)' = Own(p)
  BY <1>13, <1>14 DEF HeldBy, Own
<1>19. ASSUME NEW p \in Orders, orderLock[p] \notin {w, Nobody}
       PROVE  status'[p] = status[p] /\ lines'[p] = lines[p] /\ HeldBy(p)' \subseteq HeldBy(p)
  <2>1. p # ask.order
    BY <1>2, <1>19
  <2> QED
    BY <1>2, <1>13, <1>14, <2>1 DEF HeldBy
<1>20. HoldingsFollowTheTrail'
  BY <1>2, <1>9, <1>18, HoldingsStay
<1>21. (\A p \in Orders : Len(trail[p]) <= Len(trail'[p])) /\ writes <= writes'
  BY <1>2, <1>9, <1>10 DEF BookTypes
<1>22. \A x \in Variants : levelLock[x] \notin {w, Nobody} => stock'[x] = stock[x]
  BY <1>6, <1>11
<1>23. \A q \in active' \ active : ~Written({q})
  <2>1. ~(writes + 1 <= writes)
    BY <1>10
  <2> QED
    BY <1>13, <1>14, <2>1 DEF Written
<1>24. IInv'
  BY <1>2, <1>8, <1>17, <1>19, <1>20, <1>21, <1>22, <1>23, CommitKeeps
<1> QED
  BY <1>8, <1>24

\* The rows an order's items are written as.
LEMMA ListedTyped ==
  ASSUME NEW o \in Orders, NEW batch \in Nat, NEW items \in Seq(Item)
  PROVE  /\ Listed(o, batch, items) \subseteq LineRecord
         /\ IsFiniteSet(Listed(o, batch, items))
         /\ \A l \in Listed(o, batch, items) : l.order = o
<1> DEFINE row(i) == [order |-> o, batch |-> batch, place |-> i,
                      variant |-> items[i].variant, qty |-> items[i].qty]
           f == [i \in DOMAIN items |-> row(i)]
<1>1. ASSUME NEW i \in DOMAIN items PROVE row(i) \in LineRecord /\ row(i).order = o
  <2>1. items[i] \in Item /\ i \in Nat \ {0}
    OBVIOUS
  <2> QED
    BY <2>1 DEF Item, LineRecord
<1>2. Listed(o, batch, items) = {row(i) : i \in DOMAIN items}
  BY DEF Listed
<1>3. IsFiniteSet(DOMAIN items)
  <2>1. DOMAIN items = 1..Len(items) /\ Len(items) \in Nat
    OBVIOUS
  <2> QED
    BY <2>1, FS_Interval
<1>4. f \in Surjection(DOMAIN items, {row(i) : i \in DOMAIN items})
  BY DEF Surjection
<1> HIDE DEF row, f
<1>5. IsFiniteSet({row(i) : i \in DOMAIN items})
  BY <1>3, <1>4, FS_Surjection
<1> QED
  BY <1>1, <1>2, <1>5

\* An edit writes the items of its order, which nobody has locked.
LEMMA CommitEditKeeps ==
  ASSUME IInv, NEW w \in Workers, CommitEdit(w)
  PROVE  IInv' /\ BookNext
<1>1. PICK edition, o : edition = job[w].what /\ o = edition.order
  OBVIOUS
<1>2. /\ pc[w] = "edit" /\ orderLock[o] = Nobody /\ BookEdit(edition, todo[w])
      /\ EndTransaction(w) /\ raced' = raced
  BY <1>1 DEF CommitEdit
<1>3. edition \in Editions /\ o \in Orders /\ edition.items \in Seq(Item)
  <2>1. JobOK(w)
    BY DEF IInv, WorkersInv, WorkerOK
  <2>2. edition \in Editions
    BY <1>1, <1>2, <2>1 DEF JobOK, EditJob
  <2> QED
    BY <1>1, <2>2, OrderAssumption
<1>4. BookTypes /\ HoldingsFollowTheTrail
  BY DEF IInv
<1>5. PICK new : new = Listed(o, writes + 1, edition.items)
  OBVIOUS
<1>6. /\ lines' = [lines EXCEPT ![o] = (@ \ todo[w]) \cup new] /\ writes' = writes + 1
      /\ UNCHANGED <<status, stock, active, trail, shortfall>>
  BY <1>1, <1>2, <1>5 DEF BookEdit
<1>7. BookNext
  <2>1. (lines[o] \ todo[w]) \cup new = (lines[o] \ (todo[w] \cap lines[o])) \cup new
    OBVIOUS
  <2>2. lines' = [lines EXCEPT ![o] = (@ \ (todo[w] \cap lines[o])) \cup new]
    BY <1>6, <2>1
  <2>3. BookEdit(edition, todo[w] \cap lines[o])
    BY <1>1, <1>5, <1>6, <2>2 DEF BookEdit
  <2>4. todo[w] \cap lines[o] \in SUBSET lines[edition.order]
    BY <1>1
  <2> QED
    BY <1>3, <2>3, <2>4 DEF BookNext
<1>8. writes \in Nat /\ writes + 1 \in Nat
  BY <1>4 DEF BookTypes
<1>9. new \subseteq LineRecord /\ IsFiniteSet(new) /\ \A l \in new : l.order = o
  BY <1>3, <1>5, <1>8, ListedTyped
<1>10. /\ lines'[o] = (lines[o] \ todo[w]) \cup new
       /\ \A p \in Orders : p # o => lines'[p] = lines[p]
       /\ lines' = [p \in Orders |-> lines'[p]]
  BY <1>3, <1>4, <1>6 DEF BookTypes
<1>11. ASSUME NEW p \in Orders
       PROVE  lines'[p] \subseteq LineRecord /\ IsFiniteSet(lines'[p]) /\ \A l \in lines'[p] : l.order = p
  <2>1. lines[p] \subseteq LineRecord /\ IsFiniteSet(lines[p]) /\ \A l \in lines[p] : l.order = p
    BY <1>4 DEF BookTypes, LinesTyped
  <2>2. CASE p = o
    <3>1. IsFiniteSet(lines[o] \ todo[w])
      BY <2>1, <2>2, FS_Subset
    <3>2. IsFiniteSet((lines[o] \ todo[w]) \cup new)
      BY <1>9, <3>1, FS_Union
    <3> QED
      BY <1>9, <1>10, <2>1, <2>2, <3>2
  <2>3. CASE p # o
    BY <1>10, <2>1, <2>3
  <2> QED
    BY <2>2, <2>3
<1>12. lines' \in [Orders -> SUBSET LineRecord] /\ LinesTyped'
  BY <1>10, <1>11 DEF LinesTyped
<1>13. Written(active)'
  <2>1. \A r \in active : IF r.place = 0 THEN r.batch <= writes + 1
                          ELSE r.order \in Orders /\ r.at < Len(trail[r.order])
    BY <1>4, <1>8 DEF BookTypes, Written, ReservationRow
  <2> QED
    BY <1>6, <2>1 DEF Written
<1>14. BookTypes'
  BY <1>2, <1>4, <1>6, <1>8, <1>12, <1>13 DEF BookTypes, Written
<1>15. \A p \in Orders : HeldBy(p)' = HeldBy(p) /\ Own(p)' = Own(p)
  BY <1>6 DEF HeldBy, Own
<1>16. HoldingsFollowTheTrail'
  BY <1>4, <1>6, <1>15, HoldingsStay
<1>17. (\A p \in Orders : Len(trail[p]) <= Len(trail'[p])) /\ writes <= writes'
  BY <1>4, <1>6, <1>8 DEF BookTypes
<1>18. \A p \in Orders : orderLock[p] \notin {w, Nobody} =>
         /\ status'[p] = status[p] /\ lines'[p] = lines[p]
         /\ HeldBy(p)' \subseteq HeldBy(p)
  BY <1>2, <1>6, <1>10, <1>15
<1>19. IInv'
  BY <1>2, <1>6, <1>7, <1>14, <1>16, <1>17, <1>18, CommitKeeps
<1> QED
  BY <1>7, <1>19

-----------------------------------------------------------------------------
(* The theorems.                                                           *)

LEMMA InitIInv == Init => IInv
<1> SUFFICES ASSUME Init PROVE IInv
  OBVIOUS
<1>1. BookTypes
  <2>1. stock \in Levels
    BY OrderAssumption DEF Init, BookInit, Levels
  <2>2. status \in [Orders -> Statuses]
    BY DEF Init, BookInit, Statuses, Transitions
  <2>3. trail \in [Orders -> Seq(MoveRecord)]
    BY DEF Init, BookInit
  <2>4. ASSUME NEW o \in Orders
        PROVE  lines[o] \subseteq LineRecord /\ IsFiniteSet(lines[o]) /\ \A l \in lines[o] : l.order = o
    <3>1. lines[o] = Listed(o, 0, Placed[o])
      BY DEF Init, BookInit
    <3>2. Placed[o] \in Seq(Item)
      BY OrderAssumption
    <3> QED
      BY <3>1, <3>2, ListedTyped
  <2>5. lines = [o \in Orders |-> lines[o]]
    BY DEF Init, BookInit
  <2>6. lines \in [Orders -> SUBSET LineRecord] /\ LinesTyped
    BY <2>4, <2>5 DEF LinesTyped
  <2>7. active = {} /\ writes = 0 /\ raced = FALSE /\ shortfall \in [Variants -> Nat]
    BY DEF Init, BookInit
  <2> QED
    BY <2>1, <2>2, <2>3, <2>6, <2>7, FS_EmptySet DEF BookTypes, Written
<1>2. Types
  BY InitialStockTyped DEF Init, Types
<1>3. ASSUME NEW w \in Workers PROVE WorkerOK(w)
  <2>1. pc[w] = "idle" /\ job[w] = NoJob /\ todo[w] = {} /\ taken[w] = {}
        /\ (\A o \in Orders : orderLock[o] # w) /\ (\A v \in Variants : levelLock[v] # w)
    BY WorkerAssumption DEF Init
  <2> QED
    BY <2>1 DEF WorkerOK, JobOK, OrderLocked, Reserving, Asking, RowsRead, ViewOK, Consuming
<1>4. BackedUntilRaced
  <2>1. ASSUME NEW v \in Variants
        PROVE  stock[v].onHand \in Nat /\ stock[v].committed = 0 /\ Units(active, v) = 0
    <3>1. active = {}
      BY DEF Init, BookInit
    <3>2. \A r \in active : r.variant # v
      BY <3>1
    <3>3. Units(active, v) = 0
      BY <3>2, UnitsOfNone
    <3>4. stock[v].onHand = InitialOnHand /\ stock[v].committed = 0
      BY DEF Init, BookInit
    <3> QED
      BY <3>3, <3>4, OrderAssumption
  <2>2. ASSUME NEW v \in Variants
        PROVE  stock[v].onHand >= 0 /\ Units(active, v) <= stock[v].onHand + shortfall[v]
    <3>1. shortfall[v] = 0
      BY DEF Init, BookInit
    <3> QED
      BY <2>1, <3>1
  <2> QED
    BY <2>1, <2>2 DEF BackedUntilRaced
<1>5. HoldingsFollowTheTrail
  <2>1. ASSUME NEW o \in Orders PROVE Own(o) = {} /\ Due(o) = {}
    <3>1. active = {} /\ trail[o] = <<>>
      BY DEF Init, BookInit
    <3>2. 1..Len(trail[o]) = {}
      BY <3>1
    <3> QED
      BY <3>1, <3>2 DEF Own, HeldBy, Due
  <2> QED
    BY <2>1 DEF HoldingsFollowTheTrail, Own
<1> QED
  BY <1>1, <1>2, <1>3, <1>4, <1>5 DEF IInv, WorkersInv

LEMMA NextKeeps ==
  ASSUME IInv, [Next]_vars
  PROVE  IInv' /\ [BookNext \/ raced']_bookVars
<1>1. CASE UNCHANGED vars
  <2>1. BookStays /\ UNCHANGED <<pc, job, todo, taken, view, orderLock, levelLock>>
    BY <1>1 DEF vars, BookStays
  <2>2. BookTypes' /\ BackedUntilRaced' /\ HoldingsFollowTheTrail'
    BY <2>1, BookKept DEF IInv
  <2>3. Types'
    BY <2>1 DEF IInv, Types
  <2>4. ASSUME NEW u \in Workers PROVE WorkerOK(u)'
    <3>1. (\A o \in Orders : Len(trail[o]) <= Len(trail[o])) /\ writes <= writes
      BY DEF IInv, BookTypes
    <3>2. Unharmed(u)
      BY <2>1, <3>1 DEF BookStays, bookVars, Unharmed, HeldBy
    <3>3. WorkerOK(u) /\ BookTypes
      BY DEF IInv, WorkersInv
    <3> QED
      BY <2>2, <3>2, <3>3, OthersKeep
  <2> QED
    BY <2>1, <2>2, <2>3, <2>4 DEF IInv, WorkersInv, BookStays
<1>2. ASSUME NEW w \in Workers,
             \/ BeginMove(w) \/ BeginRelease(w) \/ BeginCount(w) \/ BeginAsk(w) \/ BeginEdit(w)
             \/ Step(w) \/ Crash(w)
      PROVE  IInv' /\ [BookNext \/ raced']_bookVars
  <2>1. CASE BeginMove(w)
    BY <2>1, BeginMoveKeeps DEF BeginMove
  <2>2. CASE BeginRelease(w)
    BY <2>2, BeginReleaseKeeps DEF BeginRelease
  <2>3. CASE LockOrder(w)
    BY <2>3, LockOrderKeeps DEF LockOrder
  <2>4. CASE Rollback(w)
    BY <2>4, RollbackKeeps DEF Rollback
  <2>5. CASE ReadRows(w)
    BY <2>5, ReadRowsKeeps DEF ReadRows
  <2>6. CASE ReserveLevel(w)
    BY <2>6, ReserveLevelKeeps DEF ReserveLevel
  <2>7. CASE ConsumeRow(w)
    BY <2>7, ConsumeRowKeeps DEF ConsumeRow
  <2>8. CASE CommitReserve(w)
    BY <2>8, CommitReserveKeeps
  <2>9. CASE CommitMove(w)
    BY <2>9, CommitPlainMoveKeeps, CommitConsumingMoveKeeps
  <2>10. CASE CommitRelease(w)
    BY <2>10, CommitReleaseKeeps
  <2>11. CASE Refuse(w) \/ OnHandCheckFails(w) \/ RefuseShortage(w) \/ ReleaseLost(w)
              \/ RefuseWrite(w) \/ DeadlockVictim(w) \/ Crash(w)
    BY <2>4, <2>11 DEF Refuse, OnHandCheckFails, RefuseShortage, ReleaseLost, RefuseWrite,
                       DeadlockVictim, Crash
  <2>12. CASE BeginCount(w) \/ BeginAsk(w)
    <3>1. PICK kind, what : /\ BeginWrite(w, kind, what)
                            /\ [kind |-> kind, what |-> what] \in CountJob \cup AskJob
      BY <2>12 DEF BeginCount, BeginAsk, CountJob, AskJob
    <3>2. UNCHANGED bookVars
      BY <3>1 DEF BeginWrite
    <3> QED
      BY <3>1, <3>2, BeginWriteKeeps
  <2>13. CASE BeginEdit(w)
    BY <2>13, BeginEditKeeps DEF BeginEdit
  <2>14. CASE LockAsked(w)
    BY <2>14, LockAskedKeeps DEF LockAsked
  <2>15. CASE CommitCount(w) \/ CommitAsk(w) \/ CommitEdit(w)
    BY <2>15, CommitCountKeeps, CommitAskKeeps, CommitEditKeeps
  <2> QED
    BY <1>2, <2>1, <2>2, <2>3, <2>5, <2>6, <2>7, <2>8, <2>9, <2>10, <2>11, <2>12, <2>13,
       <2>14, <2>15 DEF Step
<1> QED
  BY <1>1, <1>2 DEF Next, AllIdle

\* The inductive invariant holds in every reachable state.
THEOREM OrderStockInvariant == Spec => []IInv
<1>1. IInv /\ [Next]_vars => IInv'
  BY NextKeeps
<1> QED
  BY InitIInv, <1>1, PTL DEF Spec

\* The quantities, locks and trails of OrdersRepository.transition are well
\* formed: no interleaving takes a level's balance below zero.
THEOREM OrderStockTypes == Spec => []TypeOK
<1>1. IInv => TypeOK
  BY DEF IInv, BookTypes, Types, TypeOK
<1> QED
  BY <1>1, OrderStockInvariant, PTL

\* Whatever moves, releases, reservations, adjustments and transfers interleave, on-hand
\* stays non-negative; until a move consumes a reservation a release has freed meanwhile,
\* committed is the sum of the active reservations, and what they hold is on the shelf but
\* for what the last adjustment or transfer itself took from under them, unless the
\* product allows overselling.
THEOREM LevelsAreBacked == Spec => []BackedUntilRaced
<1>1. IInv => BackedUntilRaced
  BY DEF IInv
<1> QED
  BY <1>1, OrderStockInvariant, PTL

\* An order's own reservations are those its activities account for, whatever is set
\* aside, edited, counted, retried, rolled back or raced in between: one for every line it
\* listed when it was taken up for processing, none once it has shipped or was cancelled
\* after that, and only releases one by one take any away.
THEOREM HoldingsAreTheTrails == Spec => []HoldingsFollowTheTrail
<1>1. IInv => HoldingsFollowTheTrail
  BY DEF IInv
<1> QED
  BY <1>1, OrderStockInvariant, PTL

\* The transactions implement the atomic book of OrderBook: until a move races a
\* release, every commit is one whole step of the book and no other step
\* touches it.
THEOREM TransitionsImplementTheBook == Spec => BookUntilRaced
<1>1. Init => BookInit
  BY DEF Init
<1>2. IInv /\ [Next]_vars => [BookNext \/ raced']_bookVars
  BY NextKeeps
<1> QED
  BY <1>1, <1>2, OrderStockInvariant, PTL DEF Spec, BookUntilRaced

-----------------------------------------------------------------------------
(* The inductive invariant of the storefront's inbox.                      *)

\* What a request works on fits the step it is at.
StageFits(c) ==
  /\ req[c].at \in {"lines", "customer", "register", "winner", "order"}
       => Said(c).type = "order"
  /\ req[c].at \in {"match", "variant", "product", "newVariant", "warehouse", "stock", "adjust"}
       => Said(c).type = "product"
  /\ req[c].at = "variant" => variants[Said(c).sku] # NoVariant
  /\ req[c].at \in {"stock", "adjust"} \/ (req[c].at = "mark" /\ Said(c).type = "product")
       => req[c].into \in Warehouses
StagesFit == \A c \in Calls : StageFits(c)

\* What a request has read of a level is still so, or it was stirred.
LevelsAreWatched ==
  /\ \A c \in Calls : req[c].at = "adjust" /\ ~req[c].stirred => req[c].saw = Level(c)
  /\ StockMeetsTheFeed

\* An event is run by one request, from the insert of its row on.
RunsAreAlone ==
  \A e \in Events :
    /\ events[e] = NoRow => Running(e) = {} /\ \A o \in orders : o[1] # e
    /\ e \notin crossed => \A c, d \in Running(e) : c = d

\* An order's request is on its way to the mark, or has left its event processed, which
\* no request runs again.
OrdersAreMarked ==
  \A o \in orders :
    /\ EventOf(o[2]) = o[1]
    /\ o[1] \notin slipped \cup crossed =>
         /\ req[o[2]].at \in {"mark", "touch", "markFailed", "done"}
         /\ req[o[2]].at \in {"touch", "done"} => events[o[1]] = "processed"
         /\ req[o[2]].at = "done" => Running(o[1]) = {}

OneOrderEach ==
  \A o, p \in orders : o[1] = p[1] /\ o[1] \notin slipped \cup crossed => o = p

\* The users' calls are those the run began with.
CallsAreGiven == \E s \in Scenarios : calls \subseteq s.calls

StorefrontInv ==
  /\ StorefrontTypes
  /\ CallsAreGiven
  /\ StagesFit
  /\ LevelsAreWatched
  /\ RunsAreAlone
  /\ OrdersAreMarked
  /\ OneOrderEach
-----------------------------------------------------------------------------
(* Types, and what a step changes.                                         *)

Answered == {"created", "updated", "unauthorized", "refused", "error", "none", NoRow}

\* A changed field of a row leaves the others as they are.
LEMMA RowsChange ==
  ASSUME NEW r \in RequestRow, NEW at \in Ats
  PROVE  /\ [r EXCEPT !.at = at] \in RequestRow
         /\ \A w \in Warehouses \cup {NoWarehouse} : [r EXCEPT !.at = at, !.into = w] \in RequestRow
         /\ \A p \in ProductIds : [r EXCEPT !.at = at, !.product = p] \in RequestRow
         /\ \A n \in Nat : [r EXCEPT !.at = at, !.saw = n] \in RequestRow
         /\ \A answer \in Answered : [r EXCEPT !.at = "done", !.answer = answer] \in RequestRow
         /\ Stir(r) \in RequestRow
<1> USE DEF RequestRow, Answered
<1>1. [r EXCEPT !.at = at] \in RequestRow
  OBVIOUS
<1>2. \A w \in Warehouses \cup {NoWarehouse} : [r EXCEPT !.at = at, !.into = w] \in RequestRow
  OBVIOUS
<1>3. \A p \in ProductIds : [r EXCEPT !.at = at, !.product = p] \in RequestRow
  OBVIOUS
<1>4. \A n \in Nat : [r EXCEPT !.at = at, !.saw = n] \in RequestRow
  OBVIOUS
<1>5. \A answer \in Answered : [r EXCEPT !.at = "done", !.answer = answer] \in RequestRow
  BY DEF Ats
<1>6. Stir(r) \in RequestRow
  BY DEF Stir
<1> QED BY <1>1, <1>2, <1>3, <1>4, <1>5, <1>6

RequestTypes == req \in [Calls -> RequestRow]

\* The ways a request goes on keep its types.
LEMMA GoesAreTyped ==
  ASSUME RequestTypes, NEW c \in Calls, NEW at \in Ats
  PROVE  /\ Go(c, at) => RequestTypes'
         /\ \A w \in Warehouses \cup {NoWarehouse} : GoInto(c, at, w) => RequestTypes'
         /\ \A p \in ProductIds : GoFor(c, at, p) => RequestTypes'
         /\ \A n \in Nat : GoSeeing(c, at, n) => RequestTypes'
         /\ \A answer \in Answered : End(c, answer) => RequestTypes'
<1>1. req[c] \in RequestRow
  BY DEF RequestTypes
<1>2. \A r \in RequestRow : Becomes(c, r) => RequestTypes'
  BY DEF RequestTypes, Becomes
<1> QED BY <1>1, <1>2, RowsChange DEF Go, GoInto, GoFor, GoSeeing, End

\* The fields of a request.
LEMMA FieldsAreTyped ==
  ASSUME RequestTypes, NEW c \in Calls
  PROVE  /\ req[c].at \in Ats /\ req[c].event \in Events
         /\ req[c].into \in Warehouses \cup {NoWarehouse} /\ req[c].saw \in Nat
BY DEF RequestTypes, RequestRow

\* What an event says is typed.
LEMMA SaidIsTyped ==
  ASSUME StorefrontTypes, NEW c \in Calls
  PROVE  /\ EventOf(c) \in Events
         /\ Said(c) \in OrderPayload \cup ProductPayload
         /\ Said(c).sku \in Skus
         /\ Said(c).type = "order" => Said(c).phone \in Phones
         /\ Said(c).type = "product" => Said(c).target \in Nat
                                          /\ Said(c).active \in BOOLEAN \cup {NoRow}
<1>1. EventOf(c) \in Events
  BY FieldsAreTyped DEF StorefrontTypes, RequestTypes, EventOf
<1>2. Said(c) \in OrderPayload \cup ProductPayload
  BY <1>1, StorefrontAssumption DEF Said
<1> QED BY <1>1, <1>2 DEF OrderPayload, ProductPayload

\* Stirring a request keeps its row's type.
LEMMA StirredRows ==
  \A r \in RequestRow : Stir(r) \in RequestRow
BY RowsChange DEF Ats

\* Setting a level changes that level.
LEMMA LevelSet ==
  ASSUME NEW shelf \in ShelfRow, NEW sku \in Skus, NEW level \in Nat
  PROVE  WithLevel(shelf, sku, level) \in ShelfRow
         /\ \A k \in Skus : WithLevel(shelf, sku, level).onHand[k] =
                            IF k = sku THEN level ELSE shelf.onHand[k]
BY DEF WithLevel, ShelfRow

\* A level that has been found is a number of units.
LEMMA LevelsAreUnits ==
  ASSUME StorefrontTypes, NEW w \in Warehouses, NEW sku \in Skus
  PROVE  shelves[w].onHand[sku] \in Nat
BY DEF StorefrontTypes, ShelfRow

LEMMA StorefrontTypesStep ==
  StorefrontTypes /\ CallsAreGiven /\ StagesFit /\ [StorefrontNext]_storefrontVars
    => StorefrontTypes'
<1> SUFFICES ASSUME StorefrontTypes, CallsAreGiven, StagesFit, [StorefrontNext]_storefrontVars
             PROVE  StorefrontTypes'
  OBVIOUS
<1> USE DEF catalogVars, historyVars, RowsStay, Guarded, EventStates, CustomerStates
<1>0. RequestTypes
  BY DEF RequestTypes, StorefrontTypes
<1>1. ASSUME NEW c \in Calls, Authenticate(c) PROVE StorefrontTypes'
  <2>1. RequestTypes'
    BY <1>1, <1>0, GoesAreTyped DEF Answered, Authenticate, Ats, StorefrontTypes
  <2> QED BY <1>1, <2>1 DEF Authenticate, StorefrontTypes, RequestTypes
<1>2. ASSUME NEW c \in Calls, Enqueue(c) PROVE StorefrontTypes'
  <2>1. RequestTypes'
    BY <1>2, <1>0, GoesAreTyped DEF Answered, Enqueue, Ats, First
  <2> QED BY <1>2, <2>1, SaidIsTyped DEF Enqueue, StorefrontTypes, RequestTypes
<1>3. ASSUME NEW c \in Calls, FindFailed(c) PROVE StorefrontTypes'
  <2>1. RequestTypes'
    BY <1>3, <1>0, GoesAreTyped DEF Answered, FindFailed, RunAgain, RefuseAgain, Ats, StorefrontTypes
  <2> QED BY <1>3, <2>1, SaidIsTyped
          DEF FindFailed, RunAgain, RefuseAgain, StorefrontTypes, RequestTypes
<1>4. ASSUME NEW c \in Calls,
             IncrementAttempt(c) \/ FindLines(c) \/ FindCustomer(c) \/ FindWinner(c)
               \/ Touch(c) \/ StatementFails(c)
      PROVE  StorefrontTypes'
  <2>1. RequestTypes'
    BY <1>4, <1>0, GoesAreTyped
    DEF Answered, IncrementAttempt, FindLines, FindCustomer, FindWinner, Touch, StatementFails,
        Caught, Ats, First
  <2> QED BY <1>4, <2>1
          DEF IncrementAttempt, FindLines, FindCustomer, FindWinner, Touch, StatementFails,
              StorefrontTypes, RequestTypes
<1>5. ASSUME NEW c \in Calls, CreateCustomer(c) PROVE StorefrontTypes'
  <2>1. RequestTypes'
    BY <1>5, <1>0, GoesAreTyped DEF Answered, CreateCustomer, Ats
  <2> QED BY <1>5, <2>1 DEF CreateCustomer, StorefrontTypes, RequestTypes
<1>6. ASSUME NEW c \in Calls, CreateOrder(c) PROVE StorefrontTypes'
  <2>1. RequestTypes'
    BY <1>6, <1>0, GoesAreTyped DEF Answered, CreateOrder, Caught, Ats
  <2> QED BY <1>6, <2>1, SaidIsTyped DEF CreateOrder, StorefrontTypes, RequestTypes
<1>7. ASSUME NEW c \in Calls, MatchSku(c) PROVE StorefrontTypes'
  <2>1. Sold(Said(c).sku) => variants[Said(c).sku].product \in ProductIds
    BY SaidIsTyped DEF Sold, StorefrontTypes, VariantRow
  <2>2. RequestTypes'
    BY <1>7, <2>1, <1>0, GoesAreTyped DEF Answered, MatchSku, Ats
  <2> QED BY <1>7, <2>2 DEF MatchSku, StorefrontTypes, RequestTypes
<1>8. ASSUME NEW c \in Calls, UpdateVariant(c) PROVE StorefrontTypes'
  <2>1. RequestTypes'
    BY <1>8, <1>0, GoesAreTyped DEF Answered, UpdateVariant, Ats
  <2>2. variants[Said(c).sku] \in VariantRow /\ Said(c).active \in BOOLEAN \cup {NoRow}
    BY <1>8, SaidIsTyped DEF UpdateVariant, StagesFit, StageFits, StorefrontTypes
  <2>3. variants' \in [Skus -> VariantRow \cup {NoVariant}]
    BY <1>8, <2>2 DEF UpdateVariant, StorefrontTypes, VariantRow
  <2> QED BY <1>8, <2>1, <2>3 DEF UpdateVariant, StorefrontTypes, RequestTypes
<1>9. ASSUME NEW c \in Calls, CreateProduct(c) \/ CreateVariant(c) PROVE StorefrontTypes'
  <2>1. RequestTypes' /\ c \in ProductIds
    BY <1>9, <1>0, GoesAreTyped DEF Answered, CreateProduct, CreateVariant, Caught, Ats, ProductIds
  <2>2. CreateVariant(c) => variants' \in [Skus -> VariantRow \cup {NoVariant}]
    <3>1. [product |-> c, active |-> TRUE] \in VariantRow
      BY <2>1 DEF VariantRow
    <3> QED BY <3>1 DEF CreateVariant, StorefrontTypes
  <2> QED BY <1>9, <2>1, <2>2
          DEF CreateProduct, CreateVariant, StorefrontTypes, RequestTypes
<1>10. ASSUME NEW c \in Calls, ResolveWarehouse(c) PROVE StorefrontTypes'
  <2>1. RequestTypes'
    BY <1>10, <1>0, GoesAreTyped DEF Answered, ResolveWarehouse, Caught, Ats, Open
  <2> QED BY <1>10, <2>1 DEF ResolveWarehouse, StorefrontTypes, RequestTypes
<1>11. ASSUME NEW c \in Calls, ReadStock(c) PROVE StorefrontTypes'
  <2>1. Level(c) \in Nat
    BY <1>11, SaidIsTyped, LevelsAreUnits DEF ReadStock, StagesFit, StageFits, Level
  <2>2. RequestTypes'
    BY <1>11, <2>1, <1>0, GoesAreTyped DEF Answered, ReadStock, Ats
  <2> QED BY <1>11, <2>2 DEF ReadStock, StorefrontTypes, RequestTypes
<1>12. ASSUME NEW c \in Calls, Adjust(c) PROVE StorefrontTypes'
  <2> DEFINE level == Level(c) + Said(c).target - req[c].saw
  <2>1. /\ req[c].into \in Warehouses /\ Said(c).sku \in Skus
        /\ Level(c) \in Nat /\ Said(c).target \in Nat /\ req[c].saw \in Nat
    <3>1. Said(c).type = "product" /\ req[c].into \in Warehouses
      BY <1>12 DEF Adjust, StagesFit, StageFits
    <3> QED BY <3>1, <1>0, SaidIsTyped, LevelsAreUnits, FieldsAreTyped DEF Level
  <2>2. CASE shelves[req[c].into].active /\ level >= 0
    <3>1. level \in Nat
      BY <2>1, <2>2
    <3>2. shelves' = [shelves EXCEPT ![req[c].into] =
                      WithLevel(shelves[req[c].into], Said(c).sku, level)]
      BY <1>12, <2>2 DEF Adjust
    <3>3. shelves' \in [Warehouses -> ShelfRow]
      BY <2>1, <3>1, <3>2, LevelSet DEF StorefrontTypes
    <3>4. RequestTypes'
      <4>1. [req[c] EXCEPT !.at = "mark"] \in RequestRow
        BY <1>0, RowsChange DEF RequestTypes, Ats
      <4>2. \A b \in Calls : req[b] \in RequestRow /\ Stir(req[b]) \in RequestRow
        BY <1>0, StirredRows DEF RequestTypes
      <4> QED BY <1>12, <2>2, <4>1, <4>2 DEF Adjust, RequestTypes
    <3> QED BY <1>12, <3>3, <3>4 DEF Adjust, StorefrontTypes, RequestTypes
  <2>3. CASE ~(shelves[req[c].into].active /\ level >= 0)
    <3>1. RequestTypes'
      BY <1>12, <2>3, <1>0, GoesAreTyped DEF Answered, Adjust, Caught, Ats
    <3> QED BY <1>12, <2>3, <3>1 DEF Adjust, StorefrontTypes, RequestTypes
  <2> QED BY <2>2, <2>3
<1>13. ASSUME NEW c \in Calls, MarkProcessed(c) PROVE StorefrontTypes'
  <2>1. RequestTypes'
    BY <1>13, <1>0, GoesAreTyped DEF Answered, MarkProcessed, Ats
  <2> QED BY <1>13, <2>1 DEF MarkProcessed, StorefrontTypes, RequestTypes
<1>14. ASSUME NEW c \in Calls, MarkFailed(c) \/ Die(c) PROVE StorefrontTypes'
  <2>1. RequestTypes' /\ EventOf(c) \in Events
    BY <1>14, <1>0, GoesAreTyped, SaidIsTyped DEF Answered, MarkFailed, Die, Ats
  <2>2. slipped' \subseteq Events
    BY <1>14, <2>1 DEF MarkFailed, Die, Slip, StorefrontTypes
  <2> QED BY <1>14, <2>1, <2>2 DEF MarkFailed, Die, StorefrontTypes, RequestTypes
<1>15. ASSUME NEW call \in calls,
              RotateKey(call) \/ Revoke(call) \/ ArchiveCustomer(call) \/ UpdateConnection(call)
       PROVE  StorefrontTypes'
  <2>1. call.does = "update" => call.to \in {"active", "paused"}
    BY ScenariosAssumption DEF CallsAreGiven
  <2> QED BY <1>15, <2>1
          DEF RotateKey, Revoke, ArchiveCustomer, UpdateConnection, StorefrontTypes
<1>16. ASSUME NEW call \in calls, MakeDefault(call) \/ ArchiveWarehouse(call)
       PROVE  StorefrontTypes'
  <2>1. shelves' \in [Warehouses -> ShelfRow]
    <3>1. \A w \in Warehouses : shelves[w] \in ShelfRow
      BY DEF StorefrontTypes
    <3>2. \A w \in Warehouses :
            /\ [shelves[w] EXCEPT !.default = w = call.to] \in ShelfRow
            /\ [shelves[w] EXCEPT !.active = FALSE, !.default = FALSE] \in ShelfRow
      BY <3>1 DEF ShelfRow
    <3> QED BY <1>16, <3>1, <3>2 DEF MakeDefault, ArchiveWarehouse
  <2> QED BY <1>16, <2>1 DEF MakeDefault, ArchiveWarehouse, StorefrontTypes
<1>17. ASSUME NEW call \in calls, MoveStock(call) PROVE StorefrontTypes'
  <2> DEFINE level == shelves[call.to[1]].onHand[call.to[2]] + call.to[3]
  <2>1. call.to[1] \in Warehouses /\ call.to[2] \in Skus /\ call.to[3] \in Int
    BY <1>17, ScenariosAssumption DEF CallsAreGiven, MoveStock
  <2>2. level \in Nat
    BY <1>17, <2>1, LevelsAreUnits DEF MoveStock
  <2>3. shelves' = [shelves EXCEPT ![call.to[1]] =
                    WithLevel(shelves[call.to[1]], call.to[2], level)]
    BY <1>17 DEF MoveStock
  <2>4. shelves' \in [Warehouses -> ShelfRow]
    BY <2>1, <2>2, <2>3, LevelSet DEF StorefrontTypes
  <2>5. RequestTypes'
    BY <1>17, <1>0, StirredRows DEF MoveStock, RequestTypes
  <2> QED BY <1>17, <2>4, <2>5 DEF MoveStock, StorefrontTypes, RequestTypes
<1>18. CASE UNCHANGED storefrontVars
  BY <1>18 DEF storefrontVars, StorefrontTypes
<1> QED
  BY <1>1, <1>2, <1>3, <1>4, <1>5, <1>6, <1>7, <1>8, <1>9, <1>10, <1>11, <1>12, <1>13, <1>14,
     <1>15, <1>16, <1>17, <1>18 DEF StorefrontNext, RequestStep, User

-----------------------------------------------------------------------------
(* Where a step takes a request.                                           *)

\* Of the requests one goes on, and its event stays.
MovesTo(c, at) ==
  /\ req'[c].at = at /\ req'[c].event = req[c].event
  /\ \A b \in Calls \ {c} : req'[b] = req[b]

\* What the ways a request goes on leave alone.
LEMMA GoesMove ==
  ASSUME RequestTypes, NEW c \in Calls, NEW at
  PROVE  /\ Go(c, at) => /\ MovesTo(c, at) /\ req'[c].into = req[c].into
                         /\ req'[c].saw = req[c].saw /\ req'[c].stirred = req[c].stirred
         /\ \A w : GoInto(c, at, w) => MovesTo(c, at) /\ req'[c].into = w
         /\ \A p : GoFor(c, at, p) => MovesTo(c, at) /\ req'[c].into = req[c].into
         /\ \A n : GoSeeing(c, at, n) => /\ MovesTo(c, at) /\ req'[c].into = req[c].into
                                         /\ req'[c].saw = n
         /\ \A answer : End(c, answer) => MovesTo(c, "done")
<1>1. req \in [Calls -> RequestRow] /\ req[c] \in RequestRow
  BY DEF RequestTypes
<1>2. \A r : Becomes(c, r) => req'[c] = r /\ \A b \in Calls \ {c} : req'[b] = req[b]
  BY <1>1 DEF Becomes
<1> DEFINE there == [req[c] EXCEPT !.at = at]
<1>3. /\ there.at = at /\ there.event = req[c].event /\ there.into = req[c].into
      /\ there.saw = req[c].saw /\ there.stirred = req[c].stirred
  BY <1>1 DEF RequestRow
<1>4. Go(c, at) => /\ MovesTo(c, at) /\ req'[c].into = req[c].into
                   /\ req'[c].saw = req[c].saw /\ req'[c].stirred = req[c].stirred
  BY <1>2, <1>3 DEF Go, MovesTo
<1>5. ASSUME NEW w, GoInto(c, at, w) PROVE MovesTo(c, at) /\ req'[c].into = w
  <2>1. LET r == [req[c] EXCEPT !.at = at, !.into = w] IN
          r.at = at /\ r.event = req[c].event /\ r.into = w
    BY <1>1 DEF RequestRow
  <2> QED BY <1>2, <1>5, <2>1 DEF GoInto, MovesTo
<1>6. ASSUME NEW p, GoFor(c, at, p) PROVE MovesTo(c, at) /\ req'[c].into = req[c].into
  <2>1. LET r == [req[c] EXCEPT !.at = at, !.product = p] IN
          r.at = at /\ r.event = req[c].event /\ r.into = req[c].into
    BY <1>1 DEF RequestRow
  <2> QED BY <1>2, <1>6, <2>1 DEF GoFor, MovesTo
<1>7. ASSUME NEW n, GoSeeing(c, at, n)
      PROVE  MovesTo(c, at) /\ req'[c].into = req[c].into /\ req'[c].saw = n
  <2>1. LET r == [req[c] EXCEPT !.at = at, !.saw = n] IN
          r.at = at /\ r.event = req[c].event /\ r.into = req[c].into /\ r.saw = n
    BY <1>1 DEF RequestRow
  <2> QED BY <1>2, <1>7, <2>1 DEF GoSeeing, MovesTo
<1>8. ASSUME NEW answer, End(c, answer) PROVE MovesTo(c, "done")
  <2>1. LET r == [req[c] EXCEPT !.at = "done", !.answer = answer] IN
          r.at = "done" /\ r.event = req[c].event
    BY <1>1 DEF RequestRow
  <2> QED BY <1>2, <1>8, <2>1 DEF End, MovesTo
<1> QED BY <1>4, <1>5, <1>6, <1>7, <1>8

\* A stirred request is where it was.
LEMMA StirredStays ==
  ASSUME RequestTypes, NEW c \in Calls
  PROVE  LET r == Stir(req[c]) IN
           /\ r.at = req[c].at /\ r.event = req[c].event /\ r.into = req[c].into
           /\ r.saw = req[c].saw /\ r.stirred
<1>1. req[c] \in RequestRow
  BY DEF RequestTypes
<1> QED BY <1>1 DEF Stir, RequestRow

\* A move of stock stirs requests and moves none.
LEMMA MovesStir ==
  ASSUME RequestTypes, NEW call \in calls, MoveStock(call), NEW c \in Calls
  PROVE  /\ req'[c].at = req[c].at /\ req'[c].event = req[c].event
         /\ req'[c].into = req[c].into /\ req'[c].saw = req[c].saw
         /\ ~req'[c].stirred => req'[c] = req[c] /\ c \notin Watching(call.to[1], call.to[2])
BY StirredStays DEF MoveStock

\* The shelf is open, and the adjusted level is not below zero.
Adjustable(c) ==
  shelves[req[c].into].active /\ Level(c) + Said(c).target - req[c].saw >= 0

\* An adjustment takes its request to the mark and stirs others.
LEMMA AdjustStirs ==
  ASSUME RequestTypes, NEW c \in Calls, Adjust(c), Adjustable(c), NEW b \in Calls
  PROVE  /\ req'[b].event = req[b].event /\ req'[b].into = req[b].into
         /\ req'[b].saw = req[b].saw
         /\ b # c => /\ req'[b].at = req[b].at
                     /\ ~req'[b].stirred => /\ req'[b] = req[b]
                                            /\ b \notin Watching(req[c].into, Said(c).sku)
         /\ b = c => req'[b].at = "mark" /\ req'[b].stirred = req[b].stirred
<1>1. req[c] \in RequestRow
  BY DEF RequestTypes
<1>2. req'[b] = IF b = c THEN [req[c] EXCEPT !.at = "mark"]
                ELSE IF b \in Watching(req[c].into, Said(c).sku) THEN Stir(req[b]) ELSE req[b]
  BY DEF Adjust, Adjustable
<1>3. CASE b = c
  BY <1>1, <1>2, <1>3 DEF RequestRow
<1>4. CASE b # c
  BY <1>2, <1>4, StirredStays
<1> QED BY <1>3, <1>4

-----------------------------------------------------------------------------
(* Every stage fits.                                                       *)

VariantsStay == \A k \in Skus : variants[k] # NoVariant => variants'[k] # NoVariant

\* A request that stays where it is still fits.
LEMMA OthersFit ==
  ASSUME StorefrontTypes, StagesFit, VariantsStay, NEW b \in Calls,
         req'[b].at = req[b].at, req'[b].event = req[b].event, req'[b].into = req[b].into
  PROVE  StageFits(b)'
<1>1. Said(b)' = Said(b) /\ Said(b).sku \in Skus
  BY SaidIsTyped DEF Said, EventOf
<1> QED BY <1>1 DEF StagesFit, StageFits, VariantsStay

\* When one request goes on, only its own fit is to be shown.
LEMMA OneMoves ==
  ASSUME StorefrontTypes, StagesFit, VariantsStay, NEW c \in Calls, NEW at, MovesTo(c, at),
         StageFits(c)'
  PROVE  StagesFit'
<1>1. \A b \in Calls \ {c} : StageFits(b)'
  BY OthersFit DEF MovesTo
<1> QED BY <1>1 DEF StagesFit

\* The steps that fit whatever the event says.
LEMMA LeavingFits ==
  ASSUME NEW c \in Calls, NEW at, MovesTo(c, at),
         at \in {"auth", "find", "enqueue", "attempt", "touch", "markFailed", "done"}
  PROVE  StageFits(c)'
BY DEF MovesTo, StageFits

\* A request begins with the order or the product its event tells of.
LEMMA FirstFits ==
  ASSUME StorefrontTypes, NEW c \in Calls, MovesTo(c, First(Said(c).type))
  PROVE  StageFits(c)'
<1>1. Said(c)' = Said(c) /\ Said(c).type \in {"order", "product"}
  BY SaidIsTyped DEF MovesTo, Said, EventOf, OrderPayload, ProductPayload
<1> QED BY <1>1 DEF MovesTo, First, StageFits

LEMMA StagesFitStep ==
  StorefrontTypes /\ StagesFit /\ [StorefrontNext]_storefrontVars => StagesFit'
<1> SUFFICES ASSUME StorefrontTypes, StagesFit, [StorefrontNext]_storefrontVars
             PROVE  StagesFit'
  OBVIOUS
<1> USE DEF catalogVars, historyVars, RowsStay
<1>0. RequestTypes
  BY DEF RequestTypes, StorefrontTypes
<1>1. ASSUME NEW c \in Calls,
             Authenticate(c) \/ Enqueue(c) \/ FindFailed(c) \/ IncrementAttempt(c)
      PROVE  StagesFit'
  <2>1. VariantsStay
    BY <1>1 DEF Authenticate, Enqueue, FindFailed, IncrementAttempt, VariantsStay
  <2>2. \/ \E at \in {"enqueue", "attempt", "done"} : MovesTo(c, at)
        \/ MovesTo(c, First(Said(c).type))
    BY <1>1, <1>0, GoesMove
    DEF Authenticate, Enqueue, FindFailed, RunAgain, RefuseAgain, IncrementAttempt
  <2> QED BY <2>1, <2>2, LeavingFits, FirstFits, OneMoves
<1>2. ASSUME NEW c \in Calls,
             FindLines(c) \/ FindCustomer(c) \/ CreateCustomer(c) \/ FindWinner(c)
               \/ CreateOrder(c)
      PROVE  StagesFit'
  <2>1. VariantsStay /\ Said(c).type = "order"
    BY <1>2
    DEF FindLines, FindCustomer, CreateCustomer, FindWinner, CreateOrder, StagesFit, StageFits,
        VariantsStay
  <2>2. \E at \in {"customer", "register", "winner", "order", "mark", "markFailed"} :
          MovesTo(c, at)
    BY <1>2, <1>0, GoesMove
    DEF FindLines, FindCustomer, CreateCustomer, FindWinner, CreateOrder, Caught
  <2>3. StageFits(c)'
    BY <2>1, <2>2 DEF MovesTo, Said, EventOf, StageFits
  <2> QED BY <2>1, <2>2, <2>3, OneMoves
<1>3. ASSUME NEW c \in Calls, MatchSku(c) \/ CreateProduct(c) PROVE StagesFit'
  <2>1. VariantsStay /\ Said(c).type = "product"
    BY <1>3 DEF MatchSku, CreateProduct, StagesFit, StageFits, VariantsStay
  <2>2. /\ variants' = variants
        /\ \/ MovesTo(c, "variant") /\ variants[Said(c).sku] # NoVariant
           \/ MovesTo(c, "product") \/ MovesTo(c, "newVariant")
    BY <1>3, <1>0, GoesMove DEF MatchSku, CreateProduct, Sold
  <2>3. StageFits(c)'
    BY <2>1, <2>2 DEF MovesTo, Said, EventOf, StageFits
  <2> QED BY <2>1, <2>2, <2>3, OneMoves
<1>4. ASSUME NEW c \in Calls, UpdateVariant(c) \/ CreateVariant(c) PROVE StagesFit'
  <2>1. Said(c).type = "product" /\ Said(c).sku \in Skus
    BY <1>4, SaidIsTyped DEF UpdateVariant, CreateVariant, StagesFit, StageFits
  <2>2. VariantsStay
    <3>1. UpdateVariant(c) => VariantsStay
      <4>1. SUFFICES ASSUME UpdateVariant(c), Said(c).active # NoRow PROVE VariantsStay
        BY DEF UpdateVariant, VariantsStay
      <4>2. variants[Said(c).sku] \in VariantRow /\ Said(c).active \in BOOLEAN
        BY <4>1, <2>1, SaidIsTyped DEF UpdateVariant, StagesFit, StageFits, StorefrontTypes
      <4>3. [product |-> variants[Said(c).sku].product, active |-> Said(c).active] \in VariantRow
        BY <4>2 DEF VariantRow
      <4> QED BY <4>1, <4>3, <2>1, StorefrontAssumption
              DEF UpdateVariant, VariantsStay, StorefrontTypes
    <3>2. CreateVariant(c) => VariantsStay
      <4>1. [product |-> c, active |-> TRUE] \in VariantRow
        BY DEF VariantRow, ProductIds
      <4> QED BY <4>1, <2>1, StorefrontAssumption
              DEF CreateVariant, VariantsStay, StorefrontTypes
    <3> QED BY <1>4, <3>1, <3>2
  <2>3. MovesTo(c, "warehouse") \/ MovesTo(c, "markFailed")
    BY <1>4, <1>0, GoesMove DEF UpdateVariant, CreateVariant, Caught
  <2>4. StageFits(c)'
    BY <2>1, <2>3 DEF MovesTo, Said, EventOf, StageFits
  <2> QED BY <2>2, <2>3, <2>4, OneMoves
<1>5. ASSUME NEW c \in Calls, ResolveWarehouse(c) \/ ReadStock(c) PROVE StagesFit'
  <2>1. VariantsStay /\ Said(c).type = "product"
    BY <1>5 DEF ResolveWarehouse, ReadStock, StagesFit, StageFits, VariantsStay
  <2>2. \/ MovesTo(c, "markFailed")
        \/ \E at \in {"stock", "adjust", "mark"} : MovesTo(c, at) /\ req'[c].into \in Warehouses
    <3>1. CASE ResolveWarehouse(c)
      <4>1. req[c].into \in Warehouses \cup {NoWarehouse}
        BY <1>0, FieldsAreTyped
      <4> QED BY <3>1, <4>1, <1>0, GoesMove DEF ResolveWarehouse, Caught, Open
    <3>2. CASE ReadStock(c)
      <4>1. req[c].into \in Warehouses
        BY <3>2 DEF ReadStock, StagesFit, StageFits
      <4> QED BY <3>2, <4>1, <1>0, GoesMove DEF ReadStock
    <3> QED BY <1>5, <3>1, <3>2
  <2>3. StageFits(c)'
    BY <2>1, <2>2 DEF MovesTo, Said, EventOf, StageFits
  <2> QED BY <2>1, <2>2, <2>3, OneMoves
<1>6. ASSUME NEW c \in Calls, Adjust(c) PROVE StagesFit'
  <2>1. /\ VariantsStay /\ Said(c).type = "product" /\ req[c].into \in Warehouses
    BY <1>6 DEF Adjust, StagesFit, StageFits, VariantsStay
  <2>2. CASE Adjustable(c)
    <3>1. \A b \in Calls \ {c} : StageFits(b)'
      BY <1>6, <2>1, <2>2, <1>0, AdjustStirs, OthersFit
    <3>2. StageFits(c)'
      BY <1>6, <2>1, <2>2, <1>0, AdjustStirs DEF Said, EventOf, StageFits
    <3> QED BY <3>1, <3>2 DEF StagesFit
  <2>3. CASE ~Adjustable(c)
    <3>1. MovesTo(c, "markFailed")
      BY <1>6, <2>3, <1>0, GoesMove DEF Adjust, Adjustable, Caught
    <3> QED BY <2>1, <3>1, LeavingFits, OneMoves
  <2> QED BY <2>2, <2>3
<1>7. ASSUME NEW c \in Calls,
             MarkProcessed(c) \/ Touch(c) \/ MarkFailed(c) \/ StatementFails(c) \/ Die(c)
      PROVE  StagesFit'
  <2>1. VariantsStay
    BY <1>7 DEF MarkProcessed, Touch, MarkFailed, StatementFails, Die, VariantsStay
  <2>2. \E at \in {"touch", "markFailed", "done"} : MovesTo(c, at)
    BY <1>7, <1>0, GoesMove DEF MarkProcessed, Touch, MarkFailed, StatementFails, Die, Caught
  <2> QED BY <2>1, <2>2, LeavingFits, OneMoves
<1>8. ASSUME NEW call \in calls, User(call) PROVE StagesFit'
  <2>1. VariantsStay
    BY <1>8 DEF User, UpdateConnection, RotateKey, Revoke, ArchiveCustomer, MakeDefault,
                ArchiveWarehouse, MoveStock, VariantsStay
  <2>2. ASSUME NEW b \in Calls
        PROVE  /\ req'[b].at = req[b].at /\ req'[b].event = req[b].event
               /\ req'[b].into = req[b].into
    <3>1. CASE MoveStock(call)
      BY <3>1, <1>0, MovesStir
    <3>2. CASE ~MoveStock(call)
      BY <1>8, <3>2 DEF User, UpdateConnection, RotateKey, Revoke, ArchiveCustomer, MakeDefault,
                        ArchiveWarehouse
    <3> QED BY <3>1, <3>2
  <2> QED BY <2>1, <2>2, OthersFit DEF StagesFit
<1>9. CASE UNCHANGED storefrontVars
  BY <1>9 DEF storefrontVars, StagesFit, StageFits, Said, EventOf
<1> QED BY <1>1, <1>2, <1>3, <1>4, <1>5, <1>6, <1>7, <1>8, <1>9 DEF StorefrontNext, RequestStep

-----------------------------------------------------------------------------
(* What has been read of a level is still so.                              *)

LevelsStay == \A w \in Warehouses : shelves'[w].onHand = shelves[w].onHand

\* One level set, the others stay.
LEMMA LevelsAfter ==
  ASSUME StorefrontTypes, NEW w \in Warehouses, NEW sku \in Skus, NEW level \in Nat,
         shelves' = [shelves EXCEPT ![w] = WithLevel(shelves[w], sku, level)]
  PROVE  \A v \in Warehouses, k \in Skus :
           shelves'[v].onHand[k] = IF v = w /\ k = sku THEN level ELSE shelves[v].onHand[k]
<1>1. shelves \in [Warehouses -> ShelfRow] /\ shelves[w] \in ShelfRow
  BY DEF StorefrontTypes
<1>2. shelves'[w] = WithLevel(shelves[w], sku, level)
      /\ \A v \in Warehouses \ {w} : shelves'[v] = shelves[v]
  BY <1>1
<1>3. \A k \in Skus : shelves'[w].onHand[k] = IF k = sku THEN level ELSE shelves[w].onHand[k]
  BY <1>1, <1>2, LevelSet
<1> QED BY <1>2, <1>3

\* What LevelsAreWatched says of one request.
LevelWatched(c) ==
  /\ req[c].at = "adjust" /\ ~req[c].stirred => req[c].saw = Level(c)
  /\ req[c].at = "mark" /\ Said(c).type = "product" /\ ~req[c].stirred => Level(c) = Said(c).target

LEMMA LevelsWatchedEach ==
  LevelsAreWatched <=> \A c \in Calls : LevelWatched(c)
BY DEF LevelsAreWatched, StockMeetsTheFeed, LevelWatched

\* A request that stays as it is still watches a level nobody wrote.
LEMMA OthersWatch ==
  ASSUME StagesFit, LevelsAreWatched, NEW b \in Calls, req'[b] = req[b],
         req[b].into \in Warehouses =>
           shelves'[req[b].into].onHand[Said(b).sku] = Level(b)
  PROVE  LevelWatched(b)'
<1>1. Said(b)' = Said(b) /\ LevelWatched(b)
  BY LevelsWatchedEach DEF Said, EventOf
<1>2. SUFFICES ASSUME req[b].into \in Warehouses PROVE LevelWatched(b)'
  BY <1>1 DEF LevelWatched, StagesFit, StageFits
<1> QED BY <1>1, <1>2 DEF LevelWatched, Level

\* When levels stay and one request goes on, only what that one has read is to be shown.
LEMMA OneWatches ==
  ASSUME StagesFit, LevelsAreWatched, LevelsStay, NEW c \in Calls, NEW at, MovesTo(c, at),
         LevelWatched(c)'
  PROVE  LevelsAreWatched'
<1>1. \A b \in Calls \ {c} : LevelWatched(b)'
  BY OthersWatch DEF MovesTo, LevelsStay, Level
<1> QED BY <1>1, LevelsWatchedEach DEF LevelsAreWatched, StockMeetsTheFeed, LevelWatched

LEMMA LevelsAreWatchedStep ==
  StorefrontTypes /\ CallsAreGiven /\ StagesFit /\ LevelsAreWatched
    /\ [StorefrontNext]_storefrontVars => LevelsAreWatched'
<1> SUFFICES ASSUME StorefrontTypes, CallsAreGiven, StagesFit, LevelsAreWatched,
                    [StorefrontNext]_storefrontVars
             PROVE  LevelsAreWatched'
  OBVIOUS
<1> USE DEF catalogVars, historyVars, RowsStay
<1>0. RequestTypes
  BY DEF RequestTypes, StorefrontTypes
<1>1. ASSUME NEW c \in Calls,
             \/ Authenticate(c) \/ Enqueue(c) \/ FindFailed(c) \/ IncrementAttempt(c)
             \/ FindLines(c) \/ FindCustomer(c) \/ CreateCustomer(c) \/ FindWinner(c)
             \/ MatchSku(c) \/ UpdateVariant(c) \/ CreateProduct(c) \/ CreateVariant(c)
             \/ ResolveWarehouse(c)
      PROVE  LevelsAreWatched'
  <2>1. LevelsStay
    BY <1>1 DEF Authenticate, Enqueue, FindFailed, IncrementAttempt, FindLines, FindCustomer,
                CreateCustomer, FindWinner, MatchSku, UpdateVariant, CreateProduct,
                CreateVariant, ResolveWarehouse, LevelsStay
  <2>2. \E at \in Ats \ {"adjust", "mark"} : MovesTo(c, at)
    <3>1. CASE Authenticate(c) \/ Enqueue(c) \/ FindFailed(c) \/ IncrementAttempt(c)
      BY <3>1, <1>0, GoesMove
      DEF Authenticate, Enqueue, FindFailed, RunAgain, RefuseAgain, IncrementAttempt, First,
          Ats, Guarded
    <3>2. CASE FindLines(c) \/ FindCustomer(c) \/ CreateCustomer(c) \/ FindWinner(c)
      BY <3>2, <1>0, GoesMove
      DEF FindLines, FindCustomer, CreateCustomer, FindWinner, Caught, Ats, Guarded
    <3>3. CASE MatchSku(c) \/ UpdateVariant(c) \/ CreateProduct(c) \/ CreateVariant(c)
      BY <3>3, <1>0, GoesMove
      DEF MatchSku, UpdateVariant, CreateProduct, CreateVariant, Caught, Ats, Guarded
    <3>4. CASE ResolveWarehouse(c)
      BY <3>4, <1>0, GoesMove DEF ResolveWarehouse, Caught, Ats, Guarded
    <3> QED BY <1>1, <3>1, <3>2, <3>3, <3>4
  <2>3. LevelWatched(c)'
    BY <2>2 DEF MovesTo, LevelWatched
  <2> QED BY <2>1, <2>2, <2>3, OneWatches
<1>2. ASSUME NEW c \in Calls, CreateOrder(c) PROVE LevelsAreWatched'
  <2>1. LevelsStay /\ Said(c).type = "order"
    BY <1>2 DEF CreateOrder, LevelsStay, StagesFit, StageFits
  <2>2. MovesTo(c, "mark") \/ MovesTo(c, "markFailed")
    BY <1>2, <1>0, GoesMove DEF CreateOrder, Caught
  <2>3. LevelWatched(c)'
    BY <2>1, <2>2 DEF MovesTo, LevelWatched, Said, EventOf
  <2> QED BY <2>1, <2>2, <2>3, OneWatches
<1>3. ASSUME NEW c \in Calls, ReadStock(c) PROVE LevelsAreWatched'
  <2>1. LevelsStay /\ shelves' = shelves
    BY <1>3 DEF ReadStock, LevelsStay
  <2>2. /\ req'[c].into = req[c].into /\ req'[c].saw = Level(c)
        /\ IF Level(c) = Said(c).target THEN MovesTo(c, "mark") ELSE MovesTo(c, "adjust")
    BY <1>3, <1>0, GoesMove DEF ReadStock
  <2>3. LevelWatched(c)'
    BY <2>1, <2>2 DEF MovesTo, LevelWatched, Level, Said, EventOf
  <2> QED BY <2>1, <2>2, <2>3, OneWatches
<1>4. ASSUME NEW c \in Calls, Adjust(c) PROVE LevelsAreWatched'
  <2> DEFINE w == req[c].into
             sku == Said(c).sku
             level == Level(c) + Said(c).target - req[c].saw
  <2>1. /\ w \in Warehouses /\ sku \in Skus /\ Said(c).type = "product"
        /\ Level(c) \in Nat /\ Said(c).target \in Nat /\ req[c].saw \in Nat
    <3>1. Said(c).type = "product" /\ req[c].into \in Warehouses
      BY <1>4 DEF Adjust, StagesFit, StageFits
    <3> QED BY <3>1, <1>0, SaidIsTyped, LevelsAreUnits, FieldsAreTyped DEF Level
  <2>2. CASE Adjustable(c)
    <3>1. level \in Nat
      BY <2>1, <2>2 DEF Adjustable
    <3>2. shelves' = [shelves EXCEPT ![w] = WithLevel(shelves[w], sku, level)]
      BY <1>4, <2>2 DEF Adjust, Adjustable
    <3>3. \A v \in Warehouses, k \in Skus :
            shelves'[v].onHand[k] = IF v = w /\ k = sku THEN level ELSE shelves[v].onHand[k]
      <4> HIDE DEF w, sku, level
      <4>1. w \in Warehouses /\ sku \in Skus
        BY <2>1
      <4> QED BY ONLY <4>1, <3>1, <3>2, StorefrontTypes, LevelsAfter
    <3>4. ASSUME NEW b \in Calls, b # c PROVE LevelWatched(b)'
      <4>1. SUFFICES ASSUME ~req'[b].stirred, req'[b].at \in {"adjust", "mark"},
                            Said(b)'.type = "product"
                     PROVE  LevelWatched(b)'
        <5>1. req'[b].at = "adjust" => Said(b)'.type = "product"
          BY StagesFitStep DEF StagesFit, StageFits
        <5> QED BY <5>1 DEF LevelWatched
      <4>2. /\ req'[b] = req[b] /\ b \notin Watching(w, sku)
        BY <1>4, <2>2, <1>0, <3>4, <4>1, AdjustStirs
      <4>3. Said(b)' = Said(b) /\ Said(b).sku \in Skus
        BY <4>2, SaidIsTyped DEF Said, EventOf
      <4>4. ~(Said(b).sku = sku /\ req[b].into = w)
        BY <4>1, <4>2, <4>3 DEF Watching
      <4> QED BY <3>3, <4>2, <4>3, <4>4, OthersWatch DEF Level
    <3>5. LevelWatched(c)'
      <4>1. /\ req'[c].at = "mark" /\ req'[c].into = w /\ Said(c)' = Said(c)
            /\ req'[c].stirred = req[c].stirred
        BY <1>4, <2>2, <1>0, AdjustStirs DEF Said, EventOf
      <4>2. Level(c)' = level
        BY <3>3, <4>1, <2>1 DEF Level
      <4>3. ~req[c].stirred => req[c].saw = Level(c)
        BY <1>4 DEF Adjust, LevelsAreWatched
      <4>4. ~req[c].stirred => level = Said(c).target
        BY <4>3, <2>1
      <4> QED BY <4>1, <4>2, <4>4 DEF LevelWatched
    <3> QED BY <3>4, <3>5, LevelsWatchedEach DEF LevelsAreWatched, StockMeetsTheFeed, LevelWatched
  <2>3. CASE ~Adjustable(c)
    <3>1. MovesTo(c, "markFailed") /\ LevelsStay
      BY <1>4, <2>3, <1>0, GoesMove DEF Adjust, Adjustable, Caught, LevelsStay
    <3>2. LevelWatched(c)'
      BY <3>1 DEF MovesTo, LevelWatched
    <3> QED BY <3>1, <3>2, OneWatches
  <2> QED BY <2>2, <2>3
<1>5. ASSUME NEW c \in Calls,
             MarkProcessed(c) \/ Touch(c) \/ MarkFailed(c) \/ StatementFails(c) \/ Die(c)
      PROVE  LevelsAreWatched'
  <2>1. LevelsStay
    BY <1>5 DEF MarkProcessed, Touch, MarkFailed, StatementFails, Die, LevelsStay
  <2>2. \E at \in {"touch", "markFailed", "done"} : MovesTo(c, at)
    BY <1>5, <1>0, GoesMove DEF MarkProcessed, Touch, MarkFailed, StatementFails, Die, Caught
  <2>3. LevelWatched(c)'
    BY <2>2 DEF MovesTo, LevelWatched
  <2> QED BY <2>1, <2>2, <2>3, OneWatches
<1>6. ASSUME NEW call \in calls, MoveStock(call) PROVE LevelsAreWatched'
  <2> DEFINE w == call.to[1]
             sku == call.to[2]
             level == shelves[w].onHand[sku] + call.to[3]
  <2>1. w \in Warehouses /\ sku \in Skus /\ call.to[3] \in Int
    BY <1>6, ScenariosAssumption DEF CallsAreGiven, MoveStock
  <2>2. level \in Nat
    BY <1>6, <2>1, LevelsAreUnits DEF MoveStock
  <2>3. shelves' = [shelves EXCEPT ![w] = WithLevel(shelves[w], sku, level)]
    BY <1>6 DEF MoveStock
  <2>4. \A v \in Warehouses, k \in Skus :
          shelves'[v].onHand[k] = IF v = w /\ k = sku THEN level ELSE shelves[v].onHand[k]
    BY <2>1, <2>2, <2>3, LevelsAfter
  <2>5. ASSUME NEW b \in Calls PROVE LevelWatched(b)'
    <3>1. SUFFICES ASSUME ~req'[b].stirred, req'[b].at \in {"adjust", "mark"},
                          Said(b)'.type = "product"
                   PROVE  LevelWatched(b)'
      <4>1. req'[b].at = "adjust" => Said(b)'.type = "product"
        BY StagesFitStep DEF StagesFit, StageFits
      <4> QED BY <4>1 DEF LevelWatched
    <3>2. req'[b] = req[b] /\ b \notin Watching(w, sku)
      BY <1>6, <1>0, <3>1, MovesStir
    <3>3. Said(b)' = Said(b) /\ Said(b).sku \in Skus
      BY <3>2, SaidIsTyped DEF Said, EventOf
    <3>4. ~(Said(b).sku = sku /\ req[b].into = w)
      BY <3>1, <3>2, <3>3 DEF Watching
    <3> QED BY <2>4, <3>2, <3>3, <3>4, OthersWatch DEF Level
  <2> QED BY <2>5, LevelsWatchedEach DEF LevelsAreWatched, StockMeetsTheFeed, LevelWatched
<1>7. ASSUME NEW call \in calls, User(call), ~MoveStock(call) PROVE LevelsAreWatched'
  <2>1. req' = req
    BY <1>7 DEF User, UpdateConnection, RotateKey, Revoke, ArchiveCustomer, MakeDefault,
                ArchiveWarehouse
  <2>2. LevelsStay
    <3>1. \A v \in Warehouses : shelves[v] \in ShelfRow
      BY DEF StorefrontTypes
    <3>2. \A v \in Warehouses :
            /\ [shelves[v] EXCEPT !.default = v = call.to].onHand = shelves[v].onHand
            /\ [shelves[v] EXCEPT !.active = FALSE, !.default = FALSE].onHand = shelves[v].onHand
      BY <3>1 DEF ShelfRow
    <3> QED BY <1>7, <3>2 DEF User, UpdateConnection, RotateKey, Revoke, ArchiveCustomer,
                              MakeDefault, ArchiveWarehouse, LevelsStay
  <2>3. \A b \in Calls : LevelWatched(b)'
    BY <2>1, <2>2, OthersWatch DEF LevelsStay, Level
  <2> QED BY <2>3, LevelsWatchedEach DEF LevelsAreWatched, StockMeetsTheFeed, LevelWatched
<1>8. CASE UNCHANGED storefrontVars
  BY <1>8 DEF storefrontVars, LevelsAreWatched, StockMeetsTheFeed, Level, Said, EventOf
<1> QED BY <1>1, <1>2, <1>3, <1>4, <1>5, <1>6, <1>7, <1>8 DEF StorefrontNext, RequestStep

-----------------------------------------------------------------------------
(* One order for an event.                                                 *)

OrdersAreSettled == RunsAreAlone /\ OrdersAreMarked /\ OneOrderEach

Idle == {"auth", "find", "enqueue", "done"}

\* A request that goes on changes what is running at itself alone.
LEMMA RunningAfter ==
  ASSUME RequestTypes, NEW c \in Calls, NEW at, MovesTo(c, at), NEW e
  PROVE  /\ EventOf(c) = e /\ at \notin Idle => Running(e)' = Running(e) \cup {c}
         /\ ~(EventOf(c) = e /\ at \notin Idle) => Running(e)' = Running(e) \ {c}
         /\ c \in Running(e) <=> EventOf(c) = e /\ req[c].at \notin Idle
<1>1. c \in Running(e) <=> EventOf(c) = e /\ req[c].at \notin Idle
  BY DEF Running, EventOf, Idle
<1>2. c \in Running(e)' <=> EventOf(c) = e /\ at \notin Idle
  BY DEF MovesTo, Running, EventOf, Idle
<1>3. \A b \in Calls \ {c} : b \in Running(e)' <=> b \in Running(e)
  BY DEF MovesTo, Running
<1>4. Running(e) \subseteq Calls /\ Running(e)' \subseteq Calls
  BY DEF Running
<1> QED BY <1>1, <1>2, <1>3, <1>4

\* A step that runs no event and moves nobody's run keeps the orders as settled as they were.
LEMMA RunsStay ==
  ASSUME OrdersAreSettled, events' = events, orders' = orders, slipped' = slipped,
         crossed' = crossed, orders \subseteq Events \X Calls,
         \A b \in Calls : req'[b].at = req[b].at /\ req'[b].event = req[b].event
  PROVE  OrdersAreSettled'
<1>1. \A e : Running(e)' = Running(e)
  BY DEF Running
<1>2. \A o \in orders : o[2] \in Calls
  OBVIOUS
<1> QED BY <1>1, <1>2 DEF OrdersAreSettled, RunsAreAlone, OrdersAreMarked, OneOrderEach, EventOf

\* An idle request that stays idle has no unmarked order.
LEMMA IdlersSettle ==
  ASSUME StorefrontTypes, OrdersAreSettled, NEW c \in Calls, NEW at, MovesTo(c, at),
         req[c].at \in Idle \ {"done"}, at \in Idle,
         events' = events, orders' = orders, slipped' = slipped, crossed' = crossed
  PROVE  OrdersAreSettled'
<1>0. RequestTypes /\ orders \subseteq Events \X Calls
  BY DEF RequestTypes, StorefrontTypes
<1>1. ASSUME NEW e PROVE Running(e)' = Running(e)
  BY <1>0, RunningAfter DEF Idle
<1>2. RunsAreAlone'
  BY <1>1 DEF OrdersAreSettled, RunsAreAlone
<1>3. OneOrderEach'
  BY DEF OrdersAreSettled, OneOrderEach
<1>4. \A o \in orders : o[1] \notin slipped \cup crossed => o[2] # c
  BY DEF OrdersAreSettled, OrdersAreMarked, Idle
<1>5. OrdersAreMarked'
  BY <1>0, <1>1, <1>4 DEF OrdersAreSettled, OrdersAreMarked, MovesTo, EventOf
<1> QED BY <1>2, <1>3, <1>5 DEF OrdersAreSettled

\* A run that goes on does not leave the mark behind.
LEMMA RunnersSettle ==
  ASSUME StorefrontTypes, OrdersAreSettled, NEW c \in Calls, NEW at, MovesTo(c, at),
         req[c].at \notin Idle, at \notin Idle \cup {"touch"},
         req[c].at \in {"mark", "touch", "markFailed"} => at \in {"mark", "markFailed"},
         events' = events, orders' = orders, slipped' = slipped, crossed' = crossed
  PROVE  OrdersAreSettled'
<1>0. RequestTypes /\ orders \subseteq Events \X Calls
  BY DEF RequestTypes, StorefrontTypes
<1>1. ASSUME NEW e PROVE Running(e)' = Running(e)
  <2>1. CASE EventOf(c) = e
    BY <1>0, <2>1, RunningAfter
  <2>2. CASE EventOf(c) # e
    BY <1>0, <2>2, RunningAfter
  <2> QED BY <2>1, <2>2
<1>2. RunsAreAlone'
  BY <1>1 DEF OrdersAreSettled, RunsAreAlone
<1>3. OneOrderEach'
  BY DEF OrdersAreSettled, OneOrderEach
<1>4. OrdersAreMarked'
  BY <1>0, <1>1 DEF OrdersAreSettled, OrdersAreMarked, MovesTo, EventOf, Idle
<1> QED BY <1>2, <1>3, <1>4 DEF OrdersAreSettled

\* A new event has no order, and its first run is its only one.
LEMMA NewEventsSettle ==
  ASSUME StorefrontTypes, OrdersAreSettled, NEW c \in Calls, NEW e, e = EventOf(c),
         NEW at, MovesTo(c, at),
         req[c].at = "enqueue", at \notin Idle, events[e] = NoRow,
         events' = [events EXCEPT ![e] = "pending"],
         orders' = orders, slipped' = slipped, crossed' = crossed
  PROVE  OrdersAreSettled'
<1>0. /\ RequestTypes /\ orders \subseteq Events \X Calls /\ e \in Events
      /\ events \in [Events -> EventStates \cup {NoRow}]
  BY SaidIsTyped DEF RequestTypes, StorefrontTypes
<1>1. Running(e) = {} /\ \A o \in orders : o[1] # e
  BY <1>0 DEF OrdersAreSettled, RunsAreAlone
<1>2. Running(e)' = {c} /\ \A d : d # e => Running(d)' = Running(d)
  <2>1. Running(e)' = {c}
    BY <1>0, <1>1, RunningAfter
  <2>2. ASSUME NEW d, d # e PROVE Running(d)' = Running(d)
    BY <1>0, <2>2, RunningAfter DEF Idle
  <2> QED BY <2>1, <2>2
<1>3. events'[e] = "pending" /\ \A d \in Events : d # e => events'[d] = events[d]
  BY <1>0
<1>4. RunsAreAlone'
  <2>1. e \in Events => events'[e] # NoRow
    BY <1>3, StorefrontAssumption DEF EventStates
  <2>2. \A b, d \in Running(e)' : b = d
    BY <1>2
  <2> QED BY <1>2, <1>3, <2>1, <2>2 DEF OrdersAreSettled, RunsAreAlone
<1>5. OneOrderEach'
  BY DEF OrdersAreSettled, OneOrderEach
<1>6. OrdersAreMarked'
  BY <1>0, <1>1, <1>2, <1>3 DEF OrdersAreSettled, OrdersAreMarked, MovesTo, EventOf
<1> QED BY <1>4, <1>5, <1>6 DEF OrdersAreSettled

\* A failed event run again has no order on its way but of a run it crosses.
LEMMA RunsAgainSettle ==
  ASSUME StorefrontTypes, OrdersAreSettled, NEW c \in Calls, NEW e, e = EventOf(c),
         NEW at, MovesTo(c, at),
         req[c].at \in Idle \ {"done"}, at \notin Idle, events[e] = "failed",
         crossed' = crossed \cup IF Running(e) # {} THEN {e} ELSE {},
         events' = events, orders' = orders, slipped' = slipped
  PROVE  OrdersAreSettled'
<1>0. RequestTypes /\ orders \subseteq Events \X Calls /\ e \in Events
  BY SaidIsTyped DEF RequestTypes, StorefrontTypes
<1>1. \A d : d # e => Running(d)' = Running(d)
  BY <1>0, RunningAfter
<1>2. Running(e)' = Running(e) \cup {c}
  BY <1>0, RunningAfter
<1>3. crossed \subseteq crossed' /\ (e \notin crossed' => Running(e) = {})
  OBVIOUS
<1>4. RunsAreAlone'
  <2>1. events[e] # NoRow
    BY StorefrontAssumption DEF EventStates
  <2>2. e \notin crossed' => \A b, d \in Running(e)' : b = d
    BY <1>2, <1>3
  <2> QED BY <1>1, <1>3, <2>1, <2>2 DEF OrdersAreSettled, RunsAreAlone
<1>5. OneOrderEach'
  BY <1>3 DEF OrdersAreSettled, OneOrderEach
<1>6. \A o \in orders : o[1] \notin slipped \cup crossed' => o[2] # c /\ o[1] # e
  <2>1. SUFFICES ASSUME NEW o \in orders, o[1] \notin slipped \cup crossed'
                 PROVE  o[2] # c /\ o[1] # e
    OBVIOUS
  <2>2. /\ o[2] \in Calls /\ req[o[2]].event = o[1]
        /\ req[o[2]].at \in {"mark", "touch", "markFailed", "done"}
        /\ req[o[2]].at \in {"touch", "done"} => events[o[1]] = "processed"
    BY <1>0, <1>3, <2>1 DEF OrdersAreSettled, OrdersAreMarked, EventOf
  <2>3. o[2] # c
    BY <2>2 DEF Idle
  <2>4. o[1] = e => o[2] \in Running(e)
    BY <2>2 DEF Running
  <2> QED BY <1>3, <2>1, <2>3, <2>4
<1>7. OrdersAreMarked'
  BY <1>0, <1>1, <1>3, <1>6 DEF OrdersAreSettled, OrdersAreMarked, MovesTo, EventOf
<1> QED BY <1>4, <1>5, <1>7 DEF OrdersAreSettled

\* The order a run stores is its event's first.
LEMMA NewOrdersSettle ==
  ASSUME StorefrontTypes, OrdersAreSettled, NEW c \in Calls, NEW e, e = EventOf(c),
         MovesTo(c, "mark"),
         req[c].at = "order", orders' = orders \cup {<<e, c>>},
         events' = events, slipped' = slipped, crossed' = crossed
  PROVE  OrdersAreSettled'
<1>0. RequestTypes /\ orders \subseteq Events \X Calls /\ e \in Events
  BY SaidIsTyped DEF RequestTypes, StorefrontTypes
<1>1. c \in Running(e) /\ \A d : Running(d)' = Running(d)
  BY <1>0, RunningAfter DEF Idle
<1>2. events[e] # NoRow
  BY <1>0, <1>1 DEF OrdersAreSettled, RunsAreAlone
<1>3. RunsAreAlone'
  BY <1>0, <1>1, <1>2 DEF OrdersAreSettled, RunsAreAlone
<1>4. \A o \in orders : o[1] \notin slipped \cup crossed => o[1] # e /\ o[2] # c
  <2>1. SUFFICES ASSUME NEW o \in orders, o[1] \notin slipped \cup crossed
                 PROVE  o[1] # e /\ o[2] # c
    OBVIOUS
  <2>2. /\ o[2] \in Calls /\ req[o[2]].event = o[1]
        /\ req[o[2]].at \in {"mark", "touch", "markFailed", "done"}
        /\ req[o[2]].at = "done" => Running(o[1]) = {}
    BY <1>0, <2>1 DEF OrdersAreSettled, OrdersAreMarked, EventOf
  <2>3. o[2] # c
    BY <2>2
  <2>4. o[1] = e => o[2] \in Running(e)
    BY <1>1, <2>2 DEF Running
  <2> QED BY <1>0, <1>1, <2>1, <2>3, <2>4 DEF OrdersAreSettled, RunsAreAlone
<1>5. OneOrderEach'
  BY <1>4 DEF OrdersAreSettled, OneOrderEach
<1>6. OrdersAreMarked'
  BY <1>0, <1>1, <1>4 DEF OrdersAreSettled, OrdersAreMarked, MovesTo, EventOf
<1> QED BY <1>3, <1>5, <1>6 DEF OrdersAreSettled

\* A run that marks its event processed was the only one.
LEMMA MarksSettle ==
  ASSUME StorefrontTypes, OrdersAreSettled, NEW c \in Calls, NEW e, e = EventOf(c),
         NEW at, MovesTo(c, at),
         req[c].at = "mark", at \in {"touch", "done"},
         events' = [events EXCEPT ![e] = "processed"],
         orders' = orders, slipped' = slipped, crossed' = crossed
  PROVE  OrdersAreSettled'
<1>0. /\ RequestTypes /\ orders \subseteq Events \X Calls /\ e \in Events
      /\ events \in [Events -> EventStates \cup {NoRow}]
  BY SaidIsTyped DEF RequestTypes, StorefrontTypes
<1>1. /\ c \in Running(e) /\ \A d : d # e => Running(d)' = Running(d)
      /\ \A d : Running(d)' \subseteq Running(d)
      /\ at = "done" => c \notin Running(e)'
  <2>1. c \in Running(e)
    BY <1>0, RunningAfter DEF Idle
  <2>2. ASSUME NEW d, d # e PROVE Running(d)' = Running(d)
    BY <1>0, <2>2, RunningAfter
  <2>3. Running(e)' \subseteq Running(e)
    BY <1>0, <2>1, RunningAfter
  <2>4. at = "done" => c \notin Running(e)'
    BY <1>0, RunningAfter DEF Idle
  <2> QED BY <2>1, <2>2, <2>3, <2>4
<1>2. events'[e] = "processed" /\ \A d \in Events : d # e => events'[d] = events[d]
  BY <1>0
<1>3. RunsAreAlone'
  <2>1. \A d \in Events : events'[d] = NoRow => events[d] = NoRow
    BY <1>2, StorefrontAssumption DEF EventStates
  <2> QED BY <1>1, <2>1 DEF OrdersAreSettled, RunsAreAlone
<1>4. OneOrderEach'
  BY DEF OrdersAreSettled, OneOrderEach
<1>5. ASSUME NEW o \in orders, o[1] = e, o[1] \notin slipped \cup crossed PROVE o[2] = c
  <2>1. /\ o[2] \in Calls /\ req[o[2]].event = o[1]
        /\ req[o[2]].at \in {"mark", "touch", "markFailed", "done"}
        /\ req[o[2]].at = "done" => Running(o[1]) = {}
    BY <1>0, <1>5 DEF OrdersAreSettled, OrdersAreMarked, EventOf
  <2>2. o[2] \in Running(e)
    BY <1>1, <1>5, <2>1 DEF Running
  <2> QED BY <1>0, <1>1, <1>5, <2>2 DEF OrdersAreSettled, RunsAreAlone
<1>6. e \notin crossed => Running(e) = {c}
  BY <1>0, <1>1 DEF OrdersAreSettled, RunsAreAlone
<1>7. OrdersAreMarked'
  <2>1. SUFFICES ASSUME NEW o \in orders
                 PROVE  /\ EventOf(o[2])' = o[1]
                        /\ o[1] \notin slipped \cup crossed =>
                             /\ req'[o[2]].at \in {"mark", "touch", "markFailed", "done"}
                             /\ req'[o[2]].at \in {"touch", "done"} => events'[o[1]] = "processed"
                             /\ req'[o[2]].at = "done" => Running(o[1])' = {}
    BY DEF OrdersAreMarked
  <2>2. o[1] \in Events /\ o[2] \in Calls /\ EventOf(o[2]) = o[1] /\ EventOf(o[2])' = o[1]
    BY <1>0 DEF OrdersAreSettled, OrdersAreMarked, MovesTo, EventOf
  <2>3. CASE o[1] = e
    <3>1. SUFFICES ASSUME o[1] \notin slipped \cup crossed
                   PROVE  /\ req'[o[2]].at \in {"mark", "touch", "markFailed", "done"}
                          /\ req'[o[2]].at = "done" => Running(o[1])' = {}
      BY <1>2, <2>2, <2>3
    <3>2. o[2] = c
      BY <1>5, <2>3, <3>1
    <3> QED BY <1>1, <1>6, <2>3, <3>1, <3>2 DEF MovesTo
  <2>4. CASE o[1] # e
    <3>1. o[2] # c /\ req'[o[2]] = req[o[2]]
      BY <2>2, <2>4 DEF MovesTo
    <3> QED BY <1>1, <1>2, <2>2, <2>4, <3>1 DEF OrdersAreSettled, OrdersAreMarked
  <2> QED BY <2>3, <2>4
<1> QED BY <1>3, <1>4, <1>7 DEF OrdersAreSettled

\* A run that ends with its event as it was: its order slips, or it was marked before.
LEMMA EndsSettle ==
  ASSUME StorefrontTypes, OrdersAreSettled, NEW c \in Calls, NEW e, e = EventOf(c),
         MovesTo(c, "done"),
         events' = events, orders' = orders, crossed' = crossed,
         (req[c].at = "touch" /\ slipped' = slipped) \/ Slip(c)
  PROVE  OrdersAreSettled'
<1>0. RequestTypes /\ orders \subseteq Events \X Calls /\ e \in Events
  BY SaidIsTyped DEF RequestTypes, StorefrontTypes
<1>1. \A d : Running(d)' = Running(d) \ {c}
  BY <1>0, RunningAfter DEF Idle
<1>2. slipped \subseteq slipped'
  BY DEF Slip
<1>3. RunsAreAlone'
  BY <1>1 DEF OrdersAreSettled, RunsAreAlone
<1>4. OneOrderEach'
  BY <1>2 DEF OrdersAreSettled, OneOrderEach
<1>5. ASSUME NEW o \in orders
      PROVE  /\ o[1] \in Events /\ o[2] \in Calls /\ o = <<o[1], o[2]>>
             /\ EventOf(o[2]) = o[1] /\ EventOf(o[2])' = o[1]
  BY <1>0 DEF OrdersAreSettled, OrdersAreMarked, MovesTo, EventOf
<1>6. OrdersAreMarked'
  <2>1. SUFFICES ASSUME NEW o \in orders, o[1] \notin slipped' \cup crossed
                 PROVE  /\ req'[o[2]].at \in {"mark", "touch", "markFailed", "done"}
                        /\ req'[o[2]].at \in {"touch", "done"} => events[o[1]] = "processed"
                        /\ req'[o[2]].at = "done" => Running(o[1])' = {}
    BY <1>5 DEF OrdersAreMarked
  <2>2. /\ req[o[2]].at \in {"mark", "touch", "markFailed", "done"}
        /\ req[o[2]].at \in {"touch", "done"} => events[o[1]] = "processed"
        /\ req[o[2]].at = "done" => Running(o[1]) = {}
    BY <1>2, <2>1 DEF OrdersAreSettled, OrdersAreMarked
  <2>3. CASE o[2] # c
    BY <1>1, <1>5, <2>2, <2>3 DEF MovesTo
  <2>4. CASE o[2] = c
    <3>1. req[c].at = "touch"
      <4>1. ~Slip(c)
        BY <1>5, <2>1, <2>4 DEF Slip
      <4> QED BY <4>1
    <3>2. c \in Running(e) /\ o[1] = e
      BY <1>5, <2>4, <3>1 DEF Running, EventOf
    <3>3. Running(e) = {c}
      BY <1>0, <1>2, <2>1, <3>2 DEF OrdersAreSettled, RunsAreAlone
    <3> QED BY <1>1, <2>2, <2>4, <3>1, <3>2, <3>3 DEF MovesTo
  <2> QED BY <2>3, <2>4
<1> QED BY <1>3, <1>4, <1>6 DEF OrdersAreSettled

\* A run that fails leaves no order behind that has not slipped.
LEMMA FailuresSettle ==
  ASSUME StorefrontTypes, OrdersAreSettled, NEW c \in Calls, NEW e, e = EventOf(c),
         MarkFailed(c)
  PROVE  OrdersAreSettled'
<1> USE DEF catalogVars, RowsStay
<1>0. /\ RequestTypes /\ orders \subseteq Events \X Calls /\ e \in Events
      /\ events \in [Events -> EventStates \cup {NoRow}]
  BY SaidIsTyped DEF RequestTypes, StorefrontTypes
<1>1. MovesTo(c, "done") /\ orders' = orders /\ crossed' = crossed /\ Slip(c)
  BY <1>0, GoesMove DEF MarkFailed
<1>2. c \in Running(e) /\ \A d : Running(d)' = Running(d) \ {c}
  <2>1. req[c].at = "markFailed"
    BY DEF MarkFailed
  <2> QED BY <1>0, <1>1, <2>1, RunningAfter DEF Idle
<1>3. events'[e] = "failed" /\ \A d \in Events : d # e => events'[d] = events[d]
  BY <1>0 DEF MarkFailed
<1>4. slipped \subseteq slipped'
  BY <1>1 DEF Slip
<1>5. RunsAreAlone'
  <2>1. \A d \in Events : events'[d] = NoRow => events[d] = NoRow
    BY <1>3, StorefrontAssumption DEF EventStates
  <2> QED BY <1>1, <1>2, <2>1 DEF OrdersAreSettled, RunsAreAlone
<1>6. OneOrderEach'
  BY <1>1, <1>4 DEF OrdersAreSettled, OneOrderEach
<1>7. ASSUME NEW o \in orders
      PROVE  /\ o[1] \in Events /\ o[2] \in Calls /\ o = <<o[1], o[2]>>
             /\ EventOf(o[2]) = o[1] /\ EventOf(o[2])' = o[1]
  BY <1>0, <1>1 DEF OrdersAreSettled, OrdersAreMarked, MovesTo, EventOf
<1>8. OrdersAreMarked'
  <2>1. SUFFICES ASSUME NEW o \in orders, o[1] \notin slipped' \cup crossed
                 PROVE  /\ req'[o[2]].at \in {"mark", "touch", "markFailed", "done"}
                        /\ req'[o[2]].at \in {"touch", "done"} => events'[o[1]] = "processed"
                        /\ req'[o[2]].at = "done" => Running(o[1])' = {}
    BY <1>1, <1>7 DEF OrdersAreMarked
  <2>2. /\ req[o[2]].at \in {"mark", "touch", "markFailed", "done"}
        /\ req[o[2]].at \in {"touch", "done"} => events[o[1]] = "processed"
        /\ req[o[2]].at = "done" => Running(o[1]) = {}
    BY <1>4, <2>1 DEF OrdersAreSettled, OrdersAreMarked
  <2>3. o[2] # c
    BY <1>1, <1>7, <2>1 DEF Slip
  <2>4. o[1] # e
    <3>1. SUFFICES ASSUME o[1] = e PROVE FALSE
      OBVIOUS
    <3>2. o[2] \in Running(e)
      BY <1>2, <1>7, <2>2, <3>1 DEF Running, EventOf
    <3> QED BY <1>0, <1>2, <1>4, <2>1, <2>3, <3>1, <3>2 DEF OrdersAreSettled, RunsAreAlone
  <2> QED BY <1>1, <1>2, <1>3, <1>7, <2>2, <2>3, <2>4 DEF MovesTo
<1> QED BY <1>5, <1>6, <1>8 DEF OrdersAreSettled

\* A step keeps the orders settled.
LEMMA OrdersAreSettledStep ==
  StorefrontTypes /\ OrdersAreSettled /\ [StorefrontNext]_storefrontVars => OrdersAreSettled'
<1> SUFFICES ASSUME StorefrontTypes, OrdersAreSettled, [StorefrontNext]_storefrontVars
             PROVE  OrdersAreSettled'
  OBVIOUS
<1> USE DEF catalogVars, historyVars, RowsStay
<1>0. RequestTypes /\ orders \subseteq Events \X Calls
  BY DEF RequestTypes, StorefrontTypes
<1>1. ASSUME NEW c \in Calls, Authenticate(c) PROVE OrdersAreSettled'
  <2>1. \E at \in {"enqueue", "done"} : MovesTo(c, at)
    BY <1>1, <1>0, GoesMove DEF Authenticate
  <2> QED BY <1>1, <2>1, IdlersSettle DEF Authenticate, Idle
<1>2. ASSUME NEW c \in Calls, Enqueue(c) PROVE OrdersAreSettled'
  <2>1. CASE events[EventOf(c)] = NoRow
    <3>1. First(Said(c).type) \notin Idle /\ MovesTo(c, First(Said(c).type))
      BY <1>2, <2>1, <1>0, GoesMove DEF Enqueue, First, Idle
    <3> QED BY <1>2, <2>1, <3>1, NewEventsSettle DEF Enqueue
  <2>2. CASE events[EventOf(c)] # NoRow
    <3>1. MovesTo(c, "done")
      BY <1>2, <2>2, <1>0, GoesMove DEF Enqueue
    <3> QED BY <1>2, <2>2, <3>1, IdlersSettle DEF Enqueue, Idle
  <2> QED BY <2>1, <2>2
<1>3. ASSUME NEW c \in Calls, FindFailed(c) PROVE OrdersAreSettled'
  <2>1. CASE events[EventOf(c)] = "failed"
    <3>1. MovesTo(c, "attempt")
      BY <1>3, <2>1, <1>0, GoesMove DEF FindFailed, RunAgain
    <3> QED BY <1>3, <2>1, <3>1, RunsAgainSettle DEF FindFailed, RunAgain, Idle
  <2>2. CASE events[EventOf(c)] # "failed"
    <3>1. MovesTo(c, "done")
      BY <1>3, <2>2, <1>0, GoesMove DEF FindFailed, RefuseAgain
    <3> QED BY <1>3, <2>2, <3>1, IdlersSettle DEF FindFailed, RefuseAgain, Idle
  <2> QED BY <2>1, <2>2
<1>4. ASSUME NEW c \in Calls,
             \/ IncrementAttempt(c) \/ FindLines(c) \/ FindCustomer(c) \/ CreateCustomer(c)
             \/ FindWinner(c) \/ MatchSku(c) \/ UpdateVariant(c) \/ CreateProduct(c)
             \/ CreateVariant(c) \/ ResolveWarehouse(c) \/ ReadStock(c)
      PROVE  OrdersAreSettled'
  <2>1. events' = events /\ orders' = orders /\ slipped' = slipped /\ crossed' = crossed
    BY <1>4 DEF IncrementAttempt, FindLines, FindCustomer, CreateCustomer, FindWinner, MatchSku,
                UpdateVariant, CreateProduct, CreateVariant, ResolveWarehouse, ReadStock
  <2>2. req[c].at \notin Idle \cup {"mark", "touch", "markFailed"}
    BY <1>4 DEF IncrementAttempt, FindLines, FindCustomer, CreateCustomer, FindWinner, MatchSku,
                UpdateVariant, CreateProduct, CreateVariant, ResolveWarehouse, ReadStock, Idle
  <2>3. \E at \in Ats \ (Idle \cup {"touch"}) : MovesTo(c, at)
    <3>1. CASE IncrementAttempt(c) \/ FindLines(c) \/ FindCustomer(c) \/ CreateCustomer(c)
      BY <3>1, <1>0, GoesMove
      DEF IncrementAttempt, First, FindLines, FindCustomer, CreateCustomer, Caught, Ats, Guarded,
          Idle
    <3>2. CASE FindWinner(c) \/ MatchSku(c)
      BY <3>2, <1>0, GoesMove DEF FindWinner, MatchSku, Caught, Ats, Guarded, Idle
    <3>3. CASE UpdateVariant(c) \/ CreateProduct(c)
      BY <3>3, <1>0, GoesMove DEF UpdateVariant, CreateProduct, Ats, Guarded, Idle
    <3>4. CASE CreateVariant(c) \/ ResolveWarehouse(c) \/ ReadStock(c)
      BY <3>4, <1>0, GoesMove
      DEF CreateVariant, ResolveWarehouse, ReadStock, Caught, Ats, Guarded, Idle
    <3> QED BY <1>4, <3>1, <3>2, <3>3, <3>4
  <2> QED BY <2>1, <2>2, <2>3, RunnersSettle
<1>5. ASSUME NEW c \in Calls, CreateOrder(c) PROVE OrdersAreSettled'
  <2>1. CASE Sold(Said(c).sku)
    <3>1. MovesTo(c, "mark")
      BY <1>5, <2>1, <1>0, GoesMove DEF CreateOrder
    <3> QED BY <1>5, <2>1, <3>1, NewOrdersSettle DEF CreateOrder
  <2>2. CASE ~Sold(Said(c).sku)
    <3>1. MovesTo(c, "markFailed")
      BY <1>5, <2>2, <1>0, GoesMove DEF CreateOrder, Caught
    <3> QED BY <1>5, <2>2, <3>1, RunnersSettle DEF CreateOrder, Idle
  <2> QED BY <2>1, <2>2
<1>6. ASSUME NEW c \in Calls, Adjust(c) PROVE OrdersAreSettled'
  <2>1. /\ req[c].at = "adjust" /\ events' = events /\ orders' = orders
        /\ slipped' = slipped /\ crossed' = crossed
    BY <1>6 DEF Adjust
  <2>2. CASE Adjustable(c)
    <3>1. \A b \in Calls : /\ req'[b].event = req[b].event
                           /\ b # c => req'[b].at = req[b].at
                           /\ b = c => req'[b].at = "mark"
      BY <1>6, <2>2, <1>0, AdjustStirs
    <3>2. \A e : Running(e)' = Running(e)
      BY <2>1, <3>1 DEF Running
    <3>3. \A o \in orders : o[2] \in Calls
      BY <1>0
    <3>4. \A o \in orders : o[1] \notin slipped \cup crossed => o[2] # c
      BY <2>1 DEF OrdersAreSettled, OrdersAreMarked
    <3>5. RunsAreAlone' /\ OneOrderEach'
      BY <2>1, <3>2 DEF OrdersAreSettled, RunsAreAlone, OneOrderEach
    <3>6. OrdersAreMarked'
      BY <2>1, <3>1, <3>2, <3>3, <3>4 DEF OrdersAreSettled, OrdersAreMarked, EventOf
    <3> QED BY <3>5, <3>6 DEF OrdersAreSettled
  <2>3. CASE ~Adjustable(c)
    <3>1. MovesTo(c, "markFailed")
      BY <1>6, <2>3, <1>0, GoesMove DEF Adjust, Adjustable, Caught
    <3> QED BY <2>1, <3>1, RunnersSettle DEF Idle
  <2> QED BY <2>2, <2>3
<1>7. ASSUME NEW c \in Calls, MarkProcessed(c) PROVE OrdersAreSettled'
  <2>1. \E at \in {"touch", "done"} : MovesTo(c, at)
    BY <1>7, <1>0, GoesMove DEF MarkProcessed
  <2> QED BY <1>7, <2>1, MarksSettle DEF MarkProcessed
<1>8. ASSUME NEW c \in Calls, Touch(c) \/ Die(c) PROVE OrdersAreSettled'
  <2>1. MovesTo(c, "done")
    BY <1>8, <1>0, GoesMove DEF Touch, Die
  <2> QED BY <1>8, <2>1, EndsSettle DEF Touch, Die
<1>9. ASSUME NEW c \in Calls, MarkFailed(c) PROVE OrdersAreSettled'
  BY <1>9, FailuresSettle
<1>10. ASSUME NEW c \in Calls, StatementFails(c) PROVE OrdersAreSettled'
  <2>1. MovesTo(c, "markFailed") /\ req[c].at \notin Idle
    BY <1>10, <1>0, GoesMove DEF StatementFails, Caught, Guarded, Idle
  <2> QED BY <1>10, <2>1, RunnersSettle DEF StatementFails, Idle
<1>11. ASSUME NEW call \in calls, User(call) PROVE OrdersAreSettled'
  <2>1. events' = events /\ orders' = orders /\ slipped' = slipped /\ crossed' = crossed
    BY <1>11 DEF User, UpdateConnection, RotateKey, Revoke, ArchiveCustomer, MakeDefault,
                 ArchiveWarehouse, MoveStock
  <2>2. \A b \in Calls : req'[b].at = req[b].at /\ req'[b].event = req[b].event
    <3>1. CASE MoveStock(call)
      BY <3>1, <1>0, MovesStir
    <3>2. CASE ~MoveStock(call)
      BY <1>11, <3>2 DEF User, UpdateConnection, RotateKey, Revoke, ArchiveCustomer, MakeDefault,
                         ArchiveWarehouse
    <3> QED BY <3>1, <3>2
  <2> QED BY <1>0, <2>1, <2>2, RunsStay
<1>12. CASE UNCHANGED storefrontVars
  BY <1>0, <1>12, RunsStay DEF storefrontVars
<1> QED BY <1>1, <1>2, <1>3, <1>4, <1>5, <1>6, <1>7, <1>8, <1>9, <1>10, <1>11, <1>12
        DEF StorefrontNext, RequestStep

\* A user's call is made once, and no other is added.
LEMMA CallsAreGivenStep ==
  CallsAreGiven /\ [StorefrontNext]_storefrontVars => CallsAreGiven'
<1> SUFFICES ASSUME CallsAreGiven, [StorefrontNext]_storefrontVars PROVE calls' \subseteq calls
  BY DEF CallsAreGiven
<1> USE DEF RowsStay
<1>1. ASSUME NEW c \in Calls, RequestStep(c) \/ StatementFails(c) \/ Die(c) PROVE calls' = calls
  BY <1>1 DEF RequestStep, Authenticate, Enqueue, FindFailed, IncrementAttempt, FindLines,
              FindCustomer, CreateCustomer, FindWinner, CreateOrder, MatchSku, UpdateVariant,
              CreateProduct, CreateVariant, ResolveWarehouse, ReadStock, Adjust, MarkProcessed,
              Touch, MarkFailed, StatementFails, Die
<1>2. ASSUME NEW call \in calls, User(call) PROVE calls' \subseteq calls
  BY <1>2 DEF User, UpdateConnection, RotateKey, Revoke, ArchiveCustomer, MakeDefault,
              ArchiveWarehouse, MoveStock, Ask
<1> QED BY <1>1, <1>2 DEF StorefrontNext, storefrontVars

\* A run begins with nothing ordered and no request under way.
LEMMA StorefrontBegins ==
  StorefrontInit => StorefrontInv
<1> SUFFICES ASSUME StorefrontInit PROVE StorefrontInv
  OBVIOUS
<1>1. PICK s \in Scenarios :
        /\ conn = [status |-> "active", key |-> 1, warehouse |-> s.warehouse]
        /\ events = [e \in Events |-> IF e \in s.failed THEN "failed" ELSE NoRow]
        /\ customers = s.customers
        /\ variants = s.variants
        /\ products = {s.variants[k].product : k \in {i \in Skus : s.variants[i] # NoVariant}}
        /\ shelves = s.shelves
        /\ req = [c \in Calls |->
              [at |-> s.requests[c].at, event |-> s.requests[c].event, key |-> s.requests[c].key,
               again |-> s.requests[c].at = "find", product |-> NoRow,
               into |-> NoWarehouse, saw |-> 0, stirred |-> FALSE, answer |-> NoRow]]
        /\ calls = s.calls
  BY DEF StorefrontInit
<1>2. orders = {} /\ slipped = {} /\ crossed = {} /\ lost = {}
  BY DEF StorefrontInit
<1>3. ASSUME NEW c \in Calls
      PROVE  req[c].at \in {"auth", "find", "done"} /\ req[c] \in RequestRow
  BY <1>1, ScenariosAssumption DEF RequestRow, Ats
<1>4. RequestTypes
  BY <1>1, <1>3 DEF RequestTypes
<1>5. products \subseteq ProductIds
  BY <1>1, ScenariosAssumption DEF VariantRow
<1>6. conn \in [status: {"active", "paused", "revoked"}, key: Nat,
                warehouse: Warehouses \cup {NoWarehouse}]
  BY <1>1, ScenariosAssumption
<1>7. events \in [Events -> EventStates \cup {NoRow}]
  BY <1>1 DEF EventStates
<1>8. StorefrontTypes
  BY <1>1, <1>2, <1>4, <1>5, <1>6, <1>7, ScenariosAssumption DEF StorefrontTypes, RequestTypes
<1>9. CallsAreGiven
  BY <1>1 DEF CallsAreGiven
<1>10. StagesFit /\ LevelsAreWatched
  BY <1>3 DEF StagesFit, StageFits, LevelsAreWatched, StockMeetsTheFeed
<1>11. \A e : Running(e) = {}
  BY <1>3 DEF Running
<1>12. RunsAreAlone /\ OrdersAreMarked /\ OneOrderEach
  BY <1>2, <1>11 DEF RunsAreAlone, OrdersAreMarked, OneOrderEach
<1> QED BY <1>8, <1>9, <1>10, <1>12 DEF StorefrontInv

\* The inbox: types, what each stage works on, what has been read of a level, and
\* whose order is whose, at every moment of every run.
THEOREM StorefrontInvariant == StorefrontSpec => []StorefrontInv
<1>1. StorefrontInit => StorefrontInv
  BY StorefrontBegins
<1>2. StorefrontInv /\ [StorefrontNext]_storefrontVars => StorefrontInv'
  BY StorefrontTypesStep, CallsAreGivenStep, StagesFitStep, LevelsAreWatchedStep,
     OrdersAreSettledStep DEF StorefrontInv, OrdersAreSettled
<1> QED BY <1>1, <1>2, PTL DEF StorefrontSpec

\* A set without two members has at most one.
LEMMA AtMostOneOrder ==
  ASSUME NEW S, \A o, p \in S : o = p
  PROVE  ~(Cardinality(S) > 1)
<1>1. CASE S = {}
  BY <1>1, FS_EmptySet
<1>2. CASE S # {}
  <2>1. PICK o \in S : S = {o}
    BY <1>2
  <2> QED BY <2>1, FS_Singleton
<1> QED BY <1>1, <1>2

\* An event the store sends again makes no second order, whatever requests run beside it: a
\* second one is there only of an event that was marked failed after its order was stored,
\* whose process died there, or that users ran again at the same time.
THEOREM StoreEventsMakeOneOrder == StorefrontSpec => []EventsMakeOneOrder
<1>1. StorefrontInv => EventsMakeOneOrder
  <2>1. SUFFICES ASSUME StorefrontInv, NEW e \in Events, e \notin slipped \cup crossed
                 PROVE  ~(Cardinality({o \in orders : o[1] = e}) > 1)
    BY DEF EventsMakeOneOrder
  <2>2. \A o, p \in {q \in orders : q[1] = e} : o = p
    BY <2>1 DEF StorefrontInv, OneOrderEach
  <2> QED BY <2>2, AtMostOneOrder
<1> QED BY <1>1, StorefrontInvariant, PTL

\* At the mark of a product event the level is the one the event gives, however requests
\* and stock moves interleave, unless somebody wrote it in between.
THEOREM StoreStockMeetsTheFeed == StorefrontSpec => []StockMeetsTheFeed
<1>1. StorefrontInv => StockMeetsTheFeed
  BY DEF StorefrontInv, LevelsAreWatched
<1> QED BY <1>1, StorefrontInvariant, PTL

=============================================================================

---------------------------- MODULE OrderStock -----------------------------
(***************************************************************************)
(* OrdersRepository.transition with its stock side effect, as concurrent   *)
(* READ COMMITTED transactions, together with the other writers of the     *)
(* same rows: the release and the reservation of single units and the      *)
(* adjustments and transfers of the inventory component, and the order     *)
(* edits that replace an order's items.                                    *)
(*                                                                         *)
(* A transition locks the order's row, checks the move on the status it    *)
(* read under that lock, reads the rows its effect works on WITHOUT a      *)
(* lock, then locks the levels one by one, in the order the database       *)
(* returned the rows.  What it writes is published when it commits.        *)
(* A foreign key makes the insert of an order's item or reservation wait   *)
(* for a transition of that order, and nothing else of it.                 *)
(***************************************************************************)
EXTENDS OrderBook

CONSTANTS
  Workers,    \* database connections, each runs one transaction at a time
  Nobody,     \* no worker: the holder of a free lock
  Targets,    \* bound: the states clients ask for
  MaxCommits, \* bound: nothing but a release begins once so many are committed
  MaxWrites,  \* bound: nor a write that is no transition, once so many of these are
  Releasing,  \* bound: the orders whose reservations clients also release one
              \*   by one, through the inventory component
  Unstocking  \* bound: the orders that clients also move while the company
              \*   does not use the inventory feature

ASSUME WorkerAssumption ==
  /\ Nobody \notin Workers
  /\ Targets \subseteq Statuses
  /\ MaxCommits \in Nat /\ MaxWrites \in Nat
  /\ Releasing \subseteq Orders

VARIABLES
  pc,         \* where the transaction of a worker is
  job,        \* what it does: the order, the target state, the effect
  todo,       \* the rows whose level it still has to lock, or that it deletes
  taken,      \* the reservations it has consumed, or the lines whose level it
              \*   has locked
  view,       \* the levels as the transaction sees them
  orderLock,  \* the holder of every order's row lock
  levelLock,  \* the holder of every level's row lock
  raced       \* history: a move has consumed a reservation that was no longer
              \*   active when it committed

workerVars == <<pc, job, todo, taken, view, orderLock, levelLock>>
vars == <<bookVars, pc, job, todo, taken, view, orderLock, levelLock, raced>>

NoJob == [kind |-> "none"]

\* A level while nobody has locked it; never read.
InitialStock == [v \in Variants |-> [onHand |-> InitialOnHand, committed |-> 0]]

Init ==
  /\ BookInit
  /\ pc = [w \in Workers |-> "idle"]
  /\ job = [w \in Workers |-> NoJob]
  /\ todo = [w \in Workers |-> {}]
  /\ taken = [w \in Workers |-> {}]
  /\ view = [w \in Workers |-> InitialStock]
  /\ orderLock = [o \in Orders |-> Nobody]
  /\ levelLock = [v \in Variants |-> Nobody]
  /\ raced = FALSE

-----------------------------------------------------------------------------
(* Helpers.                                                                *)

\* Mutant: a refused or finished transaction keeps its order lock.
EndTransaction_KeepsOrderLock(w) ==
  /\ pc' = [pc EXCEPT ![w] = "idle"]
  /\ job' = [job EXCEPT ![w] = NoJob]
  /\ todo' = [todo EXCEPT ![w] = {}]
  /\ taken' = [taken EXCEPT ![w] = {}]
  /\ view' = [view EXCEPT ![w] = InitialStock]
  /\ orderLock' = orderLock
  /\ levelLock' = [v \in Variants |-> IF levelLock[v] = w THEN Nobody ELSE levelLock[v]]

\* The transaction ends, either way: its locks are gone, the connection is free.
EndTransaction(w) ==
  /\ pc' = [pc EXCEPT ![w] = "idle"]
  /\ job' = [job EXCEPT ![w] = NoJob]
  /\ todo' = [todo EXCEPT ![w] = {}]
  /\ taken' = [taken EXCEPT ![w] = {}]
  /\ view' = [view EXCEPT ![w] = InitialStock]
  /\ orderLock' = [o \in Orders |-> IF orderLock[o] = w THEN Nobody ELSE orderLock[o]]
  /\ levelLock' = [v \in Variants |-> IF levelLock[v] = w THEN Nobody ELSE levelLock[v]]

Rollback(w) == EndTransaction(w) /\ UNCHANGED <<bookVars, raced>>

\* Mutant: shipping frees the reservation and leaves the units on the shelf.
Consumed_KeepsOnHand(level, qty, effect) ==
  LET release == IF qty <= level.committed THEN qty ELSE level.committed
  IN  [onHand |-> level.onHand, committed |-> level.committed - release]

\* Math.min(qty, level.committed), and what is left of the level; `ship` takes
\* the units out of on-hand as well.
Consumed(level, qty, effect) ==
  LET release == IF qty <= level.committed THEN qty ELSE level.committed
  IN  [onHand |-> level.onHand - IF effect = "ship" THEN release ELSE 0,
       committed |-> level.committed - release]

\* The transitions, edits, reservations, adjustments and transfers committed.
Committed == SumFunction([o \in Orders |-> Len(trail[o])]) + writes

-----------------------------------------------------------------------------
(* The order.                                                              *)

\* A client asks for a move; whether it applies stock effects was read from
\* the company's features before the transaction began, and `reason` says
\* whether the reason it gives is a cancellation reason of the company, where
\* one is required.
BeginMove(w) ==
  \E o \in Orders, to \in Targets :
  \E applyStock \in {TRUE, o \notin Unstocking}, reason \in {TRUE, ~RequiresReason(to)} :
    /\ pc[w] = "idle"
    /\ Committed < MaxCommits
    /\ job' = [job EXCEPT ![w] = [kind |-> "move", order |-> o, to |-> to,
                                  reason |-> reason, applyStock |-> applyStock]]
    /\ pc' = [pc EXCEPT ![w] = "lockOrder"]
    /\ UNCHANGED <<bookVars, raced, todo, taken, view, orderLock, levelLock>>

\* SELECT ... FROM orders ... FOR UPDATE.
LockOrder(w) ==
  /\ pc[w] = "lockOrder"
  /\ orderLock[job[w].order] = Nobody
  /\ orderLock' = [orderLock EXCEPT ![job[w].order] = w]
  /\ job' = [job EXCEPT ![w] = [kind |-> "move", order |-> job[w].order,
                                to |-> job[w].to, reason |-> job[w].reason,
                                applyStock |-> job[w].applyStock,
                                from |-> status[job[w].order],
                                effect |-> IF job[w].applyStock
                                           THEN StockEffectOf(status[job[w].order], job[w].to)
                                           ELSE "none"]]
  /\ pc' = [pc EXCEPT ![w] = "check"]
  /\ UNCHANGED <<bookVars, raced, todo, taken, view, levelLock>>

\* IllegalTransitionError, ReasonRequiredError.
Refuse(w) ==
  /\ pc[w] = "check"
  /\ ~CanTransition(job[w].from, job[w].to) \/ ~job[w].reason
  /\ Rollback(w)

\* The lines to reserve, or the active reservations to consume; no lock is
\* taken on them.
ReadRows(w) ==
  /\ pc[w] = "check"
  /\ CanTransition(job[w].from, job[w].to)
  /\ job[w].reason
  /\ todo' = [todo EXCEPT ![w] =
                CASE job[w].effect = "reserve" -> lines[job[w].order]
                  [] job[w].effect \in {"ship", "release"} -> HeldBy(job[w].order)
                  [] OTHER -> {}]
  /\ pc' = [pc EXCEPT ![w] = "levels"]
  /\ UNCHANGED <<bookVars, raced, job, taken, view, orderLock, levelLock>>

-----------------------------------------------------------------------------
(* The levels.                                                             *)

\* lockLevel: wait for the level's row lock; its own lock does not stop w.
LockLevel(w, v) ==
  /\ levelLock[v] \in {Nobody, w}
  /\ levelLock' = [levelLock EXCEPT ![v] = w]

\* The level as the transaction sees it: the committed row, or its own write.
Seen(w, v) == IF levelLock[v] = w THEN view[w][v] ELSE stock[v]

\* Check pass of a reservation: lock the level of every variant of the order.
ReserveLevel(w) ==
  \E v \in {l.variant : l \in todo[w]} :
    /\ pc[w] = "levels"
    /\ job[w].effect = "reserve"
    /\ LockLevel(w, v)
    /\ view' = [view EXCEPT ![w][v] = Seen(w, v)]
    /\ taken' = [taken EXCEPT ![w] = @ \cup {l \in todo[w] : l.variant = v}]
    /\ todo' = [todo EXCEPT ![w] = {l \in @ : l.variant # v}]
    /\ UNCHANGED <<bookVars, raced, pc, job, orderLock>>

\* One reservation of a ship or a release: lock its level, consume it.
ConsumeRow(w) ==
  \E r \in todo[w] :
    LET after == Consumed(Seen(w, r.variant), r.qty, job[w].effect)
    IN  /\ pc[w] = "levels"
        /\ job[w].effect \in {"ship", "release"}
        /\ LockLevel(w, r.variant)
        /\ after.onHand >= 0
        /\ view' = [view EXCEPT ![w][r.variant] = after]
        /\ taken' = [taken EXCEPT ![w] = @ \cup {r}]
        /\ todo' = [todo EXCEPT ![w] = @ \ {r}]
        /\ UNCHANGED <<bookVars, raced, pc, job, orderLock>>

\* The update violates CHECK (on_hand >= 0): an oversold order cannot ship.
OnHandCheckFails(w) ==
  /\ pc[w] = "levels"
  /\ job[w].effect \in {"ship", "release"}
  /\ \E r \in todo[w] :
       /\ levelLock[r.variant] \in {Nobody, w}
       /\ Consumed(Seen(w, r.variant), r.qty, job[w].effect).onHand < 0
  /\ Rollback(w)

\* InsufficientStockError, with every shortage of the order.
RefuseShortage(w) ==
  /\ pc[w] = "levels" /\ todo[w] = {}
  /\ job[w].effect = "reserve"
  /\ Shortages(taken[w], view[w]) # {}
  /\ Rollback(w)

-----------------------------------------------------------------------------
(* The end of the transaction.                                             *)

\* The status and the activity a finished move publishes.
Moved(w) ==
  /\ status' = [status EXCEPT ![job[w].order] = job[w].to]
  /\ trail' = [trail EXCEPT ![job[w].order] =
                 Append(@, [from |-> job[w].from, to |-> job[w].to,
                            stocked |-> job[w].applyStock, lines |-> lines[job[w].order]])]
  /\ UNCHANGED <<lines, writes, shortfall>>
  /\ EndTransaction(w)

\* The levels a transaction has locked take the values it gave them.
Published(w, levels) ==
  stock' = [v \in Variants |-> IF levelLock[v] = w THEN levels[v] ELSE stock[v]]

CommitReserve(w) ==
  /\ pc[w] = "levels" /\ todo[w] = {}
  /\ job[w].effect = "reserve"
  /\ Shortages(taken[w], view[w]) = {}
  /\ Published(w, [v \in Variants |->
                     [view[w][v] EXCEPT !.committed = @ + Units(taken[w], v)]])
  /\ active' = active \cup RowsFor(taken[w], Len(trail[job[w].order]))
  /\ raced' = raced
  /\ Moved(w)

CommitMove(w) ==
  /\ pc[w] = "levels" /\ todo[w] = {}
  /\ job[w].kind = "move"
  /\ job[w].effect # "reserve"
  /\ Published(w, view[w])
  /\ active' = active \ taken[w]
  /\ raced' = (raced \/ ~(taken[w] \subseteq active))
  /\ Moved(w)

-----------------------------------------------------------------------------
(* InventoryRepository.release of one of the reservations.                 *)

\* The reservation is found active, without a lock.
BeginRelease(w) ==
  \E r \in active :
    /\ r.order \in Releasing \cup {NoOrder}
    /\ pc[w] = "idle"
    /\ job' = [job EXCEPT ![w] = [kind |-> "release", effect |-> "release"]]
    /\ todo' = [todo EXCEPT ![w] = {r}]
    /\ pc' = [pc EXCEPT ![w] = "levels"]
    /\ UNCHANGED <<bookVars, raced, taken, view, orderLock, levelLock>>

\* updateMany ... where status = 'active' counts no row.
ReleaseLost(w) ==
  /\ pc[w] = "levels" /\ todo[w] = {}
  /\ job[w].kind = "release"
  /\ ~(taken[w] \subseteq active)
  /\ Rollback(w)

CommitRelease(w) ==
  /\ pc[w] = "levels" /\ todo[w] = {}
  /\ job[w].kind = "release"
  /\ taken[w] \subseteq active
  /\ Published(w, view[w])
  /\ active' = active \ taken[w]
  /\ EndTransaction(w)
  /\ UNCHANGED <<status, lines, trail, writes, shortfall, raced>>

-----------------------------------------------------------------------------
(* InventoryRepository.adjust, one side of transfer, and reserve.          *)

\* A client wants on-hand changed, or units reserved: `what` is the bound's.
BeginWrite(w, kind, what) ==
  /\ pc[w] = "idle" /\ Committed < MaxCommits /\ writes < MaxWrites
  /\ job' = [job EXCEPT ![w] = [kind |-> kind, what |-> what]]
  /\ pc' = [pc EXCEPT ![w] = "lockLevel"]
  /\ UNCHANGED <<bookVars, raced, todo, taken, view, orderLock, levelLock>>

BeginCount(w) == \E count \in Counts : BeginWrite(w, "count", count)

BeginAsk(w) == \E ask \in Asks : BeginWrite(w, "ask", ask)

\* Mutant: a reservation is granted what is on hand, reserved or not.
Grants_OnHand(kind, what) ==
  LET level == stock[what.variant]
  IN  IF kind = "count" THEN level.onHand + what.delta >= 0
      ELSE what.variant \in Oversell \/ what.qty <= level.onHand

\* What the level, once locked, is checked for.
Grants(kind, what) ==
  LET level == stock[what.variant]
  IN  IF kind = "count" THEN level.onHand + what.delta >= 0
      ELSE what.variant \in Oversell \/ what.qty <= Available(level)

\* InsufficientStockError.
RefuseWrite(w) ==
  /\ pc[w] = "lockLevel"
  /\ levelLock[job[w].what.variant] = Nobody
  /\ ~Grants(job[w].kind, job[w].what)
  /\ Rollback(w)

\* The level is the last lock an adjustment waits for; a transfer takes that of
\* the other warehouse as well, where no order of these is served.
CommitCount(w) ==
  /\ pc[w] = "lockLevel" /\ job[w].kind = "count"
  /\ levelLock[job[w].what.variant] = Nobody
  /\ BookCount(job[w].what)
  /\ EndTransaction(w)
  /\ UNCHANGED raced

LockAsked(w) ==
  /\ pc[w] = "lockLevel" /\ job[w].kind = "ask"
  /\ levelLock[job[w].what.variant] = Nobody
  /\ Grants("ask", job[w].what)
  /\ levelLock' = [levelLock EXCEPT ![job[w].what.variant] = w]
  /\ pc' = [pc EXCEPT ![w] = "insert"]
  /\ UNCHANGED <<bookVars, raced, job, todo, taken, view, orderLock>>

\* Mutant: no foreign key makes the insert wait for the order's row.
CommitAsk_NoForeignKey(w) ==
  LET ask == job[w].what
  IN  /\ pc[w] = "insert"
      /\ stock' = [stock EXCEPT ![ask.variant].committed = @ + ask.qty]
      /\ active' = active \cup {Asked(ask, writes + 1)}
      /\ writes' = writes + 1
      /\ EndTransaction(w)
      /\ UNCHANGED <<status, lines, trail, shortfall, raced>>

\* The insert of the reservation locks its order's row FOR KEY SHARE, on which a
\* transition of that order has its FOR UPDATE lock.
CommitAsk(w) ==
  LET ask == job[w].what
  IN  /\ pc[w] = "insert"
      /\ ask.order \in Orders => orderLock[ask.order] = Nobody
      /\ stock' = [stock EXCEPT ![ask.variant].committed = @ + ask.qty]
      /\ active' = active \cup {Asked(ask, writes + 1)}
      /\ writes' = writes + 1
      /\ EndTransaction(w)
      /\ UNCHANGED <<status, lines, trail, shortfall, raced>>

-----------------------------------------------------------------------------
(* OrdersRepository.update with new items.                                 *)

\* The items are deleted without a lock on the order, and whatever its status:
\* those of the moment, so that an edit that overlaps keeps its own.
BeginEdit(w) ==
  \E edition \in Editions :
    /\ pc[w] = "idle" /\ Committed < MaxCommits /\ writes < MaxWrites
    /\ job' = [job EXCEPT ![w] = [kind |-> "edit", what |-> edition]]
    /\ todo' = [todo EXCEPT ![w] = lines[edition.order]]
    /\ pc' = [pc EXCEPT ![w] = "edit"]
    /\ UNCHANGED <<bookVars, raced, taken, view, orderLock, levelLock>>

\* Mutant: no foreign key makes the inserts wait for the order's row.
CommitEdit_NoForeignKey(w) ==
  /\ pc[w] = "edit"
  /\ BookEdit(job[w].what, todo[w])
  /\ EndTransaction(w)
  /\ UNCHANGED raced

\* The inserts lock the order's row FOR KEY SHARE.
CommitEdit(w) ==
  /\ pc[w] = "edit"
  /\ orderLock[job[w].what.order] = Nobody
  /\ BookEdit(job[w].what, todo[w])
  /\ EndTransaction(w)
  /\ UNCHANGED raced

-----------------------------------------------------------------------------
(* Failures.                                                               *)

\* The process or its connection dies: the transaction is rolled back.
Crash(w) == pc[w] # "idle" /\ Rollback(w)

\* The transactions w cannot go on without: it holds none of its next locks.
Blockers(w) ==
  LET wanted == CASE pc[w] = "lockOrder" -> {orderLock[job[w].order]}
                  [] pc[w] = "levels" -> {levelLock[r.variant] : r \in todo[w]}
                  [] pc[w] = "lockLevel" -> {levelLock[job[w].what.variant]}
                  [] pc[w] \in {"insert", "edit"} /\ job[w].what.order \in Orders ->
                       {orderLock[job[w].what.order]}
                  [] OTHER -> {}
  IN  IF wanted \cap {Nobody, w} = {} THEN wanted ELSE {}

\* PostgreSQL's deadlock detector: one transaction of a cycle is aborted.
DeadlockVictim(w) ==
  /\ \E cycle \in SUBSET Workers :
       /\ w \in cycle
       /\ \A u \in cycle : Blockers(u) # {}
       /\ UNION {Blockers(u) : u \in cycle} = cycle
  /\ Rollback(w)

-----------------------------------------------------------------------------

Step(w) ==
  \/ LockOrder(w) \/ Refuse(w) \/ ReadRows(w)
  \/ ReserveLevel(w) \/ ConsumeRow(w) \/ OnHandCheckFails(w) \/ RefuseShortage(w)
  \/ CommitReserve(w) \/ CommitMove(w)
  \/ ReleaseLost(w) \/ CommitRelease(w)
  \/ RefuseWrite(w) \/ CommitCount(w) \/ LockAsked(w) \/ CommitAsk(w) \/ CommitEdit(w)
  \/ DeadlockVictim(w)

\* Every connection is idle: the run may stop here, and nowhere else.
AllIdle == (\A w \in Workers : pc[w] = "idle") /\ UNCHANGED vars

Next ==
  \/ AllIdle
  \/ \E w \in Workers :
       \/ BeginMove(w) \/ BeginRelease(w) \/ BeginCount(w) \/ BeginAsk(w) \/ BeginEdit(w)
       \/ Step(w) \/ Crash(w)

Spec == Init /\ [][Next]_vars

\* A transaction that has begun is driven to its end by the request's async
\* function; a lock that is freed again and again reaches every waiter, since
\* the database queues them.
FairSpec == Spec /\ \A w \in Workers : SF_vars(Step(w))

-----------------------------------------------------------------------------
(* Properties.                                                             *)

Levels == [Variants -> [onHand: Nat, committed: Nat]]

ReservationRow ==
  [order: Orders \cup {NoOrder}, batch: Nat, place: Nat, variant: Variants,
   qty: Nat \ {0}, at: Nat]

MoveRecord == [from: Statuses, to: Statuses, stocked: BOOLEAN, lines: SUBSET LineRecord]

\* The quantities are natural: neither CHECK constraint of the level is what
\* keeps a balance from going below zero.
TypeOK ==
  /\ status \in [Orders -> Statuses]
  /\ lines \in [Orders -> SUBSET LineRecord]
  /\ stock \in Levels
  /\ active \subseteq ReservationRow
  /\ trail \in [Orders -> Seq(MoveRecord)]
  /\ writes \in Nat
  /\ shortfall \in [Variants -> Nat]
  /\ pc \in [Workers -> {"idle", "lockOrder", "check", "levels", "lockLevel", "insert", "edit"}]
  /\ view \in [Workers -> Levels]
  /\ orderLock \in [Orders -> Workers \cup {Nobody}]
  /\ levelLock \in [Variants -> Workers \cup {Nobody}]

\* "Concurrent stock writes serialize instead of oversell": whatever moves,
\* releases, reservations, adjustments and transfers interleave, on-hand stays
\* non-negative, committed is the sum of the active reservations, and what they
\* hold is on the shelf, unless the product allows overselling, but for what
\* the last adjustment or transfer itself took from under them: those check
\* on-hand and not what is available, and nothing else may leave a shortfall.
\* The last two are so until a move consumes a reservation that a release has
\* freed since the move read it.
BackedUntilRaced == \A v \in Variants :
  /\ stock[v].onHand >= 0
  /\ raced \/
    /\ stock[v].committed = Units(active, v)
    /\ v \in Oversell \/ Units(active, v) <= stock[v].onHand + shortfall[v]

\* The moves of an order that reserve what it lists, and those that end every
\* reservation it has, read off its activities.
Reserves(move) ==
  move.stocked /\ move.to = "processing" /\ move.from \in {"new", "confirming"}

Ends(move) ==
  /\ move.stocked
  /\ \/ move.to = "shipped"
     \/ move.to = "cancelled" /\ move.from \notin {"new", "confirming"}

\* What the moves since the last that ended them have reserved.
Due(o) ==
  UNION {RowsFor(trail[o][i].lines, i - 1) :
           i \in {n \in 1..Len(trail[o]) :
                    /\ Reserves(trail[o][n])
                    /\ \A later \in (n + 1)..Len(trail[o]) : ~Ends(trail[o][later])}}

\* Whatever is set aside, edited, retried or rolled back in between, an order's
\* own reservations are those its activities account for: one for every line it
\* listed when it was taken up for processing, and none once it was shipped or
\* cancelled after that.  One that is postponed and taken up anew from the start
\* holds its lines twice; one that is cancelled from there keeps them for good.
\* Only releases through the inventory component take any away.
HoldingsFollowTheTrail == \A o \in Orders :
  LET own == {r \in HeldBy(o) : r.place # 0}
  IN  /\ own \subseteq Due(o)
      /\ o \notin Releasing => Due(o) \subseteq own

\* Refinement: until a move races a release, every commit is one step of the
\* atomic book, and nothing but a commit touches it.
BookUntilRaced == BookInit /\ [][BookNext \/ raced']_bookVars

\* Every transaction ends: waits on row locks are finite, and the deadlocks
\* orders with common variants can run into are broken.
EveryTransactionEnds == \A w \in Workers : (pc[w] # "idle") ~> (pc[w] = "idle")
=============================================================================

----------------------------- MODULE Inventory -----------------------------
(***************************************************************************)
(* InventoryRepository: the stock writes as READ COMMITTED transactions.   *)
(*                                                                         *)
(* A call begins a transaction, looks its idempotency key (or the          *)
(* reservation it releases) up without a lock, checks the warehouses,      *)
(* locks the levels it needs one by one with SELECT ... FOR UPDATE, checks *)
(* and moves the balance it read under the lock, inserts its log row and   *)
(* commits.  Every step is one statement (or a group of statements no      *)
(* other transaction can tell apart); any two calls interleave between     *)
(* them.  What a transaction has written is its own until it commits:      *)
(* `view[c]` holds the levels as transaction c sees them, `stock` what is  *)
(* committed.                                                              *)
(***************************************************************************)
EXTENDS StockRequests, FiniteSetsExt

CONSTANTS
  Plans,       \* which call carries which request: the assignments explored
  Archivable   \* bound: the warehouses a run archives and reopens

ASSUME PlanAssumption ==
  /\ Plans \subseteq [Calls -> Requests]
  /\ Archivable \subseteq Warehouses

VARIABLES
  stock,    \* inventory_stock, the committed rows
  open,     \* warehouses.is_active, the committed rows
  row,      \* the log rows (stock_reservations, stock_transfers,
            \*   stock_adjustments), the committed rows: one per call at most
  req,      \* the request every call carries
  pc,       \* where the transaction of a call is
  lock,     \* the holder of every level's row lock
  view,     \* the levels as the call's transaction sees them
  crossed   \* the levels the call took below their reorder point

vars == <<stock, open, row, req, pc, lock, view, crossed>>

Final == {"done", "replayed", "rejected", "notFound", "aborted", "failed"}
InTransaction == {"lookup", "assert", "lockFirst", "lockSecond", "locked", "written"}
RowStates == {"absent", "active", "released", "logged"}

-----------------------------------------------------------------------------

Init ==
  /\ stock = InitialLevels
  /\ open = [w \in Warehouses |-> TRUE]
  /\ row = [c \in Calls |-> "absent"]
  /\ req \in Plans
  /\ pc = [c \in Calls |-> "idle"]
  /\ lock = [l \in Levels |-> Nobody]
  /\ view = [c \in Calls |-> InitialLevels]
  /\ crossed = [c \in Calls |-> {}]

-----------------------------------------------------------------------------
(* Helpers.                                                                *)

\* The request whose level and quantity a call works with: a release works
\* with those of the reservation row it names.
Subject(c) == IF req[c].op = "release" THEN req[req[c].target] ELSE req[c]

\* [from, to].sort(): whether the target is locked before the source.
\* Mutant: the levels of a transfer are locked in the order given.
TargetFirst_Unsorted(c) == FALSE

TargetFirst(c) == req[c].op = "transfer" /\ req[c].to < req[c].from

FirstLevel(c) == IF TargetFirst(c) THEN TargetLevel(req[c]) ELSE SourceLevel(Subject(c))

SecondLevel(c) == IF TargetFirst(c) THEN SourceLevel(req[c]) ELSE TargetLevel(req[c])

\* A committed row, or the uncommitted row of another transaction, carries
\* the call's key.
KeyStored(c) == \E d \in Calls : row[d] # "absent" /\ SameKey(req[c], req[d])

\* Mutant: no unique index makes an insert wait for a pending key.
KeyPending_NoIndex(c) == FALSE

KeyPending(c) ==
  \E d \in Calls \ {c} : pc[d] = "written" /\ SameKey(req[c], req[d])

Goto(c, label) == pc' = [pc EXCEPT ![c] = label]

\* The transaction ends, either way: its locks and its view are gone.
EndTransaction(c, outcome) ==
  /\ Goto(c, outcome)
  /\ lock' = [l \in Levels |-> IF lock[l] = c THEN Nobody ELSE lock[l]]
  /\ view' = [view EXCEPT ![c] = InitialLevels]

\* ... without a write reaching the database.
Leave(c, outcome) ==
  /\ EndTransaction(c, outcome)
  /\ crossed' = [crossed EXCEPT ![c] = {}]
  /\ UNCHANGED <<stock, open, row, req>>

-----------------------------------------------------------------------------
(* Before the locks.                                                       *)

Begin(c) ==
  /\ pc[c] = "idle"
  /\ Goto(c, "lookup")
  /\ UNCHANGED <<stock, open, row, req, lock, view, crossed>>

\* findReservationByKey / findTransferByKey / findAdjustmentByKey; the row a
\* release names.  setReorderPoint looks nothing up.
Lookup(c) ==
  /\ pc[c] = "lookup"
  /\ IF req[c].op = "release"
     THEN Goto(c, CASE row[req[c].target] = "active" -> "lockFirst"
                    [] row[req[c].target] = "released" -> "replayed"
                    [] OTHER -> "notFound")
     ELSE Goto(c, IF KeyStored(c) THEN "replayed" ELSE "assert")
  /\ UNCHANGED <<stock, open, row, req, lock, view, crossed>>

\* assertWarehouse on the one or two warehouses of the request.
AssertWarehouses(c) ==
  /\ pc[c] = "assert"
  /\ LET used == {req[c].from} \cup IF req[c].op = "transfer" THEN {req[c].to} ELSE {}
     IN  Goto(c, IF \A w \in used : open[w] THEN "lockFirst" ELSE "rejected")
  /\ UNCHANGED <<stock, open, row, req, lock, view, crossed>>

-----------------------------------------------------------------------------
(* ensureLevel: wait for the row lock, then read the row under it.         *)

\* Mutant: a plain SELECT, which does not wait for the other writer.
AcquireLock_NoWait(c, l) ==
  /\ lock' = [lock EXCEPT ![l] = c]
  /\ view' = [view EXCEPT ![c][l] = stock[l]]

AcquireLock(c, l) ==
  /\ lock[l] = Nobody
  /\ lock' = [lock EXCEPT ![l] = c]
  /\ view' = [view EXCEPT ![c][l] = stock[l]]

LockFirst(c) ==
  /\ pc[c] = "lockFirst"
  /\ AcquireLock(c, FirstLevel(c))
  /\ Goto(c, IF req[c].op = "transfer" THEN "lockSecond" ELSE "locked")
  /\ UNCHANGED <<stock, open, row, req, crossed>>

LockSecond(c) ==
  /\ pc[c] = "lockSecond"
  /\ AcquireLock(c, SecondLevel(c))
  /\ Goto(c, "locked")
  /\ UNCHANGED <<stock, open, row, req, crossed>>

-----------------------------------------------------------------------------
(* Under the locks.                                                        *)

\* InsufficientStockError.
Refuse(c) ==
  /\ pc[c] = "locked"
  /\ ~Permitted(req[c], view[c])
  /\ Leave(c, "rejected")

\* How a call ends that sends another statement through a transaction in
\* which a statement has failed: PostgreSQL has aborted the transaction and
\* answers every statement but the rollback with an error (25P02).
StatementInAbortedTransaction == "aborted"

\* The insert violates the unique index on the key.  The catch block
\* (replayReservation, replayTransfer, replayAdjustment) then reads the
\* stored row through the same transaction.
KeyConflict(c) ==
  /\ pc[c] = "locked"
  /\ Permitted(req[c], view[c])
  /\ ~KeyPending(c)
  /\ KeyStored(c)
  /\ Leave(c, StatementInAbortedTransaction)

\* Mutant: the alert is raised on the level's state, not on the edge.
Write_LevelTriggered(c, op, moved) ==
  /\ pc[c] = "locked"
  /\ req[c].op = op
  /\ Permitted(req[c], view[c])
  /\ ~KeyPending(c)
  /\ ~KeyStored(c)
  /\ view' = [view EXCEPT ![c] = moved]
  /\ crossed' = [crossed EXCEPT ![c] =
                   {l \in Levels : /\ lock[l] = c /\ moved[l].reorder > 0
                                   /\ Available(moved[l]) <= moved[l].reorder}]
  /\ Goto(c, "written")
  /\ UNCHANGED <<stock, open, row, req, lock>>

\* Insert the log row and apply the deltas; the insert waits while another
\* transaction holds an uncommitted row with the same key.
Write(c, op, moved) ==
  /\ pc[c] = "locked"
  /\ req[c].op = op
  /\ Permitted(req[c], view[c])
  /\ ~KeyPending(c)
  /\ ~KeyStored(c)
  /\ view' = [view EXCEPT ![c] = moved]
  /\ crossed' = [crossed EXCEPT ![c] =
                   {l \in Levels : lock[l] = c /\ CrossedLow(view[c][l], moved[l])}]
  /\ Goto(c, "written")
  /\ UNCHANGED <<stock, open, row, req, lock>>

WriteReserve(c) == Write(c, "reserve", Reserved(req[c], view[c]))
WriteTransfer(c) == Write(c, "transfer", Transferred(req[c], view[c]))
WriteAdjust(c) == Write(c, "adjust", Adjusted(req[c], view[c]))

\* updateMany ... where status = 'active' found no row: another transaction
\* released the reservation between the lookup and the lock.
ReleaseLost(c) ==
  /\ pc[c] = "locked"
  /\ req[c].op = "release"
  /\ row[req[c].target] # "active"
  /\ Leave(c, "replayed")

WriteRelease(c) ==
  /\ pc[c] = "locked"
  /\ req[c].op = "release"
  /\ row[req[c].target] = "active"
  /\ view' = [view EXCEPT ![c] = Released(Subject(c), view[c])]
  /\ Goto(c, "written")
  /\ UNCHANGED <<stock, open, row, req, lock, crossed>>

WriteReorderPoint(c) ==
  /\ pc[c] = "locked"
  /\ req[c].op = "setReorderPoint"
  /\ view' = [view EXCEPT ![c] = Repointed(req[c], view[c])]
  /\ Goto(c, "written")
  /\ UNCHANGED <<stock, open, row, req, lock, crossed>>

-----------------------------------------------------------------------------
(* The end of the transaction.                                             *)

RowsAfter(c) ==
  CASE req[c].op = "reserve" -> [row EXCEPT ![c] = "active"]
    [] req[c].op = "release" -> [row EXCEPT ![req[c].target] = "released"]
    [] req[c].op \in {"transfer", "adjust"} -> [row EXCEPT ![c] = "logged"]
    [] OTHER -> row

\* The rows the transaction has locked take the values it gave them.
Commit(c) ==
  /\ pc[c] = "written"
  /\ stock' = [l \in Levels |-> IF lock[l] = c THEN view[c][l] ELSE stock[l]]
  /\ row' = RowsAfter(c)
  /\ EndTransaction(c, "done")
  /\ UNCHANGED <<open, req, crossed>>

\* The process or its connection dies: the transaction is rolled back.
Crash(c) == pc[c] \in InTransaction /\ Leave(c, "failed")

\* archiveWarehouse (TRUE to FALSE) and updateWarehouse with `active`.
SetActive(w) ==
  /\ open' = [open EXCEPT ![w] = ~@]
  /\ UNCHANGED <<stock, row, req, pc, lock, view, crossed>>

-----------------------------------------------------------------------------

Step(c) ==
  \/ Lookup(c) \/ AssertWarehouses(c)
  \/ LockFirst(c) \/ LockSecond(c)
  \/ Refuse(c) \/ KeyConflict(c) \/ ReleaseLost(c)
  \/ WriteReserve(c) \/ WriteTransfer(c) \/ WriteAdjust(c)
  \/ WriteRelease(c) \/ WriteReorderPoint(c)
  \/ Commit(c)

\* All calls have been answered: the run stops here, and nowhere else.
AllAnswered == (\A c \in Calls : pc[c] \in Final) /\ UNCHANGED vars

Next ==
  \/ AllAnswered
  \/ \E c \in Calls : Begin(c) \/ Step(c) \/ Crash(c)
  \/ \E w \in Archivable : SetActive(w)

Spec == Init /\ [][Next]_vars

\* A transaction that has begun is driven to its end by the request's async
\* function; the row-lock queue of the database wakes a waiter up.
FairSpec == Spec /\ \A c \in Calls : WF_vars(Step(c))

-----------------------------------------------------------------------------
(* Properties.                                                             *)

TypeOK ==
  /\ stock \in [Levels -> Level]
  /\ open \in [Warehouses -> BOOLEAN]
  /\ row \in [Calls -> RowStates]
  /\ req \in [Calls -> Requests]
  /\ pc \in [Calls -> {"idle"} \cup InTransaction \cup Final]
  /\ lock \in [Levels -> Calls \cup {Nobody}]
  /\ view \in [Calls -> [Levels -> Level]]
  /\ crossed \in [Calls -> SUBSET Levels]

\* The CHECK constraints on_hand >= 0 and committed >= 0 never reject a
\* write: every guard is evaluated on the balance the write lands on.
NeverNegative ==
  \A l \in Levels : stock[l].onHand >= 0 /\ stock[l].committed >= 0

\* "No stock moves twice, even if two retries race": no two rows of one log
\* table carry the same idempotency key.
KeySpentOnce ==
  \A c, d \in Calls :
    row[c] # "absent" /\ row[d] # "absent" /\ SameKey(req[c], req[d]) => c = d

\* "Two concurrent reservations of the last unit serialize ... instead of
\* overselling": units are only ever committed out of what is available,
\* unless the product allows overselling.
NoOversell ==
  [][\A l \in Levels :
       stock'[l].committed > stock[l].committed =>
         Available(stock'[l]) >= 0 \/ l[2] \in Oversell]_vars

\* A committed write that takes a level from above its reorder point to it or
\* below carries the crossing in its effects (it would be missed, or raised
\* twice, if the balance before the write were stale).
CrossingIsReported ==
  [][\A c \in Calls : pc[c] = "written" /\ pc'[c] = "done"
       /\ req[c].op # "setReorderPoint" =>
       crossed[c] = {l \in Levels : CrossedLow(stock[l], stock'[l])}]_vars

\* Every transaction ends: neither the row locks of opposing transfers nor
\* the waits on a pending key close a cycle.
EveryCallEnds == \A c \in Calls : (pc[c] \in InTransaction) ~> (pc[c] \in Final)

-----------------------------------------------------------------------------
(* Refinement: the transactions implement the ledger.                      *)

\* The ledger's levels and rows are the committed ones: no transaction shows
\* before it commits.
Ledger == INSTANCE StockLedger
            WITH stock <- stock, open <- open, row <- row, req <- req

LedgerSpec == Ledger!LedgerSpec
=============================================================================

---------------------------- MODULE StockLedger ----------------------------
(***************************************************************************)
(* What the inventory component promises: every stock write happens at one *)
(* instant, on the balance of that instant, and appends its log row in the *)
(* same step; an idempotency key is spent at most once per log table.      *)
(* There are no locks, no transactions and no snapshots here: Inventory    *)
(* shows that the repository's row locks provide exactly this.             *)
(***************************************************************************)
EXTENDS StockRequests

VARIABLES
  stock,   \* the level of every (warehouse, variant)
  open,    \* whether a warehouse is active
  row,     \* the state of the log row of every call
  req      \* the request of every call, fixed

ledgerVars == <<stock, open, row, req>>

RowStates == {"absent", "active", "released", "logged"}

LedgerInit ==
  /\ stock = InitialLevels
  /\ open = [w \in Warehouses |-> TRUE]
  /\ row = [c \in Calls |-> "absent"]
  /\ req \in [Calls -> Requests]

Spent(c) == \E d \in Calls : row[d] # "absent" /\ SameKey(req[c], req[d])

Post(c, op, rowState, moved) ==
  /\ req[c].op = op
  /\ row[c] = "absent"
  /\ ~Spent(c)
  /\ Permitted(req[c], stock)
  /\ stock' = moved
  /\ row' = [row EXCEPT ![c] = rowState]
  /\ UNCHANGED <<open, req>>

LedgerReserve(c) == Post(c, "reserve", "active", Reserved(req[c], stock))
LedgerTransfer(c) == Post(c, "transfer", "logged", Transferred(req[c], stock))
LedgerAdjust(c) == Post(c, "adjust", "logged", Adjusted(req[c], stock))

LedgerRelease(c) ==
  /\ req[c].op = "release"
  /\ row[req[c].target] = "active"
  /\ stock' = Released(req[req[c].target], stock)
  /\ row' = [row EXCEPT ![req[c].target] = "released"]
  /\ UNCHANGED <<open, req>>

LedgerSetReorderPoint(c) ==
  /\ req[c].op = "setReorderPoint"
  /\ stock' = Repointed(req[c], stock)
  /\ UNCHANGED <<open, row, req>>

LedgerSetActive(w) ==
  /\ open' = [open EXCEPT ![w] = ~@]
  /\ UNCHANGED <<stock, row, req>>

LedgerNext ==
  \/ \E c \in Calls : \/ LedgerReserve(c)
                      \/ LedgerTransfer(c)
                      \/ LedgerAdjust(c)
                      \/ LedgerRelease(c)
                      \/ LedgerSetReorderPoint(c)
  \/ \E w \in Warehouses : LedgerSetActive(w)

LedgerSpec == LedgerInit /\ [][LedgerNext]_ledgerVars
=============================================================================

----------------------------- MODULE OrderMoney ----------------------------
(***************************************************************************)
(* Order numbers, the money block of an order and the customer's derived   *)
(* KPIs, written by concurrent READ COMMITTED transactions.                *)
(*                                                                         *)
(* create, update, transition and the merge of two customers each run as   *)
(* one transaction whose statements see what was committed when the        *)
(* statement began, plus what the transaction wrote itself.  Only the      *)
(* sequence row, the written order rows, the deleted item rows and the     *)
(* customer rows are locked, and only from the statement that writes them. *)
(* The stock effect of a transition is in OrderStock; the writes of        *)
(* customers and addresses, and those of a merge, are in CustomerBook.     *)
(*                                                                         *)
(* An order is named by the request that created it.                       *)
(***************************************************************************)
EXTENDS CustomerBook, Functions, Sequences

CONSTANTS
  Creates, Updates, Moves,  \* the requests to create, edit and move an order
  MaxOpen,     \* transactions open at the same time
  MayFail,     \* bound: requests whose transaction may be lost
  Scenarios    \* bound: the requests that are sent, one set of them

O == INSTANCE OrderStatus

OrderRequests == Creates \cup Updates \cup Moves \cup Merges
CustomerWrites == CustomerEdits \cup Archivals
AddressWrites == NewAddresses \cup AddressEdits
Desk == NewCustomers \cup CustomerWrites \cup AddressWrites
Requests == OrderRequests \cup Desk

\* Variants, warehouses, assignees and labels are left out.
OrderItemInputDto == [quantity : Nat \ {0}, price : Nat]
Items == Seq(OrderItemInputDto) \ {<<>>}
CreateOrderDto == [customerId : Customers, key : Keys \cup {NoKey}, items : Items,
                   shippingFee : Optional(Nat), discount : Optional(Nat),
                   paymentStatus : Optional(O!PaymentStatuses), collectedAmount : Optional(Nat)]
UpdateOrderDto == [order : Creates, items : Optional(Items), shippingFee : Optional(Nat),
                   discount : Optional(Nat), collectedAmount : Optional(Nat)]
TransitionOrderDto == [order : Creates, toStatus : O!Statuses]

ASSUME OrderMoneyAssumption ==
  /\ \A c \in Creates : Body[c] \in CreateOrderDto
  /\ \A u \in Updates : Body[u] \in UpdateOrderDto
  /\ \A t \in Moves : Body[t] \in TransitionOrderDto
  /\ Creates \cap (Updates \cup Moves \cup Merges \cup Desk) = {}
  /\ Updates \cap (Moves \cup Merges \cup Desk) = {}
  /\ Moves \cap (Merges \cup Desk) = {}
  /\ Merges \cap Desk = {}
  /\ MaxOpen \in Nat \ {0}
  /\ MayFail \subseteq OrderRequests /\ Scenarios \subseteq SUBSET Requests

VARIABLES
  rows,    \* orders, committed: [customer, number, status, subtotal, shippingFee, discount,
           \*   collectedAmount, paymentStatus]
  items,   \* the requests whose item lines an order has
  next,    \* order_sequences.next_number
  kpi,     \* customers.orders_count, total_spent
  before,  \* the collected amount that the service of an update read before it
  seen,    \* the order row an update read
  draft,   \* the order row the transaction has written
  tally,   \* what its aggregate returned
  merged,  \* history: the next number, and the addresses there were, when a customer was
           \*   merged into another; until another is merged into it
  due,     \* the money payment.collected has still to tell of, per update
  reported, \* the money it told of
  gained,  \* history: the money by which an update raised its order's collected amount
  untold,  \* history: the updates that broke off between their commit and payment.collected
  crossed  \* history: the orders that two transactions had open at the same time,
           \*   and the customers of whom an edit was open beside another write

events == <<due, reported, gained, untold>>
committed == <<rows, items, next, kpi, merged, events>>
sideVars == <<before, crossed>>
opened == <<seen, swept, taken, draft, tally>>
vars == <<bookVars, committed, sideVars, at, opened>>

NoTally == [count |-> 0, spent |-> 0]
NotMerged == [number |-> 0, known |-> {}]

Init ==
  /\ BookInit
  /\ rows = [o \in Creates |-> NoRow]
  /\ items = [o \in Creates |-> {}]
  /\ next = 1
  /\ kpi = [c \in Customers |-> NoTally]
  /\ \E sent \in Scenarios :
       at = [r \in Requests |-> IF r \in sent THEN "idle" ELSE "unsent"]
  /\ before = [u \in Updates |-> 0]
  /\ seen = [u \in Updates |-> NoRow]
  /\ swept = [r \in Updates \cup Merges \cup AddressWrites |-> {}]
  /\ taken = [r \in Merges \cup AddressWrites |-> {}]
  /\ draft = [r \in Creates \cup Updates \cup Moves |-> NoRow]
  /\ tally = [r \in OrderRequests |-> NoTally]
  /\ merged = [c \in Customers |-> NotMerged] /\ crossed = {}
  /\ due = [u \in Updates |-> 0] /\ reported = [u \in Updates |-> 0]
  /\ gained = [u \in Updates |-> 0] /\ untold = {}

-----------------------------------------------------------------------------
(* What the transactions hold.                                             *)

Stored == {o \in Creates : rows[o] # NoRow}
OrderOf(r) == IF r \in Creates THEN r ELSE Body[r].order
Change(r) == r \in Updates \cup Moves

\* Whose KPIs a transaction recomputes: an update goes by the row it read, a
\* transition by the row it locked.
CustomerOf(r) ==
  CASE r \in Creates -> Body[r].customerId
    [] r \in Updates -> seen[r].customer
    [] r \in Moves -> draft[r].customer
    [] r \in Merges -> Body[r].into

Writing == {"tally", "kpi", "commit"}
Others(r) == OrderRequests \ {r}

SequenceHeld(r) == \E q \in Others(r) \cap Creates : at[q] \in Writing \cup {"insert"}
RowHeld(r, o) ==
  \E q \in Others(r) :
    \/ at[q] \in Writing /\ Change(q) /\ OrderOf(q) = o
    \/ at[q] \in Writing \cup {"archive"} /\ q \in Merges /\ o \in swept[q]
CustomerHeld(r, c) ==
  \/ \E q \in Others(r) :
       \/ at[q] = "commit" /\ CustomerOf(q) = c
       \/ at[q] \in Writing /\ q \in Merges /\ Body[q].from = c
  \/ \E q \in CustomerWrites \ {r} : at[q] = "commit" /\ Body[q].customer = c

\* Item lines another transaction has deleted and not committed.
ItemsHeld(r) ==
  \E q \in Others(r) \cap Updates :
    OrderOf(q) = OrderOf(r) /\ swept[q] \cap swept[r] # {} /\ at[q] \in Writing \cup {"write"}

\* The foreign key of an inserted line keeps the order row shared: it excludes
\* the FOR UPDATE of a transition, in both directions.
ShareHeld(r) ==
  \E q \in Others(r) \cap Updates :
    OrderOf(q) = OrderOf(r) /\ Body[q].items # Absent /\ at[q] \in Writing \cup {"write"}
UpdateHeld(r) ==
  \E q \in Others(r) \cap Moves : OrderOf(q) = OrderOf(r) /\ at[q] \in Writing

Clear(f, r, empty) == [q \in DOMAIN f |-> IF q = r THEN empty ELSE f[q]]

\* The transaction ends and what it held is free.
End(r, outcome) ==
  /\ Goto(r, outcome)
  /\ seen' = Clear(seen, r, NoRow)
  /\ swept' = Clear(swept, r, {})
  /\ taken' = Clear(taken, r, {})
  /\ draft' = Clear(draft, r, NoRow)
  /\ tally' = Clear(tally, r, NoTally)

-----------------------------------------------------------------------------
(* Money.                                                                  *)

\* What the item lines of a request amount to.
Subtotal ==
  [r \in Creates \cup {u \in Updates : Body[u].items # Absent} |->
     SumFunction([i \in DOMAIN Body[r].items |-> Body[r].items[i].price * Body[r].items[i].quantity])]
Total(row) == row.subtotal + row.shippingFee - row.discount

\* The columns an order's row can hold; its lines are those of some request.
OrderRow == [customer : Customers, number : Nat \ {0}, status : O!Statuses,
             subtotal : {Subtotal[r] : r \in DOMAIN Subtotal}, shippingFee : Nat, discount : Nat,
             collectedAmount : Nat, paymentStatus : O!PaymentStatuses]

ASSUME NoRowAssumption == NoRow \notin OrderRow

\* computeMoney: the body lets no negative amount through.
Refused(row) == Total(row) < 0

\* Mutant: new items leave the subtotal as it was.
Updated_OldSubtotal(u, row) ==
  LET shippingFee == Given(Body[u].shippingFee, seen[u].shippingFee)
      discount == Given(Body[u].discount, seen[u].discount)
      collected == Given(Body[u].collectedAmount, seen[u].collectedAmount)
  IN  [row EXCEPT !.shippingFee = shippingFee, !.discount = discount,
                  !.collectedAmount = Given(Body[u].collectedAmount, @),
                  !.paymentStatus = O!DerivePaymentStatus(collected, row.subtotal + shippingFee - discount)]

\* The row update writes over the row it finds: every money column comes from
\* the body or from the row read at the beginning.
Updated(u, row) ==
  LET subtotal == IF Body[u].items = Absent THEN seen[u].subtotal ELSE Subtotal[u]
      shippingFee == Given(Body[u].shippingFee, seen[u].shippingFee)
      discount == Given(Body[u].discount, seen[u].discount)
      collected == Given(Body[u].collectedAmount, seen[u].collectedAmount)
  IN  [row EXCEPT !.subtotal = subtotal, !.shippingFee = shippingFee, !.discount = discount,
                  !.collectedAmount = Given(Body[u].collectedAmount, @),
                  !.paymentStatus = O!DerivePaymentStatus(collected, subtotal + shippingFee - discount)]

NewRow(c, number) ==
  [customer |-> Body[c].customerId, number |-> number, status |-> "new",
   subtotal |-> Subtotal[c], shippingFee |-> Given(Body[c].shippingFee, 0),
   discount |-> Given(Body[c].discount, 0), collectedAmount |-> Given(Body[c].collectedAmount, 0),
   paymentStatus |-> Given(Body[c].paymentStatus, "unpaid")]

\* What create refuses on top: it takes the payment status from the body.
CreateRefused(row) ==
  \/ Refused(row)
  \/ row.collectedAmount > Total(row)
  \/ row.paymentStatus # O!DerivePaymentStatus(row.collectedAmount, Total(row))

-----------------------------------------------------------------------------
(* Create.                                                                 *)

Open == {r \in Requests : at[r] \notin {"unsent", "idle", "ok", "replayed", "refused", "error"}}

Touched(r) ==
  CASE r \in Creates -> {Body[r].customerId}
    [] Change(r) -> {rows[OrderOf(r)].customer}
    [] r \in Merges -> {Body[r].from, Body[r].into}
    [] r \in AddressWrites -> {Body[r].customer}
    [] OTHER -> {}

\* What two open transactions could spoil for each other.
Crossing(r, q) ==
  (IF Change(r) /\ Change(q) THEN {OrderOf(r)} \cap {OrderOf(q)} ELSE {})
    \cup IF \/ {r, q} \subseteq Creates \/ Touched(r) \cap Touched(q) = {}
            \/ {r, q} \cap AddressWrites # {} /\ {r, q} \cap Merges = {}
         THEN {} ELSE Touched(r) \cup Touched(q)

\* A transaction begins.
Arrive(r) ==
  /\ at[r] = "idle"
  /\ Cardinality(Open) < MaxOpen
  /\ crossed' = crossed \cup UNION {Crossing(r, q) : q \in Open}

\* A client knows an order or a customer once it is stored.
CanBegin(r) ==
  IF Change(r) THEN OrderOf(r) \in Stored
  ELSE (Touched(r) \cup IF r \in CustomerWrites THEN {Body[r].customer} ELSE {}) \subseteq StoredCustomers

\* The service of an update reads the order first.
Begin(r) ==
  /\ CanBegin(r)
  /\ Arrive(r)
  /\ Goto(r, CASE r \in Creates -> "lookup" [] r \in Updates -> "read"
               [] r \in Moves -> "lock"
               [] r \in Merges -> IF Body[r].from = Body[r].into THEN "refused" ELSE "gather")
  /\ before' = IF r \in Updates THEN [before EXCEPT ![r] = rows[OrderOf(r)].collectedAmount]
               ELSE before
  /\ UNCHANGED <<bookVars, committed, opened>>

SameKey(c) == {o \in Stored : Body[o].key = Body[c].key /\ Body[c].key # NoKey}

Lookup(c) ==
  /\ at[c] = "lookup"
  /\ \/ SameKey(c) # {} /\ End(c, "replayed")
     \/ SameKey(c) = {} /\ Goto(c, "number") /\ UNCHANGED opened
  /\ UNCHANGED <<bookVars, committed, sideVars>>

\* Mutant: the counter is read without taking its row lock.
IssueNumber_NoLock(c) ==
  /\ at[c] = "number"
  /\ IF CreateRefused(NewRow(c, next))
     THEN End(c, "refused")
     ELSE /\ draft' = [draft EXCEPT ![c] = NewRow(c, next)]
          /\ Goto(c, "insert") /\ UNCHANGED <<seen, swept, taken, tally>>
  /\ UNCHANGED <<bookVars, committed, sideVars>>

\* INSERT ... ON CONFLICT DO UPDATE ... RETURNING waits for the row and keeps it
\* until the transaction ends; the checks on the amounts come after it.
IssueNumber(c) ==
  /\ at[c] = "number"
  /\ ~SequenceHeld(c)
  /\ IF CreateRefused(NewRow(c, next))
     THEN End(c, "refused")
     ELSE /\ draft' = [draft EXCEPT ![c] = NewRow(c, next)]
          /\ Goto(c, "insert") /\ UNCHANGED <<seen, swept, taken, tally>>
  /\ UNCHANGED <<bookVars, committed, sideVars>>

\* A key conflict aborts the transaction, and with it the read of the replay.
Insert(c) ==
  /\ at[c] = "insert"
  /\ \/ SameKey(c) # {} /\ End(c, "error")
     \/ SameKey(c) = {} /\ Goto(c, "tally") /\ UNCHANGED opened
  /\ UNCHANGED <<bookVars, committed, sideVars>>

-----------------------------------------------------------------------------
(* Update and transition.                                                  *)

Read(u) ==
  /\ at[u] = "read"
  /\ seen' = [seen EXCEPT ![u] = rows[OrderOf(u)]]
  /\ Goto(u, IF Body[u].items = Absent THEN "write" ELSE "delete")
  /\ UNCHANGED <<bookVars, committed, sideVars, swept, taken, draft, tally>>

\* deleteMany begins: it sees the lines committed now ...
DeleteItems(u) ==
  /\ at[u] = "delete"
  /\ swept' = [swept EXCEPT ![u] = items[OrderOf(u)]]
  /\ Goto(u, "replace")
  /\ UNCHANGED <<bookVars, committed, sideVars, seen, taken, draft, tally>>

\* ... waits for each that somebody else is deleting, and the new lines are
\* inserted.
ReplaceItems(u) ==
  /\ at[u] = "replace"
  /\ ~ItemsHeld(u) /\ ~UpdateHeld(u)
  /\ Goto(u, "write")
  /\ UNCHANGED <<bookVars, committed, sideVars, opened>>

Write(u) ==
  LET row == Updated(u, rows[OrderOf(u)])
  IN  /\ at[u] = "write"
      /\ \/ Refused(row) /\ End(u, "refused")
         \/ /\ ~Refused(row) /\ ~RowHeld(u, OrderOf(u))
            /\ draft' = [draft EXCEPT ![u] = row]
            /\ Goto(u, "tally") /\ UNCHANGED <<seen, swept, taken, tally>>
      /\ UNCHANGED <<bookVars, committed, sideVars>>

\* SELECT ... FOR UPDATE, the checks under it, and the new status.
Lock(t) ==
  LET row == rows[OrderOf(t)]
  IN  /\ at[t] = "lock"
      /\ ~RowHeld(t, OrderOf(t)) /\ ~ShareHeld(t)
      /\ \/ ~O!CanTransition(row.status, Body[t].toStatus) /\ End(t, "refused")
         \/ /\ O!CanTransition(row.status, Body[t].toStatus)
            /\ draft' = [draft EXCEPT ![t] = [row EXCEPT !.status = Body[t].toStatus]]
            /\ Goto(t, "tally") /\ UNCHANGED <<seen, swept, taken, tally>>
      /\ UNCHANGED <<bookVars, committed, sideVars>>

-----------------------------------------------------------------------------
(* Merge: after the addresses, the orders and the customers.               *)

\* The updateMany of the orders begins: it sees those the customer has now ...
Sweep(g) ==
  /\ at[g] = "sweep"
  /\ swept' = [swept EXCEPT ![g] = {o \in Stored : rows[o].customer = Body[g].from}]
  /\ Goto(g, "move")
  /\ UNCHANGED <<bookVars, committed, sideVars, seen, taken, draft, tally>>

\* Mutant: the orders stay with the merged customer.
MoveOrders_None(g) ==
  /\ at[g] = "move"
  /\ swept' = [swept EXCEPT ![g] = {}]
  /\ Goto(g, "archive")
  /\ UNCHANGED <<bookVars, committed, sideVars, seen, taken, draft, tally>>

\* ... and takes each, unless it has another customer by the time it is free.
MoveOrders(g) ==
  /\ at[g] = "move"
  /\ \A o \in swept[g] : ~RowHeld(g, o)
  /\ swept' = [swept EXCEPT ![g] = {o \in @ : rows[o].customer = Body[g].from}]
  /\ Goto(g, "archive")
  /\ UNCHANGED <<bookVars, committed, sideVars, seen, taken, draft, tally>>

\* The merged customer is archived; its own KPIs stay as they were.
Archive(g) ==
  /\ at[g] = "archive"
  /\ ~CustomerHeld(g, Body[g].from)
  /\ Goto(g, "tally")
  /\ UNCHANGED <<bookVars, committed, sideVars, opened>>

\* Two merges in opposite directions wait on each other's customer, and
\* PostgreSQL kills one.
Deadlock(g) ==
  /\ at[g] = "kpi"
  /\ \E h \in Merges \ {g} :
       at[h] = "kpi" /\ Body[h].from = Body[g].into /\ Body[h].into = Body[g].from
  /\ End(g, "error")
  /\ UNCHANGED <<bookVars, committed, sideVars>>

\* A merge and the edit of an address wait on each other.
DeadlockAddress(g) ==
  /\ \E e \in AddressEdits : AddressDeadlock(g, e) /\ \E victim \in {g, e} : End(victim, "error")
  /\ UNCHANGED <<bookVars, committed, sideVars>>

-----------------------------------------------------------------------------
(* recomputeCustomerKpis and the end of every transaction.                 *)

\* The orders as the transaction sees them.
View(r) ==
  IF r \in Merges
    THEN [o \in Creates |-> IF o \in swept[r] THEN [rows[o] EXCEPT !.customer = Body[r].into]
                            ELSE rows[o]]
    ELSE [rows EXCEPT ![OrderOf(r)] = draft[r]]

SumCollected(S, table) == SumFunction([o \in S |-> table[o].collectedAmount])

KpisOf(c, table) ==
  LET own == {o \in Creates : table[o] # NoRow /\ table[o].customer = c
                              /\ table[o].status # "cancelled"}
  IN  [count |-> Cardinality(own), spent |-> SumCollected(own, table)]

\* The aggregate, without a lock ...
Tally(r) ==
  /\ at[r] = "tally"
  /\ tally' = [tally EXCEPT ![r] = KpisOf(CustomerOf(r), View(r))]
  /\ Goto(r, "kpi")
  /\ UNCHANGED <<bookVars, committed, sideVars, seen, swept, taken, draft>>

\* ... and the customer's row, which is locked by writing it.
WriteKpis(r) ==
  /\ at[r] = "kpi"
  /\ ~CustomerHeld(r, CustomerOf(r))
  /\ Goto(r, "commit")
  /\ UNCHANGED <<bookVars, committed, sideVars, opened>>

ItemsAfter(r) ==
  CASE r \in Creates -> {r}
    [] r \in Updates /\ Body[r].items # Absent -> (items[OrderOf(r)] \ swept[r]) \cup {r}
    [] OTHER -> items[OrderOf(r)]

Rise(from, to) == IF to > from THEN to - from ELSE 0

\* Mutant: the amount of the body is reported, not the difference.
Reported_Amount(u) == Rise(0, draft[u].collectedAmount)

\* What the service is to publish after the commit: the difference to the row
\* it read before the transaction.
Reported(u) == Rise(before[u], draft[u].collectedAmount)

KnownAddresses == {a \in Addresses : addresses[a] # NoRow}

Commit(r) ==
  /\ at[r] = "commit"
  /\ rows' = View(r)
  /\ items' = IF r \in Merges THEN items ELSE [items EXCEPT ![OrderOf(r)] = ItemsAfter(r)]
  /\ next' = IF r \in Creates THEN draft[r].number + 1 ELSE next
  /\ kpi' = [kpi EXCEPT ![CustomerOf(r)] = tally[r]]
  /\ merged' = IF r \in Merges
                 THEN [merged EXCEPT ![Body[r].from] = [number |-> next, known |-> KnownAddresses],
                                     ![Body[r].into] = NotMerged]
                 ELSE merged
  /\ IF r \in Merges
     THEN StoreAddresses(r) /\ people' = Archived(Body[r].from)
     ELSE UNCHANGED bookVars
  /\ IF r \in Updates
     THEN /\ due' = [due EXCEPT ![r] = Reported(r)]
          /\ gained' = [gained EXCEPT ![r] =
                          Rise(rows[OrderOf(r)].collectedAmount, draft[r].collectedAmount)]
     ELSE UNCHANGED <<due, gained>>
  /\ End(r, "ok")
  /\ UNCHANGED <<reported, untold, sideVars>>

OnlyEvents == UNCHANGED <<bookVars, rows, items, next, kpi, merged, gained, sideVars, at, opened>>

\* The two audit rows are written, each on its own, and then the event is out.
Publish(u) ==
  /\ due[u] > 0
  /\ reported' = [reported EXCEPT ![u] = @ + due[u]]
  /\ due' = [due EXCEPT ![u] = 0]
  /\ OnlyEvents /\ UNCHANGED untold

\* One of the audit rows fails, or the process dies before the event.
BreakOff(u) ==
  /\ due[u] > 0
  /\ due' = [due EXCEPT ![u] = 0]
  /\ untold' = untold \cup {u}
  /\ OnlyEvents /\ UNCHANGED reported

\* The transaction is lost: connection, time limit, process.
Lose(r) ==
  /\ r \in MayFail /\ r \in Open
  /\ End(r, "error")
  /\ UNCHANGED <<bookVars, committed, sideVars>>

-----------------------------------------------------------------------------
(* The writes of CustomerBook beside those of the orders.                  *)

OrdersStay == UNCHANGED <<committed, seen, draft, tally, before>>

MergeAddresses(g) ==
  /\ GatherAddresses(g) \/ Rehome(g)
  /\ OrdersStay /\ UNCHANGED crossed

EnrolCustomer(c) ==
  /\ \/ LookupCustomer(c) /\ Arrive(c)
     \/ (InsertCustomer(c) \/ CommitCustomer(c)) /\ UNCHANGED crossed
  /\ OrdersStay

ChangeCustomer(r) ==
  /\ \/ /\ IF r \in Archivals THEN ArchiveCustomer(r) ELSE UpdateCustomer(r)
        /\ ~CustomerHeld(r, Body[r].customer) /\ Arrive(r)
     \/ CommitCustomer(r) /\ UNCHANGED crossed
  /\ OrdersStay

ChangeAddress(r) ==
  /\ \/ FindDefault(r) /\ Arrive(r)
     \/ (DemoteDefault(r) \/ WriteAddress(r) \/ CommitAddress(r)) /\ UNCHANGED crossed
  /\ OrdersStay

Finished ==
  /\ \A r \in Requests : at[r] = "idle" => ~CanBegin(r)
  /\ Open = {} /\ \A u \in Updates : due[u] = 0
  /\ UNCHANGED vars

Next ==
  \/ \E c \in Creates : Lookup(c) \/ IssueNumber(c) \/ Insert(c)
  \/ \E u \in Updates : Read(u) \/ DeleteItems(u) \/ ReplaceItems(u) \/ Write(u)
  \/ \E u \in Updates : Publish(u) \/ BreakOff(u)
  \/ \E t \in Moves : Lock(t)
  \/ \E g \in Merges : MergeAddresses(g) \/ Sweep(g) \/ MoveOrders(g) \/ Archive(g)
  \/ \E g \in Merges : Deadlock(g) \/ DeadlockAddress(g)
  \/ \E c \in NewCustomers : EnrolCustomer(c)
  \/ \E r \in CustomerWrites : ChangeCustomer(r)
  \/ \E r \in AddressWrites : ChangeAddress(r)
  \/ \E r \in OrderRequests : Begin(r) \/ Tally(r) \/ WriteKpis(r) \/ Commit(r) \/ Lose(r)
  \/ Finished

Spec == Init /\ [][Next]_vars

-----------------------------------------------------------------------------
(* Properties.                                                             *)

Columns == [customer : Customers, number : Nat \ {0}, status : O!Statuses, subtotal : Nat,
            shippingFee : Nat, discount : Nat, collectedAmount : Nat, paymentStatus : O!PaymentStatuses]
Statements == {"unsent", "idle", "lookup", "number", "insert", "read", "delete", "replace", "write",
               "lock", "gather", "rehome", "sweep", "move", "archive", "tally", "kpi", "enter",
               "demote", "address", "commit", "ok", "replayed", "refused", "error"}

TypeOK ==
  /\ \A o \in Stored : rows[o] \in Columns /\ Total(rows[o]) >= 0
  /\ items \in [Creates -> SUBSET Requests]
  /\ next \in Nat \ {0}
  /\ kpi \in [Customers -> [count : Nat, spent : Nat]]
  /\ at \in [Requests -> Statements] /\ BookTypeOK
  /\ \A u \in Updates : seen[u] = NoRow \/ seen[u] \in Columns
  /\ \A r \in DOMAIN swept : swept[r] \subseteq Requests \cup Addresses
  /\ merged \in [Customers -> [number : Nat, known : SUBSET Addresses]]
  /\ before \in [Updates -> Nat]
  /\ {due, reported, gained} \subseteq [Updates -> Nat] /\ untold \subseteq Updates
  /\ \A r \in DOMAIN draft : draft[r] = NoRow \/ draft[r] \in Columns
  /\ tally \in [OrderRequests -> [count : Nat, spent : Nat]]

\* "Serializes number issuance so concurrent creates never collide": the
\* numbers of the stored orders are 1, 2, ... without a gap, also after creates
\* that were refused, replayed or lost.
NumbersAreContiguous ==
  /\ {rows[o].number : o \in Stored} = 1..Cardinality(Stored)
  /\ next = Cardinality(Stored) + 1

\* "Recomputed from the customer's own orders in the same transaction, so they
\* can never drift", and a merge moves every order and address: which is so for
\* a customer of whom no edit or merge ran beside another write; creates,
\* however many at once, are serialised by the sequence row.  The KPIs of a
\* merged customer stay as they were, and it keeps no order or address from
\* before its merge.  Whatever crosses, a customer has its default address until
\* it is taken on request, by a merge, or by an edit of an address not its own.
CustomersMatchUnlessCrossed ==
  /\ \A c \in Customers \ crossed :
       IF merged[c] = NotMerged THEN kpi[c] = KpisOf(c, rows)
       ELSE /\ \A o \in Stored : rows[o].customer = c => rows[o].number >= merged[c].number
            /\ \A a \in merged[c].known : addresses[a].customer # c
  /\ \A c \in Customers \ bare : HasDefault(c, addresses)

\* "Recompute the money block when items or any amount changed", and "payment
\* status is derived from collectedAmount vs total": the subtotal of an order
\* is that of the lines it has and its payment status that of its amounts,
\* for an order that no two transactions had open at once.
DerivedColumnsAgree ==
  \A o \in Stored \ crossed :
    /\ rows[o].subtotal = SumFunctionOnSet(Subtotal, items[o])
    /\ rows[o].paymentStatus = O!DerivePaymentStatus(rows[o].collectedAmount, Total(rows[o]))

\* payment.collected tells once of the money by which an update raised the
\* collected amount of its order, if no other change had that order open at the
\* same time (of two that cross both may report the same money); of an update
\* that broke off after its commit nothing is told, by itself or by the retry,
\* which finds the amount raised (OrdersService.update).
PaymentsAreReportedOnceUnlessCrossed ==
  \A u \in Updates :
    OrderOf(u) \notin crossed =>
      reported[u] + due[u] = IF u \in untold THEN 0 ELSE gained[u]
=============================================================================

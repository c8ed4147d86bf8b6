-------------------------- MODULE OrderMoneyProofs -------------------------
(***************************************************************************)
(* Proofs about OrderMoney, for every set of requests, bodies and          *)
(* customers, and however many transactions are open.                      *)
(*                                                                         *)
(* The inductive invariant says what the row lock of the sequence is for:  *)
(* one create at a time is between the counter and its commit, the number  *)
(* it drew is still the next one, and nothing else changes a number.       *)
(***************************************************************************)
EXTENDS OrderMoney, SumTheorems

-----------------------------------------------------------------------------
(* The inductive invariant.                                                *)

Rowed == Creates \cup Updates \cup Moves

Shapes ==
  /\ rows \in [Creates -> OrderRow \cup {NoRow}]
  /\ next \in Nat \ {0}
  /\ at \in [Requests -> Statements]
  /\ draft \in [Rowed -> OrderRow \cup {NoRow}]
  /\ seen \in [Updates -> OrderRow \cup {NoRow}]
  /\ swept \in [Updates \cup Merges \cup AddressWrites -> SUBSET (Creates \cup Updates \cup Addresses)]
  /\ items \in [Creates -> SUBSET (Creates \cup Updates)]
  /\ before \in [Updates -> Nat]
  /\ due \in [Updates -> Int] /\ reported \in [Updates -> Int] /\ gained \in [Updates -> Int]

\* What a transaction knows of the rows it works on.
Progress(r) ==
  /\ r \in Creates => (rows[r] # NoRow => at[r] = "ok")
  /\ Change(r) /\ r \in Open => rows[OrderOf(r)] # NoRow
  /\ r \in Updates /\ at[r] \in {"delete", "replace", "write"} => seen[r] # NoRow
  /\ r \in Creates /\ at[r] \in Writing \cup {"insert"} => draft[r] # NoRow /\ draft[r].number = next
  /\ Change(r) /\ at[r] \in Writing =>
       draft[r] # NoRow /\ draft[r].number = rows[OrderOf(r)].number
  /\ r \in Merges /\ at[r] \in Writing \cup {"move", "archive"} => swept[r] \subseteq Stored

CallsProgress == \A r \in OrderRequests : Progress(r)

\* The sequence row is locked from the draw of a number to the end.
SequenceIsHeld ==
  \A c, d \in Creates :
    at[c] \in Writing \cup {"insert"} /\ at[d] \in Writing \cup {"insert"} => c = d

NumbersInv ==
  /\ {rows[o].number : o \in Stored} = 1..(next - 1)
  /\ IsFiniteSet(Stored)
  /\ Cardinality(Stored) = next - 1

\* Two changes of one order that are open together have crossed, and the order
\* the service of an update has read is as it was, unless it did.
CrossingsAreNoted ==
  /\ \A r, q \in Updates \cup Moves :
       r # q /\ r \in Open /\ q \in Open /\ OrderOf(r) = OrderOf(q) => OrderOf(r) \in crossed
  /\ \A u \in Updates :
       u \in Open /\ OrderOf(u) \notin crossed => before[u] = rows[OrderOf(u)].collectedAmount

\* An update tells of nothing before its commit, and of one amount at most.
TellsOnce(u) ==
  /\ at[u] # "ok" => due[u] = 0 /\ reported[u] = 0 /\ gained[u] = 0 /\ u \notin untold
  /\ due[u] # 0 => reported[u] = 0 /\ u \notin untold

UpdatesTellOnce == \A u \in Updates : TellsOnce(u)

IInv ==
  /\ Shapes
  /\ CallsProgress
  /\ SequenceIsHeld
  /\ NumbersInv
  /\ CrossingsAreNoted
  /\ UpdatesTellOnce
  /\ PaymentsAreReportedOnceUnlessCrossed

\* The columns that the merge of two customers leaves alone.
SameMoney(row, old) ==
  /\ row.subtotal = old.subtotal
  /\ row.shippingFee = old.shippingFee
  /\ row.discount = old.discount
  /\ row.collectedAmount = old.collectedAmount
  /\ row.paymentStatus = old.paymentStatus

Agrees(row, subtotal) ==
  /\ row.subtotal = subtotal
  /\ row.paymentStatus = O!DerivePaymentStatus(row.collectedAmount, Total(row))

\* What a change has read of its order is so until it commits, unless another
\* change crosses it, and the row it has written agrees with its lines.
MoneyOf(r) ==
  /\ r \in Creates /\ at[r] \in Writing \cup {"insert"} => Agrees(draft[r], Subtotal[r])
  /\ r \in Updates /\ OrderOf(r) \notin crossed =>
       /\ at[r] \in {"delete", "replace", "write"} \cup Writing => SameMoney(seen[r], rows[OrderOf(r)])
       /\ at[r] \in {"replace", "write"} \cup Writing /\ Body[r].items # Absent =>
            swept[r] = items[OrderOf(r)]
       /\ at[r] \in Writing =>
            Agrees(draft[r], IF Body[r].items = Absent THEN rows[OrderOf(r)].subtotal ELSE Subtotal[r])
  /\ r \in Moves /\ OrderOf(r) \notin crossed =>
       (at[r] \in Writing => SameMoney(draft[r], rows[OrderOf(r)]))

MoneyInv ==
  /\ \A r \in Rowed : MoneyOf(r)
  /\ DerivedColumnsAgree

\* The rows an order transaction has locked; no two have the same.
Held(r) ==
  {o \in Creates :
     \/ Change(r) /\ at[r] \in Writing /\ o = OrderOf(r)
     \/ r \in Merges /\ at[r] \in Writing \cup {"archive"} /\ o \in swept[r]}

RowsExclusive ==
  \A r, q \in OrderRequests : r # q => Held(r) \cap Held(q) = {}

\* Two transactions that are open together and touch one customer have crossed,
\* but for creates, which the sequence row serialises, and for writes of
\* addresses beside those of orders.
Meet(r, q) ==
  /\ r # q /\ r \in Open /\ q \in Open
  /\ ~({r, q} \subseteq Creates)
  /\ {r, q} \cap AddressWrites = {} \/ {r, q} \cap Merges # {}
  /\ Touched(r) \cap Touched(q) # {}

MeetingsAreNoted ==
  \A r, q \in OrderRequests \cup AddressWrites :
    Meet(r, q) => Touched(r) \cup Touched(q) \subseteq crossed

AddressOf(c, a) == addresses[a] # NoRow /\ addresses[a].customer = c

\* What a transaction knows of customers: whose orders and addresses it holds,
\* which are all there are unless it crossed, and what they amount to.
CustomersOf(r) ==
  /\ r \in Creates /\ at[r] \in Writing \cup {"insert"} => draft[r].customer = Body[r].customerId
  /\ Change(r) /\ at[r] \in Writing => draft[r].customer = rows[OrderOf(r)].customer
  /\ r \in Updates /\ at[r] \in {"delete", "replace", "write"} \cup Writing =>
       \/ seen[r].customer = rows[OrderOf(r)].customer
       \/ {seen[r].customer, rows[OrderOf(r)].customer} \subseteq crossed
  /\ at[r] \in {"kpi", "commit"} /\ CustomerOf(r) \notin crossed =>
       tally[r] = KpisOf(CustomerOf(r), View(r))

MergeOf(g) ==
  /\ g \in Open => Body[g].from # Body[g].into
  /\ at[g] \in Writing \cup {"archive"} => \A o \in swept[g] : rows[o].customer = Body[g].from
  /\ at[g] \in Writing \cup {"move", "archive"} /\ Body[g].from \notin crossed =>
       \A o \in Stored : rows[o].customer = Body[g].from => o \in swept[g]
  /\ at[g] = "rehome" /\ Body[g].from \notin crossed =>
       \A a \in Addresses : AddressOf(Body[g].from, a) => a \in swept[g]
  /\ at[g] \in Writing \cup {"sweep", "move", "archive"} /\ Body[g].from \notin crossed =>
       \A a \in Addresses : AddressOf(Body[g].from, a) => a \in taken[g]
  /\ at[g] = "rehome" => \A a \in swept[g] : a \in Addresses /\ addresses[a] # NoRow
  /\ \A a \in taken[g] : AddressOf(Body[g].from, a)
  /\ at[g] \notin Writing \cup {"sweep", "move", "archive"} => taken[g] = {}

\* What the write of an address has taken: the defaults it demotes, and its own.
AddressWriteOf(r) ==
  /\ r \in NewAddresses =>
       /\ addresses[r] # NoRow => at[r] = "ok"
       /\ at[r] = "commit" => r \in taken[r]
  /\ at[r] = "demote" =>
       /\ swept[r] \subseteq Addresses \ {TargetOf(r)}
       /\ swept[r] # {} => Body[r].isDefault = TRUE
  /\ at[r] \notin {"address", "commit"} => taken[r] = {}
  /\ \A a \in taken[r] :
       IF a = TargetOf(r)
       THEN at[r] = "commit" /\ (r \in AddressEdits => AddressOf(Body[r].customer, a))
       ELSE Body[r].isDefault = TRUE /\ Marks(addresses[a], Body[r].customer)

MergedInv ==
  \A c \in Customers : merged[c].number <= next /\ merged[c].known \subseteq KnownAddresses

CustomersShapes ==
  /\ kpi = [c \in Customers |-> kpi[c]]
  /\ tally = [r \in OrderRequests |-> tally[r]]
  /\ taken \in [Merges \cup AddressWrites -> SUBSET Addresses]
  /\ addresses \in [Addresses -> AddressRow \cup {NoRow}]
  /\ merged \in [Customers -> [number : Nat, known : SUBSET Addresses]]
  /\ bare \subseteq Customers

CustomersInv ==
  /\ CustomersShapes
  /\ RowsExclusive
  /\ MeetingsAreNoted
  /\ \A r \in OrderRequests : CustomersOf(r)
  /\ \A g \in Merges : MergeOf(g)
  /\ \A r \in AddressWrites : AddressWriteOf(r)
  /\ \A r, q \in Merges \cup AddressWrites : r # q => taken[r] \cap taken[q] = {}
  /\ MergedInv
  /\ CustomersMatchUnlessCrossed

-----------------------------------------------------------------------------
(* Rows.                                                                   *)

\* What the bodies of the requests on an order carry.
LEMMA Bodies ==
  /\ \A c \in Creates :
       /\ Body[c].customerId \in Customers
       /\ Body[c].shippingFee \in Optional(Nat) /\ Body[c].discount \in Optional(Nat)
       /\ Body[c].collectedAmount \in Optional(Nat)
       /\ Body[c].paymentStatus \in Optional(O!PaymentStatuses)
  /\ \A u \in Updates :
       /\ Body[u].order \in Creates
       /\ Body[u].shippingFee \in Optional(Nat) /\ Body[u].discount \in Optional(Nat)
       /\ Body[u].collectedAmount \in Optional(Nat)
  /\ \A t \in Moves : Body[t].order \in Creates /\ Body[t].toStatus \in O!Statuses
  /\ \A g \in Merges : Body[g].from \in Customers /\ Body[g].into \in Customers
<1>1. /\ \A c \in Creates : Body[c] \in CreateOrderDto
      /\ \A u \in Updates : Body[u] \in UpdateOrderDto
      /\ \A t \in Moves : Body[t] \in TransitionOrderDto
  BY OrderMoneyAssumption
<1>2. \A g \in Merges : Body[g] \in MergeCustomersDto
  BY CustomerBookAssumption
<1>3. \A c \in Creates :
       /\ Body[c].customerId \in Customers
       /\ Body[c].shippingFee \in Optional(Nat) /\ Body[c].discount \in Optional(Nat)
       /\ Body[c].collectedAmount \in Optional(Nat)
       /\ Body[c].paymentStatus \in Optional(O!PaymentStatuses)
  BY <1>1 DEF CreateOrderDto
<1>4. \A u \in Updates :
       /\ Body[u].order \in Creates
       /\ Body[u].shippingFee \in Optional(Nat) /\ Body[u].discount \in Optional(Nat)
       /\ Body[u].collectedAmount \in Optional(Nat)
  BY <1>1 DEF UpdateOrderDto
<1>5. \A t \in Moves : Body[t].order \in Creates /\ Body[t].toStatus \in O!Statuses
  BY <1>1 DEF TransitionOrderDto
<1>6. \A g \in Merges : Body[g].from \in Customers /\ Body[g].into \in Customers
  BY <1>2 DEF MergeCustomersDto
<1> QED
  BY <1>3, <1>4, <1>5, <1>6

\* No request is of two kinds.
LEMMA Kinds ==
  /\ Creates \cap (Updates \cup Moves \cup Merges \cup Desk) = {}
  /\ Updates \cap (Moves \cup Merges \cup Desk) = {}
  /\ Moves \cap (Merges \cup Desk) = {}
  /\ Merges \cap Desk = {}
BY OrderMoneyAssumption

LEMMA OrdersAreCreates == \A r \in Rowed : OrderOf(r) \in Creates
BY Bodies DEF Rowed, OrderOf

LEMMA PaymentStatusDerived ==
  ASSUME NEW collected, NEW total PROVE O!DerivePaymentStatus(collected, total) \in O!PaymentStatuses
BY DEF O!DerivePaymentStatus, O!PaymentStatuses

LEMMA NewRowIsARow ==
  ASSUME NEW c \in Creates, NEW n \in Nat \ {0}
  PROVE  NewRow(c, n) \in OrderRow /\ NewRow(c, n).number = n
<1>1. Subtotal[c] \in {Subtotal[r] : r \in DOMAIN Subtotal}
  BY DEF Subtotal
<1>2. /\ Given(Body[c].shippingFee, 0) \in Nat /\ Given(Body[c].discount, 0) \in Nat
      /\ Given(Body[c].collectedAmount, 0) \in Nat
      /\ Given(Body[c].paymentStatus, "unpaid") \in O!PaymentStatuses
      /\ Body[c].customerId \in Customers
  BY Bodies DEF Given, Optional, O!PaymentStatuses
<1>3. "new" \in O!Statuses
  BY DEF O!Statuses, O!Transitions
<1> QED
  BY <1>1, <1>2, <1>3 DEF NewRow, OrderRow

\* The row an update writes keeps the number of the row it finds.
LEMMA UpdatedIsARow ==
  ASSUME NEW u \in Updates, NEW row \in OrderRow, seen[u] \in OrderRow
  PROVE  Updated(u, row) \in OrderRow /\ Updated(u, row).number = row.number
<1> DEFINE subtotal == IF Body[u].items = Absent THEN seen[u].subtotal ELSE Subtotal[u]
           shippingFee == Given(Body[u].shippingFee, seen[u].shippingFee)
           discount == Given(Body[u].discount, seen[u].discount)
           collected == Given(Body[u].collectedAmount, seen[u].collectedAmount)
           written == Given(Body[u].collectedAmount, row.collectedAmount)
           status == O!DerivePaymentStatus(collected, subtotal + shippingFee - discount)
<1>1. subtotal \in {Subtotal[r] : r \in DOMAIN Subtotal}
  BY DEF Subtotal, OrderRow
<1>2. shippingFee \in Nat /\ discount \in Nat /\ written \in Nat
  BY Bodies DEF Given, Optional, OrderRow
<1>3. status \in O!PaymentStatuses
  BY PaymentStatusDerived
<1>4. Updated(u, row) = [row EXCEPT !.subtotal = subtotal, !.shippingFee = shippingFee,
                                    !.discount = discount, !.collectedAmount = written,
                                    !.paymentStatus = status]
  BY DEF Updated
<1> HIDE DEF subtotal, shippingFee, discount, collected, written, status
<1> QED
  BY <1>1, <1>2, <1>3, <1>4 DEF OrderRow

LEMMA MovedIsARow ==
  ASSUME NEW row \in OrderRow, NEW to \in O!Statuses
  PROVE  /\ [row EXCEPT !.status = to] \in OrderRow
         /\ [row EXCEPT !.status = to].number = row.number
BY DEF OrderRow

LEMMA RehomedIsARow ==
  ASSUME NEW row \in OrderRow, NEW c \in Customers
  PROVE  /\ [row EXCEPT !.customer = c] \in OrderRow
         /\ [row EXCEPT !.customer = c].number = row.number
         /\ [row EXCEPT !.customer = c].collectedAmount = row.collectedAmount
BY DEF OrderRow

-----------------------------------------------------------------------------
(* Steps that write no order.                                              *)

\* A step of request r leaves what the other transactions hold alone ...
Frame(r) ==
  /\ \A q \in Requests \ {r} : at'[q] = at[q]
  /\ \A q \in Rowed \ {r} : draft'[q] = draft[q]
  /\ \A q \in Updates \ {r} : seen'[q] = seen[q]
  /\ \A g \in (Updates \cup Merges) \ {r} : swept'[g] = swept[g]

\* ... and these are the orders, which only a commit writes.
Orders == <<rows, items, next, events>>

Closed == {"unsent", "idle", "ok", "replayed", "refused", "error"}

LEMMA OpenIs == \A r \in Requests : r \in Open <=> at[r] \notin Closed
BY DEF Open, Closed

LEMMA OpenIsPrimed == \A r \in Requests : (r \in Open)' <=> at'[r] \notin Closed
BY DEF Open, Closed

LEMMA RowedAreRequests ==
  Rowed \subseteq OrderRequests /\ OrderRequests \subseteq Requests /\ Desk \subseteq Requests
    /\ Merges \subseteq OrderRequests /\ AddressEdits \subseteq Desk /\ AddressWrites \subseteq Desk
    /\ CustomerWrites \subseteq Desk /\ NewCustomers \subseteq Desk
    /\ NewAddresses \subseteq Desk
BY DEF Rowed, OrderRequests, Requests, Desk, AddressWrites, CustomerWrites

\* The end of a transaction empties what it held.
LEMMA EndEffect ==
  ASSUME Shapes, NEW r \in Requests, NEW outcome \in Closed, End(r, outcome)
  PROVE  /\ Frame(r)
         /\ at' \in [Requests -> Statements] /\ at'[r] = outcome
         /\ draft' \in [Rowed -> OrderRow \cup {NoRow}]
         /\ seen' \in [Updates -> OrderRow \cup {NoRow}]
         /\ swept' \in [Updates \cup Merges \cup AddressWrites -> SUBSET (Creates \cup Updates \cup Addresses)]
<1>1. /\ at' = [at EXCEPT ![r] = outcome]
      /\ draft' = [q \in DOMAIN draft |-> IF q = r THEN NoRow ELSE draft[q]]
      /\ seen' = [q \in DOMAIN seen |-> IF q = r THEN NoRow ELSE seen[q]]
      /\ swept' = [q \in DOMAIN swept |-> IF q = r THEN {} ELSE swept[q]]
  BY DEF End, Goto, Clear
<1>2. outcome \in Statements
  BY DEF Closed, Statements
<1>3. at' \in [Requests -> Statements] /\ at'[r] = outcome /\ \A q \in Requests \ {r} : at'[q] = at[q]
  BY <1>1, <1>2 DEF Shapes
<1>4. /\ draft' \in [Rowed -> OrderRow \cup {NoRow}]
      /\ \A q \in Rowed \ {r} : draft'[q] = draft[q]
  BY <1>1 DEF Shapes
<1>5. /\ seen' \in [Updates -> OrderRow \cup {NoRow}]
      /\ \A q \in Updates \ {r} : seen'[q] = seen[q]
  BY <1>1 DEF Shapes
<1>6. /\ swept' \in [Updates \cup Merges \cup AddressWrites -> SUBSET (Creates \cup Updates \cup Addresses)]
      /\ \A g \in (Updates \cup Merges) \ {r} : swept'[g] = swept[g]
  BY <1>1 DEF Shapes
<1> QED
  BY <1>3, <1>4, <1>5, <1>6 DEF Frame

\* A request goes on to another statement of its transaction.
LEMMA GotoEffect ==
  ASSUME Shapes, NEW r \in Requests, NEW stmt \in Statements, Goto(r, stmt)
  PROVE  at' \in [Requests -> Statements] /\ at'[r] = stmt /\ \A q \in Requests \ {r} : at'[q] = at[q]
BY DEF Goto, Shapes

\* What a step of one transaction needs to keep for the invariant when it
\* writes no order: its own part.
Quiet(r) ==
  /\ Frame(r)
  /\ UNCHANGED Orders /\ before' = before /\ crossed \subseteq crossed'
  /\ Shapes'
  /\ r \in OrderRequests => Progress(r)'
  /\ r \in OrderRequests /\ at'[r] \notin Closed => at[r] \notin Closed
  /\ r \in OrderRequests /\ at[r] = "ok" => at'[r] = "ok"
  /\ r \in Creates /\ at'[r] \in Writing \cup {"insert"} =>
       at[r] \in Writing \cup {"insert"} \/ ~SequenceHeld(r)

LEMMA OthersKeepProgress ==
  ASSUME NEW r \in Requests, Frame(r), rows' = rows, next' = next,
         NEW q \in OrderRequests \ {r}, Progress(q)
  PROVE  Progress(q)'
<1>1. at'[q] = at[q] /\ q \in Requests
  BY RowedAreRequests DEF Frame
<1>2. (q \in Open)' <=> q \in Open
  BY <1>1, OpenIs, OpenIsPrimed
<1>3. Stored' = Stored
  BY DEF Stored
<1>4. CASE q \in Creates
  <2>1. q \in Rowed /\ draft'[q] = draft[q]
    BY <1>4 DEF Frame, Rowed
  <2>2. ~Change(q) /\ q \notin Updates /\ q \notin Merges
    BY <1>4, Kinds DEF Change
  <2> QED
    BY <1>1, <1>4, <2>1, <2>2 DEF Progress, Change
<1>5. CASE Change(q)
  <2>1. q \in Rowed /\ draft'[q] = draft[q]
    BY <1>5 DEF Frame, Rowed, Change
  <2>2. q \notin Creates /\ q \notin Merges
    BY <1>5, Kinds DEF Change
  <2>3. q \in Updates => seen'[q] = seen[q]
    BY DEF Frame
  <2> QED
    BY <1>1, <1>2, <1>5, <2>1, <2>2, <2>3 DEF Progress, Change, OrderOf
<1>6. CASE q \in Merges
  <2>1. q \notin Creates /\ ~Change(q) /\ q \notin Updates /\ swept'[q] = swept[q]
    BY <1>6, Kinds DEF Frame, Change
  <2> QED
    BY <1>1, <1>3, <1>6, <2>1 DEF Progress, Change
<1> QED
  BY <1>4, <1>5, <1>6 DEF OrderRequests, Change

LEMMA SequenceStep ==
  ASSUME NEW r \in Requests, Frame(r), SequenceIsHeld,
         r \in Creates /\ at'[r] \in Writing \cup {"insert"} =>
           at[r] \in Writing \cup {"insert"} \/ ~SequenceHeld(r)
  PROVE  SequenceIsHeld'
<1> SUFFICES ASSUME NEW c \in Creates, NEW d \in Creates, at'[c] \in Writing \cup {"insert"},
                    at'[d] \in Writing \cup {"insert"}
             PROVE  c = d
  BY DEF SequenceIsHeld, Writing
<1>1. \A q \in Creates \ {r} : at'[q] = at[q]
  BY RowedAreRequests DEF Frame, Rowed
<1>2. ASSUME NEW e \in Creates, r \in Creates, e # r, at[e] \in Writing \cup {"insert"}
      PROVE  SequenceHeld(r)
  BY <1>2 DEF SequenceHeld, Others, OrderRequests
<1>3. CASE c = r /\ d # r
  BY <1>1, <1>2, <1>3 DEF SequenceIsHeld
<1>4. CASE d = r /\ c # r
  BY <1>1, <1>2, <1>4 DEF SequenceIsHeld
<1>5. CASE c # r /\ d # r
  BY <1>1, <1>5 DEF SequenceIsHeld
<1> QED
  BY <1>3, <1>4, <1>5

LEMMA QuietStep ==
  ASSUME IInv, NEW r \in Requests, Quiet(r)
  PROVE  IInv'
<1>1. /\ rows' = rows /\ items' = items /\ next' = next
      /\ due' = due /\ reported' = reported /\ gained' = gained /\ untold' = untold
      /\ before' = before /\ crossed \subseteq crossed'
      /\ Frame(r) /\ Shapes'
  BY DEF Quiet, Orders, events
<1>2. CallsProgress'
  <2> SUFFICES ASSUME NEW q \in OrderRequests PROVE Progress(q)'
    BY DEF CallsProgress
  <2>1. CASE q = r
    BY <2>1 DEF Quiet
  <2>2. CASE q # r
    <3>1. Progress(q)
      BY DEF IInv, CallsProgress
    <3> QED
      BY <1>1, <2>2, <3>1, OthersKeepProgress
  <2> QED
    BY <2>1, <2>2
<1>3. SequenceIsHeld'
  <2>1. SequenceIsHeld
    BY DEF IInv
  <2> QED
    BY <2>1, SequenceStep DEF Quiet
<1>4. NumbersInv'
  <2>1. Stored' = Stored
    BY <1>1 DEF Stored
  <2> QED
    BY <1>1, <2>1 DEF IInv, NumbersInv
<1>5. CrossingsAreNoted'
  <2>1. \A q \in OrderRequests : (q \in Open)' => q \in Open
    <3> SUFFICES ASSUME NEW q \in OrderRequests, (q \in Open)' PROVE q \in Open
      OBVIOUS
    <3>1. at'[q] \notin Closed /\ q \in Requests
      BY OpenIsPrimed, RowedAreRequests
    <3>2. at[q] \notin Closed
      BY <3>1 DEF Quiet, Frame
    <3> QED
      BY <3>1, <3>2, OpenIs
  <2>2. Updates \cup Moves \subseteq OrderRequests
    BY DEF OrderRequests
  <2>3. \A q \in Updates \cup Moves : OrderOf(q)' = OrderOf(q)
    BY DEF OrderOf
  <2> QED
    BY <1>1, <2>1, <2>2, <2>3 DEF IInv, CrossingsAreNoted
<1>6. PaymentsAreReportedOnceUnlessCrossed'
  BY <1>1 DEF IInv, PaymentsAreReportedOnceUnlessCrossed, OrderOf
<1>7. UpdatesTellOnce'
  <2> SUFFICES ASSUME NEW u \in Updates PROVE at[u] = "ok" => at'[u] = "ok"
    BY <1>1 DEF IInv, UpdatesTellOnce, TellsOnce
  <2>1. u \in OrderRequests /\ u \in Requests
    BY RowedAreRequests DEF Rowed
  <2> QED
    BY <1>1, <2>1 DEF Quiet, Frame
<1> QED
  BY <1>1, <1>2, <1>3, <1>4, <1>5, <1>6, <1>7 DEF IInv

\* A transaction that ends without having written anything.
LEMMA AbandonIsQuiet ==
  ASSUME IInv, NEW r \in Requests, NEW outcome \in Closed \ {"unsent", "idle"}, at[r] \notin Closed,
         End(r, outcome), UNCHANGED Orders, before' = before, crossed' = crossed
  PROVE  Quiet(r)
<1>1. Shapes
  BY DEF IInv
<1>2. /\ Frame(r)
      /\ at' \in [Requests -> Statements] /\ at'[r] = outcome
      /\ draft' \in [Rowed -> OrderRow \cup {NoRow}]
      /\ seen' \in [Updates -> OrderRow \cup {NoRow}]
      /\ swept' \in [Updates \cup Merges \cup AddressWrites -> SUBSET (Creates \cup Updates \cup Addresses)]
  BY <1>1, EndEffect
<1>3. Shapes'
  BY <1>1, <1>2 DEF Shapes, Orders, events
<1>4. at'[r] \in Closed /\ (r \in Open)' = FALSE
  BY <1>2, OpenIsPrimed
<1>5. r \in OrderRequests => Progress(r)'
  <2>1. at'[r] \notin Writing \cup {"insert", "delete", "replace", "write", "move", "archive"}
    BY <1>4 DEF Closed, Writing
  <2>2. r \in Creates => rows'[r] = NoRow
    <3> SUFFICES ASSUME r \in Creates PROVE rows'[r] = NoRow
      OBVIOUS
    <3>1. Progress(r)
      BY DEF IInv, CallsProgress, OrderRequests
    <3>2. rows[r] = NoRow
      BY <3>1 DEF Progress, Closed
    <3> QED
      BY <3>2 DEF Orders
  <2> QED
    BY <1>4, <2>1, <2>2 DEF Progress, Writing
<1>6. at'[r] \notin Writing \cup {"insert"}
  BY <1>4 DEF Closed, Writing
<1> QED
  BY <1>2, <1>3, <1>4, <1>5, <1>6 DEF Quiet, Writing, Closed

\* A transaction that goes on, and changes nothing but its own sweep.
LEMMA AdvanceIsQuiet ==
  ASSUME IInv, NEW r \in Requests, NEW stmt \in Statements \ Closed, at[r] \notin Closed,
         Goto(r, stmt), UNCHANGED Orders, before' = before, crossed' = crossed,
         draft' = draft, seen' = seen, Shapes',
         \A g \in (Updates \cup Merges) \ {r} : swept'[g] = swept[g],
         r \in OrderRequests => Progress(r)',
         r \in Creates /\ stmt \in Writing \cup {"insert"} => at[r] \in Writing \cup {"insert"}
  PROVE  Quiet(r)
<1>1. Shapes
  BY DEF IInv
<1>2. at' \in [Requests -> Statements] /\ at'[r] = stmt /\ \A q \in Requests \ {r} : at'[q] = at[q]
  BY <1>1, GotoEffect
<1> QED
  BY <1>2 DEF Quiet, Frame, Writing, Closed

\* Where a transaction is, its kind being known.
LEMMA Going ==
  ASSUME Shapes, NEW r \in Requests, NEW stmt \in Statements, Goto(r, stmt),
         draft' = draft, seen' = seen, UNCHANGED Orders, before' = before,
         swept' \in [Updates \cup Merges \cup AddressWrites -> SUBSET (Creates \cup Updates \cup Addresses)]
  PROVE  Shapes' /\ at'[r] = stmt
<1>1. at' \in [Requests -> Statements] /\ at'[r] = stmt
  BY GotoEffect
<1> QED
  BY <1>1 DEF Shapes, Orders, events

LEMMA CreateSteps ==
  ASSUME IInv, NEW c \in Creates, Lookup(c) \/ IssueNumber(c) \/ Insert(c)
  PROVE  Quiet(c)
<1>1. /\ Shapes /\ Progress(c) /\ c \in Requests /\ c \in OrderRequests /\ c \in Rowed
      /\ c \notin Updates /\ c \notin Merges /\ ~Change(c)
  BY Kinds, RowedAreRequests DEF IInv, CallsProgress, OrderRequests, Rowed, Change
<1>2. UNCHANGED Orders /\ before' = before /\ crossed' = crossed
  BY DEF Lookup, IssueNumber, Insert, committed, sideVars, Orders
<1>3. at[c] \notin Closed /\ rows[c] = NoRow
  BY <1>1 DEF Lookup, IssueNumber, Insert, Closed, Progress
<1>4. \A outcome \in {"replayed", "refused", "error"} : End(c, outcome) => Quiet(c)
  BY <1>1, <1>2, <1>3, AbandonIsQuiet DEF Closed
<1>5. CASE \E stmt \in {"number", "tally"} :
             /\ Goto(c, stmt) /\ UNCHANGED opened
             /\ stmt = "tally" => at[c] = "insert"
  <2> PICK stmt \in {"number", "tally"} :
             /\ Goto(c, stmt) /\ UNCHANGED opened
             /\ stmt = "tally" => at[c] = "insert"
    BY <1>5
  <2>1. stmt \in Statements \ Closed
    BY DEF Statements, Closed
  <2>2. draft' = draft /\ seen' = seen /\ swept' = swept
    BY DEF opened
  <2>3. Shapes' /\ at'[c] = stmt
    BY <1>1, <1>2, <2>1, <2>2, Going DEF Shapes
  <2>4. stmt \in Writing \cup {"insert"} => at[c] \in Writing \cup {"insert"}
    BY DEF Writing
  <2>5. rows' = rows /\ next' = next
    BY <1>2 DEF Orders
  <2>6. Progress(c)'
    BY <1>1, <1>3, <2>2, <2>3, <2>4, <2>5 DEF Progress, Change, Writing
  <2> QED
    BY <1>1, <1>2, <1>3, <2>1, <2>2, <2>3, <2>4, <2>6, AdvanceIsQuiet
<1>6. CASE IssueNumber(c) /\ ~CreateRefused(NewRow(c, next))
  <2>1. /\ draft' = [draft EXCEPT ![c] = NewRow(c, next)] /\ Goto(c, "insert")
        /\ seen' = seen /\ swept' = swept /\ ~SequenceHeld(c)
    BY <1>6 DEF IssueNumber
  <2>2. NewRow(c, next) \in OrderRow /\ NewRow(c, next).number = next
    BY <1>1, NewRowIsARow DEF Shapes
  <2>3. /\ at' \in [Requests -> Statements] /\ at'[c] = "insert"
        /\ \A q \in Requests \ {c} : at'[q] = at[q]
    BY <1>1, <2>1, GotoEffect DEF Statements
  <2>4. /\ draft' \in [Rowed -> OrderRow \cup {NoRow}] /\ draft'[c] = NewRow(c, next)
        /\ \A q \in Rowed \ {c} : draft'[q] = draft[q]
    BY <1>1, <2>1, <2>2 DEF Shapes
  <2>5. Shapes'
    BY <1>1, <1>2, <2>1, <2>3, <2>4 DEF Shapes, Orders, events
  <2>6. rows' = rows /\ next' = next
    BY <1>2 DEF Orders
  <2>7. Progress(c)'
    BY <1>1, <1>3, <2>2, <2>3, <2>4, <2>6, NoRowAssumption DEF Progress, Change, Writing
  <2>8. Frame(c)
    BY <2>1, <2>3, <2>4 DEF Frame
  <2> QED
    BY <1>1, <1>2, <1>3, <2>1, <2>5, <2>7, <2>8 DEF Quiet, Closed
<1> QED
  BY <1>4, <1>5, <1>6 DEF Lookup, IssueNumber, Insert

LEMMA UpdateSteps ==
  ASSUME IInv, NEW u \in Updates, Read(u) \/ DeleteItems(u) \/ ReplaceItems(u) \/ Write(u)
  PROVE  Quiet(u)
<1>1. /\ Shapes /\ Progress(u) /\ u \in Requests /\ u \in OrderRequests /\ u \in Rowed
      /\ u \notin Creates /\ u \notin Merges /\ Change(u)
  BY Kinds, RowedAreRequests DEF IInv, CallsProgress, OrderRequests, Rowed, Change
<1>2. UNCHANGED Orders /\ before' = before /\ crossed' = crossed /\ rows' = rows
  BY DEF Read, DeleteItems, ReplaceItems, Write, committed, sideVars, Orders
<1>3. at[u] \notin Closed
  BY DEF Read, DeleteItems, ReplaceItems, Write, Closed
<1>4. rows[OrderOf(u)] \in OrderRow /\ OrderOf(u) \in Creates /\ OrderOf(u)' = OrderOf(u)
  <2>1. OrderOf(u) \in Creates
    BY <1>1, OrdersAreCreates
  <2>2. rows[OrderOf(u)] # NoRow
    BY <1>1, <1>3, OpenIs DEF Progress
  <2> QED
    BY <1>1, <2>1, <2>2 DEF Shapes, OrderOf
<1>5. CASE Read(u)
  <2>1. PICK stmt \in {"write", "delete"} : Goto(u, stmt)
    BY <1>5 DEF Read
  <2>2. /\ seen' = [seen EXCEPT ![u] = rows[OrderOf(u)]] /\ draft' = draft /\ swept' = swept
    BY <1>5 DEF Read
  <2>3. /\ at' \in [Requests -> Statements] /\ at'[u] = stmt
        /\ \A q \in Requests \ {u} : at'[q] = at[q]
    BY <1>1, <2>1, GotoEffect DEF Statements
  <2>4. /\ seen' \in [Updates -> OrderRow \cup {NoRow}] /\ seen'[u] = rows[OrderOf(u)]
        /\ \A q \in Updates \ {u} : seen'[q] = seen[q]
    BY <1>1, <1>4, <2>2 DEF Shapes
  <2>5. Shapes'
    BY <1>1, <1>2, <2>2, <2>3, <2>4 DEF Shapes, Orders, events
  <2>6. Progress(u)'
    BY <1>1, <1>2, <1>4, <2>1, <2>3, <2>4, NoRowAssumption DEF Progress, Change, Writing
  <2> QED
    BY <1>1, <1>2, <1>3, <2>2, <2>3, <2>4, <2>5, <2>6 DEF Quiet, Frame, Closed
<1>6. CASE DeleteItems(u) \/ ReplaceItems(u)
  <2>1. PICK stmt \in {"replace", "write"} : Goto(u, stmt)
    BY <1>6 DEF DeleteItems, ReplaceItems
  <2>2. /\ seen' = seen /\ draft' = draft
        /\ swept' = swept \/ swept' = [swept EXCEPT ![u] = items[OrderOf(u)]]
        /\ at[u] \in {"delete", "replace"}
    BY <1>6 DEF DeleteItems, ReplaceItems, opened
  <2>3. /\ swept' \in [Updates \cup Merges \cup AddressWrites -> SUBSET (Creates \cup Updates \cup Addresses)]
        /\ \A g \in (Updates \cup Merges) \ {u} : swept'[g] = swept[g]
    BY <1>1, <1>4, <2>2 DEF Shapes
  <2>4. stmt \in Statements \ Closed
    BY DEF Statements, Closed
  <2>5. Shapes' /\ at'[u] = stmt
    BY <1>1, <1>2, <2>1, <2>2, <2>3, <2>4, Going
  <2>6. Progress(u)'
    BY <1>1, <1>2, <1>3, <1>4, <2>2, <2>5, OpenIs DEF Progress, Change, Writing
  <2> QED
    BY <1>1, <1>2, <1>3, <2>1, <2>2, <2>3, <2>4, <2>5, <2>6, AdvanceIsQuiet
<1>7. CASE Write(u)
  <2> DEFINE row == Updated(u, rows[OrderOf(u)])
  <2>1. CASE End(u, "refused")
    BY <1>1, <1>2, <1>3, <2>1, AbandonIsQuiet DEF Closed
  <2>2. CASE ~End(u, "refused")
    <3>1. /\ draft' = [draft EXCEPT ![u] = row] /\ Goto(u, "tally")
          /\ seen' = seen /\ swept' = swept /\ at[u] = "write"
      BY <1>7, <2>2 DEF Write
    <3>2. seen[u] \in OrderRow
      BY <1>1, <3>1 DEF Progress, Shapes
    <3>3. row \in OrderRow /\ row.number = rows[OrderOf(u)].number
      BY <1>4, <3>2, UpdatedIsARow
    <3> HIDE DEF row
    <3>4. /\ at' \in [Requests -> Statements] /\ at'[u] = "tally"
          /\ \A q \in Requests \ {u} : at'[q] = at[q]
      BY <1>1, <3>1, GotoEffect DEF Statements
    <3>5. /\ draft' \in [Rowed -> OrderRow \cup {NoRow}] /\ draft'[u] = row
          /\ \A q \in Rowed \ {u} : draft'[q] = draft[q]
      BY <1>1, <3>1, <3>3 DEF Shapes
    <3>6. Shapes'
      BY <1>1, <1>2, <3>1, <3>4, <3>5 DEF Shapes, Orders, events
    <3>7. Progress(u)'
      BY <1>1, <1>2, <1>4, <3>3, <3>4, <3>5, NoRowAssumption DEF Progress, Change, Writing
    <3> QED
      BY <1>1, <1>2, <1>3, <3>1, <3>4, <3>5, <3>6, <3>7 DEF Quiet, Frame
  <2> QED
    BY <2>1, <2>2
<1> QED
  BY <1>5, <1>6, <1>7

LEMMA MoveSteps ==
  ASSUME IInv, NEW t \in Moves, Lock(t)
  PROVE  Quiet(t)
<1>1. /\ Shapes /\ Progress(t) /\ t \in Requests /\ t \in OrderRequests /\ t \in Rowed
      /\ t \notin Creates /\ t \notin Merges /\ t \notin Updates /\ Change(t)
  BY Kinds, RowedAreRequests DEF IInv, CallsProgress, OrderRequests, Rowed, Change
<1>2. UNCHANGED Orders /\ before' = before /\ crossed' = crossed /\ rows' = rows
  BY DEF Lock, committed, sideVars, Orders
<1>3. at[t] \notin Closed
  BY DEF Lock, Closed
<1>4. rows[OrderOf(t)] \in OrderRow /\ OrderOf(t) \in Creates /\ OrderOf(t)' = OrderOf(t)
  <2>1. OrderOf(t) \in Creates
    BY <1>1, OrdersAreCreates
  <2>2. rows[OrderOf(t)] # NoRow
    BY <1>1, <1>3, OpenIs DEF Progress
  <2> QED
    BY <1>1, <2>1, <2>2 DEF Shapes, OrderOf
<1>5. CASE End(t, "refused")
  BY <1>1, <1>2, <1>3, <1>5, AbandonIsQuiet DEF Closed
<1>6. CASE ~End(t, "refused")
  <2> DEFINE row == [rows[OrderOf(t)] EXCEPT !.status = Body[t].toStatus]
  <2>1. /\ draft' = [draft EXCEPT ![t] = row] /\ Goto(t, "tally")
        /\ seen' = seen /\ swept' = swept
    BY <1>6 DEF Lock
  <2>2. row \in OrderRow /\ row.number = rows[OrderOf(t)].number
    BY <1>4, Bodies, MovedIsARow
  <2> HIDE DEF row
  <2>3. /\ at' \in [Requests -> Statements] /\ at'[t] = "tally"
        /\ \A q \in Requests \ {t} : at'[q] = at[q]
    BY <1>1, <2>1, GotoEffect DEF Statements
  <2>4. /\ draft' \in [Rowed -> OrderRow \cup {NoRow}] /\ draft'[t] = row
        /\ \A q \in Rowed \ {t} : draft'[q] = draft[q]
    BY <1>1, <2>1, <2>2 DEF Shapes
  <2>5. Shapes'
    BY <1>1, <1>2, <2>1, <2>3, <2>4 DEF Shapes, Orders, events
  <2>6. Progress(t)'
    BY <1>1, <1>2, <1>4, <2>2, <2>3, <2>4, NoRowAssumption DEF Progress, Change, Writing
  <2> QED
    BY <1>1, <1>2, <1>3, <2>1, <2>3, <2>4, <2>5, <2>6 DEF Quiet, Frame, Closed
<1> QED
  BY <1>5, <1>6

LEMMA MergeSteps ==
  ASSUME IInv, NEW g \in Merges,
         MergeAddresses(g) \/ Sweep(g) \/ MoveOrders(g) \/ Archive(g) \/ Deadlock(g)
  PROVE  Quiet(g)
<1>1. /\ Shapes /\ Progress(g) /\ g \in Requests /\ g \in OrderRequests
      /\ g \notin Creates /\ g \notin Updates /\ g \notin Moves /\ ~Change(g) /\ g \notin AddressWrites
  BY Kinds, RowedAreRequests DEF IInv, CallsProgress, OrderRequests, Rowed, Change
<1>2. UNCHANGED Orders /\ before' = before /\ crossed' = crossed /\ rows' = rows
  BY DEF MergeAddresses, OrdersStay, Sweep, MoveOrders, Archive, Deadlock, committed, sideVars, Orders
<1>3. at[g] \notin Closed
  BY DEF MergeAddresses, GatherAddresses, Rehome, Sweep, MoveOrders, Archive, Deadlock, Closed
<1>4. CASE Deadlock(g)
  BY <1>1, <1>2, <1>3, <1>4, AbandonIsQuiet DEF Deadlock, Closed
<1>5. CASE MergeAddresses(g)
  <2>1. PICK stmt \in {"rehome", "sweep"} : Goto(g, stmt)
    BY <1>5 DEF MergeAddresses, GatherAddresses, Rehome
  <2>2. /\ seen' = seen /\ draft' = draft
        /\ swept' = swept \/ \E S \in SUBSET Addresses : swept' = [swept EXCEPT ![g] = S]
    BY <1>5 DEF MergeAddresses, GatherAddresses, Rehome, OrdersStay
  <2>3. /\ swept' \in [Updates \cup Merges \cup AddressWrites -> SUBSET (Creates \cup Updates \cup Addresses)]
        /\ \A h \in (Updates \cup Merges) \ {g} : swept'[h] = swept[h]
    BY <1>1, <2>2 DEF Shapes
  <2>4. stmt \in Statements \ Closed
    BY DEF Statements, Closed
  <2>5. Shapes' /\ at'[g] = stmt
    BY <1>1, <1>2, <2>1, <2>2, <2>3, <2>4, Going
  <2>6. Progress(g)'
    BY <1>1, <2>5 DEF Progress, Change, Writing
  <2> QED
    BY <1>1, <1>2, <1>3, <2>1, <2>2, <2>3, <2>4, <2>5, <2>6, AdvanceIsQuiet
<1>6. CASE Sweep(g) \/ MoveOrders(g) \/ Archive(g)
  <2>1. PICK stmt \in {"move", "archive", "tally"} : Goto(g, stmt)
    BY <1>6 DEF Sweep, MoveOrders, Archive
  <2>2. seen' = seen /\ draft' = draft
    BY <1>6 DEF Sweep, MoveOrders, Archive, opened
  <2>3. Stored \subseteq Creates /\ (at[g] \in {"move", "archive"} => swept[g] \subseteq Stored)
    BY <1>1 DEF Stored, Progress
  <2>4. \E S \in SUBSET Stored : swept' = [swept EXCEPT ![g] = S]
    <3>1. CASE Sweep(g)
      BY <3>1 DEF Sweep
    <3>2. CASE MoveOrders(g)
      BY <2>3, <3>2, <1>1 DEF MoveOrders, Shapes
    <3>3. CASE Archive(g)
      <4>1. swept' = swept /\ swept = [swept EXCEPT ![g] = swept[g]] /\ swept[g] \subseteq Stored
        BY <1>1, <2>3, <3>3 DEF Archive, opened, Shapes
      <4> QED
        BY <4>1
    <3> QED
      BY <1>6, <3>1, <3>2, <3>3
  <2>5. /\ swept' \in [Updates \cup Merges \cup AddressWrites -> SUBSET (Creates \cup Updates \cup Addresses)]
        /\ \A h \in (Updates \cup Merges) \ {g} : swept'[h] = swept[h]
        /\ swept'[g] \subseteq Stored
    BY <1>1, <2>3, <2>4 DEF Shapes
  <2>6. stmt \in Statements \ Closed
    BY DEF Statements, Closed
  <2>7. Shapes' /\ at'[g] = stmt
    BY <1>1, <1>2, <2>1, <2>2, <2>5, <2>6, Going
  <2>8. Stored' = Stored
    BY <1>2 DEF Stored
  <2>9. Progress(g)'
    BY <1>1, <2>5, <2>7, <2>8 DEF Progress, Change, Writing
  <2> QED
    BY <1>1, <1>2, <1>3, <2>1, <2>2, <2>5, <2>6, <2>7, <2>9, AdvanceIsQuiet
<1> QED
  BY <1>4, <1>5, <1>6

\* The writes of customers and addresses.
LEMMA DeskIsQuiet ==
  ASSUME Shapes, NEW r \in Desk, NEW stmt \in Statements, Goto(r, stmt), OrdersStay,
         crossed \subseteq crossed',
         \/ swept' = swept
         \/ r \in AddressWrites /\ \E S \in SUBSET Addresses : swept' = [swept EXCEPT ![r] = S]
  PROVE  Quiet(r)
<1>1. r \in Requests /\ r \notin OrderRequests /\ r \notin Creates /\ r \notin Merges
  BY Kinds, RowedAreRequests DEF OrderRequests
<1>2. /\ at' \in [Requests -> Statements] /\ \A q \in Requests \ {r} : at'[q] = at[q]
  BY <1>1, GotoEffect
<1>3. UNCHANGED Orders /\ before' = before /\ draft' = draft /\ seen' = seen
  BY DEF OrdersStay, committed, Orders
<1>4. /\ swept' \in [Updates \cup Merges \cup AddressWrites -> SUBSET (Creates \cup Updates \cup Addresses)]
      /\ \A g \in (Updates \cup Merges) \ {r} : swept'[g] = swept[g]
  BY <1>1 DEF Shapes
<1>5. Shapes'
  BY <1>2, <1>3, <1>4 DEF Shapes, Orders, events
<1> QED
  BY <1>1, <1>2, <1>3, <1>4, <1>5 DEF Quiet, Frame

LEMMA DeskSteps ==
  ASSUME Shapes, NEW r \in Requests,
         \/ r \in NewCustomers /\ EnrolCustomer(r)
         \/ r \in CustomerWrites /\ ChangeCustomer(r)
         \/ r \in AddressWrites /\ ChangeAddress(r)
  PROVE  Quiet(r)
<1>1. r \in Desk /\ OrdersStay
  BY DEF Desk, EnrolCustomer, ChangeCustomer, ChangeAddress
<1>2. crossed \subseteq crossed'
  BY DEF EnrolCustomer, ChangeCustomer, ChangeAddress, Arrive
<1>3. {"replayed", "enter", "refused", "error", "commit", "ok", "demote", "address"} \subseteq Statements
  BY DEF Statements
<1>4. CASE EnrolCustomer(r)
  <2>1. PICK stmt \in {"replayed", "enter", "refused", "error", "commit", "ok"} : Goto(r, stmt)
    BY <1>4 DEF EnrolCustomer, LookupCustomer, InsertCustomer, CommitCustomer, Conflict
  <2>2. swept' = swept
    BY <1>4 DEF EnrolCustomer, LookupCustomer, InsertCustomer, CommitCustomer
  <2> QED
    BY <1>1, <1>2, <1>3, <2>1, <2>2, DeskIsQuiet
<1>5. CASE ChangeCustomer(r)
  <2>1. PICK stmt \in {"refused", "commit", "ok"} : Goto(r, stmt)
    BY <1>5 DEF ChangeCustomer, ArchiveCustomer, UpdateCustomer, CommitCustomer
  <2>2. swept' = swept
    BY <1>5 DEF ChangeCustomer, ArchiveCustomer, UpdateCustomer, CommitCustomer
  <2> QED
    BY <1>1, <1>2, <1>3, <2>1, <2>2, DeskIsQuiet
<1>6. CASE r \in AddressWrites /\ ChangeAddress(r)
  <2>1. PICK stmt \in {"refused", "demote", "address", "commit", "error", "ok"} : Goto(r, stmt)
    BY <1>6 DEF ChangeAddress, FindDefault, DemoteDefault, WriteAddress, CommitAddress
  <2>2. swept' = swept \/ \E S \in SUBSET Addresses : swept' = [swept EXCEPT ![r] = S]
    <3>1. CASE FindDefault(r)
      BY <3>1 DEF FindDefault
    <3>2. CASE DemoteDefault(r)
      BY <3>2 DEF DemoteDefault
    <3>3. CASE WriteAddress(r) \/ CommitAddress(r)
      BY <3>3 DEF WriteAddress, CommitAddress
    <3> QED
      BY <1>6, <3>1, <3>2, <3>3 DEF ChangeAddress
  <2> QED
    BY <1>1, <1>2, <1>3, <1>6, <2>1, <2>2, DeskIsQuiet
<1> QED
  BY <1>4, <1>5, <1>6

\* Of a merge and an edit that wait on each other one is ended.
LEMMA DeadlockSteps ==
  ASSUME IInv, NEW g \in Merges, DeadlockAddress(g)
  PROVE  \E r \in Requests \ Rowed : Quiet(r)
<1>0. PICK e \in AddressEdits : AddressDeadlock(g, e) /\ \E v \in {g, e} : End(v, "error")
  BY DEF DeadlockAddress
<1>1. PICK victim \in {g, e} : End(victim, "error")
  BY <1>0
<1>2. UNCHANGED Orders /\ before' = before /\ crossed' = crossed
  BY DEF DeadlockAddress, committed, sideVars, Orders
<1>3. victim \in Requests \ Rowed /\ at[victim] \notin Closed
  BY <1>0, Kinds, RowedAreRequests DEF AddressDeadlock, Closed, Rowed
<1> QED
  BY <1>1, <1>2, <1>3, AbandonIsQuiet DEF Closed

LEMMA SharedSteps ==
  ASSUME IInv, NEW r \in OrderRequests, Tally(r) \/ WriteKpis(r) \/ Lose(r)
  PROVE  Quiet(r)
<1>1. Shapes /\ Progress(r) /\ r \in Requests
  BY RowedAreRequests DEF IInv, CallsProgress
<1>2. /\ UNCHANGED Orders /\ before' = before /\ crossed' = crossed
      /\ rows' = rows /\ next' = next
  BY DEF Tally, WriteKpis, Lose, committed, sideVars, Orders
<1>3. at[r] \notin Closed
  BY <1>1, OpenIs DEF Tally, WriteKpis, Lose, Closed
<1>4. CASE Lose(r)
  BY <1>1, <1>2, <1>3, <1>4, AbandonIsQuiet DEF Lose, Closed
<1>5. CASE Tally(r) \/ WriteKpis(r)
  <2>1. PICK stmt \in {"kpi", "commit"} : Goto(r, stmt)
    BY <1>5 DEF Tally, WriteKpis
  <2>2. seen' = seen /\ draft' = draft /\ swept' = swept /\ at[r] \in Writing
    BY <1>5 DEF Tally, WriteKpis, opened, Writing
  <2>3. stmt \in (Statements \ Closed) \cap Writing
    BY DEF Statements, Closed, Writing
  <2>4. Shapes' /\ at'[r] = stmt
    BY <1>1, <1>2, <2>1, <2>2, <2>3, Going DEF Shapes
  <2>5. Stored' = Stored /\ OrderOf(r)' = OrderOf(r) /\ r \in Open
    BY <1>1, <1>2, <1>3, OpenIs DEF Stored, OrderOf
  <2>6. r \in Creates => rows[r] = NoRow
    BY <1>1, <2>2 DEF Progress, Writing
  <2>7. Progress(r)'
    BY <1>1, <1>2, <2>2, <2>3, <2>4, <2>5, <2>6 DEF Progress, Change, Writing
  <2> QED
    BY <1>1, <1>2, <1>3, <2>1, <2>2, <2>3, <2>4, <2>7, AdvanceIsQuiet
<1> QED
  BY <1>4, <1>5

-----------------------------------------------------------------------------
(* The beginning of a transaction.                                         *)

LEMMA BeginStep ==
  ASSUME IInv, NEW r \in OrderRequests, Begin(r)
  PROVE  IInv'
<1>1. /\ Shapes /\ Progress(r) /\ r \in Requests
      /\ r \in Creates => r \notin Updates /\ r \notin Merges /\ r \notin Moves
      /\ Change(r) => r \notin Creates /\ r \notin Merges
      /\ r \in Merges => r \notin Creates /\ r \notin Updates /\ r \notin Moves
  BY Kinds, RowedAreRequests DEF IInv, CallsProgress, OrderRequests, Change
<1>2. /\ rows' = rows /\ items' = items /\ next' = next
      /\ due' = due /\ reported' = reported /\ gained' = gained /\ untold' = untold
      /\ seen' = seen /\ swept' = swept /\ draft' = draft
      /\ crossed' = crossed \cup UNION {Crossing(r, q) : q \in Open} /\ at[r] = "idle" /\ CanBegin(r)
      /\ before' = IF r \in Updates THEN [before EXCEPT ![r] = rows[OrderOf(r)].collectedAmount]
                   ELSE before
  BY DEF Begin, Arrive, committed, events, opened
<1>3. PICK stmt \in {"lookup", "read", "lock", "refused", "gather"} : Goto(r, stmt)
  <2> DEFINE first == CASE r \in Creates -> "lookup" [] r \in Updates -> "read"
                        [] r \in Moves -> "lock"
                        [] r \in Merges -> IF Body[r].from = Body[r].into THEN "refused" ELSE "gather"
  <2>1. first \in {"lookup", "read", "lock", "refused", "gather"}
    BY <1>1 DEF OrderRequests
  <2>2. Goto(r, first)
    BY DEF Begin
  <2> QED
    BY <2>1, <2>2
<1>4. /\ at' \in [Requests -> Statements] /\ at'[r] = stmt
      /\ \A q \in Requests \ {r} : at'[q] = at[q]
  BY <1>1, <1>3, GotoEffect DEF Statements
<1>5. Change(r) => /\ OrderOf(r) \in Creates
                   /\ rows[OrderOf(r)] \in OrderRow /\ rows[OrderOf(r)] # NoRow
  BY <1>1, <1>2, OrdersAreCreates, NoRowAssumption DEF CanBegin, Stored, Shapes, Change, Rowed
<1>6. /\ before' \in [Updates -> Nat]
      /\ \A u \in Updates \ {r} : before'[u] = before[u]
      /\ r \in Updates => before'[r] = rows[OrderOf(r)].collectedAmount
  BY <1>1, <1>2, <1>5 DEF Shapes, Change, OrderRow
<1>7. Shapes'
  BY <1>1, <1>2, <1>4, <1>6 DEF Shapes
<1>8. Frame(r)
  BY <1>2, <1>4 DEF Frame
<1>9. OrderOf(r)' = OrderOf(r)
  BY DEF OrderOf
<1>10. CallsProgress'
  <2>1. Progress(r)'
    BY <1>1, <1>2, <1>4, <1>5, <1>9 DEF Progress, Change, Writing
  <2>2. \A q \in OrderRequests \ {r} : Progress(q)'
    BY <1>1, <1>2, <1>8, OthersKeepProgress DEF IInv, CallsProgress
  <2> QED
    BY <2>1, <2>2 DEF CallsProgress
<1>11. SequenceIsHeld'
  <2>1. at'[r] \notin Writing \cup {"insert"}
    BY <1>4 DEF Writing
  <2> QED
    BY <1>1, <1>8, <2>1, SequenceStep DEF IInv
<1>12. NumbersInv'
  <2>1. Stored' = Stored
    BY <1>2 DEF Stored
  <2> QED
    BY <1>2, <2>1 DEF IInv, NumbersInv
<1>13. CrossingsAreNoted'
  <2>1. \A q \in Requests \ {r} : (q \in Open)' <=> q \in Open
    BY <1>4, OpenIs, OpenIsPrimed
  <2>2. ASSUME NEW q \in Updates \cup Moves, q # r, q \in Open, Change(r), OrderOf(r) = OrderOf(q)
        PROVE  OrderOf(r) \in crossed'
    <3>1. OrderOf(r) \in Crossing(r, q)
      BY <2>2 DEF Crossing, Change
    <3> QED
      BY <1>2, <2>2, <3>1
  <2>3. ASSUME NEW p \in Updates \cup Moves, NEW q \in Updates \cup Moves, p # q,
               (p \in Open)', (q \in Open)', OrderOf(p) = OrderOf(q)
        PROVE  OrderOf(p) \in crossed'
    <3>1. p \in Requests /\ q \in Requests /\ Change(p) /\ Change(q)
      BY RowedAreRequests DEF Rowed, Change
    <3>2. CASE p = r
      BY <2>1, <2>2, <2>3, <3>1, <3>2
    <3>3. CASE q = r
      BY <2>1, <2>2, <2>3, <3>1, <3>3
    <3>4. CASE p # r /\ q # r
      BY <1>2, <2>1, <2>3, <3>1, <3>4 DEF IInv, CrossingsAreNoted
    <3> QED
      BY <3>2, <3>3, <3>4
  <2>4. ASSUME NEW u \in Updates, (u \in Open)', OrderOf(u) \notin crossed'
        PROVE  before'[u] = rows'[OrderOf(u)].collectedAmount
    <3>1. CASE u = r
      BY <1>2, <1>6, <2>4, <3>1
    <3>2. CASE u # r
      <4>1. u \in Open /\ OrderOf(u) \notin crossed
        BY <1>2, <2>1, <2>4, <3>2, RowedAreRequests DEF Rowed
      <4> QED
        BY <1>2, <1>6, <3>2, <4>1 DEF IInv, CrossingsAreNoted
    <3> QED
      BY <3>1, <3>2
  <2>5. \A q \in Updates \cup Moves : OrderOf(q)' = OrderOf(q)
    BY DEF OrderOf
  <2> QED
    BY <2>3, <2>4, <2>5 DEF CrossingsAreNoted
<1>14. PaymentsAreReportedOnceUnlessCrossed'
  BY <1>2 DEF IInv, PaymentsAreReportedOnceUnlessCrossed, OrderOf
<1>15. UpdatesTellOnce'
  <2> SUFFICES ASSUME NEW u \in Updates PROVE at[u] = "ok" => at'[u] = "ok"
    BY <1>2 DEF IInv, UpdatesTellOnce, TellsOnce
  <2> QED
    BY <1>2, <1>4, RowedAreRequests DEF Rowed
<1> QED
  BY <1>7, <1>10, <1>11, <1>12, <1>13, <1>14, <1>15 DEF IInv

-----------------------------------------------------------------------------
(* The commit.                                                             *)

\* What a commit makes of the orders: a stored order keeps its number, and its
\* collected amount unless the transaction is a change of it.
LEMMA CommitWrites ==
  ASSUME IInv, NEW r \in OrderRequests, Commit(r)
  PROVE  /\ rows' \in [Creates -> OrderRow \cup {NoRow}]
         /\ \A o \in Stored : rows'[o] # NoRow /\ rows'[o].number = rows[o].number
         /\ \A o \in Stored :
              (Change(r) => OrderOf(r) # o) => rows'[o].collectedAmount = rows[o].collectedAmount
         /\ r \in Creates => /\ rows[r] = NoRow /\ rows'[r] # NoRow /\ rows'[r].number = next
                             /\ Stored' = Stored \cup {r} /\ next' = next + 1
         /\ r \notin Creates => Stored' = Stored /\ next' = next
<1>1. /\ Shapes /\ Progress(r) /\ at[r] = "commit" /\ rows' = View(r)
      /\ next' = IF r \in Creates THEN draft[r].number + 1 ELSE next
      /\ r \in Open
  BY OpenIs, RowedAreRequests DEF IInv, CallsProgress, Commit, Closed
<1>2. CASE r \in Creates
  <2>1. r \notin Merges /\ ~Change(r) /\ OrderOf(r) = r /\ r \in Rowed
    BY <1>2, Kinds DEF Change, OrderOf, Rowed
  <2>2. rows' = [rows EXCEPT ![r] = draft[r]] /\ next' = draft[r].number + 1
    BY <1>1, <1>2, <2>1 DEF View
  <2>3. rows[r] = NoRow /\ draft[r] # NoRow /\ draft[r].number = next
    BY <1>1, <1>2 DEF Progress, Writing
  <2>4. /\ rows' \in [Creates -> OrderRow \cup {NoRow}] /\ rows'[r] = draft[r]
        /\ \A o \in Creates \ {r} : rows'[o] = rows[o]
    BY <1>1, <1>2, <2>1, <2>2 DEF Shapes
  <2>5. Stored' = Stored \cup {r}
    BY <1>2, <2>3, <2>4 DEF Stored
  <2> QED
    BY <1>2, <2>1, <2>2, <2>3, <2>4, <2>5 DEF Stored
<1>3. CASE Change(r)
  <2>1. r \notin Merges /\ r \notin Creates /\ r \in Rowed /\ OrderOf(r) \in Creates
    BY <1>3, Kinds, OrdersAreCreates DEF Change, Rowed
  <2>2. rows' = [rows EXCEPT ![OrderOf(r)] = draft[r]] /\ next' = next
    BY <1>1, <2>1 DEF View
  <2>3. /\ rows[OrderOf(r)] # NoRow
        /\ draft[r] # NoRow /\ draft[r].number = rows[OrderOf(r)].number
    BY <1>1, <1>3 DEF Progress, Writing
  <2>4. /\ rows' \in [Creates -> OrderRow \cup {NoRow}] /\ rows'[OrderOf(r)] = draft[r]
        /\ \A o \in Creates \ {OrderOf(r)} : rows'[o] = rows[o]
    BY <1>1, <2>1, <2>2 DEF Shapes
  <2>5. Stored' = Stored
    BY <2>3, <2>4 DEF Stored
  <2> QED
    BY <1>3, <2>1, <2>2, <2>3, <2>4, <2>5 DEF Stored
<1>4. CASE r \in Merges
  <2>1. r \notin Creates /\ ~Change(r) /\ swept[r] \subseteq Stored /\ Body[r].into \in Customers
    BY <1>1, <1>4, Kinds, Bodies DEF Change, Progress, Writing
  <2>2. /\ next' = next
        /\ rows' = [o \in Creates |-> IF o \in swept[r] THEN [rows[o] EXCEPT !.customer = Body[r].into]
                                      ELSE rows[o]]
    BY <1>1, <1>4, <2>1 DEF View
  <2>3. \A o \in Stored : rows[o] \in OrderRow /\ rows[o] # NoRow /\ o \in Creates
    BY <1>1 DEF Shapes, Stored
  <2>4. \A o \in Stored : /\ rows'[o] \in OrderRow /\ rows'[o].number = rows[o].number
                          /\ rows'[o].collectedAmount = rows[o].collectedAmount
    BY <2>1, <2>2, <2>3, RehomedIsARow
  <2>5. \A o \in Creates \ Stored : rows'[o] = NoRow
    BY <2>1, <2>2 DEF Stored
  <2>6. rows' \in [Creates -> OrderRow \cup {NoRow}]
    BY <2>2, <2>4, <2>5
  <2>7. Stored' = Stored
    BY <2>3, <2>4, <2>5, NoRowAssumption DEF Stored
  <2> QED
    BY <2>1, <2>2, <2>4, <2>6, <2>7, NoRowAssumption
<1> QED
  BY <1>2, <1>3, <1>4 DEF OrderRequests, Change

LEMMA CommitStep ==
  ASSUME IInv, NEW r \in OrderRequests, Commit(r)
  PROVE  IInv'
<1>1. /\ Shapes /\ Progress(r) /\ r \in Requests /\ at[r] = "commit" /\ r \in Open /\ "ok" \in Closed
      /\ End(r, "ok") /\ before' = before /\ crossed' = crossed
  BY OpenIs, RowedAreRequests DEF IInv, CallsProgress, Commit, Closed, sideVars
<1>2. /\ Frame(r)
      /\ at' \in [Requests -> Statements] /\ at'[r] = "ok"
      /\ draft' \in [Rowed -> OrderRow \cup {NoRow}]
      /\ seen' \in [Updates -> OrderRow \cup {NoRow}]
      /\ swept' \in [Updates \cup Merges \cup AddressWrites -> SUBSET (Creates \cup Updates \cup Addresses)]
  BY <1>1, EndEffect
<1>3. /\ rows' \in [Creates -> OrderRow \cup {NoRow}]
      /\ \A o \in Stored : rows'[o] # NoRow /\ rows'[o].number = rows[o].number
      /\ \A o \in Stored :
           (Change(r) => OrderOf(r) # o) => rows'[o].collectedAmount = rows[o].collectedAmount
      /\ r \in Creates => /\ rows[r] = NoRow /\ rows'[r] # NoRow /\ rows'[r].number = next
                          /\ Stored' = Stored \cup {r} /\ next' = next + 1
      /\ r \notin Creates => Stored' = Stored /\ next' = next
  BY CommitWrites
<1>4. ~(r \in Open)' /\ \A q \in Requests \ {r} : (q \in Open)' <=> q \in Open
  BY <1>1, <1>2, OpenIs, OpenIsPrimed DEF Frame
<1>5. Change(r) => r \notin Creates /\ r \in Rowed /\ OrderOf(r) \in Stored /\ draft[r] \in OrderRow
  BY <1>1, Kinds, OrdersAreCreates DEF Change, Rowed, Progress, Writing, Shapes, Stored
<1>6. /\ due' \in [Updates -> Int] /\ reported' \in [Updates -> Int] /\ gained' \in [Updates -> Int]
      /\ PaymentsAreReportedOnceUnlessCrossed' /\ UpdatesTellOnce'
  <2>1. reported' = reported /\ untold' = untold
    BY DEF Commit
  <2>2. \A u \in Updates : OrderOf(u)' = OrderOf(u) /\ u \in Requests
    BY RowedAreRequests DEF OrderOf, Rowed
  <2>3. CASE r \in Updates
    <3> DEFINE told == Rise(before[r], draft[r].collectedAmount)
               rose == Rise(rows[OrderOf(r)].collectedAmount, draft[r].collectedAmount)
    <3>1. due' = [due EXCEPT ![r] = told] /\ gained' = [gained EXCEPT ![r] = rose]
      BY <2>3 DEF Commit, Reported
    <3>2. /\ rows[OrderOf(r)].collectedAmount \in Nat
          /\ draft[r].collectedAmount \in Nat /\ before[r] \in Nat
      <4>1. OrderOf(r) \in Stored /\ draft[r] \in OrderRow
        BY <1>5, <2>3 DEF Change
      <4>2. rows[OrderOf(r)] \in OrderRow
        BY <1>1, <4>1 DEF Stored, Shapes
      <4> QED
        BY <1>1, <2>3, <4>1, <4>2 DEF Shapes, OrderRow
    <3>3. told \in Int /\ rose \in Int
      BY <3>2 DEF Rise
    <3>4. OrderOf(r) \notin crossed => told = rose
      BY <1>1, <2>3 DEF IInv, CrossingsAreNoted
    <3> HIDE DEF told, rose
    <3>5. due' \in [Updates -> Int] /\ reported' \in [Updates -> Int] /\ gained' \in [Updates -> Int]
      BY <1>1, <2>1, <3>1, <3>3 DEF Shapes
    <3>6. TellsOnce(r) /\ reported[r] = 0 /\ r \notin untold
      BY <1>1, <2>3 DEF IInv, UpdatesTellOnce, TellsOnce
    <3>7. due'[r] = told /\ gained'[r] = rose
      BY <1>1, <2>3, <3>1 DEF Shapes
    <3>8. \A u \in Updates \ {r} : due'[u] = due[u] /\ gained'[u] = gained[u] /\ at'[u] = at[u]
      BY <1>1, <1>2, <2>2, <3>1 DEF Shapes, Frame
    <3>9. PaymentsAreReportedOnceUnlessCrossed'
      <4> SUFFICES ASSUME NEW u \in Updates, OrderOf(u) \notin crossed
                   PROVE  reported[u] + due'[u] = IF u \in untold THEN 0 ELSE gained'[u]
        BY <1>1, <2>1, <2>2 DEF PaymentsAreReportedOnceUnlessCrossed
      <4>1. CASE u = r
        BY <3>3, <3>4, <3>6, <3>7, <4>1
      <4>2. CASE u # r
        BY <3>8, <4>2 DEF IInv, PaymentsAreReportedOnceUnlessCrossed
      <4> QED
        BY <4>1, <4>2
    <3>10. UpdatesTellOnce'
      <4> SUFFICES ASSUME NEW u \in Updates PROVE TellsOnce(u)'
        BY DEF UpdatesTellOnce
      <4>1. CASE u = r
        BY <1>2, <2>1, <3>6, <4>1 DEF TellsOnce
      <4>2. CASE u # r
        BY <2>1, <3>8, <4>2 DEF IInv, UpdatesTellOnce, TellsOnce
      <4> QED
        BY <4>1, <4>2
    <3> QED
      BY <3>5, <3>9, <3>10
  <2>4. CASE r \notin Updates
    <3>1. due' = due /\ gained' = gained
      BY <2>4 DEF Commit
    <3>2. \A u \in Updates : at'[u] = at[u]
      BY <1>2, <2>2, <2>4 DEF Frame
    <3> QED
      BY <1>1, <2>1, <2>2, <3>1, <3>2
         DEF IInv, PaymentsAreReportedOnceUnlessCrossed, Shapes, UpdatesTellOnce, TellsOnce
  <2> QED
    BY <2>3, <2>4
<1>7. items' \in [Creates -> SUBSET (Creates \cup Updates)]
  <2>1. CASE r \in Merges
    BY <1>1, <2>1 DEF Commit, Shapes
  <2>2. CASE r \notin Merges
    <3>1. OrderOf(r) \in Creates /\ items[OrderOf(r)] \subseteq Creates \cup Updates
      BY <1>1, <2>2, OrdersAreCreates DEF OrderRequests, Rowed, Shapes
    <3>2. ItemsAfter(r) \subseteq Creates \cup Updates
      BY <3>1 DEF ItemsAfter
    <3>3. items' = [items EXCEPT ![OrderOf(r)] = ItemsAfter(r)]
      BY <2>2 DEF Commit
    <3> QED
      BY <1>1, <3>1, <3>2, <3>3 DEF Shapes
  <2> QED
    BY <2>1, <2>2
<1>8. next' \in Nat \ {0}
  BY <1>1, <1>3 DEF Shapes
<1>9. Shapes'
  BY <1>1, <1>2, <1>3, <1>6, <1>7, <1>8 DEF Shapes
<1>10. ASSUME NEW q \in OrderRequests PROVE Progress(q)'
  <2>1. Progress(q) /\ q \in Requests
    BY RowedAreRequests DEF IInv, CallsProgress
  <2>2. CASE q = r
    BY <1>2, <1>4, <2>2 DEF Progress, Writing
  <2>3. CASE q # r /\ q \in Creates
    <3>1. /\ q \in Rowed /\ draft'[q] = draft[q] /\ at'[q] = at[q] /\ ~Change(q)
          /\ q \notin Updates /\ q \notin Merges
      BY <2>1, <2>3, <1>2, Kinds DEF Rowed, Frame, Change
    <3>2. rows'[q] # NoRow => rows[q] # NoRow
      <4>1. (q \in Stored') <=> rows'[q] # NoRow
        BY <2>3 DEF Stored
      <4>2. (q \in Stored) <=> rows[q] # NoRow
        BY <2>3 DEF Stored
      <4> QED
        BY <1>3, <2>3, <4>1, <4>2
    <3>3. at[q] \in Writing \cup {"insert"} => next' = next
      BY <1>1, <1>3, <2>3 DEF IInv, SequenceIsHeld, Writing
    <3> QED
      BY <2>1, <2>3, <3>1, <3>2, <3>3 DEF Progress, Change, Writing
  <2>4. CASE q # r /\ Change(q)
    <3>1. /\ q \in Rowed /\ draft'[q] = draft[q] /\ at'[q] = at[q]
          /\ q \notin Creates /\ q \notin Merges /\ OrderOf(q) \in Creates /\ OrderOf(q)' = OrderOf(q)
          /\ q \in Updates => seen'[q] = seen[q]
      BY <2>1, <2>4, <1>2, Kinds, OrdersAreCreates DEF Rowed, Frame, Change, OrderOf
    <3>2. q \in Open =>
            /\ OrderOf(q) \in Stored /\ rows'[OrderOf(q)] # NoRow
            /\ rows'[OrderOf(q)].number = rows[OrderOf(q)].number
      BY <1>3, <2>1, <2>4, <3>1 DEF Progress, Stored
    <3>3. at[q] \in Writing => q \in Open
      BY <2>1, OpenIs DEF Writing, Closed
    <3> QED
      BY <1>4, <2>1, <2>4, <3>1, <3>2, <3>3 DEF Progress, Change, Writing
  <2>5. CASE q # r /\ q \in Merges
    <3>1. /\ q \notin Creates /\ ~Change(q) /\ q \notin Updates /\ swept'[q] = swept[q] /\ at'[q] = at[q]
      BY <2>1, <2>5, <1>2, Kinds DEF Frame, Change
    <3>2. Stored \subseteq Stored'
      BY <1>3
    <3> QED
      BY <2>1, <2>5, <3>1, <3>2 DEF Progress, Change, Writing
  <2> QED
    BY <2>2, <2>3, <2>4, <2>5 DEF OrderRequests, Change
<1>11. SequenceIsHeld'
  <2>1. at'[r] \notin Writing \cup {"insert"} /\ SequenceIsHeld
    BY <1>2 DEF Writing, IInv
  <2> QED
    BY <1>1, <1>2, <2>1, SequenceStep
<1>12. NumbersInv'
  <2> DEFINE numbers == {rows[o].number : o \in Stored}
  <2>1. /\ numbers = 1..(next - 1) /\ IsFiniteSet(Stored) /\ Cardinality(Stored) = next - 1
        /\ next \in Nat \ {0}
    BY <1>1 DEF IInv, NumbersInv, Shapes
  <2>2. CASE r \notin Creates
    <3>1. Stored' = Stored /\ next' = next
      BY <1>3, <2>2
    <3>2. {rows'[o].number : o \in Stored} = numbers
      BY <1>3
    <3> QED
      BY <2>1, <3>1, <3>2 DEF NumbersInv
  <2>3. CASE r \in Creates
    <3>1. Stored' = Stored \cup {r} /\ next' = next + 1 /\ r \notin Stored /\ rows'[r].number = next
      BY <1>3, <2>3 DEF Stored
    <3>2. /\ IsFiniteSet(Stored \cup {r})
          /\ Cardinality(Stored \cup {r}) = Cardinality(Stored) + 1
      BY <2>1, <3>1, FS_AddElement
    <3>3. {rows'[o].number : o \in Stored \cup {r}} = numbers \cup {next}
      BY <1>3, <3>1
    <3>4. numbers \cup {next} = 1..next
      <4> HIDE DEF numbers
      <4> QED
        BY <2>1
    <3>5. next' - 1 = next
      BY <2>1, <3>1
    <3>6. Cardinality(Stored') = next
      BY <2>1, <3>1, <3>2
    <3> QED
      BY <3>1, <3>2, <3>3, <3>4, <3>5, <3>6 DEF NumbersInv
  <2> QED
    BY <2>2, <2>3
<1>13. CrossingsAreNoted'
  <2>1. \A q \in Updates \cup Moves : OrderOf(q)' = OrderOf(q) /\ q \in Requests /\ q \in OrderRequests
    BY RowedAreRequests DEF OrderOf, Rowed
  <2>2. ASSUME NEW p \in Updates \cup Moves, NEW q \in Updates \cup Moves, p # q,
               (p \in Open)', (q \in Open)', OrderOf(p) = OrderOf(q)
        PROVE  OrderOf(p) \in crossed'
    BY <1>1, <1>4, <2>1, <2>2 DEF IInv, CrossingsAreNoted
  <2>3. ASSUME NEW u \in Updates, (u \in Open)', OrderOf(u) \notin crossed'
        PROVE  before'[u] = rows'[OrderOf(u)].collectedAmount
    <3>1. u # r /\ u \in Open /\ OrderOf(u) \notin crossed
      BY <1>1, <1>4, <2>1, <2>3
    <3>2. OrderOf(u) \in Stored
      <4>1. Progress(u) /\ OrderOf(u) \in Creates
        BY <2>1, OrdersAreCreates DEF IInv, CallsProgress, Rowed
      <4> QED
        BY <3>1, <4>1 DEF Progress, Change, Stored
    <3>3. Change(r) => OrderOf(r) # OrderOf(u)
      BY <1>1, <3>1 DEF IInv, CrossingsAreNoted, Change
    <3>4. rows'[OrderOf(u)].collectedAmount = rows[OrderOf(u)].collectedAmount
      BY <1>3, <3>2, <3>3
    <3> QED
      BY <1>1, <3>1, <3>4 DEF IInv, CrossingsAreNoted
  <2> QED
    BY <2>1, <2>2, <2>3 DEF CrossingsAreNoted
<1> QED
  BY <1>6, <1>9, <1>10, <1>11, <1>12, <1>13 DEF IInv, CallsProgress

-----------------------------------------------------------------------------
(* The specification.                                                      *)

LEMMA InitEstablishesIInv == Init => IInv
<1> SUFFICES ASSUME Init PROVE IInv
  OBVIOUS
<1>1. /\ rows = [o \in Creates |-> NoRow] /\ items = [o \in Creates |-> {}] /\ next = 1
      /\ before = [u \in Updates |-> 0] /\ seen = [u \in Updates |-> NoRow]
      /\ swept = [r \in Updates \cup Merges \cup AddressWrites |-> {}]
      /\ draft = [r \in Creates \cup Updates \cup Moves |-> NoRow]
      /\ due = [u \in Updates |-> 0] /\ reported = [u \in Updates |-> 0]
      /\ gained = [u \in Updates |-> 0] /\ untold = {}
  BY DEF Init
<1>2. at \in [Requests -> {"idle", "unsent"}]
  BY DEF Init
<1>3. Shapes
  BY <1>1, <1>2 DEF Shapes, Statements, Rowed
<1>4. Open = {}
  BY <1>2 DEF Open
<1>5. \A r \in OrderRequests : at[r] \in {"idle", "unsent"}
  BY <1>2, RowedAreRequests
<1>6. CallsProgress
  <2> SUFFICES ASSUME NEW r \in OrderRequests PROVE Progress(r)
    BY DEF CallsProgress
  <2> QED
    BY <1>1, <1>4, <1>5 DEF Progress, Writing
<1>7. SequenceIsHeld
  BY <1>5 DEF SequenceIsHeld, Writing, OrderRequests
<1>8. NumbersInv
  <2>1. Stored = {}
    BY <1>1 DEF Stored
  <2>2. IsFiniteSet({}) /\ Cardinality({}) = 0
    BY FS_EmptySet
  <2> QED
    BY <1>1, <2>1, <2>2 DEF NumbersInv
<1>9. CrossingsAreNoted /\ PaymentsAreReportedOnceUnlessCrossed /\ UpdatesTellOnce
  BY <1>1, <1>4
     DEF CrossingsAreNoted, PaymentsAreReportedOnceUnlessCrossed, UpdatesTellOnce, TellsOnce
<1> QED
  BY <1>3, <1>6, <1>7, <1>8, <1>9 DEF IInv

\* What a service does after the commit leaves the orders and the transactions
\* as they are.
AfterCommit == UNCHANGED <<bookVars, rows, items, next, kpi, merged, sideVars, at, opened>>

LEMMA EventStep ==
  ASSUME NEW u \in Updates, Publish(u) \/ BreakOff(u)
  PROVE  AfterCommit /\ gained' = gained
BY DEF Publish, BreakOff, OnlyEvents, AfterCommit

LEMMA StutterIsAfterCommit == UNCHANGED vars => AfterCommit /\ UNCHANGED events
BY DEF vars, committed, AfterCommit

LEMMA AfterCommitKeeps ==
  ASSUME IInv, AfterCommit
  PROVE  /\ CallsProgress' /\ SequenceIsHeld' /\ NumbersInv' /\ CrossingsAreNoted'
         /\ \A f \in {due, reported, gained} : f \in [Updates -> Int]
         /\ due' \in [Updates -> Int] /\ reported' \in [Updates -> Int] /\ gained' \in [Updates -> Int]
              => Shapes'
         /\ at' = at /\ crossed' = crossed /\ \A u \in Updates : OrderOf(u)' = OrderOf(u)
<1>1. /\ rows' = rows /\ items' = items /\ next' = next
      /\ seen' = seen /\ swept' = swept /\ draft' = draft /\ before' = before /\ crossed' = crossed
      /\ at' = at
  BY DEF AfterCommit, sideVars, opened
<1>2. Stored' = Stored /\ Open' = Open
  BY <1>1 DEF Stored, Open
<1>3. \A r \in OrderRequests : OrderOf(r)' = OrderOf(r)
  BY DEF OrderOf
<1>4. SequenceIsHeld'
  BY <1>1 DEF IInv, SequenceIsHeld
<1>5. CallsProgress'
  BY <1>1, <1>2, <1>3 DEF IInv, CallsProgress, Progress, Change
<1>6. NumbersInv'
  BY <1>1, <1>2 DEF IInv, NumbersInv
<1>7. CrossingsAreNoted'
  BY <1>1, <1>2, <1>3 DEF IInv, CrossingsAreNoted, OrderRequests
<1>8. /\ \A f \in {due, reported, gained} : f \in [Updates -> Int]
      /\ due' \in [Updates -> Int] /\ reported' \in [Updates -> Int] /\ gained' \in [Updates -> Int]
           => Shapes'
  BY <1>1 DEF IInv, Shapes
<1> QED
  BY <1>1, <1>3, <1>4, <1>5, <1>6, <1>7, <1>8 DEF OrderRequests

LEMMA StutterKeepsIInv == IInv /\ UNCHANGED vars => IInv'
<1> SUFFICES ASSUME IInv, UNCHANGED vars PROVE IInv'
  OBVIOUS
<1>1. AfterCommit /\ due' = due /\ reported' = reported /\ gained' = gained /\ untold' = untold
  BY StutterIsAfterCommit DEF events
<1> QED
  BY <1>1, AfterCommitKeeps
     DEF IInv, PaymentsAreReportedOnceUnlessCrossed, UpdatesTellOnce, TellsOnce

\* The event is told of once, or never.
LEMMA EventKeepsIInv ==
  ASSUME IInv, NEW u \in Updates, Publish(u) \/ BreakOff(u)
  PROVE  IInv'
<1>1. /\ AfterCommit /\ gained' = gained /\ due[u] # 0 /\ due' = [due EXCEPT ![u] = 0]
      /\ due \in [Updates -> Int] /\ reported \in [Updates -> Int] /\ gained \in [Updates -> Int]
  BY EventStep DEF IInv, Shapes, Publish, BreakOff
<1>2. reported[u] = 0 /\ u \notin untold /\ at[u] = "ok"
  BY <1>1 DEF IInv, UpdatesTellOnce, TellsOnce
<1>3. /\ due'[u] = 0 /\ due' \in [Updates -> Int] /\ reported' \in [Updates -> Int]
      /\ \/ reported'[u] = due[u] /\ untold' = untold
         \/ reported'[u] = 0 /\ untold' = untold \cup {u}
      /\ \A v \in Updates \ {u} : due'[v] = due[v] /\ reported'[v] = reported[v]
  BY <1>1, <1>2 DEF Publish, BreakOff
<1>4. PaymentsAreReportedOnceUnlessCrossed'
  <2> SUFFICES ASSUME NEW v \in Updates, OrderOf(v) \notin crossed
               PROVE  reported'[v] + due'[v] = IF v \in untold' THEN 0 ELSE gained[v]
    BY <1>1, AfterCommitKeeps DEF PaymentsAreReportedOnceUnlessCrossed
  <2>1. reported[v] + due[v] = IF v \in untold THEN 0 ELSE gained[v]
    BY DEF IInv, PaymentsAreReportedOnceUnlessCrossed
  <2>2. CASE v = u
    BY <1>1, <1>2, <1>3, <2>1, <2>2
  <2>3. CASE v # u
    BY <1>3, <2>1, <2>3
  <2> QED
    BY <2>2, <2>3
<1>5. UpdatesTellOnce'
  <2> SUFFICES ASSUME NEW v \in Updates PROVE TellsOnce(v)'
    BY DEF UpdatesTellOnce
  <2>1. at' = at
    BY <1>1, AfterCommitKeeps
  <2>2. CASE v = u
    BY <1>2, <1>3, <2>1, <2>2 DEF TellsOnce
  <2>3. CASE v # u
    BY <1>1, <1>3, <2>1, <2>3 DEF IInv, UpdatesTellOnce, TellsOnce
  <2> QED
    BY <2>2, <2>3
<1> QED
  BY <1>1, <1>3, <1>4, <1>5, AfterCommitKeeps DEF IInv

LEMMA NextKeepsIInv == IInv /\ [Next]_vars => IInv'
<1> SUFFICES ASSUME IInv, [Next]_vars PROVE IInv'
  OBVIOUS
<1>1. Shapes
  BY DEF IInv
<1>2. ASSUME \E c \in Creates : Lookup(c) \/ IssueNumber(c) \/ Insert(c) PROVE IInv'
  BY <1>2, CreateSteps, QuietStep, RowedAreRequests DEF Rowed
<1>3. ASSUME \E u \in Updates : Read(u) \/ DeleteItems(u) \/ ReplaceItems(u) \/ Write(u) PROVE IInv'
  BY <1>3, UpdateSteps, QuietStep, RowedAreRequests DEF Rowed
<1>4. ASSUME \E t \in Moves : Lock(t) PROVE IInv'
  BY <1>4, MoveSteps, QuietStep, RowedAreRequests DEF Rowed
<1>5. ASSUME NEW g \in Merges,
             MergeAddresses(g) \/ Sweep(g) \/ MoveOrders(g) \/ Archive(g) \/ Deadlock(g)
      PROVE  IInv'
  BY <1>5, MergeSteps, QuietStep, RowedAreRequests
<1>6. ASSUME NEW g \in Merges, DeadlockAddress(g) PROVE IInv'
  BY <1>6, DeadlockSteps, QuietStep
<1>7. ASSUME NEW c \in NewCustomers, EnrolCustomer(c) PROVE IInv'
  BY <1>1, <1>7, DeskSteps, QuietStep, RowedAreRequests
<1>8. ASSUME NEW r \in CustomerWrites, ChangeCustomer(r) PROVE IInv'
  BY <1>1, <1>8, DeskSteps, QuietStep, RowedAreRequests
<1>9. ASSUME NEW r \in AddressWrites, ChangeAddress(r) PROVE IInv'
  BY <1>1, <1>9, DeskSteps, QuietStep, RowedAreRequests
<1>10. ASSUME NEW r \in OrderRequests, Begin(r) PROVE IInv'
  BY <1>10, BeginStep
<1>11. ASSUME NEW r \in OrderRequests, Tally(r) \/ WriteKpis(r) \/ Lose(r) PROVE IInv'
  BY <1>11, SharedSteps, QuietStep, RowedAreRequests
<1>12. ASSUME NEW r \in OrderRequests, Commit(r) PROVE IInv'
  BY <1>12, CommitStep
<1>13. CASE UNCHANGED vars
  BY <1>13, StutterKeepsIInv
<1>14. ASSUME NEW u \in Updates, Publish(u) \/ BreakOff(u) PROVE IInv'
  BY <1>14, EventKeepsIInv
<1> QED
  BY <1>14, <1>2, <1>3, <1>4, <1>5, <1>6, <1>7, <1>8, <1>9, <1>10, <1>11, <1>12, <1>13 DEF Next, Finished

THEOREM OrderMoneyInvariant == Spec => []IInv
<1>1. Init => IInv
  BY InitEstablishesIInv
<1>2. IInv /\ [Next]_vars => IInv'
  BY NextKeepsIInv
<1> QED
  BY <1>1, <1>2, PTL DEF Spec

\* OrdersRepository.create draws a number from the sequence row it has locked,
\* in the transaction that inserts the order: whatever is refused, replayed or
\* lost in between, the numbers of the stored orders are 1, 2, ... without a gap.
THEOREM NumbersHaveNoGap == Spec => []NumbersAreContiguous
<1>1. IInv => NumbersAreContiguous
  <2> SUFFICES ASSUME IInv PROVE NumbersAreContiguous
    OBVIOUS
  <2>1. /\ next \in Nat \ {0} /\ Cardinality(Stored) = next - 1
        /\ {rows[o].number : o \in Stored} = 1..(next - 1)
    BY DEF IInv, Shapes, NumbersInv
  <2>2. next = Cardinality(Stored) + 1 /\ Cardinality(Stored) = next - 1
    BY <2>1
  <2> QED
    BY <2>1, <2>2 DEF NumbersAreContiguous
<1> QED
  BY <1>1, OrderMoneyInvariant, PTL

\* OrdersService.update publishes payment.collected after its commit and two
\* audit rows, with the difference to a row it read before the transaction: if
\* no two changes had the order open at once, an update tells once of the money
\* by which it raised the collected amount, or never, when it broke off.
THEOREM PaymentsAreReportedOnce == Spec => []PaymentsAreReportedOnceUnlessCrossed
<1>1. IInv => PaymentsAreReportedOnceUnlessCrossed
  BY DEF IInv
<1> QED
  BY <1>1, OrderMoneyInvariant, PTL

-----------------------------------------------------------------------------
(* The derived columns of an order.                                        *)

\* The item lines a body carries.
LEMMA ItemsOf ==
  ASSUME NEW r \in Creates \cup Updates, r \in Updates => Body[r].items # Absent
  PROVE  Body[r].items \in Seq(OrderItemInputDto)
<1>1. CASE r \in Creates
  <2>1. Body[r] \in CreateOrderDto
    BY <1>1, OrderMoneyAssumption
  <2> QED
    BY <2>1 DEF CreateOrderDto, Items
<1>2. CASE r \in Updates
  <2>1. Body[r] \in UpdateOrderDto
    BY <1>2, OrderMoneyAssumption
  <2> QED
    BY <1>2, <2>1 DEF UpdateOrderDto, Items, Optional
<1> QED
  BY <1>1, <1>2

LEMMA SubtotalNat ==
  ASSUME NEW r \in Creates \cup Updates, r \in Updates => Body[r].items # Absent
  PROVE  r \in DOMAIN Subtotal /\ Subtotal[r] \in Nat
<1> DEFINE lines == Body[r].items
           amount == [i \in DOMAIN lines |-> lines[i].price * lines[i].quantity]
<1>1. lines \in Seq(OrderItemInputDto)
  BY ItemsOf
<1>2. r \in DOMAIN Subtotal /\ Subtotal[r] = SumFunction(amount)
  BY DEF Subtotal
<1>3. \A x, y \in Nat : x * y \in Nat
  OBVIOUS
<1>4. IsFiniteSet(DOMAIN lines)
  BY <1>1, FS_Interval
<1>5. \A i \in DOMAIN lines : amount[i] \in Nat
  <2> SUFFICES ASSUME NEW i \in DOMAIN lines PROVE amount[i] \in Nat
    OBVIOUS
  <2>1. lines[i] \in OrderItemInputDto
    BY <1>1
  <2>2. lines[i].price \in Nat /\ lines[i].quantity \in Nat
    BY <2>1 DEF OrderItemInputDto
  <2> QED
    BY <1>3, <2>2
<1>6. DOMAIN amount = DOMAIN lines
  OBVIOUS
<1> HIDE DEF amount, lines
<1>7. SumFunctionOnSet(amount, DOMAIN amount) \in Nat
  BY <1>4, <1>5, <1>6, SumNat
<1> QED
  BY <1>2, <1>7 DEF SumFunction

\* An order whose lines are those of one request amounts to that request's.
LEMMA LinesOfOne ==
  ASSUME NEW r \in Creates \cup Updates, r \in Updates => Body[r].items # Absent
  PROVE  SumFunctionOnSet(Subtotal, {r}) = Subtotal[r]
<1>1. Subtotal[r] \in Int
  BY SubtotalNat
<1>2. IsFiniteSet({}) /\ {} \cup {r} = {r} /\ r \notin {}
  BY FS_EmptySet
<1> HIDE DEF Subtotal
<1>3. SumFunctionOnSet(Subtotal, {} \cup {r}) = Subtotal[r] + SumFunctionOnSet(Subtotal, {})
  BY <1>1, <1>2, SumAdd
<1> QED
  BY <1>1, <1>2, <1>3, SumEmpty

\* The row an update writes over one with the money it has read.
LEMMA UpdatedAgrees ==
  ASSUME NEW u \in Updates, NEW row \in OrderRow, seen[u] \in OrderRow, SameMoney(seen[u], row)
  PROVE  Agrees(Updated(u, row), IF Body[u].items = Absent THEN row.subtotal ELSE Subtotal[u])
<1> DEFINE subtotal == IF Body[u].items = Absent THEN seen[u].subtotal ELSE Subtotal[u]
           shippingFee == Given(Body[u].shippingFee, seen[u].shippingFee)
           discount == Given(Body[u].discount, seen[u].discount)
           collected == Given(Body[u].collectedAmount, seen[u].collectedAmount)
           status == O!DerivePaymentStatus(collected, subtotal + shippingFee - discount)
           new == Updated(u, row)
<1>1. Given(Body[u].collectedAmount, row.collectedAmount) = collected
  BY DEF SameMoney
<1>2. subtotal = IF Body[u].items = Absent THEN row.subtotal ELSE Subtotal[u]
  BY DEF SameMoney
<1>3. new = [row EXCEPT !.subtotal = subtotal, !.shippingFee = shippingFee,
                        !.discount = discount, !.collectedAmount = collected,
                        !.paymentStatus = status]
  BY <1>1 DEF Updated
<1>4. /\ new.subtotal = subtotal /\ new.shippingFee = shippingFee /\ new.discount = discount
      /\ new.collectedAmount = collected /\ new.paymentStatus = status
  <2> HIDE DEF subtotal, shippingFee, discount, collected, status, new
  <2> QED
    BY <1>3 DEF OrderRow
<1>5. status = O!DerivePaymentStatus(new.collectedAmount, Total(new))
  <2> HIDE DEF new
  <2> QED
    BY <1>4, Zenon DEF Total
<1>6. new.subtotal = subtotal /\ new.paymentStatus = O!DerivePaymentStatus(new.collectedAmount, Total(new))
  BY <1>4, <1>5
<1>7. Agrees(new, subtotal)
  BY <1>6 DEF Agrees
<1> HIDE DEF subtotal
<1> QED
  BY <1>2, <1>7

\* The row a create writes: what its checks let through.
LEMMA NewRowAgrees ==
  ASSUME NEW c \in Creates, NEW n \in Nat \ {0}, ~CreateRefused(NewRow(c, n))
  PROVE  Agrees(NewRow(c, n), Subtotal[c])
<1>1. NewRow(c, n).subtotal = Subtotal[c]
  BY DEF NewRow
<1> QED
  BY <1>1 DEF CreateRefused, Agrees

LEMMA SameMoneyAgrees ==
  ASSUME NEW row, NEW old, NEW subtotal, SameMoney(row, old), Agrees(old, subtotal)
  PROVE  Agrees(row, subtotal)
<1>1. Total(row) = Total(old)
  BY DEF SameMoney, Total
<1> QED
  BY <1>1 DEF SameMoney, Agrees

\* A step that writes no order keeps it all but for its own transaction.
LEMMA QuietMoney ==
  ASSUME MoneyInv, NEW r \in Requests, Frame(r), UNCHANGED Orders, crossed \subseteq crossed',
         r \in Rowed => MoneyOf(r)'
  PROVE  MoneyInv'
<1>1. rows' = rows /\ items' = items
  BY DEF Orders
<1>2. DerivedColumnsAgree'
  <2>1. Stored' = Stored
    BY <1>1 DEF Stored
  <2> QED
    BY <1>1, <2>1 DEF MoneyInv, DerivedColumnsAgree, Total
<1>3. ASSUME NEW q \in Rowed PROVE MoneyOf(q)'
  <2>1. CASE q = r
    BY <2>1
  <2>2. CASE q # r
    <3>1. /\ q \in Requests /\ at'[q] = at[q] /\ draft'[q] = draft[q]
          /\ q \in Updates => seen'[q] = seen[q] /\ swept'[q] = swept[q]
          /\ OrderOf(q)' = OrderOf(q) /\ MoneyOf(q)
      BY <2>2, RowedAreRequests DEF Frame, OrderOf, MoneyInv
    <3> QED
      BY <1>1, <3>1 DEF MoneyOf, Writing, SameMoney, Agrees, Total
  <2> QED
    BY <2>1, <2>2
<1> QED
  BY <1>2, <1>3 DEF MoneyInv

\* A transaction that has ended, or has read nothing yet, knows nothing.
LEMMA NothingKnown ==
  ASSUME NEW r \in Rowed, at'[r] \in Closed \cup {"lookup", "number", "read", "lock", "gather"}
  PROVE  MoneyOf(r)'
<1>1. at'[r] \notin {"delete", "replace", "write", "insert"} \cup Writing
  BY DEF Closed, Writing
<1> QED
  BY <1>1 DEF MoneyOf, Writing

LEMMA CreateMoney ==
  ASSUME IInv, MoneyInv, NEW c \in Creates, Lookup(c) \/ IssueNumber(c) \/ Insert(c)
  PROVE  MoneyOf(c)'
<1>1. Shapes /\ c \in Requests /\ c \in Rowed /\ c \notin Updates /\ c \notin Moves /\ MoneyOf(c)
  BY Kinds, RowedAreRequests DEF IInv, MoneyInv, Rowed
<1>2. \A outcome \in Closed : End(c, outcome) => MoneyOf(c)'
  BY <1>1, EndEffect, NothingKnown
<1>3. {"replayed", "refused", "error"} \subseteq Closed
  BY DEF Closed
<1>4. CASE Lookup(c)
  <2>1. CASE End(c, "replayed")
    BY <1>2, <1>3, <2>1
  <2>2. CASE ~End(c, "replayed")
    <3>1. at'[c] = "number"
      BY <1>1, <1>4, <2>2, GotoEffect DEF Lookup, Statements
    <3> QED
      BY <1>1, <3>1, NothingKnown
  <2> QED
    BY <2>1, <2>2
<1>5. CASE IssueNumber(c)
  <2>1. CASE CreateRefused(NewRow(c, next))
    BY <1>2, <1>3, <1>5, <2>1 DEF IssueNumber
  <2>2. CASE ~CreateRefused(NewRow(c, next))
    <3>1. draft' = [draft EXCEPT ![c] = NewRow(c, next)] /\ next \in Nat \ {0}
      BY <1>1, <1>5, <2>2 DEF IssueNumber, Shapes
    <3>2. draft'[c] = NewRow(c, next)
      BY <1>1, <3>1 DEF Shapes
    <3>3. Agrees(draft'[c], Subtotal[c])
      BY <2>2, <3>1, <3>2, NewRowAgrees
    <3> QED
      BY <1>1, <3>3 DEF MoneyOf, Agrees, Total
  <2> QED
    BY <2>1, <2>2
<1>6. CASE Insert(c)
  <2>1. CASE End(c, "error")
    BY <1>2, <1>3, <2>1
  <2>2. CASE ~End(c, "error")
    <3>1. draft' = draft /\ at[c] = "insert"
      BY <1>6, <2>2 DEF Insert, opened
    <3> QED
      BY <1>1, <3>1 DEF MoneyOf, Agrees, Total
  <2> QED
    BY <2>1, <2>2
<1> QED
  BY <1>4, <1>5, <1>6

LEMMA UpdateMoney ==
  ASSUME IInv, MoneyInv, NEW u \in Updates, Read(u) \/ DeleteItems(u) \/ ReplaceItems(u) \/ Write(u)
  PROVE  MoneyOf(u)'
<1>1. /\ Shapes /\ u \in Requests /\ u \in Rowed /\ u \notin Creates /\ u \notin Moves /\ MoneyOf(u)
      /\ Progress(u) /\ Change(u)
  BY Kinds, RowedAreRequests DEF IInv, MoneyInv, Rowed, CallsProgress, OrderRequests, Change
<1>2. rows' = rows /\ items' = items /\ crossed' = crossed /\ OrderOf(u)' = OrderOf(u)
  BY DEF Read, DeleteItems, ReplaceItems, Write, committed, sideVars, OrderOf
<1>3. OrderOf(u) \in Creates /\ rows[OrderOf(u)] \in OrderRow
  <2>1. at[u] \notin Closed
    BY DEF Read, DeleteItems, ReplaceItems, Write, Closed
  <2> QED
    BY <1>1, <2>1, OpenIs, OrdersAreCreates DEF Progress, Shapes
<1>4. CASE Read(u)
  <2>1. /\ seen' = [seen EXCEPT ![u] = rows[OrderOf(u)]]
        /\ Goto(u, IF Body[u].items = Absent THEN "write" ELSE "delete")
    BY <1>4 DEF Read
  <2>2. seen'[u] = rows[OrderOf(u)]
    BY <1>1, <2>1 DEF Shapes
  <2>3. at'[u] \in {"write", "delete"} /\ (at'[u] = "write" => Body[u].items = Absent)
    BY <1>1, <2>1, GotoEffect DEF Statements
  <2> QED
    BY <1>1, <1>2, <2>2, <2>3 DEF MoneyOf, SameMoney, Writing
<1>5. CASE DeleteItems(u)
  <2>1. swept' = [swept EXCEPT ![u] = items[OrderOf(u)]] /\ Goto(u, "replace") /\ seen' = seen
        /\ at[u] = "delete"
    BY <1>5 DEF DeleteItems
  <2>2. swept'[u] = items[OrderOf(u)]
    BY <1>1, <2>1 DEF Shapes
  <2>3. at'[u] = "replace"
    BY <1>1, <2>1, GotoEffect DEF Statements
  <2> QED
    BY <1>1, <1>2, <2>1, <2>2, <2>3 DEF MoneyOf, SameMoney, Writing
<1>6. CASE ReplaceItems(u)
  <2>1. Goto(u, "write") /\ seen' = seen /\ swept' = swept /\ at[u] = "replace"
    BY <1>6 DEF ReplaceItems, opened
  <2>2. at'[u] = "write"
    BY <1>1, <2>1, GotoEffect DEF Statements
  <2> QED
    BY <1>1, <1>2, <2>1, <2>2 DEF MoneyOf, SameMoney, Writing
<1>7. CASE Write(u)
  <2> DEFINE row == Updated(u, rows[OrderOf(u)])
  <2>1. CASE End(u, "refused")
    BY <1>1, <2>1, EndEffect, NothingKnown DEF Closed
  <2>2. CASE ~End(u, "refused")
    <3>1. /\ draft' = [draft EXCEPT ![u] = row] /\ Goto(u, "tally")
          /\ seen' = seen /\ swept' = swept /\ at[u] = "write"
      BY <1>7, <2>2 DEF Write
    <3>2. draft'[u] = row
      BY <1>1, <3>1 DEF Shapes
    <3>3. at'[u] = "tally"
      BY <1>1, <3>1, GotoEffect DEF Statements
    <3>4. seen[u] \in OrderRow
      BY <1>1, <3>1 DEF Progress, Shapes
    <3>5. ASSUME OrderOf(u) \notin crossed
          PROVE  Agrees(draft'[u], IF Body[u].items = Absent THEN rows[OrderOf(u)].subtotal ELSE Subtotal[u])
      <4>1. SameMoney(seen[u], rows[OrderOf(u)])
        BY <1>1, <3>1, <3>5 DEF MoneyOf
      <4> QED
        BY <1>3, <3>2, <3>4, <4>1, UpdatedAgrees
    <3> QED
      BY <1>1, <1>2, <3>1, <3>3, <3>5 DEF MoneyOf, SameMoney, Agrees, Total, Writing
  <2> QED
    BY <2>1, <2>2
<1> QED
  BY <1>4, <1>5, <1>6, <1>7

LEMMA MoveMoney ==
  ASSUME IInv, MoneyInv, NEW t \in Moves, Lock(t)
  PROVE  MoneyOf(t)'
<1>1. /\ Shapes /\ t \in Requests /\ t \in Rowed /\ t \notin Creates /\ t \notin Updates
      /\ Progress(t) /\ Change(t)
  BY Kinds, RowedAreRequests DEF IInv, Rowed, CallsProgress, OrderRequests, Change
<1>2. rows' = rows /\ OrderOf(t)' = OrderOf(t)
  BY DEF Lock, committed, OrderOf
<1>3. rows[OrderOf(t)] \in OrderRow
  <2>1. at[t] \notin Closed
    BY DEF Lock, Closed
  <2> QED
    BY <1>1, <2>1, OpenIs, OrdersAreCreates DEF Progress, Shapes
<1>4. CASE End(t, "refused")
  BY <1>1, <1>4, EndEffect, NothingKnown DEF Closed
<1>5. CASE ~End(t, "refused")
  <2> DEFINE row == [rows[OrderOf(t)] EXCEPT !.status = Body[t].toStatus]
  <2>1. draft' = [draft EXCEPT ![t] = row]
    BY <1>5 DEF Lock
  <2>2. draft'[t] = row
    BY <1>1, <2>1 DEF Shapes
  <2>3. SameMoney(row, rows[OrderOf(t)])
    BY <1>3 DEF SameMoney, OrderRow
  <2> QED
    BY <1>1, <1>2, <2>2, <2>3 DEF MoneyOf, SameMoney
<1> QED
  BY <1>4, <1>5

\* The aggregate and the write of the customer's row are no writes of the order.
LEMMA SharedMoney ==
  ASSUME IInv, MoneyInv, NEW r \in Rowed, Tally(r) \/ WriteKpis(r) \/ Lose(r)
  PROVE  MoneyOf(r)'
<1>1. Shapes /\ r \in Requests /\ MoneyOf(r)
  BY RowedAreRequests DEF IInv, MoneyInv
<1>2. CASE Lose(r)
  BY <1>1, <1>2, EndEffect, NothingKnown DEF Lose, Closed
<1>3. CASE Tally(r) \/ WriteKpis(r)
  <2>1. /\ draft' = draft /\ seen' = seen /\ swept' = swept /\ rows' = rows /\ items' = items
        /\ crossed' = crossed /\ at[r] \in Writing /\ OrderOf(r)' = OrderOf(r)
    BY <1>3 DEF Tally, WriteKpis, opened, committed, sideVars, Writing, OrderOf
  <2> QED
    BY <1>1, <2>1 DEF MoneyOf, SameMoney, Agrees, Total, Writing
<1> QED
  BY <1>2, <1>3

\* What a commit leaves of the orders it is no change of.
LEMMA CommitLeaves ==
  ASSUME IInv, NEW r \in OrderRequests, Commit(r),
         NEW o \in Stored, Change(r) => OrderOf(r) # o
  PROVE  SameMoney(rows'[o], rows[o]) /\ items'[o] = items[o]
<1>1. Shapes /\ Progress(r) /\ rows' = View(r) /\ o \in Creates /\ rows[o] \in OrderRow
  BY DEF IInv, CallsProgress, Commit, Stored, Shapes
<1>2. CASE r \in Merges
  <2>1. /\ items' = items
        /\ rows' = [q \in Creates |-> IF q \in swept[r] THEN [rows[q] EXCEPT !.customer = Body[r].into]
                                      ELSE rows[q]]
    BY <1>1, <1>2 DEF Commit, View
  <2>2. rows'[o] = IF o \in swept[r] THEN [rows[o] EXCEPT !.customer = Body[r].into] ELSE rows[o]
    BY <1>1, <2>1
  <2>3. SameMoney([rows[o] EXCEPT !.customer = Body[r].into], rows[o])
    BY <1>1 DEF SameMoney, OrderRow
  <2> QED
    BY <2>1, <2>2, <2>3 DEF SameMoney
<1>3. CASE r \notin Merges
  <2>1. OrderOf(r) # o
    <3>1. CASE r \in Creates
      <4>1. at[r] = "commit" /\ OrderOf(r) = r
        BY <3>1 DEF Commit, OrderOf
      <4>2. rows[r] = NoRow
        BY <1>1, <3>1, <4>1 DEF Progress
      <4> QED
        BY <4>1, <4>2 DEF Stored
    <3> QED
      BY <1>3, <3>1 DEF OrderRequests, Change
  <2>2. OrderOf(r) \in Creates
    BY <1>3, OrdersAreCreates DEF OrderRequests, Rowed
  <2>3. rows' = [rows EXCEPT ![OrderOf(r)] = draft[r]] /\ items' = [items EXCEPT ![OrderOf(r)] = ItemsAfter(r)]
    BY <1>1, <1>3 DEF Commit, View
  <2>4. rows'[o] = rows[o] /\ items'[o] = items[o]
    BY <1>1, <2>1, <2>2, <2>3 DEF Shapes
  <2> QED
    BY <2>4 DEF SameMoney
<1> QED
  BY <1>2, <1>3

\* The order that a commit writes.
LEMMA CommittedAgrees ==
  ASSUME IInv, MoneyInv, NEW r \in Rowed, Commit(r), OrderOf(r) \notin crossed
  PROVE  LET o == OrderOf(r)
         IN  Agrees(rows'[o], SumFunctionOnSet(Subtotal, items'[o]))
<1> DEFINE o == OrderOf(r)
<1>1. /\ Shapes /\ MoneyOf(r) /\ Progress(r) /\ r \in Requests /\ o \in Creates /\ r \notin Merges
      /\ at[r] \in Writing
  BY Kinds, RowedAreRequests, OrdersAreCreates
     DEF IInv, MoneyInv, CallsProgress, Rowed, OrderRequests, Commit, Writing
<1>2. rows' = [rows EXCEPT ![o] = draft[r]] /\ items' = [items EXCEPT ![o] = ItemsAfter(r)]
  BY <1>1 DEF Commit, View
<1>3. rows'[o] = draft[r] /\ items'[o] = ItemsAfter(r)
  BY <1>1, <1>2 DEF Shapes
<1>4. r \notin Creates => Agrees(rows[o], SumFunctionOnSet(Subtotal, items[o]))
  <2> SUFFICES ASSUME r \notin Creates PROVE Agrees(rows[o], SumFunctionOnSet(Subtotal, items[o]))
    OBVIOUS
  <2>1. r \in Open /\ Change(r)
    BY <1>1, OpenIs DEF Writing, Closed, Change, Rowed
  <2>2. o \in Stored \ crossed
    BY <1>1, <2>1 DEF Progress, Stored
  <2> QED
    BY <2>2 DEF MoneyInv, DerivedColumnsAgree, Agrees
<1>5. CASE r \in Creates
  <2>1. Agrees(draft[r], Subtotal[r])
    BY <1>1, <1>5 DEF MoneyOf
  <2>2. ItemsAfter(r) = {r} /\ SumFunctionOnSet(Subtotal, {r}) = Subtotal[r]
    BY <1>5, LinesOfOne, Kinds DEF ItemsAfter
  <2> QED
    BY <1>3, <2>1, <2>2
<1>6. CASE r \in Updates
  <2>1. r \notin Creates
    BY <1>6, Kinds
  <2>2. Agrees(draft[r], IF Body[r].items = Absent THEN rows[o].subtotal ELSE Subtotal[r])
    BY <1>1, <1>6 DEF MoneyOf
  <2>3. CASE Body[r].items = Absent
    <3>1. ItemsAfter(r) = items[o]
      BY <2>1, <2>3 DEF ItemsAfter
    <3>2. rows[o].subtotal = SumFunctionOnSet(Subtotal, items[o])
      BY <1>4, <2>1 DEF Agrees
    <3> QED
      BY <1>3, <2>2, <2>3, <3>1, <3>2
  <2>4. CASE Body[r].items # Absent
    <3>1. swept[r] = items[o]
      BY <1>1, <1>6, <2>4 DEF MoneyOf
    <3>2. ItemsAfter(r) = {r}
      BY <1>6, <2>1, <2>4, <3>1 DEF ItemsAfter
    <3>3. SumFunctionOnSet(Subtotal, {r}) = Subtotal[r]
      BY <1>6, <2>4, LinesOfOne
    <3> QED
      BY <1>3, <2>2, <2>4, <3>2, <3>3
  <2> QED
    BY <2>3, <2>4
<1>7. CASE r \in Moves
  <2>1. r \notin Creates /\ r \notin Updates
    BY <1>7, Kinds
  <2>2. SameMoney(draft[r], rows[o])
    BY <1>1, <1>7 DEF MoneyOf
  <2>3. ItemsAfter(r) = items[o]
    BY <2>1 DEF ItemsAfter
  <2> QED
    BY <1>3, <1>4, <2>1, <2>2, <2>3, SameMoneyAgrees
<1> QED
  BY <1>5, <1>6, <1>7 DEF Rowed

LEMMA CommitMoney ==
  ASSUME IInv, MoneyInv, NEW r \in OrderRequests, Commit(r)
  PROVE  MoneyInv'
<1>1. /\ Shapes /\ Progress(r) /\ r \in Requests /\ r \in Open /\ "ok" \in Closed
      /\ End(r, "ok") /\ crossed' = crossed
  BY OpenIs, RowedAreRequests DEF IInv, CallsProgress, Commit, Closed, sideVars
<1>2. Frame(r) /\ at'[r] = "ok"
  BY <1>1, EndEffect
<1>3. /\ r \in Creates => Stored' = Stored \cup {r}
      /\ r \notin Creates => Stored' = Stored
  BY CommitWrites
<1>4. ASSUME NEW q \in Rowed PROVE MoneyOf(q)'
  <2>1. CASE q = r
    BY <1>1, <1>2, <2>1, NothingKnown
  <2>2. CASE q # r
    <3>1. /\ q \in Requests /\ at'[q] = at[q] /\ draft'[q] = draft[q]
          /\ q \in Updates => seen'[q] = seen[q] /\ swept'[q] = swept[q]
          /\ OrderOf(q)' = OrderOf(q) /\ MoneyOf(q) /\ Progress(q)
      BY <1>2, <2>2, RowedAreRequests DEF Frame, OrderOf, MoneyInv, IInv, CallsProgress
    <3>2. CASE q \in Creates
      <4>1. q \notin Updates /\ q \notin Moves
        BY <3>2, Kinds
      <4> QED
        BY <3>1, <4>1 DEF MoneyOf, Agrees, Total, Writing
    <3>3. CASE q \in Updates \cup Moves /\ (q \notin Open \/ OrderOf(q) \in crossed)
      <4>1. q \notin Creates
        BY <3>3, Kinds
      <4>2. q \notin Open => at[q] \in Closed
        BY <3>1, OpenIs
      <4>3. q \notin Open => MoneyOf(q)'
        BY <3>1, <4>2, NothingKnown
      <4> QED
        BY <1>1, <3>1, <3>3, <4>1, <4>3 DEF MoneyOf
    <3>4. CASE q \in Updates \cup Moves /\ q \in Open /\ OrderOf(q) \notin crossed
      <4>1. q \notin Creates /\ OrderOf(q) \in Creates /\ rows[OrderOf(q)] # NoRow
        BY <3>1, <3>4, Kinds, OrdersAreCreates DEF Progress, Change
      <4>2. OrderOf(q) \in Stored
        BY <4>1 DEF Stored
      <4>3. Change(r) => OrderOf(r) # OrderOf(q)
        BY <1>1, <2>2, <3>4 DEF IInv, CrossingsAreNoted, Change
      <4>4. SameMoney(rows'[OrderOf(q)], rows[OrderOf(q)]) /\ items'[OrderOf(q)] = items[OrderOf(q)]
        BY <4>2, <4>3, CommitLeaves
      <4> QED
        BY <1>1, <3>1, <4>1, <4>4 DEF MoneyOf, SameMoney, Agrees, Total, Writing
    <3> QED
      BY <3>2, <3>3, <3>4 DEF Rowed
  <2> QED
    BY <2>1, <2>2
<1>5. ASSUME NEW o \in Stored', o \notin crossed
      PROVE  Agrees(rows'[o], SumFunctionOnSet(Subtotal, items'[o]))
  <2>1. CASE r \in Rowed /\ OrderOf(r) = o
    BY <1>5, <2>1, CommittedAgrees
  <2>2. CASE ~(r \in Rowed /\ OrderOf(r) = o)
    <3>1. o \in Stored /\ (Change(r) => OrderOf(r) # o)
      BY <1>3, <1>5, <2>2 DEF Rowed, Change, OrderOf
    <3>2. Agrees(rows[o], SumFunctionOnSet(Subtotal, items[o]))
      BY <1>5, <3>1 DEF MoneyInv, DerivedColumnsAgree, Agrees
    <3>3. SameMoney(rows'[o], rows[o]) /\ items'[o] = items[o]
      BY <3>1, CommitLeaves
    <3> QED
      BY <3>2, <3>3, SameMoneyAgrees
  <2> QED
    BY <2>1, <2>2
<1>6. DerivedColumnsAgree'
  BY <1>1, <1>5 DEF DerivedColumnsAgree, Agrees, Total
<1> QED
  BY <1>4, <1>6 DEF MoneyInv

LEMMA QuietKeepsMoney ==
  ASSUME MoneyInv, NEW r \in Requests, Quiet(r), r \in Rowed => MoneyOf(r)'
  PROVE  MoneyInv'
BY QuietMoney DEF Quiet

LEMMA NextKeepsMoney == IInv /\ MoneyInv /\ [Next]_vars => MoneyInv'
<1> SUFFICES ASSUME IInv, MoneyInv, [Next]_vars PROVE MoneyInv'
  OBVIOUS
<1>1. Shapes
  BY DEF IInv
<1>2. ASSUME NEW c \in Creates, Lookup(c) \/ IssueNumber(c) \/ Insert(c) PROVE MoneyInv'
  BY <1>2, CreateSteps, CreateMoney, QuietKeepsMoney, RowedAreRequests DEF Rowed
<1>3. ASSUME NEW u \in Updates, Read(u) \/ DeleteItems(u) \/ ReplaceItems(u) \/ Write(u) PROVE MoneyInv'
  BY <1>3, UpdateSteps, UpdateMoney, QuietKeepsMoney, RowedAreRequests DEF Rowed
<1>4. ASSUME NEW t \in Moves, Lock(t) PROVE MoneyInv'
  BY <1>4, MoveSteps, MoveMoney, QuietKeepsMoney, RowedAreRequests DEF Rowed
<1>5. ASSUME NEW g \in Merges,
             MergeAddresses(g) \/ Sweep(g) \/ MoveOrders(g) \/ Archive(g) \/ Deadlock(g)
      PROVE  MoneyInv'
  BY <1>5, MergeSteps, QuietKeepsMoney, RowedAreRequests, Kinds DEF Rowed
<1>6. ASSUME NEW g \in Merges, DeadlockAddress(g) PROVE MoneyInv'
  BY <1>6, DeadlockSteps, QuietKeepsMoney
<1>7. \A r \in Desk : r \in Requests /\ r \notin Rowed
  BY Kinds, RowedAreRequests DEF Rowed
<1>8. ASSUME NEW c \in NewCustomers, EnrolCustomer(c) PROVE MoneyInv'
  BY <1>1, <1>7, <1>8, DeskSteps, QuietKeepsMoney, RowedAreRequests
<1>9. ASSUME NEW r \in CustomerWrites, ChangeCustomer(r) PROVE MoneyInv'
  BY <1>1, <1>7, <1>9, DeskSteps, QuietKeepsMoney, RowedAreRequests
<1>10. ASSUME NEW r \in AddressWrites, ChangeAddress(r) PROVE MoneyInv'
  BY <1>1, <1>7, <1>10, DeskSteps, QuietKeepsMoney, RowedAreRequests
<1>11. ASSUME NEW r \in OrderRequests, Begin(r) PROVE MoneyInv'
  <2>1. r \in Requests /\ UNCHANGED Orders /\ crossed \subseteq crossed'
        /\ draft' = draft /\ seen' = seen /\ swept' = swept
    BY <1>11, RowedAreRequests DEF Begin, Arrive, committed, opened, Orders
  <2>2. PICK stmt \in {"lookup", "read", "lock", "refused", "gather"} : Goto(r, stmt)
    <3> DEFINE first == CASE r \in Creates -> "lookup" [] r \in Updates -> "read"
                          [] r \in Moves -> "lock"
                          [] r \in Merges -> IF Body[r].from = Body[r].into THEN "refused" ELSE "gather"
    <3>1. first \in {"lookup", "read", "lock", "refused", "gather"}
      BY Kinds DEF OrderRequests
    <3>2. Goto(r, first)
      BY <1>11 DEF Begin
    <3> QED
      BY <3>1, <3>2
  <2>3. at'[r] = stmt /\ \A q \in Requests \ {r} : at'[q] = at[q]
    BY <1>1, <2>1, <2>2, GotoEffect DEF Statements
  <2>4. r \in Rowed => MoneyOf(r)'
    BY <2>3, NothingKnown DEF Closed
  <2> QED
    BY <2>1, <2>3, <2>4, QuietMoney DEF Frame
<1>12. ASSUME NEW r \in OrderRequests, Tally(r) \/ WriteKpis(r) \/ Lose(r) PROVE MoneyInv'
  BY <1>12, SharedSteps, SharedMoney, QuietKeepsMoney, RowedAreRequests
<1>13. ASSUME NEW r \in OrderRequests, Commit(r) PROVE MoneyInv'
  BY <1>13, CommitMoney
<1>14. CASE AfterCommit
  <2>1. /\ rows' = rows /\ items' = items /\ seen' = seen /\ swept' = swept /\ draft' = draft
        /\ crossed' = crossed /\ at' = at /\ Stored' = Stored
    BY <1>14 DEF AfterCommit, sideVars, opened, Stored
  <2>2. DerivedColumnsAgree'
    BY <2>1 DEF MoneyInv, DerivedColumnsAgree, Total
  <2>3. \A r \in Rowed : MoneyOf(r)'
    BY <2>1 DEF MoneyInv, MoneyOf, SameMoney, Agrees, Total, OrderOf, Writing
  <2> QED
    BY <2>2, <2>3 DEF MoneyInv
<1>15. UNCHANGED vars \/ (\E u \in Updates : Publish(u) \/ BreakOff(u)) => AfterCommit
  BY EventStep, StutterIsAfterCommit
<1> QED
  BY <1>2, <1>3, <1>4, <1>5, <1>6, <1>8, <1>9, <1>10, <1>11, <1>12, <1>13, <1>14, <1>15 DEF Next, Finished

\* OrdersRepository.update rewrites the money block from the row it has read:
\* the subtotal of an order is that of its lines and its payment status that of
\* its amounts, for any number of edits, transitions and merges, unless two
\* changes had the order open at once.
THEOREM ColumnsAgreeWithTheLines == Spec => []DerivedColumnsAgree
<1>1. Init => MoneyInv
  <2> SUFFICES ASSUME Init PROVE MoneyInv
    OBVIOUS
  <2>1. rows = [o \in Creates |-> NoRow] /\ at \in [Requests -> {"idle", "unsent"}]
    BY DEF Init
  <2>2. Stored = {}
    BY <2>1 DEF Stored
  <2>3. \A r \in Rowed : at[r] \in {"idle", "unsent"}
    BY <2>1, RowedAreRequests
  <2> QED
    BY <2>2, <2>3 DEF MoneyInv, DerivedColumnsAgree, MoneyOf, Writing
<1>2. IInv /\ MoneyInv /\ [Next]_vars => MoneyInv'
  BY NextKeepsMoney
<1>3. MoneyInv => DerivedColumnsAgree
  BY DEF MoneyInv
<1> QED
  BY <1>1, <1>2, <1>3, OrderMoneyInvariant, PTL DEF Spec

-----------------------------------------------------------------------------
(* The customers of the orders.                                            *)

Elsewhere(c, row) == row = NoRow \/ row.customer # c

\* Two tables that agree on the orders of a customer give it the same KPIs.
LEMMA KpisSame ==
  ASSUME NEW c, NEW old, NEW new,
         \A o \in Creates : new[o] = old[o] \/ (Elsewhere(c, old[o]) /\ Elsewhere(c, new[o]))
  PROVE  KpisOf(c, new) = KpisOf(c, old)
<1> DEFINE own(t) == {o \in Creates : t[o] # NoRow /\ t[o].customer = c /\ t[o].status # "cancelled"}
<1>1. own(new) = own(old)
  BY DEF Elsewhere
<1>2. \A o \in own(old) : new[o] = old[o]
  BY DEF Elsewhere
<1>3. KpisOf(c, new) = [count |-> Cardinality(own(new)), spent |-> SumCollected(own(new), new)]
  BY DEF KpisOf
<1>4. KpisOf(c, old) = [count |-> Cardinality(own(old)), spent |-> SumCollected(own(old), old)]
  BY DEF KpisOf
<1> HIDE DEF own
<1>5. [o \in own(old) |-> new[o].collectedAmount] = [o \in own(old) |-> old[o].collectedAmount]
  BY <1>2
<1>6. SumCollected(own(old), new) = SumCollected(own(old), old)
  BY <1>5 DEF SumCollected
<1> QED
  BY <1>1, <1>3, <1>4, <1>6

LEMMA KpisOfNone ==
  ASSUME NEW c PROVE KpisOf(c, [o \in Creates |-> NoRow]) = NoTally
<1> DEFINE none == [o \in Creates |-> NoRow]
           own == {o \in Creates : none[o] # NoRow /\ none[o].customer = c /\ none[o].status # "cancelled"}
           amounts == [o \in own |-> none[o].collectedAmount]
<1>1. own = {}
  OBVIOUS
<1>2. Cardinality(own) = 0
  BY <1>1, FS_EmptySet
<1>3. DOMAIN amounts = {}
  BY <1>1
<1>4. SumCollected(own, none) = SumFunctionOnSet(amounts, DOMAIN amounts)
  BY DEF SumCollected, SumFunction
<1>5. SumFunctionOnSet(amounts, {}) = 0
  <2> HIDE DEF amounts
  <2> QED
    BY SumEmpty
<1>6. SumCollected(own, none) = 0
  BY <1>3, <1>4, <1>5, Zenon
<1>7. KpisOf(c, none) = [count |-> Cardinality(own), spent |-> SumCollected(own, none)]
  BY DEF KpisOf
<1> QED
  BY <1>2, <1>6, <1>7 DEF NoTally

\* What a request touches, and what its transaction sees, depends on its own
\* part and on the rows.
LEMMA TouchedStays ==
  ASSUME NEW r \in Requests, rows' = rows
  PROVE  Touched(r)' = Touched(r)
BY DEF Touched, Change, OrderOf

LEMMA ViewStays ==
  ASSUME NEW r \in OrderRequests, rows' = rows,
         r \in Rowed => draft'[r] = draft[r],
         r \in Updates => seen'[r] = seen[r],
         r \in Merges => swept'[r] = swept[r]
  PROVE  View(r)' = View(r) /\ CustomerOf(r)' = CustomerOf(r)
<1>1. OrderOf(r)' = OrderOf(r)
  BY DEF OrderOf
<1>2. View(r)' = View(r)
  <2>1. CASE r \in Merges
    BY <2>1 DEF View
  <2>2. CASE r \notin Merges
    BY <1>1, <2>2 DEF View, OrderRequests, Rowed
  <2> QED
    BY <2>1, <2>2
<1>3. CustomerOf(r)' = CustomerOf(r)
  <2>1. CASE r \in Creates
    BY <2>1, Kinds DEF CustomerOf
  <2>2. CASE r \in Updates
    BY <2>2, Kinds DEF CustomerOf
  <2>3. CASE r \in Moves
    BY <2>3, Kinds DEF CustomerOf, Rowed
  <2>4. CASE r \in Merges
    BY <2>4, Kinds DEF CustomerOf
  <2> QED
    BY <2>1, <2>2, <2>3, <2>4 DEF OrderRequests
<1> QED
  BY <1>2, <1>3

LEMMA AddressKinds ==
  /\ AddressWrites \cap (OrderRequests \cup NewCustomers \cup CustomerWrites) = {}
  /\ NewAddresses \cap AddressEdits = {} /\ NewAddresses \cap Registered = {}
  /\ \A a \in Addresses : Body[a].customer \in Customers /\ Body[a].isDefault \in Optional(BOOLEAN)
  /\ \A e \in AddressEdits :
       /\ Body[e].customer \in Customers /\ Body[e].address \in Addresses
       /\ Body[e].isDefault \in Optional(BOOLEAN) /\ Body[e].active \in Optional(BOOLEAN)
  /\ \A r \in AddressWrites : Body[r].customer \in Customers /\ TargetOf(r) \in Addresses
<1>1. AddressWrites \cap OrderRequests = {}
  BY Kinds DEF OrderRequests, Desk
<1>2. AddressWrites \cap (NewCustomers \cup CustomerWrites) = {}
  BY CustomerBookAssumption DEF AddressWrites, CustomerWrites
<1>3. NewAddresses \cap AddressEdits = {} /\ NewAddresses \cap Registered = {}
  BY CustomerBookAssumption
<1>4. \A a \in Addresses : Body[a].customer \in Customers /\ Body[a].isDefault \in Optional(BOOLEAN)
  BY CustomerBookAssumption DEF CreateAddressDto
<1>5. \A e \in AddressEdits :
       /\ Body[e].customer \in Customers /\ Body[e].address \in Addresses
       /\ Body[e].isDefault \in Optional(BOOLEAN) /\ Body[e].active \in Optional(BOOLEAN)
  BY CustomerBookAssumption DEF UpdateAddressDto
<1> QED
  BY <1>1, <1>2, <1>3, <1>4, <1>5 DEF AddressWrites, TargetOf, Addresses

\* A step of request r leaves what the other requests hold alone ...
Apart(r) ==
  /\ \A q \in Requests \ {r} : at'[q] = at[q]
  /\ \A q \in Rowed \ {r} : draft'[q] = draft[q]
  /\ \A q \in Updates \ {r} : seen'[q] = seen[q]
  /\ \A q \in (Updates \cup Merges \cup AddressWrites) \ {r} : swept'[q] = swept[q]
  /\ \A q \in OrderRequests \ {r} : tally'[q] = tally[q]
  /\ \A q \in (Merges \cup AddressWrites) \ {r} : taken'[q] = taken[q]

\* ... and these rows are written by commits only.
Books == <<rows, items, next, kpi, merged, addresses, bare>>

CallShapes ==
  /\ at \in [Requests -> Statements]
  /\ tally = [r \in OrderRequests |-> tally[r]]
  /\ taken \in [Merges \cup AddressWrites -> SUBSET Addresses]

\* What request r knows of customers and addresses.
Knows(r) ==
  /\ r \in OrderRequests => CustomersOf(r)
  /\ r \in Merges => MergeOf(r)
  /\ r \in AddressWrites => AddressWriteOf(r)

LEMMA TalliesStay ==
  ASSUME NEW r \in OrderRequests, View(r)' = View(r), CustomerOf(r)' = CustomerOf(r),
         tally'[r] = KpisOf(CustomerOf(r), View(r))
  PROVE  (tally[r] = KpisOf(CustomerOf(r), View(r)))'
BY DEF KpisOf, SumCollected

LEMMA OthersKnow ==
  ASSUME NEW r \in Requests, Apart(r), UNCHANGED <<rows, addresses>>, crossed \subseteq crossed',
         NEW q \in Requests \ {r}, Knows(q)
  PROVE  Knows(q)'
<1>1. at'[q] = at[q] /\ OrderOf(q)' = OrderOf(q) /\ rows' = rows /\ addresses' = addresses
  BY DEF Apart, OrderOf
<1>2. (q \in Open)' <=> q \in Open
  BY <1>1, OpenIs, OpenIsPrimed
<1>3. Stored' = Stored
  BY <1>1 DEF Stored
<1>4. ASSUME q \in OrderRequests PROVE CustomersOf(q)'
  <2>1. /\ q \in Rowed => draft'[q] = draft[q]
        /\ q \in Updates => seen'[q] = seen[q]
        /\ q \in Merges => swept'[q] = swept[q]
        /\ tally'[q] = tally[q]
    BY <1>4 DEF Apart
  <2>2. View(q)' = View(q) /\ CustomerOf(q)' = CustomerOf(q)
    BY <1>1, <1>4, <2>1, ViewStays
  <2>3. CustomersOf(q)
    BY <1>4 DEF Knows
  <2>4. at'[q] \in {"kpi", "commit"} /\ CustomerOf(q)' \notin crossed' =>
          (tally[q] = KpisOf(CustomerOf(q), View(q)))'
    BY <1>1, <1>4, <2>1, <2>2, <2>3, TalliesStay DEF CustomersOf
  <2> QED
    BY <1>1, <1>4, <2>1, <2>3, <2>4 DEF CustomersOf, Change, Rowed, Writing
<1>5. ASSUME q \in Merges PROVE MergeOf(q)'
  <2>1. swept'[q] = swept[q] /\ taken'[q] = taken[q] /\ MergeOf(q)
    BY <1>5 DEF Apart, Knows
  <2> QED
    BY <1>1, <1>2, <1>3, <2>1 DEF MergeOf, AddressOf, Writing
<1>6. ASSUME q \in AddressWrites PROVE AddressWriteOf(q)'
  <2>1. swept'[q] = swept[q] /\ taken'[q] = taken[q] /\ AddressWriteOf(q)
    BY <1>6 DEF Apart, Knows
  <2> QED
    BY <1>1, <2>1 DEF AddressWriteOf, AddressOf, Marks, TargetOf
<1> QED
  BY <1>4, <1>5, <1>6 DEF Knows

\* What a step that commits nothing has to keep.
Calm(r) ==
  /\ Apart(r) /\ UNCHANGED Books /\ crossed \subseteq crossed' /\ CallShapes'
  /\ Knows(r)'
  /\ (r \in Open)' => r \in Open \/ \A q \in Open : Crossing(r, q) \subseteq crossed'
  /\ r \in OrderRequests => \A o \in Held(r)' : o \in Held(r) \/ ~RowHeld(r, o)
  /\ r \in Merges \cup AddressWrites => \A a \in taken'[r] : a \in taken[r] \/ ~AddressHeld(r, a)

LEMMA RowsHeld ==
  ASSUME NEW r \in OrderRequests, NEW q \in OrderRequests \ {r}, NEW o \in Held(q)
  PROVE  RowHeld(r, o)
BY DEF Held, RowHeld, Others

LEMMA HeldStays ==
  ASSUME NEW r \in Requests, Apart(r), NEW q \in OrderRequests \ {r}
  PROVE  Held(q)' = Held(q)
<1>1. at'[q] = at[q] /\ OrderOf(q)' = OrderOf(q) /\ (q \in Merges => swept'[q] = swept[q])
  BY RowedAreRequests DEF Apart, OrderOf
<1> QED
  BY <1>1 DEF Held, Change, Writing

LEMMA HeldApart ==
  ASSUME RowsExclusive, NEW r \in Requests, Apart(r),
         r \in OrderRequests => \A o \in Held(r)' : o \in Held(r) \/ ~RowHeld(r, o)
  PROVE  RowsExclusive'
<1> SUFFICES ASSUME NEW p \in OrderRequests, NEW q \in OrderRequests, p # q
             PROVE  Held(p)' \cap Held(q)' = {}
  BY DEF RowsExclusive
<1>1. CASE p = r
  <2>1. Held(q)' = Held(q)
    BY <1>1, HeldStays
  <2>2. \A o \in Held(q) : RowHeld(r, o)
    BY <1>1, RowsHeld
  <2> QED
    BY <1>1, <2>1, <2>2 DEF RowsExclusive
<1>2. CASE q = r
  <2>1. Held(p)' = Held(p)
    BY <1>2, HeldStays
  <2>2. \A o \in Held(p) : RowHeld(r, o)
    BY <1>2, RowsHeld
  <2> QED
    BY <1>2, <2>1, <2>2 DEF RowsExclusive
<1>3. CASE p # r /\ q # r
  BY <1>3, HeldStays DEF RowsExclusive
<1> QED
  BY <1>1, <1>2, <1>3

LEMMA TakenApart ==
  ASSUME NEW r \in Requests, Apart(r), CallShapes,
         \A p, q \in Merges \cup AddressWrites : p # q => taken[p] \cap taken[q] = {},
         r \in Merges \cup AddressWrites => \A a \in taken'[r] : a \in taken[r] \/ ~AddressHeld(r, a)
  PROVE  \A p, q \in Merges \cup AddressWrites : p # q => taken'[p] \cap taken'[q] = {}
<1> SUFFICES ASSUME NEW p \in Merges \cup AddressWrites, NEW q \in Merges \cup AddressWrites, p # q,
                    NEW a, a \in taken'[p], a \in taken'[q]
             PROVE  FALSE
  OBVIOUS
<1>1. DOMAIN taken = Merges \cup AddressWrites
  BY DEF CallShapes
<1>2. \A x \in (Merges \cup AddressWrites) \ {r} : a \in taken'[x] => a \in taken[x] /\ AddressHeld(r, a)
  BY <1>1 DEF Apart, AddressHeld
<1> QED
  BY <1>2

LEMMA MeetingsApart ==
  ASSUME MeetingsAreNoted, NEW r \in Requests, Apart(r), rows' = rows, crossed \subseteq crossed',
         (r \in Open)' => r \in Open \/ \A q \in Open : Crossing(r, q) \subseteq crossed'
  PROVE  MeetingsAreNoted'
<1> SUFFICES ASSUME NEW p \in OrderRequests \cup AddressWrites, NEW q \in OrderRequests \cup AddressWrites,
                    Meet(p, q)'
             PROVE  Touched(p)' \cup Touched(q)' \subseteq crossed'
  BY DEF MeetingsAreNoted
<1>1. p \in Requests /\ q \in Requests
  BY RowedAreRequests
<1>2. Touched(p)' = Touched(p) /\ Touched(q)' = Touched(q)
  BY <1>1, TouchedStays
<1>3. \A x \in Requests \ {r} : (x \in Open)' <=> x \in Open
  BY OpenIs, OpenIsPrimed DEF Apart
<1>4. /\ p # q /\ (p \in Open)' /\ (q \in Open)' /\ ~({p, q} \subseteq Creates)
      /\ {p, q} \cap AddressWrites = {} \/ {p, q} \cap Merges # {}
      /\ Touched(p) \cap Touched(q) # {}
  BY <1>2 DEF Meet
<1>5. CASE p \in Open /\ q \in Open
  <2>1. Meet(p, q)
    BY <1>4, <1>5 DEF Meet
  <2> QED
    BY <1>2, <2>1 DEF MeetingsAreNoted
<1>6. CASE p \notin Open
  <2>1. p = r /\ q \in Open /\ Crossing(r, q) \subseteq crossed'
    BY <1>1, <1>3, <1>4, <1>6
  <2>2. Touched(p) \cup Touched(q) \subseteq Crossing(p, q)
    BY <1>4 DEF Crossing
  <2> QED
    BY <1>2, <2>1, <2>2
<1>7. CASE q \notin Open
  <2>1. q = r /\ p \in Open /\ Crossing(r, p) \subseteq crossed'
    BY <1>1, <1>3, <1>4, <1>7
  <2>2. {p, q} = {q, p} /\ Touched(p) \cap Touched(q) = Touched(q) \cap Touched(p)
    OBVIOUS
  <2>3. Touched(p) \cup Touched(q) \subseteq Crossing(q, p)
    BY <1>4, <2>2 DEF Crossing
  <2> QED
    BY <1>2, <2>1, <2>3
<1> QED
  BY <1>5, <1>6, <1>7

LEMMA CalmStep ==
  ASSUME CustomersInv, Shapes, NEW r \in Requests, Calm(r)
  PROVE  CustomersInv'
<1>1. /\ rows' = rows /\ next' = next /\ kpi' = kpi /\ merged' = merged /\ addresses' = addresses
      /\ bare' = bare /\ crossed \subseteq crossed' /\ Apart(r) /\ CallShapes'
  BY DEF Calm, Books
<1>2. CustomersShapes'
  BY <1>1 DEF CustomersInv, CustomersShapes, CallShapes
<1>3. RowsExclusive'
  BY HeldApart DEF CustomersInv, Calm
<1>4. MeetingsAreNoted'
  BY <1>1, MeetingsApart DEF CustomersInv, Calm
<1>5. \A q \in Requests : Knows(q)'
  <2>1. \A q \in Requests : Knows(q)
    BY DEF CustomersInv, Knows
  <2> QED
    BY <1>1, <2>1, OthersKnow DEF Calm
<1>6. (\A p, q \in Merges \cup AddressWrites : p # q => taken[p] \cap taken[q] = {})'
  <2>1. CallShapes
    BY DEF CustomersInv, CustomersShapes, CallShapes, Shapes
  <2> QED
    BY <1>1, <2>1, TakenApart DEF CustomersInv, Calm
<1>7. MergedInv'
  BY <1>1 DEF CustomersInv, MergedInv, KnownAddresses
<1>8. CustomersMatchUnlessCrossed'
  <2>1. CustomersMatchUnlessCrossed /\ Stored' = Stored
    BY <1>1 DEF CustomersInv, Stored
  <2>2. \A c \in Customers : (kpi[c] = KpisOf(c, rows))' <=> kpi[c] = KpisOf(c, rows)
    BY <1>1 DEF KpisOf, SumCollected
  <2>3. \A c \in Customers : HasDefault(c, addresses)' <=> HasDefault(c, addresses)
    BY <1>1 DEF HasDefault, Marks
  <2> QED
    BY <1>1, <2>1, <2>2, <2>3 DEF CustomersMatchUnlessCrossed
<1> QED
  BY <1>2, <1>3, <1>4, <1>5, <1>6, <1>7, <1>8, RowedAreRequests DEF CustomersInv, Knows

\* A request that has ended, or has read nothing yet, knows nothing.
LEMMA NothingToKnow ==
  ASSUME NEW r \in Requests,
         at'[r] \in Closed \cup {"lookup", "number", "read", "lock", "gather", "enter"},
         r \in Merges /\ at'[r] \notin Closed => Body[r].from # Body[r].into,
         r \in Merges \cup AddressWrites => taken'[r] = {},
         r \in NewAddresses => addresses'[r] = NoRow
  PROVE  Knows(r)' /\ Held(r)' = {}
<1>1. at'[r] \notin Writing \cup {"insert", "delete", "replace", "write", "archive", "move", "rehome",
                                  "sweep", "demote", "kpi", "commit"}
  BY DEF Closed, Writing
<1>2. (r \in Open)' => at'[r] \notin Closed
  BY OpenIsPrimed
<1>3. CustomersOf(r)'
  BY <1>1 DEF CustomersOf, Writing
<1>4. r \in Merges => MergeOf(r)'
  BY <1>1, <1>2 DEF MergeOf, Writing
<1>5. r \in AddressWrites => AddressWriteOf(r)'
  BY <1>1 DEF AddressWriteOf
<1>6. Held(r)' = {}
  BY <1>1 DEF Held, Writing
<1> QED
  BY <1>3, <1>4, <1>5, <1>6 DEF Knows

\* A step of an order's transaction that leaves the frame of CustomerBook alone.
LEMMA OrderCalm ==
  ASSUME CustomersShapes, Shapes, NEW r \in OrderRequests, Quiet(r),
         UNCHANGED <<kpi, merged, addresses, bare>>,
         \A q \in AddressWrites : swept'[q] = swept[q],
         tally' = [q \in OrderRequests |-> IF q = r THEN tally'[r] ELSE tally[q]],
         taken' \in [Merges \cup AddressWrites -> SUBSET Addresses],
         \A q \in (Merges \cup AddressWrites) \ {r} : taken'[q] = taken[q],
         Knows(r)',
         \A o \in Held(r)' : o \in Held(r) \/ ~RowHeld(r, o),
         r \in Merges => \A a \in taken'[r] : a \in taken[r] \/ ~AddressHeld(r, a)
  PROVE  Calm(r)
<1>1. /\ Frame(r) /\ rows' = rows /\ items' = items /\ next' = next /\ crossed \subseteq crossed'
      /\ Shapes' /\ (at'[r] \notin Closed => at[r] \notin Closed)
  BY DEF Quiet, Orders
<1>2. r \in Requests /\ r \notin AddressWrites
  BY AddressKinds, RowedAreRequests
<1>3. Apart(r)
  BY <1>1 DEF Apart, Frame
<1>4. CallShapes'
  <2>1. \A q \in OrderRequests : tally'[q] = IF q = r THEN tally'[r] ELSE tally[q]
    OBVIOUS
  <2>2. tally' = [q \in OrderRequests |-> tally'[q]]
    BY <2>1
  <2> QED
    BY <1>1, <2>2 DEF CallShapes, Shapes
<1>5. (r \in Open)' => r \in Open
  BY <1>1, <1>2, OpenIs, OpenIsPrimed
<1> QED
  BY <1>1, <1>2, <1>3, <1>4, <1>5 DEF Calm, Books

\* The same when it keeps its aggregate and its addresses.
LEMMA OrderGoesOn ==
  ASSUME CustomersShapes, Shapes, NEW r \in OrderRequests, Quiet(r),
         UNCHANGED <<kpi, merged, addresses, bare, tally, taken>>,
         \A q \in AddressWrites : swept'[q] = swept[q],
         Knows(r)',
         \A o \in Held(r)' : o \in Held(r) \/ ~RowHeld(r, o)
  PROVE  Calm(r)
<1>1. tally' = [q \in OrderRequests |-> IF q = r THEN tally'[r] ELSE tally[q]]
  BY DEF CustomersShapes
<1>2. taken' \in [Merges \cup AddressWrites -> SUBSET Addresses]
  BY DEF CustomersShapes
<1> QED
  BY <1>1, <1>2, OrderCalm

LEMMA EndTaken ==
  ASSUME CustomersShapes, Shapes, NEW r \in Requests, NEW outcome, End(r, outcome)
  PROVE  /\ tally' = [q \in OrderRequests |-> IF q = r THEN tally'[r] ELSE tally[q]]
         /\ taken' \in [Merges \cup AddressWrites -> SUBSET Addresses]
         /\ \A q \in (Merges \cup AddressWrites) \ {r} : taken'[q] = taken[q]
         /\ r \in Merges \cup AddressWrites => taken'[r] = {}
         /\ \A q \in AddressWrites \ {r} : swept'[q] = swept[q]
<1>1. /\ tally' = [q \in DOMAIN tally |-> IF q = r THEN NoTally ELSE tally[q]]
      /\ taken' = [q \in DOMAIN taken |-> IF q = r THEN {} ELSE taken[q]]
      /\ swept' = [q \in DOMAIN swept |-> IF q = r THEN {} ELSE swept[q]]
  BY DEF End, Clear
<1>2. tally' = [q \in OrderRequests |-> IF q = r THEN tally'[r] ELSE tally[q]]
  BY <1>1 DEF CustomersShapes
<1>3. /\ taken' \in [Merges \cup AddressWrites -> SUBSET Addresses]
      /\ \A q \in (Merges \cup AddressWrites) \ {r} : taken'[q] = taken[q]
      /\ r \in Merges \cup AddressWrites => taken'[r] = {}
  BY <1>1 DEF CustomersShapes
<1>4. \A q \in AddressWrites \ {r} : swept'[q] = swept[q]
  BY <1>1 DEF Shapes
<1> QED
  BY <1>2, <1>3, <1>4

\* A transaction that ends without having committed anything.
LEMMA OrderEnds ==
  ASSUME CustomersShapes, Shapes, NEW r \in OrderRequests, NEW outcome \in Closed, End(r, outcome),
         Quiet(r), UNCHANGED <<kpi, merged, addresses, bare>>
  PROVE  Calm(r)
<1>1. r \in Requests /\ r \notin AddressWrites /\ r \notin NewAddresses
  BY AddressKinds, RowedAreRequests DEF AddressWrites
<1>2. at'[r] = outcome
  BY <1>1, EndEffect
<1>3. Knows(r)' /\ Held(r)' = {}
  BY <1>1, <1>2, EndTaken, NothingToKnow
<1>4. \A q \in AddressWrites : swept'[q] = swept[q]
  BY <1>1, EndTaken
<1>5. r \in Merges => taken'[r] = {}
  BY <1>1, EndTaken
<1> QED
  BY <1>1, <1>3, <1>4, <1>5, EndTaken, OrderCalm

LEMMA CreateCalm ==
  ASSUME IInv, CustomersInv, NEW c \in Creates, Lookup(c) \/ IssueNumber(c) \/ Insert(c)
  PROVE  Calm(c)
<1>1. /\ Shapes /\ CustomersShapes /\ CustomersOf(c) /\ c \in Requests /\ c \in OrderRequests /\ c \in Rowed
      /\ c \notin Updates /\ c \notin Merges /\ ~Change(c) /\ c \notin AddressWrites
  BY Kinds, AddressKinds, RowedAreRequests DEF IInv, CustomersInv, OrderRequests, Rowed, Change
<1>2. Quiet(c)
  BY CreateSteps
<1>3. UNCHANGED <<kpi, merged, addresses, bare>>
  BY DEF Lookup, IssueNumber, Insert, committed, bookVars
<1>4. ASSUME NEW outcome \in {"replayed", "refused", "error"}, End(c, outcome) PROVE Calm(c)
  <2>1. outcome \in Closed
    BY DEF Closed
  <2> QED
    BY <1>1, <1>2, <1>3, <1>4, <2>1, OrderEnds
<1>5. Held(c)' = {}
  BY <1>1 DEF Held, Change
<1>6. ASSUME Goto(c, "number"), UNCHANGED opened PROVE Calm(c)
  <2>1. at'[c] = "number"
    BY <1>1, <1>6, GotoEffect DEF Statements
  <2>2. Knows(c)'
    BY <1>1, <2>1, AddressKinds, NothingToKnow DEF AddressWrites
  <2>3. tally' = tally /\ taken' = taken /\ swept' = swept
    BY <1>6 DEF opened
  <2> QED
    BY <1>1, <1>2, <1>3, <1>5, <2>2, <2>3, OrderGoesOn
<1>7. CASE IssueNumber(c) /\ ~CreateRefused(NewRow(c, next))
  <2>1. /\ draft' = [draft EXCEPT ![c] = NewRow(c, next)] /\ Goto(c, "insert")
        /\ tally' = tally /\ taken' = taken /\ swept' = swept
    BY <1>7 DEF IssueNumber
  <2>2. at'[c] = "insert" /\ draft'[c].customer = Body[c].customerId
    BY <1>1, <2>1, GotoEffect DEF Statements, Shapes, NewRow
  <2>3. Knows(c)'
    BY <1>1, <2>2 DEF Knows, CustomersOf, Change, Writing
  <2> QED
    BY <1>1, <1>2, <1>3, <1>5, <2>1, <2>3, OrderGoesOn
<1>8. ASSUME at[c] = "insert", Goto(c, "tally"), UNCHANGED opened PROVE Calm(c)
  <2>1. tally' = tally /\ taken' = taken /\ swept' = swept /\ draft' = draft
    BY <1>8 DEF opened
  <2>2. at'[c] = "tally"
    BY <1>1, <1>8, GotoEffect DEF Statements
  <2>3. Knows(c)'
    BY <1>1, <1>8, <2>1, <2>2 DEF Knows, CustomersOf, Change, Writing
  <2> QED
    BY <1>1, <1>2, <1>3, <1>5, <2>1, <2>3, OrderGoesOn
<1> QED
  BY <1>4, <1>6, <1>7, <1>8 DEF Lookup, IssueNumber, Insert

LEMMA UpdateCalm ==
  ASSUME IInv, CustomersInv, NEW u \in Updates, Read(u) \/ DeleteItems(u) \/ ReplaceItems(u) \/ Write(u)
  PROVE  Calm(u)
<1>1. /\ Shapes /\ CustomersShapes /\ CustomersOf(u) /\ u \in Requests /\ u \in OrderRequests /\ u \in Rowed
      /\ u \notin Creates /\ u \notin Merges /\ Change(u) /\ u \notin AddressWrites /\ Progress(u)
  BY Kinds, AddressKinds, RowedAreRequests
     DEF IInv, CallsProgress, CustomersInv, OrderRequests, Rowed, Change
<1>2. Quiet(u)
  BY UpdateSteps
<1>3. /\ UNCHANGED <<kpi, merged, addresses, bare>> /\ rows' = rows /\ OrderOf(u)' = OrderOf(u)
      /\ crossed' = crossed
  BY DEF Read, DeleteItems, ReplaceItems, Write, committed, bookVars, sideVars, OrderOf
<1>4. at[u] \notin Closed
  BY DEF Read, DeleteItems, ReplaceItems, Write, Closed
<1>5. rows[OrderOf(u)] \in OrderRow
  BY <1>1, <1>4, OpenIs, OrdersAreCreates DEF Progress, Shapes
<1>6. CASE Read(u) \/ DeleteItems(u) \/ ReplaceItems(u)
  <2>1. PICK stmt \in {"delete", "replace", "write"} : Goto(u, stmt)
    BY <1>6 DEF Read, DeleteItems, ReplaceItems
  <2>2. /\ tally' = tally /\ taken' = taken
        /\ seen' = seen \/ seen' = [seen EXCEPT ![u] = rows[OrderOf(u)]]
        /\ seen' = seen => at[u] \in {"delete", "replace"} \/ seen'[u] = rows[OrderOf(u)]
        /\ swept' = swept \/ swept' = [swept EXCEPT ![u] = items[OrderOf(u)]]
    BY <1>1, <1>6 DEF Read, DeleteItems, ReplaceItems, opened, Shapes
  <2>3. at'[u] = stmt
    BY <1>1, <2>1, GotoEffect DEF Statements
  <2>4. \/ seen'[u].customer = rows[OrderOf(u)].customer
        \/ {seen'[u].customer, rows[OrderOf(u)].customer} \subseteq crossed
    BY <1>1, <2>2 DEF CustomersOf, Shapes
  <2>5. CustomersOf(u)'
    BY <1>1, <1>3, <2>3, <2>4 DEF CustomersOf, Change, Writing
  <2>6. Knows(u)' /\ Held(u)' = {}
    BY <1>1, <2>3, <2>5 DEF Knows, Held, Writing
  <2>7. \A q \in AddressWrites : swept'[q] = swept[q]
    BY <1>1, <2>2 DEF Shapes
  <2> QED
    BY <1>1, <1>2, <1>3, <2>2, <2>6, <2>7, OrderGoesOn
<1>7. CASE Write(u)
  <2> DEFINE row == Updated(u, rows[OrderOf(u)])
  <2>1. CASE End(u, "refused")
    BY <1>1, <1>2, <1>3, <2>1, OrderEnds DEF Closed
  <2>2. CASE ~End(u, "refused")
    <3>1. /\ draft' = [draft EXCEPT ![u] = row] /\ Goto(u, "tally") /\ at[u] = "write"
          /\ seen' = seen /\ swept' = swept /\ taken' = taken /\ tally' = tally
          /\ ~RowHeld(u, OrderOf(u))
      BY <1>7, <2>2 DEF Write
    <3>2. row.customer = rows[OrderOf(u)].customer
      BY <1>5 DEF Updated, OrderRow
    <3>3. draft'[u].customer = rows[OrderOf(u)].customer /\ at'[u] = "tally"
      BY <1>1, <3>1, <3>2, GotoEffect DEF Statements, Shapes
    <3>4. CustomersOf(u)'
      BY <1>1, <1>3, <3>1, <3>3 DEF CustomersOf, Change, Writing
    <3>5. Knows(u)' /\ \A o \in Held(u)' : o = OrderOf(u)
      BY <1>1, <1>3, <3>4 DEF Knows, Held
    <3> QED
      BY <1>1, <1>2, <1>3, <3>1, <3>5, OrderGoesOn
  <2> QED
    BY <2>1, <2>2
<1> QED
  BY <1>6, <1>7

LEMMA MoveCalm ==
  ASSUME IInv, CustomersInv, NEW t \in Moves, Lock(t)
  PROVE  Calm(t)
<1>1. /\ Shapes /\ CustomersShapes /\ CustomersOf(t) /\ t \in Requests /\ t \in OrderRequests /\ t \in Rowed
      /\ t \notin Creates /\ t \notin Updates /\ t \notin Merges /\ Change(t) /\ t \notin AddressWrites
      /\ Progress(t)
  BY Kinds, AddressKinds, RowedAreRequests
     DEF IInv, CallsProgress, CustomersInv, OrderRequests, Rowed, Change
<1>2. Quiet(t)
  BY MoveSteps
<1>3. UNCHANGED <<kpi, merged, addresses, bare>> /\ rows' = rows /\ OrderOf(t)' = OrderOf(t)
  BY DEF Lock, committed, bookVars, sideVars, OrderOf
<1>4. rows[OrderOf(t)] \in OrderRow
  BY <1>1, OpenIs, OrdersAreCreates DEF Progress, Shapes, Lock, Closed
<1>5. CASE End(t, "refused")
  BY <1>1, <1>2, <1>3, <1>5, OrderEnds DEF Closed
<1>6. CASE ~End(t, "refused")
  <2>1. /\ draft' = [draft EXCEPT ![t] = [rows[OrderOf(t)] EXCEPT !.status = Body[t].toStatus]]
        /\ Goto(t, "tally") /\ swept' = swept /\ taken' = taken /\ tally' = tally
        /\ ~RowHeld(t, OrderOf(t))
    BY <1>6 DEF Lock
  <2>2. [rows[OrderOf(t)] EXCEPT !.status = Body[t].toStatus].customer = rows[OrderOf(t)].customer
    BY <1>4 DEF OrderRow
  <2>3. draft'[t].customer = rows[OrderOf(t)].customer /\ at'[t] = "tally"
    BY <1>1, <2>1, <2>2, GotoEffect DEF Statements, Shapes
  <2>4. CustomersOf(t)'
    BY <1>1, <1>3, <2>1, <2>3 DEF CustomersOf, Change, Writing
  <2>5. Knows(t)' /\ \A o \in Held(t)' : o = OrderOf(t)
    BY <1>1, <1>3, <2>4 DEF Knows, Held
  <2> QED
    BY <1>1, <1>2, <1>3, <2>1, <2>5, OrderGoesOn
<1> QED
  BY <1>5, <1>6

LEMMA MergeCalm ==
  ASSUME IInv, CustomersInv, NEW g \in Merges,
         MergeAddresses(g) \/ Sweep(g) \/ MoveOrders(g) \/ Archive(g) \/ Deadlock(g)
  PROVE  Calm(g)
<1>1. /\ Shapes /\ CustomersShapes /\ MergeOf(g) /\ g \in Requests /\ g \in OrderRequests
      /\ g \notin Creates /\ ~Change(g) /\ g \notin AddressWrites
  BY Kinds, AddressKinds, RowedAreRequests DEF IInv, CustomersInv, OrderRequests, Change
<1>2. Quiet(g)
  BY MergeSteps
<1>3. /\ UNCHANGED <<kpi, merged, addresses, bare>> /\ rows' = rows /\ crossed' = crossed
      /\ Stored' = Stored
  BY DEF MergeAddresses, GatherAddresses, Rehome, OrdersStay, Sweep, MoveOrders, Archive, Deadlock,
         committed, bookVars, sideVars, Stored
<1>4. CASE Deadlock(g)
  BY <1>1, <1>2, <1>3, <1>4, OrderEnds DEF Deadlock, Closed
<1>5. CASE ~Deadlock(g)
  <2>1. PICK stmt \in {"rehome", "sweep", "move", "archive", "tally"} : Goto(g, stmt)
    BY <1>5 DEF MergeAddresses, GatherAddresses, Rehome, Sweep, MoveOrders, Archive
  <2>2. at'[g] = stmt
    BY <1>1, <2>1, GotoEffect DEF Statements
  <2>3. /\ at[g] \in {"gather", "rehome", "sweep", "move", "archive"} /\ g \in Open
        /\ Body[g].from # Body[g].into
    <3>1. at[g] \in {"gather", "rehome", "sweep", "move", "archive"}
      BY <1>5 DEF MergeAddresses, GatherAddresses, Rehome, Sweep, MoveOrders, Archive
    <3> QED
      BY <1>1, <3>1, OpenIs DEF Closed, MergeOf
  <2>4. tally' = tally
    BY <1>5 DEF MergeAddresses, OrdersStay, Sweep, MoveOrders, Archive, opened
  <2>5. CustomersOf(g)'
    BY <1>1, <2>2, Kinds DEF CustomersOf, Change
  <2>6. \A a \in taken[g] : AddressOf(Body[g].from, a)'
    BY <1>1, <1>3 DEF MergeOf, AddressOf
  <2>7. tally' = [q \in OrderRequests |-> IF q = g THEN tally'[g] ELSE tally[q]]
    BY <1>1, <2>4 DEF CustomersShapes
  <2>8. CASE GatherAddresses(g)
    <3> DEFINE found == {a \in Addresses : addresses[a] # NoRow /\ addresses[a].customer = Body[g].from}
    <3>1. swept' = [swept EXCEPT ![g] = found] /\ taken' = taken /\ stmt = "rehome"
      BY <2>2, <2>8, <1>1 DEF GatherAddresses, Goto, Shapes
    <3>2. swept'[g] = found /\ \A q \in AddressWrites : swept'[q] = swept[q]
      BY <1>1, <3>1 DEF Shapes
    <3>3. MergeOf(g)'
      <4>1. taken'[g] = {}
        BY <1>1, <2>8, <3>1 DEF GatherAddresses, MergeOf, Writing
      <4> QED
        BY <1>3, <2>2, <2>3, <3>1, <3>2, <4>1 DEF MergeOf, AddressOf, Writing
    <3>4. Knows(g)' /\ Held(g)' = {}
      BY <1>1, <2>2, <2>5, <3>1, <3>3 DEF Knows, Held, Change, Writing
    <3> QED
      BY <1>1, <1>2, <1>3, <2>4, <3>1, <3>2, <3>4, OrderGoesOn
  <2>9. CASE Rehome(g)
    <3> DEFINE moved == {a \in swept[g] : addresses[a].customer = Body[g].from}
    <3>1. /\ taken' = [taken EXCEPT ![g] = moved] /\ swept' = swept /\ stmt = "sweep"
          /\ at[g] = "rehome" /\ \A a \in swept[g] : ~AddressHeld(g, a)
      BY <2>2, <2>9, <1>1 DEF Rehome, Goto, Shapes
    <3>2. \A a \in moved : a \in Addresses /\ AddressOf(Body[g].from, a)
      BY <1>1, <3>1 DEF MergeOf, AddressOf
    <3>3. /\ taken'[g] = moved /\ taken' \in [Merges \cup AddressWrites -> SUBSET Addresses]
          /\ \A q \in (Merges \cup AddressWrites) \ {g} : taken'[q] = taken[q]
      BY <1>1, <3>1, <3>2 DEF CustomersShapes
    <3>4. Body[g].from \notin crossed => \A a \in Addresses : AddressOf(Body[g].from, a) => a \in moved
      BY <1>1, <3>1 DEF MergeOf, AddressOf
    <3>5. MergeOf(g)'
      BY <1>3, <2>2, <2>3, <3>1, <3>2, <3>3, <3>4 DEF MergeOf, AddressOf, Writing
    <3>6. Knows(g)' /\ Held(g)' = {}
      BY <1>1, <2>2, <2>5, <3>1, <3>5 DEF Knows, Held, Change, Writing
    <3>7. \A a \in taken'[g] : ~AddressHeld(g, a)
      BY <3>1, <3>3
    <3> QED
      BY <1>1, <1>2, <1>3, <2>7, <3>1, <3>3, <3>6, <3>7, OrderCalm
  <2>10. CASE Sweep(g) \/ MoveOrders(g) \/ Archive(g)
    <3> DEFINE own(o) == rows[o].customer = Body[g].from
    <3>1. /\ taken' = taken
          /\ \/ Sweep(g) /\ swept' = [swept EXCEPT ![g] = {o \in Stored : own(o)}]
             \/ MoveOrders(g) /\ swept' = [swept EXCEPT ![g] = {o \in @ : own(o)}]
             \/ Archive(g) /\ swept' = swept
      BY <2>10 DEF Sweep, MoveOrders, Archive, opened
    <3>2. /\ swept'[g] = {o \in Stored : own(o)} \/ swept'[g] = {o \in swept[g] : own(o)} \/ swept'[g] = swept[g]
          /\ Sweep(g) => swept'[g] = {o \in Stored : own(o)}
          /\ MoveOrders(g) => swept'[g] = {o \in swept[g] : own(o)}
          /\ Archive(g) => swept'[g] = swept[g]
          /\ \A q \in AddressWrites : swept'[q] = swept[q]
      <4>1. g \in DOMAIN swept
        BY <1>1 DEF Shapes
      <4>2. /\ at[g] = "sweep" <=> Sweep(g)
            /\ at[g] = "move" <=> MoveOrders(g)
            /\ at[g] = "archive" <=> Archive(g)
        BY <2>10 DEF Sweep, MoveOrders, Archive
      <4>3. \A q \in AddressWrites : swept'[q] = swept[q]
        BY <1>1, <3>1 DEF Shapes
      <4> QED
        BY <3>1, <4>1, <4>2, <4>3
    <3>3. /\ Sweep(g) => at[g] = "sweep" /\ stmt = "move"
          /\ MoveOrders(g) => at[g] = "move" /\ stmt = "archive" /\ \A o \in swept[g] : ~RowHeld(g, o)
          /\ Archive(g) => at[g] = "archive" /\ stmt = "tally"
      BY <1>1, <2>2 DEF Sweep, MoveOrders, Archive, Goto, Shapes
    <3>4. /\ stmt \in {"archive", "tally"} => \A o \in swept'[g] : own(o)
          /\ Body[g].from \notin crossed => \A o \in Stored : own(o) => o \in swept'[g]
          /\ Body[g].from \notin crossed => \A a \in Addresses : AddressOf(Body[g].from, a) => a \in taken[g]
      BY <1>1, <2>10, <3>2, <3>3 DEF MergeOf, Writing
    <3>5. MergeOf(g)'
      BY <1>3, <2>2, <2>3, <2>6, <2>10, <3>1, <3>3, <3>4 DEF MergeOf, AddressOf, Writing
    <3>6. Knows(g)'
      BY <1>1, <2>5, <3>5 DEF Knows
    <3>7. \A o \in Held(g)' : o \in Held(g) \/ ~RowHeld(g, o)
      BY <1>1, <2>2, <2>10, <3>2, <3>3 DEF Held, Change, Writing
    <3> QED
      BY <1>1, <1>2, <1>3, <2>4, <3>1, <3>2, <3>6, <3>7, OrderGoesOn
  <2> QED
    BY <1>5, <2>8, <2>9, <2>10 DEF MergeAddresses
<1> QED
  BY <1>4, <1>5

\* The aggregate is that of the view, and the customer's row is written with it.
LEMMA SharedCalm ==
  ASSUME IInv, CustomersInv, NEW r \in OrderRequests, Tally(r) \/ WriteKpis(r) \/ Lose(r)
  PROVE  Calm(r)
<1>1. /\ Shapes /\ CustomersShapes /\ CustomersOf(r) /\ (r \in Merges => MergeOf(r)) /\ r \in Requests
      /\ r \notin AddressWrites
  BY AddressKinds, RowedAreRequests DEF IInv, CustomersInv
<1>2. Quiet(r)
  BY SharedSteps
<1>3. /\ UNCHANGED <<kpi, merged, addresses, bare>> /\ rows' = rows /\ crossed' = crossed
      /\ Stored' = Stored /\ OrderOf(r)' = OrderOf(r)
  BY DEF Tally, WriteKpis, Lose, committed, bookVars, sideVars, Stored, OrderOf
<1>4. CASE Lose(r)
  BY <1>1, <1>2, <1>3, <1>4, OrderEnds DEF Lose, Closed
<1>5. CASE ~Lose(r)
  <2>1. PICK stmt \in {"kpi", "commit"} : Goto(r, stmt)
    BY <1>5 DEF Tally, WriteKpis
  <2>2. at'[r] = stmt /\ at[r] \in {"tally", "kpi"}
    BY <1>1, <1>5, <2>1, GotoEffect DEF Statements, Tally, WriteKpis
  <2>3. seen' = seen /\ swept' = swept /\ taken' = taken /\ draft' = draft
    BY <1>5 DEF Tally, WriteKpis, opened
  <2>4. View(r)' = View(r) /\ CustomerOf(r)' = CustomerOf(r)
    BY <1>3, <2>3, ViewStays
  <2>5. /\ tally' = [q \in OrderRequests |-> IF q = r THEN tally'[r] ELSE tally[q]]
        /\ CustomerOf(r) \notin crossed => tally'[r] = KpisOf(CustomerOf(r), View(r))
    <3>1. CASE Tally(r)
      BY <1>1, <3>1 DEF Tally, CustomersShapes
    <3>2. CASE WriteKpis(r)
      <4>1. tally' = tally /\ at[r] = "kpi"
        BY <3>2 DEF WriteKpis, opened
      <4> QED
        BY <1>1, <4>1 DEF CustomersShapes, CustomersOf
    <3> QED
      BY <1>5, <3>1, <3>2
  <2>6. CustomerOf(r)' \notin crossed' => (tally[r] = KpisOf(CustomerOf(r), View(r)))'
    BY <1>3, <2>4, <2>5, TalliesStay
  <2>7. CustomersOf(r)'
    BY <1>1, <1>3, <2>2, <2>3, <2>6 DEF CustomersOf, Change, Writing
  <2>8. r \in Merges => MergeOf(r)'
    BY <1>1, <1>3, <2>2, <2>3, OpenIs, OpenIsPrimed DEF MergeOf, AddressOf, Writing, Closed
  <2>9. Knows(r)'
    BY <1>1, <2>7, <2>8 DEF Knows
  <2>10. Held(r)' \subseteq Held(r)
    BY <1>3, <2>2, <2>3 DEF Held, Change, Writing
  <2>11. taken' \in [Merges \cup AddressWrites -> SUBSET Addresses]
    BY <1>1, <2>3 DEF CustomersShapes
  <2> QED
    BY <1>1, <1>2, <1>3, <2>3, <2>5, <2>9, <2>10, <2>11, OrderCalm
<1> QED
  BY <1>4, <1>5

\* The step that begins a transaction notes what it crosses.
LEMMA BeginCalm ==
  ASSUME IInv, CustomersInv, NEW r \in OrderRequests, Begin(r)
  PROVE  Calm(r)
<1>1. /\ Shapes /\ CustomersShapes /\ r \in Requests /\ r \notin AddressWrites /\ at[r] = "idle"
      /\ (r \in Merges => MergeOf(r))
  BY AddressKinds, RowedAreRequests DEF IInv, CustomersInv, Begin, Arrive
<1>2. /\ rows' = rows /\ items' = items /\ next' = next /\ kpi' = kpi /\ merged' = merged
      /\ addresses' = addresses /\ bare' = bare /\ seen' = seen /\ swept' = swept /\ taken' = taken
      /\ draft' = draft /\ tally' = tally
      /\ crossed' = crossed \cup UNION {Crossing(r, q) : q \in Open}
  BY DEF Begin, Arrive, committed, opened, bookVars
<1>3. PICK stmt \in {"lookup", "read", "lock", "refused", "gather"} : Goto(r, stmt)
             /\ (r \in Merges => stmt = IF Body[r].from = Body[r].into THEN "refused" ELSE "gather")
  <2> DEFINE first == CASE r \in Creates -> "lookup" [] r \in Updates -> "read"
                        [] r \in Moves -> "lock"
                        [] r \in Merges -> IF Body[r].from = Body[r].into THEN "refused" ELSE "gather"
  <2>1. /\ first \in {"lookup", "read", "lock", "refused", "gather"}
        /\ r \in Merges => first = IF Body[r].from = Body[r].into THEN "refused" ELSE "gather"
    BY Kinds DEF OrderRequests
  <2>2. Goto(r, first)
    BY DEF Begin
  <2> QED
    BY <2>1, <2>2
<1>4. /\ at' \in [Requests -> Statements] /\ at'[r] = stmt
      /\ \A q \in Requests \ {r} : at'[q] = at[q]
  BY <1>1, <1>3, GotoEffect DEF Statements
<1>5. r \in Merges => taken[r] = {}
  BY <1>1 DEF MergeOf, Writing
<1>6. Knows(r)' /\ Held(r)' = {}
  BY <1>1, <1>2, <1>3, <1>4, <1>5, NothingToKnow DEF AddressWrites, Closed
<1>7. Apart(r) /\ CallShapes'
  BY <1>1, <1>2, <1>4 DEF Apart, CallShapes, CustomersShapes
<1> QED
  BY <1>1, <1>2, <1>6, <1>7 DEF Calm, Books

\* The writes of customers know nothing of orders and addresses.
LEMMA CustomerWriteCalm ==
  ASSUME IInv, CustomersInv, NEW r \in NewCustomers \cup CustomerWrites,
         \/ r \in NewCustomers /\ EnrolCustomer(r)
         \/ r \in CustomerWrites /\ ChangeCustomer(r)
  PROVE  Calm(r)
<1>1. /\ Shapes /\ CustomersShapes /\ r \in Requests /\ r \in Desk
      /\ r \notin OrderRequests /\ r \notin Merges /\ r \notin AddressWrites
      /\ r \notin Rowed /\ r \notin Updates
  BY Kinds, AddressKinds, RowedAreRequests DEF IInv, CustomersInv, OrderRequests, Rowed
<1>2. Quiet(r)
  BY <1>1, DeskSteps
<1>3. /\ Frame(r) /\ Shapes' /\ rows' = rows /\ items' = items /\ next' = next /\ crossed \subseteq crossed'
  BY <1>2 DEF Quiet, Orders
<1>4. /\ kpi' = kpi /\ merged' = merged /\ addresses' = addresses /\ bare' = bare
      /\ tally' = tally /\ taken' = taken /\ swept' = swept
  BY DEF EnrolCustomer, ChangeCustomer, LookupCustomer, InsertCustomer, CommitCustomer, UpdateCustomer,
         ArchiveCustomer, OrdersStay, committed, bookVars
<1>5. Apart(r) /\ CallShapes'
  BY <1>1, <1>3, <1>4 DEF Apart, Frame, CallShapes, CustomersShapes, Shapes
<1>6. r \in Open \/ \A q \in Open : Crossing(r, q) \subseteq crossed'
  <2>1. CASE Arrive(r)
    BY <2>1 DEF Arrive
  <2>2. CASE ~Arrive(r)
    <3>1. at[r] \in {"enter", "commit"}
      BY <2>2 DEF EnrolCustomer, ChangeCustomer, InsertCustomer, CommitCustomer
    <3> QED
      BY <1>1, <3>1, OpenIs DEF Closed
  <2> QED
    BY <2>1, <2>2
<1> QED
  BY <1>1, <1>3, <1>4, <1>5, <1>6 DEF Calm, Books, Knows

\* The rows that an address's write has taken are stored, but for its own.
LEMMA TakenAreStored ==
  ASSUME CustomersInv, NEW q \in Merges \cup AddressWrites, NEW a \in taken[q]
  PROVE  addresses[a] # NoRow \/ (q \in NewAddresses /\ a = q)
<1>1. CASE q \in Merges
  BY <1>1 DEF CustomersInv, MergeOf, AddressOf
<1>2. CASE q \in AddressWrites
  BY <1>2 DEF CustomersInv, AddressWriteOf, AddressOf, Marks, TargetOf, AddressWrites
<1> QED
  BY <1>1, <1>2

LEMMA AddressCalm ==
  ASSUME IInv, CustomersInv, NEW r \in AddressWrites, ChangeAddress(r), ~CommitAddress(r)
  PROVE  Calm(r)
<1>1. /\ Shapes /\ CustomersShapes /\ AddressWriteOf(r) /\ r \in Requests /\ r \in Desk
      /\ r \notin OrderRequests /\ r \notin Merges /\ r \notin Rowed /\ r \notin Updates
  BY Kinds, AddressKinds, RowedAreRequests DEF IInv, CustomersInv, OrderRequests, Rowed
<1>2. Quiet(r)
  BY <1>1, DeskSteps
<1>3. /\ Frame(r) /\ Shapes' /\ rows' = rows /\ items' = items /\ next' = next /\ crossed \subseteq crossed'
  BY <1>2 DEF Quiet, Orders
<1>4. /\ kpi' = kpi /\ merged' = merged /\ addresses' = addresses /\ bare' = bare /\ tally' = tally
      /\ TargetOf(r)' = TargetOf(r)
  BY DEF ChangeAddress, FindDefault, DemoteDefault, WriteAddress, OrdersStay, committed, bookVars, TargetOf
<1>5. \A q \in AddressWrites \ {r} : swept'[q] = swept[q]
  BY <1>1 DEF ChangeAddress, FindDefault, DemoteDefault, WriteAddress, Shapes
<1>6. r \in NewAddresses => addresses[r] = NoRow
  BY <1>1 DEF ChangeAddress, FindDefault, DemoteDefault, WriteAddress, AddressWriteOf
<1>7. r \in Open \/ \A q \in Open : Crossing(r, q) \subseteq crossed'
  <2>1. CASE Arrive(r)
    BY <2>1 DEF Arrive
  <2>2. CASE ~Arrive(r)
    <3>1. at[r] \in {"demote", "address"}
      BY <2>2 DEF ChangeAddress, DemoteDefault, WriteAddress
    <3> QED
      BY <1>1, <3>1, OpenIs DEF Closed
  <2> QED
    BY <2>1, <2>2
<1>8. ASSUME taken' \in [Merges \cup AddressWrites -> SUBSET Addresses],
             \A q \in (Merges \cup AddressWrites) \ {r} : taken'[q] = taken[q],
             AddressWriteOf(r)',
             \A a \in taken'[r] : a \in taken[r] \/ ~AddressHeld(r, a)
      PROVE  Calm(r)
  <2>1. Apart(r) /\ CallShapes'
    BY <1>1, <1>3, <1>4, <1>5, <1>8 DEF Apart, Frame, CallShapes, CustomersShapes, Shapes
  <2>2. Knows(r)'
    BY <1>1, <1>8 DEF Knows
  <2> QED
    BY <1>1, <1>3, <1>4, <1>7, <1>8, <2>1, <2>2 DEF Calm, Books
<1>9. CASE FindDefault(r)
  <2>1. at[r] = "idle" /\ taken' = taken /\ taken[r] = {}
    BY <1>1, <1>9 DEF FindDefault, AddressWriteOf
  <2>2. CASE Goto(r, "refused")
    <3>1. at'[r] = "refused"
      BY <1>1, <2>2, GotoEffect DEF Statements
    <3>2. AddressWriteOf(r)'
      BY <1>4, <1>6, <2>1, <3>1 DEF AddressWriteOf
    <3> QED
      BY <1>1, <1>8, <2>1, <3>2 DEF CustomersShapes
  <2>3. CASE ~Goto(r, "refused")
    <3> DEFINE found == {a \in Addresses \ {TargetOf(r)} :
                           Body[r].isDefault = TRUE /\ Marks(addresses[a], Body[r].customer)}
    <3>1. Goto(r, "demote") /\ swept' = [swept EXCEPT ![r] = found]
      BY <1>9, <2>3 DEF FindDefault
    <3>2. at'[r] = "demote" /\ swept'[r] = found
      BY <1>1, <3>1, GotoEffect DEF Statements, Shapes
    <3>3. found \subseteq Addresses \ {TargetOf(r)} /\ (found # {} => Body[r].isDefault = TRUE)
      OBVIOUS
    <3> HIDE DEF found
    <3>4. AddressWriteOf(r)'
      BY <1>4, <1>6, <2>1, <3>2, <3>3 DEF AddressWriteOf
    <3> QED
      BY <1>1, <1>8, <2>1, <3>4 DEF CustomersShapes
  <2> QED
    BY <2>2, <2>3
<1>10. CASE DemoteDefault(r)
  <2> DEFINE demoted == {a \in swept[r] : Marks(addresses[a], Body[r].customer)}
  <2>1. /\ at[r] = "demote" /\ \A a \in swept[r] : ~AddressHeld(r, a)
        /\ taken' = [taken EXCEPT ![r] = demoted] /\ Goto(r, "address")
    BY <1>10 DEF DemoteDefault
  <2>2. at'[r] = "address"
    BY <1>1, <2>1, GotoEffect DEF Statements
  <2>3. /\ demoted \subseteq Addresses \ {TargetOf(r)} /\ demoted \subseteq swept[r]
        /\ demoted # {} => Body[r].isDefault = TRUE
        /\ \A a \in demoted : Marks(addresses[a], Body[r].customer)
    BY <1>1, <2>1 DEF AddressWriteOf
  <2> HIDE DEF demoted
  <2>4. /\ taken'[r] = demoted /\ taken' \in [Merges \cup AddressWrites -> SUBSET Addresses]
        /\ \A q \in (Merges \cup AddressWrites) \ {r} : taken'[q] = taken[q]
    BY <1>1, <2>1, <2>3 DEF CustomersShapes
  <2>5. AddressWriteOf(r)'
    BY <1>4, <1>6, <2>2, <2>3, <2>4 DEF AddressWriteOf, Marks
  <2>6. \A a \in taken'[r] : ~AddressHeld(r, a)
    BY <2>1, <2>3, <2>4
  <2> QED
    BY <1>8, <2>4, <2>5, <2>6
<1>11. CASE WriteAddress(r)
  <2>1. at[r] = "address" /\ \A a \in taken[r] : a # TargetOf(r)
    BY <1>1, <1>11 DEF WriteAddress, AddressWriteOf
  <2>2. CASE Missing(r)
    <3>1. Goto(r, "commit") /\ taken' = taken /\ r \notin NewAddresses
      BY <1>11, <2>2, AddressKinds DEF WriteAddress, Missing
    <3>2. at'[r] = "commit"
      BY <1>1, <3>1, GotoEffect DEF Statements
    <3>3. AddressWriteOf(r)'
      BY <1>1, <1>4, <2>1, <3>1, <3>2 DEF AddressWriteOf, Marks
    <3> QED
      BY <1>1, <1>8, <3>1, <3>3 DEF CustomersShapes
  <2>3. CASE taken' = [taken EXCEPT ![r] = {}] /\ Goto(r, "error")
    <3>1. at'[r] = "error"
      BY <1>1, <2>3, GotoEffect DEF Statements
    <3>2. /\ taken'[r] = {} /\ taken' \in [Merges \cup AddressWrites -> SUBSET Addresses]
          /\ \A q \in (Merges \cup AddressWrites) \ {r} : taken'[q] = taken[q]
      BY <1>1, <2>3 DEF CustomersShapes
    <3>3. AddressWriteOf(r)'
      BY <1>4, <1>6, <3>1, <3>2 DEF AddressWriteOf
    <3> QED
      BY <1>8, <3>2, <3>3
  <2>4. CASE ~Missing(r) /\ taken' = [taken EXCEPT ![r] = @ \cup {TargetOf(r)}] /\ Goto(r, "commit")
    <3>1. at'[r] = "commit" /\ TargetOf(r) \in Addresses
      BY <1>1, <2>4, GotoEffect, AddressKinds DEF Statements
    <3>2. /\ taken'[r] = taken[r] \cup {TargetOf(r)}
          /\ taken' \in [Merges \cup AddressWrites -> SUBSET Addresses]
          /\ \A q \in (Merges \cup AddressWrites) \ {r} : taken'[q] = taken[q]
      BY <1>1, <2>4, <3>1 DEF CustomersShapes
    <3>3. r \in AddressEdits => AddressOf(Body[r].customer, TargetOf(r))
      BY <2>4 DEF Missing, AddressOf
    <3>4. r \in NewAddresses => TargetOf(r) = r
      BY DEF TargetOf
    <3>5. \A a \in taken[r] : Body[r].isDefault = TRUE /\ Marks(addresses[a], Body[r].customer)
      BY <1>1, <2>1 DEF AddressWriteOf
    <3>6. AddressWriteOf(r)'
      BY <1>4, <1>6, <3>1, <3>2, <3>3, <3>4, <3>5 DEF AddressWriteOf, AddressOf, Marks
    <3>7. ~AddressHeld(r, TargetOf(r))
      <4>1. CASE r \in AddressEdits
        BY <1>11, <4>1 DEF WriteAddress
      <4>2. CASE r \in NewAddresses
        <5>1. DOMAIN taken = Merges \cup AddressWrites
          BY <1>1 DEF CustomersShapes
        <5> QED
          BY <1>6, <3>4, <4>2, <5>1, TakenAreStored DEF AddressHeld
      <4> QED
        BY <4>1, <4>2 DEF AddressWrites
    <3> QED
      BY <1>8, <3>2, <3>6, <3>7
  <2> QED
    BY <1>11, <2>2, <2>3, <2>4 DEF WriteAddress
<1> QED
  BY <1>9, <1>10, <1>11 DEF ChangeAddress

\* Of a merge and an edit that wait on each other one is ended.
LEMMA DeadlockCalm ==
  ASSUME IInv, CustomersInv, NEW g \in Merges, DeadlockAddress(g)
  PROVE  \E r \in Requests : Calm(r)
<1>1. /\ UNCHANGED <<kpi, merged, addresses, bare>> /\ UNCHANGED Orders /\ before' = before
      /\ crossed' = crossed
  BY DEF DeadlockAddress, committed, bookVars, sideVars, Orders
<1>2. PICK e \in AddressEdits : AddressDeadlock(g, e) /\ \E victim \in {g, e} : End(victim, "error")
  BY DEF DeadlockAddress
<1>3. /\ Shapes /\ CustomersShapes /\ g \in Requests /\ e \in Requests /\ e \in AddressWrites
      /\ at[g] = "rehome" /\ at[e] = "address" /\ g \in OrderRequests
  BY <1>2, RowedAreRequests DEF AddressDeadlock, AddressWrites, IInv, CustomersInv
<1>4. CASE End(g, "error")
  <2>1. Quiet(g)
    BY <1>1, <1>3, <1>4, AbandonIsQuiet DEF Closed
  <2> QED
    BY <1>1, <1>3, <1>4, <2>1, OrderEnds DEF Closed
<1>5. CASE End(e, "error")
  <2>1. e \notin OrderRequests /\ e \notin Merges /\ e \notin NewAddresses /\ e \notin Rowed /\ e \notin Updates
    BY <1>3, AddressKinds, RowedAreRequests DEF Rowed
  <2>2. Quiet(e)
    BY <1>1, <1>3, <1>5, AbandonIsQuiet DEF Closed
  <2>3. /\ Frame(e) /\ Shapes' /\ rows' = rows /\ items' = items /\ next' = next
    BY <2>2 DEF Quiet, Orders
  <2>4. at'[e] = "error" /\ e \in Open
    BY <1>3, <1>5, EndEffect, OpenIs DEF Closed
  <2>5. /\ tally' = [q \in OrderRequests |-> IF q = e THEN tally'[e] ELSE tally[q]]
        /\ taken' \in [Merges \cup AddressWrites -> SUBSET Addresses]
        /\ \A q \in (Merges \cup AddressWrites) \ {e} : taken'[q] = taken[q]
        /\ taken'[e] = {} /\ \A q \in AddressWrites \ {e} : swept'[q] = swept[q]
    BY <1>3, <1>5, EndTaken
  <2>6. Knows(e)'
    BY <1>3, <2>1, <2>4, <2>5, NothingToKnow DEF Closed
  <2>7. /\ \A q \in OrderRequests : tally'[q] = tally[q]
        /\ tally' = [q \in OrderRequests |-> tally'[q]]
    <3>1. \A q \in OrderRequests : tally'[q] = tally[q]
      BY <2>1, <2>5
    <3>2. tally' = [q \in OrderRequests |-> tally[q]]
      BY <2>1, <2>5
    <3> QED
      BY <3>1, <3>2
  <2>8. Apart(e) /\ CallShapes'
    BY <2>3, <2>5, <2>7 DEF Apart, Frame, CallShapes, Shapes
  <2> QED
    BY <1>1, <1>3, <2>1, <2>3, <2>4, <2>5, <2>6, <2>8 DEF Calm, Books
<1> QED
  BY <1>2, <1>4, <1>5

-----------------------------------------------------------------------------
(* Commits.                                                                *)

\* What a commit makes of the addresses its transaction has taken.
LEMMA StoredAddresses ==
  ASSUME CustomersInv, NEW r \in Merges \cup AddressWrites, at[r] = "commit", StoreAddresses(r)
  PROVE  /\ addresses' \in [Addresses -> AddressRow \cup {NoRow}] /\ bare' \subseteq Customers
         /\ \A a \in Addresses \ taken[r] : addresses'[a] = addresses[a]
         /\ \A a \in taken[r] :
              /\ a \in Addresses /\ addresses'[a] # NoRow
              /\ addresses'[a].customer =
                   IF r \in Merges THEN Body[r].into
                   ELSE IF r \in NewAddresses /\ a = r THEN Body[r].customer ELSE addresses[a].customer
         /\ \A c \in Customers \ bare' : HasDefault(c, addresses)'
<1>1. /\ CustomersShapes /\ taken[r] \subseteq Addresses
      /\ (r \in Merges => MergeOf(r)) /\ (r \in AddressWrites => AddressWriteOf(r))
      /\ \A c \in Customers \ bare : HasDefault(c, addresses)
  BY DEF CustomersInv, CustomersShapes, CustomersMatchUnlessCrossed
<1>2. /\ \A a \in Addresses : addresses'[a] = IF a \in taken[r] THEN Left(r, a) ELSE addresses[a]
      /\ addresses' = [a \in Addresses |-> addresses'[a]]
      /\ addresses' = AddressesAfter(r)
      /\ bare' = {c \in Customers : ~HasDefault(c, AddressesAfter(r))}
                  \cap (bare \cup IF Unsets(r) THEN {IF r \in Merges THEN Body[r].from ELSE Body[r].customer}
                                  ELSE {})
  BY DEF StoreAddresses, AddressesAfter
<1>3. \A c : HasDefault(c, addresses)' <=> \E a \in Addresses : Marks(addresses'[a], c)
  BY DEF HasDefault, Marks
<1>4. \A c : HasDefault(c, AddressesAfter(r)) <=> \E a \in Addresses : Marks(addresses'[a], c)
  BY <1>2 DEF HasDefault
<1>5. \A a \in Addresses : addresses[a] # NoRow => addresses[a] \in AddressRow
  BY <1>1 DEF CustomersShapes
<1>6. ASSUME NEW a \in taken[r], r \in Merges
      PROVE  /\ addresses[a] # NoRow /\ addresses[a].customer = Body[r].from
             /\ Left(r, a) \in AddressRow /\ Left(r, a).customer = Body[r].into
  <2>1. /\ addresses[a] \in AddressRow /\ addresses[a].customer = Body[r].from /\ addresses[a] # NoRow
    BY <1>1, <1>5, <1>6 DEF MergeOf, AddressOf
  <2>2. Left(r, a) = [addresses[a] EXCEPT !.customer = Body[r].into, !.isDefault = FALSE]
    BY <1>6, AddressKinds, Kinds, RowedAreRequests DEF Left, AddressWrites
  <2>3. Body[r].into \in Customers
    BY <1>6, Bodies
  <2> QED
    BY <2>1, <2>2, <2>3 DEF AddressRow
<1>7. ASSUME r \in NewAddresses
      PROVE  /\ Left(r, r) \in AddressRow /\ Left(r, r).customer = Body[r].customer
             /\ addresses[r] = NoRow /\ r \in taken[r] /\ TargetOf(r) = r
             /\ Body[r].isDefault = TRUE => Marks(Left(r, r), Body[r].customer)
  <2>1. Left(r, r) = NewAddress(r) /\ TargetOf(r) = r /\ r \in AddressWrites /\ r \in Addresses
    BY <1>7, AddressKinds, RowedAreRequests DEF Left, TargetOf, AddressWrites, Addresses
  <2>2. Body[r].customer \in Customers /\ Body[r].isDefault \in Optional(BOOLEAN)
    BY <2>1, AddressKinds
  <2>3. Given(Body[r].isDefault, FALSE) \in BOOLEAN
        /\ (Body[r].isDefault = TRUE => Given(Body[r].isDefault, FALSE) = TRUE)
    BY <2>2, CustomerBookAssumption DEF Given, Optional
  <2>4. NewAddress(r) \in AddressRow /\ NewAddress(r).customer = Body[r].customer
        /\ NewAddress(r).isDefault = Given(Body[r].isDefault, FALSE)
    BY <2>2, <2>3 DEF NewAddress, AddressRow
  <2>5. addresses[r] = NoRow /\ r \in taken[r]
    BY <1>1, <1>7, <2>1 DEF AddressWriteOf
  <2> QED
    BY <2>1, <2>3, <2>4, <2>5, NoAddressAssumption DEF Marks
<1>8. ASSUME NEW a \in taken[r], r \in AddressWrites, ~(r \in NewAddresses /\ a = r)
      PROVE  /\ addresses[a] # NoRow /\ addresses[a].customer = Body[r].customer
             /\ Left(r, a) \in AddressRow /\ Left(r, a).customer = addresses[a].customer
             /\ r \in AddressEdits /\ a = TargetOf(r) =>
                  Left(r, a).isDefault = Given(Body[r].isDefault, addresses[a].isDefault)
  <2>1. /\ addresses[a] \in AddressRow /\ addresses[a] # NoRow /\ addresses[a].customer = Body[r].customer
    BY <1>1, <1>5, <1>8 DEF AddressWriteOf, AddressOf, Marks, TargetOf, AddressWrites
  <2>2. r \notin Merges
    BY <1>8, AddressKinds, RowedAreRequests
  <2>3. CASE r \in AddressEdits /\ a = TargetOf(r)
    <3> DEFINE default == Given(Body[r].isDefault, addresses[a].isDefault)
               active == Given(Body[r].active, addresses[a].isActive)
    <3>1. default \in BOOLEAN /\ active \in BOOLEAN
      BY <2>1, <2>3, AddressKinds DEF Given, Optional, AddressRow
    <3>2. Left(r, a) = [addresses[a] EXCEPT !.isDefault = default, !.isActive = active]
      BY <1>8, <2>2, <2>3, AddressKinds DEF Left, TargetOf
    <3> HIDE DEF default, active
    <3>3. Left(r, a) \in AddressRow /\ Left(r, a).customer = addresses[a].customer
          /\ Left(r, a).isDefault = default
      BY <2>1, <3>1, <3>2 DEF AddressRow
    <3> USE DEF default
    <3> QED
      BY <2>1, <3>3
  <2>4. CASE ~(r \in AddressEdits /\ a = TargetOf(r))
    <3>1. Left(r, a) = [addresses[a] EXCEPT !.isDefault = FALSE]
      BY <1>8, <2>2, <2>4, AddressKinds DEF Left, TargetOf, AddressWrites
    <3> QED
      BY <2>1, <2>4, <3>1 DEF AddressRow
  <2> QED
    BY <2>3, <2>4
<1>9. ASSUME NEW a \in taken[r]
      PROVE  /\ a \in Addresses /\ addresses'[a] # NoRow /\ addresses'[a] \in AddressRow
             /\ addresses'[a].customer =
                  IF r \in Merges THEN Body[r].into
                  ELSE IF r \in NewAddresses /\ a = r THEN Body[r].customer ELSE addresses[a].customer
  <2>1. a \in Addresses /\ addresses'[a] = Left(r, a)
    BY <1>1, <1>2
  <2> QED
    BY <1>6, <1>7, <1>8, <2>1, NoAddressAssumption
<1>10. addresses' \in [Addresses -> AddressRow \cup {NoRow}]
  BY <1>1, <1>2, <1>9 DEF CustomersShapes
<1>11. ASSUME NEW c \in Customers \ bare' PROVE HasDefault(c, addresses)'
  <2> SUFFICES ASSUME ~HasDefault(c, AddressesAfter(r)) PROVE FALSE
    BY <1>3, <1>4
  <2>1. c \notin bare
    BY <1>2
  <2>2. PICK a \in Addresses : Marks(addresses[a], c)
    BY <1>1, <2>1 DEF HasDefault
  <2>3. a \in taken[r] /\ addresses[a] # NoRow /\ addresses[a].customer = c /\ addresses[a].isDefault
    BY <1>2, <1>4, <2>2 DEF Marks
  <2>4. CASE r \in Merges
    <3>1. c = Body[r].from /\ Unsets(r)
      BY <1>6, <2>3, <2>4 DEF Unsets
    <3> QED
      BY <1>2, <2>4, <3>1
  <2>5. CASE r \in AddressWrites
    <3>1. r \notin Merges /\ ~(r \in NewAddresses /\ a = r)
      BY <1>7, <2>3, <2>5, AddressKinds, RowedAreRequests
    <3>2. c = Body[r].customer /\ Left(r, a).customer = c /\ Left(r, a) \in AddressRow
      BY <1>8, <2>3, <2>5, <3>1
    <3>3. ~Unsets(r)
      BY <1>2, <3>1, <3>2
    <3>4. r \in AddressEdits =>
            /\ Body[r].isDefault \in {TRUE, Absent} /\ TargetOf(r) \in taken[r]
      BY <3>3, AddressKinds DEF Unsets, Optional
    <3>5. CASE r \in AddressEdits /\ a = TargetOf(r)
      <4>1. Left(r, a).isDefault = Given(Body[r].isDefault, TRUE)
        BY <1>8, <2>3, <2>5, <3>1, <3>5, <1>5 DEF AddressRow
      <4>2. Left(r, a).isDefault
        BY <3>4, <3>5, <4>1 DEF Given
      <4> QED
        BY <1>1, <1>2, <1>4, <2>3, <3>2, <4>2, NoAddressAssumption DEF Marks
    <3>6. CASE ~(r \in AddressEdits /\ a = TargetOf(r))
      <4>1. Body[r].isDefault = TRUE
        <5>1. a # TargetOf(r)
          BY <2>5, <3>1, <3>6 DEF TargetOf, AddressWrites
        <5> QED
          BY <1>1, <2>3, <2>5, <5>1 DEF AddressWriteOf
      <4>2. CASE r \in NewAddresses
        <5>1. r \in taken[r] /\ Marks(Left(r, r), c)
          BY <1>7, <3>2, <4>1, <4>2
        <5>2. r \in Addresses /\ addresses'[r] = Left(r, r)
          BY <1>1, <1>2, <5>1
        <5> QED
          BY <1>4, <5>1, <5>2
      <4>3. CASE r \in AddressEdits
        <5> DEFINE t == TargetOf(r)
        <5>1. /\ t \in taken[r] /\ ~(r \in NewAddresses /\ t = r)
          BY <3>4, <4>3, AddressKinds
        <5>2. /\ Left(r, t) \in AddressRow /\ Left(r, t).customer = c
              /\ Left(r, t).isDefault = Given(Body[r].isDefault, addresses[t].isDefault)
          BY <1>8, <2>5, <3>2, <4>3, <5>1
        <5>3. Left(r, t).isDefault
          BY <4>1, <5>2, CustomerBookAssumption DEF Given
        <5> QED
          BY <1>1, <1>2, <1>4, <5>1, <5>2, <5>3, NoAddressAssumption DEF Marks
      <4> QED
        BY <2>5, <4>2, <4>3 DEF AddressWrites
    <3> QED
      BY <3>5, <3>6
  <2> QED
    BY <2>4, <2>5
<1> QED
  BY <1>2, <1>9, <1>10, <1>11

\* Who touches one customer beside another has crossed it.
LEMMA Meets ==
  ASSUME MeetingsAreNoted, NEW r \in OrderRequests \cup AddressWrites,
         NEW q \in OrderRequests \cup AddressWrites, r # q, r \in Open, q \in Open,
         ~({r, q} \subseteq Creates), {r, q} \cap AddressWrites = {} \/ {r, q} \cap Merges # {},
         NEW c \in Touched(r), c \in Touched(q)
  PROVE  Touched(r) \subseteq crossed /\ Touched(q) \subseteq crossed
BY DEF MeetingsAreNoted, Meet

LEMMA TouchedIs ==
  /\ \A r \in Creates : Touched(r) = {Body[r].customerId}
  /\ \A r \in Updates \cup Moves : Touched(r) = {rows[OrderOf(r)].customer}
  /\ \A r \in Merges : Touched(r) = {Body[r].from, Body[r].into}
  /\ \A r \in AddressWrites : Touched(r) = {Body[r].customer}
<1>1. \A r \in AddressWrites : r \notin OrderRequests
  BY AddressKinds
<1> QED
  BY <1>1, Kinds DEF Touched, Change, OrderRequests

LEMMA ChangeTouches ==
  ASSUME NEW r \in Updates \cup Moves
  PROVE  Touched(r) = {rows[OrderOf(r)].customer} /\ Touched(r)' = {rows'[OrderOf(r)].customer}
<1>1. r \notin Creates /\ r \notin Merges /\ r \notin AddressWrites
  BY AddressKinds, Kinds DEF OrderRequests
<1> QED
  BY <1>1 DEF Touched, Change, OrderOf

\* What a merge knows of addresses.
MergedAddresses(g) ==
  /\ at[g] = "rehome" /\ Body[g].from \notin crossed =>
       \A a \in Addresses : AddressOf(Body[g].from, a) => a \in swept[g]
  /\ at[g] \in Writing \cup {"sweep", "move", "archive"} /\ Body[g].from \notin crossed =>
       \A a \in Addresses : AddressOf(Body[g].from, a) => a \in taken[g]
  /\ at[g] = "rehome" => \A a \in swept[g] : a \in Addresses /\ addresses[a] # NoRow
  /\ \A a \in taken[g] : AddressOf(Body[g].from, a)
  /\ at[g] \notin Writing \cup {"sweep", "move", "archive"} => taken[g] = {}

LEMMA OthersAddresses ==
  ASSUME CustomersInv, NEW r \in Merges \cup AddressWrites, at[r] = "commit", StoreAddresses(r),
         Apart(r), crossed' = crossed
  PROVE  /\ \A a \in Addresses : addresses[a] # NoRow => addresses'[a] # NoRow
         /\ \A g \in Merges \ {r} : MergedAddresses(g)'
         /\ \A q \in AddressWrites \ {r} : AddressWriteOf(q)'
<1>1. /\ \A a \in Addresses \ taken[r] : addresses'[a] = addresses[a]
      /\ \A a \in taken[r] :
           /\ a \in Addresses /\ addresses'[a] # NoRow
           /\ addresses'[a].customer =
                IF r \in Merges THEN Body[r].into
                ELSE IF r \in NewAddresses /\ a = r THEN Body[r].customer ELSE addresses[a].customer
  BY StoredAddresses
<1>2. \A a \in Addresses : addresses[a] # NoRow => addresses'[a] # NoRow
  BY <1>1
<1>3. \A q \in (Merges \cup AddressWrites) \ {r} : \A a \in taken[q] :
        a \in Addresses /\ a \notin taken[r] /\ addresses'[a] = addresses[a]
  BY <1>1 DEF CustomersInv, CustomersShapes
<1>4. r \in Requests /\ r \in Open /\ r \in OrderRequests \cup AddressWrites
  <2>1. r \in Requests /\ r \in OrderRequests \cup AddressWrites
    BY RowedAreRequests
  <2> QED
    BY <2>1, OpenIs DEF Closed
\* An address that comes to a customer has met the merge of it.
<1>5. ASSUME NEW g \in Merges \ {r}, g \in Open, Body[g].from \notin crossed,
             NEW a \in Addresses, AddressOf(Body[g].from, a)'
      PROVE  AddressOf(Body[g].from, a)
  <2>1. addresses'[a] # NoRow /\ addresses'[a].customer = Body[g].from
    BY <1>5 DEF AddressOf
  <2>2. Body[g].from \notin Touched(r)
    <3>1. Body[g].from \in Touched(g) /\ g \in OrderRequests \cup AddressWrites
          /\ ~({r, g} \subseteq Creates) /\ {r, g} \cap Merges # {}
      BY TouchedIs, RowedAreRequests, Kinds
    <3>2. MeetingsAreNoted
      BY DEF CustomersInv
    <3> QED
      BY <1>4, <1>5, <3>1, <3>2, Meets
  <2>3. CASE a \in taken[r]
    <3>1. r \in Merges => Body[r].into # Body[g].from
      BY <2>2, TouchedIs
    <3>2. r \in AddressWrites => Body[r].customer # Body[g].from
      BY <2>2, TouchedIs
    <3>3. r \notin Merges /\ ~(r \in NewAddresses /\ a = r)
      BY <1>1, <2>1, <2>3, <3>1, <3>2 DEF AddressWrites
    <3>4. addresses[a] # NoRow
      BY <2>3, <3>3, TakenAreStored
    <3> QED
      BY <1>1, <2>1, <2>3, <3>3, <3>4 DEF AddressOf
  <2>4. CASE a \notin taken[r]
    BY <1>1, <2>1, <2>4 DEF AddressOf
  <2> QED
    BY <2>3, <2>4
<1>6. ASSUME NEW g \in Merges \ {r} PROVE MergedAddresses(g)'
  <2>1. at'[g] = at[g] /\ swept'[g] = swept[g] /\ taken'[g] = taken[g] /\ g \in Requests
    BY RowedAreRequests DEF Apart
  <2>2. MergedAddresses(g)
    BY DEF CustomersInv, MergeOf, MergedAddresses
  <2>3. at[g] \in Writing \cup {"rehome", "sweep", "move", "archive"} => g \in Open
    BY <2>1, OpenIs DEF Closed, Writing
  <2>4. \A a \in taken[g] : AddressOf(Body[g].from, a)'
    BY <1>3, <2>2 DEF MergedAddresses, AddressOf
  <2>5. at[g] \in Writing \cup {"rehome", "sweep", "move", "archive"} /\ Body[g].from \notin crossed =>
          \A a \in Addresses : AddressOf(Body[g].from, a)' => AddressOf(Body[g].from, a)
    BY <1>5, <2>3
  <2>6. at[g] = "rehome" /\ Body[g].from \notin crossed =>
          \A a \in Addresses : AddressOf(Body[g].from, a)' => a \in swept[g]
    BY <2>2, <2>5 DEF MergedAddresses
  <2>7. at[g] \in Writing \cup {"sweep", "move", "archive"} /\ Body[g].from \notin crossed =>
          \A a \in Addresses : AddressOf(Body[g].from, a)' => a \in taken[g]
    BY <2>2, <2>5 DEF MergedAddresses
  <2>8. at[g] = "rehome" => \A a \in swept[g] : a \in Addresses /\ addresses'[a] # NoRow
    BY <1>2, <2>2 DEF MergedAddresses
  <2>9. at[g] \notin Writing \cup {"sweep", "move", "archive"} => taken[g] = {}
    BY <2>2 DEF MergedAddresses
  <2> QED
    BY <2>1, <2>4, <2>6, <2>7, <2>8, <2>9 DEF MergedAddresses, Writing
<1>7. ASSUME NEW q \in AddressWrites \ {r} PROVE AddressWriteOf(q)'
  <2>1. at'[q] = at[q] /\ swept'[q] = swept[q] /\ taken'[q] = taken[q] /\ TargetOf(q)' = TargetOf(q)
    BY RowedAreRequests DEF Apart, TargetOf
  <2>2. AddressWriteOf(q)
    BY DEF CustomersInv
  <2>3. \A a \in taken[q] : addresses'[a] = addresses[a]
    BY <1>3
  <2>4. q \in NewAddresses => (addresses'[q] # NoRow => addresses[q] # NoRow)
    BY <1>1, TakenAreStored DEF Addresses
  <2> QED
    BY <2>1, <2>2, <2>3, <2>4 DEF AddressWriteOf, AddressOf, Marks
<1> QED
  BY <1>2, <1>6, <1>7

LEMMA AddressCommit ==
  ASSUME IInv, CustomersInv, NEW r \in AddressWrites, CommitAddress(r), OrdersStay, crossed' = crossed
  PROVE  CustomersInv'
<1>1. /\ Shapes /\ CustomersShapes /\ r \in Requests /\ r \in Desk
      /\ r \notin OrderRequests /\ r \notin Merges /\ r \notin Rowed /\ r \notin Updates
  BY Kinds, AddressKinds, RowedAreRequests DEF IInv, CustomersInv, OrderRequests, Rowed
<1>2. /\ rows' = rows /\ items' = items /\ next' = next /\ kpi' = kpi /\ merged' = merged
      /\ seen' = seen /\ draft' = draft /\ tally' = tally /\ swept' = swept /\ Stored' = Stored
      /\ at[r] = "commit" /\ StoreAddresses(r) /\ taken' = [taken EXCEPT ![r] = {}] /\ Goto(r, "ok")
  BY DEF CommitAddress, OrdersStay, committed, Stored
<1>3. /\ at' \in [Requests -> Statements] /\ at'[r] = "ok"
      /\ \A q \in Requests \ {r} : at'[q] = at[q]
  BY <1>1, <1>2, GotoEffect DEF Statements
<1>4. /\ taken' \in [Merges \cup AddressWrites -> SUBSET Addresses] /\ taken'[r] = {}
      /\ \A q \in (Merges \cup AddressWrites) \ {r} : taken'[q] = taken[q]
  BY <1>1, <1>2 DEF CustomersShapes
<1>5. Apart(r)
  BY <1>2, <1>3, <1>4 DEF Apart
<1>6. /\ addresses' \in [Addresses -> AddressRow \cup {NoRow}] /\ bare' \subseteq Customers
      /\ \A a \in Addresses \ taken[r] : addresses'[a] = addresses[a]
      /\ \A a \in taken[r] :
           addresses'[a].customer =
             IF r \in Merges THEN Body[r].into
             ELSE IF r \in NewAddresses /\ a = r THEN Body[r].customer ELSE addresses[a].customer
      /\ \A c \in Customers \ bare' : HasDefault(c, addresses)'
  BY <1>2, StoredAddresses
<1>7. /\ \A a \in Addresses : addresses[a] # NoRow => addresses'[a] # NoRow
      /\ \A g \in Merges \ {r} : MergedAddresses(g)'
      /\ \A q \in AddressWrites \ {r} : AddressWriteOf(q)'
  BY <1>2, <1>5, OthersAddresses
<1>8. CustomersShapes'
  BY <1>1, <1>2, <1>4, <1>6 DEF CustomersShapes
<1>9. RowsExclusive'
  BY <1>1, <1>5, HeldApart DEF CustomersInv
<1>10. ~(r \in Open)'
  BY <1>1, <1>3, OpenIsPrimed DEF Closed
<1>11. MeetingsAreNoted'
  BY <1>1, <1>2, <1>5, <1>10, MeetingsApart DEF CustomersInv
<1>12. ASSUME NEW q \in OrderRequests PROVE CustomersOf(q)'
  <2>1. /\ q \in Requests \ {r} /\ at'[q] = at[q] /\ OrderOf(q)' = OrderOf(q)
    BY <1>1, <1>3, RowedAreRequests DEF OrderOf
  <2>2. View(q)' = View(q) /\ CustomerOf(q)' = CustomerOf(q)
    BY <1>2, ViewStays
  <2>3. CustomersOf(q)
    BY DEF CustomersInv
  <2>4. at'[q] \in {"kpi", "commit"} /\ CustomerOf(q)' \notin crossed' =>
          (tally[q] = KpisOf(CustomerOf(q), View(q)))'
    BY <1>2, <2>1, <2>2, <2>3, TalliesStay DEF CustomersOf
  <2> QED
    BY <1>2, <2>1, <2>3, <2>4 DEF CustomersOf, Writing
<1>13. ASSUME NEW g \in Merges PROVE MergeOf(g)'
  <2>1. g # r /\ g \in Requests /\ at'[g] = at[g] /\ swept'[g] = swept[g] /\ MergedAddresses(g)'
    BY <1>1, <1>2, <1>3, <1>7, RowedAreRequests
  <2>2. (g \in Open)' <=> g \in Open
    BY <2>1, OpenIs, OpenIsPrimed
  <2>3. MergeOf(g)
    BY DEF CustomersInv
  <2> QED
    BY <1>2, <2>1, <2>2, <2>3 DEF MergeOf, MergedAddresses, Writing
<1>14. AddressWriteOf(r)'
  <2>1. r \in NewAddresses => at'[r] = "ok"
    BY <1>3
  <2> QED
    BY <1>3, <1>4 DEF AddressWriteOf
<1>15. \A p, q \in Merges \cup AddressWrites : p # q => taken'[p] \cap taken'[q] = {}
  <2>1. CallShapes
    BY <1>1 DEF CustomersShapes, CallShapes, Shapes
  <2> QED
    BY <1>1, <1>4, <1>5, <2>1, TakenApart DEF CustomersInv
<1>16. MergedInv'
  BY <1>2, <1>7 DEF CustomersInv, MergedInv, KnownAddresses
<1>17. CustomersMatchUnlessCrossed'
  <2>1. CustomersMatchUnlessCrossed /\ MergedInv
    BY DEF CustomersInv
  <2>2. \A c \in Customers : (kpi[c] = KpisOf(c, rows))' <=> kpi[c] = KpisOf(c, rows)
    BY <1>2 DEF KpisOf, SumCollected
  <2>3. \A c \in Customers : \A a \in merged[c].known :
          addresses[a].customer # c => addresses'[a].customer # c
    <3>1. \A c \in Customers : \A a \in merged[c].known : a \in Addresses /\ addresses[a] # NoRow
      BY <2>1 DEF MergedInv, KnownAddresses
    <3>2. r \in NewAddresses /\ r \in taken[r] => addresses[r] = NoRow
      <4>1. AddressWriteOf(r)
        BY DEF CustomersInv
      <4> QED
        BY <1>2, <4>1 DEF AddressWriteOf
    <3> QED
      BY <1>1, <1>6, <3>1, <3>2
  <2> QED
    BY <1>2, <1>6, <2>1, <2>2, <2>3 DEF CustomersMatchUnlessCrossed
<1> QED
  BY <1>7, <1>8, <1>9, <1>11, <1>12, <1>13, <1>14, <1>15, <1>16, <1>17 DEF CustomersInv

\* The orders that a transaction writes.
Written(r) == IF r \in Merges THEN swept[r] ELSE {OrderOf(r)}

\* Whose orders a commit writes, before and after.
LEMMA CommitMovesOrders ==
  ASSUME IInv, CustomersInv, NEW r \in OrderRequests, Commit(r)
  PROVE  /\ \A o \in Creates : rows'[o] = rows[o] \/ o \in Written(r)
         /\ r \in Creates => rows[r] = NoRow /\ rows'[r] # NoRow
                             /\ rows'[r].customer = Body[r].customerId /\ rows'[r].number = next
         /\ Change(r) => /\ OrderOf(r) \in Creates /\ rows[OrderOf(r)] # NoRow /\ rows'[OrderOf(r)] # NoRow
                         /\ rows'[OrderOf(r)].customer = rows[OrderOf(r)].customer
         /\ r \in Merges =>
              /\ Body[r].from # Body[r].into
              /\ \A o \in swept[r] :
                   /\ o \in Creates /\ rows[o] # NoRow /\ rows[o].customer = Body[r].from
                   /\ rows'[o] # NoRow /\ rows'[o].customer = Body[r].into
<1>1. /\ Shapes /\ Progress(r) /\ CustomersOf(r) /\ r \in Requests /\ at[r] = "commit"
      /\ rows' = View(r) /\ r \in Open /\ at[r] \in Writing
      /\ (r \in Merges => MergeOf(r))
  <2>1. at[r] = "commit" /\ rows' = View(r) /\ r \in Requests
    BY RowedAreRequests DEF Commit
  <2> QED
    BY <2>1, OpenIs DEF IInv, CallsProgress, CustomersInv, Closed, Writing
<1>2. CASE r \in Merges
  <2>1. ~Change(r) /\ r \notin Creates
    BY <1>2, Kinds DEF Change
  <2>2. \A o \in Creates : rows'[o] = IF o \in swept[r] THEN [rows[o] EXCEPT !.customer = Body[r].into]
                                      ELSE rows[o]
    BY <1>1, <1>2 DEF View
  <2>3. /\ swept[r] \subseteq Stored /\ \A o \in swept[r] : rows[o].customer = Body[r].from
        /\ Body[r].from # Body[r].into /\ Body[r].into \in Customers
    BY <1>1, <1>2, Bodies DEF Progress, MergeOf
  <2>4. ASSUME NEW o \in swept[r]
        PROVE  /\ o \in Creates /\ rows[o] # NoRow
               /\ rows'[o] # NoRow /\ rows'[o].customer = Body[r].into
    <3>1. o \in Creates /\ rows[o] # NoRow /\ rows[o] \in OrderRow
      BY <1>1, <2>3 DEF Stored, Shapes
    <3>2. [rows[o] EXCEPT !.customer = Body[r].into] \in OrderRow
      BY <2>3, <3>1, RehomedIsARow
    <3>3. [rows[o] EXCEPT !.customer = Body[r].into].customer = Body[r].into
      BY <3>1 DEF OrderRow
    <3> QED
      BY <2>2, <3>1, <3>2, <3>3, NoRowAssumption
  <2> QED
    BY <1>2, <2>1, <2>2, <2>3, <2>4 DEF Written
<1>3. CASE r \notin Merges
  <2>1. r \in Rowed /\ OrderOf(r) \in Creates
    BY <1>3, OrdersAreCreates DEF OrderRequests, Rowed
  <2>2. /\ \A o \in Creates \ {OrderOf(r)} : rows'[o] = rows[o]
        /\ rows'[OrderOf(r)] = draft[r]
    BY <1>1, <1>3, <2>1 DEF View, Shapes
  <2>3. CASE r \in Creates
    <3>1. OrderOf(r) = r /\ ~Change(r)
      BY <2>3, Kinds DEF OrderOf, Change
    <3>2. rows[r] = NoRow /\ draft[r] # NoRow /\ draft[r].customer = Body[r].customerId /\ draft[r].number = next
      BY <1>1, <2>3 DEF Progress, CustomersOf
    <3> QED
      BY <1>3, <2>2, <3>1, <3>2 DEF Written
  <2>4. CASE Change(r)
    <3>1. r \notin Creates
      BY <2>4, Kinds DEF Change
    <3>2. /\ rows[OrderOf(r)] # NoRow /\ draft[r] # NoRow
          /\ draft[r].customer = rows[OrderOf(r)].customer
      BY <1>1, <2>4 DEF Progress, CustomersOf
    <3> QED
      BY <1>3, <2>1, <2>2, <3>1, <3>2 DEF Written
  <2> QED
    BY <2>1, <2>3, <2>4 DEF Rowed, Change
<1> QED
  BY <1>2, <1>3

\* The customers whom it does not touch keep their orders.
LEMMA CommitSpares ==
  ASSUME IInv, CustomersInv, NEW r \in OrderRequests, Commit(r), NEW c, c \notin Touched(r)
  PROVE  \A o \in Creates : rows'[o] = rows[o] \/ (Elsewhere(c, rows[o]) /\ Elsewhere(c, rows'[o]))
<1>1. CASE r \in Creates
  <2>1. c # Body[r].customerId /\ Written(r) = {r}
    BY <1>1, TouchedIs, Kinds DEF Written, OrderOf
  <2> QED
    BY <1>1, <2>1, CommitMovesOrders DEF Elsewhere
<1>2. CASE Change(r)
  <2>1. c # rows[OrderOf(r)].customer /\ Written(r) = {OrderOf(r)}
    BY <1>2, TouchedIs, Kinds DEF Written, Change
  <2> QED
    BY <1>2, <2>1, CommitMovesOrders DEF Elsewhere
<1>3. CASE r \in Merges
  <2>1. c # Body[r].from /\ c # Body[r].into /\ Written(r) = swept[r]
    BY <1>3, TouchedIs DEF Written
  <2> QED
    BY <1>3, <2>1, CommitMovesOrders DEF Elsewhere
<1> QED
  BY <1>1, <1>2, <1>3 DEF OrderRequests, Change

\* It leaves alone the rows that another transaction has locked.
LEMMA CommitLeavesTheHeld ==
  ASSUME IInv, CustomersInv, NEW r \in OrderRequests, Commit(r), NEW q \in OrderRequests \ {r},
         NEW o \in Held(q), rows[o] # NoRow
  PROVE  rows'[o] = rows[o]
<1> SUFFICES ASSUME o \in Written(r) PROVE FALSE
  BY CommitMovesOrders DEF Held
<1>1. at[r] = "commit"
  BY DEF Commit
<1>2. CASE r \in Creates
  BY <1>2, CommitMovesOrders, Kinds DEF Written, OrderOf
<1>3. CASE Change(r)
  <2>1. o \in Held(r)
    BY <1>1, <1>3, Kinds DEF Held, Written, Change, Writing
  <2> QED
    BY <2>1 DEF CustomersInv, RowsExclusive
<1>4. CASE r \in Merges
  <2>1. o \in Held(r)
    BY <1>1, <1>4 DEF Held, Written, Writing
  <2> QED
    BY <2>1 DEF CustomersInv, RowsExclusive
<1> QED
  BY <1>2, <1>3, <1>4 DEF OrderRequests, Change

\* The customer whose KPIs a transaction writes is one it touches, or crossed.
LEMMA WritesWhomItTouches ==
  ASSUME CustomersInv, NEW q \in OrderRequests, at[q] \in {"kpi", "commit"}, CustomerOf(q) \notin crossed
  PROVE  CustomerOf(q) \in Touched(q)
<1>1. CustomersOf(q)
  BY DEF CustomersInv
<1>2. CASE q \in Creates
  BY <1>2, Kinds, TouchedIs DEF CustomerOf
<1>3. CASE q \in Updates
  <2>1. CustomerOf(q) = seen[q].customer
    BY <1>3, Kinds DEF CustomerOf
  <2> QED
    BY <1>1, <1>3, <2>1, TouchedIs DEF CustomersOf, Writing
<1>4. CASE q \in Moves
  <2>1. CustomerOf(q) = draft[q].customer
    BY <1>4, Kinds DEF CustomerOf
  <2> QED
    BY <1>1, <1>4, <2>1, TouchedIs DEF CustomersOf, Writing, Change
<1>5. CASE q \in Merges
  BY <1>5, Kinds, TouchedIs DEF CustomerOf
<1> QED
  BY <1>2, <1>3, <1>4, <1>5 DEF OrderRequests

\* It touches whom nobody else touches that is open, or the customer has crossed.
LEMMA CommitMeets ==
  ASSUME IInv, CustomersInv, NEW r \in OrderRequests, Commit(r),
         NEW q \in OrderRequests \ {r}, q \in Open, ~({r, q} \subseteq Creates),
         NEW c \in Touched(r), c \in Touched(q)
  PROVE  Touched(r) \subseteq crossed /\ Touched(q) \subseteq crossed
<1>1. r \in Open /\ {r, q} \cap AddressWrites = {}
  <2>1. at[r] = "commit" /\ r \in Requests
    BY RowedAreRequests DEF Commit
  <2> QED
    BY <2>1, OpenIs, AddressKinds DEF Closed
<1> QED
  BY <1>1, Meets DEF CustomersInv

\* What a commit does beside the orders.
LEMMA CommitFrame ==
  ASSUME IInv, CustomersInv, NEW r \in OrderRequests, Commit(r)
  PROVE  /\ Apart(r) /\ at'[r] = "ok" /\ at' \in [Requests -> Statements] /\ crossed' = crossed
         /\ CallShapes' /\ (r \in Merges => taken'[r] = {})
         /\ r \notin Merges => addresses' = addresses /\ bare' = bare /\ merged' = merged
         /\ r \in Merges => StoreAddresses(r)
<1>1. Shapes /\ CustomersShapes /\ r \in Requests /\ r \notin AddressWrites
  BY AddressKinds, RowedAreRequests DEF IInv, CustomersInv
<1>2. End(r, "ok") /\ crossed' = crossed
  BY DEF Commit, sideVars
<1>3. /\ Frame(r) /\ at' \in [Requests -> Statements] /\ at'[r] = "ok"
  BY <1>1, <1>2, EndEffect DEF Closed
<1>4. /\ tally' = [q \in OrderRequests |-> IF q = r THEN tally'[r] ELSE tally[q]]
      /\ taken' \in [Merges \cup AddressWrites -> SUBSET Addresses]
      /\ \A q \in (Merges \cup AddressWrites) \ {r} : taken'[q] = taken[q]
      /\ r \in Merges \cup AddressWrites => taken'[r] = {}
      /\ \A q \in AddressWrites \ {r} : swept'[q] = swept[q]
  BY <1>1, <1>2, EndTaken
<1>5. tally' = [q \in OrderRequests |-> tally'[q]] /\ \A q \in OrderRequests \ {r} : tally'[q] = tally[q]
  <2>1. \A q \in OrderRequests : tally'[q] = IF q = r THEN tally'[r] ELSE tally[q]
    BY <1>4
  <2> QED
    BY <1>4, <2>1
<1>6. Apart(r) /\ CallShapes'
  BY <1>3, <1>4, <1>5 DEF Apart, Frame, CallShapes
<1> QED
  BY <1>2, <1>3, <1>4, <1>6 DEF Commit, bookVars

\* Whom an open transaction touches is moved by a merge only, which it has met.
LEMMA TouchedAfter ==
  ASSUME IInv, CustomersInv, NEW r \in OrderRequests, Commit(r),
         NEW q \in (OrderRequests \cup AddressWrites) \ {r}, q \in Open
  PROVE  \/ Touched(q)' = Touched(q)
         \/ /\ r \in Merges /\ Touched(q) = {Body[r].from} /\ Touched(q)' = {Body[r].into}
            /\ {Body[r].from, Body[r].into} \subseteq crossed
<1>1. CASE Change(q)
  <2>1. q \in OrderRequests /\ Progress(q)
    BY <1>1 DEF IInv, CallsProgress, Change, OrderRequests
  <2>2. OrderOf(q) \in Creates /\ rows[OrderOf(q)] # NoRow
    BY <1>1, <2>1, OrdersAreCreates DEF Progress, Rowed, Change
  <2>3. Touched(q) = {rows[OrderOf(q)].customer} /\ Touched(q)' = {rows'[OrderOf(q)].customer}
    BY <1>1, ChangeTouches DEF Change
  <2>4. CASE OrderOf(q) \notin Written(r)
    BY <2>2, <2>3, <2>4, CommitMovesOrders
  <2>5. CASE OrderOf(q) \in Written(r) /\ r \in Creates
    BY <2>2, <2>5, CommitMovesOrders, Kinds DEF Written, OrderOf
  <2>6. CASE OrderOf(q) \in Written(r) /\ Change(r)
    <3>1. OrderOf(q) = OrderOf(r)
      BY <2>6, Kinds DEF Written, Change
    <3> QED
      BY <2>3, <2>6, <3>1, CommitMovesOrders
  <2>7. CASE OrderOf(q) \in Written(r) /\ r \in Merges
    <3>1. rows[OrderOf(q)].customer = Body[r].from /\ rows'[OrderOf(q)].customer = Body[r].into
      BY <2>7, CommitMovesOrders DEF Written
    <3>2. Touched(r) = {Body[r].from, Body[r].into} /\ ~({r, q} \subseteq Creates)
      BY <2>7, TouchedIs, Kinds
    <3>3. Touched(r) \subseteq crossed
      BY <2>1, <2>3, <3>1, <3>2, CommitMeets
    <3> QED
      BY <2>3, <2>7, <3>1, <3>2, <3>3
  <2> QED
    BY <2>4, <2>5, <2>6, <2>7 DEF OrderRequests, Change
<1>2. CASE ~Change(q)
  BY <1>2 DEF Touched, Change
<1> QED
  BY <1>1, <1>2

LEMMA CommitMeetings ==
  ASSUME IInv, CustomersInv, NEW r \in OrderRequests, Commit(r)
  PROVE  MeetingsAreNoted'
<1> SUFFICES ASSUME NEW p \in OrderRequests \cup AddressWrites, NEW q \in OrderRequests \cup AddressWrites,
                    Meet(p, q)'
             PROVE  Touched(p)' \cup Touched(q)' \subseteq crossed'
  BY DEF MeetingsAreNoted
<1>1. /\ p # q /\ (p \in Open)' /\ (q \in Open)' /\ ~({p, q} \subseteq Creates)
      /\ {p, q} \cap AddressWrites = {} \/ {p, q} \cap Merges # {}
      /\ Touched(p)' \cap Touched(q)' # {}
  BY DEF Meet
<1>2. /\ p \in Requests /\ q \in Requests /\ at'[r] = "ok" /\ crossed' = crossed
      /\ \A x \in Requests \ {r} : at'[x] = at[x]
  BY RowedAreRequests, CommitFrame DEF Apart
<1>3. p # r /\ q # r /\ p \in Open /\ q \in Open
  BY <1>1, <1>2, OpenIs, OpenIsPrimed DEF Closed
<1>4. CASE Touched(p)' = Touched(p) /\ Touched(q)' = Touched(q)
  <2>1. Meet(p, q)
    BY <1>1, <1>3, <1>4 DEF Meet
  <2> QED
    BY <1>2, <1>4, <2>1 DEF CustomersInv, MeetingsAreNoted
\* What one of them touches has moved: the other has met the merge.
<1>5. ASSUME NEW x \in {p, q}, NEW y \in {p, q}, Touched(x)' # Touched(x), Touched(y)' = Touched(y)
      PROVE  Touched(x)' \cup Touched(y)' \subseteq crossed'
  <2>1. /\ r \in Merges /\ Touched(x)' = {Body[r].into} /\ {Body[r].from, Body[r].into} \subseteq crossed
    BY <1>3, <1>5, TouchedAfter
  <2>2. Body[r].into \in Touched(y)
    BY <1>1, <1>5, <2>1
  <2>3. Touched(y) \subseteq crossed
    <3>1. r \in Open /\ Body[r].into \in Touched(r)
          /\ ~({r, y} \subseteq Creates) /\ {r, y} \cap Merges # {}
      <4>1. at[r] = "commit" /\ r \in Requests
        BY RowedAreRequests DEF Commit
      <4> QED
        BY <2>1, <4>1, TouchedIs, OpenIs, Kinds DEF Closed
    <3> QED
      BY <1>3, <2>2, <3>1, Meets DEF CustomersInv
  <2> QED
    BY <1>2, <1>5, <2>1, <2>3
<1>6. CASE Touched(p)' # Touched(p) /\ Touched(q)' # Touched(q)
  BY <1>2, <1>3, <1>6, TouchedAfter
<1> QED
  BY <1>4, <1>5, <1>6

\* What the other transactions know of the orders of customers.
LEMMA CommitOthersOrders ==
  ASSUME IInv, CustomersInv, NEW r \in OrderRequests, Commit(r), NEW q \in OrderRequests \ {r}
  PROVE  CustomersOf(q)'
<1>1. /\ Shapes /\ CustomersOf(q) /\ Progress(q) /\ q \in Requests
      /\ r \in Creates /\ q \in Creates => ~(at[q] \in Writing \cup {"insert"})
  <2>1. r \in Creates /\ q \in Creates => ~(at[q] \in Writing \cup {"insert"})
    BY DEF IInv, SequenceIsHeld, Commit, Writing
  <2> QED
    BY <2>1, RowedAreRequests DEF IInv, CallsProgress, CustomersInv
<1>2. /\ Apart(r) /\ crossed' = crossed
  BY CommitFrame
<1>3. /\ at'[q] = at[q] /\ OrderOf(q)' = OrderOf(q) /\ tally'[q] = tally[q]
      /\ q \in Rowed => draft'[q] = draft[q]
      /\ q \in Updates => seen'[q] = seen[q]
      /\ q \in Merges => swept'[q] = swept[q]
  BY <1>1, <1>2 DEF Apart, OrderOf
<1>4. at[q] \in Writing \cup {"delete", "replace", "write", "insert"} => q \in Open
  BY <1>1, OpenIs DEF Closed, Writing
<1>5. Change(q) /\ q \in Open => rows[OrderOf(q)] # NoRow /\ OrderOf(q) \in Creates
  BY <1>1, OrdersAreCreates DEF Progress, Change, Rowed
<1>6. Change(q) /\ at[q] \in Writing => rows'[OrderOf(q)] = rows[OrderOf(q)]
  <2> SUFFICES ASSUME Change(q), at[q] \in Writing PROVE rows'[OrderOf(q)] = rows[OrderOf(q)]
    OBVIOUS
  <2>1. OrderOf(q) \in Held(q)
    BY <1>4, <1>5 DEF Held
  <2> QED
    BY <1>4, <1>5, <2>1, CommitLeavesTheHeld
<1>7. q \in Updates /\ at[q] \in {"delete", "replace", "write"} \cup Writing =>
        \/ seen[q].customer = rows'[OrderOf(q)].customer
        \/ {seen[q].customer, rows'[OrderOf(q)].customer} \subseteq crossed
  <2> SUFFICES ASSUME q \in Updates, at[q] \in {"delete", "replace", "write"} \cup Writing
               PROVE  \/ seen[q].customer = rows'[OrderOf(q)].customer
                      \/ {seen[q].customer, rows'[OrderOf(q)].customer} \subseteq crossed
    OBVIOUS
  <2>1. q \in Open /\ Touched(q) = {rows[OrderOf(q)].customer} /\ Touched(q)' = {rows'[OrderOf(q)].customer}
    BY <1>4, ChangeTouches
  <2>2. \/ seen[q].customer = rows[OrderOf(q)].customer
        \/ {seen[q].customer, rows[OrderOf(q)].customer} \subseteq crossed
    BY <1>1 DEF CustomersOf
  <2>3. \/ rows'[OrderOf(q)].customer = rows[OrderOf(q)].customer
        \/ {rows[OrderOf(q)].customer, rows'[OrderOf(q)].customer} \subseteq crossed
    BY <2>1, TouchedAfter
  <2> QED
    BY <2>2, <2>3
<1>8. CustomerOf(q)' = CustomerOf(q)
  BY <1>3, Kinds DEF CustomerOf, OrderRequests, Rowed
<1>9. ASSUME at[q] \in {"kpi", "commit"}, CustomerOf(q) \notin crossed
      PROVE  (tally[q] = KpisOf(CustomerOf(q), View(q)))'
  <2> DEFINE c == CustomerOf(q)
             old == View(q)
             new == View(q)'
  <2>1. tally[q] = KpisOf(c, old)
    BY <1>1, <1>9 DEF CustomersOf
  <2>2. c \in Touched(q) /\ q \in Open /\ at[q] \in Writing
    BY <1>4, <1>9, WritesWhomItTouches DEF Writing
  <2>3. c \notin Touched(r)
    <3>1. ~({r, q} \subseteq Creates)
      BY <1>1, <2>2
    <3> QED
      BY <1>9, <2>2, <3>1, CommitMeets
  <2>4. \A o \in Creates : rows'[o] = rows[o] \/ (Elsewhere(c, rows[o]) /\ Elsewhere(c, rows'[o]))
    BY <2>3, CommitSpares
  <2>5. \A o \in Creates : new[o] = old[o] \/ (Elsewhere(c, old[o]) /\ Elsewhere(c, new[o]))
    <3>1. CASE q \in Merges
      <4>1. /\ \A o \in Creates : old[o] = IF o \in swept[q] THEN [rows[o] EXCEPT !.customer = Body[q].into]
                                           ELSE rows[o]
            /\ \A o \in Creates : new[o] = IF o \in swept[q] THEN [rows'[o] EXCEPT !.customer = Body[q].into]
                                           ELSE rows'[o]
        BY <1>3, <3>1 DEF View
      <4>2. \A o \in Creates : o \in swept[q] => rows'[o] = rows[o]
        <5> SUFFICES ASSUME NEW o \in Creates, o \in swept[q] PROVE rows'[o] = rows[o]
          OBVIOUS
        <5>1. rows[o] # NoRow
          BY <1>1, <2>2, <3>1 DEF Progress, Stored
        <5>2. o \in Held(q)
          BY <2>2, <3>1 DEF Held
        <5> QED
          BY <5>1, <5>2, CommitLeavesTheHeld
      <4> QED
        BY <2>4, <4>1, <4>2
    <3>2. CASE q \notin Merges
      <4>1. q \in Rowed /\ OrderOf(q) \in Creates
        BY <3>2, OrdersAreCreates DEF OrderRequests, Rowed
      <4>2. rows' \in [Creates -> OrderRow \cup {NoRow}]
        BY CommitWrites
      <4>3. /\ \A o \in Creates : old[o] = IF o = OrderOf(q) THEN draft[q] ELSE rows[o]
            /\ \A o \in Creates : new[o] = IF o = OrderOf(q) THEN draft[q] ELSE rows'[o]
        BY <1>1, <1>3, <3>2, <4>1, <4>2 DEF View, Shapes
      <4> QED
        BY <2>4, <4>3
    <3> QED
      BY <3>1, <3>2
  <2> HIDE DEF c, old, new
  <2>6. KpisOf(c, new) = KpisOf(c, old)
    BY <2>5, KpisSame
  <2>7. tally'[q] = KpisOf(c, new)
    BY <1>3, <2>1, <2>6
  <2> USE DEF c, new
  <2>8. tally'[q] = KpisOf(CustomerOf(q)', View(q)')
    BY <1>8, <2>7
  <2> QED
    BY <2>8 DEF KpisOf, SumCollected
<1>10. q \in Creates /\ at[q] \in Writing \cup {"insert"} => draft[q].customer = Body[q].customerId
  BY <1>1 DEF CustomersOf
<1>11. Change(q) /\ at[q] \in Writing => draft[q].customer = rows'[OrderOf(q)].customer
  BY <1>1, <1>6 DEF CustomersOf
<1> QED
  BY <1>2, <1>3, <1>7, <1>8, <1>9, <1>10, <1>11 DEF CustomersOf, Change, Rowed, Writing

\* What the other transactions know of merged customers and of addresses.
LEMMA CommitOthersMerges ==
  ASSUME IInv, CustomersInv, NEW r \in OrderRequests, Commit(r)
  PROVE  /\ \A g \in Merges \ {r} : MergeOf(g)'
         /\ \A q \in AddressWrites : AddressWriteOf(q)'
         /\ KnownAddresses \subseteq KnownAddresses'
<1>1. /\ Apart(r) /\ crossed' = crossed /\ at[r] = "commit"
      /\ r \notin Merges => addresses' = addresses
      /\ r \in Merges => StoreAddresses(r)
  BY CommitFrame DEF Commit
<1>2. /\ \A g \in Merges \ {r} : MergedAddresses(g)'
      /\ \A q \in AddressWrites : AddressWriteOf(q)'
      /\ \A a \in Addresses : addresses[a] # NoRow => addresses'[a] # NoRow
  <2>1. r \notin AddressWrites
    BY AddressKinds
  <2>2. CASE r \in Merges
    BY <1>1, <2>1, <2>2, OthersAddresses
  <2>3. CASE r \notin Merges
    <3>1. ASSUME NEW q \in (Merges \cup AddressWrites) \ {r}
          PROVE  at'[q] = at[q] /\ swept'[q] = swept[q] /\ taken'[q] = taken[q] /\ TargetOf(q)' = TargetOf(q)
      BY <1>1, RowedAreRequests DEF Apart, TargetOf
    <3>2. ASSUME NEW g \in Merges \ {r} PROVE MergedAddresses(g)'
      <4>1. MergedAddresses(g)
        BY DEF CustomersInv, MergeOf, MergedAddresses
      <4> QED
        BY <1>1, <2>3, <3>1, <4>1 DEF MergedAddresses, AddressOf, Writing
    <3>3. ASSUME NEW q \in AddressWrites PROVE AddressWriteOf(q)'
      <4>1. AddressWriteOf(q) /\ q # r
        BY <2>1 DEF CustomersInv
      <4> QED
        BY <1>1, <2>3, <3>1, <4>1 DEF AddressWriteOf, AddressOf, Marks
    <3> QED
      BY <1>1, <2>3, <3>2, <3>3
  <2> QED
    BY <2>2, <2>3
<1>3. ASSUME NEW g \in Merges \ {r} PROVE MergeOf(g)'
  <2>1. /\ at'[g] = at[g] /\ swept'[g] = swept[g] /\ MergeOf(g) /\ Progress(g) /\ g \in Requests
        /\ g \in OrderRequests \ {r}
    BY <1>1, RowedAreRequests DEF Apart, CustomersInv, IInv, CallsProgress
  <2>2. (g \in Open)' <=> g \in Open
    BY <2>1, OpenIs, OpenIsPrimed
  <2>3. at[g] \in Writing \cup {"archive"} => \A o \in swept[g] : rows'[o].customer = Body[g].from
    <3> SUFFICES ASSUME at[g] \in Writing \cup {"archive"}, NEW o \in swept[g]
                 PROVE  rows'[o].customer = Body[g].from
      OBVIOUS
    <3>1. rows[o] # NoRow /\ o \in Creates /\ rows[o].customer = Body[g].from
      BY <2>1 DEF Progress, Stored, MergeOf
    <3>2. o \in Held(g)
      BY <3>1 DEF Held
    <3> QED
      BY <2>1, <3>1, <3>2, CommitLeavesTheHeld
  <2>4. at[g] \in Writing \cup {"move", "archive"} /\ Body[g].from \notin crossed =>
          \A o \in Stored' : rows'[o].customer = Body[g].from => o \in swept[g]
    <3> SUFFICES ASSUME at[g] \in Writing \cup {"move", "archive"}, Body[g].from \notin crossed,
                        NEW o \in Stored', rows'[o].customer = Body[g].from
                 PROVE  o \in swept[g]
      OBVIOUS
    <3>1. g \in Open /\ Body[g].from \in Touched(g) /\ ~({r, g} \subseteq Creates)
      BY <2>1, OpenIs, TouchedIs, Kinds DEF Closed, Writing
    <3>2. Body[g].from \notin Touched(r)
      BY <2>1, <3>1, CommitMeets
    <3>3. o \in Creates /\ rows'[o] # NoRow
      BY DEF Stored
    <3>4. rows'[o] = rows[o]
      BY <3>2, <3>3, CommitSpares DEF Elsewhere
    <3> QED
      BY <2>1, <3>3, <3>4 DEF MergeOf, Stored
  <2> QED
    BY <1>1, <1>2, <2>1, <2>2, <2>3, <2>4 DEF MergeOf, MergedAddresses, Writing
<1>4. KnownAddresses \subseteq KnownAddresses'
  BY <1>2 DEF KnownAddresses
<1> QED
  BY <1>2, <1>3, <1>4

LEMMA CommitShapes ==
  ASSUME IInv, CustomersInv, NEW r \in OrderRequests, Commit(r)
  PROVE  /\ CustomersShapes' /\ MergedInv'
         /\ \A c \in Customers : kpi'[c] = IF c = CustomerOf(r) THEN tally[r] ELSE kpi[c]
         /\ \A c \in Customers : merged'[c] =
              IF r \in Merges /\ c = Body[r].into THEN NotMerged
              ELSE IF r \in Merges /\ c = Body[r].from THEN [number |-> next, known |-> KnownAddresses]
              ELSE merged[c]
<1>1. CustomersShapes /\ Shapes /\ MergedInv
  BY DEF IInv, CustomersInv
<1>2. /\ CallShapes' /\ at[r] = "commit"
      /\ r \notin Merges => addresses' = addresses /\ bare' = bare /\ merged' = merged
      /\ r \in Merges => StoreAddresses(r)
  BY CommitFrame DEF Commit
<1>3. kpi' = [kpi EXCEPT ![CustomerOf(r)] = tally[r]]
  BY DEF Commit
<1>4. /\ \A c \in Customers : kpi'[c] = IF c = CustomerOf(r) THEN tally[r] ELSE kpi[c]
      /\ kpi' = [c \in Customers |-> kpi'[c]]
  <2>1. DOMAIN kpi = Customers
    BY <1>1 DEF CustomersShapes
  <2> QED
    BY <1>3, <2>1
<1>5. addresses' \in [Addresses -> AddressRow \cup {NoRow}] /\ bare' \subseteq Customers
  BY <1>1, <1>2, StoredAddresses DEF CustomersShapes
<1>6. KnownAddresses \in SUBSET Addresses /\ next \in Nat
  BY <1>1 DEF KnownAddresses, Shapes
<1>7. /\ merged' \in [Customers -> [number : Nat, known : SUBSET Addresses]]
      /\ \A c \in Customers : merged'[c] =
           IF r \in Merges /\ c = Body[r].into THEN NotMerged
           ELSE IF r \in Merges /\ c = Body[r].from THEN [number |-> next, known |-> KnownAddresses]
           ELSE merged[c]
  <2>1. CASE r \notin Merges
    BY <1>1, <1>2, <2>1 DEF CustomersShapes
  <2>2. CASE r \in Merges
    <3> DEFINE mark == [number |-> next, known |-> KnownAddresses]
    <3>1. merged' = [merged EXCEPT ![Body[r].from] = mark, ![Body[r].into] = NotMerged]
      BY <2>2 DEF Commit
    <3>2. mark \in [number : Nat, known : SUBSET Addresses]
          /\ NotMerged \in [number : Nat, known : SUBSET Addresses]
      BY <1>6 DEF NotMerged
    <3>3. Body[r].from \in Customers /\ Body[r].into \in Customers
      BY <2>2, Bodies
    <3> HIDE DEF mark
    <3>4. \A c \in Customers : merged'[c] = IF c = Body[r].into THEN NotMerged
                                            ELSE IF c = Body[r].from THEN mark ELSE merged[c]
      BY <1>1, <3>1, <3>3 DEF CustomersShapes
    <3>5. merged' \in [Customers -> [number : Nat, known : SUBSET Addresses]]
      BY <1>1, <3>1, <3>2, <3>3 DEF CustomersShapes
    <3> USE DEF mark
    <3> QED
      BY <2>2, <3>4, <3>5
  <2> QED
    BY <2>1, <2>2
<1>8. CustomersShapes'
  BY <1>2, <1>4, <1>5, <1>7 DEF CustomersShapes, CallShapes
<1>9. MergedInv'
  <2>1. next' \in Nat /\ next <= next'
    <3>1. next' = next + 1 \/ next' = next
      BY CommitWrites
    <3> QED
      BY <1>6, <3>1
  <2>2. KnownAddresses \subseteq KnownAddresses'
    BY CommitOthersMerges
  <2>3. NotMerged.number = 0 /\ NotMerged.known = {}
    BY DEF NotMerged
  <2>4. ASSUME NEW c \in Customers
        PROVE  merged'[c].number <= next' /\ merged'[c].known \subseteq KnownAddresses'
    <3>1. merged[c].number <= next /\ merged[c].known \subseteq KnownAddresses /\ merged[c].number \in Nat
      BY <1>1 DEF MergedInv, CustomersShapes
    <3> QED
      BY <1>6, <1>7, <2>1, <2>2, <2>3, <3>1
  <2> QED
    BY <2>4 DEF MergedInv
<1> QED
  BY <1>4, <1>7, <1>8, <1>9

LEMMA TouchesWhomItWrites ==
  ASSUME CustomersInv, NEW q \in Rowed, at[q] \in {"kpi", "commit"}
  PROVE  Touched(q) \subseteq {CustomerOf(q)} \cup crossed
<1>1. CustomersOf(q) /\ at[q] \in Writing
  BY RowedAreRequests DEF CustomersInv, Writing
<1>2. CASE q \in Creates
  BY <1>2, Kinds, TouchedIs DEF CustomerOf
<1>3. CASE q \in Updates
  <2>1. CustomerOf(q) = seen[q].customer
    BY <1>3, Kinds DEF CustomerOf
  <2> QED
    BY <1>1, <1>3, <2>1, TouchedIs DEF CustomersOf
<1>4. CASE q \in Moves
  <2>1. CustomerOf(q) = draft[q].customer
    BY <1>4, Kinds DEF CustomerOf
  <2> QED
    BY <1>1, <1>4, <2>1, TouchedIs DEF CustomersOf, Change
<1> QED
  BY <1>2, <1>3, <1>4 DEF Rowed

\* The customer whose KPIs a commit has written, and the customers it does not
\* touch, agree with the orders.
LEMMA CommitKpis ==
  ASSUME IInv, CustomersInv, NEW r \in OrderRequests, Commit(r), NEW c \in Customers \ crossed,
         \/ c = CustomerOf(r)
         \/ c \notin Touched(r) /\ merged[c] = NotMerged
  PROVE  (kpi[c] = KpisOf(c, rows))'
<1>1. kpi'[c] = IF c = CustomerOf(r) THEN tally[r] ELSE kpi[c]
  BY CommitShapes
<1>2. at[r] = "commit" /\ rows' = View(r) /\ CustomersOf(r)
  BY DEF Commit, CustomersInv
<1>3. kpi'[c] = KpisOf(c, rows')
  <2>1. CASE c = CustomerOf(r)
    BY <1>1, <1>2, <2>1 DEF CustomersOf
  <2>2. CASE c # CustomerOf(r)
    <3>1. c \notin Touched(r) /\ kpi[c] = KpisOf(c, rows)
      BY <2>2 DEF CustomersInv, CustomersMatchUnlessCrossed
    <3>2. KpisOf(c, rows') = KpisOf(c, rows)
      BY <3>1, CommitSpares, KpisSame
    <3> QED
      BY <1>1, <2>2, <3>1, <3>2
  <2> QED
    BY <2>1, <2>2
<1> QED
  BY <1>3 DEF KpisOf, SumCollected

\* A merged customer has only orders that are younger than the merge, and no
\* address that was there.
Emptied(c) ==
  /\ \A o \in Stored : rows[o].customer = c => rows[o].number >= merged[c].number
  /\ \A a \in merged[c].known : addresses[a].customer # c

LEMMA CommitKeepsEmptied ==
  ASSUME IInv, CustomersInv, NEW r \in OrderRequests, Commit(r), NEW c \in Customers,
         Emptied(c), merged'[c] = merged[c], r \in Merges => c # Body[r].into
  PROVE  Emptied(c)'
<1>1. /\ Shapes /\ merged[c].number <= next /\ merged[c].number \in Nat
      /\ merged[c].known \subseteq KnownAddresses
  BY DEF IInv, CustomersInv, MergedInv, CustomersShapes
<1>2. ASSUME NEW o \in Stored', rows'[o].customer = c PROVE rows'[o].number >= merged[c].number
  <2>1. o \in Creates
    BY DEF Stored
  <2>2. CASE r \in Creates /\ o = r
    <3>1. rows'[o].number = next /\ next \in Nat
      BY <1>1, <2>2, CommitMovesOrders DEF Shapes
    <3> QED
      BY <1>1, <3>1
  <2>3. CASE ~(r \in Creates /\ o = r)
    <3>1. o \in Stored /\ rows'[o].number = rows[o].number
      BY <2>3, CommitWrites
    <3>2. rows[o].customer = c
      <4>1. CASE o \notin Written(r)
        BY <1>2, <2>1, <4>1, CommitMovesOrders
      <4>2. CASE o \in Written(r) /\ r \in Creates
        BY <2>3, <4>2, Kinds DEF Written, OrderOf
      <4>3. CASE o \in Written(r) /\ Change(r)
        <5>1. o = OrderOf(r)
          BY <4>3, Kinds DEF Written, Change
        <5> QED
          BY <1>2, <4>3, <5>1, CommitMovesOrders
      <4>4. CASE o \in Written(r) /\ r \in Merges
        BY <1>2, <4>4, CommitMovesOrders DEF Written
      <4> QED
        BY <4>1, <4>2, <4>3, <4>4 DEF OrderRequests, Change
    <3> QED
      BY <3>1, <3>2 DEF Emptied
  <2> QED
    BY <2>2, <2>3
<1>3. ASSUME NEW a \in merged[c].known PROVE addresses'[a].customer # c
  <2>1. a \in Addresses /\ addresses[a].customer # c
    BY <1>1 DEF Emptied, KnownAddresses
  <2>2. CASE r \notin Merges
    BY <2>1, <2>2, CommitFrame
  <2>3. CASE r \in Merges
    <3>1. at[r] = "commit" /\ StoreAddresses(r)
      BY <2>3, CommitFrame DEF Commit
    <3> QED
      BY <2>1, <2>3, <3>1, StoredAddresses
  <2> QED
    BY <2>2, <2>3
<1> QED
  BY <1>2, <1>3 DEF Emptied

\* A merge leaves its customer nothing, unless it has crossed.
LEMMA CommitEmpties ==
  ASSUME IInv, CustomersInv, NEW r \in Merges, Commit(r), Body[r].from \notin crossed
  PROVE  Emptied(Body[r].from)'
<1> DEFINE c == Body[r].from
<1>1. /\ MergeOf(r) /\ at[r] = "commit" /\ StoreAddresses(r) /\ r \in OrderRequests
      /\ Body[r].from # Body[r].into
  BY CommitFrame, CommitMovesOrders, RowedAreRequests DEF Commit, CustomersInv
<1>2. ASSUME NEW o \in Stored' PROVE rows'[o].customer # c
  <2>1. o \in Creates /\ rows'[o] # NoRow
    BY DEF Stored
  <2>2. CASE o \in swept[r]
    BY <1>1, <2>2, CommitMovesOrders
  <2>3. CASE o \notin swept[r]
    <3>1. rows'[o] = rows[o]
      BY <1>1, <2>1, <2>3, CommitMovesOrders DEF Written
    <3> QED
      BY <1>1, <2>1, <2>3, <3>1 DEF MergeOf, Stored, Writing
  <2> QED
    BY <2>2, <2>3
<1>3. ASSUME NEW a \in merged'[c].known PROVE addresses'[a].customer # c
  <2>1. c \in Customers
    BY Bodies
  <2>2. a \in Addresses /\ addresses[a] # NoRow
    <3>1. merged'[c] = [number |-> next, known |-> KnownAddresses]
      BY <1>1, <2>1, CommitShapes
    <3> QED
      BY <3>1 DEF KnownAddresses
  <2>3. CASE a \in taken[r]
    BY <1>1, <2>3, StoredAddresses
  <2>4. CASE a \notin taken[r]
    <3>1. addresses'[a] = addresses[a]
      BY <1>1, <2>2, <2>4, StoredAddresses
    <3>2. ~AddressOf(c, a)
      BY <1>1, <2>2, <2>4 DEF MergeOf, Writing
    <3> QED
      BY <2>2, <3>1, <3>2 DEF AddressOf
  <2> QED
    BY <2>3, <2>4
<1> QED
  BY <1>2, <1>3 DEF Emptied

LEMMA CommitMatches ==
  ASSUME IInv, CustomersInv, NEW r \in OrderRequests, Commit(r)
  PROVE  CustomersMatchUnlessCrossed'
<1>1. /\ crossed' = crossed /\ CustomersMatchUnlessCrossed /\ at[r] = "commit" /\ Shapes
      /\ r \notin Merges => addresses' = addresses /\ bare' = bare
      /\ r \in Merges => StoreAddresses(r)
  BY CommitFrame DEF CustomersInv, Commit, IInv
<1>2. \A c \in Customers : merged'[c] =
        IF r \in Merges /\ c = Body[r].into THEN NotMerged
        ELSE IF r \in Merges /\ c = Body[r].from THEN [number |-> next, known |-> KnownAddresses]
        ELSE merged[c]
  BY CommitShapes
<1>3. \A c \in Customers \ crossed :
        IF merged[c] = NotMerged THEN kpi[c] = KpisOf(c, rows) ELSE Emptied(c)
  BY <1>1 DEF CustomersMatchUnlessCrossed, Emptied
<1>4. \A c \in Customers \ bare' : HasDefault(c, addresses)'
  <2>1. CASE r \in Merges
    BY <1>1, <2>1, StoredAddresses
  <2>2. CASE r \notin Merges
    BY <1>1, <2>2 DEF CustomersMatchUnlessCrossed, HasDefault, Marks
  <2> QED
    BY <2>1, <2>2
<1>5. ASSUME NEW c \in Customers \ crossed
      PROVE  IF merged'[c] = NotMerged THEN (kpi[c] = KpisOf(c, rows))' ELSE Emptied(c)'
  <2>1. CustomerOf(r) \notin crossed => CustomerOf(r) \in Touched(r)
    BY <1>1, WritesWhomItTouches
  <2>2. CASE r \in Merges
    <3>1. CustomerOf(r) = Body[r].into /\ Touched(r) = {Body[r].from, Body[r].into}
          /\ Body[r].from # Body[r].into
      BY <2>2, Kinds, TouchedIs, CommitMovesOrders DEF CustomerOf
    <3>2. CASE c = Body[r].into
      BY <1>2, <2>2, <3>1, <3>2, CommitKpis
    <3>3. CASE c = Body[r].from
      <4>1. merged'[c] # NotMerged
        BY <1>1, <1>2, <2>2, <3>1, <3>3 DEF NotMerged, Shapes
      <4> QED
        BY <2>2, <3>3, <4>1, CommitEmpties
    <3>4. CASE c \notin {Body[r].from, Body[r].into}
      <4>1. merged'[c] = merged[c] /\ c \notin Touched(r)
        BY <1>2, <3>1, <3>4
      <4> QED
        BY <1>3, <3>1, <3>4, <4>1, CommitKpis, CommitKeepsEmptied
    <3> QED
      BY <3>2, <3>3, <3>4
  <2>3. CASE r \notin Merges
    <3>1. merged'[c] = merged[c]
      BY <1>2, <2>3
    <3>2. CASE merged[c] = NotMerged
      <4>1. c = CustomerOf(r) \/ c \notin Touched(r)
        BY <1>1, <2>3, TouchesWhomItWrites DEF OrderRequests, Rowed
      <4> QED
        BY <3>1, <3>2, <4>1, CommitKpis
    <3>3. CASE merged[c] # NotMerged
      BY <1>3, <2>3, <3>1, <3>3, CommitKeepsEmptied
    <3> QED
      BY <3>2, <3>3
  <2> QED
    BY <2>2, <2>3
<1> QED
  BY <1>1, <1>4, <1>5 DEF CustomersMatchUnlessCrossed, Emptied

LEMMA CommitCustomers ==
  ASSUME IInv, CustomersInv, NEW r \in OrderRequests, Commit(r)
  PROVE  CustomersInv'
<1>1. /\ Apart(r) /\ at'[r] = "ok" /\ CallShapes' /\ (r \in Merges => taken'[r] = {}) /\ r \in Requests
      /\ r \notin AddressWrites /\ r \notin NewAddresses
  BY CommitFrame, AddressKinds, RowedAreRequests DEF AddressWrites
<1>2. Knows(r)' /\ Held(r)' = {}
  BY <1>1, NothingToKnow DEF Closed
<1>3. RowsExclusive'
  BY <1>1, <1>2, HeldApart DEF CustomersInv
<1>4. \A p, q \in Merges \cup AddressWrites : p # q => taken'[p] \cap taken'[q] = {}
  <2>1. CallShapes
    BY DEF IInv, CustomersInv, CustomersShapes, CallShapes, Shapes
  <2> QED
    BY <1>1, <2>1, TakenApart DEF CustomersInv
<1>5. CustomersShapes' /\ MergedInv'
  BY CommitShapes
<1>6. MeetingsAreNoted' /\ CustomersMatchUnlessCrossed'
  BY CommitMeetings, CommitMatches
<1>7. \A q \in OrderRequests : CustomersOf(q)'
  BY <1>2, CommitOthersOrders DEF Knows
<1>8. (\A g \in Merges : MergeOf(g)') /\ (\A q \in AddressWrites : AddressWriteOf(q)')
  BY <1>2, CommitOthersMerges DEF Knows
<1> QED
  BY <1>3, <1>4, <1>5, <1>6, <1>7, <1>8 DEF CustomersInv

LEMMA InitCustomers == Init => CustomersInv
<1> SUFFICES ASSUME Init PROVE CustomersInv
  OBVIOUS
<1>1. /\ rows = [o \in Creates |-> NoRow] /\ at \in [Requests -> {"idle", "unsent"}]
      /\ kpi = [c \in Customers |-> NoTally] /\ tally = [r \in OrderRequests |-> NoTally]
      /\ taken = [r \in Merges \cup AddressWrites |-> {}]
      /\ merged = [c \in Customers |-> NotMerged] /\ next = 1
      /\ addresses = [a \in Addresses |-> IF a \in Registered THEN NewAddress(a) ELSE NoRow]
      /\ bare = {c \in Customers : ~HasDefault(c, addresses)}
  BY DEF Init, BookInit
<1>2. \A a \in Addresses : NewAddress(a) \in AddressRow
  <2>1. \A a \in Addresses : Body[a].customer \in Customers /\ Body[a].isDefault \in Optional(BOOLEAN)
    BY AddressKinds
  <2>2. \A a \in Addresses : Given(Body[a].isDefault, FALSE) \in BOOLEAN
    BY <2>1 DEF Given, Optional
  <2> QED
    BY <2>1, <2>2 DEF NewAddress, AddressRow
<1>3. CustomersShapes
  BY <1>1, <1>2 DEF CustomersShapes, NotMerged
<1>4. \A r \in Requests : at[r] \in {"idle", "unsent"}
  BY <1>1
<1>5. Open = {} /\ Stored = {}
  BY <1>1, <1>4 DEF Open, Stored
<1>6. \A r \in OrderRequests : Held(r) = {} /\ CustomersOf(r)
  BY <1>4, RowedAreRequests DEF Held, CustomersOf, Writing
<1>7. \A g \in Merges : MergeOf(g)
  BY <1>1, <1>4, <1>5, RowedAreRequests DEF MergeOf, Writing
<1>8. \A r \in AddressWrites : AddressWriteOf(r)
  <2>1. \A r \in NewAddresses : r \in Addresses /\ addresses[r] = NoRow
    BY <1>1, AddressKinds DEF Addresses
  <2> QED
    BY <1>1, <1>4, <2>1, RowedAreRequests DEF AddressWriteOf
<1>9. CustomersMatchUnlessCrossed
  <2>1. \A c \in Customers : merged[c] = NotMerged /\ kpi[c] = KpisOf(c, rows)
    BY <1>1, KpisOfNone
  <2> QED
    BY <1>1, <2>1 DEF CustomersMatchUnlessCrossed
<1>10. MergedInv
  BY <1>1 DEF MergedInv, NotMerged
<1> QED
  BY <1>1, <1>3, <1>5, <1>6, <1>7, <1>8, <1>9, <1>10
     DEF CustomersInv, RowsExclusive, MeetingsAreNoted, Meet

LEMMA AfterCommitKeepsCustomers == CustomersInv /\ Shapes /\ AfterCommit => CustomersInv'
<1> SUFFICES ASSUME CustomersInv, Shapes, AfterCommit PROVE CustomersInv'
  OBVIOUS
<1>1. /\ UNCHANGED Books /\ crossed' = crossed /\ at' = at /\ draft' = draft /\ seen' = seen
      /\ swept' = swept /\ tally' = tally /\ taken' = taken /\ Stored' = Stored
  BY DEF AfterCommit, sideVars, opened, bookVars, Books, Stored
<1>2. CASE Requests = {}
  <2>1. OrderRequests = {} /\ Merges = {} /\ AddressWrites = {}
    BY <1>2, RowedAreRequests DEF Requests
  <2>2. CustomersMatchUnlessCrossed'
    <3>1. \A c \in Customers : (kpi[c] = KpisOf(c, rows))' <=> kpi[c] = KpisOf(c, rows)
      BY <1>1 DEF Books, KpisOf, SumCollected
    <3>2. \A c \in Customers : HasDefault(c, addresses)' <=> HasDefault(c, addresses)
      BY <1>1 DEF Books, HasDefault, Marks
    <3> QED
      BY <1>1, <3>1, <3>2 DEF CustomersInv, CustomersMatchUnlessCrossed, Books
  <2>3. CustomersShapes' /\ MergedInv'
    BY <1>1 DEF CustomersInv, CustomersShapes, MergedInv, KnownAddresses, Books
  <2> QED
    BY <2>1, <2>2, <2>3 DEF CustomersInv, RowsExclusive, MeetingsAreNoted
<1>3. CASE Requests # {}
  <2> PICK r \in Requests : TRUE
    BY <1>3
  <2>1. Apart(r) /\ CallShapes'
    BY <1>1 DEF Apart, CallShapes, CustomersInv, CustomersShapes, Shapes
  <2>2. Knows(r)'
    <3>1. Knows(r)
      BY DEF CustomersInv, Knows
    <3>2. r \in OrderRequests => View(r)' = View(r) /\ CustomerOf(r)' = CustomerOf(r)
      BY <1>1, ViewStays DEF Books
    <3>3. r \in OrderRequests => CustomersOf(r)'
      <4> SUFFICES ASSUME r \in OrderRequests PROVE CustomersOf(r)'
        OBVIOUS
      <4>1. at[r] \in {"kpi", "commit"} /\ CustomerOf(r) \notin crossed =>
              (tally[r] = KpisOf(CustomerOf(r), View(r)))'
        BY <1>1, <3>1, <3>2, TalliesStay DEF Knows, CustomersOf
      <4> QED
        BY <1>1, <3>1, <3>2, <4>1 DEF Knows, CustomersOf, Books, OrderOf, Writing
    <3>4. r \in Merges => MergeOf(r)'
      BY <1>1, <3>1, OpenIs, OpenIsPrimed DEF Knows, MergeOf, AddressOf, Books, Writing
    <3>5. r \in AddressWrites => AddressWriteOf(r)'
      BY <1>1, <3>1 DEF Knows, AddressWriteOf, AddressOf, Marks, TargetOf, Books
    <3> QED
      BY <3>3, <3>4, <3>5 DEF Knows
  <2>3. (r \in Open)' => r \in Open
    BY <1>1, OpenIs, OpenIsPrimed
  <2>4. Held(r)' = Held(r)
    BY <1>1 DEF Held, Change, OrderOf, Writing
  <2>5. Calm(r)
    BY <1>1, <2>1, <2>2, <2>3, <2>4 DEF Calm
  <2> QED
    BY <2>5, CalmStep
<1> QED
  BY <1>2, <1>3

LEMMA NextKeepsCustomers == IInv /\ CustomersInv /\ [Next]_vars => CustomersInv'
<1> SUFFICES ASSUME IInv, CustomersInv, [Next]_vars PROVE CustomersInv'
  OBVIOUS
<1>1. Shapes
  BY DEF IInv
<1>2. ASSUME NEW c \in Creates, Lookup(c) \/ IssueNumber(c) \/ Insert(c) PROVE CustomersInv'
  BY <1>1, <1>2, CreateCalm, CalmStep, RowedAreRequests DEF Rowed
<1>3. ASSUME NEW u \in Updates, Read(u) \/ DeleteItems(u) \/ ReplaceItems(u) \/ Write(u) PROVE CustomersInv'
  BY <1>1, <1>3, UpdateCalm, CalmStep, RowedAreRequests DEF Rowed
<1>4. ASSUME NEW t \in Moves, Lock(t) PROVE CustomersInv'
  BY <1>1, <1>4, MoveCalm, CalmStep, RowedAreRequests DEF Rowed
<1>5. ASSUME NEW g \in Merges,
             MergeAddresses(g) \/ Sweep(g) \/ MoveOrders(g) \/ Archive(g) \/ Deadlock(g)
      PROVE  CustomersInv'
  BY <1>1, <1>5, MergeCalm, CalmStep, RowedAreRequests
<1>6. ASSUME NEW g \in Merges, DeadlockAddress(g) PROVE CustomersInv'
  BY <1>1, <1>6, DeadlockCalm, CalmStep
<1>7. ASSUME NEW c \in NewCustomers, EnrolCustomer(c) PROVE CustomersInv'
  BY <1>1, <1>7, CustomerWriteCalm, CalmStep, RowedAreRequests
<1>8. ASSUME NEW r \in CustomerWrites, ChangeCustomer(r) PROVE CustomersInv'
  BY <1>1, <1>8, CustomerWriteCalm, CalmStep, RowedAreRequests
<1>9. ASSUME NEW r \in AddressWrites, ChangeAddress(r) PROVE CustomersInv'
  <2>1. CASE CommitAddress(r)
    <3>1. OrdersStay /\ (crossed' = crossed \/ Arrive(r))
      BY <1>9 DEF ChangeAddress
    <3>2. ~Arrive(r)
      BY <2>1 DEF CommitAddress, Arrive
    <3> QED
      BY <2>1, <3>1, <3>2, AddressCommit
  <2>2. CASE ~CommitAddress(r)
    BY <1>1, <1>9, <2>2, AddressCalm, CalmStep, RowedAreRequests
  <2> QED
    BY <2>1, <2>2
<1>10. ASSUME NEW r \in OrderRequests, Begin(r) PROVE CustomersInv'
  BY <1>1, <1>10, BeginCalm, CalmStep, RowedAreRequests
<1>11. ASSUME NEW r \in OrderRequests, Tally(r) \/ WriteKpis(r) \/ Lose(r) PROVE CustomersInv'
  BY <1>1, <1>11, SharedCalm, CalmStep, RowedAreRequests
<1>12. ASSUME NEW r \in OrderRequests, Commit(r) PROVE CustomersInv'
  BY <1>12, CommitCustomers
<1>13. CASE AfterCommit
  BY <1>1, <1>13, AfterCommitKeepsCustomers
<1>14. UNCHANGED vars \/ (\E u \in Updates : Publish(u) \/ BreakOff(u)) => AfterCommit
  BY EventStep, StutterIsAfterCommit
<1> QED
  BY <1>14, <1>2, <1>3, <1>4, <1>5, <1>6, <1>7, <1>8, <1>9, <1>10, <1>11, <1>12, <1>13 DEF Next, Finished

\* OrdersRepository.recomputeCustomerKpis aggregates without a lock, and
\* CustomersRepository.merge moves orders and addresses by statements that each
\* see another instant: the KPIs agree with the orders, and a merged customer
\* keeps nothing, for any number of requests, unless an edit or a merge was open
\* beside another write of the customer.  Whatever crosses, a customer keeps its
\* default address until it is taken on request.
THEOREM CustomersAgreeWithTheirOrders == Spec => []CustomersMatchUnlessCrossed
<1>1. CustomersInv => CustomersMatchUnlessCrossed
  BY DEF CustomersInv
<1> QED
  BY <1>1, InitCustomers, NextKeepsCustomers, OrderMoneyInvariant, PTL DEF Spec
=============================================================================

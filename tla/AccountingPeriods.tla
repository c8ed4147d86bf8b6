------------------------- MODULE AccountingPeriods -------------------------
(***************************************************************************)
(* FinanceRepository: the writes that move money, and the monthly close.   *)
(*                                                                         *)
(* A write looks its idempotency key up, asserts that the accounting       *)
(* period it is dated in is not closed (bringing the period's row into     *)
(* existence when there is none), and inserts its row.  Closing a period   *)
(* refuses while an earlier one is open.  Each is a READ COMMITTED         *)
(* transaction; the assertion takes no lock on the period, so a close may  *)
(* come between it and the insert.  Purchase-order payments assert         *)
(* nothing.  Expenses and payments carry the date the client gives them,   *)
(* the other rows are dated by the clock when they are inserted.           *)
(***************************************************************************)
EXTENDS Integers, Sequences, SequencesExt

CONSTANTS
  Clients,    \* the clients of a run, each with one request, served once
  Nobody,     \* no call: the holder of a free lock
  KeySet,     \* the Idempotency-Keys clients use
  NoKey,      \* the request carries no Idempotency-Key
  PeriodKeys, \* the months, as numbers: "YYYY-MM" orders like its month
  FirstMonth, \* the month the run starts in
  Absent,     \* a field the request leaves out
  OrderItems, \* the items of every order: [order -> sequence of invoice lines]
  Parcels,    \* the fee of every shipment, by its tracking number
  Books       \* which call carries which request: the assignments explored

MaybeKey == KeySet \cup {NoKey}
Amounts == Nat \ {0}

\* What the service lets through, operation by operation.  Months stand for the
\* dates of the bodies, `target` for the id in the path.
CreateExpenseDto == [op: {"expense"}, day: PeriodKeys, amount: Amounts, key: MaybeKey]

UpdateExpenseDto ==
  [op: {"editExpense"}, target: Clients, day: PeriodKeys \cup {Absent},
   amount: Amounts \cup {Absent}, key: {NoKey}]

CreatePaymentDto ==
  [op: {"payment"}, day: PeriodKeys \cup {Absent}, amount: Amounts, key: MaybeKey]

CreateInvoiceLineDto == [quantity: Nat \ {0}, price: Nat]

\* The items of an order or lines of the client's own; when both are given the
\* order counts.
CreateInvoiceDto ==
  [op: {"invoice"}, order: STRING \cup {Absent}, lines: Seq(CreateInvoiceLineDto), key: MaybeKey]

\* A refund names an invoice or an order, and must carry a key.
CreateRefundDto ==
  {r \in [op: {"refund"}, invoice: Clients \cup {Absent}, order: STRING \cup {Absent},
          amount: Amounts, key: KeySet] :
     r.invoice # Absent \/ r.order # Absent}

CreateReconciliationLineDto == [parcel: STRING, stated: Nat]

CreateReconciliationDto ==
  {r \in [op: {"reconcile"}, lines: Seq(CreateReconciliationLineDto), key: MaybeKey] :
     r.lines # <<>>}

ClosePeriod == [op: {"close"}, day: PeriodKeys, key: {NoKey}]

\* The VAT rate, up to 100 %.
BasisPoints == 0..10000
UpdateTaxSettingsDto == [op: {"taxSettings"}, bps: BasisPoints, key: {NoKey}]

Request ==
  CreateExpenseDto \cup UpdateExpenseDto \cup CreatePaymentDto \cup CreateInvoiceDto
    \cup CreateRefundDto \cup CreateReconciliationDto \cup UpdateTaxSettingsDto
    \cup ClosePeriod

ASSUME PeriodAssumption ==
  /\ PeriodKeys \subseteq Nat \ {0}
  /\ FirstMonth \in PeriodKeys
  /\ Nobody \notin Clients
  /\ \A items \in Range(OrderItems) : items \in Seq(CreateInvoiceLineDto)
  /\ Range(Parcels) \subseteq Nat

ASSUME BookAssumption == \A plan \in Books : \A c \in Clients : plan[c] \in Request

NoRow == [kind |-> "none"]

VARIABLES
  period,      \* accounting_periods.status, the committed rows
  book,        \* the row every call has written (expenses, invoices, refunds,
               \*   reconciliations, payments), the committed rows
  nextNumber,  \* invoice_sequences.next_number
  rate,        \* tax_settings.vat_rate_bps
  month,       \* the clock
  asked,         \* the request every call carries
  pc,          \* where the transaction of a call is
  dated,       \* the periods the call has asserted open, or is asserting
  draft,       \* the row as the call's transaction is going to commit it
  periodLock,  \* the holder of every period's row (or pending insert)
  numberLock,  \* the holder of the sequence's row
  rowLock,     \* the holder of every written row
  closedSince, \* history: the periods closed since the call began
  late,        \* history: the periods opened when a later one was closed, or
               \*   about to be
  astray       \* history: the writes whose row is not in a month they asserted
               \*   open, because the clock or another edit has moved it since

committed == <<period, book, nextNumber, rate, month>>
history == <<closedSince, late, astray>>
booksVars == <<period, book, nextNumber, rate, month, asked, pc, dated, draft,
          periodLock, numberLock, rowLock, closedSince, late, astray>>

Final == {"done", "replayed", "rejected", "notFound", "aborted", "failed"}
Labels == {"idle", "assert", "touch", "insertPeriod", "open", "edit", "resolve",
            "rate", "number", "insert", "gaps", "close", "written"} \cup Final

BooksInit ==
  /\ asked \in Books
  /\ period = [p \in PeriodKeys |-> "absent"]
  /\ book = [c \in Clients |-> NoRow]
  /\ nextNumber = 1
  /\ rate = 0
  /\ month = FirstMonth
  /\ pc = [c \in Clients |-> "idle"]
  /\ dated = [c \in Clients |-> <<>>]
  /\ draft = [c \in Clients |-> NoRow]
  /\ periodLock = [p \in PeriodKeys |-> Nobody]
  /\ numberLock = Nobody
  /\ rowLock = [c \in Clients |-> Nobody]
  /\ closedSince = [c \in Clients |-> {}]
  /\ late = {}
  /\ astray = {}

-----------------------------------------------------------------------------
(* Helpers.                                                                *)

GoOn(c, label) == pc' = [pc EXCEPT ![c] = label]

\* The transaction ends, either way: its locks are gone.
EndTransaction(c, outcome) ==
  /\ GoOn(c, outcome)
  /\ periodLock' = [p \in PeriodKeys |-> IF periodLock[p] = c THEN Nobody ELSE periodLock[p]]
  /\ numberLock' = IF numberLock = c THEN Nobody ELSE numberLock
  /\ rowLock' = [r \in Clients |-> IF rowLock[r] = c THEN Nobody ELSE rowLock[r]]
  /\ dated' = [dated EXCEPT ![c] = <<>>]
  /\ draft' = [draft EXCEPT ![c] = NoRow]

\* ... without a write reaching the database.
Leave(c, outcome) == EndTransaction(c, outcome) /\ UNCHANGED <<committed, history, asked>>

locks == <<periodLock, numberLock, rowLock>>

\* The call carries the key of another one of its kind; the unique indexes are
\* per table and per company.
SameKey(c, d) == asked[c].op = asked[d].op /\ asked[c].key # NoKey /\ asked[c].key = asked[d].key

KeyStored(c) == \E d \in Clients : book[d] # NoRow /\ SameKey(c, d)

KeyPending(c) == \E d \in Clients \ {c} : pc[d] = "written" /\ SameKey(c, d)

\* round_half_up(subtotal * rate / 10000) on integers; the exact amount is in
\* ten-thousandths.
ExactVat(subtotal, bps) == subtotal * bps
ComputeVat(subtotal, bps) == (ExactVat(subtotal, bps) + 5000) \div 10000

-----------------------------------------------------------------------------
(* The beginning of a write.                                               *)

\* The period a write asserts open first: that of the row it edits, the one
\* the client dates it in, or the current month.
FirstAsserted(c) ==
  CASE asked[c].op = "editExpense" -> book[asked[c].target].period
    [] asked[c].op = "expense" -> asked[c].day
    [] OTHER -> month

\* The period being asserted open.
Asserting(c) == Last(dated[c])

\* The transaction begins and reads the row its key or its id names.
Begin(c, op, next, missing) ==
  /\ pc[c] = "idle"
  /\ asked[c].op = op
  /\ GoOn(c, CASE KeyStored(c) -> "replayed"
               [] missing -> "notFound"
               [] OTHER -> next)
  /\ dated' = IF next = "assert" /\ ~KeyStored(c) /\ ~missing
              THEN [dated EXCEPT ![c] = <<FirstAsserted(c)>>] ELSE dated
  /\ closedSince' = [closedSince EXCEPT ![c] = {}]
  /\ UNCHANGED <<committed, asked, draft, locks, late, astray>>

BeginExpense(c) == Begin(c, "expense", "assert", FALSE)
BeginInvoice(c) == Begin(c, "invoice", "assert", FALSE)
BeginRefund(c) == Begin(c, "refund", "assert", FALSE)
BeginReconciliation(c) == Begin(c, "reconcile", "assert", FALSE)
BeginPayment(c) == Begin(c, "payment", "insert", FALSE)
BeginEdit(c) == Begin(c, "editExpense", "assert", book[asked[c].target].kind # "expense")

-----------------------------------------------------------------------------
(* assertPeriodOpen, and what it upserts.                                  *)

\* Mutant: nothing stops a write dated in a closed period.
AssertOpen_Skipped(c) ==
  /\ pc[c] = "assert"
  /\ GoOn(c, IF period[Asserting(c)] = "absent" THEN "touch" ELSE "open")
  /\ UNCHANGED <<committed, history, asked, dated, draft, locks>>

\* SELECT status, without a lock: closed refuses the write, absent has the
\* period's row created, open lets the write go on.
AssertOpen(c) ==
  /\ pc[c] = "assert"
  /\ IF period[Asserting(c)] = "closed"
     THEN Leave(c, "rejected")
     ELSE /\ GoOn(c, IF period[Asserting(c)] = "absent" THEN "touch" ELSE "open")
          /\ UNCHANGED <<committed, history, asked, dated, draft, locks>>

\* The upsert looks for the row again.  If it has appeared, there is nothing to
\* change, and its status is not looked at a second time.
TouchPeriod(c) ==
  /\ pc[c] = "touch"
  /\ GoOn(c, IF period[Asserting(c)] = "absent" THEN "insertPeriod" ELSE "open")
  /\ UNCHANGED <<committed, history, asked, dated, draft, locks>>

\* No row: the upsert inserts one, open.  The insert waits for a transaction
\* that has inserted the row and not committed; once that has committed, it
\* violates the unique index, which nobody catches.
InsertPeriod(c) ==
  /\ pc[c] = "insertPeriod"
  /\ periodLock[Asserting(c)] \in {Nobody, c}
  /\ IF period[Asserting(c)] # "absent"
     THEN Leave(c, "failed")
     ELSE /\ periodLock' = [periodLock EXCEPT ![Asserting(c)] = c]
          /\ GoOn(c, "open")
          /\ UNCHANGED <<committed, history, asked, dated, draft, numberLock, rowLock>>

\* What a write does once its period was found open: an edit that changes the
\* date asserts the new period as well.
Proceed(c) ==
  /\ pc[c] = "open"
  /\ IF asked[c].op = "editExpense" /\ asked[c].day # Absent /\ Len(dated[c]) = 1
     THEN GoOn(c, "assert") /\ dated' = [dated EXCEPT ![c] = Append(@, asked[c].day)]
     ELSE /\ GoOn(c, CASE asked[c].op = "editExpense" -> "edit"
                       [] asked[c].op \in {"invoice", "refund", "reconcile"} -> "resolve"
                       [] OTHER -> "insert")
          /\ UNCHANGED dated
  /\ UNCHANGED <<committed, history, asked, draft, locks>>

-----------------------------------------------------------------------------
(* Between the assertion and the insert.                                   *)

\* The lines an invoice bills: the order's items as they stand, or the
\* client's own.  None: EmptyInvoiceError, or ReferenceNotFoundError("orderId").
BilledLines(c) ==
  IF asked[c].order = Absent THEN asked[c].lines
  ELSE IF asked[c].order \in DOMAIN OrderItems THEN OrderItems[asked[c].order] ELSE <<>>

Subtotal(lines) == SumFunction([i \in DOMAIN lines |-> lines[i].quantity * lines[i].price])

\* assertInvoice and assertOrderRef, on what a refund names.
RefundTargetsExist(c) ==
  /\ asked[c].invoice # Absent => book[asked[c].invoice].kind = "invoice"
  /\ asked[c].order # Absent => asked[c].order \in DOMAIN OrderItems

\* One line without a shipment refuses the whole statement.
EveryLineHasAParcel(c) == \A line \in Range(asked[c].lines) : line.parcel \in DOMAIN Parcels

Stated(lines) == SumFunction([i \in DOMAIN lines |-> lines[i].stated])
Fees(lines) == SumFunction([i \in DOMAIN lines |-> Parcels[lines[i].parcel]])

\* The rows a request refers to are looked up before anything is written.
Resolve(c) ==
  /\ pc[c] = "resolve"
  /\ IF CASE asked[c].op = "invoice" -> BilledLines(c) # <<>>
          [] asked[c].op = "refund" -> RefundTargetsExist(c)
          [] asked[c].op = "reconcile" -> EveryLineHasAParcel(c)
     THEN /\ GoOn(c, IF asked[c].op = "invoice" THEN "rate" ELSE "insert")
          /\ UNCHANGED <<committed, history, asked, dated, draft, locks>>
     ELSE Leave(c, "rejected")

\* getVatRateBps, and the totals of the invoice.
ReadRate(c) ==
  /\ pc[c] = "rate"
  /\ draft' = [draft EXCEPT ![c] =
                 [kind |-> "invoice", amount |-> Subtotal(BilledLines(c)), bps |-> rate,
                  vat |-> ComputeVat(Subtotal(BilledLines(c)), rate)]]
  /\ GoOn(c, "number")
  /\ UNCHANGED <<committed, history, asked, dated, locks>>

\* Mutant: the number is read from the sequence without its row lock.
IssueNumber_NoLock(c) ==
  /\ pc[c] = "number"
  /\ numberLock' = c
  /\ GoOn(c, "insert")
  /\ UNCHANGED <<committed, history, asked, dated, draft, periodLock, rowLock>>

\* INSERT ... ON CONFLICT DO UPDATE on the sequence: the row stays locked until
\* the transaction ends, so the number it holds is the committed one.
IssueNumber(c) ==
  /\ pc[c] = "number"
  /\ numberLock = Nobody
  /\ numberLock' = c
  /\ GoOn(c, "insert")
  /\ UNCHANGED <<committed, history, asked, dated, draft, periodLock, rowLock>>

-----------------------------------------------------------------------------
(* The write.                                                              *)

\* The row a call inserts now.  The client may date a payment, and must date an
\* expense; a reconciliation keeps the difference to the shipments' fees, and is
\* of the month it is written in: the periodKey its request gives is a label
\* that nothing compares.
NewRow(c) ==
  CASE asked[c].op = "invoice" ->
         [kind |-> "invoice", period |-> month, amount |-> draft[c].amount,
          bps |-> draft[c].bps, vat |-> draft[c].vat, number |-> nextNumber]
    [] asked[c].op = "reconcile" ->
         [kind |-> "reconcile", period |-> month, amount |-> Stated(asked[c].lines),
          variance |-> Stated(asked[c].lines) - Fees(asked[c].lines)]
    [] asked[c].op = "refund" ->
         [kind |-> "refund", period |-> month, amount |-> asked[c].amount]
    [] OTHER ->
         [kind |-> asked[c].op, amount |-> asked[c].amount,
          period |-> IF asked[c].day = Absent THEN month ELSE asked[c].day]

Insert(c) ==
  /\ pc[c] = "insert"
  /\ ~KeyPending(c) /\ ~KeyStored(c)
  /\ draft' = [draft EXCEPT ![c] = NewRow(c)]
  /\ astray' = IF dated[c] # <<>> /\ NewRow(c).period # Asserting(c)
              THEN astray \cup {c} ELSE astray
  /\ GoOn(c, "written")
  /\ UNCHANGED <<committed, asked, dated, locks, closedSince, late>>

\* The insert violates the unique index on the key, and replayOnKeyConflict
\* looks the stored row up in the transaction PostgreSQL has just aborted.
KeyConflict(c) ==
  /\ pc[c] = "insert"
  /\ ~KeyPending(c) /\ KeyStored(c)
  /\ Leave(c, "aborted")

\* The columns the patch names are overwritten, the others keep what is there now.
Patched(row, patch) ==
  [row EXCEPT !.amount = IF patch.amount = Absent THEN row.amount ELSE patch.amount,
              !.period = IF patch.day = Absent THEN row.period ELSE patch.day]

\* updateMany on the expense, after waiting for its row lock.
EditRow(c) ==
  LET r == asked[c].target
  IN  /\ pc[c] = "edit"
      /\ rowLock[r] = Nobody
      /\ rowLock' = [rowLock EXCEPT ![r] = c]
      /\ draft' = [draft EXCEPT ![c] = Patched(book[r], asked[c])]
      /\ astray' = IF book[r].period \in Range(dated[c]) THEN astray ELSE astray \cup {c}
      /\ GoOn(c, "written")
      /\ UNCHANGED <<committed, asked, dated, periodLock, numberLock, closedSince, late>>

-----------------------------------------------------------------------------
(* closePeriod.                                                            *)

\* SELECT ... FOR UPDATE: an existing row is waited for and locked; closed
\* already, the call is a replay.
BeginClose(c) ==
  LET p == asked[c].day
  IN  /\ pc[c] = "idle"
      /\ asked[c].op = "close"
      /\ period[p] # "absent" => periodLock[p] = Nobody
      /\ IF period[p] = "closed"
         THEN GoOn(c, "replayed") /\ UNCHANGED periodLock
         ELSE /\ GoOn(c, "gaps")
              /\ periodLock' = IF period[p] = "open" THEN [periodLock EXCEPT ![p] = c]
                                                     ELSE periodLock
      /\ closedSince' = [closedSince EXCEPT ![c] = {}]
      /\ UNCHANGED <<committed, asked, dated, draft, numberLock, rowLock, late, astray>>

\* Mutant: months are closed in any order.
CheckGaps_Skipped(c) ==
  /\ pc[c] = "gaps"
  /\ GoOn(c, "close")
  /\ UNCHANGED <<committed, history, asked, dated, draft, locks>>

\* PeriodSequenceGapError while an earlier period is open.
CheckGaps(c) ==
  /\ pc[c] = "gaps"
  /\ IF \E p \in PeriodKeys : p < asked[c].day /\ period[p] = "open"
     THEN Leave(c, "rejected")
     ELSE /\ GoOn(c, "close")
          /\ UNCHANGED <<committed, history, asked, dated, draft, locks>>

\* INSERT ... ON CONFLICT DO UPDATE: waits for whoever holds the row.
UpsertClosed(c) ==
  /\ pc[c] = "close"
  /\ periodLock[asked[c].day] \in {Nobody, c}
  /\ periodLock' = [periodLock EXCEPT ![asked[c].day] = c]
  /\ GoOn(c, "written")
  /\ UNCHANGED <<committed, history, asked, dated, draft, numberLock, rowLock>>

\* updateTaxSettings: one upsert.
UpdateTaxSettings(c) ==
  /\ pc[c] = "idle"
  /\ asked[c].op = "taxSettings"
  /\ rate' = asked[c].bps
  /\ GoOn(c, "done")
  /\ UNCHANGED <<period, book, nextNumber, month, asked, dated, draft, locks, history>>

-----------------------------------------------------------------------------
(* The end of the transaction.                                             *)

\* The periods a writing transaction has inserted.
Touched(c) == {p \in PeriodKeys : periodLock[p] = c}

\* A close of a later month is past its gap check, or has happened.
OvertakenBy(p, q) ==
  p < q /\ (period[q] = "closed"
              \/ \E d \in Clients : asked[d].op = "close" /\ asked[d].day = q
                                    /\ pc[d] \in {"close", "written"})

CommitWrite(c) ==
  LET row == IF asked[c].op = "editExpense" THEN asked[c].target ELSE c
  IN  /\ pc[c] = "written"
      /\ asked[c].op # "close"
      /\ period' = [p \in PeriodKeys |-> IF p \in Touched(c) THEN "open" ELSE period[p]]
      /\ book' = [book EXCEPT ![row] = draft[c]]
      /\ nextNumber' = IF asked[c].op = "invoice" THEN draft[c].number + 1 ELSE nextNumber
      /\ late' = late \cup {p \in Touched(c) : \E q \in PeriodKeys : OvertakenBy(p, q)}
      /\ EndTransaction(c, "done")
      /\ UNCHANGED <<rate, month, asked, closedSince, astray>>

CommitClose(c) ==
  /\ pc[c] = "written"
  /\ asked[c].op = "close"
  /\ period' = [period EXCEPT ![asked[c].day] = "closed"]
  /\ closedSince' = [d \in Clients |-> closedSince[d] \cup {asked[c].day}]
  /\ EndTransaction(c, "done")
  /\ UNCHANGED <<book, nextNumber, rate, month, asked, late, astray>>

\* The process or its connection dies: the transaction is rolled back.
Crash(c) == pc[c] \notin {"idle"} \cup Final /\ Leave(c, "failed")

-----------------------------------------------------------------------------
(* The rest of the world.                                                  *)

\* The clock crosses the end of the month.
NextMonth ==
  /\ month + 1 \in PeriodKeys
  /\ month' = month + 1
  /\ UNCHANGED <<period, book, nextNumber, rate, asked, pc, dated, draft, locks, history>>

BooksStep(c) ==
  \/ BeginExpense(c) \/ BeginInvoice(c) \/ BeginRefund(c) \/ BeginReconciliation(c)
  \/ BeginPayment(c) \/ BeginEdit(c) \/ BeginClose(c)
  \/ AssertOpen(c) \/ TouchPeriod(c) \/ InsertPeriod(c) \/ Proceed(c)
  \/ Resolve(c) \/ ReadRate(c) \/ IssueNumber(c)
  \/ Insert(c) \/ KeyConflict(c) \/ EditRow(c)
  \/ CheckGaps(c) \/ UpsertClosed(c)
  \/ CommitWrite(c) \/ CommitClose(c) \/ UpdateTaxSettings(c)

\* All calls have been answered: the run stops here, and nowhere else.
AllAnswered == (\A c \in Clients : pc[c] \in Final) /\ UNCHANGED booksVars

BooksNext ==
  \/ AllAnswered
  \/ \E c \in Clients : BooksStep(c) \/ Crash(c)
  \/ NextMonth

BooksSpec == BooksInit /\ [][BooksNext]_booksVars

-----------------------------------------------------------------------------
(* The computed reads: cash center and P&L of a month.                     *)

Kinds == {"expense", "invoice", "refund", "reconcile", "payment"}

RowsIn(p, kind) == {c \in Clients : book[c].kind = kind /\ book[c].period = p}

TotalOf(p, kind) == SumFunction([c \in RowsIn(p, kind) |-> book[c].amount])

\* computePnlPeriod: invoiced subtotals less expenses.  (The cost of the goods
\* comes from the order items, which the closed books do not hold.)
NetIncome(p) == TotalOf(p, "invoice") - TotalOf(p, "expense")

\* getCashCenterReport: what went out.  (What was collected and the shipping
\* fees come from the orders and the shipments.)
CashOut(p) == TotalOf(p, "expense") + TotalOf(p, "payment") + TotalOf(p, "refund")

-----------------------------------------------------------------------------
(* Properties.                                                             *)

CashRow == [kind: {"expense", "payment", "refund"}, period: PeriodKeys, amount: Nat]
ReconciliationRow == [kind: {"reconcile"}, period: PeriodKeys, amount: Nat, variance: Int]
InvoiceRow ==
  [kind: {"invoice"}, period: PeriodKeys, amount: Nat, bps: BasisPoints, vat: Nat,
   number: Nat \ {0}]

Row == CashRow \cup ReconciliationRow \cup InvoiceRow

\* An invoice whose number has not been issued.
InvoiceTotals == [kind: {"invoice"}, amount: Nat, bps: BasisPoints, vat: Nat]

BookRows == Row \cup {NoRow}
DraftRows == Row \cup InvoiceTotals \cup {NoRow}

BooksTypes ==
  /\ asked \in Books
  /\ period \in [PeriodKeys -> {"absent", "open", "closed"}]
  /\ book \in [Clients -> BookRows]
  /\ nextNumber \in Nat \ {0}
  /\ rate \in BasisPoints /\ month \in PeriodKeys
  /\ pc \in [Clients -> Labels]
  /\ dated \in [Clients -> Seq(PeriodKeys)]
  /\ draft \in [Clients -> DraftRows]
  /\ periodLock \in [PeriodKeys -> Clients \cup {Nobody}]
  /\ numberLock \in Clients \cup {Nobody}
  /\ rowLock \in [Clients -> Clients \cup {Nobody}]
  /\ closedSince \in [Clients -> SUBSET PeriodKeys]
  /\ late \subseteq PeriodKeys /\ astray \subseteq Clients

\* The rows of a month, with what they say.
BooksOf(p) == {<<c, book[c]>> : c \in UNION {RowsIn(p, kind) : kind \in Kinds}}

ReportsOf(p) == <<NetIncome(p), CashOut(p), BooksOf(p)>>

\* "Once closed, the application layer rejects a dated write inside it (every
\* money-moving finance service checks this table first)": no row enters,
\* leaves or changes in a closed month, and its reports stay what they were,
\* unless the write is a purchase-order payment (which asserts nothing), one
\* whose row the clock or another edit moved out of the month it had asserted,
\* or one that had already begun when the month was closed.
ClosedBooksAreFinalUnlessRaced ==
  [][\A p \in PeriodKeys : (period[p] = "closed" /\ ReportsOf(p)' # ReportsOf(p)) =>
       \E c \in Clients :
         /\ pc[c] = "written" /\ pc'[c] = "done"
         /\ asked[c].op = "payment" \/ c \in astray \/ p \in closedSince[c]]_booksVars

\* "Close is atomic and sequential: no gaps", because the gap check "always has a
\* row to inspect for every month that ever had activity": a month with a row in
\* the books (payments and rows dated astray aside) has one among the periods,
\* and when it is open below a closed month, its first row was written after
\* that close, or between its gap check and its commit.
GapsAreLateActivity ==
  /\ \A c \in Clients :
       book[c] # NoRow /\ book[c].kind # "payment" /\ c \notin astray =>
         period[book[c].period] # "absent"
  /\ \A p, q \in PeriodKeys :
       p < q /\ period[p] = "open" /\ period[q] = "closed" => p \in late

\* The rates the company has set.
Rates == {0} \cup {asked[c].bps : c \in {d \in Clients : asked[d].op = "taxSettings"}}

\* An amount in whole minor units is an exact one, in ten-thousandths, rounded half up.
Rounded(vat, exact) == -5000 < 10000 * vat - exact /\ 10000 * vat - exact <= 5000

\* The committed invoices carry the numbers 1, 2, ... without a gap, whatever
\* transactions failed in between, and each its VAT rounded half up at a rate
\* the company had set.
InvoicesAreSound ==
  LET invoices == {c \in Clients : book[c].kind = "invoice"}
  IN  /\ {book[c].number : c \in invoices} = 1..Cardinality(invoices)
      /\ \A c \in invoices :
           /\ Rounded(book[c].vat, ExactVat(book[c].amount, book[c].bps))
           /\ book[c].bps \in Rates
=============================================================================

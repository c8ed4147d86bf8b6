------------------------ MODULE MCAccountingPeriods -------------------------
(***************************************************************************)
(* Instances of AccountingPeriods for TLC.                                 *)
(***************************************************************************)
EXTENDS AccountingPeriods, TLC

CONSTANTS c1, c2, c3, c4, k1

mcExpense(day, key) == [op |-> "expense", day |-> day, amount |-> 1, key |-> key]
mcEdit(target, day, amount) ==
  [op |-> "editExpense", day |-> day, target |-> target, amount |-> amount, key |-> NoKey]
mcInvoice(order, lines, key) ==
  [op |-> "invoice", order |-> order, lines |-> lines, key |-> key]
mcRefund(invoice, order) ==
  [op |-> "refund", invoice |-> invoice, order |-> order, amount |-> 3, key |-> k1]
mcReconcile(parcel) ==
  [op |-> "reconcile", key |-> NoKey,
   lines |-> <<[parcel |-> "sent", stated |-> 4], [parcel |-> parcel, stated |-> 1]>>]
mcPayment(day) == [op |-> "payment", day |-> day, amount |-> 5, key |-> k1]
mcTax == [op |-> "taxSettings", bps |-> 1400, key |-> NoKey]
mcClose(day) == [op |-> "close", day |-> day, key |-> NoKey]

\* One order with two items, and one shipment.
mcOrderItems == [known |-> <<[quantity |-> 2, price |-> 10], [quantity |-> 1, price |-> 5]>>]
mcParcels == [sent |-> 3]

\* 3 * 8 + 1: at 14 % the VAT of 3.50 rounds up.
mcOwnLines == <<[quantity |-> 3, price |-> 8], [quantity |-> 1, price |-> 1]>>

mcPlan(a, b, c, d) == (c1 :> a) @@ (c2 :> b) @@ (c3 :> c) @@ (c4 :> d)

\* The writes of the first call, the close of each month and a fourth request
\* that meets them; then invoices beside what refers to them.
mcBooks ==
  {mcPlan(mcExpense(1, k1), mcClose(1), mcClose(2), fourth) :
     fourth \in {mcEdit(c1, Absent, 2), mcEdit(c1, 2, Absent), mcExpense(1, k1), mcExpense(2, k1)}}
  \cup {mcPlan(mcExpense(2, NoKey), mcEdit(c1, 1, 2), mcEdit(c1, Absent, 3), mcClose(day)) :
          day \in {1, 2}}
  \cup {mcPlan(mcInvoice(Absent, mcOwnLines, k1), mcInvoice("known", <<>>, NoKey), mcTax, fourth) :
          fourth \in {mcClose(1), mcInvoice(Absent, mcOwnLines, k1)}}
  \cup {mcPlan(mcInvoice(Absent, mcOwnLines, k1), third, mcPayment(1), mcClose(1)) :
          third \in {mcInvoice("unknown", <<>>, NoKey), mcRefund(c1, Absent),
                     mcRefund(Absent, "unknown")}}
  \cup {mcPlan(mcReconcile("sent"), mcReconcile("lost"), mcPayment(Absent), mcClose(1))}
=============================================================================

------------------------------- MODULE Lists -------------------------------
(***************************************************************************)
(* The list endpoints: what each may be sorted and filtered by, and how    *)
(* keyset pages are cut out of the rows that match the filters.            *)
(*                                                                         *)
(* A row is [id, key]: its id and the column it is sorted by.  The         *)
(* database keeps times in microseconds; the API reads and writes them in  *)
(* milliseconds.                                                           *)
(***************************************************************************)
EXTENDS Integers, FiniteSets

CONSTANTS
  PerMilli,  \* ticks of a timestamp column in one of a cursor (1000)
  NoSort,    \* no ?sort= in the request
  NoCursor

ASSUME ListsAssumption == PerMilli \in Nat \ {0} /\ NoCursor \notin [p: Int, t: Int]

\* A list: sort fields the client may choose from, the default order, filters
\* that can be malformed, filters that are free text, and whether an unknown
\* filter is an error.
List(sorts, default, checked, free) ==
  [sorts |-> sorts, default |-> default, checked |-> checked, free |-> free, strict |-> FALSE]

Newest == <<"createdAt", "desc">>

OrderList == List({"createdAt", "updatedAt"}, Newest,
  {"status", "followUpState", "assigneeId", "customerId", "labelId", "reasonId",
   "governorateId", "createdAtFrom", "createdAtTo"}, {"q"})
ActivityList == List({}, Newest, {}, {})
CustomerList == List({"name", "createdAt", "ordersCount", "totalSpent"}, Newest,
  {"active", "governorateId", "hasOrders", "createdAtFrom", "createdAtTo"}, {"q"})
CustomerOrderList == List({}, Newest, {}, {})
ProductList == List({"name", "createdAt"}, Newest, {"active", "categoryId", "hasStock"}, {"q"})
WarehouseList == List({"name", "createdAt"}, Newest, {"active"}, {"q"})
StockList == List({"available", "updatedAt"}, <<"updatedAt", "desc">>,
  {"belowReorder", "warehouseId", "variantId"}, {})
SupplierList == List({"name", "createdAt"}, Newest, {"active"}, {"q"})
PurchaseOrderList == List({"createdAt"}, Newest, {"status", "supplierId", "dateFrom", "dateTo"}, {})
ExpenseList == List({"incurredAt"}, <<"incurredAt", "desc">>,
  {"supplierId", "dateFrom", "dateTo"}, {"category"})
InvoiceList == List({}, Newest, {"orderId", "dateFrom", "dateTo"}, {})
RefundList == List({}, Newest, {"invoiceId", "orderId", "dateFrom", "dateTo"}, {})
ReconciliationList == List({}, Newest, {"periodKey"}, {"carrier"})
NotificationList == List({}, Newest, {"type", "read", "createdAtFrom", "createdAtTo"}, {})
ConnectionList == List({}, Newest, {}, {})
StorefrontEventList == List({}, <<"receivedAt", "desc">>, {"status", "eventType"}, {})
CompanyList == List({}, Newest, {}, {})

\* Master data: one engine, a descriptor per collection.
Resource(checked, free) ==
  [List({"name", "createdAt"}, <<"name", "asc">>, {"active"} \cup checked, {"q"} \cup free)
     EXCEPT !.strict = TRUE]
Resources == { Resource({}, {}), Resource({}, {"countryCode"}), Resource({}, {"parentId"}),
               Resource({"kind"}, {}) }

AllLists == { OrderList, ActivityList, CustomerList, ProductList, WarehouseList, StockList,
  SupplierList, PurchaseOrderList, ExpenseList, InvoiceList, RefundList, ReconciliationList,
  NotificationList, ConnectionList, StorefrontEventList, CustomerOrderList, CompanyList }
  \cup Resources

\* A list with no ?sort= ignores one.
SortOf(list, raw) == IF raw.sort = NoSort \/ list.sorts = {} THEN list.default ELSE raw.sort

\* What is wrong with a request; each filter it carries is well formed or not.
Errors(list, raw) ==
  {f \in DOMAIN raw.filters :
     \/ f \in list.checked /\ raw.filters[f] = "malformed"
     \/ f \notin list.checked \cup list.free /\ list.strict}
  \cup (IF list.sorts # {} /\ raw.sort # NoSort /\ raw.sort[1] \notin list.sorts
          THEN {"sort"} ELSE {})

DefaultLimit == 25
MaxLimit == 100

\* A limit that is missing or not a number (Nat would not hold it), or less
\* than one, is the default one.
ClampLimit(requested) ==
  IF requested < 1 THEN DefaultLimit
  ELSE IF requested > MaxLimit THEN MaxLimit ELSE requested

TimeFields == {"createdAt", "updatedAt", "incurredAt", "receivedAt"}
ToMillis(t) == t - (t % PerMilli)

CursorOf(sort, row) ==
  [p |-> IF sort[1] \in TimeFields THEN ToMillis(row.key) ELSE row.key, t |-> row.id]

Before(sort, m, n) == IF sort[2] = "asc" THEN m < n ELSE m > n

\* Mutant: the tie-breaker is left out.
PastCursor_NoTie(sort, cursor, row) == Before(sort, cursor.p, row.key)

\* The keyset predicate.
PastCursor(sort, cursor, row) ==
  \/ Before(sort, cursor.p, row.key)
  \/ row.key = cursor.p /\ Before(sort, cursor.t, row.id)

\* Sorted by the key, then by the id, both in one direction.
Precedes(sort, a, b) ==
  Before(sort, a.key, b.key) \/ (a.key = b.key /\ Before(sort, a.id, b.id))

\* The first rows past the cursor.  One row more than the limit tells whether
\* there is a next page.
PageOf(rows, sort, cursor, limit) ==
  LET past == {r \in rows : cursor = NoCursor \/ PastCursor(sort, cursor, r)}
      data == {r \in past : Cardinality({q \in past : Precedes(sort, q, r)}) < limit}
      last == CHOOSE r \in data : \A q \in data \ {r} : Precedes(sort, q, r)
  IN [data |-> data, next |-> IF data = past THEN NoCursor ELSE CursorOf(sort, last)]
=============================================================================

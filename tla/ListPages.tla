----------------------------- MODULE ListPages -----------------------------
(***************************************************************************)
(* A client reads a list page by page while other requests insert rows and *)
(* write them.  Any list may be read; rows whose filters do not match are  *)
(* left out.                                                               *)
(***************************************************************************)
EXTENDS Lists

CONSTANTS
  RowIds,    \* bound: ids, numbers drawn in any order
  MaxTime,   \* bound: ticks of the database's clock
  MaxShown,  \* bound: how often a row is shown in one reading
  RawLists,  \* the lists that are read
  RawQueries \* the requests that are made

VARIABLES
  rows,   \* the rows, by id: what they are sorted by, -1 if there is none
  clock,  \* now(), in ticks
  ask,    \* the request that is being read, [list, sort, limit]
  cursor, \* where the next page starts
  shown,  \* how often each row has been shown
  still,  \* history: rows that were there all the time and unchanged
  at      \* "idle", "reading", "refused", "done"

vars == <<rows, clock, ask, cursor, shown, still, at>>

Present == {[id |-> i, key |-> rows[i]] : i \in {j \in RowIds : rows[j] # -1}}

Init ==
  /\ rows = [i \in RowIds |-> -1]
  /\ clock = 0
  /\ \E l \in RawLists, q \in RawQueries :
       ask = [list |-> l, raw |-> q, sort |-> SortOf(l, q), limit |-> ClampLimit(q.limit)]
  /\ cursor = NoCursor /\ shown = [i \in RowIds |-> 0] /\ still = {} /\ at = "idle"

Start ==
  /\ at = "idle"
  /\ at' = IF Errors(ask.list, ask.raw) = {} THEN "reading" ELSE "refused"
  /\ still' = {r.id : r \in Present}
  /\ UNCHANGED <<rows, clock, ask, cursor, shown>>

Fetch ==
  LET page == PageOf(Present, ask.sort, cursor, ask.limit) IN
  /\ at = "reading"
  /\ \A i \in RowIds : shown[i] < MaxShown
  /\ shown' = [i \in RowIds |-> shown[i] + IF \E r \in page.data : r.id = i THEN 1 ELSE 0]
  /\ cursor' = page.next
  /\ at' = IF page.next = NoCursor THEN "done" ELSE "reading"
  /\ UNCHANGED <<rows, clock, ask, still>>

\* The client of this library stamps createdAt and receivedAt in milliseconds;
\* the database's trigger stamps updatedAt with its own now(), one per
\* transaction.  Names, counts and dates of expenses are written as they come.
Stamp(field) ==
  IF field = "updatedAt" THEN {clock}
  ELSE IF field \in {"createdAt", "receivedAt"} THEN {ToMillis(clock)}
  ELSE {ToMillis(t) : t \in 0..MaxTime}

Insert ==
  \E i \in RowIds, k \in Stamp(ask.sort[1]) :
    /\ rows[i] = -1
    /\ rows' = [rows EXCEPT ![i] = k]
    /\ still' = still \ {i}
    /\ UNCHANGED <<clock, ask, cursor, shown, at>>

\* One transaction writes several rows: a transfer, an order of several lines.
Write ==
  \E touched \in SUBSET {r.id : r \in Present} \ {{}}, k \in Stamp(ask.sort[1]) :
    /\ ask.sort[1] \notin {"createdAt", "receivedAt"}
    /\ rows' = [i \in RowIds |-> IF i \in touched THEN k ELSE rows[i]]
    /\ still' = still \ touched
    /\ UNCHANGED <<clock, ask, cursor, shown, at>>

Elapse ==
  /\ clock < MaxTime
  /\ clock' = clock + 1
  /\ UNCHANGED <<rows, ask, cursor, shown, still, at>>

Next == Start \/ Fetch \/ Insert \/ Write \/ Elapse
Spec == Init /\ [][Next]_vars

\* "Offset pagination is never used: it is slow at depth and unstable under
\* concurrent writes" (packages/database/src/keyset.ts:6): a row that is there
\* all the time and is not written is shown exactly once.
PagesShowEachOnce ==
  at = "done" => \A i \in still : shown[i] = 1
=============================================================================

-------------------------------- MODULE Trail --------------------------------
(***************************************************************************)
(* Requests that write: the transaction of the repository, and after it,   *)
(* each on its own, the rows of the audit log and the events.  A request   *)
(* may break off in between, and its client sends it again.                *)
(***************************************************************************)
EXTENDS Operations, FiniteSets

CONSTANTS
  Requests,
  MaxTries,  \* bound: how often a client sends a request
  NoKey, NoJob

ASSUME TrailAssumption == MaxTries \in Nat \ {0}

VARIABLES
  job,      \* what a request is: [op, items (how many), key]
  todo,     \* the steps left to it, each with its item and its number there
  tries,
  answer,   \* "none" while it runs, "ok", "error", or "lost" when the process died
  failed,   \* the items it reports as failed
  writes,   \* the committed writes: [by, try, item, of, key]
  owed,     \* history: <<write, n>>, the n-th step of the item is to follow the write
  log,      \* <<write, n>>: the audit rows and events there are
  doubled,  \* history: those that came twice
  broken    \* history: writes of an item that broke off

trailVars == <<job, todo, tries, answer, failed, writes, owed, log, doubled, broken>>

\* Requests that are still to be sent, or have these steps left after a write.
TrailInit(jobs, left) ==
  LET Stored(r) == [by |-> r, try |-> MaxTries, item |-> 1, of |-> "row", key |-> NoKey]
      Underway == {r \in Requests : left[r] # {}}
  IN
  /\ job = [r \in Requests |-> jobs[r]]
  /\ todo = [r \in Requests |-> left[r]]
  /\ tries = [r \in Requests |-> IF r \in Underway THEN MaxTries ELSE 0]
  /\ answer = [r \in Requests |-> "none"]
  /\ failed = [r \in Requests |-> {}]
  /\ writes = {Stored(r) : r \in Underway}
  /\ owed = UNION {{<<Stored(r), s.n>> : s \in left[r]} : r \in Underway}
  /\ log = {} /\ doubled = {} /\ broken = {}

-----------------------------------------------------------------------------

Running(r) == answer[r] = "none" /\ tries[r] > 0

\* The items of a request, numbered.
NumberedStep(s, i, n) ==
  [does |-> s.does, what |-> s.what, of |-> s.of, undo |-> s.undo, item |-> i, n |-> n]
Numbered(i, item) == {NumberedStep(item[n], i, n) : n \in DOMAIN item}
Program(chosen) == UNION {Numbered(i, chosen[i]) : i \in DOMAIN chosen}

\* Item by item; a bulk stores all of them before it announces any.
Sooner(r, s, t) ==
  LET late(x) == job[r].op.style = "bulk" /\ x.does # "commit"
  IN  IF late(s) # late(t) THEN late(t)
      ELSE s.item < t.item \/ (s.item = t.item /\ s.n < t.n)

\* The next step of a request, if it is of this kind.
Ready(r, does) ==
  {s \in todo[r] : /\ Running(r) /\ s.does = does
                   /\ \A t \in todo[r] \ {s} : Sooner(r, s, t)}

\* A keyed item has the key of its request, or one of its own in a bulk.
WriteOf(r, s) ==
  [by |-> r, try |-> tries[r], item |-> s.item, of |-> s.of,
   key |-> IF job[r].op.keyed /\ job[r].key # NoKey THEN <<job[r].key, s.item>> ELSE NoKey]
Entry(r, s) == <<WriteOf(r, s), s.n>>

SendRequest(r) ==
  /\ job[r] # NoJob /\ tries[r] < MaxTries
  /\ tries[r] = 0 \/ answer[r] \in {"error", "lost"}
  /\ \E chosen \in [1..job[r].items -> job[r].op.items] :
       todo' = [todo EXCEPT ![r] = Program(chosen)]
  /\ tries' = [tries EXCEPT ![r] = @ + 1]
  /\ answer' = [answer EXCEPT ![r] = "none"]
  /\ failed' = [failed EXCEPT ![r] = {}]
  /\ UNCHANGED <<job, writes, owed, log, doubled, broken>>

Without(r, item) == {s \in todo[r] : s.item # item}
GoOn(r, left) == todo' = [todo EXCEPT ![r] = left]
Behind(r) == {w \in writes : w.by = r /\ w.try = tries[r]}

\* What a row leaves half done is undone, and the rest of the rows and of the
\* items of a bulk that are not stored yet goes on.
GoesOn(r, s) == job[r].op.style = "rows" \/ (job[r].op.style = "bulk" /\ s.does = "commit")

\* Mutant: the product stays when its variant fails.
Fail_Orphan(r, s) ==
  /\ IF GoesOn(r, s)
       THEN /\ GoOn(r, Without(r, s.item))
            /\ failed' = [failed EXCEPT ![r] = @ \cup {s.item}]
            /\ UNCHANGED answer
       ELSE /\ GoOn(r, {})
            /\ answer' = [answer EXCEPT ![r] = "error"]
            /\ UNCHANGED failed
  /\ broken' = broken \cup
       {w \in Behind(r) : /\ GoesOn(r, s) => w.item = s.item /\ s.of \in {w.of, "archive"}
                          /\ s.does # "commit" \/ s.of = "archive"}
  /\ UNCHANGED <<job, tries, writes, owed, log, doubled>>

\* An error in the middle; unless the rest goes on, the request is answered
\* with it.
Fail(r, s) ==
  /\ IF GoesOn(r, s)
       THEN /\ GoOn(r, Without(r, s.item) \cup Numbered(s.item, s.undo))
            /\ failed' = [failed EXCEPT ![r] = @ \cup {s.item}]
            /\ UNCHANGED answer
       ELSE /\ GoOn(r, {})
            /\ answer' = [answer EXCEPT ![r] = "error"]
            /\ UNCHANGED failed
  /\ broken' = broken \cup
       {w \in Behind(r) : /\ GoesOn(r, s) => w.item = s.item /\ s.of \in {w.of, "archive"}
                          /\ s.does # "commit" \/ s.of = "archive"}
  /\ UNCHANGED <<job, tries, writes, owed, log, doubled>>

Taken(w) == w.key # NoKey /\ \E v \in writes : v.key = w.key

\* The audit rows and events that are to follow the write of a step.
Follows(r, s) ==
  {<<WriteOf(r, s), u.n>> : u \in {v \in todo[r] :
     v.item = s.item /\ v.of = s.of /\ v.does \in {"audit", "emit"}}}

\* Mutant: a replay is announced like a write.
CommitWrite_AnnounceReplay(r) == \E s \in Ready(r, "commit") :
  /\ GoOn(r, todo[r] \ {s})
  /\ IF Taken(WriteOf(r, s))
       THEN UNCHANGED <<writes, owed>>
       ELSE /\ writes' = writes \cup {WriteOf(r, s)}
            /\ owed' = owed \cup Follows(r, s)
  /\ UNCHANGED <<job, tries, answer, failed, log, doubled, broken>>

\* The transaction of the repository.  "A replay moved nothing, so it is not a
\* change: no audit row, no event."
CommitWrite(r) == \E s \in Ready(r, "commit") :
  /\ IF Taken(WriteOf(r, s))
       THEN GoOn(r, Without(r, s.item)) /\ UNCHANGED <<writes, owed>>
       ELSE /\ GoOn(r, todo[r] \ {s})
            /\ writes' = writes \cup {WriteOf(r, s)}
            /\ owed' = owed \cup Follows(r, s)
  /\ UNCHANGED <<job, tries, answer, failed, log, doubled, broken>>

\* What is not there, not allowed or taken, and a transaction that is lost.
Refuse(r) == \E s \in Ready(r, "commit") : Fail(r, s)

Record(r, s) ==
  LET e == Entry(r, s) IN
  /\ log' = log \cup {e}
  /\ doubled' = doubled \cup ({e} \cap log)
  /\ GoOn(r, todo[r] \ {s})
  /\ UNCHANGED <<job, tries, answer, failed, writes, owed, broken>>

\* "Durable": a row in a transaction of its own, which may fail.
RecordAudit(r) == \E s \in Ready(r, "audit") : Record(r, s)
LoseAudit(r) == \E s \in Ready(r, "audit") : Fail(r, s)

\* Never fails: the errors of the handlers stay in the bus.
PublishEvent(r, s) == s \in Ready(r, "emit") /\ Record(r, s)

\* The cache is invalidated; the carrier answers or does not.
CallOut(r) == \E s \in Ready(r, "forget") \cup Ready(r, "carrier") :
  /\ GoOn(r, todo[r] \ {s})
  /\ UNCHANGED <<job, tries, answer, failed, writes, owed, log, doubled, broken>>
CarrierFails(r) == \E s \in Ready(r, "carrier") : Fail(r, s)

Answer(r) ==
  /\ Running(r) /\ todo[r] = {}
  /\ answer' = [answer EXCEPT ![r] = "ok"]
  /\ UNCHANGED <<job, todo, tries, failed, writes, owed, log, doubled, broken>>

\* The process dies with the request.
Die(r) ==
  /\ Running(r)
  /\ GoOn(r, {})
  /\ answer' = [answer EXCEPT ![r] = "lost"]
  /\ broken' = broken \cup Behind(r)
  /\ UNCHANGED <<job, tries, failed, writes, owed, log, doubled>>

-----------------------------------------------------------------------------
(* Properties.                                                             *)

Pending == UNION {{Entry(r, s) : s \in todo[r]} : r \in Requests}

\* An audit row or an event tells of a write that was stored ("the stock did not
\* move a second time, so neither the audit trail nor subscribers should see it
\* twice"), tells of it once however often the request is sent, and is missing
\* only where an item broke off after its write: a retry never makes up for it.
\* A key is behind one write.
TrailsTellTheWrites ==
  /\ doubled = {}
  /\ \A e \in log : e[1].of = "read" \/ e \in owed
  /\ \A v, w \in writes : v.key = w.key /\ v.key # NoKey => v = w
  /\ \A e \in owed \ log : e \in Pending \/ e[1] \in broken

\* "Don't leave an orphan" (ProductsService.importProducts): of a row or an item
\* that a request reports as failed nothing is left but an archived row, unless
\* it broke off after the write.
FailedItemsLeaveNothing ==
  \A r \in Requests : \A w \in Behind(r) :
    answer[r] = "ok" /\ w.item \in failed[r] /\ w.of = "row" /\ w \notin broken =>
      \E v \in Behind(r) : v.item = w.item /\ v.of = "archive"
==============================================================================

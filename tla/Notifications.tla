--------------------------- MODULE Notifications ---------------------------
(***************************************************************************)
(* In-app notifications and web pushes of one company: the dispatcher that *)
(* the event bus calls, the delivery queue and its workers, and the calls  *)
(* of the users who receive them.                                          *)
(*                                                                         *)
(* An event is one order.status_changed or payment.collected; the id of a  *)
(* notification is its event, a delivery is a pair <<event, subscription>>.*)
(***************************************************************************)
EXTENDS Lists, Trail

CONSTANTS
  Profiles, Workers,
  Events,      \* bound: a subset of Nat, in any order
  SubIds,      \* bound: ids that push subscriptions get
  MaxAttempts, \* MAX_ATTEMPTS of the retry policy
  BatchSize,   \* deliveries claimed per tick
  PageSize,    \* the limit the reader of the inbox asks for
  Scenarios,   \* bound: what is there and what happens, see Init
  NoEvent, Nobody, NoNote, NoDelivery, Unused, Removed

ASSUME NotificationsAssumption ==
  /\ Events \subseteq Nat /\ IsFiniteSet(Events) /\ PageSize \in Nat
  /\ Nobody \notin Profiles
  /\ MaxAttempts \in Nat \ {0} /\ BatchSize \in Nat \ {0}

Channels == {"inApp", "webPush"}
Keys == Events \X SubIds
NoteRows == [to: Profiles, key: Nat, read: BOOLEAN]
Now == PerMilli \* bound: the clock; rows left from before are from 0 or now

\* Events that are published at most once, and tell of nothing that has a
\* notification already.
SoundJobs(s) == \A r \in Requests : s.jobs[r] # NoJob =>
  /\ s.jobs[r].op \in Operations /\ s.jobs[r].items \in Nat
  /\ s.jobs[r].event # NoEvent =>
       /\ s.jobs[r].event \in Events \ DOMAIN s.notes
       /\ s.left[r] # {}
       /\ \A q \in Requests \ {r} : s.jobs[q] # NoJob => s.jobs[q].event # s.jobs[r].event

\* A request whose write is stored and audited has one step left.
SoundLeft(s) == \A r \in Requests : s.left[r] # {} =>
  /\ s.jobs[r] # NoJob /\ s.jobs[r].key = NoKey
  /\ \A t \in s.left[r] :
       /\ t = NumberedStep(Step("emit", t.what), 1, t.n) /\ t.n \in Nat
       /\ s.left[r] = {t}

\* Rows as they were stored: the deliveries of a notification are those to the
\* subscriptions of its recipient.
SoundRows(s) ==
  /\ DOMAIN s.notes \subseteq Events /\ DOMAIN s.subs \subseteq SubIds
  /\ \A e \in DOMAIN s.notes : s.notes[e] \in NoteRows /\ s.notes[e].key % PerMilli = 0
  /\ \A i \in DOMAIN s.subs : s.subs[i] # Unused
  /\ \A k \in s.queued :
       /\ k[1] \in DOMAIN s.notes /\ k[2] \in DOMAIN s.subs
       /\ s.subs[k[2]].profile = s.notes[k[1]].to

\* Whoever registers a browser gets a row.
SoundCalls(s) == \A c \in s.calls :
  c.does = "register" => [endpoint |-> c.on, profile |-> c.who] # Unused

ASSUME ScenarioAssumption ==
  \A s \in Scenarios : SoundJobs(s) /\ SoundLeft(s) /\ SoundRows(s) /\ SoundCalls(s)

ASSUME NothingAssumption ==
  /\ NoNote \notin NoteRows /\ Unused # Removed
  /\ NoDelivery \notin [status: {"pending"}, attempts: {0}, due: {TRUE}, place: Nat]

VARIABLES
  prefs,    \* channels a profile has not switched off
  subs,     \* push subscriptions: [endpoint, profile]
  notes,    \* notifications: [to, key (created at), read]
  delivery, \* rows of the queue: [status, attempts, due, place (created at)]
  placed,   \* how many were queued so far
  handler,  \* the dispatcher, per event
  worker,   \* the retry workers
  calls,    \* requests the users still make
  reader,   \* who reads the inbox page by page
  pushed,   \* history: <<key, profile, n>>, the n-th push that arrived
  moved,    \* history: subscriptions that changed hands
  lost,     \* history: pushes that arrived and were not marked so
  stranded  \* history: claimed deliveries whose worker gave up

rowVars == <<prefs, subs, notes>>
queueVars == <<delivery, placed>>
historyVars == <<pushed, moved, lost, stranded>>
ownVars == <<rowVars, queueVars, handler, worker, calls, reader, historyVars>>
vars == <<ownVars, trailVars>>

Live == {i \in SubIds : subs[i] \notin {Unused, Removed}}

Fresh(n) == [status |-> "pending", attempts |-> 0, due |-> TRUE, place |-> n]

NoneShown == [e \in Events |-> 0]

Idle == [at |-> "idle", claimed |-> {}, batch |-> {}, cur |-> <<>>]

Init == \E s \in Scenarios :
  /\ prefs = [p \in Profiles |-> Channels]
  /\ subs = [i \in SubIds |-> IF i \in DOMAIN s.subs THEN s.subs[i] ELSE Unused]
  /\ notes = [e \in Events |-> IF e \in DOMAIN s.notes THEN s.notes[e] ELSE NoNote]
  /\ delivery = [k \in Keys |-> IF k \in s.queued THEN Fresh(0) ELSE NoDelivery]
  /\ placed = 0
  /\ handler = [e \in Events |-> [at |-> "idle",
                                  to |-> Nobody, asked |-> {}, on |-> {}, left |-> {}]]
  /\ worker = [w \in Workers |-> Idle]
  /\ calls = s.calls
  /\ reader = [at |-> "idle", who |-> Nobody, cursor |-> NoCursor, shown |-> NoneShown, still |-> {}]
  /\ pushed = {} /\ moved = {} /\ lost = {} /\ stranded = {}
  /\ TrailInit(s.jobs, s.left)

-----------------------------------------------------------------------------
(* The requests that publish the events, and wait for the handlers.        *)

IsHandled(r) ==
  LET on == IF job[r] = NoJob THEN {} ELSE {job[r].event} \ {NoEvent}
  IN  \A e \in on : handler[e].at \in {"idle", "done"}

PublishToHandlers(r) == \E s \in todo[r] :
  /\ PublishEvent(r, s)
  /\ IF s.what \in Subscribed /\ job[r].event # NoEvent
       THEN handler' = [handler EXCEPT ![job[r].event].at = "order"]
       ELSE UNCHANGED handler
  /\ UNCHANGED <<rowVars, queueVars, worker, calls, reader, historyVars>>

\* The handler dies with the request that waits for it.
DieWithHandler(r) ==
  /\ Die(r)
  /\ handler' = IF IsHandled(r) THEN handler
                ELSE [handler EXCEPT ![job[r].event].at = "done"]
  /\ UNCHANGED <<rowVars, queueVars, worker, calls, reader, historyVars>>

Request(r) ==
  /\ IsHandled(r)
  /\ \/ SendRequest(r) \/ CommitWrite(r) \/ Refuse(r) \/ RecordAudit(r) \/ LoseAudit(r)
     \/ CallOut(r) \/ CarrierFails(r) \/ Answer(r)
  /\ UNCHANGED ownVars

-----------------------------------------------------------------------------
(* The dispatcher: each step is awaited, and any error ends it.            *)

Handle(e, h) == handler' = [handler EXCEPT ![e] = h]
HandlerEnds(e) == Handle(e, [handler[e] EXCEPT !.at = "done"])
HandlerLeaves == UNCHANGED <<worker, calls, reader, historyVars, trailVars>>

\* The order is read when the event is handled; it may be gone or unassigned.
FindRecipient(e) ==
  /\ handler[e].at = "order"
  /\ \E to \in Profiles \cup {Nobody} :
       Handle(e, [handler[e] EXCEPT !.at = IF to = Nobody THEN "done" ELSE "channels", !.to = to])
  /\ UNCHANGED <<rowVars, queueVars>> /\ HandlerLeaves

\* The two channels are read side by side, each in a transaction of its own.
IsChannelEnabled(e) ==
  /\ handler[e].at = "channels"
  /\ \E c \in Channels \ handler[e].asked :
       Handle(e, [handler[e] EXCEPT !.asked = @ \cup {c},
                                    !.on = @ \cup ({c} \cap prefs[handler[e].to])])
  /\ UNCHANGED <<rowVars, queueVars>> /\ HandlerLeaves

\* The row is created when either channel is on.
CreateNotification(e) ==
  LET h == handler[e] IN
  /\ h.at = "channels" /\ h.asked = Channels
  /\ IF h.on = {}
       THEN HandlerEnds(e) /\ UNCHANGED notes
       ELSE /\ Handle(e, [h EXCEPT !.at = IF "webPush" \in h.on THEN "list" ELSE "done"])
            /\ notes' = [notes EXCEPT ![e] = [to |-> h.to, key |-> Now, read |-> FALSE]]
  /\ UNCHANGED <<prefs, subs, queueVars>> /\ HandlerLeaves

\* Mutant: the subscriptions of the whole company.
ListActiveSubscriptions_All(e) ==
  /\ handler[e].at = "list"
  /\ Handle(e, [handler[e] EXCEPT !.at = "enqueue", !.left = Live])
  /\ UNCHANGED <<rowVars, queueVars>> /\ HandlerLeaves

\* After the audit row and notification.created.
ListActiveSubscriptions(e) ==
  /\ handler[e].at = "list"
  /\ Handle(e, [handler[e] EXCEPT !.at = "enqueue",
                                  !.left = {i \in Live : subs[i].profile = handler[e].to}])
  /\ UNCHANGED <<rowVars, queueVars>> /\ HandlerLeaves

\* One transaction each; a subscription that was removed meanwhile fails the
\* foreign key, and the rest is not queued.
Enqueue(e) ==
  /\ handler[e].at = "enqueue"
  /\ \/ \E i \in handler[e].left \cap Live :
          /\ Handle(e, [handler[e] EXCEPT !.left = @ \ {i}])
          /\ delivery' = [delivery EXCEPT ![<<e, i>>] = Fresh(placed + 1)]
          /\ placed' = placed + 1
     \/ /\ handler[e].left = {} \/ handler[e].left \ Live # {}
        /\ HandlerEnds(e)
        /\ UNCHANGED queueVars
  /\ UNCHANGED rowVars /\ HandlerLeaves

\* A statement fails: the error is swallowed, and the bus keeps nothing.
Swallow(e) ==
  /\ handler[e].at \notin {"idle", "done"}
  /\ HandlerEnds(e)
  /\ UNCHANGED <<rowVars, queueVars>> /\ HandlerLeaves

-----------------------------------------------------------------------------
(* The retry worker: one tick at a time in a process.                      *)

WorkerLeaves == UNCHANGED <<trailVars, handler, calls, reader, prefs, notes, moved>>

\* Mutant: rows that a worker holds, or left in "processing", are due as well.
Due_Stuck(k) ==
  /\ delivery[k] # NoDelivery
  /\ delivery[k].status # "processed"
  /\ delivery[k].due

Due(k) ==
  /\ delivery[k] # NoDelivery
  /\ delivery[k].status \in {"pending", "failed"}
  /\ delivery[k].due

\* The oldest due rows, skipping locked ones, in one statement.
ClaimBatch(w) ==
  LET due == {k \in Keys : Due(k)} IN
  /\ worker[w].at = "idle"
  /\ due # {}
  /\ \E claimed \in SUBSET due :
       /\ \/ claimed = due /\ Cardinality(due) <= BatchSize
          \/ Cardinality(claimed) = BatchSize
       /\ \A k \in claimed, l \in due \ claimed : delivery[k].place <= delivery[l].place
       /\ delivery' = [k \in Keys |-> IF k \in claimed
                                         THEN [delivery[k] EXCEPT !.status = "processing"]
                                       ELSE delivery[k]]
       /\ worker' = [worker EXCEPT ![w] = [Idle EXCEPT !.at = "read", !.claimed = claimed]]
  /\ UNCHANGED <<subs, placed, pushed, lost, stranded>> /\ WorkerLeaves

\* The endpoint is read row by row before anything is sent; a row whose
\* subscription is gone is skipped.
ReadDetails(w) ==
  /\ worker[w].at = "read"
  /\ IF worker[w].claimed = {}
       THEN worker' = [worker EXCEPT ![w].at = "send"]
       ELSE \E k \in worker[w].claimed :
              worker' = [worker EXCEPT ![w].claimed = @ \ {k},
                                       ![w].batch = @ \cup IF k[2] \in Live THEN {k} ELSE {}]
  /\ UNCHANGED <<subs, queueVars, pushed, lost, stranded>> /\ WorkerLeaves

\* A subscription keeps its endpoint; whoever registered it last gets the push.
Holder(i) == IF i \in Live THEN subs[i].profile ELSE Nobody
Pushes(k) == Cardinality({p \in pushed : p[1] = k})

\* The push service takes the push, reports the subscription gone, or fails; the
\* answer to a push it took may be lost, which counts as a failure.
Send(w) ==
  /\ worker[w].at = "send"
  /\ \E k \in worker[w].batch, next \in {"sent", "gone", "failed"}, arrives \in BOOLEAN :
       LET push == {<<k, Holder(k[2]), Pushes(k)>>} IN
       /\ next = "sent" => arrives
       /\ next = "gone" => ~arrives
       /\ worker' = [worker EXCEPT ![w].at = next, ![w].cur = k, ![w].batch = @ \ {k}]
       /\ pushed' = pushed \cup IF arrives THEN push ELSE {}
       /\ lost' = lost \cup IF arrives /\ next = "failed" THEN push ELSE {}
  /\ UNCHANGED <<subs, queueVars, stranded>> /\ WorkerLeaves

\* Updates of a row that is gone touch nothing.
SetRow(k, status, attempts) ==
  LET row == delivery[k]
      marked == [status |-> status, attempts |-> row.attempts + attempts,
                 due |-> FALSE, place |-> row.place]
  IN  delivery' = [delivery EXCEPT ![k] = IF row = NoDelivery THEN row ELSE marked]
NextOf(w, at) == worker' = [worker EXCEPT ![w].at = at, ![w].cur = <<>>]

MarkProcessed(w) ==
  /\ worker[w].at \in {"sent", "cleared"}
  /\ SetRow(worker[w].cur, "processed", 0)
  /\ NextOf(w, "send")
  /\ UNCHANGED <<subs, placed, pushed, lost, stranded>> /\ WorkerLeaves

\* The push is out, but the row could not be marked: it counts as a failure.
\* (Earlier pushes of the row are lost already.)
LoseMark(w) ==
  /\ worker[w].at = "sent"
  /\ worker' = [worker EXCEPT ![w].at = "failed"]
  /\ lost' = lost \cup {p \in pushed : p[1] = worker[w].cur}
  /\ UNCHANGED <<subs, queueVars, pushed, stranded>> /\ WorkerLeaves

\* Removing a subscription cascades to its deliveries.
DropSubscription(i) ==
  /\ subs' = [subs EXCEPT ![i] = Removed]
  /\ delivery' = [k \in Keys |-> IF k[2] = i THEN NoDelivery ELSE delivery[k]]

DeleteSubscriptionById(w) ==
  /\ worker[w].at = "gone"
  /\ DropSubscription(worker[w].cur[2])
  /\ worker' = [worker EXCEPT ![w].at = "cleared"]
  /\ UNCHANGED <<placed, pushed, lost, stranded>> /\ WorkerLeaves

\* Mutant: the attempts are not counted.
MarkFailed_Uncounted(w) ==
  /\ worker[w].at = "failed"
  /\ SetRow(worker[w].cur, "failed", 0)
  /\ NextOf(w, "send")
  /\ UNCHANGED <<subs, placed, pushed, lost, stranded>> /\ WorkerLeaves

\* The next attempt is later, or never.
MarkFailed(w) ==
  /\ worker[w].at = "failed"
  /\ SetRow(worker[w].cur, "failed", 1)
  /\ NextOf(w, "send")
  /\ UNCHANGED <<subs, placed, pushed, lost, stranded>> /\ WorkerLeaves

EndTick(w) ==
  /\ worker[w].at = "send" /\ worker[w].batch = {}
  /\ worker' = [worker EXCEPT ![w] = Idle]
  /\ UNCHANGED <<subs, queueVars, pushed, lost, stranded>> /\ WorkerLeaves

\* A mark of a failure or a delete fails, or the process dies: what the tick
\* still holds stays "processing".
GiveUp(w) ==
  LET cur == IF worker[w].cur = <<>> THEN {} ELSE {worker[w].cur} IN
  /\ worker[w].at # "idle"
  /\ worker' = [worker EXCEPT ![w] = Idle]
  /\ stranded' = stranded \cup worker[w].claimed \cup worker[w].batch \cup cur
  /\ UNCHANGED <<subs, queueVars, pushed, lost>> /\ WorkerLeaves

\* isRetryExhausted parks a row for ever.
FallDue(k) ==
  /\ delivery[k] # NoDelivery
  /\ delivery[k].status = "failed" /\ ~delivery[k].due
  /\ delivery[k].attempts < MaxAttempts
  /\ delivery' = [delivery EXCEPT ![k].due = TRUE]
  /\ UNCHANGED <<rowVars, placed, handler, worker, calls, reader, historyVars, trailVars>>

-----------------------------------------------------------------------------
(* The users.                                                              *)

Ask(call) == call \in calls /\ calls' = calls \ {call}
UserLeaves == UNCHANGED <<trailVars, handler, worker, pushed, lost, stranded>>

\* An endpoint is one browser: registering it again moves it to the caller.
RegisterSubscription(call) ==
  LET known == {i \in Live : subs[i].endpoint = call.on}
      row == [endpoint |-> call.on, profile |-> call.who] IN
  /\ call.does = "register" /\ Ask(call)
  /\ IF known = {}
       THEN /\ \E i \in SubIds : subs[i] = Unused /\ subs' = [subs EXCEPT ![i] = row]
            /\ UNCHANGED moved
       ELSE \E i \in known :
              /\ subs' = [subs EXCEPT ![i] = row]
              /\ moved' = moved \cup IF subs[i] = row THEN {} ELSE {i}
  /\ UNCHANGED <<prefs, notes, queueVars, reader>> /\ UserLeaves

\* One's own only.
RemoveSubscription(call) ==
  /\ call.does = "remove" /\ Ask(call)
  /\ IF call.on \in Live /\ subs[call.on].profile = call.who
       THEN DropSubscription(call.on)
       ELSE UNCHANGED <<subs, delivery>>
  /\ UNCHANGED <<prefs, notes, placed, reader, moved>> /\ UserLeaves

UpdatePreferences(call) ==
  /\ call.does = "preferences" /\ Ask(call)
  /\ prefs' = [prefs EXCEPT ![call.who] = call.on]
  /\ UNCHANGED <<subs, notes, queueVars, reader, moved>> /\ UserLeaves

MarkRead(call) ==
  /\ call.does = "markRead" /\ Ask(call)
  /\ notes' = [e \in Events |-> IF e \in call.on /\ notes[e] # NoNote /\ notes[e].to = call.who
                                  THEN [notes[e] EXCEPT !.read = TRUE] ELSE notes[e]]
  /\ UNCHANGED <<prefs, subs, queueVars, reader, moved>> /\ UserLeaves

\* The inbox of one profile, all of it or the unread part.
Inbox(who, unread) ==
  {[id |-> e, key |-> notes[e].key] :
     e \in {n \in Events : notes[n] # NoNote /\ notes[n].to = who /\ (unread => ~notes[n].read)}}

StartReading(call) ==
  /\ call.does = "list" /\ reader.at = "idle" /\ Ask(call)
  /\ reader' = [at |-> "reading", who |-> call, cursor |-> NoCursor, shown |-> NoneShown,
                still |-> {r.id : r \in Inbox(call.who, call.on)}]
  /\ UNCHANGED <<rowVars, queueVars, moved>> /\ UserLeaves

ReadPage ==
  LET rows == Inbox(reader.who.who, reader.who.on)
      page == PageOf(rows, NotificationList.default, reader.cursor, ClampLimit(PageSize))
  IN
  /\ reader.at = "reading"
  /\ reader' = [reader EXCEPT
       !.shown = [e \in Events |-> @[e] + IF \E r \in page.data : r.id = e THEN 1 ELSE 0],
       !.cursor = page.next,
       !.still = @ \cap {r.id : r \in rows},
       !.at = IF page.next = NoCursor THEN "done" ELSE "reading"]
  /\ UNCHANGED <<rowVars, queueVars, calls, moved>> /\ UserLeaves

-----------------------------------------------------------------------------

Dispatch(e) ==
  \/ FindRecipient(e) \/ IsChannelEnabled(e) \/ CreateNotification(e)
  \/ ListActiveSubscriptions(e) \/ Enqueue(e)

Work(w) ==
  \/ ClaimBatch(w) \/ ReadDetails(w) \/ Send(w) \/ MarkProcessed(w)
  \/ DeleteSubscriptionById(w) \/ MarkFailed(w) \/ EndTick(w)

User(call) ==
  \/ RegisterSubscription(call) \/ RemoveSubscription(call) \/ UpdatePreferences(call)
  \/ MarkRead(call) \/ StartReading(call)

Next ==
  \/ \E r \in Requests : Request(r) \/ (IsHandled(r) /\ PublishToHandlers(r)) \/ DieWithHandler(r)
  \/ \E e \in Events : Dispatch(e) \/ Swallow(e)
  \/ \E w \in Workers : Work(w) \/ LoseMark(w) \/ GiveUp(w)
  \/ \E k \in Keys : FallDue(k)
  \/ \E call \in calls : User(call)
  \/ ReadPage

\* The interval timer ticks for ever, and time passes.
Fairness == (\A w \in Workers : WF_vars(Work(w))) /\ (\A k \in Keys : WF_vars(FallDue(k)))

Spec == Init /\ [][Next]_vars /\ Fairness

-----------------------------------------------------------------------------
(* Properties.                                                             *)

\* A push arrives at the profile its notification is for, "personal data has
\* no cross-user read in this module" (notifications.repository.ts), unless the
\* browser was registered by somebody else meanwhile. And once: a delivery is
\* pushed again only after every earlier push of it broke off between the push
\* service and its row, the answer lost or the row not marked
\* (delivery-processor.service.ts); two workers never push one row.
PushesReachTheRecipientOnce ==
  /\ \A p \in pushed : p[1][2] \in moved \/ p[2] \in {notes[p[1][1]].to, Nobody}
  /\ \A p, q \in pushed : p[1] = q[1] /\ p[3] < q[3] => p \in lost

Settled(k) ==
  \/ delivery[k] = NoDelivery
  \/ delivery[k].status = "processed"
  \/ delivery[k].status = "failed" /\ delivery[k].attempts >= MaxAttempts

\* A queued delivery is sent, parked or cascades away in the end, unless a
\* worker gave up while it held it (DeliveryRetryWorker, delivery-retry-policy).
EveryDeliverySettles == \A k \in Keys : delivery[k] # NoDelivery ~> Settled(k) \/ k \in stranded

\* Whoever reads the inbox page by page sees every row that was there all the
\* time exactly once, rows of one millisecond and new arrivals included.
PagesShowEachOnce ==
  reader.at = "done" =>
    \A e \in reader.still : reader.shown[e] = 1
=============================================================================

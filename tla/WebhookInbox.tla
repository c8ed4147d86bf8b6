---------------------------- MODULE WebhookInbox ---------------------------
(***************************************************************************)
(* The carrier webhook inbox and the retry workers that drain it.          *)
(*                                                                         *)
(* The route stores an event once per (carrier, carrierEventId) and        *)
(* answers.  Every API instance runs a worker: on a tick it claims the     *)
(* oldest due events in one statement, then applies them one after the     *)
(* other: a shipment transition in a transaction of its own, the audit row *)
(* and the domain events after that commit, and last the mark on the       *)
(* inbox row.  Each of these calls can fail, and the process can die       *)
(* between any two of them.                                                *)
(***************************************************************************)
EXTENDS ShipmentStatus, Integers, Sequences, FiniteSets

CONSTANTS
  Shipments,    \* shipments, found by tracking number
  Events,       \* carrier events: [id, shipment, to]
  Unusable,     \* the events whose payload parsePayload rejects
  Instances,    \* API instances, each with one worker
  NoEvent,      \* no event is being processed
  BatchSize,    \* BATCH_SIZE: the events claimed per tick
  MaxAttempts,  \* MAX_ATTEMPTS: an event that failed as often is parked
  Faults,       \* the calls that may fail
  MaxCrashes,   \* bound: process deaths, and failures of markFailed
  UserMoves     \* bound: the statuses users set by hand

FaultPoints == {"transition", "audit", "mark"}

ASSUME InboxAssumption ==
  /\ \A e \in Events : e.shipment \in Shipments /\ e.to \in Statuses
  /\ Unusable \subseteq Events
  /\ NoEvent \notin Events
  /\ BatchSize \in Nat \ {0}
  /\ MaxAttempts \in Nat \ {0}
  /\ Faults \subseteq FaultPoints
  /\ MaxCrashes \in Nat
  /\ UserMoves \subseteq Statuses

VARIABLES
  rows,      \* shipping_webhook_events in created_at order
  state,     \* ... its status column; "absent" before the insert
  attempts,  \* ... its attempts column
  due,       \* ... next_attempt_at against the clock: "now", "later", "never" (NULL)
  status,    \* shipments.status; "none" before the booking is stored
  stage,     \* where the worker of an instance is
  batch,     \* the events it claimed and has not settled
  work,      \* the event it is processing
  moved,     \* history: the events whose transition committed
  recorded,  \* the audit rows written for an event's transition
  abandoned, \* history: the events a worker had claimed when it was lost
  unaudited, \* history: the events whose audit write failed
  crashes    \* bound

eventVars == <<rows, state, attempts, due>>
workerVars == <<stage, batch, work>>
history == <<moved, recorded, abandoned, unaudited, crashes>>
inboxVars == <<rows, state, attempts, due, status, stage, batch, work, moved, recorded,
               abandoned, unaudited, crashes>>

InboxInit ==
  /\ rows = <<>>
  /\ state = [e \in Events |-> "absent"]
  /\ attempts = [e \in Events |-> 0]
  /\ due = [e \in Events |-> "never"]
  /\ status = [s \in Shipments |-> "none"]
  /\ stage = [i \in Instances |-> "idle"]
  /\ batch = [i \in Instances |-> {}]
  /\ work = [i \in Instances |-> NoEvent]
  /\ moved = {}
  /\ recorded = [e \in Events |-> 0]
  /\ abandoned = {}
  /\ unaudited = {}
  /\ crashes = 0

-----------------------------------------------------------------------------
(* The route and the world around the worker.                              *)

\* enqueue; a resent event hits the unique index and changes nothing.
Arrive(e) ==
  /\ state[e] = "absent"
  /\ rows' = Append(rows, e)
  /\ state' = [state EXCEPT ![e] = "pending"]
  /\ due' = [due EXCEPT ![e] = "now"]
  /\ UNCHANGED <<attempts, status, workerVars, history>>

\* A booking's row is stored; the carrier may have called back before that.
StoreBooking(s) ==
  /\ status[s] = "none"
  /\ status' = [status EXCEPT ![s] = "created"]
  /\ UNCHANGED <<eventVars, workerVars, history>>

\* A user sets the status (ShippingService.transition, cancel).
UserMove(s, to) ==
  /\ status[s] \in Statuses
  /\ CanTransition(status[s], to)
  /\ status' = [status EXCEPT ![s] = to]
  /\ UNCHANGED <<eventVars, workerVars, history>>

\* The clock passes an event's next_attempt_at.
BackoffElapses(e) ==
  /\ due[e] = "later"
  /\ due' = [due EXCEPT ![e] = "now"]
  /\ UNCHANGED <<rows, state, attempts, status, workerVars, history>>

-----------------------------------------------------------------------------
(* The worker.                                                             *)

Claimable(e) == state[e] \in {"pending", "failed"} /\ due[e] = "now"

\* The rows of the due events, and the oldest of them, at most BatchSize.
DueRows == {n \in DOMAIN rows : Claimable(rows[n])}
Oldest ==
  {rows[n] : n \in {n \in DueRows : Cardinality({m \in DueRows : m < n}) < BatchSize}}

\* claimBatch: one UPDATE ... FROM (SELECT ... FOR UPDATE SKIP LOCKED).
Claim(i) ==
  /\ stage[i] = "idle"
  /\ Oldest # {}
  /\ batch' = [batch EXCEPT ![i] = Oldest]
  /\ state' = [e \in Events |-> IF e \in Oldest THEN "processing" ELSE state[e]]
  /\ stage' = [stage EXCEPT ![i] = "pick"]
  /\ UNCHANGED <<rows, attempts, due, status, work, history>>

\* The next event, in the order RETURNING happened to deliver them: parse its
\* payload, find its shipment.
Pick(i) ==
  \E e \in batch[i] :
    /\ stage[i] = "pick"
    /\ work' = [work EXCEPT ![i] = e]
    /\ stage' = [stage EXCEPT ![i] =
                   IF e \in Unusable \/ status[e.shipment] = "none" THEN "fail" ELSE "apply"]
    /\ UNCHANGED <<eventVars, status, batch, history>>

BatchDone(i) ==
  /\ stage[i] = "pick"
  /\ batch[i] = {}
  /\ stage' = [stage EXCEPT ![i] = "idle"]
  /\ UNCHANGED <<eventVars, status, batch, work, history>>

\* Mutant: a transition to the state the shipment is already in is applied.
Apply_Again(i) ==
  LET e == work[i]
  IN  /\ stage[i] = "apply"
      /\ CanTransition(status[e.shipment], e.to) \/ status[e.shipment] = e.to
      /\ status' = [status EXCEPT ![e.shipment] = e.to]
      /\ moved' = moved \cup {e}
      /\ stage' = [stage EXCEPT ![i] = "record"]
      /\ UNCHANGED <<eventVars, batch, work, recorded, abandoned, unaudited, crashes>>

\* ShippingRepository.transition: check and update under the shipment's row
\* lock, in one transaction.
Apply(i) ==
  LET e == work[i]
  IN  /\ stage[i] = "apply"
      /\ CanTransition(status[e.shipment], e.to)
      /\ status' = [status EXCEPT ![e.shipment] = e.to]
      /\ moved' = moved \cup {e}
      /\ stage' = [stage EXCEPT ![i] = "record"]
      /\ UNCHANGED <<eventVars, batch, work, recorded, abandoned, unaudited, crashes>>

\* IllegalTransitionError is caught: the event counts as processed.
Swallow(i) ==
  /\ stage[i] = "apply"
  /\ ~CanTransition(status[work[i].shipment], work[i].to)
  /\ stage' = [stage EXCEPT ![i] = "mark"]
  /\ UNCHANGED <<eventVars, status, batch, work, history>>

\* recordTransitionCore: the audit row in a transaction of its own, then the
\* domain events.
Record(i) ==
  /\ stage[i] = "record"
  /\ recorded' = [recorded EXCEPT ![work[i]] = @ + 1]
  /\ stage' = [stage EXCEPT ![i] = "mark"]
  /\ UNCHANGED <<eventVars, status, batch, work, moved, abandoned, unaudited, crashes>>

Settle(i) ==
  /\ batch' = [batch EXCEPT ![i] = @ \ {work[i]}]
  /\ work' = [work EXCEPT ![i] = NoEvent]
  /\ stage' = [stage EXCEPT ![i] = "pick"]

\* Mutant: the processed event is left claimed.
MarkProcessed_Forgotten(i) ==
  /\ stage[i] = "mark"
  /\ Settle(i)
  /\ UNCHANGED <<eventVars, status, history>>

MarkProcessed(i) ==
  /\ stage[i] = "mark"
  /\ state' = [state EXCEPT ![work[i]] = "processed"]
  /\ Settle(i)
  /\ UNCHANGED <<rows, attempts, due, status, history>>

\* One of the calls on the event threw.
CallFails(i) ==
  /\ \/ stage[i] = "apply" /\ "transition" \in Faults
     \/ stage[i] = "record" /\ "audit" \in Faults
     \/ stage[i] = "mark" /\ "mark" \in Faults
  /\ stage' = [stage EXCEPT ![i] = "fail"]
  /\ unaudited' = IF stage[i] = "record" THEN unaudited \cup {work[i]} ELSE unaudited
  /\ UNCHANGED <<eventVars, status, batch, work, moved, recorded, abandoned, crashes>>

RetryExhausted(n) == n >= MaxAttempts

\* markFailed with computeNextAttempt.
MarkFailed(i) ==
  LET e == work[i]
  IN  /\ stage[i] = "fail"
      /\ state' = [state EXCEPT ![e] = "failed"]
      /\ attempts' = [attempts EXCEPT ![e] = @ + 1]
      /\ due' = [due EXCEPT ![e] =
                   IF RetryExhausted(attempts[e] + 1) THEN "never" ELSE "later"]
      /\ Settle(i)
      /\ UNCHANGED <<rows, status, history>>

\* The process dies, or markFailed itself throws out of processBatch: the tick
\* is over and nobody remembers the rest of the batch.
Abandon(i) ==
  /\ stage[i] # "idle"
  /\ crashes < MaxCrashes
  /\ crashes' = crashes + 1
  /\ abandoned' = abandoned \cup batch[i]
  /\ stage' = [stage EXCEPT ![i] = "idle"]
  /\ batch' = [batch EXCEPT ![i] = {}]
  /\ work' = [work EXCEPT ![i] = NoEvent]
  /\ UNCHANGED <<eventVars, status, moved, recorded, unaudited>>

Step(i) ==
  \/ Claim(i) \/ Pick(i) \/ BatchDone(i) \/ Apply(i) \/ Swallow(i) \/ Record(i)
  \/ MarkProcessed(i) \/ MarkFailed(i)

InboxNext ==
  \/ \E e \in Events : Arrive(e) \/ BackoffElapses(e)
  \/ \E s \in Shipments : StoreBooking(s) \/ \E to \in UserMoves : UserMove(s, to)
  \/ \E i \in Instances : Step(i) \/ CallFails(i) \/ Abandon(i)

InboxSpec == InboxInit /\ [][InboxNext]_inboxVars

\* setInterval keeps ticking, a tick awaits its calls, and the clock goes on.
FairInboxSpec ==
  /\ InboxSpec
  /\ \A i \in Instances : WF_inboxVars(Step(i))
  /\ \A e \in Events : WF_inboxVars(BackoffElapses(e))

-----------------------------------------------------------------------------
(* Properties.                                                             *)

Stages == {"idle", "pick", "apply", "record", "mark", "fail"}

InboxTypeOK ==
  /\ rows \in Seq(Events)
  /\ state \in [Events -> {"absent", "pending", "processing", "failed", "processed"}]
  /\ attempts \in [Events -> 0..MaxAttempts]
  /\ due \in [Events -> {"now", "later", "never"}]
  /\ status \in [Shipments -> Statuses \cup {"none"}]
  /\ stage \in [Instances -> Stages]
  /\ batch \in [Instances -> SUBSET Events]
  /\ work \in [Instances -> Events \cup {NoEvent}]
  /\ moved \subseteq Events
  /\ recorded \in [Events -> Nat]
  /\ abandoned \subseteq Events /\ unaudited \subseteq Events
  /\ crashes \in 0..MaxCrashes

\* "Audit + events ride along for free, same as any other transition": retries,
\* resent events and competing workers never record a transition of a shipment
\* twice, and that of a processed event has been recorded, unless the audit
\* write itself failed (the retry then finds nothing left to record).
ProcessedIsRecordedOnce ==
  /\ \A s \in Shipments, to \in Statuses :
       LET audited == {e \in Events : e.shipment = s /\ e.to = to /\ recorded[e] > 0}
       IN  Cardinality(audited) <= 1 /\ \A e \in audited : recorded[e] = 1
  /\ \A e \in moved \ unaudited : state[e] = "processed" => recorded[e] > 0

Settled(e) == state[e] = "processed" \/ (state[e] = "failed" /\ due[e] = "never")

\* "A retry worker drains pending rows": every stored event but those in the
\* batch of a lost worker ends processed or, its budget used up, parked; they
\* wait for nothing the lost worker held.
SettledUnlessAbandoned ==
  \A e \in Events : state[e] = "pending" ~> (Settled(e) \/ e \in abandoned)
=============================================================================

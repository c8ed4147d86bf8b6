-------------------------- MODULE MCNotifications --------------------------
(***************************************************************************)
(* Instances of Notifications for TLC: every operation that writes, with   *)
(* its trail; and a browser that changes hands while its pushes are        *)
(* queued, a channel that is muted, an event beside a push that waits, and *)
(* an inbox that is read while a notification arrives.                     *)
(***************************************************************************)
EXTENDS Notifications, TLC

CONSTANTS ann, bob, r1, r2, k1

Sub(endpoint, profile) == [endpoint |-> endpoint, profile |-> profile]
Note(to, key) == [to |-> to, key |-> key, read |-> FALSE]
Call(does, who, on) == [does |-> does, who |-> who, on |-> on]
NoNotes == [e \in {} |-> NoNote]

\* A request that has audited its write and publishes next.
Publishing(e) == [op |-> TransitionOrder, items |-> 1, key |-> NoKey, event |-> e]
NoneSent == [r \in Requests |-> {}]
Doing(jobs) == [r \in Requests |-> IF r \in DOMAIN jobs THEN jobs[r] ELSE NoJob]

Pushing(subscriptions, rows, waiting, happening, asked) ==
  [queued |-> waiting, subs |-> subscriptions, notes |-> rows, calls |-> asked,
   jobs |-> Doing([r \in DOMAIN happening |-> Publishing(happening[r])]),
   left |-> [r \in Requests |->
     IF r \in DOMAIN happening
       THEN {NumberedStep(Step("emit", "order.status_changed"), 1, 3)} ELSE {}]]

\* One operation, asked for once, or twice at the same time with one key; the
\* requests with several items have two and run alone.
Writing(op) ==
  LET asked == [op |-> op, items |-> IF op.style = "one" THEN 1 ELSE 2,
                key |-> k1, event |-> NoEvent]
  IN  [queued |-> {}, subs |-> [i \in {} |-> Unused], notes |-> NoNotes, calls |-> {},
       left |-> NoneSent,
       jobs |-> Doing((r1 :> asked) @@ IF op.keyed /\ op.style = "one" THEN r2 :> asked ELSE <<>>)]

mcScenarios == {Writing(op) : op \in Operations} \cup {
  Pushing(1 :> Sub("laptop", ann), NoNotes, {}, r1 :> 1,
          {Call("register", bob, "laptop"), Call("remove", ann, 1)}),
  Pushing((1 :> Sub("laptop", ann)) @@ (2 :> Sub("phone", bob)), NoNotes, {}, r1 :> 1,
          {Call("preferences", ann, {"inApp"})}),
  Pushing(1 :> Sub("laptop", ann), 3 :> Note(ann, 0), {<<3, 1>>}, r1 :> 1, {}),
  Pushing([i \in {} |-> Unused], (1 :> Note(ann, Now)) @@ (3 :> Note(ann, Now)), {}, r1 :> 2,
          {Call("list", ann, FALSE), Call("markRead", ann, {1, 3})}),
  Pushing([i \in {} |-> Unused], (2 :> Note(ann, Now)) @@ (3 :> Note(ann, 0)), {}, r1 :> 1,
          {Call("list", ann, TRUE), Call("markRead", ann, {2})}) }
=============================================================================

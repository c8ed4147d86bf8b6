-------------------------- MODULE ShipmentsProofs --------------------------
(***************************************************************************)
(* Proofs about Shipments and about the WebhookInbox that moves them, for  *)
(* every set of orders, calls, keys, events and instances, every choice of *)
(* carriers, and whatever fails.                                           *)
(*                                                                         *)
(* The inductive invariant of the bookings says what the advisory lock is  *)
(* for: a call that has seen no active shipment still holds the lock of    *)
(* its order when it inserts its own, and nothing else makes a shipment    *)
(* active.  That of the inbox, in the second half, says that a claimed     *)
(* event has one worker, and that a shipment never goes back.              *)
(***************************************************************************)
EXTENDS Shipments, WebhookInbox, FiniteSetTheorems, TLAPS

-----------------------------------------------------------------------------
(* The inductive invariant.                                                *)

\* The statements of a transaction that holds the order's advisory lock.
LockedStatements == {"order", "active", "insert", "commit"}

LocksHeld ==
  /\ \A c \in Calls : at[c] \in LockedStatements => lock[OrderOf[c]] = c
  /\ \A o \in Orders, c \in Calls :
       lock[o] = c => at[c] \in LockedStatements /\ OrderOf[c] = o

RowsMatchCalls ==
  /\ \A c \in Calls : c \in inserted <=> at[c] = "commit"
  /\ \A c \in Rows : at[c] = "done"

\* What the second check has seen is still so at the insert and the commit.
InsertsAreClear ==
  \A c \in Calls : at[c] \in {"insert", "commit"} => Active(OrderOf[c]) = {}

OneActive ==
  \A s, t \in Rows :
    /\ OrderOf[s] = OrderOf[t]
    /\ ship[s] \in ActiveStatuses /\ ship[t] \in ActiveStatuses
    => s = t

KeysSpentOnce ==
  \A s, t \in Rows \cup inserted : t \notin SameKey(s)

CancelsAreTold ==
  /\ switches = 0 => connected
  /\ \A s \in Calls : cancelling[s] # "no" => s \in Rows
  /\ switches = 0 =>
       \A s \in Calls :
         cancelling[s] = "told" /\ carrier[s] = "bosta" => parcel[s] = "cancelled"
  /\ CancelledAtTheCarrier

IInv ==
  /\ TypeOK
  /\ LocksHeld
  /\ RowsMatchCalls
  /\ InsertsAreClear
  /\ OneActive
  /\ KeysSpentOnce
  /\ CancelsAreTold

-----------------------------------------------------------------------------
(* Type correctness.                                                       *)

\* A refused or finished call leaves well-typed bookkeeping behind.
LEMMA EndTypes ==
  ASSUME TypeOK, NEW c \in Calls, NEW outcome \in Answers, End(c, outcome)
  PROVE  /\ at' = [at EXCEPT ![c] = "done"]
         /\ lock' \in [Orders -> Calls \cup {NoCall}]
         /\ answer' \in [Calls -> Answers]
         /\ at' \in [Calls -> {"lookup", "lock", "order", "active", "carrier", "insert",
                              "commit", "done"}]
  BY DEF TypeOK, End, Goto, Unlocked

LEMMA TypeStep == TypeOK /\ [Next]_vars => TypeOK'
<1> SUFFICES ASSUME TypeOK, [Next]_vars PROVE TypeOK'
  OBVIOUS
<1> USE DEF TypeOK, worldVars, rowVars, bookingVars
<1>0. {"replayed", "not_shippable", "duplicate", "carrier_error", "error", "created", "lost"}
        \subseteq Answers
  BY DEF Answers
<1>1. ASSUME NEW c \in Calls, Lookup(c) PROVE TypeOK'
  BY <1>0, <1>1, EndTypes DEF Lookup, Goto
<1>2. ASSUME NEW c \in Calls, Lock(c) PROVE TypeOK'
  BY <1>2 DEF Lock, Goto
<1>3. ASSUME NEW c \in Calls, ReadOrder(c) PROVE TypeOK'
  BY <1>0, <1>3, EndTypes DEF ReadOrder, Goto
<1>4. ASSUME NEW c \in Calls, ReadActive(c) PROVE TypeOK'
  BY <1>0, <1>4, EndTypes DEF ReadActive, Goto, Unlocked
<1>5. ASSUME NEW c \in Calls, CallCarrier(c) PROVE TypeOK'
  BY <1>5, ShipmentsAssumption DEF CallCarrier, Goto, Resolve
<1>6. ASSUME NEW c \in Calls, CarrierRefuses(c) PROVE TypeOK'
  BY <1>0, <1>6, EndTypes DEF CarrierRefuses
<1>7. ASSUME NEW c \in Calls, CarrierReplyLost(c) PROVE TypeOK'
  BY <1>0, <1>7, EndTypes DEF CarrierReplyLost
<1>8. ASSUME NEW c \in Calls, Insert(c) PROVE TypeOK'
  BY <1>0, <1>8, EndTypes DEF Insert, Goto
<1>9. ASSUME NEW c \in Calls, Commit(c) PROVE TypeOK'
  BY <1>0, <1>9, EndTypes DEF Commit, Statuses, Transitions
<1>10. ASSUME NEW c \in Calls, Die(c) PROVE TypeOK'
  BY <1>0, <1>10, EndTypes DEF Die
<1>11. ASSUME NEW s \in Calls, NEW to \in Statuses, Move(s, to) PROVE TypeOK'
  BY <1>11 DEF Move
<1>12. ASSUME NEW s \in Calls, BeginCancel(s) PROVE TypeOK'
  BY <1>12 DEF BeginCancel
<1>13. ASSUME NEW s \in Calls, CarrierCancels(s) PROVE TypeOK'
  BY <1>13 DEF CarrierCancels, Cancelled
<1>14. ASSUME NEW s \in Calls, AbortCancel(s) PROVE TypeOK'
  BY <1>14 DEF AbortCancel
<1>15. ASSUME NEW s \in Calls, CommitCancel(s) PROVE TypeOK'
  BY <1>15 DEF CommitCancel, Statuses, Transitions
<1>16. ASSUME NEW o \in Orders, NEW to \in {"shipped", "cancelled"}, OrderMoves(o, to)
       PROVE TypeOK'
  BY <1>16 DEF OrderMoves, Order!Statuses, Order!Transitions
<1>17. CASE Connect
  BY <1>17, ShipmentsAssumption DEF Connect
<1>18. CASE UNCHANGED vars
  BY <1>18 DEF vars
<1> QED
  BY <1>1, <1>2, <1>3, <1>4, <1>5, <1>6, <1>7, <1>8, <1>9, <1>10, <1>11, <1>12, <1>13,
     <1>14, <1>15, <1>16, <1>17, <1>18 DEF Next, Book, Cancel

\* Every column and every piece of a call's progress keeps its type.
THEOREM ShipmentsTypeCorrect == Spec => []TypeOK
<1>1. Init => TypeOK
  BY ShipmentsAssumption DEF Init, TypeOK, Answers
<1> QED BY <1>1, TypeStep, PTL DEF Spec

-----------------------------------------------------------------------------
(* What the steps change.                                                  *)

\* The steps that are none of a booking's statements.
OtherStep ==
  \/ \E s \in Calls : BeginCancel(s) \/ Cancel(s)
  \/ \E s \in Calls, to \in Statuses : Move(s, to)
  \/ \E o \in Orders, to \in {"shipped", "cancelled"} : OrderMoves(o, to)
  \/ Connect

LEMMA NextSplits ==
  ASSUME [Next]_vars
  PROVE  \/ \E c \in Calls : Book(c) \/ Die(c)
         \/ OtherStep
         \/ UNCHANGED vars
  BY DEF Next, OtherStep

\* A statement of one call moves no other call, changes no stored status but
\* inserts at most its own row, and leaves the cancellations alone.
LEMMA BookFrame ==
  ASSUME TypeOK, NEW c \in Calls, Book(c) \/ Die(c)
  PROVE  /\ UNCHANGED <<order, connected, switches, cancelling>>
         /\ \A d \in Calls : d # c => at'[d] = at[d] /\ ship'[d] = ship[d]
                                    /\ carrier'[d] = carrier[d] /\ parcel'[d] = parcel[d]
                                    /\ (d \in inserted' <=> d \in inserted)
         /\ at[c] # "done"
         /\ at[c] # "commit" => ship' = ship
         /\ at[c] \notin {"carrier"} => carrier' = carrier /\ parcel' = parcel
<1> USE DEF worldVars, rowVars, End, Goto, TypeOK
<1>1. CASE Lookup(c) \/ Lock(c) \/ ReadOrder(c) \/ ReadActive(c)
  BY <1>1 DEF Lookup, Lock, ReadOrder, ReadActive
<1>2. CASE CallCarrier(c) \/ CarrierRefuses(c) \/ CarrierReplyLost(c)
  BY <1>2 DEF CallCarrier, CarrierRefuses, CarrierReplyLost
<1>3. CASE Insert(c) \/ Commit(c) \/ Die(c)
  BY <1>3 DEF Insert, Commit, Die
<1> QED BY <1>1, <1>2, <1>3 DEF Book

\* The other steps change no call's progress, create no row and make no
\* shipment active that was not.
LEMMA OtherFrame ==
  ASSUME TypeOK, CancelsAreTold, OtherStep
  PROVE  /\ UNCHANGED <<phase, at, lock, inserted, answer>>
         /\ Rows' = Rows
         /\ \A s \in Calls : ship'[s] \in ActiveStatuses => ship[s] \in ActiveStatuses
<1> USE DEF worldVars, rowVars, bookingVars, TypeOK, Rows
<1>1. ASSUME NEW s \in Calls, NEW to \in Statuses, Move(s, to)
      PROVE  /\ UNCHANGED <<phase, at, lock, inserted, answer>>
             /\ Rows' = Rows
             /\ \A d \in Calls : ship'[d] \in ActiveStatuses => ship[d] \in ActiveStatuses
  BY <1>1 DEF Move, CanTransition, Statuses, Transitions, ActiveStatuses
<1>2. ASSUME NEW s \in Calls, BeginCancel(s) \/ CarrierCancels(s) \/ AbortCancel(s)
      PROVE  UNCHANGED <<phase, at, lock, inserted, answer, ship>>
  BY <1>2 DEF BeginCancel, CarrierCancels, AbortCancel
<1>3. ASSUME NEW s \in Calls, CommitCancel(s)
      PROVE  /\ UNCHANGED <<phase, at, lock, inserted, answer>>
             /\ Rows' = Rows
             /\ \A d \in Calls : ship'[d] \in ActiveStatuses => ship[d] \in ActiveStatuses
  BY <1>3 DEF CommitCancel, ActiveStatuses, CancelsAreTold
<1>4. ASSUME \/ \E o \in Orders, to \in {"shipped", "cancelled"} : OrderMoves(o, to)
             \/ Connect
      PROVE  UNCHANGED <<phase, at, lock, inserted, answer, ship>>
  BY <1>4 DEF OrderMoves, Connect
<1> QED BY <1>1, <1>2, <1>3, <1>4 DEF OtherStep, Cancel

-----------------------------------------------------------------------------
(* The invariant is inductive: one lemma per part.                         *)

\* The lock is held from the order's read to the end of the transaction.
LEMMA LocksStep == TypeOK /\ LocksHeld /\ CancelsAreTold /\ [Next]_vars => LocksHeld'
<1> SUFFICES ASSUME TypeOK, LocksHeld, CancelsAreTold, [Next]_vars PROVE LocksHeld'
  OBVIOUS
<1> USE DEF LocksHeld, LockedStatements
<1>0. NoCall \notin Calls /\ \A c \in Calls : OrderOf[c] \in Orders
  BY ShipmentsAssumption
<1>1. ASSUME NEW c \in Calls, NEW outcome, End(c, outcome) PROVE LocksHeld'
  BY <1>0, <1>1 DEF End, Goto, Unlocked, TypeOK
<1>2. ASSUME NEW c \in Calls, Lookup(c) PROVE LocksHeld'
  BY <1>1, <1>2 DEF Lookup, Goto, TypeOK
<1>3. ASSUME NEW c \in Calls, Lock(c) PROVE LocksHeld'
  BY <1>0, <1>3 DEF Lock, Goto, TypeOK
<1>4. ASSUME NEW c \in Calls, ReadOrder(c) PROVE LocksHeld'
  BY <1>1, <1>4 DEF ReadOrder, Goto, TypeOK
<1>5. ASSUME NEW c \in Calls, ReadActive(c) PROVE LocksHeld'
  BY <1>0, <1>1, <1>5 DEF ReadActive, Goto, Unlocked, TypeOK
<1>6. ASSUME NEW c \in Calls, CallCarrier(c) PROVE LocksHeld'
  BY <1>6 DEF CallCarrier, Goto, TypeOK
<1>7. ASSUME NEW c \in Calls, CarrierRefuses(c) \/ CarrierReplyLost(c) PROVE LocksHeld'
  BY <1>1, <1>7 DEF CarrierRefuses, CarrierReplyLost
<1>8. ASSUME NEW c \in Calls, Insert(c) PROVE LocksHeld'
  BY <1>1, <1>8 DEF Insert, Goto, TypeOK
<1>9. ASSUME NEW c \in Calls, Commit(c) \/ Die(c) PROVE LocksHeld'
  BY <1>1, <1>9 DEF Commit, Die
<1>10. ASSUME OtherStep PROVE LocksHeld'
  BY <1>10, OtherFrame
<1>11. CASE UNCHANGED vars
  BY <1>11 DEF vars, bookingVars
<1> QED
  BY <1>2, <1>3, <1>4, <1>5, <1>6, <1>7, <1>8, <1>9, <1>10, <1>11, NextSplits DEF Book

\* A row is inserted exactly between its INSERT and the end of its transaction,
\* and a call whose row is committed has nothing left to do.
LEMMA RowsStep == TypeOK /\ RowsMatchCalls /\ CancelsAreTold /\ [Next]_vars => RowsMatchCalls'
<1> SUFFICES ASSUME TypeOK, RowsMatchCalls, CancelsAreTold, [Next]_vars PROVE RowsMatchCalls'
  OBVIOUS
<1> USE DEF RowsMatchCalls, Rows
<1>1. ASSUME NEW c \in Calls, Book(c) \/ Die(c) PROVE RowsMatchCalls'
  <2>1. c \in inserted' <=> at'[c] = "commit"
    <3> USE DEF End, Goto, TypeOK
    <3>1. CASE Lookup(c) \/ Lock(c) \/ ReadOrder(c) \/ ReadActive(c)
      BY <3>1 DEF Lookup, Lock, ReadOrder, ReadActive
    <3>2. CASE CallCarrier(c) \/ CarrierRefuses(c) \/ CarrierReplyLost(c)
      BY <3>2 DEF CallCarrier, CarrierRefuses, CarrierReplyLost
    <3>3. CASE Insert(c) \/ Commit(c) \/ Die(c)
      BY <3>3 DEF Insert, Commit, Die
    <3> QED BY <1>1, <3>1, <3>2, <3>3 DEF Book
  <2>2. ship'[c] # "none" => at'[c] = "done"
    <3>1. CASE ship' = ship
      BY <1>1, <3>1, BookFrame
    <3>2. CASE ship' # ship
      <4>1. Commit(c) \/ Die(c)
        BY <1>1, <3>2, BookFrame DEF Book, Lookup, Lock, ReadOrder, ReadActive, CallCarrier,
           CarrierRefuses, CarrierReplyLost, Insert, rowVars
      <4> QED BY <4>1 DEF Commit, Die, End, Goto, TypeOK
    <3> QED BY <3>1, <3>2
  <2> QED BY <1>1, <2>1, <2>2, BookFrame
<1>2. ASSUME OtherStep PROVE RowsMatchCalls'
  BY <1>2, OtherFrame
<1>3. CASE UNCHANGED vars
  BY <1>3 DEF vars, bookingVars, rowVars
<1> QED BY <1>1, <1>2, <1>3, NextSplits

\* Nothing but a commit creates an active shipment, and a commit happens under
\* the lock of the order.
LEMMA ActiveStep ==
  ASSUME TypeOK, RowsMatchCalls, CancelsAreTold, [Next]_vars, NEW o \in Orders
  PROVE  \/ Active(o)' \subseteq Active(o)
         \/ \E c \in Calls : /\ at[c] = "commit" /\ OrderOf[c] = o
                             /\ at' = [at EXCEPT ![c] = "done"]
                             /\ Active(o)' \subseteq Active(o) \cup {c}
<1> USE DEF Active, Rows
<1>1. ASSUME NEW c \in Calls, Book(c) \/ Die(c), at[c] # "commit" \/ Die(c)
      PROVE  Active(o)' \subseteq Active(o)
  <2>1. ship' = ship
    BY <1>1, BookFrame DEF Die, rowVars
  <2> QED BY <2>1
<1>2. ASSUME NEW c \in Calls, Commit(c)
      PROVE  /\ at[c] = "commit" /\ at' = [at EXCEPT ![c] = "done"]
             /\ Active(o)' \subseteq Active(o) \cup {c}
             /\ OrderOf[c] # o => Active(o)' \subseteq Active(o)
  BY <1>2 DEF Commit, End, Goto, TypeOK
<1>3. ASSUME OtherStep PROVE Active(o)' \subseteq Active(o)
  BY <1>3, OtherFrame
<1>4. CASE UNCHANGED vars
  BY <1>4 DEF vars, rowVars
<1>5. ASSUME NEW c \in Calls, Book(c), at[c] = "commit" PROVE Commit(c)
  BY <1>5 DEF Book, Lookup, Lock, ReadOrder, ReadActive, CallCarrier, CarrierRefuses,
     CarrierReplyLost, Insert
<1> QED BY <1>1, <1>2, <1>3, <1>4, <1>5, NextSplits

\* Between the second check and the commit the order gets no active shipment:
\* whoever inserts one holds the same lock.
LEMMA ClearStep ==
  TypeOK /\ LocksHeld /\ RowsMatchCalls /\ CancelsAreTold /\ InsertsAreClear /\ [Next]_vars
    => InsertsAreClear'
<1> SUFFICES ASSUME TypeOK, LocksHeld, RowsMatchCalls, CancelsAreTold, InsertsAreClear,
                    [Next]_vars, NEW c \in Calls, at'[c] \in {"insert", "commit"}
             PROVE  Active(OrderOf[c])' = {}
  BY DEF InsertsAreClear
<1>0. OrderOf[c] \in Orders
  BY ShipmentsAssumption
<1>1. CASE at[c] \in {"insert", "commit"}
  <2>1. Active(OrderOf[c]) = {} /\ lock[OrderOf[c]] = c
    BY <1>1 DEF InsertsAreClear, LocksHeld, LockedStatements
  <2>2. ASSUME NEW d \in Calls, at[d] = "commit", OrderOf[d] = OrderOf[c],
               at' = [at EXCEPT ![d] = "done"]
        PROVE  FALSE
    <3>1. lock[OrderOf[c]] = d
      BY <2>2 DEF LocksHeld, LockedStatements
    <3>2. at'[c] = "done"
      BY <2>1, <2>2, <3>1 DEF TypeOK
    <3> QED BY <3>2
  <2> QED BY <1>0, <2>1, <2>2, ActiveStep
<1>2. CASE at[c] \notin {"insert", "commit"}
  <2>1. ReadActive(c)
    <3>1. at'[c] # at[c]
      BY <1>2
    <3>2. ~OtherStep /\ ~UNCHANGED vars
      BY <3>1, OtherFrame DEF vars, bookingVars
    <3>3. Book(c) \/ Die(c)
      BY <3>1, <3>2, NextSplits, BookFrame
    <3> QED BY <1>2, <3>3 DEF Book, Lookup, Lock, ReadOrder, CallCarrier, CarrierRefuses,
           CarrierReplyLost, Insert, Commit, Die, End, Goto, TypeOK
  <2>2. Active(OrderOf[c]) = {} /\ ship' = ship
    BY <2>1 DEF ReadActive, End, Goto, rowVars, TypeOK
  <2> QED BY <2>2 DEF Active, Rows
<1> QED BY <1>1, <1>2

\* An order has at most one active shipment.
LEMMA OneActiveStep ==
  TypeOK /\ RowsMatchCalls /\ InsertsAreClear /\ CancelsAreTold /\ OneActive /\ [Next]_vars
    => OneActive'
<1> SUFFICES ASSUME TypeOK, RowsMatchCalls, InsertsAreClear, CancelsAreTold, OneActive,
                    [Next]_vars, NEW o \in Orders, NEW s \in Active(o)', NEW t \in Active(o)'
             PROVE  s = t
  <2>1. \A s \in Rows' : OrderOf[s] \in Orders
    BY ShipmentsAssumption DEF Rows
  <2> QED BY <2>1 DEF OneActive, Active, Rows
<1>1. CASE Active(o)' \subseteq Active(o)
  BY <1>1 DEF OneActive, Active
<1>2. ASSUME NEW c \in Calls, at[c] = "commit", OrderOf[c] = o, Active(o)' \subseteq Active(o) \cup {c}
      PROVE  s = t
  <2>1. Active(o) = {}
    BY <1>2 DEF InsertsAreClear
  <2> QED BY <1>2, <2>1
<1> QED BY <1>1, <1>2, ActiveStep

\* A row takes its key at its INSERT, when no other row has it.
LEMMA KeysStep ==
  TypeOK /\ RowsMatchCalls /\ CancelsAreTold /\ KeysSpentOnce /\ [Next]_vars => KeysSpentOnce'
<1> SUFFICES ASSUME TypeOK, RowsMatchCalls, CancelsAreTold, KeysSpentOnce, [Next]_vars
             PROVE  KeysSpentOnce'
  OBVIOUS
<1> DEFINE Spent == Rows \cup inserted
<1>1. \A s, t \in Calls : s \notin SameKey(s) /\ (t \in SameKey(s) => s \in SameKey(t))
  BY DEF SameKey
<1>2. Spent \subseteq Calls /\ Spent' \subseteq Calls
  BY TypeStep DEF Rows, TypeOK
<1>3. ASSUME NEW c \in Calls, Insert(c)
      PROVE  \/ Spent' \subseteq Spent
             \/ Spent' \subseteq Spent \cup {c} /\ SameKey(c) \cap Spent = {}
  BY <1>3 DEF Insert, rowVars, Rows
<1>4. ASSUME NEW c \in Calls, Book(c) \/ Die(c), ~Insert(c) PROVE Spent' \subseteq Spent
  <2>1. CASE Commit(c)
    BY <2>1 DEF Commit, Rows, TypeOK, RowsMatchCalls
  <2>2. CASE ~Commit(c)
    <3>1. ship' = ship /\ inserted' \subseteq inserted
      BY <1>4, <2>2 DEF Book, Die, Lookup, Lock, ReadOrder, ReadActive, CallCarrier,
         CarrierRefuses, CarrierReplyLost, rowVars
    <3> QED BY <3>1 DEF Rows
  <2> QED BY <2>1, <2>2
<1>5. ASSUME OtherStep PROVE Spent' \subseteq Spent
  BY <1>5, OtherFrame
<1>6. CASE UNCHANGED vars
  BY <1>6 DEF vars, bookingVars, rowVars, Rows, KeysSpentOnce, SameKey
<1>7. \A s : SameKey(s)' = SameKey(s)
  BY DEF SameKey
<1>8. CASE Spent' \subseteq Spent
  BY <1>7, <1>8 DEF KeysSpentOnce
<1>9. ASSUME NEW c \in Calls, Spent' \subseteq Spent \cup {c}, SameKey(c) \cap Spent = {}
      PROVE  KeysSpentOnce'
  BY <1>1, <1>2, <1>7, <1>9 DEF KeysSpentOnce
<1> QED BY <1>3, <1>4, <1>5, <1>6, <1>8, <1>9, NextSplits

\* A shipment is cancelled here after its carrier was told, and a row's carrier
\* and parcel change only while its cancellation talks to the carrier.
LEMMA CancelStep == TypeOK /\ RowsMatchCalls /\ CancelsAreTold /\ [Next]_vars => CancelsAreTold'
<1> SUFFICES ASSUME TypeOK, RowsMatchCalls, CancelsAreTold, [Next]_vars PROVE CancelsAreTold'
  OBVIOUS
<1> USE DEF CancelsAreTold, CancelledAtTheCarrier
<1>1. ASSUME NEW c \in Calls, Book(c) \/ Die(c) PROVE CancelsAreTold'
  <2>1. c \notin Rows /\ cancelling[c] = "no"
    BY <1>1, BookFrame DEF RowsMatchCalls, TypeOK
  <2>2. ship'[c] # "cancelled"
    BY <1>1, <2>1 DEF Book, Die, Lookup, Lock, ReadOrder, ReadActive, CallCarrier, CarrierRefuses,
       CarrierReplyLost, Insert, Commit, rowVars, Rows, TypeOK
  <2> QED BY <1>1, <2>1, <2>2, BookFrame DEF Rows
<1>2. ASSUME NEW s \in Calls, NEW to \in Statuses, Move(s, to) PROVE CancelsAreTold'
  BY <1>2 DEF Move, Rows, RowLocked, worldVars, TypeOK, Statuses
<1>3. ASSUME NEW s \in Calls, BeginCancel(s) PROVE CancelsAreTold'
  BY <1>3 DEF BeginCancel, Rows, worldVars, rowVars, TypeOK
<1>4. ASSUME NEW s \in Calls, CarrierCancels(s) PROVE CancelsAreTold'
  BY <1>4 DEF CarrierCancels, Cancelled, Resolve, Rows, worldVars, rowVars, TypeOK
<1>5. ASSUME NEW s \in Calls, AbortCancel(s) PROVE CancelsAreTold'
  BY <1>5 DEF AbortCancel, Rows, worldVars, rowVars, TypeOK
<1>6. ASSUME NEW s \in Calls, CommitCancel(s) PROVE CancelsAreTold'
  BY <1>6 DEF CommitCancel, Rows, worldVars, TypeOK
<1>7. ASSUME NEW o \in Orders, NEW to \in {"shipped", "cancelled"}, OrderMoves(o, to)
      PROVE CancelsAreTold'
  BY <1>7 DEF OrderMoves, Rows, rowVars
<1>8. CASE Connect
  BY <1>8 DEF Connect, Rows, rowVars, TypeOK
<1>9. CASE UNCHANGED vars
  BY <1>9 DEF vars, worldVars, rowVars, Rows
<1> QED BY <1>1, <1>2, <1>3, <1>4, <1>5, <1>6, <1>7, <1>8, <1>9, NextSplits DEF OtherStep, Cancel

-----------------------------------------------------------------------------
(* The theorems.                                                           *)

\* The inductive invariant holds throughout: the advisory lock covers every call
\* between its second check and its commit.
THEOREM ShipmentsInvariant == Spec => []IInv
<1>1. Init => IInv
  <2> SUFFICES ASSUME Init PROVE IInv
    OBVIOUS
  <2>1. TypeOK
    BY ShipmentsAssumption DEF Init, TypeOK, Answers
  <2>2. Rows = {} /\ inserted = {}
    BY DEF Init, Rows
  <2> QED BY <2>1, <2>2, ShipmentsAssumption
      DEF Init, IInv, LocksHeld, LockedStatements, RowsMatchCalls, InsertsAreClear,
          OneActive, KeysSpentOnce, CancelsAreTold, CancelledAtTheCarrier
<1>2. IInv /\ [Next]_vars => IInv'
  BY TypeStep, LocksStep, RowsStep, ClearStep, OneActiveStep, KeysStep, CancelStep DEF IInv
<1> QED BY <1>1, <1>2, PTL DEF Spec

\* However the calls interleave and fail, an order has at most one active
\* shipment, and one Idempotency-Key books at most one.
THEOREM AnOrderIsBookedOnce == Spec => []BookedOnce
<1>1. IInv => BookedOnce
  <2> SUFFICES ASSUME IInv PROVE BookedOnce
    OBVIOUS
  <2>1. ASSUME NEW o \in Orders PROVE Cardinality(Active(o)) <= 1
    <3>1. \A s, t \in Active(o) : s = t
      BY DEF IInv, OneActive, Active
    <3>2. CASE Active(o) = {}
      BY <3>2, FS_EmptySet
    <3>3. ASSUME NEW s \in Active(o) PROVE Cardinality(Active(o)) <= 1
      <4>1. Active(o) = {s}
        BY <3>1
      <4>2. Cardinality({s}) = 1
        BY FS_Singleton
      <4> QED BY <4>1, <4>2
    <3> QED BY <3>2, <3>3
  <2>2. \A s, t \in Rows : t \in SameKey(s) => s = t
    BY DEF IInv, KeysSpentOnce
  <2> QED BY <2>1, <2>2 DEF BookedOnce
<1> QED BY <1>1, ShipmentsInvariant, PTL

\* As long as nobody switches the Bosta connection, every Bosta shipment that is
\* cancelled here is cancelled at the carrier, whatever reply or process is lost.
THEOREM CancellationsReachTheCarrier == Spec => []CancelledAtTheCarrier
<1>1. IInv => CancelledAtTheCarrier
  BY DEF IInv, CancelsAreTold
<1> QED BY <1>1, ShipmentsInvariant, PTL

-----------------------------------------------------------------------------
(* The inductive invariant of the inbox.                                   *)

\* How far along its life a shipment is: every transition moves it forward.
Rank(s) ==
  IF s = "none" THEN 0 ELSE
  IF s = "created" THEN 1 ELSE
  IF s = "picked_up" THEN 2 ELSE
  IF s = "in_transit" THEN 3 ELSE 4

\* An event has a retry left as long as it may be tried again.
BudgetLeft ==
  \A e \in Events :
    due[e] # "never" \/ state[e] \in {"absent", "processing"} => attempts[e] < MaxAttempts

\* A claimed event is processing, and claimed by one worker.
ClaimsAreExclusive ==
  /\ \A i \in Instances : \A e \in batch[i] : state[e] = "processing"
  /\ \A i, j \in Instances : i # j => batch[i] \cap batch[j] = {}
  /\ \A i \in Instances :
       stage[i] \in {"apply", "record", "mark", "fail"} => work[i] \in batch[i]
  /\ \A i \in Instances :
       stage[i] = "apply" => status[work[i].shipment] \in Statuses

\* A shipment does not go back: past a transition, the state that it led to is
\* out of reach, of the same event and of any other.
MovesAreSpent ==
  /\ \A e \in moved : Rank(e.to) <= Rank(status[e.shipment])
  /\ \A e, f \in moved : e.shipment = f.shipment /\ e.to = f.to => e = f

\* The audit row follows the transition, once.
RecordsFollowMoves ==
  /\ \A e \in Events : recorded[e] \in {0, 1} /\ (recorded[e] = 1 => e \in moved)
  /\ \A i \in Instances :
       stage[i] = "record" => work[i] \in moved /\ recorded[work[i]] = 0

\* A transition without its audit row is still with the worker that is about
\* to write it, or was lost with it.
MissingRecordsAreHeld ==
  \A e \in moved \ unaudited :
    recorded[e] = 0 =>
      /\ state[e] = "processing"
      /\ \A i \in Instances : e \in batch[i] => work[i] = e /\ stage[i] = "record"

InboxIInv ==
  /\ InboxTypeOK
  /\ BudgetLeft
  /\ ClaimsAreExclusive
  /\ MovesAreSpent
  /\ RecordsFollowMoves
  /\ MissingRecordsAreHeld

-----------------------------------------------------------------------------
(* Type correctness of the inbox, with the retry budget.                   *)

\* Only due events are claimed.
LEMMA OldestAreClaimable ==
  ASSUME InboxTypeOK
  PROVE  Oldest \subseteq Events /\ \A e \in Oldest : Claimable(e)
<1>1. \A n \in DOMAIN rows : rows[n] \in Events
  BY DEF InboxTypeOK
<1> QED BY <1>1 DEF Oldest, DueRows

\* The event of a call is one of its worker's batch.
LEMMA WorkIsHeld ==
  ASSUME InboxTypeOK, ClaimsAreExclusive, NEW i \in Instances,
         stage[i] \in {"apply", "record", "mark", "fail"}
  PROVE  /\ work[i] \in Events /\ work[i] \in batch[i]
         /\ state[work[i]] = "processing"
         /\ work[i].shipment \in Shipments /\ work[i].to \in Statuses
BY InboxAssumption DEF InboxTypeOK, ClaimsAreExclusive

\* A transition leads to a status.
LEMMA TransitionsLeadToStatuses ==
  ASSUME NEW from \in Statuses, NEW to, CanTransition(from, to)
  PROVE  to \in Statuses /\ Rank(from) < Rank(to)
BY DEF Statuses, Transitions, CanTransition, Rank

LEMMA InboxTypeStep ==
  InboxTypeOK /\ BudgetLeft /\ ClaimsAreExclusive /\ [InboxNext]_inboxVars
    => InboxTypeOK' /\ BudgetLeft'
<1> SUFFICES ASSUME InboxTypeOK, BudgetLeft, ClaimsAreExclusive, [InboxNext]_inboxVars
             PROVE  InboxTypeOK' /\ BudgetLeft'
  OBVIOUS
<1> USE InboxAssumption DEF InboxTypeOK, BudgetLeft, eventVars, workerVars, history, Stages
<1>1. ASSUME NEW e \in Events, Arrive(e) PROVE InboxTypeOK' /\ BudgetLeft'
  BY <1>1 DEF Arrive
<1>2. ASSUME NEW e \in Events, BackoffElapses(e) PROVE InboxTypeOK' /\ BudgetLeft'
  BY <1>2 DEF BackoffElapses
<1>3. ASSUME NEW s \in Shipments, StoreBooking(s) PROVE InboxTypeOK' /\ BudgetLeft'
  BY <1>3 DEF StoreBooking, Statuses, Transitions
<1>4. ASSUME NEW s \in Shipments, NEW to \in UserMoves, UserMove(s, to)
      PROVE  InboxTypeOK' /\ BudgetLeft'
  BY <1>4 DEF UserMove
<1>5. ASSUME NEW i \in Instances, Claim(i) PROVE InboxTypeOK' /\ BudgetLeft'
  BY <1>5, OldestAreClaimable DEF Claim, Claimable
<1>6. ASSUME NEW i \in Instances, Pick(i) PROVE InboxTypeOK' /\ BudgetLeft'
  BY <1>6 DEF Pick
<1>7. ASSUME NEW i \in Instances, BatchDone(i) \/ Swallow(i) \/ CallFails(i)
      PROVE  InboxTypeOK' /\ BudgetLeft'
  <2>1. CASE BatchDone(i) \/ Swallow(i)
    BY <2>1 DEF BatchDone, Swallow
  <2>2. CASE CallFails(i)
    <3>1. unaudited' \subseteq unaudited \cup {work[i]} /\ work[i] \in Events
      BY <2>2, WorkIsHeld DEF CallFails
    <3> QED BY <2>2, <3>1 DEF CallFails
  <2> QED BY <1>7, <2>1, <2>2
<1>8. ASSUME NEW i \in Instances, Apply(i) PROVE InboxTypeOK' /\ BudgetLeft'
  BY <1>8, WorkIsHeld DEF Apply
<1>9. ASSUME NEW i \in Instances, Record(i) PROVE InboxTypeOK' /\ BudgetLeft'
  BY <1>9, WorkIsHeld DEF Record
<1>10. ASSUME NEW i \in Instances, MarkProcessed(i) PROVE InboxTypeOK' /\ BudgetLeft'
  BY <1>10, WorkIsHeld DEF MarkProcessed, Settle
<1>11. ASSUME NEW i \in Instances, MarkFailed(i) PROVE InboxTypeOK' /\ BudgetLeft'
  BY <1>11, WorkIsHeld DEF MarkFailed, Settle, RetryExhausted
<1>12. ASSUME NEW i \in Instances, Abandon(i) PROVE InboxTypeOK' /\ BudgetLeft'
  BY <1>12 DEF Abandon
<1>13. CASE UNCHANGED inboxVars
  BY <1>13 DEF inboxVars
<1> QED BY <1>1, <1>2, <1>3, <1>4, <1>5, <1>6, <1>7, <1>8, <1>9, <1>10, <1>11, <1>12, <1>13
        DEF InboxNext, Step

-----------------------------------------------------------------------------
(* The other parts, one lemma each.                                        *)

\* A claim takes events that nobody holds, and a worker settles only its own.
LEMMA ClaimsStep ==
  InboxTypeOK /\ ClaimsAreExclusive /\ [InboxNext]_inboxVars => ClaimsAreExclusive'
<1> SUFFICES ASSUME InboxTypeOK, ClaimsAreExclusive, [InboxNext]_inboxVars
             PROVE  ClaimsAreExclusive'
  OBVIOUS
<1> USE InboxAssumption DEF ClaimsAreExclusive, InboxTypeOK, eventVars, workerVars, history
<1>1. ASSUME NEW e \in Events, Arrive(e) \/ BackoffElapses(e) PROVE ClaimsAreExclusive'
  BY <1>1 DEF Arrive, BackoffElapses
<1>2. ASSUME NEW s \in Shipments, StoreBooking(s) PROVE ClaimsAreExclusive'
  BY <1>2 DEF StoreBooking, Statuses, Transitions
<1>3. ASSUME NEW s \in Shipments, NEW to \in UserMoves, UserMove(s, to)
      PROVE  ClaimsAreExclusive'
  BY <1>3 DEF UserMove
<1>4. ASSUME NEW i \in Instances, Claim(i) PROVE ClaimsAreExclusive'
  <2>1. \A j \in Instances : j # i => batch[j] \cap Oldest = {}
    BY OldestAreClaimable DEF Claimable
  <2> QED BY <1>4, <2>1, OldestAreClaimable DEF Claim
<1>5. ASSUME NEW i \in Instances, Pick(i) PROVE ClaimsAreExclusive'
  BY <1>5 DEF Pick
<1>6. ASSUME NEW i \in Instances, BatchDone(i) \/ Swallow(i) \/ CallFails(i) \/ Record(i)
      PROVE  ClaimsAreExclusive'
  BY <1>6 DEF BatchDone, Swallow, CallFails, Record
<1>7. ASSUME NEW i \in Instances, Apply(i) PROVE ClaimsAreExclusive'
  BY <1>7, WorkIsHeld DEF Apply
<1>8. ASSUME NEW i \in Instances, MarkProcessed(i) \/ MarkFailed(i)
      PROVE  ClaimsAreExclusive'
  <2>1. /\ work[i] \in batch[i]
        /\ \A e \in Events : e # work[i] => state'[e] = state[e]
        /\ Settle(i) /\ status' = status
    BY <1>8, WorkIsHeld DEF MarkProcessed, MarkFailed
  <2>2. \A j \in Instances : work[i] \notin batch'[j]
    BY <2>1 DEF Settle
  <2> QED BY <2>1, <2>2 DEF Settle
<1>9. ASSUME NEW i \in Instances, Abandon(i) PROVE ClaimsAreExclusive'
  BY <1>9 DEF Abandon
<1>10. CASE UNCHANGED inboxVars
  BY <1>10 DEF inboxVars
<1> QED BY <1>1, <1>2, <1>3, <1>4, <1>5, <1>6, <1>7, <1>8, <1>9, <1>10 DEF InboxNext, Step

\* What a transition needs is a status it leads on from, and the shipment has
\* passed it once the transition is done.
LEMMA MovesStep ==
  InboxTypeOK /\ ClaimsAreExclusive /\ MovesAreSpent /\ [InboxNext]_inboxVars
    => MovesAreSpent'
<1> SUFFICES ASSUME InboxTypeOK, ClaimsAreExclusive, MovesAreSpent, [InboxNext]_inboxVars
             PROVE  MovesAreSpent'
  OBVIOUS
<1> USE InboxAssumption DEF MovesAreSpent, InboxTypeOK, eventVars, workerVars, history
<1>1. \A s \in Statuses \cup {"none"} : Rank(s) \in Nat
  BY DEF Rank
<1>2. ASSUME UNCHANGED <<moved, status>> PROVE MovesAreSpent'
  BY <1>2
<1>3. ASSUME NEW s \in Shipments, NEW to \in Statuses, Rank(status[s]) < Rank(to),
             status' = [status EXCEPT ![s] = to], moved' = moved
      PROVE  MovesAreSpent'
  <2>1. \A e \in moved : e.shipment \in Shipments /\ e.to \in Statuses
    OBVIOUS
  <2>2. \A r \in Shipments : Rank(status[r]) <= Rank(status'[r])
    BY <1>1, <1>3
  <2>3. \A e \in moved : Rank(e.to) \in Nat /\ Rank(status[e.shipment]) \in Nat
                         /\ Rank(status'[e.shipment]) \in Nat
    BY <1>1, <1>3, <2>1
  <2> QED BY <1>3, <2>1, <2>2, <2>3
<1>4. ASSUME NEW s \in Shipments, StoreBooking(s) PROVE MovesAreSpent'
  <2>1. Rank(status[s]) < Rank("created") /\ "created" \in Statuses
    BY <1>4 DEF StoreBooking, Rank, Statuses, Transitions
  <2> QED BY <1>3, <1>4, <2>1 DEF StoreBooking
<1>5. ASSUME NEW s \in Shipments, NEW to \in UserMoves, UserMove(s, to)
      PROVE  MovesAreSpent'
  <2>1. to \in Statuses /\ Rank(status[s]) < Rank(to)
    BY <1>5, TransitionsLeadToStatuses DEF UserMove
  <2> QED BY <1>3, <1>5, <2>1 DEF UserMove
<1>6. ASSUME NEW i \in Instances, Apply(i) PROVE MovesAreSpent'
  <2> DEFINE e == work[i]
  <2>1. e \in Events /\ e.shipment \in Shipments /\ e.to \in Statuses
        /\ status[e.shipment] \in Statuses
    BY <1>6, WorkIsHeld DEF Apply, ClaimsAreExclusive
  <2>2. Rank(status[e.shipment]) < Rank(e.to)
    BY <1>6, <2>1, TransitionsLeadToStatuses DEF Apply
  <2>3. moved' = moved \cup {e} /\ status' = [status EXCEPT ![e.shipment] = e.to]
    BY <1>6 DEF Apply
  <2>4. \A f \in moved : f \in Events /\ f.shipment \in Shipments /\ f.to \in Statuses
                         /\ Rank(f.to) \in Nat /\ Rank(status[f.shipment]) \in Nat
    BY <1>1
  <2>5. Rank(status[e.shipment]) \in Nat /\ Rank(e.to) \in Nat
    BY <1>1, <2>1
  <2>6. \A f \in moved : f.shipment = e.shipment => f.to # e.to
    <3> SUFFICES ASSUME NEW f \in moved, f.shipment = e.shipment, f.to = e.to PROVE FALSE
      OBVIOUS
    <3>1. Rank(f.to) <= Rank(status[f.shipment])
      OBVIOUS
    <3> QED BY <3>1, <2>2, <2>5
  <2>7. \A f \in moved' : Rank(f.to) <= Rank(status'[f.shipment])
    <3> SUFFICES ASSUME NEW f \in moved' PROVE Rank(f.to) <= Rank(status'[f.shipment])
      OBVIOUS
    <3>1. CASE f = e
      <4>1. status'[f.shipment] = f.to
        BY <2>1, <2>3, <3>1
      <4> QED BY <2>5, <3>1, <4>1
    <3>2. CASE f # e /\ f.shipment = e.shipment
      <4>1. status'[f.shipment] = e.to
        BY <2>1, <2>3, <3>2
      <4>2. f \in moved /\ Rank(f.to) <= Rank(status[e.shipment])
        BY <2>3, <3>2
      <4> QED BY <2>2, <2>4, <2>5, <4>1, <4>2
    <3>3. CASE f # e /\ f.shipment # e.shipment
      BY <2>3, <2>4, <3>3
    <3> QED BY <3>1, <3>2, <3>3
  <2> QED BY <2>3, <2>6, <2>7
<1>7. ASSUME NEW i \in Instances, Step(i) \/ CallFails(i) \/ Abandon(i), ~Apply(i)
      PROVE  UNCHANGED <<moved, status>>
  BY <1>7 DEF Step, Claim, Pick, BatchDone, Swallow, Record, MarkProcessed, MarkFailed,
              CallFails, Abandon
<1>8. ASSUME NEW e \in Events, Arrive(e) \/ BackoffElapses(e)
      PROVE  UNCHANGED <<moved, status>>
  BY <1>8 DEF Arrive, BackoffElapses
<1>9. CASE UNCHANGED inboxVars
  BY <1>2, <1>9 DEF inboxVars
<1> QED BY <1>2, <1>4, <1>5, <1>6, <1>7, <1>8, <1>9 DEF InboxNext

\* An audit row is written by the worker that has just made the transition.
LEMMA RecordsStep ==
  InboxTypeOK /\ ClaimsAreExclusive /\ MovesAreSpent /\ RecordsFollowMoves
    /\ [InboxNext]_inboxVars => RecordsFollowMoves'
<1> SUFFICES ASSUME InboxTypeOK, ClaimsAreExclusive, MovesAreSpent, RecordsFollowMoves,
                    [InboxNext]_inboxVars
             PROVE  RecordsFollowMoves'
  OBVIOUS
<1> USE InboxAssumption
    DEF RecordsFollowMoves, InboxTypeOK, eventVars, workerVars, history
<1>1. ASSUME UNCHANGED <<moved, recorded>>,
             \A i \in Instances :
               stage'[i] = "record" => stage[i] = "record" /\ work'[i] = work[i]
      PROVE  RecordsFollowMoves'
  BY <1>1
<1>2. ASSUME NEW i \in Instances, Apply(i) PROVE RecordsFollowMoves'
  <2> DEFINE e == work[i]
  <2>1. e \in Events /\ e.shipment \in Shipments /\ e.to \in Statuses
        /\ status[e.shipment] \in Statuses
    BY <1>2, WorkIsHeld DEF Apply, ClaimsAreExclusive
  <2>2. Rank(status[e.shipment]) < Rank(e.to)
        /\ Rank(status[e.shipment]) \in Nat /\ Rank(e.to) \in Nat
    BY <1>2, <2>1, TransitionsLeadToStatuses DEF Apply, Rank
  <2>3. e \notin moved
    BY <2>2 DEF MovesAreSpent
  <2>4. recorded[e] = 0
    BY <2>1, <2>3
  <2> QED BY <1>2, <2>1, <2>4 DEF Apply
<1>3. ASSUME NEW i \in Instances, Record(i) PROVE RecordsFollowMoves'
  <2>1. work[i] \in batch[i] /\ work[i] \in Events
    BY <1>3, WorkIsHeld DEF Record
  <2>2. \A j \in Instances : j # i /\ stage[j] = "record" => work[j] # work[i]
    BY <2>1 DEF ClaimsAreExclusive
  <2>3. \A j \in Instances : stage[j] = "record" => work[j] \in Events
    BY WorkIsHeld
  <2> QED BY <1>3, <2>1, <2>2, <2>3 DEF Record
<1>4. ASSUME NEW i \in Instances, Step(i) \/ CallFails(i) \/ Abandon(i), ~Apply(i), ~Record(i)
      PROVE  RecordsFollowMoves'
  <2>1. UNCHANGED <<moved, recorded>>
    BY <1>4 DEF Step, Claim, Pick, BatchDone, Swallow, MarkProcessed, MarkFailed, Settle,
                CallFails, Abandon
  <2>2. stage'[i] # "record"
        /\ \A j \in Instances : j # i => stage'[j] = stage[j] /\ work'[j] = work[j]
    BY <1>4 DEF Step, Claim, Pick, BatchDone, Swallow, MarkProcessed, MarkFailed, Settle,
                CallFails, Abandon
  <2> QED BY <1>1, <2>1, <2>2
<1>5. ASSUME NEW e \in Events, Arrive(e) \/ BackoffElapses(e) PROVE RecordsFollowMoves'
  BY <1>5 DEF Arrive, BackoffElapses
<1>6. ASSUME NEW s \in Shipments, StoreBooking(s) \/ \E to \in UserMoves : UserMove(s, to)
      PROVE  RecordsFollowMoves'
  BY <1>6 DEF StoreBooking, UserMove
<1>7. CASE UNCHANGED inboxVars
  BY <1>7 DEF inboxVars
<1> QED BY <1>2, <1>3, <1>4, <1>5, <1>6, <1>7 DEF InboxNext

\* A worker reaches the mark past the audit row, or past its failure.
LEMMA MissingStep ==
  InboxIInv /\ [InboxNext]_inboxVars => MissingRecordsAreHeld'
<1> SUFFICES ASSUME InboxIInv, [InboxNext]_inboxVars PROVE MissingRecordsAreHeld'
  OBVIOUS
<1> USE InboxAssumption DEF MissingRecordsAreHeld, InboxTypeOK, eventVars, workerVars, history
<1>0. InboxTypeOK /\ ClaimsAreExclusive /\ MissingRecordsAreHeld /\ RecordsFollowMoves
  BY DEF InboxIInv
<1>1. ASSUME NEW e \in Events, Arrive(e) \/ BackoffElapses(e) PROVE MissingRecordsAreHeld'
  BY <1>0, <1>1 DEF Arrive, BackoffElapses
<1>2. ASSUME NEW s \in Shipments, StoreBooking(s) \/ \E to \in UserMoves : UserMove(s, to)
      PROVE  MissingRecordsAreHeld'
  BY <1>0, <1>2 DEF StoreBooking, UserMove
<1>3. ASSUME NEW i \in Instances, Claim(i) PROVE MissingRecordsAreHeld'
  <2>1. \A e \in Oldest : e \in Events /\ state[e] # "processing"
    BY <1>0, OldestAreClaimable DEF Claimable
  <2> QED BY <1>0, <1>3, <2>1 DEF Claim
<1>4. ASSUME NEW i \in Instances, Pick(i) \/ BatchDone(i) \/ Swallow(i)
      PROVE  MissingRecordsAreHeld'
  <2>1. stage[i] # "record" /\ UNCHANGED <<state, batch, moved, unaudited, recorded>>
        /\ \A j \in Instances : j # i => stage'[j] = stage[j] /\ work'[j] = work[j]
    BY <1>0, <1>4 DEF Pick, BatchDone, Swallow
  <2> QED BY <1>0, <2>1
<1>5. ASSUME NEW i \in Instances, Apply(i) PROVE MissingRecordsAreHeld'
  <2>1. work[i] \in Events /\ work[i] \in batch[i] /\ state[work[i]] = "processing"
    BY <1>0, <1>5, WorkIsHeld DEF Apply
  <2>2. \A j \in Instances : j # i => work[i] \notin batch[j]
    BY <1>0, <2>1 DEF ClaimsAreExclusive
  <2>3. stage[i] = "apply" /\ UNCHANGED <<state, batch, work, unaudited, recorded>>
        /\ moved' = moved \cup {work[i]} /\ stage' = [stage EXCEPT ![i] = "record"]
    BY <1>5 DEF Apply
  <2> QED BY <1>0, <2>1, <2>2, <2>3
<1>6. ASSUME NEW i \in Instances, Record(i) PROVE MissingRecordsAreHeld'
  <2>1. work[i] \in Events /\ recorded[work[i]] = 0
    BY <1>0, <1>6, WorkIsHeld DEF Record, RecordsFollowMoves
  <2>2. stage[i] = "record" /\ UNCHANGED <<state, batch, work, unaudited, moved>>
        /\ recorded' = [recorded EXCEPT ![work[i]] = 1]
        /\ stage' = [stage EXCEPT ![i] = "mark"]
    BY <1>0, <1>6, <2>1 DEF Record
  <2> QED BY <1>0, <2>1, <2>2
<1>7. ASSUME NEW i \in Instances, MarkProcessed(i) \/ MarkFailed(i)
      PROVE  MissingRecordsAreHeld'
  <2>1. /\ work[i] \in Events /\ work[i] \in batch[i] /\ stage[i] \in {"mark", "fail"}
        /\ UNCHANGED <<moved, unaudited, recorded>>
        /\ \A e \in Events : e # work[i] => state'[e] = state[e]
        /\ Settle(i)
    BY <1>0, <1>7, WorkIsHeld DEF MarkProcessed, MarkFailed
  <2>2. \A e \in moved \ unaudited : recorded[e] = 0 => e \notin batch[i]
    BY <1>0, <2>1
  <2> QED BY <1>0, <2>1, <2>2 DEF Settle
<1>8. ASSUME NEW i \in Instances, CallFails(i) PROVE MissingRecordsAreHeld'
  <2>1. /\ work[i] \in Events /\ work[i] \in batch[i]
        /\ UNCHANGED <<state, batch, work, moved, recorded>>
        /\ stage' = [stage EXCEPT ![i] = "fail"]
        /\ unaudited' = IF stage[i] = "record" THEN unaudited \cup {work[i]} ELSE unaudited
    BY <1>0, <1>8, WorkIsHeld DEF CallFails
  <2>2. \A e \in moved \ unaudited' :
          recorded[e] = 0 /\ e \in batch[i] => FALSE
    BY <1>0, <2>1
  <2> QED BY <1>0, <2>1, <2>2
<1>9. ASSUME NEW i \in Instances, Abandon(i) PROVE MissingRecordsAreHeld'
  BY <1>0, <1>9 DEF Abandon
<1>10. CASE UNCHANGED inboxVars
  BY <1>0, <1>10 DEF inboxVars
<1> QED BY <1>1, <1>2, <1>3, <1>4, <1>5, <1>6, <1>7, <1>8, <1>9, <1>10 DEF InboxNext, Step

-----------------------------------------------------------------------------
(* The theorems.                                                           *)

\* A set whose members are all equal has at most one.
LEMMA AtMostOneMember ==
  ASSUME NEW S, \A x, y \in S : x = y
  PROVE  Cardinality(S) <= 1
<1>1. CASE S = {}
  <2>1. Cardinality(S) = 0
    BY <1>1, FS_EmptySet
  <2> QED BY <2>1
<1>2. CASE S # {}
  <2>1. PICK x \in S : S = {x}
    BY <1>2
  <2>2. Cardinality(S) = 1
    BY <2>1, FS_Singleton
  <2> QED BY <2>2
<1> QED BY <1>1, <1>2

\* Claims, transitions and audit rows of the inbox keep to one another in
\* every reachable state; every column keeps its type, and the attempts their
\* budget.
THEOREM InboxInvariant == InboxSpec => []InboxIInv
<1>1. InboxInit => InboxIInv
  BY InboxAssumption
  DEF InboxInit, InboxIInv, InboxTypeOK, BudgetLeft, ClaimsAreExclusive, MovesAreSpent,
      RecordsFollowMoves, MissingRecordsAreHeld, Stages
<1>2. InboxIInv /\ [InboxNext]_inboxVars => InboxIInv'
  BY InboxTypeStep, ClaimsStep, MovesStep, RecordsStep, MissingStep DEF InboxIInv
<1> QED BY <1>1, <1>2, PTL DEF InboxSpec

\* No set of instances, failures, resent or reordered events and process deaths
\* records a transition of a shipment twice, and a processed event whose
\* transition committed has its audit row unless the audit write failed.
THEOREM TransitionsAreRecordedOnce == InboxSpec => []ProcessedIsRecordedOnce
<1>1. InboxIInv => ProcessedIsRecordedOnce
  <2> SUFFICES ASSUME InboxIInv PROVE ProcessedIsRecordedOnce
    OBVIOUS
  <2>1. \A e \in Events : recorded[e] \in {0, 1} /\ (recorded[e] > 0 => e \in moved)
    BY DEF InboxIInv, RecordsFollowMoves
  <2>2. ASSUME NEW s \in Shipments, NEW to \in Statuses
        PROVE  LET audited == {e \in Events : e.shipment = s /\ e.to = to /\ recorded[e] > 0}
               IN  Cardinality(audited) <= 1 /\ \A e \in audited : recorded[e] = 1
    <3> DEFINE audited == {e \in Events : e.shipment = s /\ e.to = to /\ recorded[e] > 0}
    <3>1. \A e, f \in audited : e = f
      BY <2>1 DEF InboxIInv, MovesAreSpent
    <3>2. Cardinality(audited) <= 1
      BY <3>1, AtMostOneMember
    <3>3. \A e \in audited : recorded[e] = 1
      BY <2>1
    <3> QED BY <3>2, <3>3
  <2>3. \A e \in moved \ unaudited : state[e] = "processed" => recorded[e] > 0
    BY <2>1 DEF InboxIInv, MissingRecordsAreHeld, InboxTypeOK
  <2> QED BY <2>2, <2>3 DEF ProcessedIsRecordedOnce
<1> QED BY <1>1, InboxInvariant, PTL
=============================================================================

-------------------------- MODULE InventoryProofs --------------------------
(***************************************************************************)
(* Proofs about Inventory, for every set of calls, warehouses, variants,   *)
(* keys and requests.                                                      *)
(*                                                                         *)
(* The inductive invariant says what the row locks are for: the levels a   *)
(* transaction needs are locked by it and by nobody else, the balance it   *)
(* read under the lock is still the committed one, and the rows it has     *)
(* written are what its operation makes of the committed balance.          *)
(***************************************************************************)
EXTENDS Inventory, TLAPS

-----------------------------------------------------------------------------
(* The inductive invariant.                                                *)

\* The levels the transaction of c locks.
Needed(c) ==
  {FirstLevel(c)} \cup IF req[c].op = "transfer" THEN {SecondLevel(c)} ELSE {}

\* The levels as the operation of c changes them.
Outcome(c) ==
  CASE req[c].op = "reserve" -> Reserved(req[c], stock)
    [] req[c].op = "release" -> Released(Subject(c), stock)
    [] req[c].op = "transfer" -> Transferred(req[c], stock)
    [] req[c].op = "adjust" -> Adjusted(req[c], stock)
    [] OTHER -> Repointed(req[c], stock)

LocksHeld ==
  /\ \A c \in Calls, l \in Levels :
       lock[l] = c => pc[c] \in {"lockSecond", "locked", "written"} /\ l \in Needed(c)
  /\ \A c \in Calls :
       /\ pc[c] = "lockSecond" => req[c].op = "transfer" /\ lock[FirstLevel(c)] = c
       /\ pc[c] \in {"locked", "written"} => \A l \in Needed(c) : lock[l] = c

ViewIsCurrent ==
  \A c \in Calls, l \in Levels :
    lock[l] = c /\ pc[c] \in {"lockSecond", "locked"} => view[c][l] = stock[l]

RowsMatchCalls ==
  \A c \in Calls :
    /\ row[c] # "absent" => pc[c] = "done"
    /\ row[c] \in {"active", "released"} => req[c].op = "reserve"
    /\ row[c] = "logged" => req[c].op \in {"transfer", "adjust"}

WrittenIsSound ==
  \A c \in Calls : pc[c] = "written" =>
    /\ \A l \in Needed(c) : view[c][l] = Outcome(c)[l]
    /\ Permitted(req[c], stock)
    /\ req[c].op = "release" => row[req[c].target] = "active"
    /\ ~KeyStored(c)
    /\ ~KeyPending(c)

IInv ==
  /\ TypeOK
  /\ LocksHeld
  /\ ViewIsCurrent
  /\ RowsMatchCalls
  /\ WrittenIsSound
  /\ KeySpentOnce
  /\ NeverNegative

\* What the crossings a call carries are: none before its write, then those
\* its outcome makes of the committed balances.  setReorderPoint raises none.
CrossingsInv ==
  \A c \in Calls :
    /\ pc[c] \in ({"idle"} \cup InTransaction) \ {"written"} => crossed[c] = {}
    /\ pc[c] = "written" /\ req[c].op # "setReorderPoint" =>
         crossed[c] = {l \in Needed(c) : CrossedLow(stock[l], Outcome(c)[l])}

-----------------------------------------------------------------------------
(* Lemmas about the operators.                                             *)

\* What a well-formed request carries.
LEMMA RequestFields ==
  ASSUME NEW r \in Requests
  PROVE  /\ r.op \in Ops /\ r.qty \in Int
         /\ r.from \in Warehouses /\ r.to \in Warehouses /\ r.variant \in Variants
         /\ SourceLevel(r) \in Levels /\ TargetLevel(r) \in Levels
         /\ r.op \in {"reserve", "transfer"} => r.qty > 0
         /\ r.op = "setReorderPoint" => r.qty \in Nat
         /\ r.op = "transfer" => SourceLevel(r) # TargetLevel(r)
         /\ r.op = "release" => r.target \in Calls
         /\ r.op \notin LoggingOps => r.key = NoKey
  BY StockAssumption DEF Request, WellFormed, SourceLevel, TargetLevel, Levels

\* Moving units leaves a level a level.
LEMMA LevelMoves ==
  ASSUME NEW level \in Level, NEW a \in Int, NEW b \in Int, NEW q \in Nat
  PROVE  /\ Moved(level, a, b) \in Level
         /\ Moved(level, a, b).onHand = level.onHand + a
         /\ Moved(level, a, b).committed = level.committed + b
         /\ Moved(level, a, b).reorder = level.reorder
         /\ Releasable(level, a) \in Int
         /\ Releasable(level, a) <= level.committed
         /\ [level EXCEPT !.reorder = q] \in Level
  BY DEF Level, Moved, Releasable

\* Every operation maps levels to levels.
LEMMA MovesKeepTypes ==
  ASSUME NEW r \in Requests, NEW s \in [Levels -> Level]
  PROVE  /\ Reserved(r, s) \in [Levels -> Level]
         /\ Released(r, s) \in [Levels -> Level]
         /\ Transferred(r, s) \in [Levels -> Level]
         /\ Adjusted(r, s) \in [Levels -> Level]
         /\ r.op = "setReorderPoint" => Repointed(r, s) \in [Levels -> Level]
<1>1. /\ SourceLevel(r) \in Levels /\ TargetLevel(r) \in Levels
      /\ r.qty \in Int /\ -r.qty \in Int /\ 0 \in Int
      /\ r.op = "setReorderPoint" => r.qty \in Nat
  BY RequestFields
<1>2. \A level \in Level :
        /\ Moved(level, 0, r.qty) \in Level
        /\ Moved(level, r.qty, 0) \in Level
        /\ Moved(level, -r.qty, 0) \in Level
        /\ Moved(level, 0, -Releasable(level, r.qty)) \in Level
  <2> SUFFICES ASSUME NEW level \in Level
               PROVE  /\ Moved(level, 0, r.qty) \in Level
                      /\ Moved(level, r.qty, 0) \in Level
                      /\ Moved(level, -r.qty, 0) \in Level
                      /\ Moved(level, 0, -Releasable(level, r.qty)) \in Level
    OBVIOUS
  <2>1. Releasable(level, r.qty) \in Int
    BY <1>1, 0 \in Nat, LevelMoves
  <2>2. -Releasable(level, r.qty) \in Int
    BY <2>1
  <2> QED BY <1>1, <2>2, 0 \in Nat, LevelMoves
<1>3. Reserved(r, s) \in [Levels -> Level]
  BY <1>1, <1>2 DEF Reserved
<1>4. Released(r, s) \in [Levels -> Level]
  BY <1>1, <1>2 DEF Released
<1>5. Transferred(r, s) \in [Levels -> Level]
  BY <1>1, <1>2 DEF Transferred
<1>6. Adjusted(r, s) \in [Levels -> Level]
  BY <1>1, <1>2 DEF Adjusted
<1>7. r.op = "setReorderPoint" => Repointed(r, s) \in [Levels -> Level]
  BY <1>1, LevelMoves, 0 \in Int DEF Repointed
<1> QED BY <1>3, <1>4, <1>5, <1>6, <1>7

-----------------------------------------------------------------------------
(* Type correctness.                                                       *)

\* One case per action; the writes differ in what they make of the view only.
LEMMA TypeStep == TypeOK /\ [Next]_vars => TypeOK'
<1> SUFFICES ASSUME TypeOK, [Next]_vars PROVE TypeOK'
  OBVIOUS
<1> USE DEF TypeOK
<1>1. InitialLevels \in [Levels -> Level]
  BY StockAssumption DEF InitialLevels, Level
<1>2. ASSUME NEW c \in Calls, Begin(c) PROVE TypeOK'
  BY <1>2 DEF Begin, Goto, InTransaction
<1>3. ASSUME NEW c \in Calls, Lookup(c) PROVE TypeOK'
  BY <1>3 DEF Lookup, Goto, InTransaction, Final
<1>4. ASSUME NEW c \in Calls, AssertWarehouses(c) PROVE TypeOK'
  BY <1>4 DEF AssertWarehouses, Goto, InTransaction, Final
<1>5. ASSUME NEW c \in Calls, LockFirst(c) PROVE TypeOK'
  BY <1>5 DEF LockFirst, AcquireLock, Goto, InTransaction
<1>6. ASSUME NEW c \in Calls, LockSecond(c) PROVE TypeOK'
  BY <1>6 DEF LockSecond, AcquireLock, Goto, InTransaction
<1>7. ASSUME NEW c \in Calls, NEW outcome \in Final, Leave(c, outcome) PROVE TypeOK'
  BY <1>1, <1>7 DEF Leave, EndTransaction, Goto
<1>8. ASSUME NEW c \in Calls, Refuse(c) \/ KeyConflict(c) \/ ReleaseLost(c) \/ Crash(c)
      PROVE TypeOK'
  BY <1>7, <1>8 DEF Refuse, KeyConflict, ReleaseLost, Crash, Final,
       StatementInAbortedTransaction
<1>9. ASSUME NEW c \in Calls, NEW op, NEW moved \in [Levels -> Level], Write(c, op, moved)
      PROVE TypeOK'
  BY <1>9 DEF Write, Goto, InTransaction
<1>10. ASSUME NEW c \in Calls, WriteReserve(c) \/ WriteTransfer(c) \/ WriteAdjust(c)
       PROVE TypeOK'
  BY <1>9, <1>10, MovesKeepTypes DEF WriteReserve, WriteTransfer, WriteAdjust
<1>11. ASSUME NEW c \in Calls, WriteRelease(c) PROVE TypeOK'
  <2>1. Subject(c) \in Requests
    BY <1>11, RequestFields DEF WriteRelease, Subject
  <2>2. Released(Subject(c), view[c]) \in [Levels -> Level]
    BY <2>1, MovesKeepTypes
  <2> QED BY <1>11, <2>2 DEF WriteRelease, Goto, InTransaction
<1>12. ASSUME NEW c \in Calls, WriteReorderPoint(c) PROVE TypeOK'
  <2>1. Repointed(req[c], view[c]) \in [Levels -> Level]
    BY <1>12, MovesKeepTypes DEF WriteReorderPoint
  <2> QED BY <1>12, <2>1 DEF WriteReorderPoint, Goto, InTransaction
<1>13. ASSUME NEW c \in Calls, Commit(c) PROVE TypeOK'
  <2>1. RowsAfter(c) \in [Calls -> RowStates]
    BY RequestFields DEF RowsAfter, RowStates
  <2>2. stock' \in [Levels -> Level]
    BY <1>13 DEF Commit
  <2> QED BY <1>1, <1>13, <2>1, <2>2 DEF Commit, EndTransaction, Goto, Final
<1>14. ASSUME NEW w \in Warehouses, SetActive(w) PROVE TypeOK'
  BY <1>14 DEF SetActive
<1>15. CASE UNCHANGED vars
  BY <1>15 DEF vars
<1> QED
  BY <1>2, <1>3, <1>4, <1>5, <1>6, <1>8, <1>10, <1>11, <1>12, <1>13, <1>14, <1>15,
     PlanAssumption DEF Next, Step, AllAnswered

\* Every variable keeps the shape of the table or of the transaction state it
\* stands for.
THEOREM TypeCorrect == Spec => []TypeOK
<1>1. Init => TypeOK
  BY StockAssumption, PlanAssumption DEF Init, TypeOK, InitialLevels, Level, RowStates
<1> QED BY <1>1, TypeStep, PTL DEF Spec

-----------------------------------------------------------------------------
(* Lemmas about the levels a call needs and what its operation does there. *)

\* The levels a call locks are the ones its operation touches.
LEMMA CallLevels ==
  ASSUME TypeOK, NEW c \in Calls
  PROVE  /\ req[c] \in Requests /\ Subject(c) \in Requests
         /\ FirstLevel(c) \in Levels /\ SecondLevel(c) \in Levels
         /\ FirstLevel(c) \in Needed(c)
         /\ Needed(c) \subseteq Levels
         /\ SourceLevel(Subject(c)) \in Needed(c)
         /\ req[c].op # "release" => Subject(c) = req[c]
         /\ req[c].op # "transfer" => Needed(c) = {SourceLevel(Subject(c))}
         /\ req[c].op = "transfer" =>
              /\ Needed(c) = {SourceLevel(req[c]), TargetLevel(req[c])}
              /\ Needed(c) = {FirstLevel(c), SecondLevel(c)}
<1>1. req[c] \in Requests /\ Subject(c) \in Requests
  BY RequestFields DEF TypeOK, Subject
<1>2. req[c].op # "release" => Subject(c) = req[c]
  BY DEF Subject
<1> QED BY <1>1, <1>2, RequestFields DEF FirstLevel, SecondLevel, TargetFirst, Needed

\* Outside the levels it needs, an operation changes nothing.
LEMMA OutcomeElsewhere ==
  ASSUME TypeOK, NEW c \in Calls
  PROVE  /\ Outcome(c) \in [Levels -> Level]
         /\ \A l \in Levels \ Needed(c) : Outcome(c)[l] = stock[l]
<1>1. stock \in [Levels -> Level] /\ req[c] \in Requests /\ Subject(c) \in Requests
  BY CallLevels DEF TypeOK
<1>2. Outcome(c) \in [Levels -> Level]
  <2>1. req[c].op \in Ops
    BY <1>1, RequestFields
  <2> QED BY <1>1, <2>1, MovesKeepTypes DEF Outcome, Ops
<1>3. ASSUME NEW l \in Levels \ Needed(c) PROVE Outcome(c)[l] = stock[l]
  <2>1. l # SourceLevel(Subject(c))
    BY CallLevels
  <2>2. req[c].op # "release" => l # SourceLevel(req[c])
    BY <2>1, CallLevels
  <2>3. req[c].op = "transfer" => l # TargetLevel(req[c])
    BY CallLevels
  <2> QED BY <1>1, <2>1, <2>2, <2>3
          DEF Outcome, Reserved, Released, Transferred, Adjusted, Repointed
<1> QED BY <1>2, <1>3

\* What an operation does at the levels it needs, and whether it is permitted,
\* depends on those levels alone.
LEMMA OutcomeLocal ==
  ASSUME TypeOK, TypeOK', req' = req, NEW c \in Calls,
         \A l \in Needed(c) : stock'[l] = stock[l]
  PROVE  /\ \A l \in Needed(c) : Outcome(c)'[l] = Outcome(c)[l]
         /\ Permitted(req[c], stock)' <=> Permitted(req[c], stock)
         /\ Needed(c)' = Needed(c)
<1>1. /\ stock \in [Levels -> Level] /\ stock' \in [Levels -> Level]
      /\ req[c] \in Requests /\ Subject(c) \in Requests
      /\ Needed(c) \subseteq Levels
  BY CallLevels DEF TypeOK
<1>2. Subject(c)' = Subject(c) /\ Needed(c)' = Needed(c)
  BY DEF Subject, Needed, FirstLevel, SecondLevel, TargetFirst
<1>3. Permitted(req[c], stock)' <=> Permitted(req[c], stock)
  BY CallLevels DEF Permitted
<1>4. ASSUME NEW l \in Needed(c) PROVE Outcome(c)'[l] = Outcome(c)[l]
  <2>1. l \in Levels /\ stock'[l] = stock[l]
    BY <1>1
  <2>2. /\ Reserved(req[c], stock')[l] = Reserved(req[c], stock)[l]
        /\ Adjusted(req[c], stock')[l] = Adjusted(req[c], stock)[l]
        /\ Repointed(req[c], stock')[l] = Repointed(req[c], stock)[l]
        /\ Released(Subject(c), stock')[l] = Released(Subject(c), stock)[l]
    BY <1>1, <2>1 DEF Reserved, Adjusted, Repointed, Released
  <2>3. req[c].op = "transfer" =>
          Transferred(req[c], stock')[l] = Transferred(req[c], stock)[l]
    <3> SUFFICES ASSUME req[c].op = "transfer"
                 PROVE Transferred(req[c], stock')[l] = Transferred(req[c], stock)[l]
      OBVIOUS
    <3>1. /\ stock'[SourceLevel(req[c])] = stock[SourceLevel(req[c])]
          /\ stock'[TargetLevel(req[c])] = stock[TargetLevel(req[c])]
      BY CallLevels
    <3> QED BY <1>1, <2>1, <3>1 DEF Transferred
  <2> QED BY <1>2, <2>2, <2>3 DEF Outcome
<1> QED BY <1>2, <1>3, <1>4

\* A permitted operation leaves no negative balance.
LEMMA OutcomeNotNegative ==
  ASSUME TypeOK, NeverNegative, NEW c \in Calls, Permitted(req[c], stock), NEW l \in Levels
  PROVE  Outcome(c)[l].onHand >= 0 /\ Outcome(c)[l].committed >= 0
<1>1. stock \in [Levels -> Level] /\ req[c] \in Requests /\ Subject(c) \in Requests
  BY CallLevels DEF TypeOK
<1>2. stock[l] \in Level /\ stock[l].onHand >= 0 /\ stock[l].committed >= 0
  BY <1>1 DEF NeverNegative
<1>3. CASE req[c].op = "reserve"
  BY <1>1, <1>2, <1>3, RequestFields DEF Outcome, Reserved, Moved, Level
<1>4. CASE req[c].op = "release"
  <2>1. Subject(c).qty \in Int
    BY <1>1, RequestFields
  <2> QED BY <1>1, <1>2, <1>4, <2>1, RequestFields
          DEF Outcome, Released, Moved, Level, Releasable
<1>5. CASE req[c].op = "transfer"
  <2>1. /\ req[c].qty \in Int /\ req[c].qty > 0
        /\ SourceLevel(req[c]) # TargetLevel(req[c])
        /\ req[c].qty <= stock[SourceLevel(req[c])].onHand
    BY <1>1, <1>5, RequestFields DEF Permitted
  <2>2. Outcome(c) = Transferred(req[c], stock)
    BY <1>5 DEF Outcome
  <2> QED BY <1>1, <1>2, <2>1, <2>2 DEF Transferred, Moved, Level
<1>6. CASE req[c].op = "adjust"
  BY <1>1, <1>2, <1>6, RequestFields DEF Outcome, Adjusted, Moved, Level, Permitted
<1>7. CASE req[c].op = "setReorderPoint"
  BY <1>1, <1>2, <1>7, RequestFields DEF Outcome, Repointed, Level
<1> QED BY <1>1, <1>3, <1>4, <1>5, <1>6, <1>7, RequestFields DEF Ops

-----------------------------------------------------------------------------
(* The invariant is inductive: one lemma per kind of step.                 *)

\* A step that only moves calls between the states without a lock.
LEMMA UnlockedStep ==
  ASSUME IInv, TypeOK', UNCHANGED <<stock, row, req, lock, view>>,
         \A d \in Calls :
           \/ pc'[d] = pc[d]
           \/ /\ pc[d] \in {"idle", "lookup", "assert"}
              /\ pc'[d] \in {"lookup", "assert", "lockFirst"} \cup Final
  PROVE  IInv'
<1>1. \A d \in Calls :
        /\ pc'[d] \in {"lockSecond", "locked", "written"} \/
           pc[d] \in {"lockSecond", "locked", "written"} => pc'[d] = pc[d]
        /\ pc[d] = "done" => pc'[d] = "done"
  BY DEF Final
<1>2. \A d \in Calls : /\ Needed(d)' = Needed(d) /\ FirstLevel(d)' = FirstLevel(d)
                       /\ Outcome(d)' = Outcome(d)
                       /\ KeyStored(d)' <=> KeyStored(d)
  BY DEF Needed, FirstLevel, SecondLevel, TargetFirst, Subject, Outcome, KeyStored
<1>3. \A d \in Calls : KeyPending(d)' <=> KeyPending(d)
  BY <1>1 DEF KeyPending
<1>4. LocksHeld'
  BY <1>1, <1>2 DEF IInv, LocksHeld
<1>5. ViewIsCurrent'
  BY <1>1 DEF IInv, ViewIsCurrent
<1>6. RowsMatchCalls'
  BY <1>1 DEF IInv, RowsMatchCalls
<1>7. WrittenIsSound'
  BY <1>1, <1>2, <1>3 DEF IInv, WrittenIsSound
<1>8. KeySpentOnce' /\ NeverNegative'
  BY DEF IInv, KeySpentOnce, NeverNegative
<1> QED BY <1>4, <1>5, <1>6, <1>7, <1>8 DEF IInv

\* The transaction of c acquires the lock of a free level it needs.
LEMMA LockStep ==
  ASSUME IInv, TypeOK', NEW c \in Calls, LockFirst(c) \/ LockSecond(c)
  PROVE  IInv'
<1> DEFINE l == IF pc[c] = "lockFirst" THEN FirstLevel(c) ELSE SecondLevel(c)
<1>1. /\ TypeOK /\ l \in Levels /\ lock[l] = Nobody /\ lock' = [lock EXCEPT ![l] = c]
      /\ view' = [view EXCEPT ![c][l] = stock[l]]
      /\ pc[c] \in {"lockFirst", "lockSecond"}
      /\ UNCHANGED <<stock, row, req>>
      /\ pc' = [pc EXCEPT ![c] = IF pc[c] = "lockFirst" /\ req[c].op = "transfer"
                                THEN "lockSecond" ELSE "locked"]
  BY CallLevels DEF IInv, LockFirst, LockSecond, AcquireLock, Goto
<1> HIDE DEF l
<1>2. \A d \in Calls : /\ Needed(d)' = Needed(d) /\ FirstLevel(d)' = FirstLevel(d)
                       /\ Outcome(d)' = Outcome(d)
                       /\ KeyStored(d)' <=> KeyStored(d)
  BY <1>1 DEF Needed, FirstLevel, SecondLevel, TargetFirst, Subject, Outcome, KeyStored
<1>3. \A d \in Calls : /\ pc'[d] = "written" <=> pc[d] = "written"
                       /\ d # c => pc'[d] = pc[d]
                       /\ pc[d] = "done" => pc'[d] = "done"
  BY <1>1 DEF TypeOK
<1>4. \A d \in Calls : KeyPending(d)' <=> KeyPending(d)
  BY <1>1, <1>3 DEF KeyPending
<1>5. /\ \A m \in Levels : lock'[m] = IF m = l THEN c ELSE lock[m]
      /\ c # Nobody
  BY <1>1, StockAssumption DEF TypeOK
<1>6. /\ pc[c] = "lockFirst" => l = FirstLevel(c)
      /\ pc[c] = "lockSecond" => /\ l = SecondLevel(c)
                                 /\ req[c].op = "transfer" /\ lock[FirstLevel(c)] = c
  BY <1>1 DEF l, IInv, LocksHeld
<1>7. LocksHeld'
  <2>1. \A d \in Calls, m \in Levels : lock'[m] = d =>
          pc'[d] \in {"lockSecond", "locked", "written"} /\ m \in Needed(d)'
    <3> SUFFICES ASSUME NEW d \in Calls, NEW m \in Levels, lock'[m] = d
                 PROVE pc'[d] \in {"lockSecond", "locked", "written"} /\ m \in Needed(d)
      BY <1>2
    <3>1. CASE m = l
      <4>1. d = c /\ pc'[c] \in {"lockSecond", "locked"}
        BY <1>1, <1>5, <3>1 DEF TypeOK
      <4>2. l \in Needed(c)
        BY <1>1, <1>6, CallLevels
      <4> QED BY <3>1, <4>1, <4>2
    <3>2. CASE m # l
      <4>1. lock[m] = d
        BY <1>5, <3>2
      <4>2. pc[d] \in {"lockSecond", "locked", "written"} /\ m \in Needed(d)
        BY <4>1 DEF IInv, LocksHeld
      <4> QED BY <1>1, <1>3, <4>2 DEF TypeOK
    <3> QED BY <3>1, <3>2
  <2>2. ASSUME NEW d \in Calls
        PROVE /\ pc'[d] = "lockSecond" =>
                   req[d].op = "transfer" /\ lock'[FirstLevel(d)] = d
              /\ pc'[d] \in {"locked", "written"} => \A m \in Needed(d) : lock'[m] = d
    <3>1. CASE d = c
      <4>1. /\ FirstLevel(c) \in Levels /\ SecondLevel(c) \in Levels
            /\ req[c].op # "transfer" => Needed(c) = {FirstLevel(c)}
            /\ req[c].op = "transfer" => Needed(c) = {FirstLevel(c), SecondLevel(c)}
        BY <1>1, CallLevels DEF Needed
      <4> QED BY <1>1, <1>5, <1>6, <3>1, <4>1 DEF TypeOK
    <3>2. CASE d # c
      <4>1. FirstLevel(d) \in Levels /\ Needed(d) \subseteq Levels
        BY <1>1, CallLevels
      <4>2. \A m \in Levels : lock[m] = d => lock'[m] = d
        BY <1>1, <1>5, StockAssumption
      <4> QED BY <1>3, <3>2, <4>1, <4>2 DEF IInv, LocksHeld
    <3> QED BY <3>1, <3>2
  <2> QED BY <1>1, <1>2, <2>1, <2>2 DEF LocksHeld
<1>8. ViewIsCurrent'
  <2> SUFFICES ASSUME NEW d \in Calls, NEW m \in Levels, lock'[m] = d,
                      pc'[d] \in {"lockSecond", "locked"}
               PROVE view'[d][m] = stock[m]
    BY <1>1 DEF ViewIsCurrent
  <2>1. CASE m = l
    BY <1>1, <1>5, <2>1 DEF TypeOK
  <2>2. CASE m # l
    <3>1. lock[m] = d /\ view'[d][m] = view[d][m]
      BY <1>1, <1>5, <2>2 DEF TypeOK
    <3>2. pc[d] \in {"lockSecond", "locked"}
      BY <1>3, <3>1 DEF IInv, LocksHeld
    <3> QED BY <3>1, <3>2 DEF IInv, ViewIsCurrent
  <2> QED BY <2>1, <2>2
<1>9. RowsMatchCalls'
  BY <1>1, <1>3 DEF IInv, RowsMatchCalls
<1>10. WrittenIsSound'
  <2> SUFFICES ASSUME NEW d \in Calls, pc'[d] = "written"
               PROVE  /\ \A m \in Needed(d) : view'[d][m] = Outcome(d)[m]
                      /\ Permitted(req[d], stock)
                      /\ req[d].op = "release" => row[req[d].target] = "active"
                      /\ ~KeyStored(d) /\ ~KeyPending(d)
    BY <1>1, <1>2, <1>4 DEF WrittenIsSound
  <2>1. pc[d] = "written" /\ d # c /\ view'[d] = view[d]
    BY <1>1, <1>3 DEF TypeOK
  <2> QED BY <2>1 DEF IInv, WrittenIsSound
<1>11. KeySpentOnce' /\ NeverNegative'
  BY <1>1 DEF IInv, KeySpentOnce, NeverNegative
<1> QED BY <1>7, <1>8, <1>9, <1>10, <1>11 DEF IInv

\* The transaction of c ends without a write.
LEMMA LeaveStep ==
  ASSUME IInv, TypeOK', NEW c \in Calls, NEW outcome \in Final \ {"done"},
         pc[c] \in InTransaction, Leave(c, outcome)
  PROVE  IInv'
<1>1. /\ TypeOK /\ UNCHANGED <<stock, row, req>>
      /\ pc' = [pc EXCEPT ![c] = outcome]
      /\ view' = [view EXCEPT ![c] = InitialLevels]
      /\ \A l \in Levels : lock'[l] = IF lock[l] = c THEN Nobody ELSE lock[l]
      /\ c # Nobody
  BY StockAssumption DEF IInv, Leave, EndTransaction, Goto
<1>2. \A d \in Calls : /\ Needed(d)' = Needed(d) /\ FirstLevel(d)' = FirstLevel(d)
                       /\ Outcome(d)' = Outcome(d)
                       /\ KeyStored(d)' <=> KeyStored(d)
  BY <1>1 DEF Needed, FirstLevel, SecondLevel, TargetFirst, Subject, Outcome, KeyStored
<1>3. \A d \in Calls : /\ d # c => pc'[d] = pc[d] /\ view'[d] = view[d]
                       /\ pc'[d] \in InTransaction => d # c
                       /\ pc[d] = "done" => pc'[d] = "done"
  BY <1>1 DEF TypeOK, Final, InTransaction
<1>4. \A d \in Calls : KeyPending(d)' => KeyPending(d)
  BY <1>1, <1>3 DEF KeyPending, InTransaction
<1>5. \A d \in Calls, l \in Levels : lock'[l] = d => lock[l] = d /\ d # c
  BY <1>1, StockAssumption
<1>6. LocksHeld'
  <2>1. \A d \in Calls, l \in Levels : lock'[l] = d =>
          pc'[d] \in {"lockSecond", "locked", "written"} /\ l \in Needed(d)
    BY <1>3, <1>5 DEF IInv, LocksHeld
  <2>2. ASSUME NEW d \in Calls, pc'[d] \in InTransaction
        PROVE /\ pc'[d] = "lockSecond" =>
                   req[d].op = "transfer" /\ lock'[FirstLevel(d)] = d
              /\ pc'[d] \in {"locked", "written"} => \A l \in Needed(d) : lock'[l] = d
    <3>1. d # c /\ pc'[d] = pc[d] /\ \A l \in Levels : lock[l] = d => lock'[l] = d
      BY <1>1, <1>3, <2>2
    <3>2. FirstLevel(d) \in Levels /\ Needed(d) \subseteq Levels
      BY <1>1, CallLevels
    <3> QED BY <3>1, <3>2 DEF IInv, LocksHeld
  <2> QED BY <1>1, <1>2, <2>1, <2>2 DEF LocksHeld, InTransaction
<1>7. ViewIsCurrent'
  BY <1>1, <1>3, <1>5 DEF IInv, ViewIsCurrent, InTransaction
<1>8. RowsMatchCalls'
  BY <1>1, <1>3 DEF IInv, RowsMatchCalls
<1>9. WrittenIsSound'
  BY <1>1, <1>2, <1>3, <1>4 DEF IInv, WrittenIsSound, InTransaction
<1>10. KeySpentOnce' /\ NeverNegative'
  BY <1>1 DEF IInv, KeySpentOnce, NeverNegative
<1> QED BY <1>6, <1>7, <1>8, <1>9, <1>10 DEF IInv

\* The transaction of c, holding its locks, computes what it will commit.
LEMMA WriteStep ==
  ASSUME IInv, TypeOK', NEW c \in Calls,
         \/ WriteReserve(c) \/ WriteTransfer(c) \/ WriteAdjust(c)
         \/ WriteRelease(c) \/ WriteReorderPoint(c)
  PROVE  IInv'
<1>1. /\ TypeOK /\ pc[c] = "locked" /\ pc' = [pc EXCEPT ![c] = "written"]
      /\ UNCHANGED <<stock, row, req, lock>>
      /\ \A d \in Calls \ {c} : view'[d] = view[d]
  BY DEF IInv, TypeOK, WriteReserve, WriteTransfer, WriteAdjust, Write, WriteRelease,
         WriteReorderPoint, Goto
<1>2. /\ \A d \in Calls \ {c} : pc'[d] = pc[d]
      /\ pc'[c] = "written"
  BY <1>1 DEF TypeOK
<1>3. \A d \in Calls : /\ Needed(d)' = Needed(d) /\ FirstLevel(d)' = FirstLevel(d)
                       /\ Outcome(d)' = Outcome(d)
                       /\ KeyStored(d)' <=> KeyStored(d)
  BY <1>1 DEF Needed, FirstLevel, SecondLevel, TargetFirst, Subject, Outcome, KeyStored
<1>4. LocksHeld'
  BY <1>1, <1>2, <1>3 DEF IInv, LocksHeld
<1>5. ViewIsCurrent'
  BY <1>1, <1>2 DEF IInv, ViewIsCurrent
<1>6. RowsMatchCalls'
  BY <1>1, <1>2 DEF IInv, RowsMatchCalls
<1>7. /\ req[c] \in Requests /\ Subject(c) \in Requests
      /\ Needed(c) \subseteq Levels /\ SourceLevel(Subject(c)) \in Needed(c)
      /\ \A l \in Needed(c) : lock[l] = c /\ view[c][l] = stock[l]
      /\ view[c] \in [Levels -> Level] /\ stock \in [Levels -> Level]
  BY <1>1, CallLevels DEF IInv, LocksHeld, ViewIsCurrent, TypeOK
<1>8. ~KeyStored(c) /\ ~KeyPending(c)
  <2>1. CASE req[c].op \in LoggingOps
    BY <1>1, <2>1 DEF WriteReserve, WriteTransfer, WriteAdjust, Write, WriteRelease,
                      WriteReorderPoint, LoggingOps
  <2>2. CASE req[c].op \notin LoggingOps
    BY <1>7, <2>2, RequestFields DEF KeyStored, KeyPending, SameKey
  <2> QED BY <2>1, <2>2
<1>9. Permitted(req[c], stock)
  <2>1. CASE req[c].op \in LoggingOps
    <3>1. Permitted(req[c], view[c])
      BY <2>1 DEF WriteReserve, WriteTransfer, WriteAdjust, Write, WriteRelease,
                  WriteReorderPoint, LoggingOps
    <3>2. view[c][SourceLevel(req[c])] = stock[SourceLevel(req[c])]
      BY <1>1, <1>7, <2>1, CallLevels DEF LoggingOps
    <3> QED BY <3>1, <3>2 DEF Permitted
  <2>2. CASE req[c].op \notin LoggingOps
    BY <2>2 DEF Permitted, LoggingOps
  <2> QED BY <2>1, <2>2
<1>10. \A l \in Needed(c) : view'[c][l] = Outcome(c)[l]
  <2> SUFFICES ASSUME NEW l \in Needed(c) PROVE view'[c][l] = Outcome(c)[l]
    OBVIOUS
  <2>1. l \in Levels /\ view[c][l] = stock[l]
    BY <1>7
  <2>2. CASE WriteReserve(c)
    BY <1>1, <1>7, <2>1, <2>2 DEF WriteReserve, Write, Outcome, Reserved, TypeOK
  <2>3. CASE WriteTransfer(c)
    <3>1. req[c].op = "transfer" /\ view' = [view EXCEPT ![c] = Transferred(req[c], view[c])]
      BY <2>3 DEF WriteTransfer, Write
    <3>2. /\ view[c][SourceLevel(req[c])] = stock[SourceLevel(req[c])]
          /\ view[c][TargetLevel(req[c])] = stock[TargetLevel(req[c])]
      BY <1>1, <1>7, <3>1, CallLevels
    <3>3. Outcome(c) = Transferred(req[c], stock)
      BY <3>1 DEF Outcome
    <3>4. view'[c] = Transferred(req[c], view[c])
      BY <1>1, <3>1 DEF TypeOK
    <3> QED BY <1>7, <2>1, <3>2, <3>3, <3>4 DEF Transferred
  <2>4. CASE WriteAdjust(c)
    BY <1>1, <1>7, <2>1, <2>4 DEF WriteAdjust, Write, Outcome, Adjusted, TypeOK
  <2>5. CASE WriteRelease(c)
    BY <1>1, <1>7, <2>1, <2>5 DEF WriteRelease, Outcome, Released, TypeOK
  <2>6. CASE WriteReorderPoint(c)
    BY <1>1, <1>7, <2>1, <2>6 DEF WriteReorderPoint, Outcome, Repointed, TypeOK
  <2> QED BY <2>2, <2>3, <2>4, <2>5, <2>6
<1>11. WrittenIsSound'
  <2> SUFFICES ASSUME NEW d \in Calls, pc'[d] = "written"
               PROVE  /\ \A l \in Needed(d) : view'[d][l] = Outcome(d)[l]
                      /\ Permitted(req[d], stock)
                      /\ req[d].op = "release" => row[req[d].target] = "active"
                      /\ ~KeyStored(d) /\ ~KeyPending(d)'
    BY <1>1, <1>3 DEF WrittenIsSound
  <2>1. CASE d = c
    <3>1. req[c].op = "release" => row[req[c].target] = "active"
      BY DEF WriteReserve, WriteTransfer, WriteAdjust, Write, WriteRelease,
             WriteReorderPoint
    <3>2. ~KeyPending(c)'
      BY <1>1, <1>2, <1>8 DEF KeyPending
    <3> QED BY <1>8, <1>9, <1>10, <2>1, <3>1, <3>2
  <2>2. CASE d # c
    <3>1. pc[d] = "written" /\ view'[d] = view[d]
      BY <1>1, <1>2, <2>2
    <3>2. ~SameKey(req[d], req[c])
      BY <1>8, <2>2, <3>1 DEF KeyPending, SameKey
    <3>3. ~KeyPending(d)'
      BY <1>1, <1>2, <3>1, <3>2 DEF IInv, WrittenIsSound, KeyPending
    <3> QED BY <3>1, <3>3 DEF IInv, WrittenIsSound
  <2> QED BY <2>1, <2>2
<1>12. KeySpentOnce' /\ NeverNegative'
  BY <1>1 DEF IInv, KeySpentOnce, NeverNegative
<1> QED BY <1>4, <1>5, <1>6, <1>11, <1>12 DEF IInv

\* What a commit publishes: the levels become what the operation of c makes of
\* the committed ones, and the row it wrote appears.
LEMMA CommitPublishes ==
  ASSUME IInv, NEW c \in Calls, Commit(c)
  PROVE  /\ stock' = Outcome(c)
         /\ Permitted(req[c], stock)
         /\ row[c] = "absent"
         /\ ~KeyStored(c)
         /\ req[c].op = "release" => row[req[c].target] = "active"
         /\ \A d \in Calls : row'[d] # row[d] =>
              \/ d = c /\ req[c].op \in LoggingOps /\ row[c] = "absent"
              \/ /\ req[c].op = "release" /\ d = req[c].target
                 /\ row[d] = "active" /\ row'[d] = "released"
<1>1. /\ TypeOK /\ pc[c] = "written" /\ row' = RowsAfter(c)
      /\ stock' = [l \in Levels |-> IF lock[l] = c THEN view[c][l] ELSE stock[l]]
  BY DEF IInv, Commit
<1>2. /\ \A l \in Needed(c) : lock[l] = c /\ view[c][l] = Outcome(c)[l]
      /\ \A l \in Levels : lock[l] = c => l \in Needed(c)
      /\ Permitted(req[c], stock)
      /\ row[c] = "absent"
      /\ ~KeyStored(c)
      /\ req[c].op = "release" => row[req[c].target] = "active"
  BY <1>1 DEF IInv, LocksHeld, WrittenIsSound, RowsMatchCalls
<1>3. \A l \in Levels : stock'[l] = Outcome(c)[l]
  BY <1>1, <1>2, OutcomeElsewhere
<1>4. stock' = Outcome(c)
  BY <1>1, <1>3, OutcomeElsewhere
<1>5. req[c].op = "release" => req[c].target \in Calls
  BY <1>1, RequestFields DEF TypeOK
<1> QED BY <1>1, <1>2, <1>4, <1>5 DEF RowsAfter, TypeOK, LoggingOps

\* A commit publishes a sound outcome and frees the locks.
LEMMA CommitStep ==
  ASSUME IInv, TypeOK', NEW c \in Calls, Commit(c)
  PROVE  IInv'
<1>1. /\ TypeOK /\ pc[c] = "written" /\ req' = req /\ row' = RowsAfter(c)
      /\ pc' = [pc EXCEPT ![c] = "done"]
      /\ view' = [view EXCEPT ![c] = InitialLevels]
      /\ \A l \in Levels : lock'[l] = IF lock[l] = c THEN Nobody ELSE lock[l]
      /\ \A l \in Levels : lock[l] # c => stock'[l] = stock[l]
      /\ c # Nobody
  BY StockAssumption DEF IInv, Commit, EndTransaction, Goto, TypeOK
<1>2. \A d \in Calls : Needed(d)' = Needed(d) /\ FirstLevel(d)' = FirstLevel(d)
  BY <1>1 DEF Needed, FirstLevel, SecondLevel, TargetFirst, Subject
<1>3. \A d \in Calls : /\ d # c => pc'[d] = pc[d] /\ view'[d] = view[d]
                       /\ pc'[d] \in InTransaction => d # c
                       /\ pc[d] = "done" => pc'[d] = "done"
                       /\ pc'[c] = "done"
  BY <1>1 DEF TypeOK, InTransaction
<1>4. \A d \in Calls, l \in Levels : lock'[l] = d => lock[l] = d /\ d # c
  BY <1>1, StockAssumption
<1>5. LocksHeld'
  <2>1. \A d \in Calls, l \in Levels : lock'[l] = d =>
          pc'[d] \in {"lockSecond", "locked", "written"} /\ l \in Needed(d)
    BY <1>3, <1>4 DEF IInv, LocksHeld
  <2>2. ASSUME NEW d \in Calls, pc'[d] \in InTransaction
        PROVE /\ pc'[d] = "lockSecond" =>
                   req[d].op = "transfer" /\ lock'[FirstLevel(d)] = d
              /\ pc'[d] \in {"locked", "written"} => \A l \in Needed(d) : lock'[l] = d
    <3>1. d # c /\ pc'[d] = pc[d] /\ \A l \in Levels : lock[l] = d => lock'[l] = d
      BY <1>1, <1>3, <2>2
    <3>2. FirstLevel(d) \in Levels /\ Needed(d) \subseteq Levels
      BY <1>1, CallLevels
    <3> QED BY <3>1, <3>2 DEF IInv, LocksHeld
  <2> QED BY <1>1, <1>2, <2>1, <2>2 DEF LocksHeld, InTransaction
<1>6. ViewIsCurrent'
  BY <1>1, <1>3, <1>4 DEF IInv, ViewIsCurrent, InTransaction
<1>7. RowsMatchCalls'
  <2> SUFFICES ASSUME NEW d \in Calls
               PROVE  /\ row'[d] # "absent" => pc'[d] = "done"
                      /\ row'[d] \in {"active", "released"} => req[d].op = "reserve"
                      /\ row'[d] = "logged" => req[d].op \in {"transfer", "adjust"}
    BY <1>1 DEF RowsMatchCalls
  <2>1. CASE row'[d] = row[d]
    BY <1>3, <2>1 DEF IInv, RowsMatchCalls
  <2>2. CASE row'[d] # row[d] /\ d = c /\ req[c].op \in LoggingOps
    BY <1>1, <1>3, <2>2 DEF RowsAfter, LoggingOps, TypeOK
  <2>3. CASE row[d] = "active" /\ row'[d] = "released"
    BY <1>3, <2>3 DEF IInv, RowsMatchCalls
  <2> QED BY <2>1, <2>2, <2>3, CommitPublishes
<1>8. \A d \in Calls : row'[d] # "absent" => row[d] # "absent" \/ d = c
  BY CommitPublishes
<1>9. WrittenIsSound'
  <2> SUFFICES ASSUME NEW d \in Calls, pc'[d] = "written"
               PROVE  /\ \A l \in Needed(d) : view'[d][l] = Outcome(d)'[l]
                      /\ Permitted(req[d], stock)'
                      /\ req[d].op = "release" => row'[req[d].target] = "active"
                      /\ ~KeyStored(d)' /\ ~KeyPending(d)'
    BY <1>1, <1>2 DEF WrittenIsSound
  <2>1. d # c /\ pc[d] = "written" /\ view'[d] = view[d]
    BY <1>3 DEF InTransaction
  <2>2. /\ \A l \in Needed(d) : view[d][l] = Outcome(d)[l] /\ lock[l] = d
        /\ Permitted(req[d], stock)
        /\ req[d].op = "release" => row[req[d].target] = "active"
        /\ ~KeyStored(d) /\ ~KeyPending(d)
    BY <2>1 DEF IInv, WrittenIsSound, LocksHeld
  <2>3. \A l \in Needed(d) : stock'[l] = stock[l]
    BY <1>1, <2>1, <2>2, CallLevels
  <2>4. /\ \A l \in Needed(d) : Outcome(d)'[l] = Outcome(d)[l]
        /\ Permitted(req[d], stock)'
    BY <1>1, <2>2, <2>3, OutcomeLocal
  <2>5. req[d].op = "release" => row'[req[d].target] = "active"
    <3> SUFFICES ASSUME req[d].op = "release", row'[req[d].target] # "active" PROVE FALSE
      OBVIOUS
    <3>1. req[d].target \in Calls /\ row[req[d].target] = "active"
      BY <1>1, <2>2, RequestFields DEF TypeOK
    <3>2. req[c].op = "release" /\ req[c].target = req[d].target
      BY <3>1, CommitPublishes
    <3>3. Subject(c) = Subject(d)
      BY <3>2 DEF Subject
    <3>4. SourceLevel(Subject(d)) \in Needed(c) \cap Needed(d)
      BY <1>1, <3>3, CallLevels
    <3>5. lock[SourceLevel(Subject(d))] = c
      BY <1>1, <3>4 DEF IInv, LocksHeld
    <3> QED BY <2>1, <2>2, <3>4, <3>5
  <2>6. ~SameKey(req[d], req[c])
    BY <1>1, <2>1, <2>2 DEF KeyPending
  <2>7. ~KeyStored(d)'
    BY <1>1, <1>8, <2>2, <2>6 DEF KeyStored
  <2>8. ~KeyPending(d)'
    BY <1>1, <1>3, <2>2 DEF KeyPending, InTransaction
  <2> QED BY <2>1, <2>2, <2>4, <2>5, <2>7, <2>8
<1>10. KeySpentOnce'
  <2>1. \A d \in Calls : row[d] # "absent" => ~SameKey(req[c], req[d])
    BY CommitPublishes DEF KeyStored
  <2>2. \A d \in Calls : row[d] # "absent" => ~SameKey(req[d], req[c])
    BY <2>1 DEF SameKey
  <2> QED BY <1>1, <1>8, <2>1, <2>2 DEF IInv, KeySpentOnce
<1>11. NeverNegative'
  BY CommitPublishes, OutcomeNotNegative DEF IInv, NeverNegative
<1> QED BY <1>5, <1>6, <1>7, <1>9, <1>10, <1>11 DEF IInv

-----------------------------------------------------------------------------
(* The theorems.                                                           *)

\* No lock is held and nothing is written at the start.
LEMMA InitialInvariant == Init => IInv
<1> SUFFICES ASSUME Init PROVE IInv
  OBVIOUS
<1>1. TypeOK
  BY StockAssumption, PlanAssumption DEF Init, TypeOK, InitialLevels, Level, RowStates
<1>2. NeverNegative
  BY StockAssumption DEF Init, NeverNegative, InitialLevels
<1> QED BY <1>1, <1>2, StockAssumption
        DEF Init, IInv, LocksHeld, ViewIsCurrent, RowsMatchCalls, WrittenIsSound, KeySpentOnce

\* Every action is of one of the kinds of step above.
LEMMA InvariantStep == IInv /\ [Next]_vars => IInv'
<1> SUFFICES ASSUME IInv, [Next]_vars PROVE IInv'
  OBVIOUS
<1>1. TypeOK /\ TypeOK'
  BY TypeStep DEF IInv
<1>2. ASSUME NEW c \in Calls, Begin(c) \/ Lookup(c) \/ AssertWarehouses(c) PROVE IInv'
  <2>1. UNCHANGED <<stock, row, req, lock, view>>
    BY <1>2 DEF Begin, Lookup, AssertWarehouses
  <2>2. \A d \in Calls \ {c} : pc'[d] = pc[d]
    BY <1>1, <1>2 DEF Begin, Lookup, AssertWarehouses, Goto, TypeOK
  <2>3. /\ pc[c] \in {"idle", "lookup", "assert"}
        /\ pc'[c] \in {"lookup", "assert", "lockFirst"} \cup Final
    BY <1>1, <1>2 DEF Begin, Lookup, AssertWarehouses, Goto, TypeOK, Final
  <2> QED BY <1>1, <2>1, <2>2, <2>3, UnlockedStep
<1>3. ASSUME NEW c \in Calls, LockFirst(c) \/ LockSecond(c) PROVE IInv'
  BY <1>1, <1>3, LockStep
<1>4. ASSUME NEW c \in Calls, Refuse(c) \/ KeyConflict(c) \/ ReleaseLost(c) \/ Crash(c)
      PROVE IInv'
  <2>1. \E outcome \in Final \ {"done"} : pc[c] \in InTransaction /\ Leave(c, outcome)
    BY <1>4 DEF Refuse, KeyConflict, ReleaseLost, Crash, Final, InTransaction,
                StatementInAbortedTransaction
  <2> QED BY <1>1, <2>1, LeaveStep
<1>5. ASSUME NEW c \in Calls,
             \/ WriteReserve(c) \/ WriteTransfer(c) \/ WriteAdjust(c)
             \/ WriteRelease(c) \/ WriteReorderPoint(c)
      PROVE IInv'
  BY <1>1, <1>5, WriteStep
<1>6. ASSUME NEW c \in Calls, Commit(c) PROVE IInv'
  BY <1>1, <1>6, CommitStep
<1>7. ASSUME NEW w \in Archivable, SetActive(w) PROVE IInv'
  <2>1. UNCHANGED <<stock, row, req, lock, view, pc>>
    BY <1>7 DEF SetActive
  <2> QED BY <1>1, <2>1, UnlockedStep
<1>8. CASE UNCHANGED vars
  BY <1>1, <1>8, UnlockedStep DEF vars
<1> QED
  BY <1>2, <1>3, <1>4, <1>5, <1>6, <1>7, <1>8 DEF Next, Step, AllAnswered

\* The strengthened invariant: locks protect the levels a transaction works on,
\* what it sees of them is what is committed, and what it will publish is what
\* its operation makes of that.
THEOREM InvariantHolds == Spec => []IInv
  BY InitialInvariant, InvariantStep, PTL DEF Spec

\* No write drives a level's on-hand or committed units below zero, whatever
\* transactions interleave: the database's CHECK constraints never fire.
THEOREM BalancesNeverNegative == Spec => []NeverNegative
  BY InvariantHolds, PTL DEF IInv

\* No two rows of one log table carry the same idempotency key.
THEOREM KeysSpentOnce == Spec => []KeySpentOnce
  BY InvariantHolds, PTL DEF IInv

\* Units are committed only out of what is available at the commit.
THEOREM ReservationsNeverOversell == Spec => NoOversell
<1>1. IInv /\ [Next]_vars =>
        [\A l \in Levels : stock'[l].committed > stock[l].committed =>
           Available(stock'[l]) >= 0 \/ l[2] \in Oversell]_vars
  <2> SUFFICES ASSUME IInv, Next, NEW l \in Levels,
                      stock'[l].committed > stock[l].committed
               PROVE  Available(stock'[l]) >= 0 \/ l[2] \in Oversell
    OBVIOUS
  <2>1. TypeOK
    BY DEF IInv
  <2>2. stock' # stock
    BY <2>1 DEF TypeOK, Level
  <2>3. PICK c \in Calls : Commit(c)
    BY <2>2 DEF Next, AllAnswered, Step, Begin, Lookup, AssertWarehouses, LockFirst,
       LockSecond, Refuse, KeyConflict, ReleaseLost, Crash, Leave, WriteReserve,
       WriteTransfer, WriteAdjust, Write, WriteRelease, WriteReorderPoint, SetActive, vars
  <2>4. /\ stock' = Outcome(c) /\ Permitted(req[c], stock)
        /\ req[c] \in Requests /\ Subject(c) \in Requests
        /\ stock \in [Levels -> Level] /\ stock[l] \in Level
    BY <2>1, <2>3, CommitPublishes, CallLevels DEF TypeOK
  <2>5. CASE req[c].op = "reserve"
    <3>1. stock' = Reserved(req[c], stock)
      BY <2>4, <2>5 DEF Outcome
    <3>2. l = SourceLevel(req[c]) /\ l[2] = req[c].variant
      <4>1. l = SourceLevel(req[c])
        BY <2>4, <3>1 DEF Reserved, Level
      <4> QED BY <4>1 DEF SourceLevel
    <3>3. stock'[l] = Moved(stock[l], 0, req[c].qty) /\ req[c].qty \in Int
      BY <2>4, <3>1, <3>2, RequestFields DEF Reserved
    <3>4. l[2] \in Oversell \/ req[c].qty <= Available(stock[l])
      BY <2>4, <2>5, <3>2 DEF Permitted
    <3> QED BY <2>4, <3>3, <3>4 DEF Available, Moved, Level
  <2>6. CASE req[c].op = "release"
    <3>1. stock'[l] = IF l = SourceLevel(Subject(c))
                      THEN Moved(stock[l], 0, -Releasable(stock[l], Subject(c).qty))
                      ELSE stock[l]
      BY <2>4, <2>6 DEF Outcome, Released
    <3>2. Releasable(stock[l], Subject(c).qty) >= 0
      <4>1. Subject(c).qty \in Int /\ Subject(c).qty > 0
        <5>1. req[c].target \in Calls /\ row[req[c].target] = "active"
          BY <2>3, <2>4, <2>6, CommitPublishes, RequestFields
        <5>2. Subject(c).op = "reserve"
          BY <2>6, <5>1 DEF IInv, RowsMatchCalls, Subject
        <5> QED BY <2>4, <5>2, RequestFields
      <4>2. stock[l].committed >= 0
        BY DEF IInv, NeverNegative
      <4> QED BY <4>1, <4>2 DEF Releasable
    <3>3. Releasable(stock[l], Subject(c).qty) \in Int
      BY <2>4, RequestFields DEF Releasable, Level
    <3> QED BY <2>4, <3>1, <3>2, <3>3 DEF Moved, Level
  <2>7. CASE req[c].op \in {"transfer", "adjust", "setReorderPoint"}
    <3>1. stock'[l].committed = stock[l].committed
      BY <2>4, <2>7 DEF Outcome, Transferred, Adjusted, Repointed, Moved, Level
    <3> QED BY <2>4, <3>1 DEF Level
  <2> QED BY <2>4, <2>5, <2>6, <2>7, RequestFields DEF Ops
<1> QED BY <1>1, InvariantHolds, PTL DEF Spec, NoOversell

-----------------------------------------------------------------------------
(* The crossings.                                                          *)

\* A level that keeps its balance, or whose available units grow, crosses
\* nothing.
LEMMA NoCrossingUpwards ==
  ASSUME NEW before \in Level, NEW after \in Level,
         after.reorder = before.reorder, Available(after) >= Available(before)
  PROVE  ~CrossedLow(before, after)
  BY DEF CrossedLow, Available, Level

\* A release frees committed units only: it crosses nothing.
LEMMA ReleaseCrossesNothing ==
  ASSUME IInv, NEW c \in Calls, req[c].op = "release",
         row[req[c].target] = "active", NEW l \in Levels
  PROVE  ~CrossedLow(stock[l], Outcome(c)[l])
<1>1. /\ TypeOK /\ stock[l] \in Level /\ stock[l].committed >= 0
      /\ Outcome(c) = Released(Subject(c), stock) /\ Outcome(c)[l] \in Level
  BY OutcomeElsewhere DEF IInv, TypeOK, NeverNegative, Outcome
<1>2. Subject(c) \in Requests /\ Subject(c).qty \in Int /\ Subject(c).qty > 0
  <2>1. req[c].target \in Calls
    BY <1>1, RequestFields DEF TypeOK
  <2>2. Subject(c).op = "reserve"
    BY <2>1 DEF IInv, RowsMatchCalls, Subject
  <2> QED BY <1>1, <2>2, CallLevels, RequestFields
<1>3. Outcome(c)[l] = IF l = SourceLevel(Subject(c))
                      THEN Moved(stock[l], 0, -Releasable(stock[l], Subject(c).qty))
                      ELSE stock[l]
  BY <1>1 DEF Released, TypeOK
<1>4. /\ Releasable(stock[l], Subject(c).qty) \in Int
      /\ Releasable(stock[l], Subject(c).qty) >= 0
  BY <1>1, <1>2 DEF Releasable, Level
<1>5. /\ Outcome(c)[l].reorder = stock[l].reorder
      /\ Available(Outcome(c)[l]) >= Available(stock[l])
  BY <1>1, <1>3, <1>4 DEF Moved, Available, Level
<1> QED BY <1>1, <1>5, NoCrossingUpwards

\* A step that writes no level and leaves the crossings of the calls it does
\* not end.
LEMMA QuietCrossings ==
  ASSUME CrossingsInv, UNCHANGED <<stock, req>>,
         \A d \in Calls :
           \/ pc'[d] = pc[d] /\ crossed'[d] = crossed[d]
           \/ /\ pc[d] \in ({"idle"} \cup InTransaction) \ {"written"}
              /\ pc'[d] # "written" /\ crossed'[d] = crossed[d]
           \/ pc'[d] \in Final
  PROVE  CrossingsInv'
<1>1. \A d \in Calls : Needed(d)' = Needed(d) /\ Outcome(d)' = Outcome(d)
  BY DEF Needed, FirstLevel, SecondLevel, TargetFirst, Subject, Outcome
<1>2. \A d \in Calls : pc'[d] \in Final => pc'[d] \notin {"idle"} \cup InTransaction
  BY DEF Final, InTransaction
<1>3. "written" \in InTransaction
  BY DEF InTransaction
<1> QED BY <1>1, <1>2, <1>3 DEF CrossingsInv

\* The write computes the crossings from the balances it read under the locks,
\* which are the committed ones.
LEMMA WriteCrossings ==
  ASSUME IInv, IInv', CrossingsInv, NEW c \in Calls,
         \/ WriteReserve(c) \/ WriteTransfer(c) \/ WriteAdjust(c)
         \/ WriteRelease(c) \/ WriteReorderPoint(c)
  PROVE  CrossingsInv'
<1>1. /\ TypeOK /\ TypeOK' /\ pc[c] = "locked" /\ pc' = [pc EXCEPT ![c] = "written"]
      /\ UNCHANGED <<stock, row, req, lock>>
      /\ \A d \in Calls \ {c} : crossed'[d] = crossed[d] /\ pc'[d] = pc[d]
      /\ pc'[c] = "written"
  BY DEF IInv, TypeOK, WriteReserve, WriteTransfer, WriteAdjust, Write, WriteRelease,
         WriteReorderPoint, Goto
<1>2. \A d \in Calls : Needed(d)' = Needed(d) /\ Outcome(d)' = Outcome(d)
  BY <1>1 DEF Needed, FirstLevel, SecondLevel, TargetFirst, Subject, Outcome
<1>3. /\ Needed(c) \subseteq Levels
      /\ \A l \in Levels : lock[l] = c <=> l \in Needed(c)
      /\ \A l \in Needed(c) : view[c][l] = stock[l] /\ view'[c][l] = Outcome(c)[l]
  BY <1>1, <1>2, CallLevels DEF IInv, LocksHeld, ViewIsCurrent, WrittenIsSound
<1>4. ASSUME req[c].op # "setReorderPoint"
      PROVE  crossed'[c] = {l \in Needed(c) : CrossedLow(stock[l], Outcome(c)[l])}
  <2>1. CASE WriteReserve(c) \/ WriteTransfer(c) \/ WriteAdjust(c)
    <3>1. crossed'[c] = {l \in Levels : lock[l] = c /\ CrossedLow(view[c][l], view'[c][l])}
      BY <1>1, <2>1 DEF WriteReserve, WriteTransfer, WriteAdjust, Write, TypeOK
    <3> QED BY <1>3, <3>1
  <2>2. CASE WriteRelease(c)
    <3>1. crossed'[c] = {}
      BY <1>1, <2>2 DEF WriteRelease, CrossingsInv, InTransaction
    <3>2. \A l \in Needed(c) : ~CrossedLow(stock[l], Outcome(c)[l])
      BY <1>3, <2>2, ReleaseCrossesNothing DEF WriteRelease
    <3> QED BY <3>1, <3>2
  <2>3. CASE WriteReorderPoint(c)
    BY <1>4, <2>3 DEF WriteReorderPoint
  <2> QED BY <2>1, <2>2, <2>3
<1>5. "written" \notin ({"idle"} \cup InTransaction) \ {"written"}
  OBVIOUS
<1> QED BY <1>1, <1>2, <1>4, <1>5 DEF CrossingsInv

\* A commit changes no level another transaction has locked, so the crossings
\* the others carry stay those of their outcome.
LEMMA CommitCrossings ==
  ASSUME IInv, IInv', CrossingsInv, NEW c \in Calls, Commit(c)
  PROVE  CrossingsInv'
<1>1. /\ TypeOK /\ TypeOK' /\ req' = req /\ crossed' = crossed
      /\ pc' = [pc EXCEPT ![c] = "done"]
      /\ \A l \in Levels : lock[l] # c => stock'[l] = stock[l]
  BY DEF IInv, Commit, EndTransaction, Goto, TypeOK
<1>2. \A d \in Calls \ {c} : pc'[d] = pc[d]
  BY <1>1 DEF TypeOK
<1>3. pc'[c] = "done" /\ "done" \notin {"idle"} \cup InTransaction
  BY <1>1 DEF TypeOK, InTransaction
<1>4. ASSUME NEW d \in Calls \ {c}, pc[d] = "written"
      PROVE  {l \in Needed(d) : CrossedLow(stock[l], Outcome(d)[l])}' =
             {l \in Needed(d) : CrossedLow(stock[l], Outcome(d)[l])}
  <2>1. \A l \in Needed(d) : l \in Levels /\ lock[l] = d
    BY <1>1, <1>4, CallLevels DEF IInv, LocksHeld
  <2>2. \A l \in Needed(d) : stock'[l] = stock[l]
    BY <1>1, <2>1
  <2>3. /\ \A l \in Needed(d) : Outcome(d)'[l] = Outcome(d)[l]
        /\ Needed(d)' = Needed(d)
    BY <1>1, <2>2, OutcomeLocal
  <2> QED BY <2>2, <2>3
<1>5. "written" \in InTransaction
  BY DEF InTransaction
<1> QED BY <1>1, <1>2, <1>3, <1>4, <1>5 DEF CrossingsInv

\* Every action is of one of the kinds of step above.
LEMMA CrossingsStep == IInv /\ CrossingsInv /\ [Next]_vars => CrossingsInv'
<1> SUFFICES ASSUME IInv, CrossingsInv, [Next]_vars PROVE CrossingsInv'
  OBVIOUS
<1>1. IInv' /\ TypeOK
  BY InvariantStep DEF IInv
<1>2. ASSUME NEW c \in Calls,
             \/ Begin(c) \/ Lookup(c) \/ AssertWarehouses(c)
             \/ LockFirst(c) \/ LockSecond(c)
      PROVE  CrossingsInv'
  <2>1. UNCHANGED <<stock, req, crossed>>
    BY <1>2 DEF Begin, Lookup, AssertWarehouses, LockFirst, LockSecond
  <2>2. \A d \in Calls \ {c} : pc'[d] = pc[d]
    BY <1>1, <1>2 DEF Begin, Lookup, AssertWarehouses, LockFirst, LockSecond, Goto, TypeOK
  <2>3. /\ pc[c] \in ({"idle"} \cup InTransaction) \ {"written"}
        /\ pc'[c] # "written"
    BY <1>1, <1>2 DEF Begin, Lookup, AssertWarehouses, LockFirst, LockSecond, Goto, TypeOK,
       InTransaction
  <2> QED BY <2>1, <2>2, <2>3, QuietCrossings
<1>3. ASSUME NEW c \in Calls, Refuse(c) \/ KeyConflict(c) \/ ReleaseLost(c) \/ Crash(c)
      PROVE  CrossingsInv'
  <2>1. PICK outcome \in Final : Leave(c, outcome)
    BY <1>3 DEF Refuse, KeyConflict, ReleaseLost, Crash, Final, StatementInAbortedTransaction
  <2>2. /\ UNCHANGED <<stock, req>> /\ pc'[c] \in Final
        /\ \A d \in Calls \ {c} : pc'[d] = pc[d] /\ crossed'[d] = crossed[d]
    BY <1>1, <2>1 DEF Leave, EndTransaction, Goto, TypeOK
  <2> QED BY <2>2, QuietCrossings
<1>4. ASSUME NEW c \in Calls,
             \/ WriteReserve(c) \/ WriteTransfer(c) \/ WriteAdjust(c)
             \/ WriteRelease(c) \/ WriteReorderPoint(c)
      PROVE  CrossingsInv'
  BY <1>1, <1>4, WriteCrossings
<1>5. ASSUME NEW c \in Calls, Commit(c) PROVE CrossingsInv'
  BY <1>1, <1>5, CommitCrossings
<1>6. ASSUME NEW w \in Archivable, SetActive(w) PROVE CrossingsInv'
  <2>1. UNCHANGED <<stock, req, crossed, pc>>
    BY <1>6 DEF SetActive
  <2> QED BY <2>1, QuietCrossings
<1>7. CASE UNCHANGED vars
  BY <1>7, QuietCrossings DEF vars
<1> QED
  BY <1>2, <1>3, <1>4, <1>5, <1>6, <1>7 DEF Next, Step, AllAnswered

\* The crossings a committed write carries in its effects are those its commit
\* makes: no level's alert is missed, none is raised twice.
THEOREM CrossingsAreReported == Spec => CrossingIsReported
<1>1. Init => CrossingsInv
  BY DEF Init, CrossingsInv
<1>2. Spec => []CrossingsInv
  BY <1>1, CrossingsStep, InvariantHolds, PTL DEF Spec
<1>3. IInv /\ CrossingsInv /\ [Next]_vars =>
        [\A c \in Calls : pc[c] = "written" /\ pc'[c] = "done"
           /\ req[c].op # "setReorderPoint" =>
           crossed[c] = {l \in Levels : CrossedLow(stock[l], stock'[l])}]_vars
  <2> SUFFICES ASSUME IInv, CrossingsInv, Next, NEW c \in Calls,
                      pc[c] = "written", pc'[c] = "done", req[c].op # "setReorderPoint"
               PROVE  crossed[c] = {l \in Levels : CrossedLow(stock[l], stock'[l])}
    OBVIOUS
  <2>1. TypeOK
    BY DEF IInv
  <2>2. Commit(c)
    <3>1. ASSUME NEW d \in Calls, NEW outcome, Goto(d, outcome) PROVE d = c /\ outcome = "done"
      BY <2>1, <3>1 DEF Goto, TypeOK
    <3>2. ASSUME NEW d \in Calls, NEW outcome, Leave(d, outcome) PROVE d = c /\ outcome = "done"
      BY <3>1, <3>2 DEF Leave, EndTransaction
    <3>3. ASSUME NEW d \in Calls,
                 \/ Begin(d) \/ Lookup(d) \/ AssertWarehouses(d)
                 \/ LockFirst(d) \/ LockSecond(d)
          PROVE  FALSE
      BY <3>1, <3>3 DEF Begin, Lookup, AssertWarehouses, LockFirst, LockSecond
    <3>4. ASSUME NEW d \in Calls, Refuse(d) \/ KeyConflict(d) \/ ReleaseLost(d) \/ Crash(d)
          PROVE  FALSE
      BY <3>2, <3>4 DEF Refuse, KeyConflict, ReleaseLost, Crash, StatementInAbortedTransaction
    <3>5. ASSUME NEW d \in Calls,
                 \/ WriteReserve(d) \/ WriteTransfer(d) \/ WriteAdjust(d)
                 \/ WriteRelease(d) \/ WriteReorderPoint(d)
          PROVE  FALSE
      BY <3>1, <3>5 DEF WriteReserve, WriteTransfer, WriteAdjust, Write, WriteRelease,
                        WriteReorderPoint
    <3>6. ASSUME NEW d \in Calls, Commit(d) PROVE d = c
      BY <3>1, <3>6 DEF Commit, EndTransaction
    <3>7. ~AllAnswered /\ \A w \in Archivable : ~SetActive(w)
      BY DEF AllAnswered, SetActive, vars
    <3> QED BY <3>3, <3>4, <3>5, <3>6, <3>7 DEF Next, Step
  <2>3. stock' = Outcome(c)
    BY <2>2, CommitPublishes
  <2>4. ASSUME NEW l \in Levels \ Needed(c) PROVE ~CrossedLow(stock[l], Outcome(c)[l])
    <3>1. stock[l] \in Level /\ Outcome(c)[l] = stock[l]
      BY <2>1, OutcomeElsewhere DEF TypeOK
    <3> QED BY <3>1 DEF CrossedLow, Available, Level
  <2>5. Needed(c) \subseteq Levels
    BY <2>1, CallLevels
  <2> QED BY <2>3, <2>4, <2>5 DEF CrossingsInv
<1> QED BY <1>2, <1>3, InvariantHolds, PTL DEF Spec, CrossingIsReported

-----------------------------------------------------------------------------
(* The transactions implement the ledger.                                  *)

\* A commit is one step of the ledger.
LEMMA CommitIsLedgerStep ==
  ASSUME IInv, NEW c \in Calls, Commit(c)
  PROVE  Ledger!LedgerNext
<1>1. /\ stock' = Outcome(c) /\ Permitted(req[c], stock)
      /\ row[c] = "absent" /\ ~KeyStored(c)
      /\ req[c].op = "release" => row[req[c].target] = "active"
      /\ row' = RowsAfter(c)
      /\ UNCHANGED <<open, req>>
      /\ req[c].op \in Ops
  BY CommitPublishes, RequestFields DEF Commit, IInv, TypeOK
<1>2. ~Ledger!Spent(c)
  BY <1>1 DEF Ledger!Spent, KeyStored, Ledger!SameKey, SameKey
<1>3. Ledger!Permitted(req[c], stock)
  BY <1>1 DEF Ledger!Permitted, Permitted, Ledger!Available, Available,
              Ledger!SourceLevel, SourceLevel
<1>4. CASE req[c].op = "reserve"
  <2>1. stock' = Ledger!Reserved(req[c], stock) /\ row' = [row EXCEPT ![c] = "active"]
    BY <1>1, <1>4 DEF Outcome, RowsAfter, Ledger!Reserved, Reserved, Ledger!Moved, Moved,
                      Ledger!SourceLevel, SourceLevel
  <2> QED BY <1>1, <1>2, <1>3, <1>4, <2>1
          DEF Ledger!LedgerNext, Ledger!LedgerReserve, Ledger!Post
<1>5. CASE req[c].op = "transfer"
  <2>1. stock' = Ledger!Transferred(req[c], stock) /\ row' = [row EXCEPT ![c] = "logged"]
    BY <1>1, <1>5 DEF Outcome, RowsAfter, Ledger!Transferred, Transferred, Ledger!Moved, Moved,
       Ledger!SourceLevel, SourceLevel, Ledger!TargetLevel, TargetLevel
  <2> QED BY <1>1, <1>2, <1>3, <1>5, <2>1
          DEF Ledger!LedgerNext, Ledger!LedgerTransfer, Ledger!Post
<1>6. CASE req[c].op = "adjust"
  <2>1. stock' = Ledger!Adjusted(req[c], stock) /\ row' = [row EXCEPT ![c] = "logged"]
    BY <1>1, <1>6 DEF Outcome, RowsAfter, Ledger!Adjusted, Adjusted, Ledger!Moved, Moved,
                      Ledger!SourceLevel, SourceLevel
  <2> QED BY <1>1, <1>2, <1>3, <1>6, <2>1
          DEF Ledger!LedgerNext, Ledger!LedgerAdjust, Ledger!Post
<1>7. CASE req[c].op = "release"
  <2>1. /\ stock' = Ledger!Released(req[req[c].target], stock)
        /\ row' = [row EXCEPT ![req[c].target] = "released"]
    BY <1>1, <1>7 DEF Outcome, RowsAfter, Subject, Ledger!Released, Released, Ledger!Moved,
       Moved, Ledger!Releasable, Releasable, Ledger!SourceLevel, SourceLevel
  <2> QED BY <1>1, <1>7, <2>1 DEF Ledger!LedgerNext, Ledger!LedgerRelease
<1>8. CASE req[c].op = "setReorderPoint"
  <2>1. stock' = Ledger!Repointed(req[c], stock) /\ row' = row
    BY <1>1, <1>8 DEF Outcome, RowsAfter, Ledger!Repointed, Repointed,
                      Ledger!SourceLevel, SourceLevel
  <2> QED BY <1>1, <1>8, <2>1 DEF Ledger!LedgerNext, Ledger!LedgerSetReorderPoint
<1> QED BY <1>1, <1>4, <1>5, <1>6, <1>7, <1>8 DEF Ops

\* Every behaviour of the interleaved transactions is a behaviour of the ledger
\* in which each write happens at one instant on the balance of that instant.
THEOREM TransactionsImplementLedger == Spec => LedgerSpec
<1>1. Init => Ledger!LedgerInit
  BY PlanAssumption DEF Init, Ledger!LedgerInit, InitialLevels, Ledger!InitialLevels, Levels, Ledger!Levels
<1>2. IInv /\ [Next]_vars => [Ledger!LedgerNext]_(Ledger!ledgerVars)
  <2> SUFFICES ASSUME IInv, [Next]_vars
               PROVE  Ledger!LedgerNext \/ UNCHANGED <<stock, open, row, req>>
    BY DEF Ledger!ledgerVars
  <2>1. ASSUME NEW c \in Calls, Commit(c) PROVE Ledger!LedgerNext
    BY <2>1, CommitIsLedgerStep
  <2>2. ASSUME NEW w \in Archivable, SetActive(w) PROVE Ledger!LedgerNext
    BY <2>2, PlanAssumption
       DEF SetActive, Ledger!LedgerNext, Ledger!LedgerSetActive
  <2>3. ASSUME NEW c \in Calls, Begin(c) \/ Crash(c) \/ Step(c), ~Commit(c)
        PROVE  UNCHANGED <<stock, open, row, req>>
    BY <2>3 DEF Step, Begin, Lookup, AssertWarehouses, LockFirst, LockSecond, Refuse,
       KeyConflict, ReleaseLost, Crash, Leave, WriteReserve, WriteTransfer, WriteAdjust,
       Write, WriteRelease, WriteReorderPoint
  <2> QED BY <2>1, <2>2, <2>3 DEF Next, AllAnswered, vars
<1> QED BY <1>1, <1>2, InvariantHolds, PTL DEF Spec, LedgerSpec, Ledger!LedgerSpec
=============================================================================

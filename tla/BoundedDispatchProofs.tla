----------------------- MODULE BoundedDispatchProofs -----------------------
(* Proofs about BoundedDispatch: permits, draining and errors of the       *)
(* dispatch loop, for any deliveries, prefetch, errors, stops and          *)
(* cancellations.                                                          *)
EXTENDS BoundedDispatch, FiniteSetTheorems, TLAPS

(* Permits the dispatcher holds itself: the one it waits for a delivery    *)
(* with.                                                                   *)
InHand == IF pc = "next" THEN 1 ELSE 0

(* Permits balance in every state, also between two iterators.             *)
Balanced == permits + Cardinality(Running) + InHand = Concurrency

(* in_flight holds the running handlers, and those that ended and were not *)
(* recorded; it is empty once the loop is left.                            *)
Tracked ==
    /\ Running \subseteq inFlight
    /\ \A i \in inFlight : task[i] \in {"running"} \cup Outcomes
    /\ pc \in {"close", "open", "returned"} => inFlight = {}

(* A failed handler is still to be recorded, or has set first_error; the   *)
(* loop is left with it, or cancelled; between iterators none is left.     *)
Noticed ==
    /\ pc \notin {"open", "returned"} => \A i \in Items : task[i] = "failed" => i \in inFlight \/ firstError
    /\ pc \in {"open", "returned"} => \A i \in Items : task[i] # "failed"
    /\ pc = "abandon" => exit = "cancelled"
    /\ ErrorSurfaces

(* The inductive invariant of BoundedDispatch.                             *)
DispatchInv == TypeOK /\ Balanced /\ Tracked /\ Noticed

(* The handlers that run can be counted.                                   *)
LEMMA RunningFinite == IsFiniteSet(Running) /\ Cardinality(Running) \in Nat
<1>1. Running \subseteq Items
  BY DEF Running
<1>2. IsFiniteSet(Running)
  BY <1>1, DispatchAssumption, FS_Subset
<1> QED BY <1>2, FS_CardinalityType

(* The invariant holds before the loop starts.                             *)
LEMMA InitDispatch == Init => DispatchInv
<1> SUFFICES ASSUME Init PROVE DispatchInv
  OBVIOUS
<1>1. Running = {}
  BY DEF Init, Running
<1>2. TypeOK
  <2>1. Concurrency \in 0 .. Concurrency /\ 0 \in 0 .. MaxErrors /\ 0 \in 0 .. MaxLosses
    BY DispatchAssumption
  <2>2. firstError \in BOOLEAN /\ stop \in BOOLEAN /\ cancelled \in BOOLEAN
    BY DEF Init
  <2> QED BY <2>1, <2>2 DEF Init, TypeOK, Outcomes
<1>3. Balanced
  BY <1>1, DispatchAssumption, FS_EmptySet DEF Init, Balanced, InHand
<1>4. Tracked /\ Noticed
  BY <1>1 DEF Init, Tracked, Noticed, ErrorSurfaces
<1> QED BY <1>2, <1>3, <1>4 DEF DispatchInv

(* The loop never has more permits than the prefetch, and a running handler*)
(* holds one.                                                              *)
LEMMA PermitsHeld ==
    ASSUME DispatchInv
    PROVE  /\ permits \in Nat /\ permits <= Concurrency
           /\ \A i \in Items : task[i] = "running" => permits + 1 <= Concurrency /\ Cardinality(Running) >= 1
           /\ pc = "next" => permits + 1 <= Concurrency
<1>1. permits \in Nat /\ permits <= Concurrency /\ Concurrency \in Nat
  BY DispatchAssumption DEF DispatchInv, TypeOK
<1>2. permits + Cardinality(Running) + InHand = Concurrency
  BY DEF DispatchInv, Balanced
<1>3. InHand \in {0, 1} /\ (pc = "next" => InHand = 1)
  BY DEF InHand
<1>4. ASSUME NEW i \in Items, task[i] = "running" PROVE Cardinality(Running) >= 1
  <2>1. i \in Running
    BY <1>4 DEF Running
  <2>2. Cardinality(Running \ {i}) = Cardinality(Running) - 1 /\ IsFiniteSet(Running \ {i})
    BY <2>1, RunningFinite, FS_RemoveElement
  <2>3. Cardinality(Running \ {i}) \in Nat
    BY <2>2, FS_CardinalityType
  <2> QED BY <2>2, <2>3, RunningFinite
<1> QED BY <1>1, <1>2, <1>3, <1>4, RunningFinite

(* Every step of the dispatcher and of a handler keeps the types.          *)
LEMMA NextDispatchType == DispatchInv /\ [Next]_vars => TypeOK'
<1> SUFFICES ASSUME DispatchInv, [Next]_vars PROVE TypeOK'
  OBVIOUS
<1>1. TypeOK /\ Concurrency \in Nat
  BY DispatchAssumption DEF DispatchInv
<1>2. /\ permits \in Nat /\ permits <= Concurrency
      /\ \A i \in Items : task[i] = "running" => permits + 1 <= Concurrency
      /\ pc = "next" => permits + 1 <= Concurrency
  BY PermitsHeld
<1> USE <1>1, <1>2, DispatchAssumption DEF TypeOK, Outcomes, Exit
<1>3. CASE Open
  <2>1. Concurrency \in 0 .. Concurrency
    OBVIOUS
  <2>2. permits' \in 0 .. Concurrency /\ firstError' \in BOOLEAN
    BY <1>3, <2>1 DEF Open
  <2> QED BY <1>3, <2>2 DEF Open
<1>4. CASE Acquire
  BY <1>4 DEF Acquire
<1>5. ASSUME NEW i \in Items, Dispatch(i) PROVE TypeOK'
  BY <1>5 DEF Dispatch
<1>6. CASE IteratorTimeout \/ IteratorFails
  BY <1>6 DEF IteratorTimeout, IteratorFails
<1>7. CASE Gathered \/ Abandoned
  BY <1>7 DEF Gathered, Abandoned
<1>8. CASE Drained
  BY <1>8 DEF Drained
<1>9. CASE Close
  BY <1>9 DEF Close
<1>10. CASE Stop
  BY <1>10 DEF Stop
<1>11. CASE Cancel
  <2>1. permits' \in 0 .. Concurrency
    BY <1>11 DEF Cancel, CancelLoop, CancelDrain, CancelIdle
  <2> QED BY <1>11, <2>1 DEF Cancel, CancelLoop, CancelDrain, CancelIdle
<1>12. ASSUME NEW i \in Items, HandlerReturns(i) \/ HandlerCancelled(i) \/ HandlerRaises(i) PROVE TypeOK'
  BY <1>12 DEF HandlerReturns, HandlerCancelled, HandlerRaises
<1>13. ASSUME NEW i \in Items, RecordCompletion(i) PROVE TypeOK'
  <2>1. firstError' \in BOOLEAN
    BY <1>13, Zenon DEF RecordCompletion
  <2> QED BY <1>13, <2>1 DEF RecordCompletion
<1>14. CASE UNCHANGED vars
  BY <1>14 DEF vars
<1> QED BY <1>3, <1>4, <1>5, <1>6, <1>7, <1>8, <1>9, <1>10, <1>11, <1>12, <1>13, <1>14 DEF Next, Dispatcher, Handler

(* Every step returns the permits it took, or keeps them for a handler.    *)
LEMMA NextBalanced == DispatchInv /\ [Next]_vars => Balanced'
<1> SUFFICES ASSUME DispatchInv, [Next]_vars PROVE Balanced'
  OBVIOUS
<1>1. /\ permits \in Nat /\ Concurrency \in Nat
      /\ permits + Cardinality(Running) + InHand = Concurrency
      /\ task \in [Items -> {"queued", "running", "done"} \cup Outcomes]
      /\ pc \in {"close", "open", "returned"} => inFlight = {}
      /\ Running \subseteq inFlight
  BY DispatchAssumption DEF DispatchInv, TypeOK, Balanced, Tracked
<1>2. IsFiniteSet(Running) /\ Cardinality(Running) \in Nat
  BY RunningFinite
(* Steps that start and end no handler.                                    *)
<1>s. ASSUME UNCHANGED task,
             \/ permits' = permits /\ InHand' = InHand
             \/ permits' = permits + 1 /\ InHand = 1 /\ InHand' = 0
             \/ permits' = permits - 1 /\ InHand = 0 /\ InHand' = 1
      PROVE  Balanced'
  <2>1. Running' = Running
    BY <1>s DEF Running
  <2>2. InHand \in {0, 1}
    BY DEF InHand
  <2> QED BY <1>1, <1>2, <1>s, <2>1, <2>2 DEF Balanced
<1>3. CASE Open
  <2>1. Cardinality(Running) = 0 /\ InHand = 0 /\ InHand' = 0
    <3>1. Running = {}
      BY <1>1, <1>3 DEF Open
    <3> QED BY <1>3, <3>1, FS_EmptySet DEF Open, InHand
  <2>2. permits = Concurrency
    BY <1>1, <2>1
  <2>3. permits' = permits
    BY <1>3, <2>2 DEF Open
  <2> QED BY <1>3, <1>s, <2>1, <2>3 DEF Open
<1>4. CASE Acquire
  <2>1. \/ permits' = permits /\ InHand' = InHand
        \/ permits' = permits - 1 /\ InHand = 0 /\ InHand' = 1
    BY <1>1, <1>4 DEF Acquire, Exit, InHand
  <2> QED BY <1>4, <1>s, <2>1 DEF Acquire
<1>5. ASSUME NEW i \in Items, Dispatch(i) PROVE Balanced'
  <2>1. Running' = Running \cup {i} /\ i \notin Running
    BY <1>1, <1>5 DEF Dispatch, Running
  <2>2. Cardinality(Running') = Cardinality(Running) + 1
    BY <1>2, <2>1, FS_AddElement
  <2>3. permits' = permits /\ InHand = 1 /\ InHand' = 0
    BY <1>5 DEF Dispatch, InHand
  <2> QED BY <1>1, <1>2, <2>2, <2>3 DEF Balanced
<1>6. CASE IteratorTimeout \/ IteratorFails
  <2>1. permits' = permits + 1 /\ InHand = 1 /\ InHand' = 0 /\ UNCHANGED task
    BY <1>6 DEF IteratorTimeout, IteratorFails, Exit, InHand
  <2> QED BY <1>1, <1>s, <2>1
<1>7. CASE Gathered \/ Abandoned \/ Drained \/ Stop
  <2>1. permits' = permits /\ InHand' = InHand /\ UNCHANGED task
    BY <1>7 DEF Gathered, Abandoned, Drained, Stop, InHand
  <2> QED BY <1>s, <2>1
<1>8. CASE Close
  <2>1. Running' = Running /\ permits' = permits /\ InHand' = InHand
    BY <1>1, <1>8 DEF Close, Running, InHand
  <2> QED BY <1>1, <2>1 DEF Balanced
<1>9. CASE Cancel
  <2>1. UNCHANGED task
    BY <1>9 DEF Cancel
  <2>2. CASE CancelLoop
    BY <1>1, <1>s, <2>1, <2>2 DEF CancelLoop, InHand
  <2>3. CASE CancelDrain \/ CancelIdle
    BY <1>1, <1>s, <2>1, <2>3 DEF CancelDrain, CancelIdle, InHand
  <2> QED BY <1>9, <2>2, <2>3 DEF Cancel
<1>10. ASSUME NEW i \in Items, HandlerReturns(i) \/ HandlerCancelled(i) \/ HandlerRaises(i) PROVE Balanced'
  <2>1. Running' = Running \ {i} /\ i \in Running
    BY <1>1, <1>10 DEF HandlerReturns, HandlerCancelled, HandlerRaises, Running
  <2>2. Cardinality(Running') = Cardinality(Running) - 1
    BY <1>2, <2>1, FS_RemoveElement
  <2>3. permits' = permits + 1 /\ InHand' = InHand /\ InHand \in {0, 1}
    BY <1>10 DEF HandlerReturns, HandlerCancelled, HandlerRaises, InHand
  <2> QED BY <1>1, <1>2, <2>2, <2>3 DEF Balanced
<1>11. ASSUME NEW i \in Items, RecordCompletion(i) PROVE Balanced'
  <2>1. permits' = permits /\ InHand' = InHand /\ UNCHANGED task
    BY <1>11 DEF RecordCompletion, InHand
  <2> QED BY <1>s, <2>1
<1>12. CASE UNCHANGED vars
  <2>1. permits' = permits /\ InHand' = InHand /\ UNCHANGED task
    BY <1>12 DEF vars, InHand
  <2> QED BY <1>s, <2>1
<1> QED BY <1>3, <1>4, <1>5, <1>6, <1>7, <1>8, <1>9, <1>10, <1>11, <1>12 DEF Next, Dispatcher, Handler

(* Every step keeps track of the handlers and notices their errors.        *)
LEMMA NextTracked == DispatchInv /\ [Next]_vars => Tracked' /\ Noticed'
<1> SUFFICES ASSUME DispatchInv, [Next]_vars PROVE Tracked' /\ Noticed'
  OBVIOUS
<1>1. TypeOK /\ Tracked /\ Noticed
  BY DEF DispatchInv
<1> USE <1>1 DEF TypeOK, Tracked, Noticed, ErrorSurfaces, Running, Outcomes, Exit
<1>3. CASE Open
  BY <1>3 DEF Open
<1>4. CASE Acquire
  BY <1>4 DEF Acquire
<1>5. ASSUME NEW i \in Items, Dispatch(i) PROVE Tracked' /\ Noticed'
  BY <1>5 DEF Dispatch
<1>6. CASE IteratorTimeout \/ IteratorFails
  BY <1>6 DEF IteratorTimeout, IteratorFails
<1>7. CASE Gathered \/ Abandoned \/ Drained
  BY <1>7 DEF Gathered, Abandoned, Drained
<1>8. CASE Close
  BY <1>8 DEF Close
<1>9. CASE Cancel
  BY <1>9 DEF Cancel, CancelLoop, CancelDrain, CancelIdle
<1>10. CASE Stop
  BY <1>10 DEF Stop
<1>11. ASSUME NEW i \in Items, HandlerReturns(i) \/ HandlerCancelled(i) \/ HandlerRaises(i) PROVE Tracked' /\ Noticed'
  BY <1>11 DEF HandlerReturns, HandlerCancelled, HandlerRaises
<1>12. ASSUME NEW i \in Items, RecordCompletion(i) PROVE Tracked' /\ Noticed'
  <2>1. firstError => firstError'
    BY <1>12 DEF RecordCompletion
  <2>2. task[i] = "failed" => firstError'
    BY <1>12 DEF RecordCompletion
  <2> QED BY <1>12, <2>1, <2>2 DEF RecordCompletion
<1>13. CASE UNCHANGED vars
  BY <1>13 DEF vars
<1> QED BY <1>3, <1>4, <1>5, <1>6, <1>7, <1>8, <1>9, <1>10, <1>11, <1>12, <1>13 DEF Next, Dispatcher, Handler

(* Whatever handlers raise, iterators fail, stops and cancellations come:  *)
(* permits balance, so no more handlers run than the prefetch allows; none *)
(* runs while the channel closes; and no handler's error is swallowed.     *)
THEOREM DispatchIsSound == Spec => []DispatchSound
<1>1. DispatchInv /\ [Next]_vars => DispatchInv'
  BY NextDispatchType, NextBalanced, NextTracked DEF DispatchInv
<1>2. DispatchInv => DispatchSound
  BY DEF DispatchInv, DispatchSound, Balanced, InHand, PermitsBalance, Tracked, Noticed, DrainedBeforeClose
<1> QED BY InitDispatch, <1>1, <1>2, PTL DEF Spec
=============================================================================

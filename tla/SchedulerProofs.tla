--------------------------- MODULE SchedulerProofs ---------------------------
(* Theorems about Scheduler, for every ring size, load and set of events. *)
EXTENDS Scheduler, TLAPS

-----------------------------------------------------------------------------
(* Type correctness: no index ever leaves the ring. *)

\* After maps a slot of the ring to a slot of the ring.
LEMMA AfterType == \A i \in Slots : After(i) \in Slots
  BY SizeAssumption DEF After, Wrap, Slots

\* The types the proof needs: TypeOK, and what is being posted is an event.
TypeInv == TypeOK /\ (pc = "put" => arg \in Events)

LEMMA TypeInvInit == Init => TypeInv
  BY SizeAssumption, CallsAssumption DEF Init, TypeInv, TypeOK, Slots

\* The critical section of scheduler_event_put keeps the ring well typed.
LEMMA EnqueueType ==
  ASSUME TypeOK, NEW e \in Events, Enqueue(e)
  PROVE  /\ head' \in Slots /\ tail' \in Slots /\ is_empty' \in BOOLEAN
         /\ slots' \in [Slots -> Events \cup {NoEvent}]
         /\ fresh' \in SUBSET Slots
  BY AfterType DEF TypeOK, Enqueue

LEMMA TypeInvStep == TypeInv /\ [Next]_vars => TypeInv'
<1> SUFFICES ASSUME TypeInv, [Next]_vars PROVE TypeInv'
  OBVIOUS
<1> USE DEF TypeInv, TypeOK, ring
<1>1. CASE ResetIndices
  BY <1>1, SizeAssumption, CallsAssumption DEF ResetIndices, Slots
<1>2. CASE ResetRoom
  BY <1>2 DEF ResetRoom
<1>3. CASE EnterLoop
  BY <1>3 DEF EnterLoop
<1>4. CASE \E e \in Events : MainPutCheck(e)
  BY <1>4 DEF MainPutCheck, MayPut
<1>5. CASE MainPutCommit
  BY <1>5, EnqueueType DEF MainPutCommit
<1>6. CASE Execute
  BY <1>6 DEF Execute
<1>7. CASE HandlerReturns
  BY <1>7 DEF HandlerReturns
<1>8. CASE AdvanceTail
  BY <1>8, AfterType DEF AdvanceTail
<1>9. CASE SetRoom
  BY <1>9 DEF SetRoom
<1>10. CASE \E e \in Events : IrqPut(e)
  <2> PICK e \in Events : IrqPut(e)
    BY <1>10
  <2> QED
    BY EnqueueType DEF IrqPut
<1>11. CASE \E e \in Events \cup Oversized : Refuse(e)
  BY <1>11 DEF Refuse, vars
<1>12. CASE UNCHANGED vars
  BY <1>12 DEF vars
<1> QED
  BY <1>1, <1>2, <1>3, <1>4, <1>5, <1>6, <1>7, <1>8, <1>9, <1>10, <1>11,
     <1>12 DEF Next, MainThread

LEMMA TypeInvariant == Spec => []TypeInv
  BY TypeInvInit, TypeInvStep, PTL DEF Spec

\* At any load the ring's indices stay inside the ring and its fields typed.
THEOREM TypeCorrect == Spec => []TypeOK
<1>1. TypeInv => TypeOK
  BY DEF TypeInv
<1> QED
  BY <1>1, TypeInvariant, PTL

-----------------------------------------------------------------------------
(* No slot is executed twice for one post. *)

\* Slot i lies between tail and head.
InRing(i) ==
    IF head = tail THEN ~is_empty /\ pc # "room"
    ELSE IF tail < head THEN tail <= i /\ i < head
    ELSE tail <= i \/ i < head

\* Slot i has not been executed since it was written, or is being executed.
Live(i) == i \in fresh \/ (i = tail /\ InHandler)

\* NoStaleExecution speaks of the tail alone; it is kept because every slot in
\* the ring is live, and because all slots are while the ring is marked full,
\* which covers the loads at which a post overruns the tail.  While a handler
\* runs, its slot still counts as taken.
FreshInv ==
    /\ InHandler => HasWork
    /\ \A i \in Slots : InRing(i) => Live(i)
    /\ ~is_empty /\ pc # "room" => \A i \in Slots : Live(i)

LEMMA FreshInit == Init => FreshInv
  BY DEF Init, FreshInv, InRing, InHandler

\* A post adds the slot it writes to the ring, and no other.
LEMMA EnqueueFresh ==
  ASSUME TypeInv, FreshInv, NEW e \in Events, Enqueue(e),
         pc' # "room" => pc # "room", InHandler' = InHandler,
         is_empty \/ pc # "room", pc' = "room" => pc = "room"
  PROVE  FreshInv'
<1> USE SizeAssumption DEF TypeInv, TypeOK, Slots
<1>1. \A i \in Slots : InRing(i)' => InRing(i) \/ i = head \/ (~is_empty /\ pc # "room")
  BY DEF InRing, Enqueue, After, Wrap
<1>2. \A i \in Slots : Live(i) \/ i = head => Live(i)'
  BY DEF Live, Enqueue
<1>3. \A i \in Slots : InRing(i)' => Live(i)'
  BY <1>1, <1>2 DEF FreshInv
<1>4. ASSUME ~is_empty', pc' # "room" PROVE \A i \in Slots : Live(i)'
  <2>1. CASE is_empty
    <3>1. \A i \in Slots : InRing(i)'
      BY <1>4, <2>1 DEF InRing, Enqueue
    <3> QED BY <3>1, <1>3
  <2>2. CASE ~is_empty
    BY <2>2, <1>4, <1>2 DEF FreshInv
  <2> QED BY <2>1, <2>2
<1>5. HasWork'
  BY DEF HasWork, Enqueue, After, Wrap
<1> QED
  BY <1>3, <1>4, <1>5 DEF FreshInv

LEMMA FreshStep == TypeInv /\ FreshInv /\ [Next]_vars => FreshInv'
<1> SUFFICES ASSUME TypeInv, FreshInv, [Next]_vars PROVE FreshInv'
  OBVIOUS
<1> USE DEF ring, HasWork
<1>1. CASE ResetIndices
  BY <1>1 DEF ResetIndices, FreshInv, InRing, Live, InHandler, Slots, TypeInv, TypeOK
<1>2. CASE ResetRoom
  BY <1>2 DEF ResetRoom, FreshInv, InRing, Live, InHandler
<1>3. CASE EnterLoop
  BY <1>3 DEF EnterLoop, FreshInv, InRing, Live, InHandler
<1>4. CASE \E e \in Events : MainPutCheck(e)
  BY <1>4 DEF MainPutCheck, MayPut, FreshInv, InRing, Live, InHandler
<1>5. CASE MainPutCommit
  <2>1. arg \in Events /\ Enqueue(arg)
    BY <1>5 DEF MainPutCommit, TypeInv
  <2>2. InHandler' = InHandler /\ pc # "room" /\ pc' # "room"
    BY <1>5 DEF MainPutCommit, InHandler, TypeInv, TypeOK
  <2> QED
    BY <2>1, <2>2, EnqueueFresh
<1>6. CASE Execute
  BY <1>6 DEF Execute, FreshInv, InRing, Live, InHandler
<1>7. CASE HandlerReturns
  BY <1>7 DEF HandlerReturns, FreshInv, InRing, Live, InHandler
<1>8. CASE AdvanceTail
  <2>1. \A i \in Slots : InRing(i)' => Live(i) /\ i # tail
    BY <1>8, SizeAssumption
    DEF AdvanceTail, FreshInv, InRing, InHandler, After, Wrap, Slots, TypeInv, TypeOK
  <2> QED
    BY <1>8, <2>1 DEF AdvanceTail, FreshInv, Live, InHandler
<1>9. CASE SetRoom
  BY <1>9 DEF SetRoom, FreshInv, InRing, Live, InHandler
<1>10. CASE \E e \in Events : IrqPut(e)
  <2> PICK e \in Events : IrqPut(e)
    BY <1>10
  <2>1. Enqueue(e) /\ is_empty /\ pc' = pc /\ InHandler' = InHandler
    BY DEF IrqPut, InHandler
  <2> QED
    BY <2>1, EnqueueFresh
<1>11. CASE UNCHANGED vars
  BY <1>11 DEF vars, FreshInv, InRing, Live, InHandler
<1> QED
  BY <1>1, <1>2, <1>3, <1>4, <1>5, <1>6, <1>7, <1>8, <1>9, <1>10, <1>11
  DEF Next, MainThread, Refuse

\* At any load, and with interrupts posting between any two stores of the main
\* loop: the loop calls only slots written since they were last executed.
THEOREM NeverStale == Spec => []NoStaleExecution
<1>1. TypeInv /\ FreshInv => NoStaleExecution
  BY DEF TypeInv, TypeOK, FreshInv, NoStaleExecution, HasWork, InRing, Live,
     InHandler, Slots
<1> QED
  BY <1>1, TypeInvariant, FreshInit, FreshStep, PTL DEF Spec
=============================================================================

-------------------------- MODULE SchedulerRefinement --------------------------
(***************************************************************************)
(* The ring of Scheduler implements the FIFO of EventQueue, whatever the   *)
(* size of the ring, as long as fewer events are outstanding than it has   *)
(* slots: one slot then always stays unused, the flag is never cleared,    *)
(* and both unprotected accesses to it are harmless.                       *)
(***************************************************************************)
EXTENDS SchedulerProofs, SequenceTheorems

-----------------------------------------------------------------------------
(* The ring as a sequence. *)

LEMMA CountOfType ==
  \A h, t \in Slots, room \in BOOLEAN : CountOf(h, t, room) \in 0 .. N
  BY SizeAssumption DEF CountOf, Slots

\* Advancing the head of a ring with two unused slots takes the next slot.
LEMMA CountOfEnqueue ==
  ASSUME NEW h \in Slots, NEW t \in Slots, CountOf(h, t, TRUE) + 1 < N
  PROVE  /\ After(h) # t
         /\ CountOf(After(h), t, TRUE) = CountOf(h, t, TRUE) + 1
         /\ Wrap(t + CountOf(h, t, TRUE)) = h
         /\ \A k \in 1 .. CountOf(h, t, TRUE) : Wrap(t + k - 1) # h
  BY SizeAssumption DEF CountOf, After, Wrap, Slots

\* Advancing the tail of a ring that is not empty frees its first slot.
LEMMA CountOfAdvance ==
  ASSUME NEW h \in Slots, NEW t \in Slots, CountOf(h, t, TRUE) > 0
  PROVE  /\ CountOf(h, After(t), TRUE) = CountOf(h, t, TRUE) - 1
         /\ \A k \in 1 .. CountOf(h, t, TRUE) - 1 : Wrap(After(t) + k - 1) = Wrap(t + k)
  BY SizeAssumption DEF CountOf, After, Wrap, Slots

LEMMA CountType == TypeOK => Count \in 0 .. N
  BY CountOfType DEF TypeOK, Count

\* Every occupied slot holds an event.
HoldsEvents == \A k \in 1 .. Count : slots[Wrap(tail + k - 1)] \in Events

\* What the ring holds is a sequence of events as long as Count says.
LEMMA QueuedSeq ==
  ASSUME TypeOK, HoldsEvents
  PROVE  /\ Queued \in Seq(Events)
         /\ Len(Queued) = Count
         /\ \A k \in 1 .. Count : Queued[k] = slots[Wrap(tail + k - 1)]
<1>1. Count \in Nat
  BY CountType, SizeAssumption
<1>2. Queued \in [1 .. Count -> Events]
  BY DEF Queued, HoldsEvents
<1>3. Queued \in Seq(Events)
  BY <1>1, <1>2, SeqDef
<1>4. Len(Queued) = Count
  BY <1>1, <1>2, <1>3, LenProperties
<1> QED
  BY <1>3, <1>4 DEF Queued

\* The same in the next state.
LEMMA QueuedSeqNext ==
  ASSUME TypeOK', HoldsEvents'
  PROVE  /\ Queued' \in Seq(Events)
         /\ Len(Queued') = Count'
         /\ \A k \in 1 .. Count' : Queued'[k] = slots'[Wrap(tail' + k - 1)]
<1>1. Count' \in Nat
  <2>1. head' \in Slots /\ tail' \in Slots /\ is_empty' \in BOOLEAN
    BY DEF TypeOK
  <2> QED
    BY <2>1, CountOfType, SizeAssumption DEF Count
<1>2. Queued' \in [1 .. Count' -> Events]
  BY DEF Queued, HoldsEvents
<1>3. Queued' \in Seq(Events)
  BY <1>1, <1>2, SeqDef
<1>4. Len(Queued') = Count'
  BY <1>1, <1>2, <1>3, LenProperties
<1> QED
  BY <1>3, <1>4 DEF Queued

\* A post into a ring with a spare slot besides the one it takes appends.
LEMMA EnqueueCount ==
  ASSUME TypeOK, NEW e, Enqueue(e), is_empty, Count + 1 < N
  PROVE  /\ is_empty'
         /\ Count' = Count + 1
         /\ Wrap(tail + Count) = head
         /\ \A k \in 1 .. Count : Wrap(tail + k - 1) # head
<1>1. /\ After(head) # tail
      /\ CountOf(After(head), tail, TRUE) = CountOf(head, tail, TRUE) + 1
      /\ Wrap(tail + CountOf(head, tail, TRUE)) = head
      /\ \A k \in 1 .. CountOf(head, tail, TRUE) : Wrap(tail + k - 1) # head
  BY CountOfEnqueue DEF TypeOK, Count
<1>2. head' = After(head) /\ tail' = tail /\ is_empty' = TRUE
  BY <1>1 DEF Enqueue
<1> QED
  BY <1>1, <1>2 DEF Count, TypeOK

LEMMA WrapType ==
  ASSUME TypeOK
  PROVE  \A k \in 1 .. Count : Wrap(tail + k - 1) \in Slots
  BY SizeAssumption DEF TypeOK, Count, CountOf, Wrap, Slots

LEMMA EnqueueAppends ==
  ASSUME TypeOK, TypeOK', HoldsEvents, NEW e \in Events, Enqueue(e), is_empty,
         Count + 1 < N
  PROVE  HoldsEvents' /\ Queued' = Append(Queued, e)
<1>1. Count \in Nat /\ tail \in Nat
  BY CountType, SizeAssumption DEF TypeOK, Slots
<1>2. \A k \in 1 .. Count' :
         slots'[Wrap(tail' + k - 1)] = IF k = Count + 1 THEN e ELSE Queued[k]
  <2> SUFFICES ASSUME NEW k \in 1 .. Count'
               PROVE slots'[Wrap(tail' + k - 1)] = IF k = Count + 1 THEN e ELSE Queued[k]
    OBVIOUS
  <2>1. CASE k = Count + 1
    <3>1. tail' + k - 1 = tail + Count
      BY <2>1, <1>1 DEF Enqueue
    <3> QED
      BY <2>1, <3>1, EnqueueCount DEF Enqueue, TypeOK
  <2>2. CASE k # Count + 1
    <3>1. k \in 1 .. Count
      BY <2>2, <1>1, EnqueueCount
    <3>2. slots'[Wrap(tail + k - 1)] = slots[Wrap(tail + k - 1)]
      BY <3>1, EnqueueCount, WrapType DEF Enqueue, TypeOK
    <3> QED
      BY <2>2, <3>1, <3>2, QueuedSeq DEF Enqueue
  <2> QED
    BY <2>1, <2>2
<1>3. HoldsEvents'
  <2>1. \A k \in 1 .. Count : Queued[k] \in Events
    BY QueuedSeq DEF HoldsEvents
  <2> QED
    BY <1>1, <1>2, <2>1, EnqueueCount DEF HoldsEvents
<1>4. /\ Append(Queued, e) \in Seq(Events)
      /\ Len(Append(Queued, e)) = Count + 1
      /\ \A k \in 1 .. Count + 1 :
           Append(Queued, e)[k] = IF k = Count + 1 THEN e ELSE Queued[k]
  BY QueuedSeq, AppendProperties
<1> QED
  BY <1>1, <1>2, <1>3, <1>4, QueuedSeqNext, EnqueueCount, SeqEqual

\* Advancing the tail drops the first event.
LEMMA AdvanceCount ==
  ASSUME TypeOK, AdvanceTail, is_empty, Count > 0
  PROVE  /\ Count' = Count - 1
         /\ \A k \in 1 .. Count' : Wrap(tail' + k - 1) = Wrap(tail + k)
  BY CountOfAdvance DEF TypeOK, AdvanceTail, Count

LEMMA AdvanceDrops ==
  ASSUME TypeOK, TypeOK', HoldsEvents, AdvanceTail, is_empty, Count > 0
  PROVE  HoldsEvents' /\ Queued' = Tail(Queued)
<1>1. Count \in Nat /\ tail \in Nat
  BY CountType, SizeAssumption DEF TypeOK, Slots
<1>2. \A k \in 1 .. Count' : slots'[Wrap(tail' + k - 1)] = Queued[k + 1]
  <2> SUFFICES ASSUME NEW k \in 1 .. Count'
               PROVE slots'[Wrap(tail' + k - 1)] = Queued[k + 1]
    OBVIOUS
  <2>1. k + 1 \in 1 .. Count /\ tail + (k + 1) - 1 = tail + k
    BY <1>1, AdvanceCount
  <2>2. Queued[k + 1] = slots[Wrap(tail + (k + 1) - 1)]
    BY <2>1, QueuedSeq
  <2> QED
    BY <2>1, <2>2, AdvanceCount DEF AdvanceTail
<1>3. HoldsEvents'
  <2> SUFFICES ASSUME NEW k \in 1 .. Count'
               PROVE slots'[Wrap(tail' + k - 1)] \in Events
    BY DEF HoldsEvents
  <2>1. k + 1 \in 1 .. Count
    BY <1>1, AdvanceCount
  <2> QED
    BY <1>2, <2>1, QueuedSeq DEF HoldsEvents
<1>4. Queued # <<>>
  <2>1. Len(<<>>) = 0
    BY EmptySeq
  <2> QED
    BY <2>1, QueuedSeq, <1>1
<1>5. /\ Tail(Queued) \in Seq(Events)
      /\ Len(Tail(Queued)) = Count - 1
      /\ \A k \in 1 .. Count - 1 : Tail(Queued)[k] = Queued[k + 1]
  BY <1>4, QueuedSeq, HeadTailProperties
<1> QED
  BY <1>1, <1>2, <1>3, <1>5, QueuedSeqNext, AdvanceCount, SeqEqual
-----------------------------------------------------------------------------
(* The inductive invariant of a light load. *)

Held == IF pc = "put" THEN 1 ELSE 0

LightInv ==
    /\ is_empty
    /\ Count + Held <= Load
    /\ HoldsEvents
    /\ InHandler => Count > 0

LEMMA LightInit == Init => LightInv /\ Fifo!Init
<1> SUFFICES ASSUME Init PROVE LightInv /\ Fifo!Init
  OBVIOUS
<1>1. Count = 0
  BY DEF Init, Count, CountOf
<1>2. Queued = <<>>
  BY <1>1, QueuedSeq, EmptySeq, TypeInvInit DEF TypeInv, HoldsEvents
<1> QED
  BY <1>1, <1>2, LoadAssumption
  DEF Init, LightInv, Held, HoldsEvents, InHandler, Fifo!Init, Running, Started

\* The first queued event is the tail's.
LEMMA FirstQueued ==
  ASSUME TypeOK, HoldsEvents, Count > 0
  PROVE  /\ Queued # <<>>
         /\ Head(Queued) = slots[tail]
         /\ slots[tail] \in Events
<1>1. 1 \in 1 .. Count
  BY CountType, SizeAssumption
<1>2. Wrap(tail + 1 - 1) = tail
  BY SizeAssumption DEF TypeOK, Wrap, Slots
<1>3. Queued # <<>>
  <2>1. Len(<<>>) = 0
    BY EmptySeq
  <2> QED
    BY <2>1, <1>1, QueuedSeq
<1> QED
  BY <1>1, <1>2, <1>3, QueuedSeq DEF HoldsEvents

LEMMA SameRing ==
  ASSUME UNCHANGED ring
  PROVE  Queued' = Queued /\ Count' = Count /\ (HoldsEvents => HoldsEvents')
<1>1. head' = head /\ tail' = tail /\ is_empty' = is_empty /\ slots' = slots
  BY DEF ring
<1>2. Count' = Count
  BY <1>1 DEF Count
<1>3. Queued' = Queued
  BY <1>1, <1>2 DEF Queued
<1>4. HoldsEvents => HoldsEvents'
  BY <1>1, <1>2 DEF HoldsEvents
<1> QED
  BY <1>2, <1>3, <1>4

\* A post, by an interrupt or by the main thread, is an abstract Post.
LEMMA PostStep ==
  ASSUME TypeInv, TypeOK', LightInv, Count + 1 < N, NEW e \in Events, Enqueue(e),
         InHandler' = InHandler, Started' = Started
  PROVE  /\ is_empty' /\ Count' = Count + 1 /\ HoldsEvents'
         /\ InHandler' => Count' > 0
         /\ Fifo!Post(e)
<1>1. Count \in Nat
  BY CountType, SizeAssumption DEF TypeInv
<1>2. is_empty' /\ Count' = Count + 1
  BY EnqueueCount DEF TypeInv, LightInv
<1>3. HoldsEvents' /\ Queued' = Append(Queued, e)
  BY EnqueueAppends DEF TypeInv, LightInv
<1>4. Running' = Running
  <2>1. InHandler => head # tail
    BY SizeAssumption DEF LightInv, Count, CountOf
  <2> QED
    BY <2>1 DEF Running, Enqueue, TypeInv, TypeOK
<1> QED
  BY <1>1, <1>2, <1>3, <1>4 DEF Fifo!Post

LEMMA LightStep ==
  ASSUME Load < N, TypeInv, TypeInv', LightInv, [Next]_vars
  PROVE  LightInv' /\ [Fifo!Next]_(Fifo!vars)
<1> USE DEF TypeInv, Fifo!Next
<1>a. Count \in Nat
  BY CountType, SizeAssumption
<1>1. CASE ResetIndices
  <2>1. Count' = 0
    BY <1>1 DEF ResetIndices, Count, CountOf, LightInv
  <2>2. HoldsEvents'
    BY <2>1 DEF HoldsEvents
  <2>3. Queued' = <<>>
    BY <2>1, <2>2, QueuedSeqNext, EmptySeq
  <2>4. Fifo!Reset
    BY <1>1, <2>3 DEF ResetIndices, Fifo!Reset, Started, Running, InHandler
  <2> QED
    BY <1>1, <2>1, <2>2, <2>4, LoadAssumption
    DEF ResetIndices, LightInv, Held, InHandler
<1>2. CASE ResetRoom
  <2>1. UNCHANGED ring
    BY <1>2 DEF ResetRoom, ring, LightInv, TypeOK
  <2> QED
    BY <1>2, <2>1, SameRing
    DEF ResetRoom, ring, LightInv, Held, InHandler, Running, Started, Fifo!vars
<1>3. CASE EnterLoop
  <2>1. Fifo!Start
    BY <1>3, SameRing DEF EnterLoop, Fifo!Start, Started, Running, InHandler
  <2> QED
    BY <1>3, <2>1, SameRing DEF EnterLoop, ring, LightInv, Held, InHandler
<1>4. CASE \E e \in Events : MainPutCheck(e)
  BY <1>4, <1>a, SameRing, LoadAssumption
  DEF MainPutCheck, MayPut, WithinLoad, ring, LightInv, Held, InHandler,
      Running, Started, Fifo!vars
<1>5. CASE MainPutCommit
  <2>1. arg \in Events /\ Enqueue(arg) /\ pc = "put" /\ pc' = caller
    BY <1>5 DEF MainPutCommit
  <2>2. InHandler' = InHandler /\ Started' = Started
    BY <1>5 DEF MainPutCommit, InHandler, Started, TypeOK
  <2>3. Count + 1 <= Load
    BY <2>1 DEF LightInv, Held
  <2>4. Count + 1 < N
    BY <2>3, <1>a, SizeAssumption, LoadAssumption
  <2>5. /\ is_empty' /\ Count' = Count + 1 /\ HoldsEvents'
        /\ InHandler' => Count' > 0
        /\ Fifo!Post(arg)
    BY <2>1, <2>2, <2>4, PostStep
  <2>6. Held' = 0
    BY <2>1 DEF Held, TypeOK
  <2> QED
    BY <2>1, <2>3, <2>5, <2>6, <1>a DEF LightInv
<1>6. CASE Execute
  <2>1. Count > 0
    BY <1>6, SizeAssumption
    DEF Execute, HasWork, LightInv, Count, CountOf, TypeOK, Slots
  <2>2. Fifo!Call
    BY <1>6, <2>1, FirstQueued, SameRing
    DEF Execute, ring, Fifo!Call, Started, Running, InHandler, LightInv
  <2> QED
    BY <1>6, <2>1, <2>2, SameRing DEF Execute, ring, LightInv, Held
<1>7. CASE HandlerReturns
  BY <1>7, SameRing
  DEF HandlerReturns, ring, LightInv, Held, InHandler, Running, Started, Fifo!vars
<1>8. CASE AdvanceTail
  <2>1. Count > 0 /\ is_empty /\ HoldsEvents
    BY <1>8 DEF AdvanceTail, LightInv, InHandler
  <2>2. Count' = Count - 1 /\ HoldsEvents' /\ Queued' = Tail(Queued)
    BY <1>8, <2>1, AdvanceCount, AdvanceDrops
  <2>3. Fifo!Return
    BY <1>8, <2>1, <2>2, FirstQueued, EventsAssumption
    DEF AdvanceTail, Fifo!Return, Started, Running, InHandler
  <2> QED
    BY <1>8, <1>a, <2>1, <2>2, <2>3, LoadAssumption
    DEF AdvanceTail, LightInv, Held, InHandler
<1>9. CASE SetRoom
  <2>1. UNCHANGED ring
    BY <1>9 DEF SetRoom, ring, LightInv, TypeOK
  <2> QED
    BY <1>9, <2>1, SameRing
    DEF SetRoom, ring, LightInv, Held, InHandler, Running, Started, Fifo!vars
<1>10. CASE \E e \in Events : IrqPut(e)
  <2> PICK e \in Events : IrqPut(e)
    BY <1>10
  <2>1. Enqueue(e) /\ UNCHANGED <<pc, caller>>
    BY DEF IrqPut
  <2>2. InHandler' = InHandler /\ Started' = Started /\ Held' = Held /\ Held \in 0 .. 1
    BY <2>1 DEF InHandler, Started, Held
  <2>3. Count + Held < Load
    BY DEF IrqPut, WithinLoad, Held
  <2>4. Count + 1 < N
    BY <2>2, <2>3, <1>a, SizeAssumption, LoadAssumption
  <2>5. /\ is_empty' /\ Count' = Count + 1 /\ HoldsEvents'
        /\ InHandler' => Count' > 0
        /\ Fifo!Post(e)
    BY <2>1, <2>2, <2>4, PostStep
  <2> QED
    BY <2>2, <2>3, <2>5, <1>a, LoadAssumption DEF LightInv
<1>11. CASE UNCHANGED vars
  BY <1>11, SameRing
  DEF vars, ring, LightInv, Held, InHandler, Running, Started, Fifo!vars
<1> QED
  BY <1>1, <1>2, <1>3, <1>4, <1>5, <1>6, <1>7, <1>8, <1>9, <1>10, <1>11
  DEF Next, MainThread, Refuse

\* The scheduler is the FIFO its users count on, for every ring size, at every
\* load below the ring size, whenever interrupts post: no event that was
\* accepted is lost, overtaken, executed twice or changed before its handler
\* has returned.
THEOREM LightImplementsFifo ==
  ASSUME Load < N
  PROVE  Spec => ImplementsFifo
<1>1. TypeInv /\ TypeInv' /\ LightInv /\ [Next]_vars
        => LightInv' /\ [Fifo!Next]_(Fifo!vars)
  BY LightStep
<1> QED
  BY <1>1, LightInit, TypeInvariant, PTL DEF Spec, ImplementsFifo, Fifo!Safety
=============================================================================

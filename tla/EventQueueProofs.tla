-------------------------- MODULE EventQueueProofs --------------------------
(***************************************************************************)
(* Proofs about EventQueue, for every queue length and every set of        *)
(* events: the ring buffer's indices and counter stay coherent and the     *)
(* ring buffer implements the bounded FIFO.  The inductive invariant is    *)
(* TypeOK /\ Coherent; what a call does to the queue is proved in          *)
(* InterruptEventQueueProofs.                                              *)
(***************************************************************************)
EXTENDS EventQueue, InterruptEventQueueProofs

\* The queue records of EventQueue.
Queues == QueueType(Events \cup {Zero})

\* AddAppends and GetTakesHead for the events of this module.
LEMMA AddEvent ==
  ASSUME NEW qq \in Queues, IsCoherent(qq, Events), ~QueueFull(qq), NEW e \in Events
  PROVE  /\ QueueAdd(qq, e) \in Queues
         /\ IsCoherent(QueueAdd(qq, e), Events)
         /\ ~QueueEmpty(QueueAdd(qq, e))
         /\ Contents(QueueAdd(qq, e)) = Append(Contents(qq), e)
<1> DEFINE T == Events \cup {Zero}
<1>1. Events \in SUBSET T /\ Queues = QueueType(T)
  BY DEF Queues
<1> HIDE DEF T
<1>2. QED
  BY <1>1, AddAppends, ZenonT(60)

LEMMA GetEvent ==
  ASSUME NEW qq \in Queues, IsCoherent(qq, Events), ~QueueEmpty(qq)
  PROVE  /\ QueueRemove(qq) \in Queues
         /\ IsCoherent(QueueRemove(qq), Events)
         /\ QueueFront(qq) \in Events
         /\ Contents(qq) /= << >>
         /\ QueueFront(qq) = Head(Contents(qq))
         /\ Contents(QueueRemove(qq)) = Tail(Contents(qq))
<1> DEFINE T == Events \cup {Zero}
<1>1. Events \in SUBSET T /\ Queues = QueueType(T)
  BY DEF Queues
<1> HIDE DEF T
<1>2. QED
  BY <1>1, GetTakesHead, ZenonT(60)

-----------------------------------------------------------------------------
\* The inductive invariant.
IInv == TypeOK /\ Coherent

\* What the invariant gives the lemmas on add and get: a well-typed queue whose
\* count is the distance of its indices.
LEMMA IInvFacts ==
  IInv => q \in Queues /\ IsCoherent(q, Events)
  BY DEF IInv, TypeOK, Coherent, Queues, IsCoherent

\* The static initialisers of interrupt_event_queue.c are a coherent empty queue.
LEMMA InitIInv == Init => IInv
<1> SUFFICES ASSUME Init PROVE IInv
  OBVIOUS
<1>1. q = [queue |-> [s \in Slots |-> Zero], head |-> 0, tail |-> 0, items |-> 0]
  BY DEF Init, EmptyQueue
<1>2. 0 \in Slots /\ INTERRUPT_EVENT_QUEUE_LEN \in Nat \ {0}
  BY QueueLenAssumption DEF Slots
<1>3. TypeOK
  BY <1>1, <1>2 DEF Init, TypeOK, QueueType
<1>4. Coherent
  BY <1>1, <1>2, WrapMod DEF Coherent, Wrap
<1>5. QED
  BY <1>3, <1>4 DEF IInv

\* Both functions preserve it.
LEMMA NextIInv == IInv /\ [Next]_vars => IInv'
<1> SUFFICES ASSUME IInv, [Next]_vars PROVE IInv'
  OBVIOUS
<1>1. q \in Queues /\ IsCoherent(q, Events)
  BY IInvFacts
<1>2. SUFFICES /\ q' \in Queues /\ IsCoherent(q', Events)
               /\ result' \in {"NRF_ERROR_NO_MEM", "NRF_SUCCESS", "empty", "event"}
               /\ out' \in Events \cup {Zero}
  BY DEF IInv, TypeOK, Coherent, Queues, IsCoherent, SlotOf
<1>3. ASSUME NEW e \in Events, interrupt_event_queue_add(e)
      PROVE  <1>2!1
  <2>1. CASE QueueFull(q)
    BY <1>1, <1>3, <2>1 DEF interrupt_event_queue_add, IInv, TypeOK
  <2>2. CASE ~QueueFull(q)
    <3>1. /\ QueueAdd(q, e) \in Queues /\ IsCoherent(QueueAdd(q, e), Events)
          /\ ~QueueEmpty(QueueAdd(q, e))
      BY <1>1, <2>2, AddEvent
    <3>2. /\ QueueRemove(QueueAdd(q, e)) \in Queues
          /\ IsCoherent(QueueRemove(QueueAdd(q, e)), Events)
          /\ QueueFront(QueueAdd(q, e)) \in Events
      BY <3>1, GetEvent
    <3>3. QED
      BY <1>3, <2>2, <3>1, <3>2 DEF interrupt_event_queue_add, IInv, TypeOK
  <2>3. QED
    BY <2>1, <2>2
<1>4. ASSUME interrupt_event_queue_get
      PROVE  <1>2!1
  <2>1. CASE QueueEmpty(q)
    BY <1>1, <1>4, <2>1 DEF interrupt_event_queue_get, IInv, TypeOK
  <2>2. CASE ~QueueEmpty(q)
    BY <1>1, <1>4, <2>2, GetEvent DEF interrupt_event_queue_get, IInv, TypeOK
  <2>3. QED
    BY <2>1, <2>2
<1>5. CASE UNCHANGED vars
  BY <1>1, <1>5 DEF vars, IInv, TypeOK
<1>6. QED
  BY <1>3, <1>4, <1>5 DEF Next

\* items_in_queue, queue_head and queue_tail of interrupt_event_queue.c stay in
\* their ranges for every queue length.
THEOREM TypeCorrect == Spec => []TypeOK
<1>1. Spec => []IInv
  BY InitIInv, NextIInv, PTL DEF Spec
<1>2. IInv => TypeOK
  BY DEF IInv
<1>3. QED
  BY <1>1, <1>2, PTL

\* The counter of interrupt_event_queue.c always equals the distance between the
\* indices, and the slots between them hold events that were added.
THEOREM CoherentAlways == Spec => []Coherent
<1>1. Spec => []IInv
  BY InitIInv, NextIInv, PTL DEF Spec
<1>2. IInv => Coherent
  BY DEF IInv
<1>3. QED
  BY <1>1, <1>2, PTL

\* interrupt_event_queue.c implements a bounded FIFO, for every queue length and
\* every set of events.
THEOREM Refinement == Spec => ImplementsFifo
<1>1. Init => Fifo!Init
  <2> SUFFICES ASSUME Init PROVE Fifo!Init
    OBVIOUS
  <2>1. q.items = 0
    BY DEF Init, EmptyQueue
  <2>2. Contents(q) = << >>
    BY <2>1 DEF Contents
  <2>3. QED
    BY <2>2 DEF Init, Fifo!Init
<1>2. IInv /\ [Next]_vars => [Fifo!Next]_<<Contents(q), result, out>>
  <2> SUFFICES ASSUME IInv, [Next]_vars
               PROVE  [Fifo!Next]_<<Contents(q), result, out>>
    OBVIOUS
  <2>1. /\ q \in Queues /\ IsCoherent(q, Events)
        /\ q.items \in Nat /\ q.items <= INTERRUPT_EVENT_QUEUE_LEN
        /\ INTERRUPT_EVENT_QUEUE_LEN \in Nat
    BY IInvFacts, QueueFields, Zenon DEF Queues
  <2>2. Len(Contents(q)) = q.items
    BY <2>1 DEF Contents
  <2>3. ASSUME NEW e \in Events, interrupt_event_queue_add(e)
        PROVE  Fifo!Add(e) \/ Fifo!AddThenTake(e)
    <3>1. CASE QueueFull(q)
      BY <2>1, <2>2, <2>3, <3>1 DEF interrupt_event_queue_add, Fifo!Add, QueueFull
    <3>2. CASE ~QueueFull(q)
      <4>1. /\ QueueAdd(q, e) \in Queues /\ IsCoherent(QueueAdd(q, e), Events)
            /\ ~QueueEmpty(QueueAdd(q, e))
            /\ Contents(QueueAdd(q, e)) = Append(Contents(q), e)
        BY <2>1, <3>2, AddEvent
      <4>2. /\ QueueFront(QueueAdd(q, e)) = Head(Append(Contents(q), e))
            /\ Contents(QueueRemove(QueueAdd(q, e))) = Tail(Append(Contents(q), e))
        BY <4>1, GetEvent
      <4>3. Len(Contents(q)) < INTERRUPT_EVENT_QUEUE_LEN
        BY <2>1, <2>2, <3>2 DEF QueueFull
      <4>4. \/ q' = QueueAdd(q, e) /\ out' = out
            \/ /\ q' = QueueRemove(QueueAdd(q, e))
               /\ out' = QueueFront(QueueAdd(q, e))
        BY <2>3, <3>2 DEF interrupt_event_queue_add
      <4>5. result' = "NRF_SUCCESS"
        BY <2>3, <3>2 DEF interrupt_event_queue_add
      <4>6. QED
        BY <4>1, <4>2, <4>3, <4>4, <4>5 DEF Fifo!Add, Fifo!AddThenTake
    <3>3. QED
      BY <3>1, <3>2
  <2>4. ASSUME interrupt_event_queue_get
        PROVE  Fifo!Get
    <3>1. CASE QueueEmpty(q)
      <4>1. Contents(q) = << >>
        BY <3>1 DEF QueueEmpty, Contents
      <4>2. QED
        BY <2>4, <3>1, <4>1 DEF interrupt_event_queue_get, Fifo!Get
    <3>2. CASE ~QueueEmpty(q)
      BY <2>1, <2>4, <3>2, GetEvent DEF interrupt_event_queue_get, Fifo!Get
    <3>3. QED
      BY <3>1, <3>2
  <2>5. CASE UNCHANGED vars
    BY <2>5 DEF vars
  <2>6. QED
    BY <2>3, <2>4, <2>5 DEF Next, Fifo!Next
<1>3. Spec => []IInv
  BY InitIInv, NextIInv, PTL DEF Spec
<1>4. QED
  BY <1>1, <1>2, <1>3, PTL DEF Spec, ImplementsFifo, Fifo!Spec
=============================================================================

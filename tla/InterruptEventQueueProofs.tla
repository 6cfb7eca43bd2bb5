---------------------- MODULE InterruptEventQueueProofs ----------------------
(***************************************************************************)
(* What interrupt_event_queue_add and interrupt_event_queue_get do to the  *)
(* queued events, for every queue length, whatever the slots hold: lemmas  *)
(* for the modules that use the ring buffer (EventQueue and BcpSlave).     *)
(* They are stated of an arbitrary queue record, because an add followed   *)
(* by a get passes through a queue that no state holds.                    *)
(***************************************************************************)
EXTENDS InterruptEventQueue, SequenceTheorems, TLAPS

\* The count of qq is the distance of its indices, and the slots between them
\* hold members of E.
IsCoherent(qq, E) ==
  /\ qq.head = (qq.tail + qq.items) % INTERRUPT_EVENT_QUEUE_LEN
  /\ \A i \in 1 .. qq.items : qq.queue[SlotOf(qq, i)] \in E

\* The ring's arithmetic without remainders.
Wrap(a) == IF a < INTERRUPT_EVENT_QUEUE_LEN THEN a ELSE a - INTERRUPT_EVENT_QUEUE_LEN

\* The index arithmetic of interrupt_event_queue.c, (i + 1) % LEN and its like,
\* goes at most once around the ring.
LEMMA WrapMod ==
  ASSUME NEW a \in Nat, a < 2 * INTERRUPT_EVENT_QUEUE_LEN
  PROVE  a % INTERRUPT_EVENT_QUEUE_LEN = Wrap(a) /\ Wrap(a) \in Slots
  BY QueueLenAssumption DEF Wrap, Slots

\* The fields of a queue record.
LEMMA QueueFields ==
  ASSUME NEW T, NEW qq \in QueueType(T)
  PROVE  /\ INTERRUPT_EVENT_QUEUE_LEN \in Nat \ {0}
         /\ qq = [queue |-> qq.queue, head |-> qq.head, tail |-> qq.tail,
                  items |-> qq.items]
         /\ qq.queue \in [Slots -> T]
         /\ qq.head \in Nat /\ qq.head < INTERRUPT_EVENT_QUEUE_LEN
         /\ qq.tail \in Nat /\ qq.tail < INTERRUPT_EVENT_QUEUE_LEN
         /\ qq.items \in Nat /\ qq.items <= INTERRUPT_EVENT_QUEUE_LEN
  BY QueueLenAssumption DEF QueueType, Slots

\* The queued events are a sequence.
LEMMA ContentsSeq ==
  ASSUME NEW T, NEW E \in SUBSET T, NEW qq \in QueueType(T), IsCoherent(qq, E)
  PROVE  Contents(qq) \in Seq(E) /\ Len(Contents(qq)) = qq.items
<1>1. qq.items \in Nat
  BY QueueFields
<1>2. \A i \in 1 .. qq.items : qq.queue[SlotOf(qq, i)] \in E
  BY DEF IsCoherent
<1>3. QED
  BY <1>1, <1>2 DEF Contents

\* interrupt_event_queue_add of e to a queue with room appends e.
LEMMA AddAppends ==
  ASSUME NEW T, NEW E \in SUBSET T, NEW qq \in QueueType(T),
         IsCoherent(qq, E), ~QueueFull(qq), NEW e \in E
  PROVE  /\ QueueAdd(qq, e) \in QueueType(T)
         /\ IsCoherent(QueueAdd(qq, e), E)
         /\ ~QueueEmpty(QueueAdd(qq, e))
         /\ Contents(QueueAdd(qq, e)) = Append(Contents(qq), e)
<1> DEFINE r == QueueAdd(qq, e)
<1>0. /\ INTERRUPT_EVENT_QUEUE_LEN \in Nat \ {0}
      /\ qq.queue \in [Slots -> T]
      /\ qq.head \in Nat /\ qq.head < INTERRUPT_EVENT_QUEUE_LEN
      /\ qq.tail \in Nat /\ qq.tail < INTERRUPT_EVENT_QUEUE_LEN
      /\ qq.items \in Nat /\ qq.items < INTERRUPT_EVENT_QUEUE_LEN
  BY QueueFields DEF QueueFull
<1>1. After(qq.head) = Wrap(qq.head + 1) /\ After(qq.head) \in Slots
  BY <1>0, WrapMod, SMTT(60) DEF After
<1>2. /\ r.queue = [qq.queue EXCEPT ![qq.head] = e]
      /\ r.items = qq.items + 1
      /\ r.head = After(qq.head)
      /\ r.tail = qq.tail
      /\ r \in QueueType(T)
  BY <1>0, <1>1 DEF QueueAdd, QueueType
<1>3. qq.head = Wrap(qq.tail + qq.items)
  BY <1>0, WrapMod DEF IsCoherent
<1>4. r.head = (r.tail + r.items) % INTERRUPT_EVENT_QUEUE_LEN
  <2>1. (r.tail + r.items) % INTERRUPT_EVENT_QUEUE_LEN = Wrap(qq.tail + (qq.items + 1))
    BY <1>0, <1>2, WrapMod
  <2>2. QED
    BY <1>0, <1>1, <1>2, <1>3, <2>1 DEF Wrap
<1>5. ASSUME NEW i \in 1 .. r.items
      PROVE  /\ SlotOf(r, i) = Wrap(qq.tail + i - 1)
             /\ SlotOf(r, i) \in Slots
             /\ i <= qq.items => SlotOf(r, i) = SlotOf(qq, i) /\ SlotOf(r, i) /= qq.head
             /\ i = qq.items + 1 => SlotOf(r, i) = qq.head
  <2>1. i \in Nat /\ i >= 1 /\ i <= qq.items + 1
    BY <1>0, <1>2
  <2>2. qq.tail + i - 1 \in Nat /\ qq.tail + i - 1 < 2 * INTERRUPT_EVENT_QUEUE_LEN
    BY <1>0, <2>1
  <2>3. SlotOf(r, i) = Wrap(qq.tail + i - 1) /\ SlotOf(qq, i) = SlotOf(r, i)
        /\ SlotOf(r, i) \in Slots
    BY <1>2, <2>2, WrapMod DEF SlotOf
  <2>4. QED
    BY <1>0, <1>3, <2>1, <2>3 DEF Wrap
<1>6. ASSUME NEW i \in 1 .. r.items
      PROVE  r.queue[SlotOf(r, i)] = IF i <= qq.items THEN qq.queue[SlotOf(qq, i)]
                                                      ELSE e
  BY <1>0, <1>2, <1>5
<1>7. IsCoherent(r, E)
  BY <1>0, <1>2, <1>4, <1>6 DEF IsCoherent
<1>8. Contents(r) = Append(Contents(qq), e)
  <2>1. Contents(qq) = [i \in 1 .. qq.items |-> qq.queue[SlotOf(qq, i)]]
    BY DEF Contents
  <2>2. Len(Contents(qq)) = qq.items /\ Contents(qq) \in Seq(E)
    BY ContentsSeq
  <2>3. Append(Contents(qq), e) =
          [i \in 1 .. qq.items + 1 |-> IF i <= qq.items THEN qq.queue[SlotOf(qq, i)]
                                       ELSE e]
    BY <1>0, <2>1, <2>2
  <2>4. QED
    BY <1>0, <1>2, <1>6, <2>3 DEF Contents
<1>9. ~QueueEmpty(r)
  BY <1>0, <1>2 DEF QueueEmpty
<1>10. QED
  BY <1>2, <1>7, <1>8, <1>9

\* interrupt_event_queue_get of a queue that is not empty takes its head off.
LEMMA GetTakesHead ==
  ASSUME NEW T, NEW E \in SUBSET T, NEW qq \in QueueType(T),
         IsCoherent(qq, E), ~QueueEmpty(qq)
  PROVE  /\ QueueRemove(qq) \in QueueType(T)
         /\ IsCoherent(QueueRemove(qq), E)
         /\ QueueFront(qq) \in E
         /\ Contents(qq) /= << >>
         /\ QueueFront(qq) = Head(Contents(qq))
         /\ Contents(QueueRemove(qq)) = Tail(Contents(qq))
<1> DEFINE r == QueueRemove(qq)
<1>0. /\ INTERRUPT_EVENT_QUEUE_LEN \in Nat \ {0}
      /\ qq.queue \in [Slots -> T]
      /\ qq.head \in Nat /\ qq.head < INTERRUPT_EVENT_QUEUE_LEN
      /\ qq.tail \in Nat /\ qq.tail < INTERRUPT_EVENT_QUEUE_LEN
      /\ qq.items \in Nat /\ 0 < qq.items /\ qq.items <= INTERRUPT_EVENT_QUEUE_LEN
  BY QueueFields DEF QueueEmpty
<1>1. After(qq.tail) = Wrap(qq.tail + 1) /\ After(qq.tail) \in Slots
  BY <1>0, WrapMod DEF After
<1>2. /\ r.queue = qq.queue
      /\ r.items = qq.items - 1
      /\ r.head = qq.head
      /\ r.tail = After(qq.tail)
      /\ r \in QueueType(T)
  BY <1>0, <1>1 DEF QueueRemove, QueueType
<1>3. r.head = (r.tail + r.items) % INTERRUPT_EVENT_QUEUE_LEN
  <2>1. (r.tail + r.items) % INTERRUPT_EVENT_QUEUE_LEN = Wrap(r.tail + r.items)
    BY <1>0, <1>1, <1>2, WrapMod, SMTT(60)
  <2>2. qq.head = Wrap(qq.tail + qq.items)
    BY <1>0, WrapMod DEF IsCoherent
  <2>3. QED
    BY <1>0, <1>1, <1>2, <2>1, <2>2 DEF Wrap
<1>4. ASSUME NEW i \in 1 .. r.items
      PROVE  SlotOf(r, i) = SlotOf(qq, i + 1)
  <2>1. i \in Nat /\ i >= 1 /\ i <= qq.items - 1
    BY <1>0, <1>2
  <2>2. SlotOf(r, i) = Wrap(r.tail + i - 1)
    <3>1. r.tail \in Nat /\ r.tail < INTERRUPT_EVENT_QUEUE_LEN
      BY <1>0, <1>1, <1>2 DEF Slots
    <3>2. QED
      BY <1>0, <2>1, <3>1, WrapMod DEF SlotOf
  <2>3. SlotOf(qq, i + 1) = Wrap(qq.tail + (i + 1) - 1)
    BY <1>0, <2>1, WrapMod DEF SlotOf
  <2>4. QED
    BY <1>0, <1>1, <1>2, <2>1, <2>2, <2>3 DEF Wrap
<1>5. IsCoherent(r, E)
  BY <1>0, <1>2, <1>3, <1>4 DEF IsCoherent
<1>6. SlotOf(qq, 1) = qq.tail
  <2>1. SlotOf(qq, 1) = Wrap(qq.tail + 1 - 1)
    BY <1>0, WrapMod DEF SlotOf
  <2>2. QED
    BY <1>0, <2>1 DEF Wrap
<1>7. QueueFront(qq) \in E
  BY <1>0, <1>6 DEF QueueFront, IsCoherent
<1>8. /\ Contents(qq) \in Seq(E)
      /\ Len(Contents(qq)) = qq.items
      /\ \A i \in 1 .. qq.items : Contents(qq)[i] = qq.queue[SlotOf(qq, i)]
  BY <1>0 DEF Contents, IsCoherent
<1>9. Contents(qq) /= << >> /\ Head(Contents(qq)) = QueueFront(qq)
  BY <1>0, <1>6, <1>8 DEF QueueFront
<1>10. Contents(r) = Tail(Contents(qq))
  <2>1. /\ Tail(Contents(qq)) \in Seq(E)
        /\ Len(Tail(Contents(qq))) = qq.items - 1
        /\ \A i \in 1 .. qq.items - 1 : Tail(Contents(qq))[i] = Contents(qq)[i + 1]
    BY <1>0, <1>8, <1>9, HeadTailProperties
  <2>2. /\ Contents(r) \in Seq(E)
        /\ Len(Contents(r)) = qq.items - 1
        /\ \A i \in 1 .. qq.items - 1 : Contents(r)[i] = Contents(qq)[i + 1]
    <3>1. Contents(r) = [i \in 1 .. qq.items - 1 |-> r.queue[SlotOf(r, i)]]
      BY <1>2 DEF Contents
    <3>2. \A i \in 1 .. qq.items - 1 : r.queue[SlotOf(r, i)] = Contents(qq)[i + 1]
      BY <1>0, <1>2, <1>4, <1>8
    <3>3. \A i \in 1 .. qq.items - 1 : r.queue[SlotOf(r, i)] \in E
      BY <1>2, <1>5 DEF IsCoherent
    <3>4. qq.items - 1 \in Nat
      BY <1>0
    <3>5. QED
      BY <3>1, <3>2, <3>3, <3>4, SMTT(60)
  <2>3. QED
    BY <1>0, <2>1, <2>2, SeqEqual
<1>11. QED
  BY <1>2, <1>5, <1>7, <1>9, <1>10

\* The static initialisers of interrupt_event_queue.c are a coherent empty queue.
LEMMA EmptyRing ==
  ASSUME NEW T, NEW E \in SUBSET T, NEW zero \in T
  PROVE  /\ EmptyQueue(zero) \in QueueType(T)
         /\ IsCoherent(EmptyQueue(zero), E)
         /\ EmptyQueue(zero).items = 0
         /\ Contents(EmptyQueue(zero)) = << >>
<1> DEFINE r == EmptyQueue(zero)
<1>1. r = [queue |-> [s \in Slots |-> zero], head |-> 0, tail |-> 0, items |-> 0]
  BY DEF EmptyQueue
<1>2. 0 \in Slots /\ INTERRUPT_EVENT_QUEUE_LEN \in Nat \ {0}
  BY QueueLenAssumption DEF Slots
<1>3. r \in QueueType(T)
  BY <1>1, <1>2 DEF QueueType
<1>4. IsCoherent(r, E)
  BY <1>1, <1>2, WrapMod DEF IsCoherent, Wrap
<1>5. r.items = 0
  BY <1>1
<1>6. Contents(r) = << >>
  BY <1>5 DEF Contents
<1>7. QED
  BY <1>3, <1>4, <1>5, <1>6
=============================================================================

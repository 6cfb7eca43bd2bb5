----------------------------- MODULE EventQueue -----------------------------
(***************************************************************************)
(* The ring buffer of InterruptEventQueue driven by arbitrary calls of its *)
(* two functions, and its implementation of the bounded FIFO of EventFifo. *)
(* The firmware only ever passes spi_tx_buf + 2 as the destination of a    *)
(* get, so the destination is one variable.                                *)
(***************************************************************************)
EXTENDS InterruptEventQueue, Sequences

CONSTANTS Events,   \* what may be queued
          Zero      \* the content of a slot never written

ASSUME EventsAssumption == Zero \notin Events

VARIABLES q,        \* queue, queue_head, queue_tail, items_in_queue
          result,   \* what the last call returned
          out       \* the event last copied to spi_tx_buf + 2

vars == <<q, result, out>>

Init == q = EmptyQueue(Zero) /\ result = "empty" /\ out = Zero

\* interrupt_event_queue_add returns NRF_ERROR_NO_MEM, or stores the event and
\* calls spi_slave_notify, which takes the oldest event at once unless
\* buffer_full.  buffer_full belongs to BcpSlave and may have either value.
interrupt_event_queue_add(e) ==
  \/ /\ QueueFull(q)
     /\ result' = "NRF_ERROR_NO_MEM"
     /\ UNCHANGED <<q, out>>
  \/ /\ ~QueueFull(q)
     /\ result' = "NRF_SUCCESS"
     /\ \E buffer_full \in BOOLEAN :
          IF buffer_full
          THEN q' = QueueAdd(q, e) /\ UNCHANGED out
          ELSE /\ q' = QueueRemove(QueueAdd(q, e))
               /\ out' = QueueFront(QueueAdd(q, e))

\* interrupt_event_queue_get as called when a SPI transaction has completed.
interrupt_event_queue_get ==
  \/ QueueEmpty(q) /\ result' = "empty" /\ UNCHANGED <<q, out>>
  \/ /\ ~QueueEmpty(q)
     /\ result' = "event"
     /\ q' = QueueRemove(q)
     /\ out' = QueueFront(q)

Next ==
  \/ interrupt_event_queue_get
  \/ \E e \in Events : interrupt_event_queue_add(e)

Spec == Init /\ [][Next]_vars
-----------------------------------------------------------------------------
\* The queued events are the abstract FIFO.
Fifo == INSTANCE EventFifo
          WITH fifo <- Contents(q), Capacity <- INTERRUPT_EVENT_QUEUE_LEN

\* Type invariant: indices stay in the array and the count within its length.
TypeOK ==
  /\ q \in QueueType(Events \cup {Zero})
  /\ result \in {"NRF_ERROR_NO_MEM", "NRF_SUCCESS", "empty", "event"}
  /\ out \in Events \cup {Zero}

\* The redundant state of interrupt_event_queue.c agrees: items_in_queue is the
\* distance from queue_tail to queue_head, and the slots between them hold
\* events that were added (never the zero of an unused slot).
Coherent ==
  /\ q.head = (q.tail + q.items) % INTERRUPT_EVENT_QUEUE_LEN
  /\ \A i \in 1 .. q.items : q.queue[SlotOf(q, i)] \in Events

\* The ring buffer implements the bounded FIFO: interrupt_event_queue_add and
\* _get return and keep what a FIFO would, across wrap-around, when full and
\* when empty, and with the get nested in the add.
ImplementsFifo == Fifo!Spec
=============================================================================

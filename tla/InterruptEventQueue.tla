------------------------ MODULE InterruptEventQueue ------------------------
(***************************************************************************)
(* software/nrf51822/interrupt_event_queue.c: the ring buffer in which the *)
(* firmware keeps the events it has for the host.  The four file-scope     *)
(* variables (queue, queue_head, queue_tail, items_in_queue) are the       *)
(* fields of one record, so that a handler which adds an event and then    *)
(* takes one out (add -> spi_slave_notify -> get) is a composition of      *)
(* operators.  The payload and event type of an item are one abstract      *)
(* value: the firmware only ever queues BCP_RSP_ADVERTISEMENT.  Its length *)
(* is the advertisement's dlen + 8 (main.c), so it is never 0 and a length *)
(* of 0 returned by interrupt_event_queue_get means "empty".               *)
(***************************************************************************)
EXTENDS Naturals

CONSTANT INTERRUPT_EVENT_QUEUE_LEN   \* 4 in interrupt_event_queue.h

ASSUME QueueLenAssumption == INTERRUPT_EVENT_QUEUE_LEN \in Nat \ {0}

Slots == 0 .. INTERRUPT_EVENT_QUEUE_LEN - 1

\* The type of the queue's state when its slots hold members of Events.
QueueType(Events) ==
  [queue : [Slots -> Events], head : Slots, tail : Slots,
   items : 0 .. INTERRUPT_EVENT_QUEUE_LEN]

\* Static storage: every slot is zero-filled, all three counters are 0.
EmptyQueue(zero) ==
  [queue |-> [s \in Slots |-> zero], head |-> 0, tail |-> 0, items |-> 0]

\* Mutant of After: the modulus is off by one.
AfterShort(s) == (s + 1) % (INTERRUPT_EVENT_QUEUE_LEN - 1)

\* The slot after s: both indices advance modulo the length.
After(s) == (s + 1) % INTERRUPT_EVENT_QUEUE_LEN

\* Faulty variants (mutants): a full test that is off by one, an add that forgets
\* to advance queue_head, an add in front of the queue, a get that takes the
\* newest event.
QueueFullLate(q)      == q.items > INTERRUPT_EVENT_QUEUE_LEN
QueueAddNoHead(q, e)  == [q EXCEPT !.queue[q.head] = e, !.items = @ + 1]
QueueAddFirst(q, e)   ==
  LET before == (q.tail + INTERRUPT_EVENT_QUEUE_LEN - 1) % INTERRUPT_EVENT_QUEUE_LEN
  IN  [q EXCEPT !.queue[before] = e, !.items = @ + 1, !.tail = before]
QueueFrontNewest(q)   ==
  q.queue[(q.head + INTERRUPT_EVENT_QUEUE_LEN - 1) % INTERRUPT_EVENT_QUEUE_LEN]

QueueFull(q)  == q.items = INTERRUPT_EVENT_QUEUE_LEN   \* add: NRF_ERROR_NO_MEM
QueueEmpty(q) == q.items = 0                           \* get returns length 0

\* interrupt_event_queue_add up to its call of spi_slave_notify, for a queue
\* that is not full.
QueueAdd(q, e) ==
  [queue |-> [q.queue EXCEPT ![q.head] = e], head |-> After(q.head),
   tail |-> q.tail, items |-> q.items + 1]

\* interrupt_event_queue_get on a queue that is not empty: the event it copies
\* out, and the queue it leaves (the slot keeps its old content).
QueueFront(q)  == q.queue[q.tail]
QueueRemove(q) ==
  [queue |-> q.queue, head |-> q.head, tail |-> After(q.tail), items |-> q.items - 1]

\* The slot of the i-th queued event, counted from 1 at queue_tail.
SlotOf(q, i) == (q.tail + i - 1) % INTERRUPT_EVENT_QUEUE_LEN

\* The queued events, oldest first.
Contents(q) == [i \in 1 .. q.items |-> q.queue[SlotOf(q, i)]]
=============================================================================

----------------------------- MODULE EventFifo -----------------------------
(***************************************************************************)
(* What the interrupt event queue promises its callers: a bounded first-in *)
(* first-out queue that refuses an event when it is full, answers "empty"  *)
(* when it holds nothing, and may hand its oldest event to the SPI buffer  *)
(* in the same step that accepts a new one.                                *)
(***************************************************************************)
EXTENDS Naturals, Sequences

CONSTANTS Events, Capacity

VARIABLES fifo,     \* the events accepted and not yet taken out, oldest first
          result,   \* what the last call returned
          out       \* the last event handed out

Add(e) ==
  \/ /\ Len(fifo) = Capacity
     /\ result' = "NRF_ERROR_NO_MEM"
     /\ UNCHANGED <<fifo, out>>
  \/ /\ Len(fifo) < Capacity
     /\ fifo' = Append(fifo, e)
     /\ result' = "NRF_SUCCESS"
     /\ UNCHANGED out

AddThenTake(e) ==
  LET grown == Append(fifo, e)
  IN  /\ Len(fifo) < Capacity
      /\ fifo' = Tail(grown)
      /\ out' = Head(grown)
      /\ result' = "NRF_SUCCESS"

Get ==
  \/ /\ fifo = << >>
     /\ result' = "empty"
     /\ UNCHANGED <<fifo, out>>
  \/ /\ fifo /= << >>
     /\ fifo' = Tail(fifo)
     /\ out' = Head(fifo)
     /\ result' = "event"

Next == Get \/ \E e \in Events : Add(e) \/ AddThenTake(e)

CONSTANT Zero

Init == fifo = << >> /\ result = "empty" /\ out = Zero

Spec == Init /\ [][Next]_<<fifo, result, out>>
=============================================================================

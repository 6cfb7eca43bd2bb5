SPECIFICATION Spec
CONSTANTS
  INTERRUPT_EVENT_QUEUE_LEN = 4
  Events = {e1, e2}
  Zero = zero
INVARIANT Coherent
PROPERTY ImplementsFifo

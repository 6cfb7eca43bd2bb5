SPECIFICATION Spec
CONSTANTS
  INTERRUPT_EVENT_QUEUE_LEN = 4
  MaxAdv = 6
  MaxResets = 1
  MaxSetErrors = 1
PROPERTY KeepsUnsent

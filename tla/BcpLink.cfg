SPECIFICATION FairSpec
CONSTANTS
  INTERRUPT_EVENT_QUEUE_LEN = 2
  MaxAdv = 3
  MaxResets = 1
  MaxSetErrors = 0
  Callers = {c1}
  Readers = {}
  Commands = {2}
  MaxBusErrors = 0
  MaxSubmitErrors = 0
PROPERTIES SlaveSpec DriverSpec InOrderToUser Drains ArmedSniffTakesEffect

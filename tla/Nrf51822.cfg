SPECIFICATION FairSpec
CONSTANTS
  Callers = {c1}
  Readers = {r1}
  Commands = {2}
  Frames = {1}
  MaxBusErrors = 1
  MaxSubmitErrors = 1
INVARIANTS TypeOK SpiExclusive NoLostInterrupt NoLostWakeUp LoneReaderGetsData
PROPERTIES MessageKept SpiReleased InterruptServed ReaderRuns

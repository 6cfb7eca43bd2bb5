SPECIFICATION Spec
CONSTANTS
  Callers = {}
  Readers = {r1}
  Commands = {2}
  Frames = {1, 2}
  MaxBusErrors = 0
  MaxSubmitErrors = 0
INVARIANT ReadsWhatItCopied

SPECIFICATION Spec
CONSTANTS
  TxLen = 64
  HostLen = 128
  UserLen = 256
  ReadLen = 40
  Dlens = {0, 1, 30, 31}
  MaxPackets = 4
INVARIANTS OwnBytesOnly IntactIfItFits
CHECK_DEADLOCK FALSE

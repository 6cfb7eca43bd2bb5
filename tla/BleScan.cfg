SPECIFICATION ScanSpec
CONSTANTS
  PSTORAGE_CMD_QUEUE_SIZE = 10
  MaxRetries = 3
  MaxScanErrors = 2
INVARIANT StartedOnceWhenIdle
PROPERTY PostponedScanStarts

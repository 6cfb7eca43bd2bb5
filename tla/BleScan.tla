------------------------------ MODULE BleScan ------------------------------
(***************************************************************************)
(* How the firmware starts scanning for advertisements (main.c):           *)
(* scan_start, called by main at boot, postpones the start while the       *)
(* persistent storage has flash operations pending, and on_sys_evt, called *)
(* from the system event interrupt when such an operation ends, makes up   *)
(* for it.  The interrupt preempts main between any two of its accesses    *)
(* and runs to completion.                                                 *)
(***************************************************************************)
EXTENDS Naturals

CONSTANTS PSTORAGE_CMD_QUEUE_SIZE,   \* bound on pending flash operations (10)
          MaxRetries,                \* bound: retries of one flash operation
          MaxScanErrors              \* bound: failures of sd_ble_gap_scan_start

ASSUME ScanAssumption ==
  PSTORAGE_CMD_QUEUE_SIZE \in Nat /\ MaxRetries \in Nat /\ MaxScanErrors \in Nat

VARIABLES pending,                        \* flash operations pending in pstorage
          retries,                        \* of the operation in progress
          m_memory_access_in_progress,
          scanning,                       \* sd_ble_gap_scan_start has succeeded
          starts,                         \* history: its successes since boot
          scan_errors,                    \* its failures, each of which resets the chip
          main                            \* main: where it is, its local count

scanvars == <<pending, retries, m_memory_access_in_progress, scanning, starts,
              scan_errors, main>>

\* main is about to call scan_start; device_manager_init has left any number of
\* flash operations with pstorage.
ScanInit ==
  /\ pending \in 0 .. PSTORAGE_CMD_QUEUE_SIZE
  /\ retries = 0
  /\ m_memory_access_in_progress = FALSE
  /\ scanning = FALSE /\ starts = 0 /\ scan_errors = 0
  /\ main = [at |-> "scan_start", count |-> 0]

\* sd_ble_gap_scan_start succeeds.
ScanStart == scanning' = TRUE /\ starts' = starts + 1

\* The decision of scan_start once it knows the number of pending operations.
Decide(count) ==
  \/ /\ count /= 0
     /\ m_memory_access_in_progress' = TRUE
     /\ UNCHANGED <<scanning, starts>>
  \/ /\ count = 0
     /\ ScanStart
     /\ UNCHANGED m_memory_access_in_progress

\* scan_start in main: the number is read ...
MainReads ==
  /\ main.at = "scan_start"
  /\ main' = [at |-> "decide", count |-> pending]
  /\ UNCHANGED <<pending, retries, m_memory_access_in_progress, scanning, starts,
                 scan_errors>>

\* ... and used, after which main idles for ever.
MainDecides ==
  /\ main.at = "decide"
  /\ Decide(main.count)
  /\ main' = [at |-> "idle", count |-> 0]
  /\ UNCHANGED <<pending, retries, scan_errors>>

\* Mutants of on_sys_evt: the flag is not tested; the flag is cleared last.
on_sys_evt_untested(count) ==
  \/ count = 0 /\ ScanStart /\ m_memory_access_in_progress' = FALSE
  \/ /\ count /= 0
     /\ m_memory_access_in_progress' = TRUE
     /\ UNCHANGED <<scanning, starts>>
on_sys_evt_cleared_last(count) ==
  /\ m_memory_access_in_progress' = FALSE
  /\ IF m_memory_access_in_progress /\ count = 0
     THEN ScanStart ELSE UNCHANGED <<scanning, starts>>

\* on_sys_evt for NRF_EVT_FLASH_OPERATION_SUCCESS and _ERROR: a postponed scan is
\* tried again with the number of operations pending now.
on_sys_evt(count) ==
  \/ /\ m_memory_access_in_progress
     /\ IF count = 0 THEN ScanStart /\ m_memory_access_in_progress' = FALSE
        ELSE /\ m_memory_access_in_progress' = TRUE
             /\ UNCHANGED <<scanning, starts>>
  \/ /\ ~m_memory_access_in_progress
     /\ UNCHANGED <<m_memory_access_in_progress, scanning, starts>>

\* sys_evt_dispatch: pstorage_sys_event_handler first (an operation that ended is
\* removed, one that failed may be retried), then on_sys_evt.
sys_evt_dispatch(left) ==
  /\ pending > 0
  /\ pending' = left
  /\ on_sys_evt(left)
  /\ UNCHANGED <<scan_errors, main>>

FlashOperationDone ==
  /\ sys_evt_dispatch(pending - 1)
  /\ retries' = 0

FlashOperationRetried ==
  /\ retries < MaxRetries
  /\ sys_evt_dispatch(pending)
  /\ retries' = retries + 1

\* sd_ble_gap_scan_start fails, called by main or by on_sys_evt after the last pending
\* operation: APP_ERROR_CHECK resets the chip, which boots again.
ScanStartFails ==
  /\ \/ main.at = "decide" /\ main.count = 0
     \/ m_memory_access_in_progress /\ pending = 1
  /\ scan_errors < MaxScanErrors
  /\ scan_errors' = scan_errors + 1
  /\ pending' \in 0 .. PSTORAGE_CMD_QUEUE_SIZE
  /\ retries' = 0
  /\ m_memory_access_in_progress' = FALSE
  /\ scanning' = FALSE /\ starts' = 0
  /\ main' = [at |-> "scan_start", count |-> 0]

\* power_manage: nothing is left but to wait for events.
Idle == main.at = "idle" /\ pending = 0 /\ UNCHANGED scanvars

ScanNext ==
  \/ MainReads \/ MainDecides
  \/ FlashOperationDone \/ FlashOperationRetried
  \/ ScanStartFails
  \/ Idle

\* main runs, and a pending flash operation ends after at most MaxRetries retries.
Fairness ==
  /\ WF_scanvars(MainReads) /\ WF_scanvars(MainDecides)
  /\ WF_scanvars(FlashOperationDone)

ScanSpec == ScanInit /\ [][ScanNext]_scanvars /\ Fairness
-----------------------------------------------------------------------------
\* Scanning never starts while flash operations are pending, nor a second time
\* (sd_ble_gap_scan_start would fail and APP_ERROR_CHECK reset the chip), whether
\* main or the interrupt starts it.
StartedOnceWhenIdle == starts <= 1 /\ (scanning => pending = 0)

\* "If yes delay starting scanning until it's complete": a start that is postponed
\* while an operation is pending is made up for, unless it fails and resets the chip.  When the last operation ends between
\* the test and the store in scan_start, nothing is pending any more and scanning
\* never starts.
PostponedScanStarts ==
  \A n \in 0 .. MaxScanErrors :
    (m_memory_access_in_progress /\ pending > 0 /\ scan_errors = n)
      ~> (scanning \/ scan_errors > n)
=============================================================================

------------------------------ MODULE BcpSlave ------------------------------
(***************************************************************************)
(* The nRF51822 firmware as the host sees it over SPI: the advertisement   *)
(* handler of main.c, the event queue, and the SPI slave of                *)
(* bcp_spi_slave.c with its one response buffer and its interrupt line.    *)
(*                                                                         *)
(* The BLE event handler and the SPI event handler are interrupt handlers  *)
(* of the same priority, so each runs to completion and is one action.     *)
(* The SPI peripheral (SPIS, driven by the SDK's spi_slave module) is      *)
(* concurrent with both: a transaction begins, clocks out the live content *)
(* of spi_tx_buf and ends, and its XFER_DONE handler runs some time later. *)
(* A transaction that begins while the SPIS has no buffers is ignored: the *)
(* master reads def_tx_character (0x00) and the firmware never hears of it.*)
(*                                                                         *)
(* An advertisement report is its number, counted from 1 in the order of   *)
(* reception; the number stands for the whole frame (length byte, type     *)
(* byte, report), whose bytes BcpFrame models.  NoReport is a buffer of    *)
(* zeroes.                                                                 *)
(***************************************************************************)
EXTENDS InterruptEventQueue, Integers

CONSTANTS MaxAdv,         \* bound: advertisement reports received
          MaxResets,      \* bound: resets of the chip
          MaxSetErrors    \* bound: failures of spi_slave_buffers_set

ASSUME SlaveBoundsAssumption ==
  MaxAdv \in Nat /\ MaxResets \in Nat /\ MaxSetErrors \in Nat

BCP_CMD_READ_IRQ             == 1
BCP_CMD_SNIFF_ADVERTISEMENTS == 2
SNIFF_ADVERTISEMENTS_STOP    == 3   \* known to the host's bcp.h only

BcpCommands == {BCP_CMD_READ_IRQ, BCP_CMD_SNIFF_ADVERTISEMENTS,
                SNIFF_ADVERTISEMENTS_STOP}

NoReport == 0
Torn     == -1   \* bytes of two reports in one response
Reports  == 1 .. MaxAdv

VARIABLES
  up,                       \* main has initialised the SPI slave
  bcp_irq_advertisements,   \* the host asked for advertisements
  ieq,                      \* the interrupt event queue
  spi_tx_buf, spi_rx_buf,   \* the SPI slave's two buffers
  buffer_full,              \* "we have put data into the SPI buffer"
  pin,                      \* INTERRUPT_PIN
  armed,                    \* the SPIS owns the buffers
  xfer,                     \* the transaction on the bus
  xfer_done,                \* SPI_SLAVE_XFER_DONE raised and not yet handled
  adv_count, resets, set_errors,   \* counts, for the bounds
  unsent,                   \* history: spi_tx_buf was never clocked out
  last                      \* history: the report clocked out last

fwvars  == <<up, bcp_irq_advertisements, ieq, spi_tx_buf, buffer_full, pin, unsent>>
spivars == <<spi_rx_buf, armed, xfer, xfer_done, last>>
counts  == <<adv_count, resets, set_errors>>
vars    == <<fwvars, spivars, counts>>

NoXfer == [is |-> "none", mosi |-> 0, miso |-> NoReport]

\* Values at reset: static initialisers, and a GPIO that is not driven.
Init ==
  /\ up = FALSE
  /\ bcp_irq_advertisements = FALSE
  /\ ieq = EmptyQueue(NoReport)
  /\ spi_tx_buf = NoReport /\ spi_rx_buf = 0
  /\ buffer_full = FALSE /\ pin = FALSE
  /\ armed = FALSE /\ xfer = NoXfer /\ xfer_done = FALSE
  /\ adv_count = 0 /\ resets = 0 /\ set_errors = 0
  /\ unsent = FALSE /\ last = NoReport
-----------------------------------------------------------------------------
\* spi_slave_buffers_set returning NRF_SUCCESS: the SPIS owns the buffers,
\* unless a transaction is already running on them.
spi_slave_buffers_set == armed' = (xfer.is /= "active")

BuffersSetMayFail == set_errors < MaxSetErrors /\ set_errors' = set_errors + 1

\* NVIC_SystemReset, from app_error_handler: RAM returns to its initial values.
\* A transaction on the bus goes on without a slave.
NVIC_SystemReset ==
  /\ up' = FALSE
  /\ bcp_irq_advertisements' = FALSE
  /\ ieq' = EmptyQueue(NoReport)
  /\ spi_tx_buf' = NoReport /\ spi_rx_buf' = 0
  /\ buffer_full' = FALSE /\ pin' = FALSE
  /\ armed' = FALSE /\ xfer_done' = FALSE
  /\ xfer' = IF xfer.is = "active" THEN [NoXfer EXCEPT !.is = "ignored"] ELSE xfer
  /\ unsent' = FALSE
  /\ UNCHANGED last

\* Mutant of Offer: the interrupt line is not raised.
OfferSilently(qq) ==
  /\ spi_tx_buf' = QueueFront(qq)
  /\ ieq' = QueueRemove(qq)
  /\ buffer_full' = TRUE
  /\ unsent' = TRUE
  /\ spi_slave_buffers_set
  /\ UNCHANGED pin

\* spi_tx_buf receives the frame of the oldest event of queue qq, and the
\* interrupt line is raised.
Offer(qq) ==
  /\ spi_tx_buf' = QueueFront(qq)
  /\ ieq' = QueueRemove(qq)
  /\ buffer_full' = TRUE
  /\ pin' = TRUE
  /\ unsent' = TRUE
  /\ spi_slave_buffers_set

\* Mutant of NothingToOffer: the buffers are not given back.
NothingToOfferNoBuffers ==
  /\ buffer_full' = FALSE /\ pin' = FALSE
  /\ UNCHANGED <<armed, set_errors, ieq, spi_tx_buf, unsent>>

\* The queue is empty: the buffers are given back as they are, with no check of
\* the result, and the line is cleared.
NothingToOffer ==
  /\ buffer_full' = FALSE /\ pin' = FALSE
  /\ \/ spi_slave_buffers_set /\ UNCHANGED set_errors
     \/ BuffersSetMayFail /\ UNCHANGED armed
  /\ UNCHANGED <<ieq, spi_tx_buf, unsent>>

\* main up to its idle loop: the line is cleared and the SPI slave is given its
\* buffers.  A failure of any step ends in app_error_handler.
Boot ==
  /\ ~up
  /\ up' = TRUE
  /\ pin' = FALSE
  /\ spi_slave_buffers_set
  /\ UNCHANGED <<bcp_irq_advertisements, ieq, spi_tx_buf, buffer_full, unsent,
                 spi_rx_buf, xfer, xfer_done, last, counts>>

\* An APP_ERROR_CHECK of the initialisation or an assert of the SoftDevice.
ErrorReset ==
  /\ resets < MaxResets
  /\ resets' = resets + 1
  /\ NVIC_SystemReset
  /\ UNCHANGED <<adv_count, set_errors>>
-----------------------------------------------------------------------------
\* interrupt_event_queue_add, which calls spi_slave_notify: the new event stays
\* in the queue while the SPI buffer is in use, else the oldest one is offered.
interrupt_event_queue_add(e) ==
  LET added == QueueAdd(ieq, e)
  IN  \/ /\ QueueFull(ieq)
         /\ UNCHANGED <<fwvars, spivars, resets, set_errors>>
      \/ /\ ~QueueFull(ieq) /\ buffer_full
         /\ ieq' = added
         /\ UNCHANGED <<up, bcp_irq_advertisements, spi_tx_buf, buffer_full, pin,
                        unsent, spivars, resets, set_errors>>
      \/ /\ ~QueueFull(ieq) /\ ~buffer_full
         /\ Offer(added)
         /\ UNCHANGED <<up, bcp_irq_advertisements, spi_rx_buf, xfer, xfer_done,
                        last, resets, set_errors>>
      \/ /\ ~QueueFull(ieq) /\ ~buffer_full
         /\ BuffersSetMayFail
         /\ NVIC_SystemReset
         /\ UNCHANGED resets

\* on_ble_evt for BLE_GAP_EVT_ADV_REPORT: the result of the add is not used.
on_ble_evt ==
  /\ up
  /\ adv_count < MaxAdv
  /\ adv_count' = adv_count + 1
  /\ \/ bcp_irq_advertisements /\ interrupt_event_queue_add(adv_count + 1)
     \/ /\ ~bcp_irq_advertisements
        /\ UNCHANGED <<fwvars, spivars, resets, set_errors>>

\* Mutant of Sniffing: the command is not recognised.
SniffingNever(cmd) == bcp_irq_advertisements

\* bcp_irq_advertisements after command cmd: anything but SNIFF changes nothing,
\* the host's SNIFF_ADVERTISEMENTS_STOP included.
Sniffing(cmd) == bcp_irq_advertisements \/ cmd = BCP_CMD_SNIFF_ADVERTISEMENTS

\* spi_slave_event_handle for SPI_SLAVE_XFER_DONE.  The command in spi_rx_buf is
\* obeyed, then the next event is offered.
spi_slave_event_handle ==
  /\ up /\ xfer_done
  /\ \/ ~QueueEmpty(ieq) /\ Offer(ieq) /\ UNCHANGED set_errors
     \/ QueueEmpty(ieq) /\ NothingToOffer
  /\ xfer_done' = FALSE
  /\ bcp_irq_advertisements' = Sniffing(spi_rx_buf)
  /\ UNCHANGED <<up, spi_rx_buf, xfer, last, adv_count, resets>>

\* The same handler when giving the next event to the SPIS fails.
spi_slave_event_handle_error ==
  /\ up /\ xfer_done /\ ~QueueEmpty(ieq)
  /\ BuffersSetMayFail
  /\ NVIC_SystemReset
  /\ UNCHANGED <<adv_count, resets>>
-----------------------------------------------------------------------------
\* The master selects the slave and clocks in command c.
XferBegin(c) ==
  /\ xfer.is = "none"
  /\ xfer' = [is |-> IF armed THEN "active" ELSE "ignored",
              mosi |-> c, miso |-> IF armed THEN spi_tx_buf ELSE NoReport]
  /\ armed' = FALSE
  /\ UNCHANGED <<fwvars, counts, spi_rx_buf, xfer_done, last>>

\* What the master may have read at the end of the transaction: spi_tx_buf as it
\* was at the start, or, if the CPU wrote to it meanwhile, as it is now or mixed.
Responses ==
  IF xfer.is = "active"
  THEN {xfer.miso, spi_tx_buf} \cup (IF xfer.miso = spi_tx_buf THEN {} ELSE {Torn})
  ELSE {NoReport}

\* The master deselects the slave, having read resp.
XferEnd(resp) ==
  /\ xfer.is /= "none"
  /\ resp \in Responses
  /\ xfer' = NoXfer
  /\ IF xfer.is = "active"
     THEN spi_rx_buf' = xfer.mosi /\ xfer_done' = TRUE
     ELSE UNCHANGED <<spi_rx_buf, xfer_done>>
  /\ last' = IF resp \in Reports THEN resp ELSE last
  /\ unsent' = (unsent /\ resp /= spi_tx_buf)
  /\ UNCHANGED <<up, bcp_irq_advertisements, ieq, spi_tx_buf, buffer_full, pin,
                 armed, counts>>

Firmware ==
  \/ Boot
  \/ ErrorReset
  \/ on_ble_evt
  \/ spi_slave_event_handle
  \/ spi_slave_event_handle_error

Master ==
  \/ \E c \in BcpCommands : XferBegin(c)
  \/ \E resp \in {Torn, NoReport} \cup Reports : XferEnd(resp)

Next == Firmware \/ Master

Spec == Init /\ [][Next]_vars
-----------------------------------------------------------------------------
\* Type invariant.
TypeOK ==
  /\ up \in BOOLEAN /\ bcp_irq_advertisements \in BOOLEAN
  /\ ieq \in QueueType({NoReport} \cup Reports)
  /\ spi_tx_buf \in {NoReport} \cup Reports
  /\ spi_rx_buf \in {0} \cup BcpCommands
  /\ buffer_full \in BOOLEAN /\ pin \in BOOLEAN /\ armed \in BOOLEAN
  /\ xfer \in [is : {"none", "active", "ignored"}, mosi : {0} \cup BcpCommands,
               miso : {NoReport} \cup Reports]
  /\ xfer_done \in BOOLEAN /\ unsent \in BOOLEAN
  /\ adv_count \in 0 .. MaxAdv /\ resets \in 0 .. MaxResets
  /\ set_errors \in 0 .. MaxSetErrors
  /\ last \in {NoReport} \cup Reports

\* No event is stranded in the queue: whenever the queue holds one, a report sits
\* in spi_tx_buf and the line is high, so the host has a reason to read.  The
\* line, buffer_full and the content of spi_tx_buf are written in different
\* branches of spi_slave_notify and spi_slave_event_handle.
HostNotified ==
  /\ pin = buffer_full
  /\ buffer_full => spi_tx_buf \in Reports
  /\ ieq.items > 0 => buffer_full

\* As long as spi_slave_buffers_set succeeds the slave never goes deaf: the SPIS
\* owns the buffers, or a transaction is running on them, or the handler that
\* hands them over again is due, whatever spi_slave_notify did in between.
NeverDeaf ==
  up /\ set_errors = 0 => armed \/ xfer.is = "active" \/ xfer_done

\* Reports are clocked out in the order they were received; an older one never
\* follows a newer one, across full queues, re-reads and resets.
InOrder == [][last' >= last]_vars

\* A report put in spi_tx_buf stays there, announced, until the master has
\* clocked it out (or the chip is reset).
KeepsUnsent == [][unsent /\ up' => spi_tx_buf' = spi_tx_buf /\ buffer_full']_vars
=============================================================================

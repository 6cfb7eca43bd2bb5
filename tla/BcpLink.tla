------------------------------ MODULE BcpLink ------------------------------
(***************************************************************************)
(* The Bluetooth co-processor link: the firmware of BcpSlave and the       *)
(* driver of Nrf51822 joined by one SPI bus and one interrupt line.        *)
(*                                                                         *)
(* The line `pin' is written by the firmware only, and its rising edge is  *)
(* latched for the driver in the step that raises it.  A transfer is one   *)
(* joint step at its beginning (the driver's command reaches the slave)    *)
(* and one at its end (the slave's response reaches spi_data_buffer).  All *)
(* other steps are one side's own.                                         *)
(***************************************************************************)
EXTENDS Integers

CONSTANTS INTERRUPT_EVENT_QUEUE_LEN, MaxAdv, MaxResets, MaxSetErrors,
          Callers, Readers, Commands, MaxBusErrors, MaxSubmitErrors

VARIABLES up, bcp_irq_advertisements, ieq, spi_tx_buf, spi_rx_buf, buffer_full,
          armed, xfer, xfer_done, adv_count, resets, set_errors, unsent, last,
          pin,
          irq, spi_pending, spi_msg, spi_data_buffer, buf_to_user,
          buf_to_user_len, pc, ioctl, reader, bus_errors, submit_errors,
          seen     \* history: the newest report copied to buf_to_user

Slave  == INSTANCE BcpSlave
Driver == INSTANCE Nrf51822 WITH Frames <- {-1} \cup (1 .. MaxAdv)

\* User space issues the commands of the host's bcp.h.
ASSUME LinkAssumption ==
  /\ INTERRUPT_EVENT_QUEUE_LEN \in Nat \ {0}
  /\ {MaxAdv, MaxResets, MaxSetErrors, MaxBusErrors, MaxSubmitErrors} \subseteq Nat
  /\ Commands \subseteq Slave!BcpCommands
  /\ {"isr", "pump"} \cap Callers = {}

\* The variables of one side, without the line they share.
slave_own ==
  <<up, bcp_irq_advertisements, ieq, spi_tx_buf, spi_rx_buf, buffer_full, armed,
    xfer, xfer_done, adv_count, resets, set_errors, unsent, last>>
driver_own ==
  <<spi_pending, spi_msg, spi_data_buffer, buf_to_user, buf_to_user_len, pc,
    ioctl, reader, bus_errors, submit_errors>>

vars == <<slave_own, pin, irq, driver_own, seen>>

Init == Slave!Init /\ Driver!Init /\ seen = 0

\* Mutant of FirmwareStep: the interrupt is level triggered.
FirmwareStepLevel(A) ==
  /\ A
  /\ irq' = (irq \/ pin')
  /\ UNCHANGED <<driver_own, seen>>

\* A step of the firmware; the GPIO controller latches a rising edge.
FirmwareStep(A) ==
  /\ A
  /\ irq' = (irq \/ (pin' /\ ~pin))
  /\ UNCHANGED <<driver_own, seen>>

\* A step of the driver; the callback's copy to buf_to_user is remembered.
DriverStep(A) ==
  /\ A
  /\ seen' = IF pc["pump"] = "process" /\ pc'["pump"] = "set_len"
                /\ spi_data_buffer \in 1 .. MaxAdv
             THEN spi_data_buffer ELSE seen
  /\ UNCHANGED slave_own

\* Mutant of BusBegin: the command byte is not put in spi_command_buffer.
BusBeginNoCommand ==
  /\ Driver!XferBegin
  /\ Slave!XferBegin(0)
  /\ UNCHANGED seen

\* The driver's command goes out to the slave ...
BusBegin ==
  /\ Driver!XferBegin
  /\ Slave!XferBegin(spi_msg.cmd)
  /\ UNCHANGED seen

\* ... and the slave's response comes in.
BusEnd ==
  \E resp \in Slave!Responses :
    /\ Slave!XferEnd(resp)
    /\ Driver!XferEnd(resp)
    /\ UNCHANGED seen

Next ==
  \/ FirmwareStep(Slave!Firmware)
  \/ DriverStep(Driver!Internal)
  \/ BusBegin
  \/ BusEnd

\* Pending interrupts and runnable threads run on both sides; the host, the
\* advertisers and the errors owe nothing.
Fairness ==
  /\ WF_vars(FirmwareStep(Slave!Boot))
  /\ WF_vars(FirmwareStep(Slave!spi_slave_event_handle))
  /\ WF_vars(DriverStep(Driver!InterruptHandler))
  /\ \A c \in {"isr", "pump"} \cup Callers :
       WF_vars(DriverStep(Driver!Claim(c) \/ Driver!Submit(c)))
  /\ WF_vars(DriverStep(Driver!Callback))
  /\ WF_vars(BusBegin)
  /\ WF_vars(BusEnd)

Spec     == Init /\ [][Next]_vars
FairSpec == Spec /\ Fairness
-----------------------------------------------------------------------------
\* Each side of the link behaves as its own specification says: the chaotic
\* master of BcpSlave and the chaotic radio of Nrf51822 cover the real ones, so
\* what is shown of either module holds on the link.
SlaveSpec  == Slave!Spec
DriverSpec == Driver!Spec

\* End to end, user space never gets an older report after a newer one, although
\* responses are re-read and the chip may be reset.
InOrderToUser == [][seen' >= seen]_vars

\* Once advertisements stop arriving the link drains: the queue runs empty and the
\* line goes and stays low, whatever commands and interrupts did meanwhile.  It is
\* checked with MaxSetErrors, MaxSubmitErrors and MaxBusErrors 0: a slave left without
\* buffers, or a claim nobody releases, never drains.
Drains == <>[](~pin /\ ieq.items = 0)

\* A SNIFF command takes effect if the slave has its buffers when the transfer
\* starts (else it is lost, though the ioctl answers 0) and is not reset.
ArmedSniffTakesEffect ==
  (spi_msg.at = "active" /\ xfer.is = "active"
     /\ spi_msg.cmd = Slave!BCP_CMD_SNIFF_ADVERTISEMENTS)
    ~> (bcp_irq_advertisements \/ ~up)
=============================================================================

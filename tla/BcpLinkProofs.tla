---------------------------- MODULE BcpLinkProofs ----------------------------
(***************************************************************************)
(* Proofs about BcpLink, for any queue length, any processes and any       *)
(* number of advertisements, resets and errors.  Each side of the link     *)
(* implements its own specification, so that what BcpSlaveProofs and       *)
(* Nrf51822Proofs show of the firmware facing any master and of the driver *)
(* facing any radio holds of the two facing each other; from it follows    *)
(* the order in which reports reach user space.                            *)
(***************************************************************************)
EXTENDS BcpLink, TLAPS

SP == INSTANCE BcpSlaveProofs
DP == INSTANCE Nrf51822Proofs WITH Frames <- {-1} \cup (1 .. MaxAdv)

\* The two proof modules instantiate the specifications a second time, with the same
\* meaning.
LEMMA SameSlave ==
  /\ (Slave!Init <=> SP!Init) /\ ([Slave!Next]_(Slave!vars) <=> [SP!Next]_(SP!vars))
  /\ (Slave!HostNotified <=> SP!HostNotified) /\ (Slave!NeverDeaf <=> SP!NeverDeaf)
  /\ (Slave!TypeOK <=> SP!TypeOK)
  BY DEF Slave!Slots, SP!Slots, Slave!QueueType, SP!QueueType, Slave!EmptyQueue,
         SP!EmptyQueue, Slave!After, SP!After, Slave!QueueFull, SP!QueueFull,
         Slave!QueueEmpty, SP!QueueEmpty, Slave!QueueAdd, SP!QueueAdd,
         Slave!QueueFront, SP!QueueFront, Slave!QueueRemove, SP!QueueRemove,
         Slave!BCP_CMD_READ_IRQ, SP!BCP_CMD_READ_IRQ,
         Slave!BCP_CMD_SNIFF_ADVERTISEMENTS, SP!BCP_CMD_SNIFF_ADVERTISEMENTS,
         Slave!SNIFF_ADVERTISEMENTS_STOP, SP!SNIFF_ADVERTISEMENTS_STOP,
         Slave!BcpCommands, SP!BcpCommands, Slave!NoReport, SP!NoReport, Slave!Torn,
         SP!Torn, Slave!Reports, SP!Reports, Slave!fwvars, SP!fwvars, Slave!spivars,
         SP!spivars, Slave!counts, SP!counts, Slave!vars, SP!vars, Slave!NoXfer,
         SP!NoXfer, Slave!Init, SP!Init, Slave!spi_slave_buffers_set,
         SP!spi_slave_buffers_set, Slave!BuffersSetMayFail, SP!BuffersSetMayFail,
         Slave!NVIC_SystemReset, SP!NVIC_SystemReset, Slave!Offer, SP!Offer,
         Slave!NothingToOffer, SP!NothingToOffer, Slave!Boot, SP!Boot,
         Slave!ErrorReset, SP!ErrorReset, Slave!interrupt_event_queue_add,
         SP!interrupt_event_queue_add, Slave!on_ble_evt, SP!on_ble_evt,
         Slave!Sniffing, SP!Sniffing, Slave!spi_slave_event_handle,
         SP!spi_slave_event_handle, Slave!spi_slave_event_handle_error,
         SP!spi_slave_event_handle_error, Slave!XferBegin, SP!XferBegin,
         Slave!Responses, SP!Responses, Slave!XferEnd, SP!XferEnd, Slave!Firmware,
         SP!Firmware, Slave!Master, SP!Master, Slave!Next, SP!Next, Slave!TypeOK,
         SP!TypeOK, Slave!HostNotified, SP!HostNotified, Slave!NeverDeaf,
         SP!NeverDeaf

\* The driver of nrf51822.c, likewise.
LEMMA SameDriver ==
  /\ (Driver!Init <=> DP!Init) /\ ([Driver!Next]_(Driver!vars) <=> [DP!Next]_(DP!vars))
  /\ (Driver!TypeOK <=> DP!TypeOK) /\ (Driver!SpiExclusive <=> DP!SpiExclusive)
  /\ (Driver!NoLostInterrupt <=> DP!NoLostInterrupt)
  /\ (Driver!NoLostWakeUp <=> DP!NoLostWakeUp)
  BY DEF Driver!BCP_COMMAND_READ_IRQ, DP!BCP_COMMAND_READ_IRQ, Driver!NoReport,
         DP!NoReport, Driver!Torn, DP!Torn, Driver!EFAULT, DP!EFAULT, Driver!EINTR,
         DP!EINTR, Driver!Contexts, DP!Contexts, Driver!Answers, DP!Answers,
         Driver!Responses, DP!Responses, Driver!Lengths, DP!Lengths, Driver!spi,
         DP!spi, Driver!user, DP!user, Driver!line, DP!line, Driver!errors,
         DP!errors, Driver!vars, DP!vars, Driver!NotReading, DP!NotReading,
         Driver!Init, DP!Init, Driver!Goto, DP!Goto, Driver!Result, DP!Result,
         Driver!Line, DP!Line, Driver!SetPin, DP!SetPin, Driver!InterruptHandler,
         DP!InterruptHandler, Driver!IoctlSimpleCommand, DP!IoctlSimpleCommand,
         Driver!IoctlCopyFails, DP!IoctlCopyFails, Driver!Claim, DP!Claim,
         Driver!Submit, DP!Submit, Driver!XferBegin, DP!XferBegin, Driver!XferEnd,
         DP!XferEnd, Driver!Process, DP!Process, Driver!SetLen, DP!SetLen,
         Driver!Release, DP!Release, Driver!WakeUp, DP!WakeUp, Driver!CheckIrq,
         DP!CheckIrq, Driver!At, DP!At, Driver!Read, DP!Read, Driver!WaitEvent,
         DP!WaitEvent, Driver!Signal, DP!Signal, Driver!Poll, DP!Poll,
         Driver!PollTest, DP!PollTest, Driver!PollEnds, DP!PollEnds,
         Driver!CopyBegin, DP!CopyBegin, Driver!Copied, DP!Copied, Driver!CopyEnd,
         DP!CopyEnd, Driver!UserLen, DP!UserLen, Driver!ResetLen, DP!ResetLen,
         Driver!Return, DP!Return, Driver!Callback, DP!Callback, Driver!ReadStep,
         DP!ReadStep, Driver!ReadCall, DP!ReadCall, Driver!Internal, DP!Internal,
         Driver!Next, DP!Next, Driver!CallbackLabels, DP!CallbackLabels,
         Driver!PumpLabels, DP!PumpLabels, Driver!ReaderStates, DP!ReaderStates,
         Driver!TypeOK, DP!TypeOK, Driver!Users, DP!Users, Driver!SpiExclusive,
         DP!SpiExclusive, Driver!NoLostInterrupt, DP!NoLostInterrupt, Driver!Sleeps,
         DP!Sleeps, Driver!NoLostWakeUp, DP!NoLostWakeUp

\* The link's assumption gives those of its two sides.
LEMMA Assumptions ==
  SP!QueueLenAssumption /\ SP!SlaveBoundsAssumption /\ DP!DriverAssumption
<1>1. \A n \in Nat : {-1} \cup (1 .. n) \subseteq Int \ {0}
  OBVIOUS
<1>2. Commands \subseteq Nat
  BY LinkAssumption DEF Slave!BcpCommands, Slave!BCP_CMD_READ_IRQ,
     Slave!BCP_CMD_SNIFF_ADVERTISEMENTS, Slave!SNIFF_ADVERTISEMENTS_STOP
<1>3. QED
  BY <1>1, <1>2, LinkAssumption
     DEF SP!QueueLenAssumption, SP!SlaveBoundsAssumption, DP!DriverAssumption
-----------------------------------------------------------------------------
\* What goes out on the bus is a command: nobody queues the message before its
\* command byte is set.
CommandSet ==
  /\ spi_msg.at = "queued" => spi_msg.cmd \in Slave!BcpCommands
  /\ \A c \in Callers : pc[c] \in {"claim", "submit"} => ioctl[c].cmd \in Commands

\* The inductive invariant of the link.
LinkInv == SP!IInv /\ Driver!TypeOK /\ CommandSet

\* The driver's own steps touch neither the line nor the response.
LEMMA InternalFrame ==
  ASSUME Driver!Internal
  PROVE  UNCHANGED <<pin, spi_data_buffer>>
  BY DEF Driver!Internal, Driver!InterruptHandler, Driver!Claim, Driver!Submit,
         Driver!IoctlCopyFails, Driver!IoctlSimpleCommand, Driver!Callback,
         Driver!Process, Driver!SetLen, Driver!Release, Driver!WakeUp, Driver!CheckIrq,
         Driver!ReadCall, Driver!Read, Driver!Signal, Driver!Poll, Driver!PollEnds,
         Driver!ReadStep, Driver!WaitEvent, Driver!CopyBegin, Driver!CopyEnd,
         Driver!UserLen, Driver!ResetLen, Driver!Return, Driver!PollTest,
         Driver!line, Driver!spi

\* The slave answers with a report, zeroes or a mixture of two reports.
LEMMA ResponseTypes ==
  ASSUME Slave!TypeOK, NEW resp \in Slave!Responses
  PROVE  /\ resp \in {Slave!Torn, Slave!NoReport} \cup Slave!Reports
         /\ resp \in Driver!Answers
<1>1. spi_tx_buf \in {Slave!NoReport} \cup Slave!Reports
      /\ xfer.miso \in {Slave!NoReport} \cup Slave!Reports
  BY DEF Slave!TypeOK
<1>2. resp \in {Slave!Torn, Slave!NoReport} \cup Slave!Reports
  BY <1>1 DEF Slave!Responses
<1>3. QED
  BY <1>2 DEF Driver!Answers, Driver!NoReport, Slave!Torn, Slave!NoReport, Slave!Reports

\* Every step of the link is a step of the firmware or of its master, or changes
\* nothing of the slave.
LEMMA SlaveSteps == LinkInv /\ [Next]_vars => [Slave!Next]_(Slave!vars)
<1> SUFFICES ASSUME LinkInv, [Next]_vars PROVE [Slave!Next]_(Slave!vars)
  OBVIOUS
<1>1. CASE FirmwareStep(Slave!Firmware)
  BY <1>1 DEF FirmwareStep, Slave!Next
<1>2. CASE DriverStep(Driver!Internal)
  <2>1. UNCHANGED slave_own /\ UNCHANGED pin
    BY <1>2, InternalFrame DEF DriverStep
  <2>2. QED
    BY <2>1 DEF slave_own, Slave!vars, Slave!fwvars, Slave!spivars, Slave!counts
<1>3. CASE BusBegin
  <2>1. spi_msg.cmd \in Slave!BcpCommands
    BY <1>3 DEF BusBegin, Driver!XferBegin, LinkInv, CommandSet
  <2>2. QED
    BY <1>3, <2>1 DEF BusBegin, Slave!Next, Slave!Master
<1>4. CASE BusEnd
  <2>1. Slave!TypeOK
    BY SameSlave DEF LinkInv, SP!IInv
  <2>2. PICK resp \in Slave!Responses : Slave!XferEnd(resp)
    BY <1>4 DEF BusEnd
  <2>3. QED
    BY <2>1, <2>2, ResponseTypes DEF Slave!Next, Slave!Master
<1>5. CASE UNCHANGED vars
  BY <1>5 DEF vars, slave_own, Slave!vars, Slave!fwvars, Slave!spivars, Slave!counts
<1>6. QED
  BY <1>1, <1>2, <1>3, <1>4, <1>5 DEF Next

\* What is invariant of the firmware alone stays so on the link.
LEMMA SlaveInvariant == LinkInv /\ [Next]_vars => SP!IInv'
<1>1. SP!IInv /\ [SP!Next]_(SP!vars) => SP!IInv'
  BY Assumptions, SP!NextIInv
<1>2. QED
  BY <1>1, SlaveSteps, SameSlave DEF LinkInv

\* Every step of the link is one of the driver, of its bus or of its radio's line.
LEMMA DriverSteps == LinkInv /\ [Next]_vars => [Driver!Next]_(Driver!vars)
<1> SUFFICES ASSUME LinkInv, [Next]_vars PROVE [Driver!Next]_(Driver!vars)
  OBVIOUS
<1>1. CASE FirmwareStep(Slave!Firmware)
  <2>1. pin' \in BOOLEAN
    BY SlaveInvariant DEF SP!IInv, SP!TypeOK
  <2>2. Driver!SetPin(pin')
    BY <1>1 DEF FirmwareStep, driver_own, Driver!SetPin, Driver!Line, Driver!spi,
                Driver!user, Driver!errors
  <2>3. QED
    BY <2>1, <2>2 DEF Driver!Next
<1>2. CASE DriverStep(Driver!Internal)
  BY <1>2 DEF DriverStep, Driver!Next
<1>3. CASE BusBegin
  BY <1>3 DEF BusBegin, Driver!Next
<1>4. CASE BusEnd
  <2>1. Slave!TypeOK
    BY SameSlave DEF LinkInv, SP!IInv
  <2>2. PICK resp \in Slave!Responses : Driver!XferEnd(resp)
    BY <1>4 DEF BusEnd
  <2>3. QED
    BY <2>1, <2>2, ResponseTypes DEF Driver!Next
<1>5. CASE UNCHANGED vars
  BY <1>5 DEF vars, driver_own, Driver!vars, Driver!line, Driver!spi, Driver!user,
              Driver!errors
<1>6. QED
  BY <1>1, <1>2, <1>3, <1>4, <1>5 DEF Next

\* The driver's variables keep their types on the link.
LEMMA DriverTypes == LinkInv /\ [Next]_vars => Driver!TypeOK'
<1>1. DP!TypeOK /\ [DP!Next]_(DP!vars) => DP!TypeOK'
  BY Assumptions, DP!TypeStep
<1>2. LinkInv => Driver!TypeOK
  BY DEF LinkInv
<1>3. QED
  BY <1>1, <1>2, DriverSteps, SameDriver, PTL

\* The interrupt handler and nrf51822_check_irq send READ_IRQ, an ioctl the command it
\* has copied from its caller.
LEMMA CommandStep == LinkInv /\ [Next]_vars => CommandSet'
<1> SUFFICES ASSUME LinkInv, [Next]_vars PROVE CommandSet'
  OBVIOUS
<1>0. /\ Driver!TypeOK /\ CommandSet
      /\ pc \in [Driver!Contexts -> Driver!PumpLabels] /\ Callers \subseteq Driver!Contexts
      /\ \A c \in Callers : c /= "pump" /\ c /= "isr"
      /\ ioctl \in [Callers -> [cmd : {0} \cup Commands, ret : {0, Driver!EINTR}]]
  BY LinkAssumption DEF LinkInv, Driver!TypeOK, Driver!Contexts
<1>1. ASSUME UNCHANGED <<spi_msg, pc, ioctl>>
      PROVE  CommandSet'
  BY <1>0, <1>1 DEF CommandSet
<1>2. ASSUME NEW c \in Driver!Contexts, Driver!Claim(c)
      PROVE  CommandSet'
  <2>1. spi_msg' = spi_msg
    BY <1>2 DEF Driver!Claim
  <2>2. ASSUME NEW d \in Callers, pc'[d] \in {"claim", "submit"}
        PROVE  ioctl'[d].cmd \in Commands
    <3>1. pc[d] \in {"claim", "submit"}
      BY <1>0, <1>2, <2>2 DEF Driver!Claim, Driver!Goto
    <3>2. ioctl'[d] = ioctl[d]
      BY <1>0, <1>2, <2>2 DEF Driver!Claim, Driver!Goto, Driver!Result
    <3>3. QED
      BY <1>0, <3>1, <3>2 DEF CommandSet
  <2>3. QED
    BY <1>0, <2>1, <2>2 DEF CommandSet
<1>3. ASSUME NEW c \in Driver!Contexts, Driver!Submit(c)
      PROVE  CommandSet'
  <2>1. spi_msg'.at = "queued" => spi_msg'.cmd \in Slave!BcpCommands
    <3>1. CASE spi_msg' = spi_msg
      BY <1>0, <3>1 DEF CommandSet
    <3>2. CASE c \in Callers /\ spi_msg' = [at |-> "queued", cmd |-> ioctl[c].cmd]
      BY <1>0, <1>3, <3>2, LinkAssumption DEF CommandSet, Driver!Submit
    <3>3. CASE spi_msg' = [at |-> "queued", cmd |-> Driver!BCP_COMMAND_READ_IRQ]
      BY <3>3 DEF Driver!BCP_COMMAND_READ_IRQ, Slave!BcpCommands, Slave!BCP_CMD_READ_IRQ
    <3>4. QED
      BY <1>3, <3>1, <3>2, <3>3 DEF Driver!Submit
  <2>2. ASSUME NEW d \in Callers, pc'[d] \in {"claim", "submit"}
        PROVE  ioctl'[d].cmd \in Commands
    <3>1. d /= c /\ pc'[d] = pc[d]
      BY <1>0, <1>3, <2>2 DEF Driver!Submit, Driver!Goto
    <3>2. ioctl'[d] = ioctl[d]
      BY <1>3, <3>1 DEF Driver!Submit, Driver!Result
    <3>3. QED
      BY <1>0, <2>2, <3>1, <3>2 DEF CommandSet
  <2>3. QED
    BY <2>1, <2>2 DEF CommandSet
<1>4. ASSUME NEW c \in Callers, NEW cmd \in Commands, Driver!IoctlSimpleCommand(c, cmd)
      PROVE  CommandSet'
  <2>1. spi_msg' = spi_msg
    BY <1>4 DEF Driver!IoctlSimpleCommand, Driver!spi
  <2>2. ASSUME NEW d \in Callers, pc'[d] \in {"claim", "submit"}
        PROVE  ioctl'[d].cmd \in Commands
    <3>1. CASE d = c
      BY <1>0, <1>4, <3>1 DEF Driver!IoctlSimpleCommand
    <3>2. CASE d /= c
      <4>1. pc'[d] = pc[d] /\ ioctl'[d] = ioctl[d]
        BY <1>0, <1>4, <3>2 DEF Driver!IoctlSimpleCommand, Driver!Goto
      <4>2. QED
        BY <1>0, <2>2, <4>1 DEF CommandSet
    <3>3. QED
      BY <3>1, <3>2
  <2>3. QED
    BY <1>0, <2>1, <2>2 DEF CommandSet
<1>5. ASSUME NEW c \in Callers, Driver!IoctlCopyFails(c)
      PROVE  CommandSet'
  <2>1. spi_msg' = spi_msg /\ pc' = pc /\ pc[c] = "idle"
    BY <1>5 DEF Driver!IoctlCopyFails, Driver!spi
  <2>2. \A d \in Callers : d /= c => ioctl'[d] = ioctl[d]
    BY <1>5 DEF Driver!IoctlCopyFails, Driver!Result
  <2>3. QED
    BY <1>0, <2>1, <2>2 DEF CommandSet
<1>6. ASSUME Driver!InterruptHandler \/ Driver!Callback
      PROVE  CommandSet'
  <2>1. spi_msg' = spi_msg /\ ioctl' = ioctl
    BY <1>6 DEF Driver!InterruptHandler, Driver!Callback, Driver!Process, Driver!SetLen,
                Driver!Release, Driver!WakeUp, Driver!CheckIrq, Driver!spi
  <2>2. \A d \in Callers : pc'[d] = pc[d]
    BY <1>0, <1>6
       DEF Driver!InterruptHandler, Driver!Callback, Driver!Process, Driver!SetLen,
           Driver!Release, Driver!WakeUp, Driver!CheckIrq, Driver!Goto
  <2>3. QED
    BY <1>0, <2>1, <2>2 DEF CommandSet
<1>7. ASSUME NEW r \in Readers, Driver!ReadCall(r) \/ Driver!ReadStep(r)
      PROVE  CommandSet'
  <2>1. UNCHANGED <<spi_msg, pc, ioctl>>
    BY <1>7 DEF Driver!ReadCall, Driver!Read, Driver!Signal, Driver!Poll, Driver!PollEnds,
                Driver!ReadStep, Driver!WaitEvent, Driver!CopyBegin, Driver!CopyEnd,
                Driver!UserLen, Driver!ResetLen, Driver!Return, Driver!PollTest, Driver!spi
  <2>2. QED
    BY <1>1, <2>1
<1>8. CASE FirmwareStep(Slave!Firmware) \/ UNCHANGED vars
  BY <1>1, <1>8 DEF FirmwareStep, vars, driver_own
<1>9. CASE BusBegin
  <2>1. spi_msg'.at = "active" /\ UNCHANGED <<pc, ioctl>>
    BY <1>0, <1>9 DEF BusBegin, Driver!XferBegin, Driver!TypeOK
  <2>2. QED
    BY <1>0, <2>1 DEF CommandSet
<1>10. CASE BusEnd
  <2>1. spi_msg'.at = "free" /\ ioctl' = ioctl
    BY <1>0, <1>10 DEF BusEnd, Driver!XferEnd, Driver!TypeOK
  <2>2. \A d \in Callers : pc'[d] = pc[d]
    BY <1>0, <1>10 DEF BusEnd, Driver!XferEnd, Driver!Goto
  <2>3. QED
    BY <1>0, <2>1, <2>2 DEF CommandSet
<1>11. CASE DriverStep(Driver!Internal)
  BY <1>2, <1>3, <1>4, <1>5, <1>6, <1>7, <1>11 DEF DriverStep, Driver!Internal
<1>12. QED
  BY <1>8, <1>9, <1>10, <1>11 DEF Next

\* Both sides start as their own specifications say.
LEMMA InitLinkInv == Init => LinkInv
<1> SUFFICES ASSUME Init PROVE LinkInv
  OBVIOUS
<1>1. SP!IInv
  BY SameSlave, Assumptions, SP!InitIInv DEF Init
<1>2. Driver!TypeOK
  <2>1. DP!IInv
    BY SameDriver, Assumptions, DP!InitIInv DEF Init
  <2>2. QED
    BY <2>1, SameDriver DEF DP!IInv
<1>3. CommandSet
  BY DEF Init, Driver!Init, CommandSet, Driver!Contexts
<1>4. QED
  BY <1>1, <1>2, <1>3 DEF LinkInv

\* The invariant holds on the link.
LEMMA LinkInvariant == Spec => []LinkInv
<1>1. LinkInv /\ [Next]_vars => LinkInv'
  BY SlaveInvariant, DriverTypes, CommandStep DEF LinkInv
<1>2. QED
  BY <1>1, InitLinkInv, PTL DEF Spec

\* The firmware on the link behaves as BcpSlave says: the driver of nrf51822.c is one
\* of the masters that module allows.
THEOREM SlaveSide == Spec => SlaveSpec
<1>1. Init => Slave!Init
  BY DEF Init
<1>2. QED
  BY <1>1, SlaveSteps, LinkInvariant, PTL DEF Spec, SlaveSpec, Slave!Spec

\* The driver on the link behaves as Nrf51822 says: the firmware of main.c and
\* bcp_spi_slave.c is one of the radios that module allows.
THEOREM DriverSide == Spec => DriverSpec
<1>1. Init => Driver!Init
  BY DEF Init
<1>2. QED
  BY <1>1, DriverSteps, LinkInvariant, PTL DEF Spec, DriverSpec, Driver!Spec

\* On the link no event waits in the firmware without the line being high, the slave
\* never goes deaf while spi_slave_buffers_set succeeds, spi_pending keeps the SPI
\* message exclusive, no wake-up is lost, and no edge of the line while gap_spi_async
\* succeeds.
THEOREM LinkKeepsPromises ==
  Spec => []( /\ Slave!HostNotified /\ Slave!NeverDeaf
              /\ Driver!SpiExclusive /\ Driver!NoLostInterrupt /\ Driver!NoLostWakeUp )
<1>1. SP!Spec => []SP!HostNotified
  BY Assumptions, SP!Notified
<1>2. SP!Spec => []SP!NeverDeaf
  BY Assumptions, SP!AlwaysListening
<1>3. DP!Spec => []DP!SpiExclusive
  BY Assumptions, DP!Exclusive
<1>4. DP!Spec => []DP!NoLostInterrupt
  BY Assumptions, DP!InterruptsKept
<1>5. DP!Spec => []DP!NoLostWakeUp
  BY Assumptions, DP!WakeUpsKept
<1>6. Slave!Spec => SP!Spec
  BY SameSlave, PTL DEF Slave!Spec, SP!Spec
<1>7. Driver!Spec => DP!Spec
  BY SameDriver, PTL DEF Driver!Spec, DP!Spec
<1>8. QED
  BY <1>1, <1>2, <1>3, <1>4, <1>5, <1>6, <1>7, SlaveSide, DriverSide, SameSlave,
     SameDriver, PTL DEF SlaveSpec, DriverSpec
-----------------------------------------------------------------------------
\* A report the driver holds or has delivered is one it read: none is newer than the
\* one the slave clocked out last, and the one in spi_data_buffer, which survives a
\* failed transfer, is not older than the one delivered.
SeenInv ==
  /\ seen \in Int /\ seen <= last
  /\ spi_data_buffer \in 1 .. MaxAdv => (seen <= spi_data_buffer /\ spi_data_buffer <= last)

\* Only a callback that copies a response to buf_to_user delivers, and only the end of
\* a transfer changes what it will copy.
LEMMA SeenStep == LinkInv /\ SeenInv /\ [Next]_vars => SeenInv' /\ seen' >= seen
<1> SUFFICES ASSUME LinkInv, SeenInv, [Next]_vars PROVE SeenInv' /\ seen' >= seen
  OBVIOUS
<1>0. last \in Int /\ last' \in Int /\ MaxAdv \in Nat
  <2>1. \A n \in {0} \cup (1 .. MaxAdv) : n \in Int
    BY LinkAssumption
  <2>2. last \in {0} \cup (1 .. MaxAdv)
    BY DEF LinkInv, SP!IInv, SP!TypeOK, SP!NoReport, SP!Reports
  <2>3. last' \in {0} \cup (1 .. MaxAdv)
    BY SlaveInvariant DEF SP!IInv, SP!TypeOK, SP!NoReport, SP!Reports
  <2>4. QED
    BY <2>1, <2>2, <2>3, LinkAssumption
<1>1. last' >= last
  <2>1. SP!IInv /\ [SP!Next]_(SP!vars) => last' >= last
    BY Assumptions, SP!LastGrows
  <2>2. QED
    BY <2>1, SlaveSteps, SameSlave DEF LinkInv
<1>2. CASE UNCHANGED <<seen, spi_data_buffer>>
  BY <1>0, <1>1, <1>2 DEF SeenInv
<1>3. CASE DriverStep(Driver!Internal)
  <2>1. spi_data_buffer' = spi_data_buffer /\ last' = last
    BY <1>3, InternalFrame DEF DriverStep, slave_own
  <2>2. CASE seen' = seen
    BY <1>0, <2>1, <2>2 DEF SeenInv
  <2>3. CASE spi_data_buffer \in 1 .. MaxAdv /\ seen' = spi_data_buffer
    BY <1>0, <2>1, <2>3 DEF SeenInv
  <2>4. QED
    BY <1>3, <2>2, <2>3 DEF DriverStep
<1>4. CASE BusEnd
  <2>1. PICK resp : Slave!XferEnd(resp) /\ Driver!XferEnd(resp) /\ seen' = seen
    BY <1>4 DEF BusEnd
  <2>2. CASE spi_data_buffer' = spi_data_buffer
    BY <1>2, <2>1, <2>2
  <2>3. CASE spi_data_buffer' = resp
    <3>1. resp \in 1 .. MaxAdv => last' = resp
      BY <2>1 DEF Slave!XferEnd, Slave!Reports
    <3>2. QED
      BY <1>0, <1>1, <2>1, <2>3, <3>1 DEF SeenInv
  <2>4. QED
    BY <2>1, <2>2, <2>3 DEF Driver!XferEnd
<1>5. CASE FirmwareStep(Slave!Firmware) \/ UNCHANGED vars
  BY <1>2, <1>5 DEF FirmwareStep, vars, driver_own
<1>6. CASE BusBegin
  BY <1>2, <1>6 DEF BusBegin, Driver!XferBegin
<1>7. QED
  BY <1>3, <1>4, <1>5, <1>6 DEF Next

\* User space never gets an older advertisement report after a newer one: neither the
\* queue of the firmware, nor the re-reading of a line that stays high, nor a callback
\* after a failed transfer, nor a reset of the chip brings an old report back.
THEOREM UserInOrder == Spec => InOrderToUser
<1>1. Init => SeenInv
  BY LinkAssumption DEF Init, Slave!Init, Driver!Init, SeenInv, Slave!NoReport,
     Driver!NoReport
<1>2. SeenInv /\ LinkInv /\ [Next]_vars => SeenInv' /\ [seen' >= seen]_vars
  BY SeenStep
<1>3. QED
  BY <1>1, <1>2, LinkInvariant, PTL DEF Spec, InOrderToUser
=============================================================================

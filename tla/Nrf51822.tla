------------------------------ MODULE Nrf51822 ------------------------------
(***************************************************************************)
(* The Linux driver of one radio, software/driver/nrf51822/nrf51822.c.     *)
(* Four kinds of context run its code concurrently:                        *)
(*   isr      the handler of the radio's rising-edge interrupt;            *)
(*   pump     the kernel's SPI message pump, which performs the transfer   *)
(*            and then runs the completion callback;                       *)
(*   Callers  processes in the SIMPLE_COMMAND ioctl;                       *)
(*   Readers  processes in read() or poll().                               *)
(* A section under spi_spin_lock is one step; everything else is cut at    *)
(* every access to shared state (spi_pending, the message, buf_to_user and *)
(* its length, the interrupt line).  The locking is written for several    *)
(* processors, so the handler's steps interleave with the others'.         *)
(*                                                                         *)
(* A frame read from the radio is a number; NoReport (0) stands for a      *)
(* response whose first two bytes are zero.  The length of a frame is      *)
(* identified with the frame, so that a length of one frame used with the  *)
(* bytes of another is visible.                                            *)
(***************************************************************************)
EXTENDS Integers, FiniteSets

CONSTANTS Callers, Readers,     \* processes using the character device
          Commands,             \* commands passed to the ioctl
          Frames,               \* frames the radio may answer with (Torn may be one)
          MaxBusErrors,         \* bound: transfers that fail on the bus
          MaxSubmitErrors       \* bound: gap_spi_async calls that fail

BCP_COMMAND_READ_IRQ == 1

NoReport == 0
Torn     == -1    \* bytes of two frames
EFAULT   == -14
EINTR    == -4

ASSUME DriverAssumption ==
  /\ Frames \subseteq Int \ {0}
  /\ Commands \subseteq Nat
  /\ MaxBusErrors \in Nat /\ MaxSubmitErrors \in Nat
  /\ {"isr", "pump"} \cap Callers = {}

Contexts  == {"isr", "pump"} \cup Callers
Answers   == {NoReport} \cup Frames         \* of an intact transfer
Responses == {Torn} \cup Answers
Lengths   == Responses            \* 0, or the length of a frame

VARIABLES
  pin,               \* level of pin_interrupt
  irq,               \* a rising edge is latched, handler not yet run
  spi_pending,       \* claims the SPI message and its buffers
  spi_msg,           \* spi_msg: where it is, and spi_command_buffer[0]
  spi_data_buffer,   \* the response of the last transfer
  buf_to_user, buf_to_user_len,
  pc,                \* where each context is
  ioctl,             \* each caller: command and result
  reader,            \* each reader: where it is, its locals and its result
  bus_errors, submit_errors

spi    == <<spi_pending, spi_msg, spi_data_buffer>>
user   == <<buf_to_user, buf_to_user_len>>
line   == <<pin, irq>>
errors == <<bus_errors, submit_errors>>
vars   == <<line, spi, user, pc, ioctl, reader, errors>>

NotReading == [at |-> "idle", len |-> 0, data |-> NoReport, ret |-> 0, sig |-> FALSE]

\* The device structure as nrf51822_probe leaves it (zeroed memory).
Init ==
  /\ pin = FALSE /\ irq = FALSE
  /\ spi_pending = FALSE
  /\ spi_msg = [at |-> "free", cmd |-> 0]
  /\ spi_data_buffer = NoReport
  /\ buf_to_user = NoReport /\ buf_to_user_len = 0
  /\ pc = [c \in Contexts |-> "idle"]
  /\ ioctl = [c \in Callers |-> [cmd |-> 0, ret |-> 0]]
  /\ reader = [r \in Readers |-> NotReading]
  /\ bus_errors = 0 /\ submit_errors = 0

Goto(c, label) == pc' = [pc EXCEPT ![c] = label]

\* If c is a process in an ioctl, its call returns n.
Result(c, n) == ioctl' = [d \in Callers |-> IF d = c THEN [cmd |-> 0, ret |-> n]
                                                     ELSE ioctl[d]]

\* The radio drives its interrupt line to v; a rising edge is latched.
Line(v) == pin' = v /\ irq' = (irq \/ (v /\ ~pin))

SetPin(v) == Line(v) /\ UNCHANGED <<spi, user, pc, ioctl, reader, errors>>
-----------------------------------------------------------------------------
\* nrf51822_interrupt_handler is entered.
InterruptHandler ==
  /\ irq /\ pc["isr"] = "idle"
  /\ irq' = FALSE
  /\ Goto("isr", "claim")
  /\ UNCHANGED <<pin, spi, user, ioctl, reader, errors>>

\* nrf51822_ioctl_simple_command has copied command cmd and calls
\* nrf51822_issue_simple_command.
IoctlSimpleCommand(c, cmd) ==
  /\ pc[c] = "idle"
  /\ Goto(c, "claim")
  /\ ioctl' = [ioctl EXCEPT ![c].cmd = cmd]
  /\ UNCHANGED <<line, spi, user, reader, errors>>

\* The ioctl whose copy_from_user fails answers 0 without issuing anything.
IoctlCopyFails(c) ==
  /\ pc[c] = "idle"
  /\ Result(c, 0)
  /\ UNCHANGED <<line, spi, user, pc, reader, errors>>

\* Mutant of Claim: spi_pending is not tested.
ClaimAlways(c) ==
  /\ pc[c] = "claim"
  /\ spi_pending' = TRUE
  /\ Goto(c, "submit")
  /\ UNCHANGED <<line, spi_msg, spi_data_buffer, user, ioctl, reader, errors>>

\* The locked section at the head of nrf51822_read_irq (isr, pump) and of
\* nrf51822_issue_simple_command (Callers): claim the SPI, or skip the
\* interrupt, or answer -EINTR.
Claim(c) ==
  /\ pc[c] = "claim"
  /\ \/ /\ ~spi_pending
        /\ spi_pending' = TRUE
        /\ Goto(c, "submit")
        /\ UNCHANGED ioctl
     \/ /\ spi_pending
        /\ Goto(c, "idle")
        /\ Result(c, EINTR)
        /\ UNCHANGED spi_pending
  /\ UNCHANGED <<line, spi_msg, spi_data_buffer, user, reader, errors>>

\* The rest of both functions: set up the message and queue it.  The result of
\* gap_spi_async is not used; the ioctl answers 0.
Submit(c) ==
  /\ pc[c] = "submit"
  /\ \/ /\ spi_msg' = [at |-> "queued", cmd |-> IF c \in Callers THEN ioctl[c].cmd
                                               ELSE BCP_COMMAND_READ_IRQ]
        /\ UNCHANGED submit_errors
     \/ /\ submit_errors < MaxSubmitErrors
        /\ submit_errors' = submit_errors + 1
        /\ UNCHANGED spi_msg
  /\ Goto(c, "idle")
  /\ Result(c, 0)
  /\ UNCHANGED <<line, spi_pending, spi_data_buffer, user, reader, bus_errors>>
-----------------------------------------------------------------------------
\* The pump starts the queued transfer.
XferBegin ==
  /\ pc["pump"] = "idle" /\ spi_msg.at = "queued"
  /\ spi_msg' = [spi_msg EXCEPT !.at = "active"]
  /\ UNCHANGED <<line, spi_pending, spi_data_buffer, user, pc, ioctl, reader, errors>>

\* The transfer ends with response resp and the pump enters the completion
\* callback, which never looks at the message's status: after a bus error it
\* finds the previous response in spi_data_buffer.
XferEnd(resp) ==
  /\ spi_msg.at = "active"
  /\ spi_msg' = [spi_msg EXCEPT !.at = "free"]
  /\ \/ spi_data_buffer' = resp /\ UNCHANGED bus_errors
     \/ /\ bus_errors < MaxBusErrors
        /\ bus_errors' = bus_errors + 1
        /\ UNCHANGED spi_data_buffer
  /\ Goto("pump", "process")
  /\ UNCHANGED <<line, spi_pending, user, ioctl, reader, submit_errors>>

\* nrf51822_read_irq_done and nrf51822_issue_simple_command_done: a response that
\* starts with two zero bytes is ignored, any other is copied to buf_to_user ...
Process ==
  /\ pc["pump"] = "process"
  /\ IF spi_data_buffer = NoReport
     THEN Goto("pump", "release_only") /\ UNCHANGED buf_to_user
     ELSE Goto("pump", "set_len") /\ buf_to_user' = spi_data_buffer
  /\ UNCHANGED <<line, spi, buf_to_user_len, ioctl, reader, errors>>

\* Mutant of SetLen: off by one.
SetLenOffByOne ==
  /\ pc["pump"] = "set_len"
  /\ buf_to_user_len' = spi_data_buffer + 1
  /\ Goto("pump", "release")
  /\ UNCHANGED <<line, spi, buf_to_user, ioctl, reader, errors>>

\* ... and its length stored.
SetLen ==
  /\ pc["pump"] = "set_len"
  /\ buf_to_user_len' = spi_data_buffer
  /\ Goto("pump", "release")
  /\ UNCHANGED <<line, spi, buf_to_user, ioctl, reader, errors>>

\* Mutant of Release: the early return for an ignored response keeps the claim.
ReleaseAfterPacket ==
  /\ pc["pump"] \in {"release", "release_only"}
  /\ spi_pending' = (pc["pump"] = "release_only")
  /\ Goto("pump", IF pc["pump"] = "release" THEN "wake_up" ELSE "check_irq")
  /\ UNCHANGED <<line, spi_msg, spi_data_buffer, user, ioctl, reader, errors>>

\* Release the SPI; to_user_queue is woken only if there was a packet.
Release ==
  /\ pc["pump"] \in {"release", "release_only"}
  /\ spi_pending' = FALSE
  /\ Goto("pump", IF pc["pump"] = "release" THEN "wake_up" ELSE "check_irq")
  /\ UNCHANGED <<line, spi_msg, spi_data_buffer, user, ioctl, reader, errors>>

\* Mutant of WakeUp: nobody is woken.
WakeUpNobody ==
  /\ pc["pump"] = "wake_up"
  /\ Goto("pump", "check_irq")
  /\ UNCHANGED <<line, spi, user, ioctl, reader, errors>>

\* Those who sleep on to_user_queue, in read() or in poll(), test again.
WakeUp ==
  /\ pc["pump"] = "wake_up"
  /\ reader' = [r \in Readers |->
                  CASE reader[r].at = "asleep"  -> [reader[r] EXCEPT !.at = "wait"]
                    [] reader[r].at = "polling" -> [reader[r] EXCEPT !.at = "poll"]
                    [] OTHER                    -> reader[r]]
  /\ Goto("pump", "check_irq")
  /\ UNCHANGED <<line, spi, user, ioctl, errors>>

\* Mutant of CheckIrq: the line is not looked at again.
CheckIrqNever ==
  /\ pc["pump"] = "check_irq"
  /\ Goto("pump", "idle")
  /\ UNCHANGED <<line, spi, user, ioctl, reader, errors>>

\* nrf51822_check_irq: the line is sampled before the delay, the read (claim,
\* submit) comes after it.
CheckIrq ==
  /\ pc["pump"] = "check_irq"
  /\ Goto("pump", IF pin THEN "claim" ELSE "idle")
  /\ UNCHANGED <<line, spi, user, ioctl, reader, errors>>
-----------------------------------------------------------------------------
At(r, label) == reader[r].at = label

\* nrf51822_read is called.
Read(r) ==
  /\ At(r, "idle")
  /\ reader' = [reader EXCEPT ![r] = [NotReading EXCEPT !.at = "wait"]]
  /\ UNCHANGED <<line, spi, user, pc, ioctl, errors>>

\* wait_event_interruptible: the test, and going to sleep if it fails.
WaitEvent(r) ==
  /\ At(r, "wait")
  /\ reader' = [reader EXCEPT ![r].at =
                  IF buf_to_user_len /= 0 THEN "copy" ELSE "asleep"]
  /\ UNCHANGED <<line, spi, user, pc, ioctl, errors>>

\* A signal ends the sleep; read() does not look at the result of the wait.
Signal(r) ==
  /\ At(r, "asleep")
  /\ reader' = [reader EXCEPT ![r].at = "copy", ![r].sig = TRUE]
  /\ UNCHANGED <<line, spi, user, pc, ioctl, errors>>

\* nrf51822_poll for a process that waits for input: poll_wait puts it on
\* to_user_queue, ...
Poll(r) ==
  /\ At(r, "idle")
  /\ reader' = [reader EXCEPT ![r].at = "poll"]
  /\ UNCHANGED <<line, spi, user, pc, ioctl, errors>>

\* ... and the length tells whether the device is readable; if not, the kernel puts
\* the process to sleep, unless it was woken meanwhile.
PollTest(r) ==
  /\ At(r, "poll")
  /\ reader' = [reader EXCEPT ![r].at =
                  IF buf_to_user_len /= 0 THEN "idle" ELSE "polling"]
  /\ UNCHANGED <<line, spi, user, pc, ioctl, errors>>

\* poll() ends without input, at a signal or a time-out.
PollEnds(r) ==
  /\ At(r, "polling")
  /\ reader' = [reader EXCEPT ![r].at = "idle"]
  /\ UNCHANGED <<line, spi, user, pc, ioctl, errors>>

\* copy_to_user starts with the length it finds now ...
CopyBegin(r) ==
  /\ At(r, "copy")
  /\ reader' = [reader EXCEPT
       ![r].at = "copying", ![r].len = buf_to_user_len,
       ![r].data = IF buf_to_user_len = 0 THEN NoReport ELSE buf_to_user]
  /\ UNCHANGED <<line, spi, user, pc, ioctl, errors>>

\* What copy_to_user may have copied if buf_to_user changed under it.
Copied(r) ==
  IF reader[r].len = 0 \/ reader[r].data = buf_to_user
  THEN {reader[r].data}
  ELSE {reader[r].data, buf_to_user, Torn}

\* ... and ends, or faults and makes read() return -EFAULT.
CopyEnd(r) ==
  /\ At(r, "copying")
  /\ \/ \E d \in Copied(r) :
          reader' = [reader EXCEPT ![r].at = "user_len", ![r].data = d]
     \/ reader' = [reader EXCEPT ![r].at = "returned", ![r].ret = EFAULT]
  /\ UNCHANGED <<line, spi, user, pc, ioctl, errors>>

\* user_len = buf_to_user_len.
UserLen(r) ==
  /\ At(r, "user_len")
  /\ reader' = [reader EXCEPT ![r].at = "reset", ![r].ret = buf_to_user_len]
  /\ UNCHANGED <<line, spi, user, pc, ioctl, errors>>

\* Mutant of ResetLen: the length to return is read after the reset.
ResetLenFirst(r) ==
  /\ At(r, "reset")
  /\ buf_to_user_len' = 0
  /\ reader' = [reader EXCEPT ![r].at = "returned", ![r].ret = 0]
  /\ UNCHANGED <<line, spi, buf_to_user, pc, ioctl, errors>>

\* buf_to_user_len = 0, and read() returns user_len.
ResetLen(r) ==
  /\ At(r, "reset")
  /\ buf_to_user_len' = 0
  /\ reader' = [reader EXCEPT ![r].at = "returned"]
  /\ UNCHANGED <<line, spi, buf_to_user, pc, ioctl, errors>>

\* The process takes the result; the reader is as before its call.
Return(r) ==
  /\ At(r, "returned")
  /\ reader' = [reader EXCEPT ![r] = NotReading]
  /\ UNCHANGED <<line, spi, user, pc, ioctl, errors>>
-----------------------------------------------------------------------------
Callback ==                              \* a completion callback's steps
  \/ Process \/ SetLen \/ Release \/ WakeUp \/ CheckIrq

ReadStep(r) ==                           \* the steps of a call under way
  \/ WaitEvent(r) \/ CopyBegin(r) \/ CopyEnd(r) \/ UserLen(r) \/ ResetLen(r)
  \/ Return(r) \/ PollTest(r)

ReadCall(r) ==                           \* what the process and its signals do
  \/ Read(r) \/ Poll(r) \/ Signal(r) \/ PollEnds(r)

Internal ==                              \* everything but the radio and the bus
  \/ InterruptHandler
  \/ \E c \in Contexts : Claim(c) \/ Submit(c)
  \/ \E c \in Callers : IoctlCopyFails(c) \/ \E cmd \in Commands : IoctlSimpleCommand(c, cmd)
  \/ Callback
  \/ \E r \in Readers : ReadCall(r) \/ ReadStep(r)

Next ==
  \/ Internal
  \/ XferBegin
  \/ \E resp \in Answers : XferEnd(resp)
  \/ \E v \in BOOLEAN : SetPin(v)

\* The kernel runs pending interrupts, runnable threads and queued transfers.
Fairness ==
  /\ WF_vars(InterruptHandler)
  /\ \A c \in Contexts : WF_vars(Claim(c) \/ Submit(c))
  /\ WF_vars(XferBegin)
  /\ WF_vars(\E resp \in Answers : XferEnd(resp))
  /\ WF_vars(Callback)
  /\ \A r \in Readers : WF_vars(ReadStep(r))

Spec     == Init /\ [][Next]_vars
FairSpec == Spec /\ Fairness
-----------------------------------------------------------------------------
CallbackLabels == {"process", "set_len", "release", "release_only"}
PumpLabels     == CallbackLabels \cup
                  {"idle", "wake_up", "check_irq", "claim", "submit"}

ReaderStates ==
  [at : {"idle", "wait", "asleep", "copy", "copying", "user_len", "reset", "returned",
         "poll", "polling"},
   len : Lengths, data : Responses, ret : Lengths \cup {EFAULT}, sig : BOOLEAN]

\* Type invariant.
TypeOK ==
  /\ pin \in BOOLEAN /\ irq \in BOOLEAN /\ spi_pending \in BOOLEAN
  /\ spi_msg \in [at : {"free", "queued", "active"},
                  cmd : {0, BCP_COMMAND_READ_IRQ} \cup Commands]
  /\ spi_data_buffer \in Responses /\ buf_to_user \in Responses
  /\ buf_to_user_len \in Lengths
  /\ pc \in [Contexts -> PumpLabels]
  /\ \A c \in Contexts \ {"pump"} : pc[c] \in {"idle", "claim", "submit"}
  /\ ioctl \in [Callers -> [cmd : {0} \cup Commands, ret : {0, EINTR}]]
  /\ reader \in [Readers -> ReaderStates]
  /\ bus_errors \in 0 .. MaxBusErrors
  /\ submit_errors \in 0 .. MaxSubmitErrors

\* Who is using the SPI message, its buffers and its response.
Users ==
  {c \in Contexts : pc[c] = "submit"}
  \cup (IF spi_msg.at /= "free" THEN {"message"} ELSE {})
  \cup (IF pc["pump"] \in CallbackLabels THEN {"callback"} ELSE {})

\* spi_pending is a lock on the message and its buffers: at most one of the
\* interrupt handler, the ioctls, the transfer and the callback uses them, and
\* whoever does so holds it.
SpiExclusive ==
  /\ \A a, b \in Users : a = b
  /\ Users /= {} => spi_pending

\* A message handed to the SPI core is not set up again before its callback has
\* run: the command that goes out is the one that was submitted.
MessageKept == [][spi_msg.at /= "free" => spi_msg'.cmd = spi_msg.cmd]_vars

\* The interrupt is edge triggered and nrf51822_read_irq skips it while the SPI is
\* in use.  Still no interrupt is lost: while the line is high an edge is latched,
\* or the handler is on its way, or somebody uses the SPI and will sample the line
\* afterwards, or that sampling is under way.  This holds as long as no gap_spi_async
\* has failed: after a failure spi_pending stays set with nobody to sample the line,
\* and interrupts are lost for good.
NoLostInterrupt ==
  pin /\ submit_errors = 0 => \/ irq \/ pc["isr"] = "claim"
                              \/ Users /= {}
                              \/ pc["pump"] \in {"wake_up", "check_irq", "claim"}

Sleeps(r) == reader[r].at \in {"asleep", "polling"}

\* No wake-up is lost: a reader sleeps on a non-empty buf_to_user, in read() or in
\* poll(), only until the callback that filled it reaches wake_up.
NoLostWakeUp ==
  \A r \in Readers : Sleeps(r) /\ buf_to_user_len /= 0
                       => pc["pump"] \in {"release", "wake_up"}

\* A lone reader that was not interrupted by a signal never gets the result 0
\* (end of file) from read(), however the callbacks interleave with it.
LoneReaderGetsData ==
  \A r \in Readers :
    Readers = {r} /\ reader[r].at = "returned" /\ ~reader[r].sig
      => reader[r].ret /= 0

\* Unless a submission has failed, the SPI does not stay claimed for ever.
SpiReleased == spi_pending ~> (~spi_pending \/ submit_errors > 0)

\* A raised line is answered, unless a submission has failed: it goes low or a
\* transfer completes.
InterruptServed == pin ~> (~pin \/ pc["pump"] = "process" \/ submit_errors > 0)

\* A blocked reader runs again once there is a packet for it.
ReaderRuns ==
  \A r \in Readers : (Sleeps(r) /\ buf_to_user_len /= 0) ~> ~Sleeps(r)

\* read() returns the length of the packet it has copied to the user, and
\* discards that packet and no other.
ReadsWhatItCopied ==
  \A r \in Readers :
    reader[r].at = "returned" /\ reader[r].ret /= EFAULT /\ ~reader[r].sig
      => reader[r].ret = reader[r].data
=============================================================================

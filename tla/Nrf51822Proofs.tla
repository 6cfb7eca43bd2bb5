--------------------------- MODULE Nrf51822Proofs ---------------------------
(***************************************************************************)
(* Proofs about Nrf51822, for any number of processes, frames and errors:  *)
(* spi_pending excludes concurrent use of the SPI message, no wake-up is   *)
(* lost, and no interrupt until a submission fails.                        *)
(***************************************************************************)
EXTENDS Nrf51822, TLAPS

\* Why spi_pending excludes: whoever is past its claim holds it, and sees neither
\* a message under way nor a callback that has not released yet.
SpiInv ==
  /\ \A c, d \in Contexts : pc[c] = "submit" /\ pc[d] = "submit" => c = d
  /\ \A c \in Contexts : pc[c] = "submit" =>
       spi_pending /\ spi_msg.at = "free" /\ pc["pump"] \notin CallbackLabels
  /\ spi_msg.at /= "free" => spi_pending /\ pc["pump"] \notin CallbackLabels
  /\ pc["pump"] \in CallbackLabels => spi_pending

\* A transfer is under way only while the pump runs no callback.
ActiveAlone == spi_msg.at = "active" => pc["pump"] = "idle"

\* While the line is high an edge is latched, or the handler is on its way, or the SPI
\* is claimed, or the line is being sampled.
EdgeInv ==
  pin => \/ irq \/ pc["isr"] = "claim"
         \/ spi_pending
         \/ pc["pump"] \in {"wake_up", "check_irq", "claim"}

\* Somebody uses the SPI and will come to sample the line.
InUse == \/ \E c \in Contexts : pc[c] = "submit"
         \/ spi_msg.at /= "free"
         \/ pc["pump"] \in CallbackLabels

\* A claim has a user behind it, until a submission fails.
ClaimInv == spi_pending /\ submit_errors = 0 => InUse

\* The inductive invariant.
IInv == TypeOK /\ SpiInv /\ ActiveAlone /\ EdgeInv /\ ClaimInv /\ NoLostWakeUp

\* The program counters are well typed.
PcOK == /\ pc \in [Contexts -> PumpLabels]
        /\ \A c \in Contexts \ {"pump"} : pc[c] \in {"idle", "claim", "submit"}

\* A context that moves to a label of the code keeps pc well typed.
LEMMA GotoType ==
  ASSUME PcOK, NEW c \in Contexts, NEW label \in PumpLabels,
         c = "pump" \/ label \in {"idle", "claim", "submit"},
         Goto(c, label)
  PROVE  PcOK'
  BY DEF PcOK, Goto

\* The labels the code moves to.
LEMMA Labels ==
  /\ {"idle", "claim", "submit", "process", "set_len", "release", "release_only",
      "wake_up", "check_irq"} \subseteq PumpLabels
  /\ {"isr", "pump"} \subseteq Contexts /\ Callers \subseteq Contexts
  BY DEF PumpLabels, CallbackLabels, Contexts

\* The values lengths and responses may have.
LEMMA Values ==
  /\ 0 \in Lengths /\ NoReport \in Responses /\ Torn \in Responses
  /\ Lengths = Responses /\ Answers \subseteq Responses
  BY DEF Lengths, Responses, Answers, NoReport

\* A reader's step changes its label and one or two of its fields.
LEMMA ReaderSignal ==
  ASSUME reader \in [Readers -> ReaderStates], NEW r \in Readers
  PROVE  [reader EXCEPT ![r].at = "copy", ![r].sig = TRUE] \in [Readers -> ReaderStates]
  BY ZenonT(60) DEF ReaderStates

\* copy_to_user of nrf51822_read changes a reader's copy and remembered length.
LEMMA ReaderCopy ==
  ASSUME reader \in [Readers -> ReaderStates], NEW r \in Readers,
         NEW n \in Lengths, NEW d \in Responses
  PROVE  [reader EXCEPT ![r].at = "copying", ![r].len = n, ![r].data = d]
           \in [Readers -> ReaderStates]
  BY ZenonT(60) DEF ReaderStates

\* nrf51822_read sets the value it will return.
LEMMA ReaderRet ==
  ASSUME reader \in [Readers -> ReaderStates], NEW r \in Readers, NEW n \in Lengths
  PROVE  [reader EXCEPT ![r].at = "reset", ![r].ret = n] \in [Readers -> ReaderStates]
  BY ZenonT(60) DEF ReaderStates

\* copy_to_user ends: the reader has bytes d, or -EFAULT to return.
LEMMA ReaderCopied ==
  ASSUME reader \in [Readers -> ReaderStates], NEW r \in Readers, NEW d \in Responses
  PROVE  /\ [reader EXCEPT ![r].at = "user_len", ![r].data = d] \in [Readers -> ReaderStates]
         /\ [reader EXCEPT ![r].at = "returned", ![r].ret = EFAULT]
              \in [Readers -> ReaderStates]
<1>1. [reader EXCEPT ![r].at = "user_len", ![r].data = d] \in [Readers -> ReaderStates]
  BY ZenonT(60) DEF ReaderStates
<1>2. [reader EXCEPT ![r].at = "returned", ![r].ret = EFAULT] \in [Readers -> ReaderStates]
  BY ZenonT(60) DEF ReaderStates
<1>3. QED
  BY <1>1, <1>2

\* Every step of the driver preserves the type invariant.
LEMMA TypeStep == TypeOK /\ [Next]_vars => TypeOK'
<1> SUFFICES ASSUME TypeOK, [Next]_vars PROVE TypeOK'
  OBVIOUS
<1> USE Labels, GotoType DEF TypeOK, PcOK, vars, line, spi, user, errors
<1>1. CASE InterruptHandler
  BY <1>1 DEF InterruptHandler
<1>2. ASSUME NEW c \in Contexts, Claim(c) PROVE TypeOK'
  <2>1. CASE ~spi_pending
    BY <1>2, <2>1 DEF Claim
  <2>2. CASE spi_pending
    <3>1. ioctl' \in [Callers -> [cmd : {0} \cup Commands, ret : {0, EINTR}]]
      BY <1>2, <2>2 DEF Claim, Result
    <3>2. QED
      BY <1>2, <2>2, <3>1 DEF Claim
  <2>3. QED
    BY <2>1, <2>2
<1>3. ASSUME NEW c \in Contexts, Submit(c) PROVE TypeOK'
  BY <1>3, DriverAssumption DEF Submit, Result
<1>4. ASSUME NEW c \in Callers, IoctlCopyFails(c) PROVE TypeOK'
  BY <1>4 DEF IoctlCopyFails, Result
<1>5. ASSUME NEW c \in Callers, NEW cmd \in Commands, IoctlSimpleCommand(c, cmd)
      PROVE  TypeOK'
  BY <1>5 DEF IoctlSimpleCommand
<1>6. CASE Callback
  <2>1. CASE Process
    BY <2>1 DEF Process
  <2>2. CASE SetLen
    BY <2>2, Values DEF SetLen
  <2>3. CASE Release
    BY <2>3 DEF Release
  <2>4. CASE WakeUp
    <3>1. reader' \in [Readers -> ReaderStates]
      BY <2>4, SMTT(60) DEF WakeUp, ReaderStates
    <3>2. QED
      BY <2>4, <3>1 DEF WakeUp
  <2>5. CASE CheckIrq
    BY <2>5 DEF CheckIrq
  <2>6. QED
    BY <1>6, <2>1, <2>2, <2>3, <2>4, <2>5 DEF Callback
<1>7. ASSUME NEW r \in Readers, ReadCall(r) \/ ReadStep(r) PROVE TypeOK'
  <2>1. /\ UNCHANGED <<pin, irq, spi_pending, spi_msg, spi_data_buffer, buf_to_user,
                       pc, ioctl, bus_errors, submit_errors>>
        /\ buf_to_user_len' \in {0, buf_to_user_len}
    BY <1>7 DEF ReadCall, Read, Signal, Poll, PollEnds, ReadStep, WaitEvent, CopyBegin,
                CopyEnd, UserLen, ResetLen, Return, PollTest
  <2>2. reader' \in [Readers -> ReaderStates]
    <3>1. CASE Read(r)
      BY <3>1, Values DEF ReaderStates, Read, NotReading
    <3>2. CASE Signal(r)
      BY <3>2, ReaderSignal DEF Signal
    <3>3. CASE WaitEvent(r)
      <4>1. PICK l \in {"copy", "asleep"} : reader' = [reader EXCEPT ![r].at = l]
        BY <3>3 DEF WaitEvent
      <4>2. QED
        BY <4>1 DEF ReaderStates
    <3>4. CASE CopyBegin(r)
      <4> DEFINE d == IF buf_to_user_len = 0 THEN NoReport ELSE buf_to_user
      <4>1. d \in Responses
        BY Values
      <4>2. reader' = [reader EXCEPT ![r].at = "copying", ![r].len = buf_to_user_len,
                                     ![r].data = d]
        BY <3>4 DEF CopyBegin
      <4> HIDE DEF d
      <4>3. QED
        BY <4>1, <4>2, ReaderCopy
    <3>5. CASE CopyEnd(r)
      <4>1. reader[r].data \in Responses
        BY DEF ReaderStates
      <4>2. Copied(r) \subseteq Responses
        BY <4>1, Values DEF Copied
      <4>3. ASSUME NEW d \in Copied(r),
                   reader' = [reader EXCEPT ![r].at = "user_len", ![r].data = d]
            PROVE  reader' \in [Readers -> ReaderStates]
        <5>1. d \in Responses
          BY <4>2
        <5>2. QED
          BY <4>3, <5>1, ReaderCopied
      <4>4. CASE reader' = [reader EXCEPT ![r].at = "returned", ![r].ret = EFAULT]
        BY <4>4, ReaderCopied, Values
      <4>5. QED
        BY <3>5, <4>3, <4>4 DEF CopyEnd
    <3>6. CASE UserLen(r)
      BY <3>6, ReaderRet DEF UserLen
    <3>7. CASE ResetLen(r)
      BY <3>7, Values DEF ReaderStates, ResetLen
    <3>8. CASE Return(r)
      BY <3>8, Values DEF ReaderStates, Return, NotReading
    <3>9. CASE Poll(r) \/ PollTest(r) \/ PollEnds(r)
      <4>1. PICK l \in {"idle", "poll", "polling"} : reader' = [reader EXCEPT ![r].at = l]
        BY <3>9 DEF Poll, PollTest, PollEnds
      <4>2. QED
        BY <4>1 DEF ReaderStates
    <3>10. QED
      BY <1>7, <3>1, <3>2, <3>3, <3>4, <3>5, <3>6, <3>7, <3>8, <3>9 DEF ReadCall, ReadStep
  <2>3. QED
    BY <2>1, <2>2, Values
<1>8. CASE XferBegin
  BY <1>8 DEF XferBegin
<1>9. ASSUME NEW resp \in Answers, XferEnd(resp) PROVE TypeOK'
  <2>1. spi_data_buffer' \in Responses /\ bus_errors' \in 0 .. MaxBusErrors
    BY <1>9, Values, DriverAssumption DEF XferEnd
  <2>2. QED
    BY <1>9, <2>1 DEF XferEnd
<1>10. ASSUME NEW v \in BOOLEAN, SetPin(v) PROVE TypeOK'
  BY <1>10 DEF SetPin, Line
<1>11. CASE UNCHANGED vars
  BY <1>11
<1>12. QED
  BY <1>1, <1>2, <1>3, <1>4, <1>5, <1>6, <1>7, <1>8, <1>9, <1>10, <1>11
     DEF Next, Internal

\* What a step that moves only one context's program counter does to the others.
LEMMA Moves ==
  ASSUME TypeOK, NEW c \in Contexts, NEW label, Goto(c, label)
  PROVE  /\ pc'[c] = label
         /\ \A d \in Contexts : d /= c => pc'[d] = pc[d]
  BY DEF TypeOK, Goto

\* No step of the driver lets two contexts hold the SPI between the claim of
\* spi_pending and its release.
LEMMA SpiStep == IInv /\ [Next]_vars => SpiInv' /\ ActiveAlone'
<1> SUFFICES ASSUME IInv, [Next]_vars PROVE SpiInv' /\ ActiveAlone'
  OBVIOUS
<1> USE Labels DEF IInv, vars, line, spi, user, errors
<1>1. CASE InterruptHandler
  <2>1. pc'["isr"] = "claim" /\ \A d \in Contexts : d /= "isr" => pc'[d] = pc[d]
    BY <1>1, Moves DEF InterruptHandler
  <2>2. QED
    BY <1>1, <2>1 DEF InterruptHandler, SpiInv, ActiveAlone
<1>2. ASSUME NEW c \in Contexts, Claim(c) PROVE SpiInv' /\ ActiveAlone'
  <2>1. \A d \in Contexts : d /= c => pc'[d] = pc[d]
    BY <1>2, Moves DEF Claim
  <2>2. CASE ~spi_pending
    <3>1. pc'[c] = "submit"
      BY <1>2, <2>2, Moves DEF Claim
    <3>2. spi_pending' /\ spi_msg' = spi_msg
      BY <1>2, <2>2 DEF Claim
    <3>3. QED
      BY <1>2, <2>1, <2>2, <3>1, <3>2 DEF SpiInv, ActiveAlone, CallbackLabels
  <2>3. CASE spi_pending
    <3>1. pc'[c] = "idle" /\ UNCHANGED <<spi_pending, spi_msg>>
      BY <1>2, <2>3, Moves DEF Claim
    <3>2. QED
      BY <2>1, <2>3, <3>1 DEF SpiInv, ActiveAlone, CallbackLabels
  <2>4. QED
    BY <2>2, <2>3
<1>3. ASSUME NEW c \in Contexts, Submit(c) PROVE SpiInv' /\ ActiveAlone'
  <2>1. pc[c] = "submit" /\ pc'[c] = "idle" /\ \A d \in Contexts : d /= c => pc'[d] = pc[d]
    BY <1>3, Moves DEF Submit
  <2>2. spi_pending' = spi_pending /\ spi_msg'.at \in {"queued", spi_msg.at}
    BY <1>3 DEF Submit
  <2>3. QED
    BY <2>1, <2>2 DEF SpiInv, ActiveAlone, CallbackLabels
<1>4. ASSUME NEW c \in Callers, IoctlCopyFails(c) PROVE SpiInv' /\ ActiveAlone'
  BY <1>4 DEF IoctlCopyFails, SpiInv, ActiveAlone
<1>5. ASSUME NEW c \in Callers, NEW cmd \in Commands, IoctlSimpleCommand(c, cmd)
      PROVE  SpiInv' /\ ActiveAlone'
  <2>1. pc[c] = "idle" /\ pc'[c] = "claim" /\ \A d \in Contexts : d /= c => pc'[d] = pc[d]
    BY <1>5, Moves DEF IoctlSimpleCommand
  <2>2. UNCHANGED <<spi_pending, spi_msg>> /\ c /= "pump"
    BY <1>5, DriverAssumption DEF IoctlSimpleCommand
  <2>3. QED
    BY <2>1, <2>2 DEF SpiInv, ActiveAlone
<1>6. CASE Callback
  <2>1. \A d \in Contexts : d /= "pump" => pc'[d] = pc[d]
    BY <1>6, Moves DEF Callback, Process, SetLen, Release, WakeUp, CheckIrq
  <2>2. spi_msg' = spi_msg
    BY <1>6 DEF Callback, Process, SetLen, Release, WakeUp, CheckIrq
  <2>3. \/ /\ pc["pump"] \in CallbackLabels /\ pc'["pump"] \in CallbackLabels
           /\ spi_pending' = spi_pending
        \/ /\ pc["pump"] \in CallbackLabels
           /\ pc'["pump"] \in {"wake_up", "check_irq"}
        \/ /\ pc["pump"] \in {"wake_up", "check_irq"}
           /\ pc'["pump"] \in {"check_irq", "claim", "idle"}
           /\ spi_pending' = spi_pending
    BY <1>6, Moves DEF Callback, Process, SetLen, Release, WakeUp, CheckIrq, CallbackLabels
  <2>4. QED
    BY <2>1, <2>2, <2>3 DEF SpiInv, ActiveAlone, CallbackLabels
<1>7. ASSUME NEW r \in Readers, ReadCall(r) \/ ReadStep(r)
      PROVE  SpiInv' /\ ActiveAlone'
  BY <1>7 DEF ReadCall, Read, Signal, Poll, PollEnds, ReadStep, WaitEvent, CopyBegin,
              CopyEnd, UserLen, ResetLen, Return, PollTest, SpiInv, ActiveAlone
<1>8. CASE XferBegin
  <2>1. pc["pump"] = "idle" /\ spi_msg.at /= "free" /\ spi_msg'.at = "active"
    BY <1>8 DEF XferBegin, TypeOK
  <2>2. UNCHANGED <<spi_pending, pc>>
    BY <1>8 DEF XferBegin
  <2>3. QED
    BY <2>1, <2>2 DEF SpiInv, ActiveAlone
<1>9. ASSUME NEW resp \in Answers, XferEnd(resp) PROVE SpiInv' /\ ActiveAlone'
  <2>1. pc'["pump"] = "process" /\ \A d \in Contexts : d /= "pump" => pc'[d] = pc[d]
    BY <1>9, Moves DEF XferEnd
  <2>2. spi_msg.at = "active" /\ spi_msg'.at = "free" /\ spi_pending' = spi_pending
    BY <1>9 DEF XferEnd, TypeOK
  <2>3. QED
    BY <2>1, <2>2 DEF SpiInv, ActiveAlone
<1>10. ASSUME NEW v \in BOOLEAN, SetPin(v) PROVE SpiInv' /\ ActiveAlone'
  BY <1>10 DEF SetPin, SpiInv, ActiveAlone
<1>11. CASE UNCHANGED vars
  BY <1>11 DEF SpiInv, ActiveAlone
<1>12. QED
  BY <1>1, <1>2, <1>3, <1>4, <1>5, <1>6, <1>7, <1>8, <1>9, <1>10, <1>11
     DEF Next, Internal

\* No step leaves spi_pending set without a user, but the one that fails to submit.
LEMMA ClaimStep == IInv /\ [Next]_vars => ClaimInv'
<1> SUFFICES ASSUME IInv, [Next]_vars, spi_pending', submit_errors' = 0 PROVE InUse'
  BY DEF ClaimInv
<1> USE Labels DEF IInv, vars, line, spi, user, errors
<1>0. submit_errors \in Nat /\ "pump" \in Contexts
  BY DEF TypeOK, Contexts
<1>1. ASSUME InUse, NEW c \in Contexts, pc[c] /= "submit", spi_msg' = spi_msg,
             \A d \in Contexts : d /= c => pc'[d] = pc[d],
             pc[c] \in CallbackLabels => pc'[c] \in CallbackLabels
      PROVE  InUse'
  <2>1. (\E d \in Contexts : pc[d] = "submit") => (\E d \in Contexts : pc'[d] = "submit")
    BY <1>1
  <2>2. pc["pump"] \in CallbackLabels => pc'["pump"] \in CallbackLabels
    BY <1>0, <1>1
  <2>3. QED
    BY <1>1, <2>1, <2>2 DEF InUse
<1>2. ASSUME spi_pending, submit_errors = 0 PROVE InUse
  BY <1>2 DEF ClaimInv
<1>3. CASE InterruptHandler
  <2>1. /\ pc["isr"] = "idle" /\ "isr" \in Contexts /\ InUse
        /\ spi_msg' = spi_msg /\ \A d \in Contexts : d /= "isr" => pc'[d] = pc[d]
    BY <1>2, <1>3, Moves DEF InterruptHandler, Contexts
  <2>2. QED
    BY <1>1, <2>1 DEF CallbackLabels
<1>4. ASSUME NEW c \in Contexts, Claim(c) PROVE InUse'
  <2>1. CASE ~spi_pending
    BY <1>4, <2>1, Moves DEF Claim, InUse
  <2>2. CASE spi_pending
    <3>1. /\ pc[c] = "claim" /\ InUse /\ spi_msg' = spi_msg
          /\ \A d \in Contexts : d /= c => pc'[d] = pc[d]
      BY <1>2, <1>4, <2>2, Moves DEF Claim
    <3>2. QED
      BY <1>1, <3>1 DEF CallbackLabels
  <2>3. QED
    BY <2>1, <2>2
<1>5. ASSUME NEW c \in Contexts, Submit(c) PROVE InUse'
  <2>1. submit_errors' /= submit_errors + 1
    BY <1>0
  <2>2. spi_msg'.at = "queued"
    BY <1>5, <2>1 DEF Submit
  <2>3. QED
    BY <2>2 DEF InUse
<1>6. ASSUME NEW c \in Callers, NEW cmd \in Commands, IoctlSimpleCommand(c, cmd)
      PROVE  InUse'
  <2>1. /\ c \in Contexts /\ pc[c] = "idle" /\ InUse /\ spi_msg' = spi_msg
        /\ \A d \in Contexts : d /= c => pc'[d] = pc[d]
    BY <1>2, <1>6, Moves DEF IoctlSimpleCommand, Contexts
  <2>2. QED
    BY <1>1, <2>1 DEF CallbackLabels
<1>7. CASE Callback
  <2>1. ~Release
    BY DEF Release
  <2>2. /\ InUse /\ spi_msg' = spi_msg /\ pc["pump"] /= "submit"
        /\ \A d \in Contexts : d /= "pump" => pc'[d] = pc[d]
    BY <1>2, <1>7, <2>1, Moves DEF Callback, Process, SetLen, WakeUp, CheckIrq
  <2>3. pc["pump"] \in CallbackLabels => pc'["pump"] \in CallbackLabels
    BY <1>7, <2>1, Moves DEF Callback, Process, SetLen, WakeUp, CheckIrq, CallbackLabels
  <2>4. QED
    BY <1>0, <1>1, <2>2, <2>3
<1>8. CASE XferBegin
  BY <1>8 DEF XferBegin, TypeOK, InUse
<1>9. ASSUME NEW resp \in Answers, XferEnd(resp) PROVE InUse'
  BY <1>9, Moves DEF XferEnd, InUse, CallbackLabels
<1>10. ASSUME UNCHANGED <<spi_pending, spi_msg, pc, submit_errors>> PROVE InUse'
  BY <1>2, <1>10 DEF InUse
<1>11. ASSUME NEW c \in Callers, IoctlCopyFails(c) PROVE InUse'
  BY <1>10, <1>11 DEF IoctlCopyFails
<1>12. ASSUME NEW r \in Readers, ReadCall(r) \/ ReadStep(r) PROVE InUse'
  BY <1>10, <1>12 DEF ReadCall, Read, Signal, Poll, PollEnds, ReadStep, WaitEvent,
         CopyBegin, CopyEnd, UserLen, ResetLen, Return, PollTest
<1>13. ASSUME NEW v \in BOOLEAN, SetPin(v) PROVE InUse'
  BY <1>10, <1>13 DEF SetPin
<1>14. CASE UNCHANGED vars
  BY <1>10, <1>14
<1>15. QED
  BY <1>3, <1>4, <1>5, <1>6, <1>7, <1>8, <1>9, <1>11, <1>12, <1>13, <1>14
     DEF Next, Internal

\* No step forgets an edge: a raised line has a handler to come, or somebody who
\* will test the line in nrf51822_check_irq.
LEMMA InterruptStep == IInv /\ [Next]_vars => EdgeInv'
<1> SUFFICES ASSUME IInv, [Next]_vars PROVE EdgeInv'
  OBVIOUS
<1> USE Labels DEF IInv, vars, line, spi, user, errors
<1>1. CASE InterruptHandler
  <2>1. pc'["isr"] = "claim"
    BY <1>1, Moves DEF InterruptHandler
  <2>2. QED
    BY <2>1 DEF EdgeInv
<1>2. ASSUME NEW c \in Contexts, Claim(c) PROVE EdgeInv'
  <2>1. spi_pending'
    BY <1>2 DEF Claim, TypeOK
  <2>2. QED
    BY <2>1 DEF EdgeInv
<1>3. ASSUME NEW c \in Contexts, Submit(c) PROVE EdgeInv'
  <2>1. spi_pending'
    BY <1>3 DEF Submit, SpiInv
  <2>2. QED
    BY <2>1 DEF EdgeInv
<1>4. ASSUME NEW c \in Callers, IoctlCopyFails(c) PROVE EdgeInv'
  BY <1>4 DEF IoctlCopyFails, EdgeInv
<1>5. ASSUME NEW c \in Callers, NEW cmd \in Commands, IoctlSimpleCommand(c, cmd)
      PROVE  EdgeInv'
  <2>1. pc'["isr"] = pc["isr"] /\ pc'["pump"] = pc["pump"]
    BY <1>5, Moves, DriverAssumption DEF IoctlSimpleCommand
  <2>2. QED
    BY <1>5, <2>1 DEF IoctlSimpleCommand, EdgeInv
<1>6. CASE Callback
  <2>1. pc'["isr"] = pc["isr"] /\ UNCHANGED <<pin, irq>>
    BY <1>6, Moves DEF Callback, Process, SetLen, Release, WakeUp, CheckIrq
  <2>2. CASE Process \/ SetLen
    BY <2>1, <2>2 DEF Process, SetLen, SpiInv, CallbackLabels, EdgeInv
  <2>3. CASE Release \/ WakeUp
    <3>1. pc'["pump"] \in {"wake_up", "check_irq"}
      BY <2>3, Moves DEF Release, WakeUp
    <3>2. QED
      BY <3>1 DEF EdgeInv
  <2>4. CASE CheckIrq
    <3>1. pc'["pump"] = IF pin THEN "claim" ELSE "idle"
      BY <2>4, Moves DEF CheckIrq
    <3>2. QED
      BY <2>1, <3>1 DEF EdgeInv
  <2>5. QED
    BY <1>6, <2>2, <2>3, <2>4 DEF Callback
<1>7. ASSUME NEW r \in Readers, ReadCall(r) \/ ReadStep(r)
      PROVE  EdgeInv'
  BY <1>7 DEF ReadCall, Read, Signal, Poll, PollEnds, ReadStep, WaitEvent, CopyBegin,
              CopyEnd, UserLen, ResetLen, Return, PollTest, EdgeInv
<1>8. CASE XferBegin
  BY <1>8 DEF XferBegin, EdgeInv
<1>9. ASSUME NEW resp \in Answers, XferEnd(resp) PROVE EdgeInv'
  <2>1. spi_pending'
    BY <1>9 DEF XferEnd, SpiInv
  <2>2. QED
    BY <2>1 DEF EdgeInv
<1>10. ASSUME NEW v \in BOOLEAN, SetPin(v) PROVE EdgeInv'
  BY <1>10 DEF SetPin, Line, EdgeInv, TypeOK
<1>11. CASE UNCHANGED vars
  BY <1>11 DEF EdgeInv
<1>12. QED
  BY <1>1, <1>2, <1>3, <1>4, <1>5, <1>6, <1>7, <1>8, <1>9, <1>10, <1>11
     DEF Next, Internal

\* No step leaves a reader asleep on to_user_queue with a packet there and nobody
\* about to wake it.
LEMMA WakeUpStep == IInv /\ [Next]_vars => NoLostWakeUp'
<1> SUFFICES ASSUME IInv, [Next]_vars, NEW r \in Readers,
                    Sleeps(r)', buf_to_user_len' /= 0
             PROVE  pc'["pump"] \in {"release", "wake_up"}
  BY DEF NoLostWakeUp
<1> USE Labels DEF IInv, vars, line, spi, user, errors, Sleeps
<1> DEFINE Sleeping == Sleeps(r) /\ buf_to_user_len /= 0
<1>0. Sleeping => pc["pump"] \in {"release", "wake_up"}
  BY DEF NoLostWakeUp
<1>1. CASE InterruptHandler
  <2>1. pc'["pump"] = pc["pump"]
    BY <1>1, Moves DEF InterruptHandler
  <2>2. QED
    BY <1>0, <1>1, <2>1 DEF InterruptHandler
<1>2. ASSUME NEW c \in Contexts, Claim(c) \/ Submit(c)
      PROVE  pc'["pump"] \in {"release", "wake_up"}
  <2>1. Sleeping
    BY <1>2 DEF Claim, Submit
  <2>2. c /= "pump" /\ pc'["pump"] = pc["pump"]
    BY <1>0, <1>2, <2>1, Moves DEF Claim, Submit
  <2>3. QED
    BY <1>0, <2>1, <2>2
<1>3. ASSUME NEW c \in Callers, IoctlCopyFails(c)
      PROVE  pc'["pump"] \in {"release", "wake_up"}
  BY <1>0, <1>3 DEF IoctlCopyFails
<1>4. ASSUME NEW c \in Callers, NEW cmd \in Commands, IoctlSimpleCommand(c, cmd)
      PROVE  pc'["pump"] \in {"release", "wake_up"}
  <2>1. pc'["pump"] = pc["pump"]
    BY <1>4, Moves, DriverAssumption DEF IoctlSimpleCommand
  <2>2. QED
    BY <1>0, <1>4, <2>1 DEF IoctlSimpleCommand
<1>5. CASE Callback
  <2>1. CASE Process
    BY <1>0, <2>1 DEF Process
  <2>2. CASE SetLen
    BY <2>2, Moves DEF SetLen
  <2>3. CASE Release
    BY <1>0, <2>3, Moves DEF Release
  <2>4. CASE WakeUp
    BY <2>4 DEF WakeUp, TypeOK, ReaderStates
  <2>5. CASE CheckIrq
    BY <1>0, <2>5 DEF CheckIrq
  <2>6. QED
    BY <1>5, <2>1, <2>2, <2>3, <2>4, <2>5 DEF Callback
<1>6. ASSUME NEW s \in Readers, ReadCall(s) \/ ReadStep(s)
      PROVE  pc'["pump"] \in {"release", "wake_up"}
  <2>1. pc' = pc /\ buf_to_user_len' = buf_to_user_len
    BY <1>6 DEF ReadCall, Read, Signal, Poll, PollEnds, ReadStep, WaitEvent, CopyBegin,
                CopyEnd, UserLen, ResetLen, Return, PollTest
  <2>2. s = r => ~(ReadCall(s) \/ ReadStep(s))
    BY <2>1 DEF ReadCall, Read, Signal, Poll, PollEnds, ReadStep, WaitEvent, CopyBegin,
                CopyEnd, UserLen, ResetLen, Return, PollTest, NotReading, TypeOK, ReaderStates
  <2>3. reader'[r] = reader[r]
    BY <1>6, <2>2 DEF ReadCall, Read, Signal, Poll, PollEnds, ReadStep, WaitEvent, CopyBegin,
                CopyEnd, UserLen, ResetLen, Return, PollTest, TypeOK
  <2>4. QED
    BY <1>0, <2>1, <2>3
<1>7. CASE XferBegin
  BY <1>0, <1>7 DEF XferBegin
<1>8. ASSUME NEW resp \in Answers, XferEnd(resp)
      PROVE  pc'["pump"] \in {"release", "wake_up"}
  BY <1>0, <1>8 DEF XferEnd, ActiveAlone
<1>9. ASSUME NEW v \in BOOLEAN, SetPin(v)
      PROVE  pc'["pump"] \in {"release", "wake_up"}
  BY <1>0, <1>9 DEF SetPin
<1>10. CASE UNCHANGED vars
  BY <1>0, <1>10
<1>11. QED
  BY <1>1, <1>2, <1>3, <1>4, <1>5, <1>6, <1>7, <1>8, <1>9, <1>10
     DEF Next, Internal

\* The state nrf51822_probe leaves satisfies the inductive invariant.
LEMMA InitIInv == Init => IInv
<1> SUFFICES ASSUME Init PROVE IInv
  OBVIOUS
<1>1. TypeOK
  <2>1. reader \in [Readers -> ReaderStates]
    BY Values DEF Init, ReaderStates, NotReading
  <2>2. pc \in [Contexts -> PumpLabels]
    BY Labels DEF Init
  <2>3. bus_errors \in 0 .. MaxBusErrors /\ submit_errors \in 0 .. MaxSubmitErrors
    BY DriverAssumption DEF Init
  <2>4. QED
    BY <2>1, <2>2, <2>3, Values DEF Init, TypeOK
<1>2. SpiInv /\ ActiveAlone
  BY Labels DEF Init, SpiInv, ActiveAlone, CallbackLabels
<1>3. EdgeInv /\ ClaimInv /\ NoLostWakeUp
  BY DEF Init, EdgeInv, ClaimInv, NoLostWakeUp
<1>4. QED
  BY <1>1, <1>2, <1>3 DEF IInv

\* The inductive invariant holds in every reachable state of the driver.
THEOREM Inductive == Spec => []IInv
<1>1. IInv /\ [Next]_vars => IInv'
  BY TypeStep, SpiStep, InterruptStep, ClaimStep, WakeUpStep DEF IInv
<1>2. QED
  BY InitIInv, <1>1, PTL DEF Spec

\* Type correctness of the driver, for any number of processes.
THEOREM TypeCorrect == Spec => []TypeOK
<1>1. IInv => TypeOK
  BY DEF IInv
<1>2. QED
  BY Inductive, <1>1, PTL

\* spi_pending makes the SPI message, its buffers and its response exclusive
\* among the interrupt handler, any number of ioctls, the transfer and the
\* completion callbacks.
THEOREM Exclusive == Spec => []SpiExclusive
<1>1. IInv => SpiExclusive
  BY DEF IInv, SpiInv, SpiExclusive, Users
<1>2. QED
  BY Inductive, <1>1, PTL

\* A raised interrupt line is not forgotten while every gap_spi_async succeeds, though
\* the interrupt is edge triggered and nrf51822_read_irq skips interrupts that find
\* the SPI in use: each skipped one has a user of the SPI who will sample the line.
THEOREM InterruptsKept == Spec => []NoLostInterrupt
<1>1. IInv => NoLostInterrupt
  <2>1. InUse => Users /= {}
    BY DEF InUse, Users
  <2>2. QED
    BY <2>1 DEF IInv, EdgeInv, ClaimInv, NoLostInterrupt
<1>2. QED
  BY Inductive, <1>1, PTL

\* No read() sleeps through the wake-up of the packet it waits for.
THEOREM WakeUpsKept == Spec => []NoLostWakeUp
<1>1. IInv => NoLostWakeUp
  BY DEF IInv
<1>2. QED
  BY Inductive, <1>1, PTL

\* The command in a message that was handed to the SPI core is not overwritten.
THEOREM CommandKept == Spec => MessageKept
<1>1. IInv /\ [Next]_vars => [spi_msg.at /= "free" => spi_msg'.cmd = spi_msg.cmd]_vars
  <2> SUFFICES ASSUME IInv, [Next]_vars, spi_msg.at /= "free"
               PROVE  spi_msg'.cmd = spi_msg.cmd
    OBVIOUS
  <2> USE DEF vars, line, spi, user, errors
  <2>1. ASSUME NEW c \in Contexts, Claim(c) \/ Submit(c) PROVE spi_msg'.cmd = spi_msg.cmd
    BY <2>1 DEF Claim, Submit, IInv, SpiInv
  <2>2. CASE XferBegin \/ \E resp \in Answers : XferEnd(resp)
    BY <2>2 DEF XferBegin, XferEnd, IInv, TypeOK
  <2>3. CASE \/ InterruptHandler \/ Callback
             \/ \E r \in Readers : ReadCall(r) \/ ReadStep(r)
             \/ \E c \in Callers : IoctlCopyFails(c)
                  \/ \E cmd \in Commands : IoctlSimpleCommand(c, cmd)
             \/ \E v \in BOOLEAN : SetPin(v)
             \/ UNCHANGED vars
    BY <2>3 DEF InterruptHandler, Callback, Process, SetLen, Release, WakeUp, CheckIrq,
                ReadCall, Read, Signal, Poll, PollEnds, ReadStep, WaitEvent, CopyBegin,
                CopyEnd, UserLen, ResetLen, Return, PollTest, IoctlCopyFails, IoctlSimpleCommand, SetPin
  <2>4. QED
    BY <2>1, <2>2, <2>3 DEF Next, Internal
<1>2. QED
  BY Inductive, <1>1, PTL DEF Spec, MessageKept
-----------------------------------------------------------------------------
\* Why a lone reader gets data: once it has seen a length, nobody but itself resets
\* it, and a callback stores no length of 0.
LoneInv ==
  /\ pc["pump"] = "set_len" => spi_data_buffer /= 0
  /\ \A r \in Readers : Readers = {r} /\ ~reader[r].sig =>
       /\ reader[r].at \in {"copy", "copying", "user_len"} => buf_to_user_len /= 0
       /\ reader[r].at \in {"reset", "returned"} => reader[r].ret /= 0

\* What a reader may do to its own record.
LEMMA ReaderEffect ==
  ASSUME TypeOK, NEW r \in Readers, ReadCall(r) \/ ReadStep(r)
  PROVE  \/ reader'[r].sig \/ reader'[r].at \in {"idle", "wait", "asleep", "poll", "polling"}
         \/ /\ reader[r].at \in {"wait", "copy", "copying"} /\ reader'[r].sig = reader[r].sig
            /\ buf_to_user_len' = buf_to_user_len
            /\ reader[r].at = "wait" => buf_to_user_len /= 0
            /\ \/ reader'[r].at \in {"copy", "copying", "user_len"}
               \/ reader'[r].at = "returned" /\ reader'[r].ret = EFAULT
         \/ /\ reader[r].at = "user_len" /\ reader'[r].sig = reader[r].sig
            /\ reader'[r].at = "reset" /\ reader'[r].ret = buf_to_user_len
         \/ /\ reader[r].at = "reset" /\ reader'[r].sig = reader[r].sig
            /\ reader'[r].at = "returned" /\ reader'[r].ret = reader[r].ret
<1>0. reader \in [Readers -> ReaderStates]
  BY DEF TypeOK
<1> USE DEF user
<1>1. CASE Read(r) \/ Return(r)
  BY <1>0, <1>1 DEF Read, Return, NotReading
<1>2. CASE Poll(r) \/ PollTest(r) \/ PollEnds(r)
  BY <1>0, <1>2 DEF Poll, PollTest, PollEnds, ReaderStates
<1>3. CASE Signal(r)
  BY <1>0, <1>3 DEF Signal, ReaderStates
<1>4. CASE WaitEvent(r)
  BY <1>0, <1>4 DEF WaitEvent, At, ReaderStates
<1>5. CASE CopyBegin(r)
  BY <1>0, <1>5 DEF CopyBegin, At, ReaderStates
<1>6. CASE CopyEnd(r)
  BY <1>0, <1>6 DEF CopyEnd, At, ReaderStates
<1>7. CASE UserLen(r)
  BY <1>0, <1>7 DEF UserLen, At, ReaderStates
<1>8. CASE ResetLen(r)
  BY <1>0, <1>8 DEF ResetLen, At, ReaderStates
<1>9. QED
  BY <1>1, <1>2, <1>3, <1>4, <1>5, <1>6, <1>7, <1>8 DEF ReadCall, ReadStep

\* No step takes the packet away from a lone reader that is about to return it.
LEMMA LoneStep == IInv /\ LoneInv /\ [Next]_vars => LoneInv'
<1> SUFFICES ASSUME IInv, LoneInv, [Next]_vars PROVE LoneInv'
  OBVIOUS
<1> USE Labels DEF IInv, vars, line, spi, user, errors
<1>0. ASSUME UNCHANGED <<spi_data_buffer, buf_to_user_len, reader>>,
             pc'["pump"] = "set_len" => spi_data_buffer /= 0
      PROVE  LoneInv'
  BY <1>0 DEF LoneInv
<1>1. CASE InterruptHandler
  <2>1. pc'["pump"] = pc["pump"]
    BY <1>1, Moves DEF InterruptHandler
  <2>2. QED
    BY <1>0, <1>1, <2>1 DEF InterruptHandler, LoneInv
<1>2. ASSUME NEW c \in Contexts, Claim(c) \/ Submit(c)
      PROVE  LoneInv'
  <2>1. pc'["pump"] /= "set_len" \/ pc'["pump"] = pc["pump"]
    BY <1>2, Moves DEF Claim, Submit
  <2>2. QED
    BY <1>0, <1>2, <2>1 DEF Claim, Submit, LoneInv
<1>3. ASSUME NEW c \in Callers, IoctlCopyFails(c)
      PROVE  LoneInv'
  BY <1>0, <1>3 DEF IoctlCopyFails, LoneInv
<1>4. ASSUME NEW c \in Callers, NEW cmd \in Commands, IoctlSimpleCommand(c, cmd)
      PROVE  LoneInv'
  <2>1. pc'["pump"] = pc["pump"]
    BY <1>4, Moves, DriverAssumption DEF IoctlSimpleCommand
  <2>2. QED
    BY <1>0, <1>4, <2>1 DEF IoctlSimpleCommand, LoneInv
<1>5. CASE Callback
  <2>1. CASE Process
    <3>1. pc'["pump"] = "set_len" => spi_data_buffer /= 0
      BY <2>1, Moves DEF Process, NoReport
    <3>2. QED
      BY <1>0, <2>1, <3>1 DEF Process
  <2>2. CASE SetLen
    <3>1. pc'["pump"] = "release" /\ buf_to_user_len' = spi_data_buffer /\ spi_data_buffer /= 0
      BY <2>2, Moves DEF SetLen, LoneInv
    <3>2. QED
      BY <2>2, <3>1 DEF SetLen, LoneInv
  <2>3. CASE Release \/ CheckIrq
    <3>1. pc'["pump"] /= "set_len"
      BY <2>3, Moves DEF Release, CheckIrq
    <3>2. QED
      BY <1>0, <2>3, <3>1 DEF Release, CheckIrq
  <2>4. CASE WakeUp
    <3>1. pc'["pump"] /= "set_len" /\ buf_to_user_len' = buf_to_user_len
      BY <2>4, Moves DEF WakeUp
    <3>2. \A r \in Readers : reader'[r] = reader[r] \/ reader'[r].at \in {"wait", "poll"}
      BY <2>4 DEF WakeUp, TypeOK, ReaderStates
    <3>3. QED
      BY <3>1, <3>2 DEF LoneInv
  <2>5. QED
    BY <1>5, <2>1, <2>2, <2>3, <2>4 DEF Callback
<1>6. ASSUME NEW s \in Readers, ReadCall(s) \/ ReadStep(s)
      PROVE  LoneInv'
  <2>1. UNCHANGED <<pc, spi_data_buffer>>
    BY <1>6 DEF ReadCall, Read, Signal, Poll, PollEnds, ReadStep, WaitEvent, CopyBegin,
                CopyEnd, UserLen, ResetLen, Return, PollTest
  <2>2. ASSUME NEW r \in Readers, Readers = {r}, ~reader'[r].sig
        PROVE  /\ reader'[r].at \in {"copy", "copying", "user_len"} => buf_to_user_len' /= 0
               /\ reader'[r].at \in {"reset", "returned"} => reader'[r].ret /= 0
    <3>1. s = r
      BY <2>2
    <3>2. reader[r].at \in {"copy", "copying", "user_len"} /\ ~reader[r].sig
            => buf_to_user_len /= 0
      BY <2>2 DEF LoneInv
    <3>3. reader[r].at \in {"reset", "returned"} /\ ~reader[r].sig => reader[r].ret /= 0
      BY <2>2 DEF LoneInv
    <3>4. ReadCall(r) \/ ReadStep(r)
      BY <1>6, <3>1
    <3>5. QED
      BY <2>2, <3>2, <3>3, <3>4, ReaderEffect DEF EFAULT
  <2>3. QED
    BY <2>1, <2>2 DEF LoneInv
<1>7. CASE XferBegin
  BY <1>0, <1>7 DEF XferBegin, LoneInv
<1>8. ASSUME NEW resp \in Answers, XferEnd(resp)
      PROVE  LoneInv'
  <2>1. pc'["pump"] = "process"
    BY <1>8, Moves DEF XferEnd
  <2>2. QED
    BY <1>8, <2>1 DEF XferEnd, LoneInv
<1>9. ASSUME NEW v \in BOOLEAN, SetPin(v)
      PROVE  LoneInv'
  BY <1>0, <1>9 DEF SetPin, LoneInv
<1>10. CASE UNCHANGED vars
  BY <1>0, <1>10 DEF LoneInv
<1>11. QED
  BY <1>1, <1>2, <1>3, <1>4, <1>5, <1>6, <1>7, <1>8, <1>9, <1>10
     DEF Next, Internal

\* A lone reader without signals never gets 0 (end of file) from nrf51822_read,
\* whatever the callbacks do between its steps and however many errors the bus has.
THEOREM LoneReaders == Spec => []LoneReaderGetsData
<1>1. Init => LoneInv
  BY Labels DEF Init, LoneInv, NotReading
<1>2. LoneInv => LoneReaderGetsData
  BY DEF LoneInv, LoneReaderGetsData
<1>3. QED
  BY Inductive, LoneStep, <1>1, <1>2, PTL DEF Spec
=============================================================================

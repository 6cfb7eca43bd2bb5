--------------------------- MODULE Nrf51822Probe ----------------------------
(***************************************************************************)
(* The life of the radios' driver, software/driver/nrf51822/nrf51822.c, on *)
(* top of GapSpi: nrf51822_probe step by step, nrf51822_remove, unloading, *)
(* and between them the interrupts, ioctls and callbacks of several        *)
(* radios, here reduced to claiming and releasing spi_pending (Nrf51822    *)
(* has their details, for one radio that has been probed).                 *)
(*                                                                         *)
(* What the kernel answers with an oops, a corrupted list or a use of      *)
(* memory that was freed is the state oops, in which everything stops.     *)
(***************************************************************************)
EXTENDS GapSpi

\* The radios' indices differ in the bits that the demultiplexer has pins for.
ASSUME DemuxAssumption ==
  \A r, s \in Radios : (\A i \in Pins : Bit(r, i) = Bit(s, i)) => r = s

VARIABLES
  probe,        \* progress of nrf51822_probe and nrf51822_remove
  radio,        \* each radio: how much of its structure is initialised
  freed,        \* config.radios has been given back with kfree
  irqs,         \* radios whose interrupt is requested
  spi_pending,
  cdevs,        \* radios whose character device is registered
  files,        \* radios with an open file
  loaded,       \* nrf51822.ko
  oops,
  faults        \* history: what went wrong, or came in the wrong order

nrf  == <<probe, radio, freed, irqs, spi_pending, cdevs, files, loaded>>
vars == <<busvars, nrf, oops, faults>>

Init ==
  /\ BusInit
  /\ probe = "none" /\ radio = [r \in Radios |-> "zero"] /\ freed = FALSE
  /\ irqs = {} /\ spi_pending = [r \in Radios |-> FALSE]
  /\ cdevs = {} /\ files = {} /\ loaded = TRUE
  /\ oops = FALSE /\ faults = {}

chipselect_demux_index(r) == IF radio[r] \in {"zero", "irq"} THEN 0 ELSE r

Oops == oops' = TRUE /\ UNCHANGED <<busvars, nrf>>
-----------------------------------------------------------------------------
\* Mutant of ReadIrq: the message is set up before the claim.
ReadIrqSetUpFirst(r) ==
  \/ ~freed /\ spi_pending[r]
     /\ state' = [state EXCEPT ![r] = chipselect_demux_index(r)]
     /\ UNCHANGED <<driver, demux, queue, pump, accepted, nrf, oops>>
  \/ /\ ~freed /\ ~spi_pending[r]
     /\ gap_spi_async(r, chipselect_demux_index(r))
     /\ spi_pending' = [spi_pending EXCEPT ![r] = TRUE]
     /\ UNCHANGED <<probe, radio, freed, irqs, cdevs, files, loaded, oops>>

\* nrf51822_read_irq and nrf51822_issue_simple_command: claim the SPI and submit
\* the message, or do nothing.  Without gapspi_spi_device, spi_async follows a NULL
\* pointer; a message that is queued already ruins the queue.
ReadIrq(r) ==
  \/ freed /\ Oops
  \/ ~freed /\ spi_pending[r] /\ UNCHANGED <<busvars, nrf, oops>>
  \/ ~freed /\ ~spi_pending[r] /\ (~gapspi_spi_device \/ r \in Pending) /\ Oops
  \/ /\ ~freed /\ ~spi_pending[r]
     /\ gap_spi_async(r, chipselect_demux_index(r))
     /\ spi_pending' = [spi_pending EXCEPT ![r] = TRUE]
     /\ UNCHANGED <<probe, radio, freed, irqs, cdevs, files, loaded, oops>>

Interrupt(r) ==
  /\ ~oops /\ r \in irqs
  /\ ReadIrq(r)
  /\ faults' = IF radio[r] \in {"irq", "index"} THEN faults \cup {"early_irq"} ELSE faults

Ioctl(r) ==
  /\ ~oops /\ r \in files
  /\ ReadIrq(r)
  /\ UNCHANGED faults

nrf51822_open(r) ==
  /\ ~oops /\ loaded /\ r \in cdevs \ files
  /\ \/ freed /\ Oops
     \/ ~freed /\ files' = files \cup {r}
        /\ UNCHANGED <<busvars, probe, radio, freed, irqs, spi_pending, cdevs, loaded, oops>>
  /\ UNCHANGED faults

Close(r) ==
  /\ ~oops /\ r \in files
  /\ files' = files \ {r}
  /\ UNCHANGED <<busvars, probe, radio, freed, irqs, spi_pending, cdevs, loaded, oops, faults>>

\* The callback: the SPI is released and, if there is a packet, the wait queue used.
Done(packet) ==
  /\ ~oops /\ pump.at = "xfer"
  /\ IF ~loaded \/ freed \/ (packet /\ radio[pump.msg] \in {"zero", "irq", "index"})
     THEN Oops
     ELSE /\ PumpCompletes
          /\ spi_pending' = [spi_pending EXCEPT ![pump.msg] = FALSE]
          /\ UNCHANGED <<probe, radio, freed, irqs, cdevs, files, loaded, oops>>
  /\ UNCHANGED faults

\* nrf51822_check_irq, still in the callback, finds the line high ...
CheckIrq ==
  /\ ~oops /\ pump.at = "callback" /\ ~spi_pending[pump.msg]
  /\ IF loaded THEN ReadIrq(pump.msg) ELSE Oops
  /\ UNCHANGED faults

\* ... or has nothing more to do.
DoneReturns ==
  /\ ~oops /\ pump.at = "callback"
  /\ IF loaded THEN PumpReturns /\ UNCHANGED <<nrf, oops>> ELSE Oops
  /\ UNCHANGED faults
-----------------------------------------------------------------------------
Fault(f, cond) == faults' = IF cond THEN faults \cup {f} ELSE faults

\* nrf51822_probe: request_module("gapspi") does not wait for gapspi_spi_probe, and
\* its result is not used.  The radios are allocated and zeroed.
nrf51822_probe ==
  /\ ~oops /\ probe = "none" /\ loaded
  /\ probe' = "radios"
  /\ Fault("gapspi_unbound", ~gapspi_spi_device)
  /\ UNCHANGED <<busvars, radio, freed, irqs, spi_pending, cdevs, files, loaded, oops>>

\* A step of the loop over the radios, for the one in progress or any other: the
\* device tree decides on their order.
ProbeStep(r, from, to) ==
  /\ ~oops /\ probe = "radios" /\ radio[r] = from
  /\ radio' = [radio EXCEPT ![r] = to]

InProgress == {r \in Radios : radio[r] \in {"irq", "index"}}

RequestIrq(r) ==
  /\ ProbeStep(r, "zero", "irq") /\ InProgress = {}
  /\ irqs' = irqs \cup {r}
  /\ UNCHANGED <<busvars, probe, freed, spi_pending, cdevs, files, loaded, oops, faults>>

GetCsmux(r) ==
  /\ ProbeStep(r, "irq", "index")
  /\ UNCHANGED <<busvars, probe, freed, irqs, spi_pending, cdevs, files, loaded, oops, faults>>

InitRadio(r) ==
  /\ ProbeStep(r, "index", "ready")
  /\ spi_pending' = [spi_pending EXCEPT ![r] = FALSE]
  /\ UNCHANGED <<busvars, probe, freed, irqs, cdevs, files, loaded, oops, faults>>

\* alloc_chrdev_region and class_create.
CreateClass ==
  /\ ~oops /\ probe = "radios" /\ \A r \in Radios : radio[r] = "ready"
  /\ probe' = "cdevs"
  /\ UNCHANGED <<busvars, radio, freed, irqs, spi_pending, cdevs, files, loaded, oops, faults>>

\* cdev_add: from now on the device can be opened.
AddCdev(r) ==
  /\ ~oops /\ probe = "cdevs" /\ r \notin cdevs
  /\ cdevs' = cdevs \cup {r}
  /\ UNCHANGED <<busvars, probe, radio, freed, irqs, spi_pending, files, loaded, oops, faults>>

Probed ==
  /\ ~oops /\ probe = "cdevs" /\ cdevs = Radios
  /\ probe' = "bound"
  /\ UNCHANGED <<busvars, radio, freed, irqs, spi_pending, cdevs, files, loaded, oops, faults>>

\* Any of the steps fails: the labels error1 to error3.  The radios are freed with
\* character devices still registered and interrupts still requested.  (A failure
\* before they are allocated leaves nothing behind.)
ProbeFails ==
  /\ ~oops /\ probe \in {"radios", "cdevs"}
  /\ probe' = "unwinding"
  /\ freed' = TRUE
  /\ Fault("probe_failed", TRUE)
  /\ UNCHANGED <<busvars, radio, irqs, spi_pending, cdevs, files, loaded, oops>>

\* Mutant of nrf51822_remove: the radios are freed.
nrf51822_remove_frees ==
  /\ ~oops /\ probe = "bound"
  /\ probe' = "unwinding"
  /\ cdevs' = {}
  /\ freed' = TRUE
  /\ UNCHANGED <<busvars, radio, irqs, spi_pending, files, loaded, oops, faults>>

\* nrf51822_remove: the character devices go, open files and messages stay.
nrf51822_remove ==
  /\ ~oops /\ probe = "bound"
  /\ probe' = "unwinding"
  /\ cdevs' = {}
  /\ UNCHANGED <<busvars, radio, freed, irqs, spi_pending, files, loaded, oops, faults>>

\* What was requested with devm_ functions is released after probe has failed or
\* remove has returned.
DevresRelease ==
  /\ ~oops /\ probe = "unwinding"
  /\ probe' = "gone"
  /\ irqs' = {}
  /\ UNCHANGED <<busvars, radio, freed, spi_pending, cdevs, files, loaded, oops, faults>>

\* rmmod nrf51822, refused while a file is open (cdev.owner); nothing waits for a
\* message or its callback.
Unload ==
  /\ ~oops /\ probe = "gone" /\ loaded /\ files = {}
  /\ loaded' = FALSE
  /\ Fault("unloaded_busy", Pending /= {} \/ pump.at = "callback")
  /\ UNCHANGED <<busvars, probe, radio, freed, irqs, spi_pending, cdevs, files, oops>>

\* gapspi is unbound, by one store and then the other; its code stays while
\* nrf51822.ko, which uses it, is loaded.
GapRemove ==
  /\ ~oops /\ gapspi_spi_remove
  /\ Fault("gapspi_unbound", Pending /= {} \/ (loaded /\ probe /= "none"))
  /\ UNCHANGED <<nrf, oops>>

-----------------------------------------------------------------------------
PumpStep ==
  \/ ~oops /\ Pump /\ UNCHANGED <<nrf, oops, faults>>
  \/ \E packet \in BOOLEAN : Done(packet)
  \/ DoneReturns

Next ==
  \/ PumpStep
  \/ ~oops /\ GapBinds /\ UNCHANGED <<nrf, oops, faults>>
  \/ GapRemove \/ CheckIrq
  \/ \E r \in Radios : Interrupt(r) \/ Ioctl(r) \/ nrf51822_open(r) \/ Close(r)
                       \/ RequestIrq(r) \/ GetCsmux(r) \/ InitRadio(r) \/ AddCdev(r)
  \/ nrf51822_probe \/ CreateClass \/ Probed \/ ProbeFails
  \/ nrf51822_remove \/ DevresRelease \/ Unload

\* The kernel runs the message pump.
Spec == Init /\ [][Next]_vars /\ WF_vars(PumpStep)
-----------------------------------------------------------------------------
\* Type invariant.
TypeOK ==
  /\ BusTypeOK
  /\ probe \in {"none", "radios", "cdevs", "bound", "unwinding", "gone"}
  /\ radio \in [Radios -> {"zero", "irq", "index", "ready"}]
  /\ freed \in BOOLEAN /\ loaded \in BOOLEAN /\ oops \in BOOLEAN
  /\ irqs \subseteq Radios /\ cdevs \subseteq Radios /\ files \subseteq Radios
  /\ spi_pending \in [Radios -> BOOLEAN]
  /\ faults \subseteq {"early_irq", "probe_failed", "gapspi_unbound", "unloaded_busy"}

\* Handlers, callbacks, open files and the unwinding of the driver never meet
\* memory that was freed, a wait queue not yet initialised, a NULL device, a
\* message that is still queued, or code that is gone, however they interleave and
\* whatever outlives nrf51822_remove, provided that gapspi is bound before and
\* unbound after the radios, the probe succeeds, no interrupt arrives between
\* devm_request_irq and the initialisation that follows it, and the module is
\* unloaded while the bus is quiet.
StaysUp == faults = {} => ~oops

\* With several radios on the bus, a radio's transfer selects that radio and no
\* other, unless an interrupt came before its index was known.  As in
\* SelectedWhileOnBus, messages are left out that were queued but not yet taken when
\* gapspi_spi_remove restored the master's function, or were queued after that: such
\* a message goes to the radio that the previous one selected.
OwnRadioOnly ==
  pump.at = "xfer" /\ pump.msg \in accepted /\ "early_irq" \notin faults =>
    \A r \in Radios : Selected(r) <=> r = pump.msg

\* No radio starves: a message that was accepted is transferred and its callback
\* run, however busy the other radios are.
MessageServed ==
  \A r \in Radios :
    (r \in Pending) ~> (oops \/ (pump.at = "callback" /\ pump.msg = r))
=============================================================================

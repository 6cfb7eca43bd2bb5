------------------------------- MODULE GapSpi -------------------------------
(***************************************************************************)
(* software/driver/gapspi/gapspi.c: several radios behind one chip select. *)
(* The driver splices its own function into the SPI master; for every      *)
(* message it sets the pins of a demultiplexer, one after the other, and   *)
(* then calls the master's own function.                                   *)
(*                                                                         *)
(* A radio has one SPI message, named like the radio.  The master's        *)
(* message pump is a thread of the kernel: it takes queued messages in     *)
(* order, one at a time, and runs their completion callbacks.  It runs     *)
(* concurrently with those who queue messages and with gapspi's probe and  *)
(* remove.                                                                 *)
(***************************************************************************)
EXTENDS Integers, Sequences

CONSTANTS Radios,      \* the radios, each named by its radioN-csmux index
          NumPins      \* num_demux_ctrl_pins

ASSUME GapSpiAssumption == Radios \subseteq Nat /\ NumPins \in Nat

Pins    == 0 .. NumPins - 1
DevIds  == Radios \cup {0}  \* 0: an index not yet read from the device tree
Unbound == -1               \* no gapspi_spi_probe is under way
Idle    == [at |-> "idle", msg |-> 0, id |-> 0, i |-> 0]

VARIABLES
  transfer_one_message,   \* of the SPI master: "real" or "ours"
  gapspi_spi_device,      \* is not NULL
  requested,              \* pins gapspi_spi_probe has requested, or Unbound
  demux,                  \* level of each demultiplexer pin
  state,                  \* each message's state field
  queue,                  \* messages the pump has yet to take
  pump,                   \* the pump: where it is, its message, and the locals
                          \* cs_device_id and i of the functions below
  accepted                \* history: messages queued while our function is in
                          \* place and not yet transferred; remove takes out those
                          \* that the pump has yet to take, a new probe the rest

driver  == <<transfer_one_message, gapspi_spi_device, requested>>
busvars == <<driver, demux, state, queue, pump, accepted>>

BusInit ==
  /\ transfer_one_message = "real" /\ gapspi_spi_device = FALSE
  /\ requested = Unbound
  /\ demux = [i \in Pins |-> FALSE]
  /\ state = [r \in Radios |-> 0]
  /\ queue = << >> /\ pump = Idle
  /\ accepted = {}

\* The message the pump has taken, and all those the SPI core owns.
Taken   == IF pump.at \in {"mux", "xfer"} THEN {pump.msg} ELSE {}
Pending == {queue[k] : k \in 1 .. Len(queue)} \cup Taken

Bit(id, i)   == (id \div 2^i) % 2 = 1
Selected(id) == \A i \in Pins : demux[i] = Bit(id, i)
-----------------------------------------------------------------------------
\* Mutant of gap_spi_async: the device id is not saved in the message.
gap_spi_async_no_state(r, dev_id) ==
  /\ gapspi_spi_device /\ r \notin Pending
  /\ queue' = Append(queue, r)
  /\ accepted' = IF transfer_one_message = "ours" THEN accepted \cup {r} ELSE accepted
  /\ UNCHANGED <<driver, demux, state, pump>>

\* gap_spi_async (and gap_spi_sync): the message of radio r is queued for device
\* dev_id.  Nothing tells whether our function is in place.
gap_spi_async(r, dev_id) ==
  /\ gapspi_spi_device /\ r \notin Pending
  /\ state' = [state EXCEPT ![r] = dev_id]
  /\ queue' = Append(queue, r)
  /\ accepted' = IF transfer_one_message = "ours" THEN accepted \cup {r} ELSE accepted
  /\ UNCHANGED <<driver, demux, pump>>

\* The pump takes the next message and calls the master's transfer_one_message.
PumpTakes ==
  /\ pump.at = "idle" /\ queue /= << >>
  /\ queue' = Tail(queue)
  /\ pump' = [at  |-> IF transfer_one_message = "ours" THEN "mux" ELSE "xfer",
              msg |-> Head(queue), id |-> state[Head(queue)], i |-> 0]
  /\ UNCHANGED <<driver, demux, state, accepted>>

\* Mutant of gapspi_cs_mux: <= for <.
gapspi_cs_mux_past_end ==
  /\ pump.at = "mux" /\ pump.i <= NumPins
  /\ demux' = [demux EXCEPT ![pump.i] = Bit(pump.id, pump.i)]
  /\ pump' = [pump EXCEPT !.i = @ + 1]
  /\ UNCHANGED <<driver, state, queue, accepted>>

\* Mutant of gapspi_cs_mux: pins are only ever driven high.
gapspi_cs_mux_high ==
  /\ pump.at = "mux" /\ pump.i < NumPins
  /\ demux' = [demux EXCEPT ![pump.i] = @ \/ Bit(pump.id, pump.i)]
  /\ pump' = [pump EXCEPT !.i = @ + 1]
  /\ UNCHANGED <<driver, state, queue, accepted>>

\* One turn of the loop in gapspi_cs_mux.
gapspi_cs_mux ==
  /\ pump.at = "mux" /\ pump.i < NumPins
  /\ demux' = [demux EXCEPT ![pump.i] = Bit(pump.id, pump.i)]
  /\ pump' = [pump EXCEPT !.i = @ + 1]
  /\ UNCHANGED <<driver, state, queue, accepted>>

\* Mutant of our_transfer_one_message: the master's function is not called.
our_transfer_one_message_forgets ==
  /\ pump.at = "mux" /\ pump.i = NumPins
  /\ pump' = Idle
  /\ UNCHANGED <<driver, demux, state, queue, accepted>>

\* our_transfer_one_message calls real_transfer_one_message: the chip select is
\* asserted.
our_transfer_one_message ==
  /\ pump.at = "mux" /\ pump.i = NumPins
  /\ pump' = [pump EXCEPT !.at = "xfer"]
  /\ UNCHANGED <<driver, demux, state, queue, accepted>>

\* The transfer is over, and the pump runs the message's callback ...
PumpCompletes ==
  /\ pump.at = "xfer"
  /\ pump' = [pump EXCEPT !.at = "callback"]
  /\ accepted' = accepted \ {pump.msg}
  /\ UNCHANGED <<driver, demux, state, queue>>

\* ... which returns.
PumpReturns ==
  /\ pump.at = "callback"
  /\ pump' = Idle
  /\ UNCHANGED <<driver, demux, state, queue, accepted>>
-----------------------------------------------------------------------------
\* gapspi_spi_probe begins to request the pins.  (The kernel's device core calls
\* neither probe nor remove before the other has returned.) ...
gapspi_spi_probe ==
  /\ ~gapspi_spi_device /\ requested = Unbound
  /\ requested' = 0
  /\ accepted' = {}
  /\ UNCHANGED <<transfer_one_message, gapspi_spi_device, demux, state, queue, pump>>

\* ... each of which becomes an output that is low ...
gpio_request_one ==
  /\ requested \in Pins
  /\ demux' = [demux EXCEPT ![requested] = FALSE]
  /\ requested' = requested + 1
  /\ UNCHANGED <<transfer_one_message, gapspi_spi_device, state, queue, pump, accepted>>

\* ... or is invalid or taken: -EINVAL.
gapspi_spi_probe_fails ==
  /\ requested \in Pins
  /\ requested' = Unbound
  /\ UNCHANGED <<transfer_one_message, gapspi_spi_device, demux, state, queue, pump,
                 accepted>>

\* The master's own function, always the same one, is saved and ours put in its
\* place ...
gapspi_spi_probe_splices ==
  /\ requested = NumPins /\ transfer_one_message = "real"
  /\ transfer_one_message' = "ours"
  /\ UNCHANGED <<gapspi_spi_device, requested, demux, state, queue, pump, accepted>>

\* ... and only then does gap_spi_async have a device to submit to.
gapspi_spi_probe_binds ==
  /\ requested = NumPins /\ transfer_one_message = "ours"
  /\ gapspi_spi_device' = TRUE
  /\ requested' = Unbound
  /\ UNCHANGED <<transfer_one_message, demux, state, queue, pump, accepted>>

\* gapspi_spi_remove undoes the splice whatever the pump is doing ...
gapspi_spi_remove_restores ==
  /\ gapspi_spi_device /\ transfer_one_message = "ours"
  /\ transfer_one_message' = "real"
  /\ accepted' = accepted \cap Taken
  /\ UNCHANGED <<gapspi_spi_device, requested, demux, state, queue, pump>>

\* ... and then clears the device; what is submitted in between is accepted.
gapspi_spi_remove_clears ==
  /\ gapspi_spi_device /\ transfer_one_message = "real"
  /\ gapspi_spi_device' = FALSE
  /\ UNCHANGED <<transfer_one_message, requested, demux, state, queue, pump, accepted>>
-----------------------------------------------------------------------------
Pump == PumpTakes \/ gapspi_cs_mux \/ our_transfer_one_message

GapBinds == gapspi_spi_probe \/ gpio_request_one \/ gapspi_spi_probe_fails
            \/ gapspi_spi_probe_splices \/ gapspi_spi_probe_binds

gapspi_spi_remove == gapspi_spi_remove_restores \/ gapspi_spi_remove_clears

BusNext ==
  \/ Pump \/ PumpCompletes \/ PumpReturns
  \/ GapBinds \/ gapspi_spi_remove
  \/ \E r \in Radios, dev_id \in DevIds : gap_spi_async(r, dev_id)

BusSpec == BusInit /\ [][BusNext]_busvars
-----------------------------------------------------------------------------
\* Type invariant of the bus.
BusTypeOK ==
  /\ transfer_one_message \in {"real", "ours"} /\ gapspi_spi_device \in BOOLEAN
  /\ requested \in {Unbound} \cup 0 .. NumPins
  /\ demux \in [Pins -> BOOLEAN]
  /\ state \in [Radios -> DevIds] /\ queue \in Seq(Radios)
  /\ pump \in [at : {"idle", "mux", "xfer", "callback"}, msg : Radios \cup {0},
               id : DevIds, i : 0 .. NumPins]
  /\ accepted \subseteq Radios

\* While a message is on the bus, the demultiplexer selects the device it was
\* submitted for, from the first to the last bit: the pins are set one by one, by
\* whichever message comes next, and by gapspi_spi_probe.  This holds for every
\* message queued while our function is in place and taken by the pump before
\* gapspi_spi_remove restores the master's own, and up to the next probe.  It does not
\* hold for a message still queued at that moment, nor for one that gap_spi_async
\* accepts between the two stores of gapspi_spi_remove: those go out with whatever
\* the pins select then.
SelectedWhileOnBus ==
  pump.at = "xfer" /\ pump.msg \in accepted => Selected(state[pump.msg])
=============================================================================

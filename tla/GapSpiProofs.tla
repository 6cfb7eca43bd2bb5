---------------------------- MODULE GapSpiProofs ----------------------------
(***************************************************************************)
(* For any number of radios and demultiplexer pins: the bus of GapSpi      *)
(* keeps its types, and a message on the bus selects the device it was     *)
(* submitted for, unless gapspi was being removed; the radios' driver of   *)
(* Nrf51822Probe uses the bus as GapSpi allows, its transfers select their *)
(* own radios, and it stays up through probe, remove and unloading.        *)
(***************************************************************************)
EXTENDS Nrf51822Probe, TLAPS

\* Without our function in place the pump has taken what is still to go out selected,
\* and while gapspi_spi_probe drives the pins there is no such message.
BoundInv ==
  /\ transfer_one_message = "real" => accepted \subseteq Taken
  /\ requested /= Unbound => accepted = {} /\ ~gapspi_spi_device

\* For an accepted message the loop of gapspi_cs_mux has set the first i pins, and
\* all of them when the transfer is under way.
MuxInv ==
  pump.msg \in accepted =>
    /\ pump.at = "mux"  => /\ pump.id = state[pump.msg]
                           /\ \A i \in Pins : i < pump.i => demux[i] = Bit(pump.id, i)
    /\ pump.at = "xfer" => Selected(state[pump.msg])

IInv == BusTypeOK /\ BoundInv /\ MuxInv

\* The values of pump.
PumpStates == [at : {"idle", "mux", "xfer", "callback"}, msg : Radios \cup {0},
               id : DevIds, i : 0 .. NumPins]

USE DEF Pins, DevIds, Unbound

LEMMA BitBoolean == ASSUME NEW id, NEW i PROVE Bit(id, i) \in BOOLEAN
BY DEF Bit

LEMMA InitIInv == BusInit => IInv
<1> SUFFICES ASSUME BusInit PROVE IInv
  OBVIOUS
<1>1. BusTypeOK
  <2>1. Idle \in PumpStates
    BY GapSpiAssumption DEF Idle, PumpStates
  <2>2. state \in [Radios -> DevIds] /\ queue \in Seq(Radios)
    BY DEF BusInit
  <2>3. demux \in [Pins -> BOOLEAN] /\ requested \in {Unbound} \cup 0 .. NumPins
    BY DEF BusInit
  <2> QED
    BY <2>1, <2>2, <2>3 DEF BusInit, BusTypeOK, PumpStates
<1>2. BoundInv /\ MuxInv
  BY DEF BusInit, BoundInv, MuxInv
<1> QED
  BY <1>1, <1>2 DEF IInv

LEMMA TypeStep == ASSUME BusTypeOK, [BusNext]_busvars PROVE BusTypeOK'
<1> USE GapSpiAssumption DEF BusTypeOK
<1>1. CASE PumpTakes
  <2>1. queue' \in Seq(Radios) /\ Head(queue) \in Radios
    BY <1>1 DEF PumpTakes
  <2>2. state[Head(queue)] \in DevIds
    BY <2>1
  <2>3. 0 \in 0 .. NumPins
    OBVIOUS
  <2>4. pump' \in PumpStates
    BY <1>1, <2>1, <2>2, <2>3 DEF PumpTakes, PumpStates
  <2> QED
    BY <1>1, <2>1, <2>4 DEF PumpTakes, driver, PumpStates
<1>2. CASE gapspi_cs_mux
  <2>1. demux' \in [Pins -> BOOLEAN]
    BY <1>2, BitBoolean DEF gapspi_cs_mux
  <2>2. pump.i + 1 \in 0 .. NumPins
    BY <1>2 DEF gapspi_cs_mux
  <2>3. pump' \in PumpStates
    BY <1>2, <2>2 DEF gapspi_cs_mux, PumpStates
  <2> QED
    BY <1>2, <2>1, <2>3 DEF gapspi_cs_mux, driver, PumpStates
<1>3. CASE our_transfer_one_message
  BY <1>3 DEF our_transfer_one_message, driver
<1>4. CASE PumpCompletes
  BY <1>4 DEF PumpCompletes, driver
<1>5. CASE PumpReturns
  BY <1>5 DEF PumpReturns, driver, Idle
<1>6. CASE GapBinds
  <2>1. requested' \in {Unbound} \cup 0 .. NumPins
    BY <1>6 DEF GapBinds, gapspi_spi_probe, gpio_request_one, gapspi_spi_probe_fails,
                gapspi_spi_probe_splices, gapspi_spi_probe_binds
  <2>2. demux' \in [Pins -> BOOLEAN]
    BY <1>6 DEF GapBinds, gapspi_spi_probe, gpio_request_one, gapspi_spi_probe_fails,
                gapspi_spi_probe_splices, gapspi_spi_probe_binds
  <2>3. /\ UNCHANGED <<state, queue, pump>> /\ accepted' \in {accepted, {}}
        /\ transfer_one_message' \in {"real", "ours"} /\ gapspi_spi_device' \in BOOLEAN
    BY <1>6 DEF GapBinds, gapspi_spi_probe, gpio_request_one, gapspi_spi_probe_fails,
                gapspi_spi_probe_splices, gapspi_spi_probe_binds
  <2> QED
    BY <2>1, <2>2, <2>3
<1>7. CASE gapspi_spi_remove
  BY <1>7 DEF gapspi_spi_remove, gapspi_spi_remove_restores,
                gapspi_spi_remove_clears
<1>8. ASSUME NEW r \in Radios, NEW dev_id \in DevIds, gap_spi_async(r, dev_id)
      PROVE  BusTypeOK'
  BY <1>8 DEF gap_spi_async, driver
<1>9. CASE UNCHANGED busvars
  BY <1>9 DEF busvars, driver
<1> QED
  BY <1>1, <1>2, <1>3, <1>4, <1>5, <1>6, <1>7, <1>8, <1>9 DEF BusNext, Pump

LEMMA BoundStep == ASSUME IInv, [BusNext]_busvars PROVE BoundInv'
<1> USE GapSpiAssumption DEF IInv, BusTypeOK, BoundInv
<1> pump \in PumpStates
  BY DEF PumpStates
<1>1. CASE Pump \/ PumpCompletes \/ PumpReturns
  <2>1. UNCHANGED driver
    BY <1>1 DEF Pump, PumpTakes, gapspi_cs_mux, our_transfer_one_message, PumpCompletes,
                PumpReturns
  <2>2. CASE PumpTakes \/ PumpReturns
    BY <2>1, <2>2 DEF PumpTakes, PumpReturns, Taken, driver
  <2>3. CASE gapspi_cs_mux \/ our_transfer_one_message
    <3>1. /\ pump.at = "mux" /\ pump'.at \in {"mux", "xfer"} /\ pump'.msg = pump.msg
          /\ accepted' = accepted
      BY <2>3 DEF gapspi_cs_mux, our_transfer_one_message, PumpStates
    <3>2. QED
      BY <2>1, <3>1 DEF Taken, driver
  <2>4. CASE PumpCompletes
    BY <2>1, <2>4 DEF PumpCompletes, Taken, driver
  <2>5. QED
    BY <1>1, <2>2, <2>3, <2>4 DEF Pump
<1>2. CASE GapBinds
  <2>1. CASE gapspi_spi_probe
    BY <2>1 DEF gapspi_spi_probe
  <2>2. CASE ~gapspi_spi_probe
    <3>1. /\ requested /= Unbound /\ accepted' = accepted
          /\ gapspi_spi_device' = gapspi_spi_device \/ requested' = Unbound
      BY <1>2, <2>2 DEF GapBinds, gpio_request_one, gapspi_spi_probe_fails,
                        gapspi_spi_probe_splices, gapspi_spi_probe_binds
    <3>2. QED
      BY <3>1
  <2>3. QED
    BY <2>1, <2>2
<1>3. CASE gapspi_spi_remove
  <2>1. /\ gapspi_spi_device /\ requested' = requested /\ UNCHANGED pump
        /\ \/ accepted' = accepted \cap Taken
           \/ accepted' = accepted /\ transfer_one_message = "real"
    BY <1>3 DEF gapspi_spi_remove, gapspi_spi_remove_restores, gapspi_spi_remove_clears
  <2>2. Taken' = Taken
    BY <2>1 DEF Taken
  <2>3. QED
    BY <2>1, <2>2
<1>4. ASSUME NEW r \in Radios, NEW dev_id \in DevIds, gap_spi_async(r, dev_id)
      PROVE  BoundInv'
  <2>1. /\ gapspi_spi_device /\ UNCHANGED <<driver, pump>>
        /\ transfer_one_message = "real" => accepted' = accepted
    BY <1>4 DEF gap_spi_async
  <2>2. Taken' = Taken
    BY <2>1 DEF Taken
  <2>3. QED
    BY <2>1, <2>2 DEF driver
<1>5. CASE UNCHANGED busvars
  BY <1>5 DEF busvars, driver, Taken
<1> QED
  BY <1>1, <1>2, <1>3, <1>4, <1>5 DEF BusNext

LEMMA MuxStep == ASSUME IInv, [BusNext]_busvars PROVE MuxInv'
<1> USE GapSpiAssumption
<1> BusTypeOK /\ BoundInv /\ MuxInv
  BY DEF IInv
<1>1. CASE PumpTakes
  <2> SUFFICES ASSUME pump'.msg \in accepted' PROVE MuxInv'
    BY DEF MuxInv
  <2>1. transfer_one_message = "ours"
    BY <1>1 DEF PumpTakes, BoundInv, BusTypeOK, Taken
  <2>2. pump' = [at |-> "mux", msg |-> Head(queue), id |-> state[Head(queue)], i |-> 0]
    BY <1>1, <2>1 DEF PumpTakes
  <2> QED
    BY <1>1, <2>2 DEF PumpTakes, MuxInv
<1>2. CASE gapspi_cs_mux
  <2> SUFFICES ASSUME pump'.msg \in accepted' PROVE MuxInv'
    BY DEF MuxInv
  <2>1. /\ pump.msg \in accepted /\ pump.at = "mux"
        /\ pump'.msg = pump.msg /\ pump'.at = "mux" /\ pump'.id = pump.id
        /\ pump'.i = pump.i + 1 /\ pump.i \in Pins
        /\ state' = state
        /\ demux' = [demux EXCEPT ![pump.i] = Bit(pump.id, pump.i)]
    BY <1>2 DEF gapspi_cs_mux, BusTypeOK
  <2>2. \A i \in Pins : i < pump'.i => demux'[i] = Bit(pump'.id, i)
    <3> TAKE i \in Pins
    <3> HAVE i < pump'.i
    <3>1. CASE i = pump.i
      BY <2>1, <3>1 DEF BusTypeOK
    <3>2. CASE i /= pump.i
      <4>1. i < pump.i
        BY <2>1, <3>2
      <4> QED
        BY <2>1, <3>2, <4>1 DEF BusTypeOK, MuxInv
    <3> QED
      BY <3>1, <3>2
  <2> QED
    BY <2>1, <2>2 DEF MuxInv
<1>3. CASE our_transfer_one_message
  <2> SUFFICES ASSUME pump'.msg \in accepted' PROVE MuxInv'
    BY DEF MuxInv
  <2>1. /\ pump.msg \in accepted /\ pump.at = "mux" /\ pump.i = NumPins
        /\ pump'.msg = pump.msg /\ pump'.at = "xfer"
        /\ UNCHANGED <<state, demux>>
    BY <1>3 DEF our_transfer_one_message, BusTypeOK
  <2>2. \A i \in Pins : demux[i] = Bit(state[pump.msg], i)
    BY <2>1 DEF MuxInv
  <2> QED
    BY <2>1, <2>2 DEF MuxInv, Selected
<1>4. CASE PumpCompletes
  BY <1>4 DEF PumpCompletes, MuxInv, BusTypeOK
<1>5. CASE PumpReturns
  BY <1>5 DEF PumpReturns, MuxInv, Idle
<1>6. CASE GapBinds
  <2>1. accepted' = {}
    BY <1>6 DEF GapBinds, gapspi_spi_probe, gpio_request_one, gapspi_spi_probe_fails,
                gapspi_spi_probe_splices, gapspi_spi_probe_binds, BoundInv
  <2> QED
    BY <2>1 DEF MuxInv
<1>7. CASE gapspi_spi_remove
  <2>1. accepted' \subseteq accepted /\ UNCHANGED <<pump, state, demux>>
    BY <1>7 DEF gapspi_spi_remove, gapspi_spi_remove_restores, gapspi_spi_remove_clears
  <2>2. QED
    BY <2>1 DEF MuxInv, Selected
<1>8. ASSUME NEW r \in Radios, NEW dev_id \in DevIds, gap_spi_async(r, dev_id)
      PROVE  MuxInv'
  <2> SUFFICES ASSUME pump'.msg \in accepted', pump'.at \in {"mux", "xfer"} PROVE MuxInv'
    BY DEF MuxInv
  <2>1. r /= pump.msg /\ UNCHANGED <<pump, demux>>
    BY <1>8 DEF gap_spi_async, Pending, Taken
  <2>2. pump.msg \in accepted /\ state'[pump.msg] = state[pump.msg]
    BY <1>8, <2>1 DEF gap_spi_async, BusTypeOK
  <2> QED
    BY <2>1, <2>2 DEF MuxInv, Selected
<1>9. CASE UNCHANGED busvars
  BY <1>9 DEF busvars, MuxInv, Selected
<1> QED
  BY <1>1, <1>2, <1>3, <1>4, <1>5, <1>6, <1>7, <1>8, <1>9 DEF BusNext, Pump

\* The pump, the drivers that submit messages and gapspi's own probe and remove
\* preserve the inductive invariant, however they interleave.
THEOREM Inductive == BusSpec => []IInv
<1>1. IInv /\ [BusNext]_busvars => IInv'
  BY TypeStep, BoundStep, MuxStep DEF IInv
<1> QED
  BY InitIInv, <1>1, PTL DEF BusSpec

\* Type correctness of the bus.
THEOREM TypeCorrect == BusSpec => []BusTypeOK
BY Inductive, PTL DEF IInv

\* A message on the bus selects its own device, for any number of radios and pins,
\* if it was queued while our_transfer_one_message is in place and taken by the pump
\* before gapspi_spi_remove restores the master's function.
THEOREM SelectsOwnDevice == BusSpec => []SelectedWhileOnBus
<1>1. IInv => SelectedWhileOnBus
  BY DEF IInv, MuxInv, SelectedWhileOnBus
<1> QED
  BY Inductive, <1>1, PTL
-----------------------------------------------------------------------------
\* Radio r's message is with the SPI core, or its callback runs.
Uses(r) == r \in Pending \/ (pump.at = "callback" /\ pump.msg = r)

\* A message is with the SPI core once: gap_spi_async takes none that is queued.
OnceInv ==
  /\ \A a, b \in 1 .. Len(queue) : queue[a] = queue[b] => a = b
  /\ pump.at \in {"mux", "xfer"} => \A a \in 1 .. Len(queue) : queue[a] /= pump.msg
  /\ pump.at /= "idle" => pump.msg \in Radios

\* A message is queued.
LEMMA AsyncEffect ==
  ASSUME BusTypeOK, NEW r \in Radios, NEW dev_id \in DevIds, gap_spi_async(r, dev_id)
  PROVE  /\ \A m : m \in Pending' <=> m \in Pending \/ m = r
         /\ UNCHANGED pump /\ r \notin Pending
         /\ Len(queue') = Len(queue) + 1 /\ queue'[Len(queue) + 1] = r
         /\ \A k \in 1 .. Len(queue) : queue'[k] = queue[k]
         /\ state' = [state EXCEPT ![r] = dev_id]
<1>1. /\ queue \in Seq(Radios) /\ queue' = Append(queue, r) /\ UNCHANGED pump
      /\ r \notin Pending /\ state' = [state EXCEPT ![r] = dev_id]
  BY DEF gap_spi_async, BusTypeOK
<1>2. /\ Len(queue') = Len(queue) + 1 /\ queue'[Len(queue) + 1] = r
      /\ \A k \in 1 .. Len(queue) : queue'[k] = queue[k]
  BY <1>1
<1>3. ASSUME NEW m
      PROVE  (\E k \in 1 .. Len(queue') : queue'[k] = m)
               <=> (\E k \in 1 .. Len(queue) : queue[k] = m) \/ m = r
  <2>1. Len(queue) \in Nat
    BY <1>1
  <2>2. \A k \in 1 .. Len(queue') : k \in 1 .. Len(queue) \/ k = Len(queue) + 1
    BY <1>2, <2>1
  <2>3. 1 .. Len(queue) \subseteq 1 .. Len(queue') /\ Len(queue) + 1 \in 1 .. Len(queue')
    BY <1>2, <2>1
  <2>4. QED
    BY <1>2, <2>2, <2>3
<1>4. \A m : m \in Pending' <=> m \in Pending \/ m = r
  BY <1>1, <1>3 DEF Pending, Taken
<1>5. QED
  BY <1>1, <1>2, <1>4

\* Every other step of the bus adds no message.
LEMMA BusEffect ==
  ASSUME BusTypeOK, OnceInv,
         Pump \/ PumpCompletes \/ PumpReturns \/ GapBinds \/ gapspi_spi_remove
  PROVE  /\ UNCHANGED state
         /\ \A r : /\ r \in Pending' => r \in Pending
                   /\ Uses(r)' => Uses(r)
         /\ PumpCompletes => pump.msg \notin Pending' /\ pump'.msg = pump.msg
<1> USE DEF driver
<1>0. pump \in PumpStates /\ queue \in Seq(Radios)
  BY DEF BusTypeOK, PumpStates
<1>1. CASE PumpTakes
  <2>1. /\ pump.at = "idle" /\ queue /= << >> /\ queue' = Tail(queue) /\ UNCHANGED state
        /\ pump'.at \in {"mux", "xfer"} /\ pump'.msg = Head(queue)
    BY <1>1 DEF PumpTakes
  <2>2. /\ Len(queue) \in Nat /\ Len(queue) >= 1 /\ Head(queue) = queue[1]
        /\ Len(queue') = Len(queue) - 1
        /\ \A k \in 1 .. Len(queue') : queue'[k] = queue[k + 1]
    BY <1>0, <2>1
  <2>3. 1 \in 1 .. Len(queue) /\ \A k \in 1 .. Len(queue') : k + 1 \in 1 .. Len(queue)
    BY <2>2
  <2>4. \A r : r \in Pending' => r \in Pending
    BY <2>1, <2>2, <2>3 DEF Pending, Taken
  <2>5. QED
    BY <1>1, <2>1, <2>4 DEF Uses, PumpTakes, PumpCompletes
<1>2. CASE gapspi_cs_mux
  <2>1. /\ pump.at = "mux" /\ pump'.at = "mux" /\ pump'.msg = pump.msg
        /\ UNCHANGED <<state, queue>>
    BY <1>0, <1>2 DEF gapspi_cs_mux, PumpStates
  <2>2. QED
    BY <2>1 DEF Uses, Pending, Taken, PumpCompletes
<1>3. CASE our_transfer_one_message
  <2>1. /\ pump.at = "mux" /\ pump'.at = "xfer" /\ pump'.msg = pump.msg
        /\ UNCHANGED <<state, queue>>
    BY <1>0, <1>3 DEF our_transfer_one_message, PumpStates
  <2>2. QED
    BY <2>1 DEF Uses, Pending, Taken, PumpCompletes
<1>4. CASE PumpCompletes
  <2>1. /\ pump.at = "xfer" /\ pump'.at = "callback" /\ pump'.msg = pump.msg
        /\ UNCHANGED <<state, queue>>
    BY <1>0, <1>4 DEF PumpCompletes, PumpStates
  <2>2. pump.msg \notin Pending'
    BY <2>1 DEF Pending, Taken, OnceInv
  <2>3. QED
    BY <2>1, <2>2 DEF Uses, Pending, Taken
<1>5. CASE PumpReturns
  BY <1>5 DEF PumpReturns, PumpCompletes, Idle, Uses, Pending, Taken
<1>6. CASE GapBinds \/ gapspi_spi_remove
  <2>1. UNCHANGED <<state, queue, pump>>
    BY <1>6 DEF GapBinds, gapspi_spi_probe, gpio_request_one, gapspi_spi_probe_fails,
                gapspi_spi_probe_splices, gapspi_spi_probe_binds, gapspi_spi_remove, gapspi_spi_remove_restores,
                gapspi_spi_remove_clears
  <2>2. ~PumpCompletes
    BY <1>0, <2>1 DEF PumpCompletes, PumpStates
  <2>3. QED
    BY <2>1, <2>2 DEF Uses, Pending, Taken
<1>7. QED
  BY <1>1, <1>2, <1>3, <1>4, <1>5, <1>6 DEF Pump

LEMMA OnceStep == BusTypeOK /\ OnceInv /\ [BusNext]_busvars => OnceInv'
<1> SUFFICES ASSUME BusTypeOK, OnceInv, [BusNext]_busvars PROVE OnceInv'
  OBVIOUS
<1> USE DEF driver
<1>0. pump \in PumpStates /\ queue \in Seq(Radios) /\ Len(queue) \in Nat
  BY DEF BusTypeOK, PumpStates
<1>1. CASE PumpTakes
  <2>1. /\ pump.at = "idle" /\ queue /= << >> /\ queue' = Tail(queue)
        /\ pump'.msg = Head(queue)
    BY <1>1 DEF PumpTakes
  <2>2. /\ Head(queue) = queue[1] /\ Head(queue) \in Radios
        /\ Len(queue') = Len(queue) - 1
        /\ \A k \in 1 .. Len(queue') : queue'[k] = queue[k + 1]
    BY <1>0, <2>1
  <2>3. 1 \in 1 .. Len(queue) /\ \A k \in 1 .. Len(queue') :
                                   k + 1 \in 1 .. Len(queue) /\ k + 1 /= 1
    BY <1>0, <2>1, <2>2
  <2>4. \A a, b \in 1 .. Len(queue') : queue'[a] = queue'[b] => a = b
    <3>1. TAKE a, b \in 1 .. Len(queue')
    <3>2. HAVE queue'[a] = queue'[b]
    <3>3. a + 1 = b + 1
      BY <2>2, <2>3, <3>2 DEF OnceInv
    <3>4. QED
      BY <1>0, <2>2, <3>3
  <2>5. \A a \in 1 .. Len(queue') : queue'[a] /= pump'.msg
    BY <2>1, <2>2, <2>3 DEF OnceInv
  <2>6. QED
    BY <2>1, <2>2, <2>4, <2>5 DEF OnceInv
<1>2. CASE gapspi_cs_mux \/ our_transfer_one_message \/ PumpCompletes
  <2>1. /\ pump.at \in {"mux", "xfer"} /\ pump'.msg = pump.msg /\ UNCHANGED queue
    BY <1>0, <1>2 DEF gapspi_cs_mux, our_transfer_one_message, PumpCompletes, PumpStates
  <2>2. QED
    BY <2>1 DEF OnceInv
<1>3. CASE PumpReturns
  BY <1>3 DEF PumpReturns, Idle, OnceInv
<1>4. CASE GapBinds \/ gapspi_spi_remove
  <2>1. UNCHANGED <<queue, pump>>
    BY <1>4 DEF GapBinds, gapspi_spi_probe, gpio_request_one, gapspi_spi_probe_fails,
                gapspi_spi_probe_splices, gapspi_spi_probe_binds, gapspi_spi_remove, gapspi_spi_remove_restores,
                gapspi_spi_remove_clears
  <2>2. QED
    BY <2>1 DEF OnceInv
<1>5. ASSUME NEW r \in Radios, NEW dev_id \in DevIds, gap_spi_async(r, dev_id)
      PROVE  OnceInv'
  <2>1. /\ UNCHANGED pump /\ r \notin Pending
        /\ Len(queue') = Len(queue) + 1 /\ queue'[Len(queue) + 1] = r
        /\ \A k \in 1 .. Len(queue) : queue'[k] = queue[k]
    BY <1>5, AsyncEffect
  <2>2. \A k \in 1 .. Len(queue) : queue[k] /= r
    BY <2>1 DEF Pending, Taken
  <2>3. pump.at \in {"mux", "xfer"} => r /= pump.msg
    BY <2>1 DEF Pending, Taken
  <2>4. \A k \in 1 .. Len(queue') : k \in 1 .. Len(queue) \/ k = Len(queue) + 1
    BY <1>0, <2>1
  <2>5. QED
    BY <2>1, <2>2, <2>3, <2>4 DEF OnceInv
<1>6. CASE UNCHANGED busvars
  BY <1>6 DEF busvars, OnceInv
<1>7. QED
  BY <1>1, <1>2, <1>3, <1>4, <1>5, <1>6 DEF BusNext, Pump
-----------------------------------------------------------------------------
\* The steps of probe, remove, open and close, which leave the bus alone.
LifeStep ==
  \/ \E r \in Radios : nrf51822_open(r) \/ Close(r) \/ RequestIrq(r) \/ GetCsmux(r)
                       \/ InitRadio(r) \/ AddCdev(r)
  \/ nrf51822_probe \/ CreateClass \/ Probed \/ ProbeFails
  \/ nrf51822_remove \/ DevresRelease \/ Unload

LEMMA LifeStepBus == ASSUME LifeStep PROVE UNCHANGED busvars /\ ~oops /\ faults \subseteq faults'
<1>1. ASSUME NEW r \in Radios,
             nrf51822_open(r) \/ Close(r) \/ RequestIrq(r) \/ GetCsmux(r) \/ InitRadio(r)
             \/ AddCdev(r)
      PROVE  UNCHANGED busvars /\ ~oops /\ faults' = faults
  BY <1>1 DEF nrf51822_open, Oops, Close, RequestIrq, GetCsmux, InitRadio, AddCdev, ProbeStep
<1>2. CASE nrf51822_probe \/ CreateClass \/ Probed \/ ProbeFails \/ nrf51822_remove
           \/ DevresRelease \/ Unload
  BY <1>2 DEF nrf51822_probe, CreateClass, Probed, ProbeFails, nrf51822_remove,
              DevresRelease, Unload, Fault
<1>3. QED
  BY <1>1, <1>2 DEF LifeStep

\* A radio's handler, ioctl or callback claims the SPI.
Claims(r) ==
  /\ ~freed /\ ~spi_pending[r]
  /\ gap_spi_async(r, chipselect_demux_index(r))
  /\ spi_pending' = [spi_pending EXCEPT ![r] = TRUE]
  /\ UNCHANGED <<probe, radio, freed, irqs, cdevs, files, loaded, oops>>

\* What may follow from a handler, ioctl or callback of radio r that is entered.
LEMMA ReadIrqCases ==
  ASSUME NEW r \in Radios, ReadIrq(r)
  PROVE  \/ /\ Oops
            /\ \/ freed
               \/ ~spi_pending[r] /\ (~gapspi_spi_device \/ r \in Pending)
         \/ UNCHANGED <<busvars, nrf, oops>>
         \/ Claims(r)
  BY Zenon DEF ReadIrq, Claims

LEMMA IndexIsDevice == ASSUME NEW r \in Radios PROVE chipselect_demux_index(r) \in DevIds
  BY DEF chipselect_demux_index

\* Each step of the driver is a step of the bus, or none of it.
LEMMA DriverStepIsBusStep == OnceInv /\ [Next]_vars => [BusNext]_busvars
<1> SUFFICES ASSUME OnceInv, [Next]_vars PROVE [BusNext]_busvars
  OBVIOUS
<1>1. ASSUME NEW r \in Radios, ReadIrq(r) PROVE [BusNext]_busvars
  <2>1. CASE UNCHANGED busvars
    BY <2>1
  <2>2. CASE Claims(r)
    BY <2>2, IndexIsDevice DEF Claims, BusNext
  <2>3. QED
    BY <1>1, <2>1, <2>2, ReadIrqCases DEF Oops
<1>2. CASE PumpStep
  <2>1. ASSUME NEW packet \in BOOLEAN, Done(packet) PROVE [BusNext]_busvars
    BY <2>1 DEF Done, Oops, BusNext
  <2>2. CASE DoneReturns
    BY <2>2 DEF DoneReturns, Oops, BusNext
  <2>3. CASE Pump
    BY <2>3 DEF BusNext
  <2>4. QED
    BY <1>2, <2>1, <2>2, <2>3 DEF PumpStep
<1>3. CASE (~oops /\ GapBinds /\ UNCHANGED <<nrf, oops, faults>>) \/ GapRemove
  BY <1>3 DEF GapRemove, BusNext
<1>4. CASE CheckIrq
  BY <1>1, <1>4 DEF CheckIrq, Oops, OnceInv
<1>5. ASSUME NEW r \in Radios, Interrupt(r) \/ Ioctl(r) PROVE [BusNext]_busvars
  BY <1>1, <1>5 DEF Interrupt, Ioctl
<1>6. CASE LifeStep
  BY <1>6, LifeStepBus
<1>7. CASE UNCHANGED vars
  BY <1>7 DEF vars
<1>8. QED
  BY <1>2, <1>3, <1>4, <1>5, <1>6, <1>7 DEF Next, LifeStep
-----------------------------------------------------------------------------
\* The order of the driver's life: interrupts, character devices and files belong to
\* radios that have come so far, and nothing of it survives unloading.
LifeInv ==
  /\ \A r \in irqs : radio[r] /= "zero"
  /\ irqs /= {} => probe \notin {"none", "gone"}
  /\ \A r \in cdevs \cup files : radio[r] = "ready"
  /\ probe = "cdevs" => \A r \in Radios : radio[r] = "ready"
  /\ cdevs \cup files /= {} => probe \notin {"none", "radios"}
  /\ ~loaded => probe = "gone" /\ files = {}

\* Without an early interrupt, only radios that are ready use the bus, and their
\* messages carry their own index.
EarlyInv ==
  "early_irq" \notin faults =>
    \A r \in Radios : Uses(r) => radio[r] = "ready" /\ (r \in Pending => state[r] = r)

\* Memory and code are there, spi_pending is set for every message the SPI core has,
\* and gapspi is bound as long as the driver may use it: so it is without any fault.
Quiet ==
  /\ ~oops /\ ~freed
  /\ \A r \in Radios : r \in Pending => spi_pending[r]
  /\ loaded /\ probe /= "none" => gapspi_spi_device
  /\ \A r \in Radios : Uses(r) => loaded /\ probe /= "none"

QuietInv == faults = {} => Quiet

RadioStates == {"zero", "irq", "index", "ready"}
FaultKinds  == {"early_irq", "probe_failed", "gapspi_unbound", "unloaded_busy"}

\* The types of the driver's own variables.
NrfTypeOK ==
  /\ probe \in {"none", "radios", "cdevs", "bound", "unwinding", "gone"}
  /\ radio \in [Radios -> RadioStates]
  /\ freed \in BOOLEAN /\ loaded \in BOOLEAN /\ oops \in BOOLEAN
  /\ irqs \subseteq Radios /\ cdevs \subseteq Radios /\ files \subseteq Radios
  /\ spi_pending \in [Radios -> BOOLEAN]
  /\ faults \subseteq FaultKinds

\* The inductive invariant of the driver.
ProbeInv == IInv /\ OnceInv /\ NrfTypeOK /\ LifeInv /\ EarlyInv /\ QuietInv

LEMMA NrfTypeStep == OnceInv /\ NrfTypeOK /\ [Next]_vars => NrfTypeOK'
<1> SUFFICES ASSUME OnceInv, NrfTypeOK, [Next]_vars PROVE NrfTypeOK'
  OBVIOUS
<1> USE DEF NrfTypeOK, nrf, FaultKinds
<1>1. ASSUME Oops, faults' \subseteq FaultKinds PROVE NrfTypeOK'
  BY <1>1 DEF Oops
<1>2. ASSUME NEW r \in Radios, ReadIrq(r), faults' \subseteq FaultKinds PROVE NrfTypeOK'
  <2>1. CASE UNCHANGED <<busvars, nrf, oops>>
    BY <1>2, <2>1
  <2>2. CASE Claims(r)
    BY <1>2, <2>2 DEF Claims
  <2>3. QED
    BY <1>1, <1>2, <2>1, <2>2, ReadIrqCases
<1>3. CASE PumpStep
  <2>1. ASSUME NEW packet \in BOOLEAN, Done(packet) PROVE NrfTypeOK'
    BY <1>1, <2>1 DEF Done
  <2>2. CASE DoneReturns
    BY <1>1, <2>2 DEF DoneReturns
  <2>3. CASE ~oops /\ Pump /\ UNCHANGED <<nrf, oops, faults>>
    BY <2>3
  <2>4. QED
    BY <1>3, <2>1, <2>2, <2>3 DEF PumpStep
<1>4. CASE (~oops /\ GapBinds /\ UNCHANGED <<nrf, oops, faults>>) \/ GapRemove
  BY <1>4 DEF GapRemove, Fault
<1>5. CASE CheckIrq
  BY <1>1, <1>2, <1>5 DEF CheckIrq, OnceInv
<1>6. ASSUME NEW r \in Radios, Interrupt(r) \/ Ioctl(r) PROVE NrfTypeOK'
  BY <1>2, <1>6 DEF Interrupt, Ioctl
<1>7. ASSUME NEW r \in Radios,
             nrf51822_open(r) \/ Close(r) \/ AddCdev(r)
      PROVE  NrfTypeOK'
  BY <1>1, <1>7 DEF nrf51822_open, Close, AddCdev
<1>8. ASSUME NEW r \in Radios, RequestIrq(r) \/ GetCsmux(r) \/ InitRadio(r)
      PROVE  NrfTypeOK'
  BY <1>8 DEF RequestIrq, GetCsmux, InitRadio, ProbeStep, RadioStates
<1>9. CASE nrf51822_probe \/ CreateClass \/ Probed \/ ProbeFails \/ nrf51822_remove
           \/ DevresRelease \/ Unload
  BY <1>9 DEF nrf51822_probe, CreateClass, Probed, ProbeFails, nrf51822_remove,
              DevresRelease, Unload, Fault
<1>10. CASE UNCHANGED vars
  BY <1>10 DEF vars
<1>11. QED
  BY <1>3, <1>4, <1>5, <1>6, <1>7, <1>8, <1>9, <1>10 DEF Next

\* The steps outside LifeStep change nothing of the driver's life, and an oops stops
\* everything.
LEMMA OtherSteps ==
  ASSUME OnceInv, [Next]_vars, ~LifeStep
  PROVE  /\ UNCHANGED <<probe, radio, freed, irqs, cdevs, files, loaded>>
         /\ faults \subseteq faults'
<1> USE DEF nrf
<1>1. ASSUME NEW r \in Radios, ReadIrq(r)
      PROVE  UNCHANGED <<probe, radio, freed, irqs, cdevs, files, loaded>>
  BY <1>1, ReadIrqCases DEF Oops, Claims
<1>2. CASE PumpStep
  <2>1. ASSUME NEW packet \in BOOLEAN, Done(packet)
        PROVE  UNCHANGED <<probe, radio, freed, irqs, cdevs, files, loaded, faults>>
    BY <2>1 DEF Done, Oops
  <2>2. CASE DoneReturns
    BY <2>2 DEF DoneReturns, Oops
  <2>3. CASE ~oops /\ Pump /\ UNCHANGED <<nrf, oops, faults>>
    BY <2>3
  <2>4. QED
    BY <1>2, <2>1, <2>2, <2>3 DEF PumpStep
<1>3. CASE (~oops /\ GapBinds /\ UNCHANGED <<nrf, oops, faults>>) \/ GapRemove
  BY <1>3 DEF GapRemove, Fault
<1>4. CASE CheckIrq
  BY <1>1, <1>4 DEF CheckIrq, Oops, OnceInv
<1>5. ASSUME NEW r \in Radios, Interrupt(r) \/ Ioctl(r)
      PROVE  /\ UNCHANGED <<probe, radio, freed, irqs, cdevs, files, loaded>>
             /\ faults \subseteq faults'
  BY <1>1, <1>5 DEF Interrupt, Ioctl
<1>6. CASE UNCHANGED vars
  BY <1>6 DEF vars
<1>7. QED
  BY <1>2, <1>3, <1>4, <1>5, <1>6 DEF Next, LifeStep

LEMMA LifeInvStep == OnceInv /\ NrfTypeOK /\ LifeInv /\ [Next]_vars => LifeInv'
<1> SUFFICES ASSUME OnceInv, NrfTypeOK, LifeInv, [Next]_vars PROVE LifeInv'
  OBVIOUS
<1> USE DEF LifeInv
<1>1. CASE ~LifeStep
  BY <1>1, OtherSteps
<1>2. ASSUME NEW r \in Radios, nrf51822_open(r) PROVE LifeInv'
  BY <1>2 DEF nrf51822_open, Oops, nrf
<1>3. ASSUME NEW r \in Radios, Close(r) PROVE LifeInv'
  BY <1>3 DEF Close
<1>4. ASSUME NEW r \in Radios, RequestIrq(r) \/ GetCsmux(r) \/ InitRadio(r) PROVE LifeInv'
  <2>1. /\ probe = "radios" /\ radio[r] /= "ready"
        /\ irqs' \subseteq irqs \cup {r}
        /\ UNCHANGED <<probe, cdevs, files, loaded>>
    BY <1>4 DEF RequestIrq, GetCsmux, InitRadio, ProbeStep
  <2>2. radio'[r] /= "zero" /\ \A s \in Radios : s /= r => radio'[s] = radio[s]
    BY <1>4 DEF RequestIrq, GetCsmux, InitRadio, ProbeStep, NrfTypeOK
  <2>3. QED
    BY <2>1, <2>2 DEF NrfTypeOK
<1>5. ASSUME NEW r \in Radios, AddCdev(r) PROVE LifeInv'
  BY <1>5 DEF AddCdev, NrfTypeOK
<1>6. CASE nrf51822_probe \/ CreateClass \/ Probed
  BY <1>6 DEF nrf51822_probe, CreateClass, Probed, NrfTypeOK
<1>7. CASE ProbeFails \/ nrf51822_remove \/ DevresRelease \/ Unload
  BY <1>7 DEF ProbeFails, nrf51822_remove, DevresRelease, Unload, NrfTypeOK
<1>8. QED
  BY <1>1, <1>2, <1>3, <1>4, <1>5, <1>6, <1>7 DEF LifeStep

\* A radio that is entered by its interrupt, an ioctl or the end of its callback is
\* ready, unless an interrupt was early.
LEMMA EarlyClaim ==
  ASSUME BusTypeOK, NrfTypeOK, EarlyInv, NEW r \in Radios, Claims(r),
         "early_irq" \notin faults' => radio[r] = "ready",
         faults \subseteq faults'
  PROVE  EarlyInv'
<1> SUFFICES ASSUME "early_irq" \notin faults', NEW m \in Radios, Uses(m)'
             PROVE  radio'[m] = "ready" /\ (m \in Pending' => state'[m] = m)
  BY DEF EarlyInv
<1>1. /\ radio' = radio /\ UNCHANGED pump /\ r \notin Pending
      /\ \A s : s \in Pending' <=> s \in Pending \/ s = r
      /\ state' = [state EXCEPT ![r] = chipselect_demux_index(r)]
  BY AsyncEffect, IndexIsDevice DEF Claims
<1>2. radio[r] = "ready" /\ chipselect_demux_index(r) = r
  BY DEF chipselect_demux_index
<1>3. m = r \/ Uses(m)
  BY <1>1 DEF Uses
<1>4. CASE m = r
  BY <1>1, <1>2, <1>4 DEF BusTypeOK
<1>5. CASE m /= r
  BY <1>1, <1>3, <1>5 DEF EarlyInv, BusTypeOK
<1>6. QED
  BY <1>4, <1>5

LEMMA EarlyKept ==
  ASSUME EarlyInv, faults \subseteq faults', UNCHANGED state,
         \A r \in Radios : /\ radio[r] = "ready" => radio'[r] = "ready"
                           /\ r \in Pending' => r \in Pending
                           /\ Uses(r)' => Uses(r)
  PROVE  EarlyInv'
  BY DEF EarlyInv

LEMMA SameUses ==
  ASSUME UNCHANGED busvars
  PROVE  UNCHANGED <<state, pump, queue, gapspi_spi_device>>
         /\ \A r : (r \in Pending' <=> r \in Pending) /\ (Uses(r)' <=> Uses(r))
  BY DEF busvars, driver, Uses, Pending, Taken

LEMMA EarlyStep ==
  IInv /\ OnceInv /\ NrfTypeOK /\ LifeInv /\ EarlyInv /\ [Next]_vars => EarlyInv'
<1> SUFFICES ASSUME IInv, OnceInv, NrfTypeOK, LifeInv, EarlyInv, [Next]_vars PROVE EarlyInv'
  OBVIOUS
<1>0. BusTypeOK
  BY DEF IInv
<1>1. ASSUME UNCHANGED busvars PROVE EarlyInv'
  <2>1. faults \subseteq faults' /\ \A r \in Radios : radio[r] = "ready" => radio'[r] = "ready"
    <3>1. CASE ~LifeStep
      BY <3>1, OtherSteps
    <3>2. CASE LifeStep
      <4>1. ASSUME NEW r \in Radios, RequestIrq(r) \/ GetCsmux(r) \/ InitRadio(r)
            PROVE  \A s \in Radios : radio[s] = "ready" => radio'[s] = "ready"
        BY <4>1 DEF RequestIrq, GetCsmux, InitRadio, ProbeStep, NrfTypeOK
      <4>2. ASSUME NEW r \in Radios, nrf51822_open(r) \/ Close(r) \/ AddCdev(r)
            PROVE  radio' = radio
        BY <4>2 DEF nrf51822_open, Oops, nrf, Close, AddCdev
      <4>3. CASE nrf51822_probe \/ CreateClass \/ Probed \/ ProbeFails \/ nrf51822_remove
                 \/ DevresRelease \/ Unload
        BY <3>2, <4>3, LifeStepBus DEF nrf51822_probe, CreateClass, Probed, ProbeFails,
              nrf51822_remove, DevresRelease, Unload
      <4>4. QED
        BY <3>2, <4>1, <4>2, <4>3, LifeStepBus DEF LifeStep
    <3>3. QED
      BY <3>1, <3>2
  <2>2. QED
    BY <1>1, <2>1, SameUses, EarlyKept
<1>2. ASSUME NEW r \in Radios, ReadIrq(r),
             "early_irq" \notin faults' => radio[r] = "ready", faults \subseteq faults'
      PROVE  EarlyInv'
  BY <1>0, <1>1, <1>2, ReadIrqCases, EarlyClaim DEF Oops
<1>3. ASSUME Pump \/ PumpCompletes \/ PumpReturns \/ GapBinds \/ gapspi_spi_remove,
             radio' = radio, faults \subseteq faults'
      PROVE  EarlyInv'
  BY <1>0, <1>3, BusEffect, EarlyKept
<1>4. CASE PumpStep
  <2>1. ASSUME NEW packet \in BOOLEAN, Done(packet) PROVE EarlyInv'
    BY <1>1, <1>3, <2>1 DEF Done, Oops
  <2>2. CASE DoneReturns
    BY <1>1, <1>3, <2>2 DEF DoneReturns, Oops, nrf
  <2>3. CASE ~oops /\ Pump /\ UNCHANGED <<nrf, oops, faults>>
    BY <1>3, <2>3 DEF nrf
  <2>4. QED
    BY <1>4, <2>1, <2>2, <2>3 DEF PumpStep
<1>5. CASE (~oops /\ GapBinds /\ UNCHANGED <<nrf, oops, faults>>) \/ GapRemove
  BY <1>3, <1>5 DEF GapRemove, Fault, nrf
<1>6. CASE CheckIrq
  <2>1. CASE Oops
    BY <1>1, <2>1 DEF Oops
  <2>2. CASE ~Oops
    <3>1. ReadIrq(pump.msg) /\ pump.at = "callback" /\ faults' = faults
      BY <1>6, <2>2 DEF CheckIrq
    <3>2. pump.msg \in Radios /\ Uses(pump.msg)
      BY <3>1 DEF OnceInv, Uses
    <3>3. "early_irq" \notin faults => radio[pump.msg] = "ready"
      BY <3>2 DEF EarlyInv
    <3>4. QED
      BY <1>2, <3>1, <3>2, <3>3
  <2>3. QED
    BY <2>1, <2>2
<1>7. ASSUME NEW r \in Radios, Interrupt(r) PROVE EarlyInv'
  <2>1. r \in irqs /\ ReadIrq(r)
        /\ faults' = IF radio[r] \in {"irq", "index"} THEN faults \cup {"early_irq"} ELSE faults
    BY <1>7 DEF Interrupt
  <2>2. "early_irq" \notin faults' => radio[r] = "ready"
    BY <2>1 DEF LifeInv, NrfTypeOK, RadioStates
  <2>3. QED
    BY <1>2, <2>1, <2>2
<1>8. ASSUME NEW r \in Radios, Ioctl(r) PROVE EarlyInv'
  BY <1>2, <1>8 DEF Ioctl, LifeInv
<1>9. CASE LifeStep
  BY <1>1, <1>9, LifeStepBus
<1>10. CASE UNCHANGED vars
  BY <1>1, <1>10 DEF vars
<1>11. QED
  BY <1>4, <1>5, <1>6, <1>7, <1>8, <1>9, <1>10 DEF Next, LifeStep

\* A handler, ioctl or callback of a driver that is loaded and bound.
LEMMA QuietRead ==
  ASSUME BusTypeOK, NrfTypeOK, Quiet, NEW r \in Radios, ReadIrq(r), loaded, probe /= "none"
  PROVE  Quiet'
<1>1. CASE UNCHANGED <<busvars, nrf, oops>>
  BY <1>1, SameUses DEF Quiet, nrf
<1>2. CASE Claims(r)
  <2>1. /\ UNCHANGED <<probe, freed, loaded, oops, pump, gapspi_spi_device>>
        /\ \A s : s \in Pending' <=> s \in Pending \/ s = r
        /\ spi_pending' = [spi_pending EXCEPT ![r] = TRUE]
    BY <1>2, AsyncEffect, IndexIsDevice DEF Claims, gap_spi_async, driver
  <2>2. \A s \in Radios : s \in Pending' => spi_pending'[s]
    BY <2>1 DEF Quiet, NrfTypeOK
  <2>3. \A s \in Radios : Uses(s)' => loaded' /\ probe' /= "none"
    BY <2>1
  <2>4. QED
    BY <2>1, <2>2, <2>3 DEF Quiet
<1>3. gapspi_spi_device /\ ~freed /\ (r \in Pending => spi_pending[r])
  BY DEF Quiet
<1>4. QED
  BY <1>1, <1>2, <1>3, ReadIrqCases

LEMMA QuietStep ==
  IInv /\ OnceInv /\ NrfTypeOK /\ LifeInv /\ EarlyInv /\ QuietInv /\ [Next]_vars => QuietInv'
<1> SUFFICES ASSUME IInv, OnceInv, NrfTypeOK, LifeInv, EarlyInv, QuietInv, [Next]_vars,
                    faults' = {}
             PROVE  Quiet'
  BY DEF QuietInv
<1>0. BusTypeOK /\ faults = {} /\ Quiet
  <2>1. faults \subseteq faults'
    BY LifeStepBus, OtherSteps
  <2>2. QED
    BY <2>1 DEF IInv, QuietInv
<1>1. \A r \in Radios : Uses(r) => radio[r] = "ready"
  BY <1>0 DEF EarlyInv
<1>2. pump.at /= "idle" => pump.msg \in Radios /\ Uses(pump.msg) /\ loaded
  <2>1. pump.at /= "idle" => pump.msg \in Radios
    BY DEF OnceInv
  <2>2. pump.at \in {"idle", "mux", "xfer", "callback"}
    BY <1>0 DEF BusTypeOK
  <2>3. QED
    BY <1>0, <2>1, <2>2 DEF Uses, Pending, Taken, Quiet
<1>3. ASSUME Pump \/ PumpReturns \/ GapBinds, UNCHANGED <<nrf, oops>>
      PROVE  Quiet'
  <2>1. gapspi_spi_device => gapspi_spi_device'
    BY <1>3 DEF Pump, PumpTakes, gapspi_cs_mux, our_transfer_one_message, PumpReturns, GapBinds,
                gapspi_spi_probe, gpio_request_one, gapspi_spi_probe_fails,
                gapspi_spi_probe_splices, gapspi_spi_probe_binds, driver
  <2>2. \A r : (r \in Pending' => r \in Pending) /\ (Uses(r)' => Uses(r))
    BY <1>0, <1>3, BusEffect
  <2>3. QED
    BY <1>0, <1>3, <2>1, <2>2 DEF Quiet, nrf
<1>4. CASE PumpStep
  <2>1. ASSUME NEW packet \in BOOLEAN, Done(packet) PROVE Quiet'
    <3>1. pump.at = "xfer"
      BY <2>1 DEF Done
    <3>2. radio[pump.msg] = "ready" /\ loaded /\ ~freed
      BY <1>0, <1>1, <1>2, <3>1 DEF Quiet
    <3>3. /\ PumpCompletes
          /\ spi_pending' = [spi_pending EXCEPT ![pump.msg] = FALSE]
          /\ UNCHANGED <<probe, radio, freed, irqs, cdevs, files, loaded, oops>>
      BY <2>1, <3>2 DEF Done
    <3>4. /\ \A r : (r \in Pending' => r \in Pending) /\ (Uses(r)' => Uses(r))
          /\ pump.msg \notin Pending'
      BY <1>0, <3>3, BusEffect
    <3>5. UNCHANGED gapspi_spi_device
      BY <3>3 DEF PumpCompletes, driver
    <3>6. \A r \in Radios : r \in Pending' => spi_pending'[r]
      BY <1>0, <3>3, <3>4 DEF Quiet, NrfTypeOK
    <3>7. QED
      BY <1>0, <3>3, <3>4, <3>5, <3>6 DEF Quiet
  <2>2. CASE DoneReturns
    BY <1>2, <1>3, <2>2 DEF DoneReturns
  <2>3. CASE ~oops /\ Pump /\ UNCHANGED <<nrf, oops, faults>>
    BY <1>3, <2>3
  <2>4. QED
    BY <1>4, <2>1, <2>2, <2>3 DEF PumpStep
<1>5. CASE ~oops /\ GapBinds /\ UNCHANGED <<nrf, oops, faults>>
  BY <1>3, <1>5
<1>6. CASE GapRemove
  <2>1. /\ gapspi_spi_remove /\ UNCHANGED <<nrf, oops>>
        /\ ~(loaded /\ probe /= "none")
    BY <1>0, <1>6 DEF GapRemove, Fault
  <2>2. \A r : (r \in Pending' => r \in Pending) /\ (Uses(r)' => Uses(r))
    BY <1>0, <2>1, BusEffect
  <2>3. QED
    BY <1>0, <2>1, <2>2 DEF Quiet, nrf
<1>7. CASE CheckIrq
  <2>1. pump.at = "callback"
    BY <1>7 DEF CheckIrq
  <2>2. loaded /\ probe /= "none" /\ pump.msg \in Radios
    BY <1>0, <1>2, <2>1 DEF Quiet
  <2>3. ReadIrq(pump.msg)
    BY <1>7, <2>2 DEF CheckIrq
  <2>4. QED
    BY <1>0, <2>2, <2>3, QuietRead
<1>8. ASSUME NEW r \in Radios, Interrupt(r) \/ Ioctl(r) PROVE Quiet'
  <2>1. ReadIrq(r) /\ (r \in irqs \/ r \in files)
    BY <1>8 DEF Interrupt, Ioctl
  <2>2. loaded /\ probe /= "none"
    BY <2>1 DEF LifeInv
  <2>3. QED
    BY <1>0, <2>1, <2>2, QuietRead
<1>9. CASE LifeStep
  <2>0. /\ UNCHANGED <<state, pump, queue, gapspi_spi_device>>
        /\ \A r : (r \in Pending' <=> r \in Pending) /\ (Uses(r)' <=> Uses(r))
    BY <1>9, LifeStepBus, SameUses
  <2>1. ASSUME NEW r \in Radios,
               nrf51822_open(r) \/ Close(r) \/ RequestIrq(r) \/ GetCsmux(r) \/ AddCdev(r)
        PROVE  Quiet'
    <3>1. UNCHANGED <<probe, freed, spi_pending, loaded, oops>>
      BY <1>0, <2>1 DEF nrf51822_open, Close, RequestIrq, GetCsmux, AddCdev, Quiet
    <3>2. QED
      BY <1>0, <2>0, <3>1 DEF Quiet
  <2>2. ASSUME NEW r \in Radios, InitRadio(r) PROVE Quiet'
    <3>1. /\ radio[r] = "index" /\ spi_pending' = [spi_pending EXCEPT ![r] = FALSE]
          /\ UNCHANGED <<probe, freed, loaded, oops>>
      BY <2>2 DEF InitRadio, ProbeStep
    <3>2. r \notin Pending
      BY <1>1, <3>1 DEF Uses
    <3>3. \A s \in Radios : s \in Pending' => spi_pending'[s]
      BY <1>0, <2>0, <3>1, <3>2 DEF Quiet, NrfTypeOK
    <3>4. QED
      BY <1>0, <2>0, <3>1, <3>3 DEF Quiet
  <2>3. CASE nrf51822_probe
    <3>1. /\ gapspi_spi_device /\ probe' = "radios" /\ loaded
          /\ UNCHANGED <<freed, spi_pending, loaded, oops>>
      BY <2>3 DEF nrf51822_probe, Fault
    <3>2. QED
      BY <1>0, <2>0, <3>1 DEF Quiet
  <2>4. CASE CreateClass \/ Probed \/ nrf51822_remove \/ DevresRelease
    <3>1. /\ probe /= "none" /\ probe' /= "none"
          /\ UNCHANGED <<freed, spi_pending, loaded, oops>>
      BY <2>4 DEF CreateClass, Probed, nrf51822_remove, DevresRelease
    <3>2. QED
      BY <1>0, <2>0, <3>1 DEF Quiet
  <2>5. CASE ProbeFails
    BY <2>5 DEF ProbeFails, Fault
  <2>6. CASE Unload
    <3>1. /\ Pending = {} /\ pump.at /= "callback" /\ ~loaded'
          /\ UNCHANGED <<probe, freed, spi_pending, oops>>
      BY <2>6 DEF Unload, Fault
    <3>2. \A r \in Radios : ~Uses(r)
      BY <3>1 DEF Uses
    <3>3. QED
      BY <1>0, <2>0, <3>1, <3>2 DEF Quiet
  <2>7. QED
    BY <1>9, <2>1, <2>2, <2>3, <2>4, <2>5, <2>6 DEF LifeStep
<1>10. CASE UNCHANGED vars
  BY <1>0, <1>10, SameUses DEF vars, nrf, Quiet
<1>11. QED
  BY <1>4, <1>5, <1>6, <1>7, <1>8, <1>9, <1>10 DEF Next, LifeStep

LEMMA InitProbeInv == Init => ProbeInv
<1> SUFFICES ASSUME Init PROVE ProbeInv
  OBVIOUS
<1>1. /\ BusInit /\ queue = << >> /\ pump.at = "idle"
  BY DEF Init, BusInit, Idle
<1>2. IInv
  BY <1>1, InitIInv
<1>3. \A r : ~Uses(r) /\ r \notin Pending
  BY <1>1 DEF Uses, Pending, Taken
<1>4. OnceInv
  BY <1>1 DEF OnceInv
<1>5. NrfTypeOK /\ LifeInv
  BY DEF Init, NrfTypeOK, LifeInv, RadioStates
<1>6. EarlyInv /\ QuietInv
  BY <1>3 DEF Init, EarlyInv, QuietInv, Quiet
<1>7. QED
  BY <1>2, <1>4, <1>5, <1>6 DEF ProbeInv

\* The inductive invariant of the radios' driver on its bus.
LEMMA ProbeInvariant == Spec => []ProbeInv
<1>1. ProbeInv /\ [Next]_vars => ProbeInv'
  <2> SUFFICES ASSUME ProbeInv, [Next]_vars PROVE ProbeInv'
    OBVIOUS
  <2>1. IInv /\ OnceInv /\ NrfTypeOK /\ LifeInv /\ EarlyInv /\ QuietInv
    BY DEF ProbeInv
  <2>2. [BusNext]_busvars
    BY <2>1, DriverStepIsBusStep
  <2>3. IInv' /\ OnceInv'
    BY <2>1, <2>2, TypeStep, BoundStep, MuxStep, OnceStep DEF IInv
  <2>4. QED
    BY <2>1, <2>3, NrfTypeStep, LifeInvStep, EarlyStep, QuietStep DEF ProbeInv
<1>2. QED
  BY InitProbeInv, <1>1, PTL DEF Spec

\* The radios' driver uses the bus only as GapSpi allows: whatever nrf51822.c does
\* between probe and unloading, each of its steps is a step of gapspi.c's bus, so
\* that SelectsOwnDevice holds for its messages.
THEOREM DriverImplementsBus == Spec => BusSpec
<1>1. Init => BusInit
  BY DEF Init
<1>2. ProbeInv /\ [Next]_vars => [BusNext]_busvars
  BY DriverStepIsBusStep DEF ProbeInv
<1>3. QED
  BY <1>1, <1>2, ProbeInvariant, PTL DEF Spec, BusSpec

\* The messages nrf51822.c submits while our_transfer_one_message is in place, and the
\* pump takes while it still is, go out with the demultiplexer set for the device they
\* were submitted for.
THEOREM DriverSelectsDevice == Spec => []SelectedWhileOnBus
  BY DriverImplementsBus, SelectsOwnDevice, PTL

\* Type correctness of the driver, for any number of radios.
THEOREM DriverTypes == Spec => []TypeOK
<1>1. ProbeInv => TypeOK
  BY DEF ProbeInv, IInv, NrfTypeOK, TypeOK, RadioStates, FaultKinds
<1>2. QED
  BY <1>1, ProbeInvariant, PTL

\* nrf51822.c never meets freed memory, an uninitialised wait queue, a NULL device, a
\* message that is still queued or code that is gone, for any number of radios and
\* however probe, remove, unloading, interrupts, ioctls and callbacks interleave,
\* unless one of the four faults has happened.
THEOREM DriverStaysUp == Spec => []StaysUp
<1>1. ProbeInv => StaysUp
  BY DEF ProbeInv, QuietInv, Quiet, StaysUp
<1>2. QED
  BY <1>1, ProbeInvariant, PTL

\* With any number of radios on the bus, a radio's transfer selects that radio and no
\* other, unless an interrupt came before nrf51822_probe had read its index, or
\* gapspi_spi_remove restored the master's function before the pump took the message.
THEOREM TransfersSelectOwnRadio == Spec => []OwnRadioOnly
<1>1. ProbeInv => OwnRadioOnly
  <2> SUFFICES ASSUME ProbeInv, pump.at = "xfer", pump.msg \in accepted,
                      "early_irq" \notin faults, NEW r \in Radios
               PROVE  Selected(r) <=> r = pump.msg
    BY DEF OwnRadioOnly
  <2>1. pump.msg \in Radios /\ pump.msg \in Pending
    BY DEF ProbeInv, OnceInv, Pending, Taken
  <2>2. state[pump.msg] = pump.msg
    BY <2>1 DEF ProbeInv, EarlyInv, Uses
  <2>3. Selected(pump.msg)
    BY <2>2 DEF ProbeInv, IInv, MuxInv
  <2>4. Selected(r) => r = pump.msg
    BY <2>1, <2>3, DemuxAssumption DEF Selected
  <2>5. QED
    BY <2>3, <2>4
<1>2. QED
  BY <1>1, ProbeInvariant, PTL
=============================================================================

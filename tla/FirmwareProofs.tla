--------------------------- MODULE FirmwareProofs ---------------------------
(***************************************************************************)
(* Proofs about the two modules that stand alone: BcpFrame, the bytes of a *)
(* report from the firmware to user space, for any sizes of the buffers    *)
(* and of the driver's transfers, and BleScan, how main.c starts scanning, *)
(* for any number of flash operations and retries.                         *)
(***************************************************************************)
EXTENDS BcpFrame, BleScan, TLAPS

\* A length, type or zero byte, or a byte of the report framed last.
Own(b) == b \in Nat /\ (b < 1000 \/ b \div 1000 = packets)

\* The firmware's buffer holds a frame of at most 41 bytes, all of them its own.
TxOK ==
  /\ packets \in Nat /\ spi_tx_buf \in [0 .. TxLen - 1 -> Nat]
  /\ at /= "start" => /\ spi_tx_buf[0] \in 9 .. 40
                      /\ \A i \in 0 .. spi_tx_buf[0] : Own(spi_tx_buf[i])

\* The driver's buffer: what lies past the transfer was never written, and before the
\* callback the rest is what the last transfer brought.
DataOK ==
  /\ spi_data_buffer \in [0 .. HostLen - 1 -> Nat]
  /\ \A i \in 0 .. HostLen - 1 : i >= ReadLen => spi_data_buffer[i] = 0
  /\ at = "received" =>
       /\ how \in {"clean", "late", "none"}
       /\ \A i \in 0 .. ReadLen - 1 :
            /\ how = "clean" => spi_data_buffer[i] = spi_tx_buf[i]
            /\ how = "late"  => spi_data_buffer[i] = IF i = 0 THEN 0 ELSE spi_tx_buf[i - 1]
            /\ how = "none"  => spi_data_buffer[i] = 0

\* The inductive invariant.
FrameInv == TxOK /\ DataOK /\ OwnBytesOnly /\ IntactIfItFits

LEMMA Sizes ==
  /\ TxLen \in Nat /\ HostLen \in Nat /\ UserLen \in Nat /\ ReadLen \in Nat
  /\ TxLen > 41 /\ ReadLen <= TxLen /\ TxLen <= HostLen /\ HostLen <= UserLen
  BY FrameAssumption

\* What there is to know of byte i of the n-th report's frame.
FrameByte(b, n, dlen, i) ==
  /\ b \in Nat
  /\ i = 0 => b = dlen + 9
  /\ i <= dlen + 9 => (b < 1000 \/ b \div 1000 = n)

\* What on_ble_evt and spi_slave_event_handle make of a report of n's data.
LEMMA FramedBytes ==
  ASSUME NEW n \in Nat, NEW dlen \in 0 .. 31, spi_tx_buf \in [0 .. TxLen - 1 -> Nat],
         NEW i \in 0 .. TxLen - 1
  PROVE  FrameByte(FramedByte(n, dlen, i), n, dlen, i)
<1> USE DEF FrameByte
<1>1. CASE i = 0
  <2>1. i = 0 /\ i /= 1 /\ ~(i > 1 /\ i < (dlen + 8) + 2)
    BY <1>1
  <2>2. FramedByte(n, dlen, i) = (dlen + 8) + 1
    BY <2>1, ZenonT(60) DEF FramedByte
  <2>3. (dlen + 8) + 1 = dlen + 9 /\ dlen + 9 \in Nat /\ dlen + 9 < 1000
    OBVIOUS
  <2>4. QED
    BY <2>2, <2>3
<1>2. CASE i = 1
  BY <1>2 DEF FramedByte, BCP_RSP_ADVERTISEMENT
<1>3. CASE i > 1 /\ i < (dlen + 8) + 2
  <2>1. FramedByte(n, dlen, i) = 1000 * n + (i - 2)
    BY <1>3 DEF FramedByte
  <2>2. i - 2 \in 0 .. 999 /\ 1000 * n \in Nat
    BY <1>3
  <2>3. \A k \in 0 .. 999 : (1000 * n + k) \div 1000 = n
    OBVIOUS
  <2>4. QED
    BY <1>3, <2>1, <2>2, <2>3
<1>4. CASE i > 1 /\ ~(i < (dlen + 8) + 2)
  <2>1. FramedByte(n, dlen, i) = spi_tx_buf[i]
    BY <1>4 DEF FramedByte
  <2>2. i /= 0 /\ ~(i <= dlen + 9)
    BY <1>4
  <2>3. QED
    BY <2>1, <2>2
<1>5. QED
  BY <1>1, <1>2, <1>3, <1>4

LEMMA FrameStep ==
  ASSUME FrameInv, NEW dlen \in Dlens, Frame(dlen)
  PROVE  FrameInv'
<1>0. dlen \in 0 .. 31 /\ TxOK /\ DataOK
  BY FrameAssumption DEF FrameInv
<1>1. PICK n \in Nat :
        /\ n = packets' /\ at' = "framed"
        /\ spi_tx_buf' = [i \in 0 .. TxLen - 1 |-> FramedByte(n, dlen, i)]
        /\ UNCHANGED <<spi_data_buffer, buf_to_user, buf_to_user_len, how>>
  <2>1. packets + 1 \in Nat
    BY <1>0 DEF TxOK
  <2>2. QED
    BY <2>1 DEF Frame
<1>2. \A i \in 0 .. TxLen - 1 : FrameByte(spi_tx_buf'[i], n, dlen, i)
  <2>1. TAKE i \in 0 .. TxLen - 1
  <2>2. spi_tx_buf'[i] = FramedByte(n, dlen, i)
    BY <1>1
  <2>3. spi_tx_buf \in [0 .. TxLen - 1 -> Nat]
    BY <1>0 DEF TxOK
  <2>4. FrameByte(FramedByte(n, dlen, i), n, dlen, i)
    BY <1>0, <2>3, FramedBytes
  <2>5. QED
    BY <2>2, <2>4
<1>3. spi_tx_buf' \in [0 .. TxLen - 1 -> Nat] /\ spi_tx_buf'[0] = dlen + 9
  <2>1. 0 \in 0 .. TxLen - 1
    BY Sizes
  <2>2. QED
    BY <1>1, <1>2, <2>1 DEF FrameByte
<1>4. \A i \in 0 .. spi_tx_buf'[0] : Own(spi_tx_buf[i])'
  <2>1. TAKE i \in 0 .. spi_tx_buf'[0]
  <2>2. i \in 0 .. TxLen - 1 /\ i <= dlen + 9
    BY <1>0, <1>3, <2>1, Sizes
  <2>3. QED
    BY <1>1, <1>2, <2>2 DEF Own, FrameByte
<1>5. TxOK'
  <2>1. spi_tx_buf'[0] \in 9 .. 40
    BY <1>0, <1>3
  <2>2. QED
    BY <1>1, <1>3, <1>4, <2>1 DEF TxOK
<1>6. DataOK' /\ OwnBytesOnly' /\ IntactIfItFits'
  BY <1>0, <1>1 DEF DataOK, OwnBytesOnly, IntactIfItFits
<1>7. QED
  BY <1>5, <1>6 DEF FrameInv

LEMMA TransferStep ==
  ASSUME FrameInv, NEW kind \in {"clean", "late", "none"}, Transfer(kind)
  PROVE  FrameInv'
<1>0. TxOK /\ DataOK
  BY DEF FrameInv
<1>1. /\ at = "framed" /\ at' = "received" /\ how' = kind
      /\ spi_data_buffer' = [i \in 0 .. HostLen - 1 |-> Received(kind, i)]
      /\ UNCHANGED <<packets, spi_tx_buf, buf_to_user, buf_to_user_len>>
  BY DEF Transfer
<1>2. ASSUME NEW i \in 0 .. HostLen - 1
      PROVE  /\ Received(kind, i) \in Nat
             /\ i >= ReadLen => Received(kind, i) = 0
             /\ i < ReadLen /\ kind = "clean" => Received(kind, i) = spi_tx_buf[i]
             /\ i < ReadLen /\ kind = "late"
                  => Received(kind, i) = IF i = 0 THEN 0 ELSE spi_tx_buf[i - 1]
             /\ i < ReadLen /\ kind = "none" => Received(kind, i) = 0
  BY <1>0, Sizes DEF Received, TxOK, DataOK
<1>3. spi_data_buffer' \in [0 .. HostLen - 1 -> Nat]
  BY <1>1, <1>2
<1>4. \A i \in 0 .. HostLen - 1 : i >= ReadLen => spi_data_buffer'[i] = 0
  BY <1>1, <1>2
<1>5. \A i \in 0 .. ReadLen - 1 :
        /\ kind = "clean" => spi_data_buffer'[i] = spi_tx_buf[i]
        /\ kind = "late"  => spi_data_buffer'[i] = IF i = 0 THEN 0 ELSE spi_tx_buf[i - 1]
        /\ kind = "none"  => spi_data_buffer'[i] = 0
  <2>1. TAKE i \in 0 .. ReadLen - 1
  <2>2. i \in 0 .. HostLen - 1 /\ i < ReadLen
    BY <2>1, Sizes
  <2>3. QED
    BY <1>1, <1>2, <2>2
<1>6. DataOK'
  BY <1>1, <1>3, <1>4, <1>5 DEF DataOK
<1>7. TxOK'
  BY <1>0, <1>1 DEF TxOK, Own
<1>8. OwnBytesOnly' /\ IntactIfItFits'
  BY <1>1 DEF OwnBytesOnly, IntactIfItFits
<1>9. QED
  BY <1>6, <1>7, <1>8 DEF FrameInv

\* The callback: whatever the transfer brought, PacketLen bytes of it are the frame's.
LEMMA DoneStep ==
  ASSUME FrameInv, Done
  PROVE  FrameInv'
<1>0. /\ TxOK /\ DataOK /\ at = "received"
      /\ UNCHANGED <<packets, spi_tx_buf, spi_data_buffer, how>>
  BY DEF FrameInv, Done
<1> DEFINE d == spi_data_buffer
           t == spi_tx_buf
<1>1. /\ t[0] \in 9 .. 40 /\ \A i \in 0 .. t[0] : Own(t[i])
      /\ how \in {"clean", "late", "none"}
  BY <1>0 DEF TxOK, DataOK
<1>2. \A i \in 0 .. HostLen - 1 :
        \/ d[i] = 0
        \/ i < ReadLen /\ how = "clean" /\ d[i] = t[i]
        \/ i < ReadLen /\ how = "late" /\ i > 0 /\ d[i] = t[i - 1]
  <2>1. TAKE i \in 0 .. HostLen - 1
  <2>2. CASE i >= ReadLen
    BY <1>0, <2>2 DEF DataOK
  <2>3. CASE i < ReadLen
    <3>1. i \in 0 .. ReadLen - 1
      BY <2>3, Sizes
    <3>2. QED
      BY <1>0, <1>1, <2>3, <3>1 DEF DataOK
  <2>4. QED
    BY <2>2, <2>3, Sizes
<1>3. TxOK'
  <2>1. at' /= "start" /\ at /= "start"
    BY <1>0 DEF Done
  <2>2. QED
    BY <1>0, <2>1 DEF TxOK, Own
<1>4. DataOK'
  <2>1. at' /= "received"
    BY DEF Done
  <2>2. QED
    BY <1>0, <2>1 DEF DataOK
<1>5. CASE at' = "framed"
  BY <1>3, <1>4, <1>5 DEF FrameInv, OwnBytesOnly, IntactIfItFits
<1>6. CASE at' = "delivered"
  <2> DEFINE len == PacketLen(d)
  <2>1. /\ ~(d[0] = 0 /\ d[1] = 0) /\ buf_to_user_len' = len
        /\ buf_to_user' = [i \in 0 .. UserLen - 1 |-> IF i < len THEN d[i] ELSE buf_to_user[i]]
    BY <1>6 DEF Done
  <2>2. /\ how = "clean" \/ how = "late"
        /\ how = "clean" => d[0] = t[0]
        /\ how = "late"  => d[0] = 0 /\ d[1] = t[0]
    <3>1. 0 \in 0 .. HostLen - 1 /\ 1 \in 0 .. HostLen - 1
      BY Sizes
    <3>2. \/ d[0] = 0
          \/ 0 < ReadLen /\ how = "clean" /\ d[0] = t[0]
      BY <1>2, <3>1
    <3>3. \/ d[1] = 0
          \/ 1 < ReadLen /\ how = "clean" /\ d[1] = t[1]
          \/ 1 < ReadLen /\ how = "late" /\ d[1] = t[0]
      BY <1>2, <3>1
    <3>4. ASSUME how = "clean" PROVE d[0] = t[0]
      <4>1. 0 < ReadLen
        BY <2>1, <3>2, <3>3, <3>4, Sizes
      <4>2. 0 \in 0 .. ReadLen - 1
        BY <4>1, Sizes
      <4>3. QED
        BY <1>0, <3>4, <4>2 DEF DataOK
    <3>5. QED
      BY <2>1, <3>2, <3>3, <3>4
  <2>3. len = t[0] + 1
    BY <1>1, <2>2 DEF PacketLen
  <2>4. \A i \in 0 .. len - 1 : i \in 0 .. HostLen - 1 /\ i \in 0 .. UserLen - 1 /\ i < len
    BY <1>1, <2>3, Sizes
  <2>5. \A i \in 0 .. len - 1 : buf_to_user'[i] = d[i]
    <3> HIDE DEF len
    <3>1. QED
      BY <2>1, <2>4
  <2>6. ASSUME NEW i \in 0 .. len - 1
        PROVE  d[i] < 1000 \/ d[i] \div 1000 = packets
    <3>1. i \in 0 .. t[0] /\ i \in 0 .. HostLen - 1
      BY <1>1, <2>3, <2>4
    <3>2. CASE d[i] = 0
      BY <3>2
    <3>3. CASE d[i] = t[i]
      BY <1>1, <3>1, <3>3 DEF Own
    <3>4. CASE i > 0 /\ d[i] = t[i - 1]
      <4>1. i - 1 \in 0 .. t[0]
        BY <1>1, <3>1, <3>4
      <4>2. QED
        BY <1>1, <3>4, <4>1 DEF Own
    <3>5. QED
      BY <1>2, <3>1, <3>2, <3>3, <3>4
  <2>7. OwnBytesOnly'
    <3> HIDE DEF len
    <3>1. QED
      BY <1>0, <2>1, <2>5, <2>6 DEF OwnBytesOnly
  <2>8. IntactIfItFits'
    <3> SUFFICES ASSUME how = "clean", t[0] + 1 <= ReadLen
                 PROVE  Intact'
      BY <1>0 DEF IntactIfItFits, FrameLen
    <3>1. \A i \in 0 .. t[0] : d[i] = t[i]
      <4>1. \A i \in 0 .. t[0] : i \in 0 .. ReadLen - 1
        BY <1>1, Sizes
      <4>2. QED
        BY <1>0, <4>1 DEF DataOK
    <3>2. buf_to_user_len' = FrameLen'
      BY <1>0, <2>1, <2>3 DEF FrameLen
    <3>3. \A i \in 0 .. FrameLen' - 1 : buf_to_user'[i] = spi_tx_buf'[i]
      <4>1. FrameLen' = t[0] + 1
        BY <1>0 DEF FrameLen
      <4>2. \A i \in 0 .. FrameLen' - 1 : i \in 0 .. t[0] /\ i \in 0 .. len - 1
        <5> HIDE DEF len
        <5>1. QED
          BY <1>1, <2>3, <4>1
      <4> HIDE DEF len
      <4>3. QED
        BY <1>0, <2>5, <3>1, <4>2
    <3>4. QED
      BY <3>2, <3>3 DEF Intact
  <2>9. QED
    BY <1>3, <1>4, <2>7, <2>8 DEF FrameInv
<1>7. QED
  BY <1>5, <1>6 DEF Done

LEMMA FrameInvariant == Spec => []FrameInv
<1>1. Init => FrameInv
  BY Sizes DEF Init, FrameInv, TxOK, DataOK, OwnBytesOnly, IntactIfItFits
<1>2. FrameInv /\ [Next]_vars => FrameInv'
  <2> SUFFICES ASSUME FrameInv, [Next]_vars PROVE FrameInv'
    OBVIOUS
  <2>1. CASE UNCHANGED vars
    BY <2>1 DEF vars, FrameInv, TxOK, DataOK, Own, OwnBytesOnly, IntactIfItFits, Intact, FrameLen
  <2>2. QED
    BY <2>1, FrameStep, TransferStep, DoneStep DEF Next
<1>3. QED
  BY <1>1, <1>2, PTL DEF Spec

\* However packets of different lengths follow each other through the three buffers,
\* none of which main.c or nrf51822.c ever clears, user space gets no byte of an
\* earlier packet, be the transfer longer or shorter than the frame.
THEOREM BytesAreOwn == Spec => []OwnBytesOnly
<1>1. FrameInv => OwnBytesOnly
  BY DEF FrameInv
<1>2. QED
  BY <1>1, FrameInvariant, PTL

\* A frame that fits the transfer and was not preceded by an invalid byte arrives
\* intact: main.c and nrf51822.c agree on what the length byte counts.
THEOREM FramesArriveIntact == Spec => []IntactIfItFits
<1>1. FrameInv => IntactIfItFits
  BY DEF FrameInv
<1>2. QED
  BY <1>1, FrameInvariant, PTL
-----------------------------------------------------------------------------
\* The inductive invariant of BleScan: main has started nothing before it has decided,
\* and what it read as the number of pending operations can only have fallen since.
ScanInv ==
  /\ pending \in Nat /\ m_memory_access_in_progress \in BOOLEAN /\ scanning \in BOOLEAN
  /\ starts = IF scanning THEN 1 ELSE 0
  /\ scanning => pending = 0
  /\ scanning => ~m_memory_access_in_progress
  /\ main.at \in {"scan_start", "decide", "idle"}
  /\ main.at /= "idle" => ~scanning /\ ~m_memory_access_in_progress
  /\ main.at = "decide" => main.count \in Nat /\ pending <= main.count

\* An interrupt leaves no more operations pending than there were, and starts scanning
\* only when main has postponed the start and none is left.
LEMMA SysEvtStep ==
  ASSUME ScanInv, NEW left \in Nat, left <= pending, sys_evt_dispatch(left)
  PROVE  ScanInv'
<1>1. pending > 0 /\ pending' = left /\ main' = main /\ ~scanning /\ starts = 0
  BY DEF ScanInv, sys_evt_dispatch
<1>2. CASE m_memory_access_in_progress /\ left = 0
  <2>1. /\ scanning' = TRUE /\ starts' = starts + 1 /\ m_memory_access_in_progress' = FALSE
        /\ main.at = "idle"
    BY <1>1, <1>2 DEF ScanInv, sys_evt_dispatch, on_sys_evt, ScanStart
  <2>2. scanning' /\ scanning' \in BOOLEAN
    BY <2>1, Zenon
  <2>3. ~m_memory_access_in_progress' /\ m_memory_access_in_progress' \in BOOLEAN
    BY <2>1, Zenon
  <2>4. starts' = 1 /\ pending' = 0 /\ pending' \in Nat /\ main'.at = "idle"
    BY <1>1, <1>2, <2>1
  <2>5. QED
    BY <2>2, <2>3, <2>4 DEF ScanInv
<1>3. CASE ~(m_memory_access_in_progress /\ left = 0)
  <2>1. UNCHANGED <<scanning, starts>>
    BY <1>3 DEF sys_evt_dispatch, on_sys_evt
  <2>2. m_memory_access_in_progress' = m_memory_access_in_progress
    BY <1>3, Zenon DEF ScanInv, sys_evt_dispatch, on_sys_evt
  <2>3. QED
    BY <1>1, <2>1, <2>2 DEF ScanInv
<1>4. QED
  BY <1>2, <1>3

LEMMA MainStep ==
  ASSUME ScanInv, MainReads \/ MainDecides
  PROVE  ScanInv'
<1>1. CASE MainReads
  BY <1>1 DEF ScanInv, MainReads
<1>2. CASE MainDecides
  <2>1. /\ main.at = "decide" /\ main'.at = "idle" /\ pending' = pending
        /\ ~scanning /\ starts = 0 /\ ~m_memory_access_in_progress
        /\ main.count \in Nat /\ pending <= main.count
    BY <1>2 DEF ScanInv, MainDecides
  <2>2. CASE main.count = 0
    <3>1. /\ scanning' = TRUE /\ starts' = starts + 1
          /\ m_memory_access_in_progress' = m_memory_access_in_progress
      BY <1>2, <2>2, Zenon DEF MainDecides, Decide, ScanStart
    <3>2. QED
      BY <2>1, <2>2, <3>1 DEF ScanInv
  <2>3. CASE main.count /= 0
    <3>1. /\ scanning' = scanning /\ starts' = starts
          /\ m_memory_access_in_progress' = TRUE
      BY <1>2, <2>3, Zenon DEF MainDecides, Decide
    <3>2. QED
      BY <2>1, <3>1 DEF ScanInv
  <2>4. QED
    BY <2>2, <2>3
<1>3. QED
  BY <1>1, <1>2

\* Wherever in scan_start the interrupts of finishing and retried flash operations
\* strike, scanning starts at most once between two resets of the chip and never while an
\* operation is pending: main and on_sys_evt never both start it.
THEOREM ScanStartsOnce == ScanSpec => []StartedOnceWhenIdle
<1>1. ScanInv => StartedOnceWhenIdle
  BY DEF ScanInv, StartedOnceWhenIdle
<1>2. ScanInit => ScanInv
  <2> SUFFICES ASSUME ScanInit PROVE ScanInv
    OBVIOUS
  <2>1. ~scanning /\ scanning \in BOOLEAN
    BY Zenon DEF ScanInit
  <2>2. ~m_memory_access_in_progress /\ m_memory_access_in_progress \in BOOLEAN
    BY Zenon DEF ScanInit
  <2>3. starts = 0 /\ pending \in Nat /\ main.at = "scan_start"
    BY ScanAssumption DEF ScanInit
  <2>4. QED
    BY <2>1, <2>2, <2>3 DEF ScanInv
<1>3. ScanInv /\ [ScanNext]_scanvars => ScanInv'
  <2> SUFFICES ASSUME ScanInv, [ScanNext]_scanvars PROVE ScanInv'
    OBVIOUS
  <2>1. CASE FlashOperationDone
    <3>1. pending > 0 /\ pending \in Nat
      BY <2>1 DEF ScanInv, FlashOperationDone, sys_evt_dispatch
    <3>2. pending - 1 \in Nat /\ pending - 1 <= pending
      BY <3>1
    <3>3. QED
      BY <2>1, <3>2, SysEvtStep DEF FlashOperationDone
  <2>2. CASE FlashOperationRetried
    <3>1. pending \in Nat /\ pending <= pending
      BY DEF ScanInv
    <3>2. QED
      BY <2>2, <3>1, SysEvtStep DEF FlashOperationRetried
  <2>3. CASE UNCHANGED scanvars
    BY <2>3 DEF ScanInv, scanvars
  <2>4. CASE ScanStartFails
    <3>1. ~scanning' /\ scanning' \in BOOLEAN
      BY <2>4, Zenon DEF ScanStartFails
    <3>2. ~m_memory_access_in_progress' /\ m_memory_access_in_progress' \in BOOLEAN
      BY <2>4, Zenon DEF ScanStartFails
    <3>3. starts' = 0 /\ pending' \in Nat /\ main'.at = "scan_start"
      BY <2>4, ScanAssumption DEF ScanStartFails
    <3>4. QED
      BY <3>1, <3>2, <3>3 DEF ScanInv
  <2>5. QED
    BY <2>1, <2>2, <2>3, <2>4, MainStep DEF ScanNext, Idle
<1>4. QED
  BY <1>1, <1>2, <1>3, PTL DEF ScanSpec
=============================================================================

------------------------------ MODULE BcpFrame ------------------------------
(***************************************************************************)
(* The bytes of one advertisement report on their way to user space, with  *)
(* the buffers that outlive a packet: the firmware frames the report in    *)
(* spi_tx_buf, the driver reads a fixed number of bytes into               *)
(* spi_data_buffer and its completion callback copies them to buf_to_user. *)
(* One packet is carried at a time; BcpSlave and Nrf51822 model what       *)
(* happens when the steps of several packets overlap.                      *)
(*                                                                         *)
(* Byte i of the n-th report is the number 1000 * n + i, so that a byte    *)
(* tells where it comes from; length and type bytes are what they are.     *)
(***************************************************************************)
EXTENDS Naturals

CONSTANTS TxLen,        \* SPI_BUF_LEN of the firmware (64)
          HostLen,      \* SPI_BUF_LEN of the driver (128)
          UserLen,      \* CHAR_DEVICE_BUFFER_LEN (256)
          ReadLen,      \* the length of the driver's transfers (40)
          Dlens,        \* lengths of advertising data, out of 0 .. 31
          MaxPackets    \* bound: reports framed

ASSUME FrameAssumption ==
  /\ Dlens \subseteq 0 .. 31 /\ {TxLen, HostLen, UserLen, ReadLen} \subseteq Nat
  /\ TxLen > 41 /\ ReadLen <= TxLen /\ TxLen <= HostLen /\ HostLen <= UserLen
  /\ MaxPackets \in Nat

BCP_RSP_ADVERTISEMENT == 1

VARIABLES packets,            \* reports framed so far
          spi_tx_buf,         \* firmware
          spi_data_buffer,    \* driver
          buf_to_user, buf_to_user_len,
          at,                 \* how far the current packet has come
          how                 \* how the last transfer went

vars == <<packets, spi_tx_buf, spi_data_buffer, buf_to_user, buf_to_user_len, at, how>>

Init ==
  /\ packets = 0
  /\ spi_tx_buf = [i \in 0 .. TxLen - 1 |-> 0]
  /\ spi_data_buffer = [i \in 0 .. HostLen - 1 |-> 0]
  /\ buf_to_user = [i \in 0 .. UserLen - 1 |-> 0]
  /\ buf_to_user_len = 0
  /\ at = "start" /\ how = "clean"

\* Mutant of FramedByte: the length byte counts itself.
FramedByteLong(n, dlen, i) ==
  CASE i = 0                     -> (dlen + 8) + 2
    [] i = 1                     -> BCP_RSP_ADVERTISEMENT
    [] i > 1 /\ i < (dlen + 8) + 2 -> 1000 * n + (i - 2)
    [] OTHER                     -> spi_tx_buf[i]

\* Byte i of spi_tx_buf once the n-th report is framed.  on_ble_evt passes
\* dlen + 8 bytes of the report to the queue; they are copied behind the length
\* byte, which also counts the type byte, and the type byte.  The rest of
\* spi_tx_buf keeps the bytes of earlier reports.
FramedByte(n, dlen, i) ==
  CASE i = 0                     -> (dlen + 8) + 1
    [] i = 1                     -> BCP_RSP_ADVERTISEMENT
    [] i > 1 /\ i < (dlen + 8) + 2 -> 1000 * n + (i - 2)
    [] OTHER                     -> spi_tx_buf[i]

Frame(dlen) ==
  /\ at \in {"start", "delivered"}
  /\ packets < MaxPackets
  /\ packets' = packets + 1
  /\ spi_tx_buf' = [i \in 0 .. TxLen - 1 |-> FramedByte(packets', dlen, i)]
  /\ at' = "framed"
  /\ UNCHANGED <<spi_data_buffer, buf_to_user, buf_to_user_len, how>>

\* Byte i of spi_data_buffer after a transfer of ReadLen bytes.  The slave was
\* ready ("clean"), or late, so that an invalid zero byte precedes the frame
\* ("late"), or it ignored the transaction ("none").
Received(kind, i) ==
  IF i >= ReadLen THEN spi_data_buffer[i]
  ELSE IF kind = "none" THEN 0
  ELSE IF kind = "clean" THEN spi_tx_buf[i]
  ELSE IF i = 0 THEN 0 ELSE spi_tx_buf[i - 1]

Transfer(kind) ==
  /\ at = "framed"
  /\ spi_data_buffer' = [i \in 0 .. HostLen - 1 |-> Received(kind, i)]
  /\ how' = kind
  /\ at' = "received"
  /\ UNCHANGED <<packets, spi_tx_buf, buf_to_user, buf_to_user_len>>

\* Mutant of PacketLen: the length byte itself is not counted.
PacketLenShort(b) == IF b[0] = 0 THEN b[1] ELSE b[0]

\* The length both callbacks compute: from the second byte if the first is zero.
PacketLen(b) == 1 + (IF b[0] = 0 THEN b[1] ELSE b[0])

\* The completion callbacks: two zero bytes, and the response is ignored (the line
\* is still high and the driver reads again); else PacketLen bytes are copied,
\* always from the start of spi_data_buffer.
Done ==
  /\ at = "received"
  /\ \/ /\ spi_data_buffer[0] = 0 /\ spi_data_buffer[1] = 0
        /\ at' = "framed"
        /\ UNCHANGED <<buf_to_user, buf_to_user_len>>
     \/ /\ ~(spi_data_buffer[0] = 0 /\ spi_data_buffer[1] = 0)
        /\ buf_to_user_len' = PacketLen(spi_data_buffer)
        /\ buf_to_user' = [i \in 0 .. UserLen - 1 |->
             IF i < buf_to_user_len' THEN spi_data_buffer[i] ELSE buf_to_user[i]]
        /\ at' = "delivered"
  /\ UNCHANGED <<packets, spi_tx_buf, spi_data_buffer, how>>

Next ==
  \/ \E dlen \in Dlens : Frame(dlen)
  \/ \E kind \in {"clean", "late", "none"} : Transfer(kind)
  \/ Done

Spec == Init /\ [][Next]_vars
-----------------------------------------------------------------------------
\* The frame in spi_tx_buf: its length byte and as many bytes as it says.
FrameLen == spi_tx_buf[0] + 1

\* The user has exactly the frame the firmware sent.
Intact ==
  /\ buf_to_user_len = FrameLen
  /\ \A i \in 0 .. FrameLen - 1 : buf_to_user[i] = spi_tx_buf[i]

\* A packet never carries bytes of an earlier one, although none of the three
\* buffers is ever cleared and packets differ in length: every byte the user may
\* read is a length, type or zero byte or a byte of the report framed last.
OwnBytesOnly ==
  at = "delivered" =>
    \A i \in 0 .. buf_to_user_len - 1 :
      buf_to_user[i] < 1000 \/ buf_to_user[i] \div 1000 = packets

\* A frame that fits the transfer and was not preceded by an invalid byte arrives
\* intact: firmware and driver agree on what the length byte counts.
IntactIfItFits ==
  at = "delivered" /\ how = "clean" /\ FrameLen <= ReadLen => Intact
=============================================================================

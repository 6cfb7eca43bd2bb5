--------------------------- MODULE BcpSlaveProofs ---------------------------
(***************************************************************************)
(* Proofs about BcpSlave, for every queue length and any number of         *)
(* advertisements, resets and errors: types, HostNotified, NeverDeaf and   *)
(* InOrder.                                                                *)
(*                                                                         *)
(* InOrder compares two reports that may be many steps apart.  Between     *)
(* them the reports sit in the queue, in spi_tx_buf and in the transaction *)
(* on the bus; the inductive invariant orders all of these places.         *)
(***************************************************************************)
EXTENDS BcpSlave, InterruptEventQueueProofs

Words  == {NoReport} \cup Reports          \* what spi_tx_buf may hold
Queues == QueueType(Words)
Xfers  == [is : {"none", "active", "ignored"}, mosi : {0} \cup BcpCommands,
           miso : Words]

\* Sequence s of reports increases strictly, between lo (excluded) and hi.
Ordered(s, lo, hi) ==
  /\ \A i \in 1 .. Len(s) : lo < s[i] /\ s[i] <= hi
  /\ \A i, j \in 1 .. Len(s) : i < j => s[i] < s[j]

\* The queued reports are newer than the one in spi_tx_buf and than the one the
\* master read last.
QueueOrdered ==
  /\ Ordered(Contents(ieq), spi_tx_buf, adv_count)
  /\ Ordered(Contents(ieq), last, adv_count)

\* What the master may yet read from spi_tx_buf is not older than what it read
\* last; a transaction began with what spi_tx_buf holds or held before.
BufferOrdered ==
  /\ spi_tx_buf <= adv_count /\ last <= adv_count
  /\ spi_tx_buf \in Reports => last <= spi_tx_buf
  /\ xfer.is = "active" => /\ xfer.miso <= spi_tx_buf
                           /\ xfer.miso \in Reports => last <= xfer.miso

\* The inductive invariant.
IInv ==
  /\ TypeOK
  /\ IsCoherent(ieq, Reports)
  /\ HostNotified
  /\ ~up => ~buffer_full
  /\ QueueOrdered
  /\ BufferOrdered
-----------------------------------------------------------------------------
\* The reports as numbers.
LEMMA WordFacts ==
  /\ Reports \subseteq Words /\ Reports \in SUBSET Words /\ NoReport \in Words
  /\ Words \subseteq Nat /\ Reports \subseteq Nat
  /\ \A w \in Words : w \in Reports <=> w > 0
  /\ MaxAdv \in Nat /\ MaxResets \in Nat /\ MaxSetErrors \in Nat
  BY SlaveBoundsAssumption DEF Words, Reports, NoReport

\* A report newer than all others is added at the end of the queue.
LEMMA OrderedAppend ==
  ASSUME NEW s \in Seq(Nat), NEW lo \in Nat, NEW hi \in Nat, lo <= hi,
         Ordered(s, lo, hi)
  PROVE  Ordered(Append(s, hi + 1), lo, hi + 1)
<1> DEFINE t == Append(s, hi + 1)
<1>1. /\ Len(t) = Len(s) + 1 /\ Len(s) \in Nat
      /\ \A i \in 1 .. Len(s) : t[i] = s[i] /\ s[i] \in Nat
      /\ t[Len(s) + 1] = hi + 1
  OBVIOUS
<1>2. ASSUME NEW i \in 1 .. Len(t)
      PROVE  lo < t[i] /\ t[i] <= hi + 1
  <2>1. CASE i = Len(s) + 1
    BY <1>1, <2>1
  <2>2. CASE i \in 1 .. Len(s)
    <3>1. lo < s[i] /\ s[i] <= hi /\ t[i] = s[i] /\ s[i] \in Nat
      BY <1>1, <2>2 DEF Ordered
    <3>2. QED
      BY <3>1
  <2>3. QED
    BY <1>1, <2>1, <2>2
<1>3. ASSUME NEW i \in 1 .. Len(t), NEW j \in 1 .. Len(t), i < j
      PROVE  t[i] < t[j]
  <2>1. i \in 1 .. Len(s) /\ t[i] = s[i] /\ s[i] \in Nat
    BY <1>1, <1>3
  <2>2. CASE j = Len(s) + 1
    <3>1. s[i] <= hi
      BY <2>1 DEF Ordered
    <3>2. QED
      BY <1>1, <2>1, <2>2, <3>1
  <2>3. CASE j \in 1 .. Len(s)
    BY <1>1, <1>3, <2>1, <2>3 DEF Ordered
  <2>4. QED
    BY <1>1, <2>2, <2>3
<1>4. QED
  BY <1>2, <1>3 DEF Ordered

\* The oldest report is taken out of the queue.
LEMMA OrderedTail ==
  ASSUME NEW s \in Seq(Nat), NEW lo \in Nat, NEW hi \in Nat, s /= << >>,
         Ordered(s, lo, hi)
  PROVE  /\ Head(s) \in Nat /\ lo < Head(s) /\ Head(s) <= hi
         /\ Ordered(Tail(s), lo, hi)
         /\ Ordered(Tail(s), Head(s), hi)
<1> DEFINE t == Tail(s)
<1>1. /\ Len(s) \in Nat /\ Len(s) >= 1
      /\ Len(t) = Len(s) - 1
      /\ \A i \in 1 .. Len(t) : t[i] = s[i + 1]
      /\ Head(s) = s[1] /\ Head(s) \in Nat
  BY HeadTailProperties
<1>2. \A i \in 1 .. Len(s) : lo < s[i] /\ s[i] <= hi
  BY DEF Ordered
<1>3. \A i, j \in 1 .. Len(s) : i < j => s[i] < s[j]
  BY DEF Ordered
<1>4. lo < Head(s) /\ Head(s) <= hi
  BY <1>1, <1>2
<1>5. ASSUME NEW i \in 1 .. Len(t)
      PROVE  /\ lo < t[i] /\ t[i] <= hi
             /\ Head(s) < t[i]
  <2>1. i + 1 \in 1 .. Len(s) /\ 1 \in 1 .. Len(s) /\ 1 < i + 1 /\ t[i] = s[i + 1]
    BY <1>1
  <2>2. QED
    BY <1>1, <1>2, <1>3, <2>1
<1>6. ASSUME NEW i \in 1 .. Len(t), NEW j \in 1 .. Len(t), i < j
      PROVE  t[i] < t[j]
  <2>1. i + 1 \in 1 .. Len(s) /\ j + 1 \in 1 .. Len(s) /\ i + 1 < j + 1
    BY <1>1, <1>6
  <2>2. QED
    BY <1>1, <1>3, <2>1
<1>7. QED
  BY <1>1, <1>4, <1>5, <1>6 DEF Ordered

\* The bounds of an ordered queue may be relaxed, and an empty queue is ordered.
LEMMA OrderedWithin ==
  ASSUME NEW s \in Seq(Nat), NEW lo \in Nat, NEW hi \in Nat, Ordered(s, lo, hi),
         NEW lo2 \in Nat, NEW hi2 \in Nat, lo2 <= lo, hi <= hi2
  PROVE  Ordered(s, lo2, hi2)
<1>1. \A i \in 1 .. Len(s) : s[i] \in Nat
  OBVIOUS
<1>2. QED
  BY <1>1 DEF Ordered

LEMMA OrderedEmpty ==
  ASSUME NEW lo, NEW hi
  PROVE  Ordered(<< >>, lo, hi)
  BY DEF Ordered

LEMMA ReportSeq ==
  ASSUME NEW s \in Seq(Reports)
  PROVE  s \in Seq(Nat) /\ Len(s) \in Nat
<1>1. s \in [1 .. Len(s) -> Reports] /\ Len(s) \in Nat
  OBVIOUS
<1>2. s \in [1 .. Len(s) -> Nat]
  BY <1>1, WordFacts
<1>3. QED
  BY <1>1, <1>2

\* What the invariant says of the queue and of the numbers it is compared with.
LEMMA IInvFacts ==
  ASSUME IInv
  PROVE  /\ ieq \in Queues /\ IsCoherent(ieq, Reports)
         /\ Contents(ieq) \in Seq(Nat) /\ Len(Contents(ieq)) = ieq.items
         /\ ieq.items \in Nat
         /\ spi_tx_buf \in Words /\ last \in Words /\ adv_count \in Nat
         /\ spi_tx_buf \in Nat /\ last \in Nat
<1>1. ieq \in QueueType(Words) /\ IsCoherent(ieq, Reports)
  BY DEF IInv, TypeOK, Words
<1>2. Contents(ieq) \in Seq(Reports) /\ Len(Contents(ieq)) = ieq.items
  BY <1>1, WordFacts, ContentsSeq, Zenon
<1>3. Contents(ieq) \in Seq(Nat) /\ ieq.items \in Nat
  BY <1>2, ReportSeq, Zenon
<1>4. spi_tx_buf \in Words /\ last \in Words /\ adv_count \in Nat
  BY WordFacts DEF IInv, TypeOK, Words
<1>5. QED
  BY <1>1, <1>2, <1>3, <1>4, WordFacts DEF Queues
-----------------------------------------------------------------------------
\* The static initialisers.
LEMMA InitIInv == Init => IInv
<1> SUFFICES ASSUME Init PROVE IInv
  OBVIOUS
<1>1. /\ ieq \in QueueType(Words) /\ IsCoherent(ieq, Reports)
      /\ ieq.items = 0 /\ Contents(ieq) = << >>
  <2>1. ieq = EmptyQueue(NoReport)
    BY DEF Init
  <2>2. QED
    BY <2>1, WordFacts, EmptyRing, Zenon
<1>2. xfer \in Xfers /\ xfer.is = "none"
  BY WordFacts DEF Init, NoXfer, Xfers
<1>3. TypeOK
  <2>1. /\ up \in BOOLEAN /\ bcp_irq_advertisements \in BOOLEAN
        /\ buffer_full \in BOOLEAN /\ pin \in BOOLEAN /\ armed \in BOOLEAN
        /\ xfer_done \in BOOLEAN /\ unsent \in BOOLEAN
    BY Zenon DEF Init
  <2>2. /\ adv_count \in 0 .. MaxAdv /\ resets \in 0 .. MaxResets
        /\ set_errors \in 0 .. MaxSetErrors
        /\ spi_tx_buf \in Words /\ last \in Words
    BY WordFacts DEF Init
  <2>3. spi_rx_buf \in {0} \cup BcpCommands
    BY DEF Init
  <2>4. QED
    BY <1>1, <1>2, <2>1, <2>2, <2>3 DEF TypeOK, Words, Xfers
<1>4. QueueOrdered
  BY <1>1, OrderedEmpty DEF QueueOrdered
<1>5. BufferOrdered
  BY <1>2, WordFacts DEF Init, BufferOrdered, NoReport
<1>6. HostNotified /\ (~up => ~buffer_full)
  <2>1. ~(ieq.items > 0)
    BY <1>1
  <2>2. pin = FALSE /\ buffer_full = FALSE
    BY DEF Init
  <2>3. QED
    BY <2>1, <2>2, Zenon DEF HostNotified
<1>7. QED
  BY <1>1, <1>3, <1>4, <1>5, <1>6 DEF IInv

\* NVIC_SystemReset, whatever the bounds on resets and errors allow: the queue is
\* empty again and a transaction on the bus has lost its slave, so only `last'
\* remembers what was read before.
LEMMA ResetIInv ==
  ASSUME IInv, NVIC_SystemReset,
         adv_count' \in adv_count .. MaxAdv,
         resets' \in 0 .. MaxResets, set_errors' \in 0 .. MaxSetErrors
  PROVE  IInv'
<1>1. /\ ieq' \in QueueType(Words) /\ IsCoherent(ieq', Reports)
      /\ ieq'.items = 0 /\ Contents(ieq') = << >>
  <2>1. ieq' = EmptyQueue(NoReport)
    BY DEF NVIC_SystemReset
  <2>2. QED
    BY <2>1, WordFacts, EmptyRing, Zenon
<1>2. xfer' \in Xfers /\ xfer'.is /= "active"
  <2>1. xfer \in Xfers
    BY DEF IInv, TypeOK, Xfers, Words
  <2>2. CASE xfer.is = "active"
    BY <2>2, WordFacts DEF NVIC_SystemReset, NoXfer, Xfers
  <2>3. CASE xfer.is /= "active"
    BY <2>1, <2>3 DEF NVIC_SystemReset
  <2>4. QED
    BY <2>2, <2>3
<1>3. adv_count \in Nat /\ adv_count' \in 0 .. MaxAdv /\ adv_count <= adv_count'
  BY WordFacts DEF IInv, TypeOK
<1>4. TypeOK'
  BY <1>1, <1>2, <1>3, WordFacts DEF NVIC_SystemReset, IInv, TypeOK, Words, Xfers
<1>5. QueueOrdered'
  BY <1>1, OrderedEmpty DEF QueueOrdered, Contents, SlotOf
<1>6. BufferOrdered'
  <2>1. last' = last /\ last \in Nat /\ last <= adv_count /\ spi_tx_buf' = 0
    BY IInvFacts DEF IInv, BufferOrdered, NVIC_SystemReset, NoReport
  <2>2. spi_tx_buf' \notin Reports
    BY <2>1 DEF Reports
  <2>3. QED
    BY <1>2, <1>3, <2>1, <2>2 DEF BufferOrdered
<1>7. HostNotified' /\ (~up => ~buffer_full)'
  <2>1. ~(ieq'.items > 0)
    BY <1>1
  <2>2. pin' = FALSE /\ buffer_full' = FALSE
    BY DEF NVIC_SystemReset
  <2>3. QED
    BY <2>1, <2>2, Zenon DEF HostNotified
<1>8. IsCoherent(ieq, Reports)'
  BY <1>1 DEF IsCoherent, SlotOf
<1>9. QED
  BY <1>4, <1>5, <1>6, <1>7, <1>8 DEF IInv

\* Offer of the oldest event of queue qq, all of whose events are newer than what
\* spi_tx_buf holds and than what the master has read.
LEMMA OfferIInv ==
  ASSUME IInv, up,
         NEW qq \in Queues, IsCoherent(qq, Reports), ~QueueEmpty(qq),
         Ordered(Contents(qq), spi_tx_buf, adv_count'),
         Ordered(Contents(qq), last, adv_count'),
         Offer(qq),
         adv_count' \in adv_count .. MaxAdv,
         UNCHANGED <<up, spi_rx_buf, xfer, last, resets, set_errors>>,
         bcp_irq_advertisements' \in BOOLEAN, xfer_done' \in BOOLEAN
  PROVE  IInv'
<1> DEFINE s == Contents(qq)
<1>1. /\ ieq' \in Queues /\ IsCoherent(ieq', Reports)
      /\ spi_tx_buf' \in Reports /\ spi_tx_buf' = Head(s)
      /\ s /= << >> /\ Contents(ieq') = Tail(s)
  <2>1. spi_tx_buf' = QueueFront(qq) /\ ieq' = QueueRemove(qq)
    BY DEF Offer
  <2>2. QED
    BY <2>1, WordFacts, GetTakesHead, Zenon DEF Queues
<1>2. s \in Seq(Nat)
  <2>1. s \in Seq(Reports)
    BY WordFacts, ContentsSeq, Zenon DEF Queues
  <2>2. QED
    BY <2>1, WordFacts, ReportSeq
<1>3. /\ adv_count \in Nat /\ adv_count' \in Nat /\ adv_count <= adv_count'
      /\ adv_count' \in 0 .. MaxAdv
  BY IInvFacts, WordFacts
<1>4. /\ Head(s) \in Nat /\ spi_tx_buf < Head(s) /\ Head(s) <= adv_count'
      /\ Ordered(Tail(s), Head(s), adv_count')
  BY <1>1, <1>2, <1>3, IInvFacts, OrderedTail
<1>5. last < Head(s) /\ Ordered(Tail(s), last, adv_count')
  BY <1>1, <1>2, <1>3, IInvFacts, OrderedTail
<1>6. QueueOrdered'
  BY <1>1, <1>4, <1>5 DEF QueueOrdered
<1>7. BufferOrdered'
  <2>1. xfer.is = "active" => /\ xfer.miso \in Nat /\ xfer.miso <= spi_tx_buf
                              /\ xfer.miso \in Reports => last <= xfer.miso
    BY WordFacts DEF IInv, BufferOrdered, TypeOK, Words
  <2>2. last \in Nat /\ spi_tx_buf \in Nat
    BY IInvFacts
  <2>3. spi_tx_buf' = Head(s) /\ last' = last /\ xfer' = xfer
    BY <1>1
  <2>4. QED
    BY <1>3, <1>4, <1>5, <2>1, <2>2, <2>3 DEF BufferOrdered
<1>8. TypeOK'
  <2>1. armed' \in BOOLEAN
    BY DEF Offer, spi_slave_buffers_set
  <2>2. buffer_full' \in BOOLEAN /\ pin' \in BOOLEAN /\ unsent' \in BOOLEAN
    BY DEF Offer
  <2>3. spi_tx_buf' \in Words
    BY <1>1, WordFacts
  <2>4. QED
    BY <1>1, <1>3, <2>1, <2>2, <2>3 DEF IInv, TypeOK, Words, Queues
<1>9. HostNotified' /\ (~up => ~buffer_full)'
  <2>1. pin' = TRUE /\ buffer_full' = TRUE /\ up'
    BY DEF Offer
  <2>2. QED
    BY <1>1, <2>1, Zenon DEF HostNotified
<1>10. IsCoherent(ieq, Reports)'
  BY <1>1 DEF IsCoherent, SlotOf
<1>11. QED
  BY <1>6, <1>7, <1>8, <1>9, <1>10 DEF IInv

\* An advertisement report is received: every outcome of interrupt_event_queue_add.
LEMMA BleIInv ==
  ASSUME IInv, on_ble_evt
  PROVE  IInv'
<1> DEFINE e == adv_count + 1
           s == Contents(ieq)
<1>1. /\ up /\ adv_count' = e /\ e \in Reports /\ e \in adv_count .. MaxAdv
      /\ adv_count \in Nat /\ e \in 0 .. MaxAdv
  BY IInvFacts, WordFacts DEF on_ble_evt, Reports
<1>2. /\ Ordered(s, spi_tx_buf, e) /\ Ordered(s, last, e)
      /\ Ordered(Append(s, e), spi_tx_buf, e) /\ Ordered(Append(s, e), last, e)
  <2>1. /\ Ordered(s, spi_tx_buf, adv_count) /\ Ordered(s, last, adv_count)
        /\ spi_tx_buf <= adv_count /\ last <= adv_count
    BY DEF IInv, QueueOrdered, BufferOrdered
  <2>2. s \in Seq(Nat) /\ spi_tx_buf \in Nat /\ last \in Nat
    BY IInvFacts
  <2>3. Ordered(s, spi_tx_buf, e) /\ Ordered(s, last, e)
    BY <1>1, <2>1, <2>2, OrderedWithin
  <2>4. Ordered(Append(s, e), spi_tx_buf, e) /\ Ordered(Append(s, e), last, e)
    BY <1>1, <2>1, <2>2, OrderedAppend
  <2>5. QED
    BY <2>3, <2>4
<1>3. spi_tx_buf <= e /\ last <= e
  BY <1>1, IInvFacts DEF IInv, BufferOrdered
\* The report is not queued.
<1>4. ASSUME UNCHANGED <<fwvars, spivars, resets, set_errors>>
      PROVE  IInv'
  <2>1. QueueOrdered'
    BY <1>1, <1>2, <1>4 DEF QueueOrdered, fwvars, spivars
  <2>2. BufferOrdered'
    BY <1>1, <1>3, <1>4 DEF IInv, BufferOrdered, fwvars, spivars
  <2>3. TypeOK'
    BY <1>1, <1>4 DEF IInv, TypeOK, fwvars, spivars
  <2>4. HostNotified' /\ IsCoherent(ieq, Reports)' /\ (~up => ~buffer_full)'
    BY <1>4, Zenon DEF IInv, HostNotified, IsCoherent, SlotOf, fwvars
  <2>5. QED
    BY <2>1, <2>2, <2>3, <2>4 DEF IInv
<1>5. ASSUME ~QueueFull(ieq)
      PROVE  /\ QueueAdd(ieq, e) \in Queues /\ IsCoherent(QueueAdd(ieq, e), Reports)
             /\ ~QueueEmpty(QueueAdd(ieq, e))
             /\ Contents(QueueAdd(ieq, e)) = Append(s, e)
  <2>1. /\ Reports \in SUBSET Words /\ ieq \in QueueType(Words)
        /\ IsCoherent(ieq, Reports) /\ e \in Reports
    BY <1>1, IInvFacts, WordFacts, Zenon DEF Queues
  <2> HIDE DEF e
  <2>2. QED
    BY <1>5, <2>1, AddAppends, Zenon DEF Queues
\* It is queued behind the report in spi_tx_buf.
<1>6. ASSUME ~QueueFull(ieq), buffer_full, ieq' = QueueAdd(ieq, e),
             UNCHANGED <<up, bcp_irq_advertisements, spi_tx_buf, buffer_full, pin,
                         unsent, spivars, resets, set_errors>>
      PROVE  IInv'
  <2>1. QueueOrdered'
    BY <1>1, <1>2, <1>5, <1>6 DEF QueueOrdered, spivars
  <2>2. BufferOrdered'
    BY <1>1, <1>3, <1>6 DEF IInv, BufferOrdered, spivars
  <2>3. TypeOK'
    BY <1>1, <1>5, <1>6 DEF IInv, TypeOK, spivars, Queues, Words
  <2>4. HostNotified' /\ (~up => ~buffer_full)'
    BY <1>6, Zenon DEF IInv, HostNotified
  <2>5. IsCoherent(ieq, Reports)'
    BY <1>5, <1>6 DEF IsCoherent, SlotOf
  <2>6. QED
    BY <2>1, <2>2, <2>3, <2>4, <2>5 DEF IInv
\* It is queued, and the oldest report is offered.
<1>7. ASSUME ~QueueFull(ieq), Offer(QueueAdd(ieq, e)),
             UNCHANGED <<up, bcp_irq_advertisements, spi_rx_buf, xfer, xfer_done,
                         last, resets, set_errors>>
      PROVE  IInv'
  <2>1. bcp_irq_advertisements' \in BOOLEAN /\ xfer_done' \in BOOLEAN
    BY <1>7 DEF IInv, TypeOK
  <2>2. QED
    BY <1>1, <1>2, <1>5, <1>7, <2>1, OfferIInv
\* The SPI slave refuses the buffers.
<1>8. ASSUME BuffersSetMayFail, NVIC_SystemReset, UNCHANGED resets
      PROVE  IInv'
  <2>1. resets' \in 0 .. MaxResets /\ set_errors' \in 0 .. MaxSetErrors
    BY <1>8, WordFacts DEF IInv, TypeOK, BuffersSetMayFail
  <2>2. QED
    BY <1>1, <1>8, <2>1, ResetIInv
<1>9. QED
  BY <1>4, <1>6, <1>7, <1>8 DEF on_ble_evt, interrupt_event_queue_add

\* A transaction is done: the next report is offered, or there is none.
LEMMA HandleIInv ==
  ASSUME IInv, spi_slave_event_handle
  PROVE  IInv'
<1>1. /\ up /\ up' = up /\ UNCHANGED <<spi_rx_buf, xfer, last, adv_count, resets>>
      /\ xfer_done' \in BOOLEAN
  BY DEF spi_slave_event_handle
<1>2. bcp_irq_advertisements' \in BOOLEAN
  BY DEF spi_slave_event_handle, Sniffing
<1>3. ASSUME ~QueueEmpty(ieq), Offer(ieq), UNCHANGED set_errors
      PROVE  IInv'
  <2>1. adv_count' \in adv_count .. MaxAdv
    BY <1>1, WordFacts DEF IInv, TypeOK
  <2>2. /\ Ordered(Contents(ieq), spi_tx_buf, adv_count')
        /\ Ordered(Contents(ieq), last, adv_count')
    BY <1>1 DEF IInv, QueueOrdered
  <2>3. QED
    BY <1>1, <1>2, <1>3, <2>1, <2>2, IInvFacts, OfferIInv
<1>4. ASSUME QueueEmpty(ieq), NothingToOffer
      PROVE  IInv'
  <2>1. UNCHANGED <<ieq, spi_tx_buf, unsent>> /\ buffer_full' = FALSE /\ pin' = FALSE
    BY <1>4 DEF NothingToOffer
  <2>2. armed' \in BOOLEAN /\ set_errors' \in 0 .. MaxSetErrors
    <3>1. armed \in BOOLEAN /\ set_errors \in 0 .. MaxSetErrors
      BY DEF IInv, TypeOK
    <3>2. CASE spi_slave_buffers_set /\ UNCHANGED set_errors
      BY <3>1, <3>2 DEF spi_slave_buffers_set
    <3>3. CASE BuffersSetMayFail /\ UNCHANGED armed
      BY <3>1, <3>3, WordFacts DEF BuffersSetMayFail
    <3>4. QED
      BY <1>4, <3>2, <3>3, Zenon DEF NothingToOffer
  <2>3. TypeOK'
    BY <1>1, <1>2, <2>1, <2>2 DEF IInv, TypeOK
  <2>4. QueueOrdered' /\ BufferOrdered'
    BY <1>1, <2>1 DEF IInv, QueueOrdered, BufferOrdered
  <2>5. ~(ieq'.items > 0)
    BY <1>4, <2>1 DEF QueueEmpty
  <2>6. HostNotified' /\ IsCoherent(ieq, Reports)' /\ (~up => ~buffer_full)'
    BY <2>1, <2>5, Zenon DEF IInv, HostNotified, IsCoherent, SlotOf
  <2>7. QED
    BY <2>3, <2>4, <2>6 DEF IInv
<1>5. QED
  BY <1>3, <1>4 DEF spi_slave_event_handle

\* The master selects the slave.
LEMMA BeginIInv ==
  ASSUME IInv, NEW c \in BcpCommands, XferBegin(c)
  PROVE  IInv'
<1>1. /\ xfer' = [is |-> IF armed THEN "active" ELSE "ignored", mosi |-> c,
                  miso |-> IF armed THEN spi_tx_buf ELSE NoReport]
      /\ armed' \in BOOLEAN
      /\ UNCHANGED <<fwvars, counts, spi_rx_buf, xfer_done, last>>
  BY DEF XferBegin
<1>2. /\ xfer' \in Xfers
      /\ xfer'.is = "active" => xfer'.miso = spi_tx_buf
  <2>1. spi_tx_buf \in Words /\ NoReport \in Words
    BY IInvFacts, WordFacts
  <2>2. QED
    BY <1>1, <2>1 DEF Xfers
<1>3. TypeOK'
  BY <1>1, <1>2 DEF IInv, TypeOK, Xfers, Words, fwvars, counts
<1>4. BufferOrdered'
  BY <1>1, <1>2, IInvFacts DEF IInv, BufferOrdered, fwvars, counts
<1>5. QueueOrdered' /\ HostNotified' /\ IsCoherent(ieq, Reports)' /\ (~up => ~buffer_full)'
  BY <1>1, ZenonT(60) DEF IInv, QueueOrdered, Ordered, Contents, HostNotified, IsCoherent,
                     SlotOf, fwvars, counts
<1>6. QED
  BY <1>3, <1>4, <1>5 DEF IInv

\* What the master reads is not older than what it read before, and not newer
\* than what spi_tx_buf holds.
LEMMA ResponseOrder ==
  ASSUME IInv, NEW resp, XferEnd(resp), resp \in Reports
  PROVE  /\ last' = resp /\ last <= resp
         /\ xfer.is = "active" /\ resp <= spi_tx_buf /\ spi_tx_buf \in Reports
<1>1. last' = resp /\ resp \in Responses
  BY DEF XferEnd
<1>2. resp \in Nat /\ resp > 0
  BY WordFacts DEF Reports
<1>3. xfer.is = "active" /\ resp \in {xfer.miso, spi_tx_buf}
  BY <1>1, <1>2 DEF Responses, NoReport, Torn
<1>4. /\ spi_tx_buf \in Words /\ spi_tx_buf \in Nat
      /\ xfer.miso <= spi_tx_buf
      /\ xfer.miso \in Reports => last <= xfer.miso
      /\ spi_tx_buf \in Reports => last <= spi_tx_buf
  BY <1>3, IInvFacts DEF IInv, BufferOrdered
<1>5. resp <= spi_tx_buf /\ last <= resp
  BY <1>2, <1>3, <1>4
<1>6. spi_tx_buf \in Reports
  BY <1>2, <1>4, <1>5, WordFacts
<1>7. QED
  BY <1>1, <1>3, <1>5, <1>6

\* The master deselects the slave.
LEMMA EndIInv ==
  ASSUME IInv, NEW resp, XferEnd(resp)
  PROVE  IInv'
<1>1. /\ xfer' = NoXfer
      /\ UNCHANGED <<up, bcp_irq_advertisements, ieq, spi_tx_buf, buffer_full, pin,
                     armed, counts>>
  BY DEF XferEnd
<1>2. xfer' \in Xfers /\ xfer'.is = "none"
  BY <1>1, WordFacts DEF NoXfer, Xfers
<1>3. /\ last' \in Words /\ last' <= adv_count
      /\ spi_tx_buf \in Reports => last' <= spi_tx_buf
      /\ Ordered(Contents(ieq), last', adv_count)
  <2>1. CASE resp \in Reports
    <3>1. last' = resp /\ resp <= spi_tx_buf /\ spi_tx_buf <= adv_count /\ resp \in Words
      BY <2>1, ResponseOrder, WordFacts DEF IInv, BufferOrdered
    <3>2. resp \in Nat /\ spi_tx_buf \in Nat /\ adv_count \in Nat
      BY <3>1, IInvFacts, WordFacts
    <3>3. Ordered(Contents(ieq), resp, adv_count)
      BY <3>1, <3>2, IInvFacts, OrderedWithin DEF IInv, QueueOrdered
    <3>4. QED
      BY <3>1, <3>2, <3>3
  <2>2. CASE resp \notin Reports
    BY <2>2, IInvFacts DEF XferEnd, IInv, QueueOrdered, BufferOrdered
  <2>3. QED
    BY <2>1, <2>2
<1>4. TypeOK'
  <2>1. xfer_done' \in BOOLEAN /\ spi_rx_buf' \in {0} \cup BcpCommands
    BY DEF XferEnd, IInv, TypeOK
  <2>2. unsent' \in BOOLEAN
    BY DEF XferEnd, IInv, TypeOK
  <2>3. QED
    BY <1>1, <1>2, <1>3, <2>1, <2>2 DEF IInv, TypeOK, Xfers, Words, counts
<1>5. BufferOrdered'
  BY <1>1, <1>2, <1>3 DEF IInv, BufferOrdered, counts
<1>6. QueueOrdered'
  BY <1>1, <1>3 DEF IInv, QueueOrdered, counts
<1>7. HostNotified' /\ IsCoherent(ieq, Reports)' /\ (~up => ~buffer_full)'
  BY <1>1, Zenon DEF IInv, HostNotified, IsCoherent, SlotOf
<1>8. QED
  BY <1>4, <1>5, <1>6, <1>7 DEF IInv

\* Every step preserves the invariant.
LEMMA NextIInv == IInv /\ [Next]_vars => IInv'
<1> SUFFICES ASSUME IInv, [Next]_vars PROVE IInv'
  OBVIOUS
<1>1. CASE Boot
  <2>1. /\ UNCHANGED <<bcp_irq_advertisements, ieq, spi_tx_buf, buffer_full, unsent,
                       spi_rx_buf, xfer, xfer_done, last, counts>>
        /\ ~up /\ up' = TRUE /\ pin' = FALSE /\ armed' \in BOOLEAN
    BY <1>1 DEF Boot, spi_slave_buffers_set
  <2>2. TypeOK'
    BY <2>1 DEF IInv, TypeOK, counts
  <2>3. BufferOrdered' /\ QueueOrdered'
    BY <2>1 DEF IInv, BufferOrdered, QueueOrdered, counts
  <2>4. buffer_full = FALSE
    BY <2>1 DEF IInv, TypeOK
  <2>5. HostNotified' /\ IsCoherent(ieq, Reports)' /\ (~up => ~buffer_full)'
    BY <2>1, <2>4, Zenon DEF IInv, HostNotified, IsCoherent, SlotOf
  <2>6. QED
    BY <2>2, <2>3, <2>5 DEF IInv
<1>2. CASE ErrorReset
  <2>1. /\ adv_count' \in adv_count .. MaxAdv /\ resets' \in 0 .. MaxResets
        /\ set_errors' \in 0 .. MaxSetErrors /\ NVIC_SystemReset
    BY <1>2, WordFacts DEF ErrorReset, IInv, TypeOK
  <2>2. QED
    BY <2>1, ResetIInv
<1>3. CASE on_ble_evt
  BY <1>3, BleIInv
<1>4. CASE spi_slave_event_handle
  BY <1>4, HandleIInv
<1>5. CASE spi_slave_event_handle_error
  <2>1. /\ adv_count' \in adv_count .. MaxAdv /\ resets' \in 0 .. MaxResets
        /\ set_errors' \in 0 .. MaxSetErrors /\ NVIC_SystemReset
    BY <1>5, WordFacts DEF spi_slave_event_handle_error, BuffersSetMayFail, IInv, TypeOK
  <2>2. QED
    BY <2>1, ResetIInv
<1>6. CASE \E c \in BcpCommands : XferBegin(c)
  BY <1>6, BeginIInv
<1>7. CASE \E resp \in {Torn, NoReport} \cup Reports : XferEnd(resp)
  BY <1>7, EndIInv
<1>8. CASE UNCHANGED vars
  <2>1. UNCHANGED <<fwvars, spivars, counts>>
    BY <1>8 DEF vars
  <2>2. TypeOK'
    BY <2>1 DEF IInv, TypeOK, fwvars, spivars, counts
  <2>3. BufferOrdered' /\ QueueOrdered'
    BY <2>1 DEF IInv, BufferOrdered, QueueOrdered, fwvars, spivars, counts
  <2>4. HostNotified' /\ IsCoherent(ieq, Reports)' /\ (~up => ~buffer_full)'
    BY <2>1, Zenon DEF IInv, HostNotified, IsCoherent, SlotOf, fwvars
  <2>5. QED
    BY <2>2, <2>3, <2>4 DEF IInv
<1>9. QED
  BY <1>1, <1>2, <1>3, <1>4, <1>5, <1>6, <1>7, <1>8 DEF Next, Firmware, Master

\* NeverDeaf is inductive by itself, given the types.
LEMMA NextNeverDeaf == TypeOK /\ NeverDeaf /\ [Next]_vars => NeverDeaf'
<1> SUFFICES ASSUME TypeOK, NeverDeaf, [Next]_vars, up', set_errors' = 0
             PROVE  armed' \/ xfer'.is = "active" \/ xfer_done'
  BY DEF NeverDeaf
<1>0. set_errors \in Nat /\ (up => set_errors /= 0 \/ armed \/ xfer.is = "active" \/ xfer_done)
  BY SlaveBoundsAssumption DEF TypeOK, NeverDeaf
<1>1. CASE Boot
  BY <1>1 DEF Boot, spi_slave_buffers_set
<1>2. CASE ErrorReset
  BY <1>2 DEF ErrorReset, NVIC_SystemReset
<1>3. CASE on_ble_evt
  <2>1. up
    BY <1>3 DEF on_ble_evt
  <2>2. CASE UNCHANGED <<fwvars, spivars, resets, set_errors>>
    BY <1>0, <2>1, <2>2 DEF spivars
  <2>3. CASE UNCHANGED <<spivars, resets, set_errors>>
    BY <1>0, <2>1, <2>3 DEF spivars
  <2>4. CASE Offer(QueueAdd(ieq, adv_count + 1)) /\ UNCHANGED xfer
    BY <2>4 DEF Offer, spi_slave_buffers_set
  <2>5. CASE NVIC_SystemReset
    BY <2>5 DEF NVIC_SystemReset
  <2>6. QED
    BY <1>3, <2>2, <2>3, <2>4, <2>5 DEF on_ble_evt, interrupt_event_queue_add
<1>4. CASE spi_slave_event_handle
  <2>1. CASE Offer(ieq)
    BY <1>4, <2>1 DEF spi_slave_event_handle, Offer, spi_slave_buffers_set
  <2>2. CASE NothingToOffer
    <3>1. spi_slave_buffers_set
      BY <1>0, <2>2 DEF NothingToOffer, BuffersSetMayFail
    <3>2. QED
      BY <1>4, <3>1 DEF spi_slave_event_handle, spi_slave_buffers_set
  <2>3. QED
    BY <1>4, <2>1, <2>2 DEF spi_slave_event_handle
<1>5. CASE spi_slave_event_handle_error
  BY <1>5 DEF spi_slave_event_handle_error, NVIC_SystemReset
<1>6. ASSUME NEW c \in BcpCommands, XferBegin(c)
      PROVE  armed' \/ xfer'.is = "active" \/ xfer_done'
  <2>1. up /\ set_errors = 0 /\ xfer.is = "none" /\ xfer_done' = xfer_done
        /\ xfer'.is = IF armed THEN "active" ELSE "ignored"
    BY <1>6 DEF XferBegin, fwvars, counts
  <2>2. QED
    BY <1>0, <2>1
<1>7. ASSUME NEW resp, XferEnd(resp)
      PROVE  armed' \/ xfer'.is = "active" \/ xfer_done'
  <2>1. up /\ set_errors = 0 /\ armed' = armed
    BY <1>7 DEF XferEnd, counts
  <2>2. IF xfer.is = "active" THEN xfer_done' = TRUE ELSE xfer_done' = xfer_done
    BY <1>7 DEF XferEnd
  <2>3. QED
    BY <1>0, <2>1, <2>2
<1>8. CASE UNCHANGED vars
  BY <1>0, <1>8 DEF vars, fwvars, spivars, counts
<1>9. QED
  BY <1>1, <1>2, <1>3, <1>4, <1>5, <1>6, <1>7, <1>8 DEF Next, Firmware, Master

LEMMA Invariant == Spec => []IInv
  BY InitIInv, NextIInv, PTL DEF Spec

\* Every variable of main.c and bcp_spi_slave.c keeps its type and every index of
\* the event queue its range.
THEOREM TypeCorrect == Spec => []TypeOK
<1>1. IInv => TypeOK
  BY DEF IInv
<1>2. QED
  BY <1>1, Invariant, PTL

\* Whenever interrupt_event_queue.c holds an event, spi_tx_buf holds a report and
\* INTERRUPT_PIN is high: no event waits without the host having been told.
THEOREM Notified == Spec => []HostNotified
<1>1. IInv => HostNotified
  BY DEF IInv
<1>2. QED
  BY <1>1, Invariant, PTL

\* While spi_slave_buffers_set succeeds, the SPI slave has its buffers, is using
\* them, or is about to be given them by spi_slave_event_handle.
THEOREM AlwaysListening == Spec => []NeverDeaf
<1>1. Init => NeverDeaf
  BY DEF Init, NeverDeaf
<1>2. QED
  BY <1>1, TypeCorrect, NextNeverDeaf, PTL DEF Spec

\* Only the end of a transaction changes what the master read last, and then to a
\* report that is not older.
LEMMA LastGrows == IInv /\ [Next]_vars => last' >= last
<1> SUFFICES ASSUME IInv, [Next]_vars PROVE last' >= last
  OBVIOUS
<1>1. last \in Nat
  BY IInvFacts
<1>2. ASSUME NEW resp, XferEnd(resp), resp \in Reports
      PROVE  last' >= last
  BY <1>1, <1>2, ResponseOrder, WordFacts
<1>3. ASSUME NEW resp, XferEnd(resp), resp \notin Reports
      PROVE  last' >= last
  BY <1>1, <1>3 DEF XferEnd
<1>4. CASE last' = last
  BY <1>1, <1>4
<1>5. \/ last' = last
      \/ \E resp \in {Torn, NoReport} \cup Reports : XferEnd(resp)
  BY DEF Next, Firmware, Master, Boot, ErrorReset, on_ble_evt,
         interrupt_event_queue_add, spi_slave_event_handle,
         spi_slave_event_handle_error, NVIC_SystemReset, XferBegin, vars, spivars
<1>6. QED
  BY <1>2, <1>3, <1>4, <1>5

\* The master never reads an older advertisement report after a newer one, for
\* every queue length, over any number of dropped reports, re-reads and resets.
THEOREM ReadInOrder == Spec => InOrder
  BY LastGrows, Invariant, PTL DEF Spec, InOrder
=============================================================================

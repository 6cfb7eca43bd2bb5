# GAP: a TLA+ model of the gateway's radio link and tunnel

GAP is a cape for the BeagleBone with several low-power radios. This project
models the parts of the repository that carry its own logic: the nRF51822
firmware, the Linux drivers it talks to over SPI, and the two ends of the IPv6
tunnel. TLC checks small instances; TLAPS proves every safety property the runs check, and
the refinements between the modules, for every instance. Paths below are relative to the repository's root.

## The system

    advertisers --radio--> nRF51822 firmware ==SPI== Linux driver --chardev--> processes
                                      \--interrupt line--/   (gapspi: bus, chip selects)

    tunnel-client --TCP-- tunnel-server --TUN-- IPv6 network
                                ^-- client_assignments, written by the DHCPv6 server

| component | source | state | operations | module |
|---|---|---|---|---|
| interrupt event queue | `software/nrf51822/interrupt_event_queue.c` | ring of 4 slots, head, tail, count | add, get | `InterruptEventQueue`, `EventQueue`, `EventFifo` |
| SPI slave of the firmware | `software/nrf51822/bcp_spi_slave.c`, `bcp.h` | `spi_tx_buf`, `spi_rx_buf`, `buffer_full`, ownership of the buffers | notify, transaction handler | `BcpSlave`, bytes in `BcpFrame` |
| firmware main | `software/nrf51822/main.c` | `bcp_irq_advertisements`, interrupt pin, `m_memory_access_in_progress` | advertisement event, boot, error reset, start of scanning | `BcpSlave`, `BleScan` |
| driver | `software/driver/nrf51822/nrf51822.c` | `spi_pending`, one SPI message and its buffers, `buf_to_user`, wait queue | interrupt handler, ioctl, two completion callbacks, read, poll; probe, open, close, remove | `Nrf51822`; several radios and their life cycle in `Nrf51822Probe`; bytes in `BcpFrame` |
| the link | firmware and driver | the bus and the line | a transfer's begin and end | `BcpLink` |
| tunnel server | `gateway/tunnel/tunnel-server.c` | descriptors, `prefixes[]`, epoll's edges | the event loop, exit, start | `TunnelServer` |
| tunnel client | `gateway/tunnel/tunnel-client.c` | one socket, one TUN device | connect, reconnect, select loop | `TunnelClient` |
| gapspi | `software/driver/gapspi/gapspi.c` | demultiplexer pins, the master's transfer function, message state | submission, spliced transfer function, probe, remove | `GapSpi` |

How they interact. `on_ble_evt` adds a report to the queue; the add calls
`spi_slave_notify`, which may take an event out again, put it in `spi_tx_buf` and
raise the line. The rising edge runs the driver's interrupt handler, which claims
`spi_pending` and queues a transfer; the slave's handler at the end of the transfer
loads the next event or lowers the line; the driver's callback copies the response
to `buf_to_user`, releases the SPI, wakes readers and samples the line again. All
radios share one SPI master and one chip select; gapspi's function, spliced into the
master, sets a demultiplexer before each message goes out. The tunnel client carries
packets between its TUN device and one TCP connection, and reconnects when it fails. The
server learns a client's link-local address from the packets it sends, and its
delegated block from a file another program writes.

What is hard, and what makes each part correct:

* queue: three redundant variables, wrap-around, re-entrant use. *It is a FIFO.*
* firmware: the peripheral runs concurrently with the handlers, and an
  advertisement may be loaded in the middle of a transaction. *No event is
  stranded, the slave never goes deaf, reports stay in order.*
* driver: an edge-triggered interrupt that is skipped while the SPI is in use; a
  message set up outside the lock; a one-packet buffer read without a lock.
  *One user of the message at a time; no wake-up is lost, and no interrupt while
  submissions succeed.*
* gapspi: pins set one by one in the kernel's message pump, while several drivers
  submit, and while gapspi itself comes and goes. *A transfer selects its own radio,
  and none starves.*
* life cycle: interrupts, files, messages and callbacks outlive the steps of probe and
  remove that set them up or take them away. *Nothing meets memory that is not there
  yet, or no longer.*
* link: commands and interrupts cross; transactions hit a slave that has no
  buffers; the chip resets. *Order end to end, and the link drains.*
* scanning: a test and a store an interrupt may come between. *Scanning starts
  once, when allowed.*
* server: edge-triggered descriptors, descriptors that are reused at once, leaked
  descriptors, a file that changes. *An entry belongs to the connection on its
  descriptor; nothing unread is forgotten.*
* client: a socket that may fail in any call of a pass, with what select reported
  before a reconnect still to be used after it. *It comes back, leaks nothing, and is
  routed to on its new connection.*

## Modules

| module | role |
|---|---|
| `InterruptEventQueue` | the ring buffer as operators on a record; used by `EventQueue` and `BcpSlave` |
| `EventFifo` | abstract specification: a bounded FIFO |
| `EventQueue` | the ring buffer as a state machine, and its refinement of `EventFifo` |
| `InterruptEventQueueProofs` | lemmas: what add and get do to the queued events |
| `EventQueueProofs` | proofs about `EventQueue` |
| `BcpSlave` | the firmware against an arbitrary SPI master |
| `BcpSlaveProofs` | proofs about `BcpSlave` |
| `Nrf51822` | the driver against an arbitrary radio |
| `Nrf51822Proofs` | proofs about `Nrf51822` |
| `GapSpi` | the shared SPI bus: message pump, demultiplexer, gapspi's probe and remove |
| `GapSpiProofs` | proofs about `GapSpi` and `Nrf51822Probe` |
| `Nrf51822Probe` | several radios on `GapSpi`, from probe to unloading |
| `BcpLink` | `BcpSlave` and `Nrf51822` on one bus and one line |
| `BcpLinkProofs` | proofs about `BcpLink`, from those of its two sides |
| `BcpFrame` | the bytes of a report through the three buffers |
| `BleScan` | the start of scanning against flash operations |
| `FirmwareProofs` | proofs about `BcpFrame` and `BleScan` |
| `TunnelServer` | the server's event loop, its peers and the file |
| `TunnelClient` | the client, composed with `TunnelServer` |
| `TunnelProofs` | proofs about `TunnelServer` and `TunnelClient` |
| `MCTunnelServer` | the symmetry of the clients, for TLC |

### Correspondence with the code

**BcpSlave.** The BLE and the SPI event handler are interrupt handlers of the same
priority, so each is one action (`on_ble_evt`, `spi_slave_event_handle`), with
everything it calls. The SPIS peripheral is external, modelled from how the code
uses it: `XferBegin` takes the buffers if they are armed (else the transaction is
ignored), `XferEnd` returns `spi_tx_buf` as it was, as it is now, or a mixture
(`Torn`) if the CPU wrote to it meanwhile. `APP_ERROR_CHECK` and asserts end in
`NVIC_SystemReset`, which loses everything in RAM. A report is a number; `last`
and `unsent` are history variables.

**Nrf51822.** A section under `spi_spin_lock` is one step, all other code is cut at
every access to shared state. Contexts are the interrupt handler (`isr`), the
kernel's message pump, which also runs the callbacks (`pump`), and any number of
`Callers` (ioctl) and `Readers` (read). `Claim` and `Submit` are shared by
`nrf51822_read_irq` and `nrf51822_issue_simple_command`, whose bodies are the same
but for the command and the answer. Both callbacks have the same text and are one
sequence of steps: `Process`, `SetLen`, `Release`, `WakeUp`, `CheckIrq`. A packet's
length is identified with the packet, so that a length used with the bytes of
another packet shows. The SPI core is external: a transfer ends with some response,
or fails on the bus and leaves the previous one in the buffer.

**GapSpi.** A radio has one message, named like the radio, and is named by its index on
the demultiplexer. The pump is one thread: it takes a message, calls whatever function
the master has at that time (`transfer_one_message`), and runs the callback. Each turn
of the loop in `gapspi_cs_mux` is a step, and so is each pin `gapspi_spi_probe` requests.
The stores of probe (`gapspi.c:125`, `:127`) and of remove (`:136`, `:138`) are steps of their
own, since the pump and submissions run in between. `accepted` is a history variable: the
messages queued while gapspi's function is the master's, less those not yet taken when
`:136` restores the master's own.

**Nrf51822Probe.** Extends `GapSpi`. `nrf51822_probe` is cut where an interrupt may come
between: after `devm_request_irq`, after the index is read, after the initialisation.
Interrupts, ioctls and callbacks are reduced to claiming and releasing `spi_pending`
(`ReadIrq`, `Done`, `CheckIrq`). Where the kernel would oops, corrupt a list or use freed
memory, `oops` becomes true and everything stops; `faults` records what preceded it out of
order. The drivers are bound and unbound at most once (gapspi any number of times).

**BcpLink.** The two modules share `pin`; a rising edge written by the firmware is
latched in `irq`. Begin and end of a transfer are joint steps. That the
composition implements both parts (`SlaveSpec`, `DriverSpec`) means that what is
shown of each part alone, against an arbitrary other side, holds on the link.

**BcpFrame.** Bytes are tagged with the report they come from. Lengths are the
code's: 64, 128 and 256 byte buffers, 40 byte transfers.

**BleScan.** `scan_start` in `main` is cut between the read of the pending count
and its use; `on_sys_evt` runs in an interrupt and is atomic with respect to `main`.
When `sd_ble_gap_scan_start` fails the chip is reset and boots again (`ScanStartFails`).

**TunnelServer.** Each pass through one of the loops is one action; peers, TUN
device and file change in between. A client stands for its addresses, a block for
a /62. The kernel (descriptors, epoll's edges, TCP's end of connection) is external.
`Fds` are the descriptors left to the process; a leaked `FILE` occupies one for ever.
A write to a connection whose peer has gone provokes a reset. If the peer had closed
in order the next write raises SIGPIPE and ends the process; else it returns the error,
and the one after it raises SIGPIPE. It exits when it can open no descriptor for the
assignments, or there is no such file (which may be so before the first assignment), and
when a new connection cannot be set up (`AcceptExits`). A server that has exited may be
started again; that this fails is not modelled.

**TunnelClient.** Extends `TunnelServer` and replaces what that module lets its client do:
`Connect`, `Send` and `Leave` are taken only together with a step of the client. Each
system call that may block, fail or see news is a step; `at` is the call, `back` where
`main` goes on after a reconnect made in the middle of a pass. `rfds` keeps what select
reported, so that it may be stale when used. The connection may be reset or dropped by
the network, closed by the server, or lost with a server that exits; the client may be
killed at any time.

## Runs

Times are for two workers; all deadlocks are checked except in `BcpFrame` (the
bounded number of packets ends), `TunnelServer` and `TunnelClient` (the processes wait for
bounded input, or have exited) and `Nrf51822Probe` (the drivers are gone, or the kernel
has stopped).

| run | instance | states | shows |
|---|---|---|---|
| `event_queue` | length 4 (the code's), two events | 961 | `Coherent`: count, head and tail agree; `ImplementsFifo` |
| `bcp_slave` | length 4, six reports, one reset, one failing `spi_slave_buffers_set` | 57 thousand | `HostNotified`, `NeverDeaf`, `InOrder` |
| `driver` | one ioctl, one reader, one frame, one bus error, one failed submission | 195 thousand, 70 s | `SpiExclusive`, `NoLostInterrupt`, `NoLostWakeUp`, `LoneReaderGetsData`, `MessageKept`, and the liveness of the SPI, the line and the reader |
| `bcp_frame` | advertising data of 0, 1, 30 and 31 bytes, four packets | 2.3 thousand | `OwnBytesOnly`, `IntactIfItFits` |
| `bcp_link` | queue of 2, three reports, one reset, one ioctl | 295 thousand, 2 min | `SlaveSpec`, `DriverSpec`, `InOrderToUser`, `Drains`, `ArmedSniffTakesEffect` |
| `ble_scan` | up to ten flash operations, three retries, two failures of `sd_ble_gap_scan_start` | 942 | `StartedOnceWhenIdle`, `PostponedScanStarts` |
| `radios` | two radios on two pins | 609 thousand, 2 min | `SelectedWhileOnBus`, `OwnRadioOnly`, `StaysUp`, `MessageServed`; `BusSpec`: the radios use the bus as `GapSpi` allows |
| `tunnel_server` | two clients (symmetric), two descriptors, two connections, up to three inputs out of two packets sent, two from the TUN device and two assignments, one failure to set up a connection | 1.7 million, 1 min | `EntryOfConnection`, `RoutesToOwner`, `NothingForgotten` |
| `tunnel_client` | one client, two descriptors in the server, three connections, up to three inputs, one fault | 327 thousand, 2 min | `OneSocket`, `Reconnects`, `RoutedToConnection`, `CloseNoticed`; `ServerSpec`: the client is a peer `TunnelServer` allows, so what `tunnel_server` shows holds with it |
| `bcp_slave_keeps`, `driver_race`, `tunnel_server_reset` | | | violations, see below |

Why the bounds are enough. Six reports fill the buffer and the queue of four and
then overflow it; with a queue of two, three reports do the same on the link. One
reader meets every step of the callbacks; further readers only compete for the
packet, further ioctls for `spi_pending`, and `Nrf51822Proofs` covers any number of
both. Two clients, two connections and two descriptors let a descriptor pass from
one client to another, or to the leaked file, and run out; three inputs are what it
takes to learn an address, assign a block and route to it, and two assignments move a
block; with two packets from the TUN
device the server reaches SIGPIPE, a restart, and the table that is empty again.
Three connections let the client lose one to a fault and one to a server that exits.
Two radios on two pins have indices that differ in both pins, and with the index 0 of a
radio not yet configured all kinds of overlap; the third radio of the board only lengthens
the queue, and `GapSpiProofs` covers any number. The other proofs do the same for queue
lengths, clients, connections, descriptors and sizes. Reports of 0 and 31 bytes are the
ends of the range, 30 the longest whose frame fits the transfer.

### Fairness

* `Nrf51822`: weak fairness of the interrupt handler, of each context's next step,
  of the transfer and of a read under way. The kernel runs pending interrupts,
  runnable threads and queued messages. Nothing is assumed of the radio, of
  processes that call the driver, or of signals.
* `BcpLink`: the same, and weak fairness of the firmware's boot and of its SPI
  handler, which the interrupt controller runs once raised. Nothing is assumed of
  advertisers, resets or errors; the bound on advertisements is "advertisements
  stop" in `Drains`.
* `BleScan`: `main` runs, and a pending flash operation ends after a bounded number
  of retries.
* `TunnelServer`: weak fairness of the server process as a whole, not of single
  events; clients and network owe nothing.
* `Nrf51822Probe`: weak fairness of the message pump, a kernel thread. Nothing is
  assumed of interrupts, processes, probe or remove.
* `TunnelClient`: weak fairness of the client process, of the server process together
  with being started again after an exit, and of TCP, which reports a connection the
  other side no longer has, or whose data is not acknowledged. Nothing is assumed of
  the network otherwise, of packets, or of a killed client being started again.

## Proofs

Eight modules hold theorems; every leaf is checked by TLAPS with SMT, Zenon or LS4. Each
inductive invariant was also checked by TLC on the instance of its module's run.

**InterruptEventQueueProofs**, for every length at least 1 (`QueueLenAssumption`). `WrapMod`
replaces remainders by a case distinction (sums of an index and a count go at most once
around the ring); `AddAppends` and `GetTakesHead` say what add and get do to `Contents`, the
sequence of queued events, of any coherent queue record. They are stated of records since
an add that calls `spi_slave_notify` passes through a queue no state holds.

**EventQueueProofs**, also for every set of events (`EventsAssumption`). The inductive
invariant is `TypeOK /\ Coherent`: without `Coherent`, head may point into the queued part
and an add would overwrite an event. Theorems: `TypeCorrect`, `CoherentAlways`, and
`Refinement`, which is `Spec => ImplementsFifo` with `Contents` as the refinement mapping.

**BcpSlaveProofs**, for every queue length and any number of reports, resets and failures
(`SlaveBoundsAssumption`). `InOrder` compares two reports that may be many steps apart, so
the inductive invariant orders all the places a report may be in between: the queue is
strictly increasing and newer than `spi_tx_buf` and than `last` (`QueueOrdered`), and
`spi_tx_buf` and the transaction on the bus are not older than `last` (`BufferOrdered`).
After a reset the queue is empty, and `adv_count` bounds everything read before. Theorems:
`TypeCorrect`, `Notified` (`HostNotified`), `AlwaysListening` (`NeverDeaf`), which is inductive
with the types alone, and `ReadInOrder` (`InOrder`).

**Nrf51822Proofs**, for any number of callers, readers, frames, commands and errors,
from `DriverAssumption`. The inductive invariant `IInv` adds two parts to the
properties. `SpiInv` says why `spi_pending` works as a lock: whoever is past its
claim holds it, is alone there, and sees neither a message under way nor a callback
before its release. `ActiveAlone` says that the pump does not start a transfer inside
a callback; it is needed since the callback itself submits (through
`nrf51822_check_irq`) after it has released the lock. `NoLostInterrupt` says that while the
line is high an interrupt is pending or somebody is in a place from which it samples the
line, until a submission fails. It follows from `EdgeInv`, the same with `spi_pending` for
the claim, and `ClaimInv`: until a submission fails, whoever set `spi_pending` is still on
the way to its release. `NoLostWakeUp` is inductive relative to these. `LoneInv` adds that a callback stores no
length of 0 and that a lone reader which has seen a length still finds one. Each step
lemma has one case per action. Theorems: `Inductive`, `TypeCorrect`, `Exclusive`
(`SpiExclusive`), `InterruptsKept` (`NoLostInterrupt`), `WakeUpsKept` (`NoLostWakeUp`),
`CommandKept` (the action property `MessageKept`) and `LoneReaders` (`LoneReaderGetsData`).

**BcpLinkProofs**, from `LinkAssumption` (the assumptions of both sides, and that user space
issues the commands of `bcp.h`). The module instantiates the two proof modules, so their
lemmas are used on the link instead of being proved again. Every step of the link is a
step of `BcpSlave` and of `Nrf51822`, or changes nothing there: the driver's command must
be one the slave's master may send (`CommandSet`: the message is not queued before its
command is set), the slave's response one the driver's radio may give (from the slave's
types). This gives `SlaveSide` and `DriverSide` (`SlaveSpec`, `DriverSpec`), and
`LinkKeepsPromises`: `HostNotified`, `NeverDeaf`, `SpiExclusive`, `NoLostInterrupt` and
`NoLostWakeUp` hold on the link, with the premises they have there. `UserInOrder` (`InOrderToUser`) adds `SeenInv`: what the driver
holds is between what it has delivered and what the slave has clocked out last, which
never grows older; a callback after a failed transfer finds the previous response, which
is not older than what was delivered.

**GapSpiProofs**, for any number of radios and pins, from `GapSpiAssumption`, and for
`OwnRadioOnly` from `DemuxAssumption`: the radios' indices differ in the bits the
demultiplexer has pins for. The inductive invariant of the bus adds to the types `BoundInv`
(once the master has its own function again, only the message the pump has taken is still
in `accepted`; while a probe requests pins there is none, and no device to submit to) and `MuxInv` (for an accepted message the first `i`
pins are set while the loop is at `i`, all of them during the transfer). Without `BoundInv`
a probe could lower a pin under a transfer. That of the radios, `ProbeInv`, adds `OnceInv`
(a message is queued once, and not while it is on the bus), `LifeInv` (which of interrupts,
character devices and files go with which progress of probe and remove), `EarlyInv` (without
an early interrupt only ready radios use the bus, with their own index) and `QuietInv`
(without faults memory and code are there, and `spi_pending` covers every message).
Theorems: `Inductive`, `TypeCorrect`, `SelectsOwnDevice` of the bus; `DriverImplementsBus`
(`BusSpec`), by which `SelectedWhileOnBus` holds for the radios (`DriverSelectsDevice`),
`DriverTypes` (`TypeOK`), `DriverStaysUp` (`StaysUp`) and `TransfersSelectOwnRadio`
(`OwnRadioOnly`).

**FirmwareProofs.** For `BcpFrame`, for all buffer and transfer sizes that satisfy
`FrameAssumption`: `FrameInv` says that `spi_tx_buf` holds a frame of 10 to 41 bytes of the
last report, and what of it the last transfer left in `spi_data_buffer`, whose bytes past
the transfer were never written; hence no callback copies an old byte, although nothing is
cleared. Theorems: `BytesAreOwn` (`OwnBytesOnly`), `FramesArriveIntact` (`IntactIfItFits`). For
`BleScan`, for any number of flash operations: `ScanInv` says that nothing is started or
postponed before `main` has decided, and that the count it read can only have fallen since.
Theorem: `ScanStartsOnce` (`StartedOnceWhenIdle`).

**TunnelProofs**, for any clients, blocks, finite set of descriptors, size of `prefixes[]` and
bounds, from `ServerAssumption`, `NoneAssumption` (the mark of an empty entry is no address) and
`ClientAssumption`. `ServerInv` adds to `TypeOK`, `EntryOfConnection` and `NothingForgotten`
`ConnsOK` (connections are numbered as they are made, a client's is open and its own),
`BlocksOK` (a block stands next to the client it was once assigned to) and `EventsOK` (epoll
reports a connection in one event at a time; an error is reported only of a connection that
stays dead, so that skipping it forgets nothing new). `ClientInv` says where in the loop what
select reported still holds, and that `tcp_socket` is the only socket. Theorems:
`ServerTypes`, `EntriesOfConnections`, `RoutedToOwner`, `EdgesDrained` (`TypeOK`,
`EntryOfConnection`, `RoutesToOwner`, `NothingForgotten`); `LinkImplementsServer`
(`ServerSpec`), `LinkTypes`, `OnlySocket` (`OneSocket`), and `LinkKeepsPromises`, which
carries the server's properties to the composition.

Only model-checked: the liveness properties (`SpiReleased`, `InterruptServed`, `ReaderRuns`,
`Drains`, `ArmedSniffTakesEffect`, `PostponedScanStarts`, `MessageServed`, `Reconnects`,
`RoutedToConnection`, `CloseNoticed`), since fairness and ENABLED are out of TLAPS's reach.
The three violations are TLC's counterexamples.

## Where code and comments part

Shown by a run:

* `bcp_slave_keeps` (`bcp_spi_slave.c:91`): a report loaded while a transaction is on
  the bus is overwritten or withdrawn by that transaction's handler, unsent. One that was
  withdrawn stays in the buffer and is read only if a command happens to come first.
* `driver_race` (`nrf51822.c:61`): `buf_to_user_len` is read three times without a lock;
  a packet that arrives between the copy and the reset is dropped and its length
  returned with the bytes of the previous one. The reverse happens too: the second
  packet's bytes with the first one's length, when its `memcpy` precedes the copy.
* `tunnel_server_reset` (`tunnel-server.c:516`): an event with `EPOLLERR` or `EPOLLHUP` is
  skipped; descriptor and entry stay, and shadow the client's next connection.

Part of the model, with properties worded so that they hold in spite of it:

* When the last flash operation ends between the test and the store in `scan_start`
  (`main.c:773`), its event finds the flag false and scanning never starts ("delay
  starting scanning until it's complete", `main.c:766`); hence `pending > 0` in
  `PostponedScanStarts`.
* "Make sure that gapspi.ko is loaded first" (`nrf51822.c:407`): the request waits neither
  for gapspi's probe nor looks at its result. A message submitted before, or after gapspi
  was unbound, follows a NULL pointer (`gapspi_unbound`).
* An interrupt between `nrf51822.c:445` and `:466` is sent to index 0, may have its
  `spi_pending` cleared under it and be submitted twice, or wake a wait queue that is
  zero (`early_irq`). A probe that fails frees the radios with interrupts requested and
  character devices registered (`:519`, `probe_failed`); remove frees nothing. Unloading
  does not wait for a message (`unloaded_busy`). Hence `faults` in `StaysUp` and
  `OwnRadioOnly`.
* gapspi's removal restores the master's function first (`gapspi.c:136`) and clears the
  device after it (`:138`). A message queued at the first store, or submitted between the
  two, goes out with the pins as they are, to whichever radio the previous message
  selected ("setting the CS MUX before the message goes out", `gapspi.c:71`); hence
  `accepted` in `SelectedWhileOnBus` and `OwnRadioOnly`.
* "Assign an address so that the tunnel server knows our link local address"
  (`tunnel-client.c:232`): after the first time the address is there already, and nothing is
  announced on the new connection; hence the first packet in `RoutedToConnection`. An
  entry of an earlier connection that was reset or dropped still shadows the new one.
* `send` on a connection that the server closed and then reset raises SIGPIPE and ends
  the client (`tunnel-client.c:392`); hence `at = "dead"` in `Reconnects`.
* With an empty queue the SPI buffers are re-armed with the old report in them
  (`bcp_spi_slave.c:118`), and the driver samples the line before the delay that lets
  the firmware lower it (`nrf51822.c:177`): together they deliver a report twice. It is
  never delivered after a newer one (`InOrderToUser`).
* A command sent while the slave has no buffers is lost, though the ioctl answers 0
  (`nrf51822.c:383`); `ArmedSniffTakesEffect` covers the other case.
* The STOP command of the driver's `bcp.h:7` is unknown to the firmware
  (`bcp_spi_slave.c:79`); see `Sniffing`.
* When `gap_spi_async` fails, its result is unused and `spi_pending` stays set for
  good (`nrf51822.c:282`, `:383`): interrupts are skipped from then on and nobody makes up
  for them. Hence `submit_errors` in `NoLostInterrupt`, `SpiReleased` and `InterruptServed`,
  and `MaxSubmitErrors = 0` in the run of `Drains`.
* A frame of 41 bytes does not fit the transfer of 40, "the maximum length"
  (`nrf51822.c:269`, `:272`), and "skip it" of an invalid first byte
  (`nrf51822.c:214`) changes the length but not the start of the copy (`:219`); hence
  the premise of `IntactIfItFits`.
* The result of `spi_slave_buffers_set` is unchecked in one place
  (`bcp_spi_slave.c:118`); hence the premise of `NeverDeaf`.
* The assignments file is read only when no entry matches (`tunnel-server.c:635`), so a
  block that moves stays with its former owner ("allow pd to be updated", `:224`);
  hence "was once assigned" in `RoutesToOwner`.
* Packets read from a connection at once are written to the TUN device as one
  (`tunnel-server.c:586`); `close` is given a `FILE *` and leaks a descriptor per
  unmatched packet (`:247`); an entry past the end of `prefixes[]` is reset without a
  bound (`:759`); `SO_KEEPALIVE`, announced at `:400`, is never set, so a peer that goes
  silently is noticed only when something is written to it.

## Not modelled

The driver's `write` and debug ioctl (they change nothing but the log); binding the
driver a second time without unloading it; the firmware's device manager callbacks and
`adv_report_parse` (commented out, or never called); set-up of the TUN devices, of sysctls
and of the listening socket with the exits it may end in, errors of the TUN devices, packets split across reads, and reads of up to 4906 bytes into a buffer of 4096
(`tunnel-client.c:381`; the interface's MTU is smaller); `eepromflasher.c`, the raw packet
listeners under `linux/`, the example client `get_adv.c`, LEDs, debug macros, hardware
files. `PROJECT.json` gives the reason for each.

## Plan

Every safety property of a passing run is a theorem. What would say more:

1. On the link, `LoneReaderGetsData` and `MessageKept` by `DriverSide`.
2. The safety half of the liveness properties: that a claimed SPI always has somebody whose
   next step brings its release nearer (`SpiReleased`), and likewise for a raised line.

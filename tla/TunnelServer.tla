---------------------------- MODULE TunnelServer ----------------------------
(***************************************************************************)
(* gateway/tunnel/tunnel-server.c: one process that shuttles IPv6 packets  *)
(* between a TUN device and the TCP connections of its clients.  It keeps  *)
(* one routing entry per file descriptor (prefixes[]), learns a client's   *)
(* link-local address from the packets it sends, and the /62 delegated to  *)
(* a client from the file of the DHCPv6 server.                            *)
(*                                                                         *)
(* Every pass through one of the program's loops is one action: returning  *)
(* from epoll_wait, taking the next event, one accept, one read with all   *)
(* that is done with the data.  The peers, the TUN device and the file     *)
(* change between any two of them.  Descriptors are edge triggered:        *)
(* `ready' holds those with news that epoll_wait has not yet reported.     *)
(*                                                                         *)
(* A client stands for its link-local address (and the interface id of its *)
(* global one), a block for a /62.  A packet from a client is "ll" if its  *)
(* source is link local, else "global".  Packets end where reads do,       *)
(* unless several are read at once.                                        *)
(***************************************************************************)
EXTENDS Integers, Sequences, FiniteSets, FiniteSetsExt

CONSTANTS Clients, Blocks,
          Fds,             \* descriptors left for connections and files
          PREFIXES,        \* length of prefixes[] (512)
          MaxConns,        \* bound: connections made
          MaxSends,        \* bound: packets sent by clients
          MaxTun,          \* bound: packets from the TUN device
          MaxAssigns,      \* bound: changes of the assignments file
          MaxInputs,       \* bound: the last three together
          MaxExits         \* bound: accepted connections that make the server exit

ASSUME ServerAssumption ==
  /\ Fds \subseteq Nat /\ IsFiniteSet(Fds) /\ PREFIXES \in Nat
  /\ \A n \in {MaxConns, MaxSends, MaxTun, MaxAssigns, MaxInputs, MaxExits} : n \in Nat
  /\ Clients \cap Blocks = {}

None     == "none"
Free     == 0
File     == -1          \* the leaked descriptor of client_assignments
Conns    == 1 .. MaxConns
NoFd     == -1
sfd      == -2         \* the listening socket
tun_file == -3
Watched  == {sfd, tun_file} \cup Fds
Dests    == Clients \cup Blocks    \* an address not learned stands for any other

ASSUME NoneAssumption == None \notin Dests

VARIABLES
  sock,        \* each connection: peer, state, unread packets, written after end
  backlog,     \* connections not yet accepted
  client,      \* each client: its connection, 0 if it has none
  tunq,        \* packets (their destinations) to be read from the TUN device
  assignments, \* /etc/dibbler/client_assignments
  fdtab,       \* what each descriptor is
  prefixes,    \* addr_ll and addr_pd of each descriptor, None if plen is 0
  ready,       \* edges epoll_wait has not reported
  batch,       \* events reported and not yet handled; bad: EPOLLERR or EPOLLHUP
  cur,         \* the descriptor of the event being handled
  running,     \* the process has not exited
  counts,      \* for the bounds
  ever,        \* history: every assignment the file ever held
  accept_failed    \* history: an accept that failed

env    == <<sock, backlog, client, tunq, assignments, counts, ever>>
loop   == <<batch, cur, running>>
server == <<fdtab, prefixes, loop, accept_failed>>
vars   == <<env, ready, server>>

\* The state in which main enters its event loop.
Init ==
  /\ sock = [k \in Conns |-> [peer |-> None, st |-> "unused", inq |-> << >>,
                              poked |-> FALSE]]
  /\ backlog = << >> /\ client = [c \in Clients |-> 0]
  /\ tunq = << >> /\ assignments = [c \in Clients |-> None]
  /\ fdtab = [j \in Fds |-> Free]
  /\ prefixes = [j \in Fds |-> [ll |-> None, pd |-> None]]
  /\ ready = {} /\ batch = {} /\ cur = NoFd /\ running = TRUE
  /\ counts = [conns |-> 0, sends |-> 0, tun |-> 0, assigns |-> 0, exits |-> 0]
  /\ ever = {} /\ accept_failed = FALSE

Dead(k)   == sock[k].st \in {"reset", "broken"}
FdOf(k)   == {j \in Fds : fdtab[j] = k}
FreeFds   == {j \in Fds : fdtab[j] = Free}
MoreInput == counts.sends + counts.tun + counts.assigns < MaxInputs
Entries   == {j \in Fds : j < PREFIXES}
-----------------------------------------------------------------------------
\* The clients and the network.  connect() of tunnel-client: the old socket is
\* closed before a new connection is made.
Connect(c) ==
  LET k == counts.conns + 1
  IN  /\ running /\ client[c] = 0 /\ k \in Conns
      /\ sock' = [sock EXCEPT ![k].peer = c, ![k].st = "open"]
      /\ backlog' = Append(backlog, k)
      /\ client' = [client EXCEPT ![c] = k]
      /\ counts' = [counts EXCEPT !.conns = k]
      /\ ready' = ready \cup {sfd}
      /\ UNCHANGED <<tunq, assignments, ever, server>>

Send(c, p) ==
  /\ client[c] /= 0 /\ counts.sends < MaxSends /\ MoreInput
  /\ sock' = [sock EXCEPT ![client[c]].inq = Append(@, p)]
  /\ counts' = [counts EXCEPT !.sends = @ + 1]
  /\ ready' = ready \cup FdOf(client[c])
  /\ UNCHANGED <<backlog, client, tunq, assignments, ever, server>>

\* The connection is closed in order, or reset, or its peer is gone without a word.
Leave(c, how) ==
  /\ client[c] /= 0
  /\ sock' = [sock EXCEPT ![client[c]].st = how]
  /\ client' = [client EXCEPT ![c] = 0]
  /\ ready' = IF how = "gone" THEN ready ELSE ready \cup FdOf(client[c])
  /\ UNCHANGED <<backlog, tunq, assignments, counts, ever, server>>

\* The answer to data written after the peer's end of the connection.  Linux answers
\* a write with EPIPE and SIGPIPE if the connection was closed before the reset, with
\* ECONNRESET once if it was not.
ResetArrives(k) ==
  /\ sock[k].st \in {"eof", "gone"} /\ sock[k].poked
  /\ sock' = [sock EXCEPT ![k].st = IF @ = "eof" THEN "broken" ELSE "reset"]
  /\ ready' = ready \cup FdOf(k)
  /\ UNCHANGED <<backlog, client, tunq, assignments, counts, ever, server>>

TunPacket(dst) ==
  /\ counts.tun < MaxTun /\ MoreInput
  /\ tunq' = Append(tunq, dst)
  /\ counts' = [counts EXCEPT !.tun = @ + 1]
  /\ ready' = ready \cup {tun_file}
  /\ UNCHANGED <<sock, backlog, client, assignments, ever, server>>

\* The DHCPv6 server delegates block b to c, taking it from whoever had it.
Assign(c, b) ==
  /\ counts.assigns < MaxAssigns /\ MoreInput
  /\ assignments' = [d \in Clients |-> IF d = c THEN b
                       ELSE IF assignments[d] = b THEN None ELSE assignments[d]]
  /\ ever' = ever \cup {<<c, b>>}
  /\ counts' = [counts EXCEPT !.assigns = @ + 1]
  /\ UNCHANGED <<sock, backlog, client, tunq, ready, server>>

\* The server has exited and is started again: main up to its event loop.  What the
\* kernel had queued for the old process is lost.
Restart ==
  /\ ~running
  /\ running' = TRUE /\ cur' = NoFd /\ batch' = {} /\ accept_failed' = FALSE
  /\ fdtab' = [j \in Fds |-> Free]
  /\ prefixes' = [j \in Fds |-> [ll |-> None, pd |-> None]]
  /\ backlog' = << >> /\ tunq' = << >> /\ ready' = {}
  /\ UNCHANGED <<sock, client, assignments, counts, ever>>
-----------------------------------------------------------------------------
\* epoll_wait returns what is ready, with the state of each descriptor as of now.
EpollWait ==
  /\ running /\ cur = NoFd /\ batch = {} /\ ready /= {}
  /\ batch' = {[fd |-> f, bad |-> f \in Fds /\ Dead(fdtab[f])] : f \in ready}
  /\ ready' = {}
  /\ UNCHANGED <<env, fdtab, prefixes, cur, running, accept_failed>>

\* An event with EPOLLERR or EPOLLHUP: the program goes on to the next one.
EpollError(e) ==
  /\ running /\ cur = NoFd /\ e \in batch /\ e.bad
  /\ batch' = batch \ {e}
  /\ UNCHANGED <<env, ready, fdtab, prefixes, cur, running, accept_failed>>

StartEvent(e) ==
  /\ running /\ cur = NoFd /\ e \in batch /\ ~e.bad
  /\ batch' = batch \ {e}
  /\ cur' = e.fd
  /\ UNCHANGED <<env, ready, fdtab, prefixes, running, accept_failed>>

\* One accept: EAGAIN or another error ends the loop; a connection is added to
\* epoll, which reports at once what has already happened on it.
Accept ==
  /\ running /\ cur = sfd
  /\ \/ /\ backlog = << >> \/ FreeFds = {}
        /\ cur' = NoFd
        /\ accept_failed' = (accept_failed \/ backlog /= << >>)
        /\ UNCHANGED <<backlog, fdtab, ready>>
     \/ /\ backlog /= << >> /\ FreeFds /= {}
        /\ LET k == Head(backlog)
               j == Min(FreeFds)
           IN  /\ fdtab' = [fdtab EXCEPT ![j] = k]
               /\ ready' = IF sock[k].inq /= << >> \/ sock[k].st \notin {"open", "gone"}
                           THEN ready \cup {j} ELSE ready
        /\ backlog' = Tail(backlog)
        /\ UNCHANGED <<cur, accept_failed>>
  /\ UNCHANGED <<sock, client, tunq, assignments, counts, ever, prefixes, batch,
                 running>>

\* make_nonblocking or epoll_ctl fails for the new connection: exit(1).
AcceptExits ==
  /\ running /\ cur = sfd /\ backlog /= << >> /\ FreeFds /= {}
  /\ counts.exits < MaxExits
  /\ counts' = [counts EXCEPT !.exits = @ + 1]
  /\ running' = FALSE
  /\ UNCHANGED <<sock, backlog, client, tunq, assignments, ever, ready, fdtab, prefixes,
                 batch, cur, accept_failed>>

\* Mutant of Learn: the destination address is saved.
LearnDestination(j, p) ==
  IF j \in Entries /\ prefixes[j].ll = None /\ p = "ll"
  THEN [prefixes EXCEPT ![j].ll = "elsewhere"]
  ELSE prefixes

\* Mutant of Learn: the test for link-local sources is negated.
LearnFromGlobal(j, p) ==
  IF j \in Entries /\ prefixes[j].ll = None /\ p /= "ll"
  THEN [prefixes EXCEPT ![j].ll = sock[fdtab[j]].peer]
  ELSE prefixes

\* The entry of descriptor j after its client sent p.
Learn(j, p) ==
  IF j \in Entries /\ prefixes[j].ll = None /\ p = "ll"
  THEN [prefixes EXCEPT ![j].ll = sock[fdtab[j]].peer]
  ELSE prefixes

\* Mutant of ReadTcp: one read per event.
ReadTcpOnce(j, n) ==
  /\ running /\ cur = j
  /\ LET k == fdtab[j]
     IN  /\ n \in 1 .. Len(sock[k].inq)
         /\ prefixes' = Learn(j, Head(sock[k].inq))
         /\ sock' = [sock EXCEPT ![k].inq = SubSeq(@, n + 1, Len(@))]
  /\ cur' = NoFd
  /\ UNCHANGED <<backlog, client, tunq, assignments, counts, ever, ready, fdtab, batch,
                 running, accept_failed>>

\* A read from connection fdtab[j] returns the first n packets waiting there.  The
\* first header is inspected; everything goes to the TUN device in one write, where
\* only the first packet counts.
ReadTcp(j, n) ==
  /\ running /\ cur = j
  /\ LET k == fdtab[j]
     IN  /\ n \in 1 .. Len(sock[k].inq)
         /\ prefixes' = Learn(j, Head(sock[k].inq))
         /\ sock' = [sock EXCEPT ![k].inq = SubSeq(@, n + 1, Len(@))]
  /\ UNCHANGED <<backlog, client, tunq, assignments, counts, ever, ready, fdtab, loop,
                 accept_failed>>

\* EAGAIN: everything has been read.
ReadNothing(j) ==
  /\ running /\ cur = j
  /\ sock[fdtab[j]].inq = << >> /\ sock[fdtab[j]].st \in {"open", "gone"}
  /\ cur' = NoFd
  /\ UNCHANGED <<env, ready, fdtab, prefixes, batch, running, accept_failed>>

\* Mutants of Forget: plen_ll or plen_pd is not reset.
ForgetOnlyPd(j) == [prefixes EXCEPT ![j].pd = None]
ForgetOnlyLl(j) == [prefixes EXCEPT ![j].ll = None]

\* plen_ll = plen_pd = 0.  For a descriptor past the end of prefixes[] the two
\* stores hit other variables of main; no entry changes.
Forget(j) == IF j \in Entries THEN [prefixes EXCEPT ![j] = [ll |-> None, pd |-> None]]
             ELSE prefixes

\* Mutant of ReadEnd: the end of file is not taken for the end.
ReadEndIgnored(j) ==
  /\ running /\ cur = j
  /\ sock[fdtab[j]].inq = << >> /\ sock[fdtab[j]].st \notin {"open", "gone"}
  /\ cur' = NoFd
  /\ UNCHANGED <<env, ready, fdtab, prefixes, batch, running, accept_failed>>

\* End of file or an error: the descriptor is closed, its entry forgotten.
ReadEnd(j) ==
  /\ running /\ cur = j
  /\ sock[fdtab[j]].inq = << >> /\ sock[fdtab[j]].st \notin {"open", "gone"}
  /\ fdtab' = [fdtab EXCEPT ![j] = Free]
  /\ prefixes' = Forget(j)
  /\ ready' = ready \ {j}
  /\ cur' = NoFd
  /\ UNCHANGED <<env, batch, running, accept_failed>>
-----------------------------------------------------------------------------
\* The descriptors a packet for dst matches: the loops stop at the first.
Matches(pp, dst) == {j \in Entries : pp[j].pd = dst \/ pp[j].ll = dst}

\* parse_prefixes: for each line of the file, the first entry with that link-local
\* address gets the block.
ParsePrefixes ==
  [j \in Fds |->
     LET c == prefixes[j].ll
     IN  IF /\ j \in Entries /\ c /= None
            /\ \A i \in Entries : i < j => prefixes[i].ll /= c
            /\ assignments[c] /= None
         THEN [ll |-> c, pd |-> assignments[c]]
         ELSE prefixes[j]]

\* write(j, buf, count); its result is not used.  After the peer's end it provokes a
\* reset; a write to a reset connection returns the error or raises SIGPIPE.
Write(j) ==
  LET k == fdtab[j]
  IN  /\ sock' = [sock EXCEPT ![k].poked = @ \/ sock[k].st /= "open",
                              ![k].st = IF @ = "reset" THEN "broken" ELSE @]
      /\ running' = (sock[k].st /= "broken")

\* The first entry that matches gets the packet; none, and it is dropped.
Route(pp, dst) ==
  IF Matches(pp, dst) /= {}
  THEN Write(Min(Matches(pp, dst)))
  ELSE UNCHANGED <<sock, running>>

\* The packet read from the TUN device has destination dst.  If it is in the
\* server's /52 and no entry matches, the assignments are read, for which a
\* descriptor is opened that is never closed (close is given the FILE *).  Without a
\* descriptor, or without the file, which may not be there before the first
\* assignment, the server exits.
Forward(dst) ==
  \/ /\ dst \notin Blocks \/ Matches(prefixes, dst) /= {}
     /\ Route(prefixes, dst)
     /\ UNCHANGED <<prefixes, fdtab>>
  \/ /\ dst \in Blocks /\ Matches(prefixes, dst) = {}
     /\ FreeFds = {} \/ ever = {}
     /\ running' = FALSE
     /\ UNCHANGED <<sock, prefixes, fdtab>>
  \/ /\ dst \in Blocks /\ Matches(prefixes, dst) = {}
     /\ FreeFds /= {}
     /\ prefixes' = ParsePrefixes
     /\ fdtab' = [fdtab EXCEPT ![Min(FreeFds)] = File]
     /\ Route(ParsePrefixes, dst)

ReadTun ==
  /\ running /\ cur = tun_file /\ tunq /= << >>
  /\ Forward(Head(tunq))
  /\ tunq' = Tail(tunq)
  /\ UNCHANGED <<backlog, client, assignments, counts, ever, ready, batch, cur, accept_failed>>

ReadTunNothing ==
  /\ running /\ cur = tun_file /\ tunq = << >>
  /\ cur' = NoFd
  /\ UNCHANGED <<env, ready, fdtab, prefixes, batch, running, accept_failed>>
-----------------------------------------------------------------------------
Server ==
  \/ EpollWait
  \/ \E e \in batch : EpollError(e) \/ StartEvent(e)
  \/ Accept \/ AcceptExits
  \/ \E j \in Fds : ReadNothing(j) \/ ReadEnd(j) \/ \E n \in 1 .. MaxSends : ReadTcp(j, n)
  \/ ReadTun \/ ReadTunNothing

World ==
  \/ \E c \in Clients : \/ Connect(c)
                        \/ \E p \in {"ll", "global"} : Send(c, p)
                        \/ \E how \in {"eof", "reset", "gone"} : Leave(c, how)
                        \/ \E b \in Blocks : Assign(c, b)
  \/ \E k \in Conns : ResetArrives(k)
  \/ \E dst \in Dests : TunPacket(dst)
  \/ Restart

Next == Server \/ World

Spec     == Init /\ [][Next]_vars
FairSpec == Spec /\ WF_vars(Server)
-----------------------------------------------------------------------------
\* Type invariant.
TypeOK ==
  /\ \A k \in Conns :
       /\ sock[k].peer \in Clients \cup {None}
       /\ sock[k].st \in {"unused", "open", "eof", "gone", "reset", "broken"}
       /\ sock[k].inq \in Seq({"ll", "global"}) /\ sock[k].poked \in BOOLEAN
  /\ backlog \in Seq(Conns) /\ client \in [Clients -> {0} \cup Conns]
  /\ tunq \in Seq(Dests) /\ assignments \in [Clients -> Blocks \cup {None}]
  /\ fdtab \in [Fds -> Conns \cup {Free, File}]
  /\ prefixes \in [Fds -> [ll : Clients \cup {None}, pd : Blocks \cup {None}]]
  /\ ready \subseteq Watched /\ batch \subseteq [fd : Watched, bad : BOOLEAN]
  /\ cur \in Watched \cup {NoFd} /\ running \in BOOLEAN
  /\ ever \subseteq Clients \X Blocks /\ accept_failed \in BOOLEAN

\* An address in prefixes[] was learned on the connection that uses the descriptor
\* now, never on an earlier one: descriptors are reused at once, by accept and by
\* fopen, while entries are reset in one place only.
EntryOfConnection ==
  \A j \in Fds : prefixes[j].ll /= None =>
    fdtab[j] \in Conns /\ prefixes[j].ll = sock[fdtab[j]].peer

\* Packets are routed to their owners: whatever entry a destination matches, and
\* with several it is the lowest that counts, its descriptor is the connection of a
\* client which the address belongs to or the block was once assigned to.
RoutesToOwner ==
  \A dst \in Dests : \A j \in Matches(prefixes, dst) :
    /\ fdtab[j] \in Conns
    /\ LET peer == sock[fdtab[j]].peer
       IN  peer = dst \/ <<peer, dst>> \in ever

Noticed(f) == f \in ready \/ cur = f \/ \E e \in batch : e.fd = f

\* Every descriptor is edge triggered, so what is not drained when it is reported
\* would wait for ever: unread input, an end of file and a waiting connection are
\* always still to be reported or being handled, unless an accept has failed or
\* the connection was reset.
NothingForgotten ==
  running =>
    /\ tunq /= << >> => Noticed(tun_file)
    /\ backlog /= << >> => Noticed(sfd) \/ accept_failed
    /\ \A j \in Fds : fdtab[j] \in Conns /\ ~Dead(fdtab[j])
                        /\ (sock[fdtab[j]].inq /= << >> \/ sock[fdtab[j]].st = "eof")
                      => Noticed(j)

Closing == running /\ \E k \in Conns : sock[k].st = "eof" /\ FdOf(k) /= {}

\* Connections their clients have closed are closed by the server as well, and their
\* entries with them, unless data still written to one provokes a reset first.
CloseNoticed == Closing ~> ~Closing

\* "So that we know when a client disconnects": a connection that has ended is
\* closed and its entry removed.
DisconnectNoticed ==
  \A k \in Conns :
    (sock[k].st \in {"eof", "reset"} /\ FdOf(k) /= {}) ~> (FdOf(k) = {} \/ ~running)
=============================================================================

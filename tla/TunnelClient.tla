---------------------------- MODULE TunnelClient ----------------------------
(***************************************************************************)
(* gateway/tunnel/tunnel-client.c, running on a gateway, connected to the  *)
(* server of TunnelServer: one process, one TCP socket and one TUN device. *)
(* It blocks in select, shuttles one packet each way, and reconnects where *)
(* the socket fails, in the middle of a pass.                              *)
(*                                                                         *)
(* The steps of the server and its other surroundings are those of         *)
(* TunnelServer.  The client replaces what TunnelServer lets its client Me *)
(* do: a connection is made, used and lost on both sides at once, except   *)
(* that the end the server makes of one reaches the client later.          *)
(*                                                                         *)
(* Each system call that may block, fail or see news is a step.            *)
(***************************************************************************)
EXTENDS TunnelServer

CONSTANTS Me,             \* the client
          MaxFaults       \* bound: failures of the network and of the client

ASSUME ClientAssumption == Me \in Clients /\ MaxFaults \in Nat

NoSocket == -1
ClientFds == Nat \ (0 .. 3)     \* standard streams, and 3: the client's tun_file

VARIABLES
  at,          \* the call main is in, or "dead"
  back,        \* where main goes on after reconnect
  tcp,         \* tcp_socket: descriptor, connection, state, input waiting; history:
               \* whether it was sent to (since it was cut off), the first packet
  sockets,     \* descriptors of the TCP sockets that are open
  rfds,        \* what select reported
  tun,         \* packets the gateway's kernel has put in the TUN device
  addressed,   \* the TUN interface has its link-local address
  faults       \* for the bound

program == <<at, back, rfds, sockets>>
cvars   == <<program, tcp, tun, addressed, faults>>

Closed == [fd |-> NoSocket, k |-> 0, st |-> "none", rx |-> 0, used |-> FALSE,
           first |-> None]

\* main before its first reconnect(): the TUN device is set up.
ClientInit ==
  /\ at = "socket" /\ back = "select" /\ tcp = Closed /\ sockets = {} /\ rfds = {}
  /\ tun = << >> /\ addressed = FALSE
  /\ faults = 0

LinkInit == Init /\ ClientInit

Fault == faults < MaxFaults /\ faults' = faults + 1
-----------------------------------------------------------------------------
\* Mutant of Socket: the old socket is not closed.
SocketLeaks ==
  /\ at = "socket"
  /\ LET j == CHOOSE i \in 4 .. 4 + Cardinality(sockets) : i \notin sockets
     IN  /\ sockets' = sockets \cup {j}
         /\ tcp' = [Closed EXCEPT !.fd = j]
  /\ at' = "connect"
  /\ UNCHANGED <<vars, back, rfds, tun, addressed, faults>>

\* Mutant of Socket: tun_file is closed instead.
SocketClosesTun ==
  /\ at = "socket"
  /\ sockets' = sockets \cup {3}
  /\ tcp' = [Closed EXCEPT !.fd = 3]
  /\ at' = "connect"
  /\ UNCHANGED <<vars, back, rfds, tun, addressed, faults>>

\* connect_tcp closes tcp_socket, resolves the host, and opens a socket with the
\* lowest free descriptor ...
Socket ==
  /\ at = "socket"
  /\ LET rest == sockets \ {tcp.fd}
         j == CHOOSE i \in 4 .. 4 + Cardinality(rest) :
                i \notin rest /\ \A h \in 4 .. i - 1 : h \in rest
     IN  /\ sockets' = rest \cup {j}
         /\ tcp' = [Closed EXCEPT !.fd = j]
  /\ at' = "connect"
  /\ UNCHANGED <<vars, back, rfds, tun, addressed, faults>>

\* ... or fails, and reconnect calls it again: if the host cannot be resolved with
\* the number of the socket just closed, which is then closed once more, if there is
\* no socket with none.
SocketFails ==
  /\ at = "socket" /\ Fault
  /\ sockets' = sockets \ {tcp.fd}
  /\ \E fd \in {tcp.fd, NoSocket} : tcp' = [Closed EXCEPT !.fd = fd]
  /\ UNCHANGED <<vars, at, back, rfds, tun, addressed>>

\* connect succeeds.  While it fails (the server does not run) it is tried again,
\* every two seconds, on the same socket.
ConnectTcp ==
  /\ at = "connect"
  /\ Connect(Me)
  /\ tcp' = [tcp EXCEPT !.k = counts'.conns, !.st = "open"]
  /\ at' = "address"
  /\ UNCHANGED <<back, rfds, sockets, tun, addressed, faults>>

\* ifconfig ... add: the kernel announces a new address with a packet from it.  An
\* address that is there already is an error, and nothing is sent.
AssignAddress ==
  /\ at = "address"
  /\ tun' = IF addressed THEN tun ELSE Append(tun, "ll")
  /\ addressed' = TRUE
  /\ at' = back
  /\ UNCHANGED <<vars, back, rfds, sockets, tcp, faults>>

Readable == (IF tcp.rx > 0 \/ tcp.st \notin {"open", "gone"} THEN {"tcp"} ELSE {})
            \cup (IF tun /= << >> THEN {"tun"} ELSE {})

Select ==
  /\ at = "select" /\ Readable /= {}
  /\ rfds' = Readable
  /\ at' = "recv"
  /\ UNCHANGED <<vars, back, sockets, tcp, tun, addressed, faults>>

\* Mutant of Recv: an end of file is not taken for the end.
RecvIgnoresEnd ==
  /\ at = "recv"
  /\ tcp' = [tcp EXCEPT !.rx = 0]
  /\ at' = "tun"
  /\ UNCHANGED <<vars, back, rfds, sockets, tun, addressed, faults>>

\* The first branch after select: data goes to the TUN device; end of file or an
\* error makes main reconnect, and only then look at the TUN device.
Recv ==
  /\ at = "recv"
  /\ \/ /\ "tcp" \notin rfds
        /\ at' = "tun" /\ UNCHANGED <<back, tcp>>
     \/ /\ "tcp" \in rfds /\ tcp.rx > 0
        /\ tcp' = [tcp EXCEPT !.rx = 0]
        /\ at' = "tun" /\ UNCHANGED back
     \/ /\ "tcp" \in rfds /\ tcp.rx = 0
        /\ at' = "socket" /\ back' = "tun" /\ UNCHANGED tcp
  /\ UNCHANGED <<vars, rfds, sockets, tun, addressed, faults>>

\* The second branch, if there is nothing to read.
SkipTun ==
  /\ at = "tun" /\ "tun" \notin rfds
  /\ at' = "select"
  /\ UNCHANGED <<vars, back, rfds, sockets, tcp, tun, addressed, faults>>

\* Mutant of SendTcp: packets carry the header that IFF_NO_PI turns off.
SendTcpPi ==
  /\ at = "tun" /\ "tun" \in rfds /\ tcp.st = "open"
  /\ Send(Me, "pi")
  /\ tun' = Tail(tun)
  /\ tcp' = [tcp EXCEPT !.used = TRUE, !.first = IF @ = None THEN Head(tun) ELSE @]
  /\ at' = "select"
  /\ UNCHANGED <<back, rfds, sockets, addressed, faults>>

\* It reads a packet and sends it: on a working connection, ...
SendTcp ==
  /\ at = "tun" /\ "tun" \in rfds /\ tcp.st = "open"
  /\ Send(Me, Head(tun))
  /\ tun' = Tail(tun)
  /\ tcp' = [tcp EXCEPT !.used = TRUE, !.first = IF @ = None THEN Head(tun) ELSE @]
  /\ at' = "select"
  /\ UNCHANGED <<back, rfds, sockets, addressed, faults>>

\* ... or in vain.  After a reset, send returns the error and main reconnects; after
\* an end of file and a reset it raises SIGPIPE.
SendFails ==
  /\ at = "tun" /\ "tun" \in rfds /\ tcp.st /= "open"
  /\ tun' = Tail(tun)
  /\ tcp' = [tcp EXCEPT !.used = TRUE]
  /\ at' = CASE tcp.st = "reset"  -> "socket"
             [] tcp.st = "broken" -> "dead"
             [] OTHER             -> "select"
  /\ back' = "select"
  /\ UNCHANGED <<vars, rfds, sockets, addressed, faults>>

Client == Socket \/ ConnectTcp \/ AssignAddress \/ Select \/ Recv \/ SkipTun
          \/ SendTcp \/ SendFails
-----------------------------------------------------------------------------
\* The gateway sends a packet into the tunnel.
GatewayPacket(p) ==
  /\ at /= "dead" /\ addressed /\ Len(tun) < MaxSends - counts.sends
  /\ tun' = Append(tun, p)
  /\ UNCHANGED <<vars, program, tcp, addressed, faults>>

\* A step of the server; a packet it writes to the client's connection arrives there.
WritesToMe == LET m == Matches(prefixes', Head(tunq))
              IN  m /= {} /\ Min(m) \in FdOf(tcp.k)

ServerStep ==
  /\ Server
  /\ tcp' = [tcp EXCEPT !.rx = IF tcp.st = "open" /\ tunq' /= tunq /\ WritesToMe
                               THEN 1 ELSE @]
  /\ UNCHANGED <<program, tun, addressed, faults>>

\* The server has closed the connection, or is gone: its end, or a reset, arrives.
ServerEnds(how) ==
  /\ tcp.st = "open"
  /\ ~running \/ (FdOf(tcp.k) = {} /\ \A i \in 1 .. Len(backlog) : backlog[i] /= tcp.k)
  /\ Leave(Me, "eof")
  /\ tcp' = [tcp EXCEPT !.st = how]
  /\ UNCHANGED <<program, tun, addressed, faults>>

\* Data that reaches the server after that is answered with a reset.
ResetFollows ==
  /\ tcp.st = "eof" /\ tcp.used
  /\ tcp' = [tcp EXCEPT !.st = "broken"]
  /\ UNCHANGED <<vars, program, tun, addressed, faults>>

\* The network resets the connection, or drops it without a word.
Cut(how) ==
  /\ tcp.st = "open" /\ Fault
  /\ Leave(Me, how)
  /\ tcp' = [tcp EXCEPT !.st = how, !.used = FALSE]
  /\ UNCHANGED <<program, tun, addressed>>

\* Data sent since then is not acknowledged.
TimesOut ==
  /\ tcp.st = "gone" /\ tcp.used
  /\ tcp' = [tcp EXCEPT !.st = "reset"]
  /\ UNCHANGED <<vars, program, tun, addressed, faults>>

\* The client is killed, and started again; its TUN device goes with it.
Kill ==
  /\ at /= "dead" /\ Fault
  /\ IF tcp.st = "open"
     THEN Leave(Me, IF tcp.rx > 0 THEN "reset" ELSE "eof")
     ELSE UNCHANGED vars
  /\ at' = "dead" /\ tcp' = Closed /\ sockets' = {}
  /\ UNCHANGED <<back, rfds, tun, addressed>>

Start ==
  /\ at = "dead"
  /\ at' = "socket" /\ back' = "select" /\ tcp' = Closed /\ sockets' = {} /\ rfds' = {}
  /\ tun' = << >> /\ addressed' = FALSE
  /\ UNCHANGED <<vars, faults>>

Surroundings ==
  \/ SocketFails \/ ResetFollows \/ Kill \/ Start
  \/ \E p \in {"ll", "global"} : GatewayPacket(p)
  \/ \E how \in {"eof", "reset"} : ServerEnds(how)
  \/ \E how \in {"reset", "gone"} : Cut(how)
  \/ TimesOut

Others ==                       \* steps of TunnelServer the client has no part in
  \/ Restart
  \/ \E k \in Conns : ResetArrives(k)
  \/ \E dst \in Dests : TunPacket(dst)
  \/ \E b \in Blocks : Assign(Me, b)

LinkNext ==
  \/ Client \/ Surroundings \/ ServerStep
  \/ Others /\ UNCHANGED cvars

\* Both processes run; a server that has exited is started again, and TCP tells the
\* client of a connection the server no longer has, if need be after a time-out.
Fairness ==
  /\ WF_<<vars, cvars>>(Client)
  /\ WF_<<vars, cvars>>(ServerStep \/ (Restart /\ UNCHANGED cvars))
  /\ WF_<<vars, cvars>>((\E how \in {"eof", "reset"} : ServerEnds(how)) \/ TimesOut)

LinkSpec == LinkInit /\ [][LinkNext]_<<vars, cvars>> /\ Fairness
-----------------------------------------------------------------------------
\* Type invariant.
LinkTypeOK ==
  /\ at \in {"socket", "connect", "address", "select", "recv", "tun", "dead"}
  /\ back \in {"select", "tun"} /\ rfds \subseteq {"tcp", "tun"}
  /\ tcp.fd \in {NoSocket} \cup ClientFds /\ tcp.k \in {0} \cup Conns
  /\ tcp.st \in {"none", "open", "eof", "gone", "reset", "broken"}
  /\ tcp.rx \in {0, 1} /\ tcp.used \in BOOLEAN
  /\ sockets \subseteq ClientFds /\ tun \in Seq({"ll", "global"})
  /\ addressed \in BOOLEAN /\ tcp.first \in {None, "ll", "global"}
  /\ faults \in 0 .. MaxFaults

\* The client is one of the worlds TunnelServer allows for: what holds of the
\* server there holds when this client is connected to it.
ServerSpec == Spec

\* However often and from wherever main reconnects, no socket is left open, so the
\* descriptor stays the same: select's nfds, a uint8_t, would wrap after 252 leaks,
\* and each leaked connection would keep its descriptor and entry in the server.
OneSocket ==
  /\ sockets \subseteq {tcp.fd}
  /\ at \in {"select", "recv", "tun"} => tcp.fd = 4

\* "This function will spin until the server comes back": a client whose connection
\* has ended, or could not be made, is connected again.
Reconnects == (tcp.st \notin {"open", "gone"}) ~> (tcp.st = "open" \/ at = "dead")

Entry    == Matches(prefixes, Me)
Routed   == Entry /= {} /\ Min(Entry) \in FdOf(tcp.k)
Shadowed == \E k \in Conns : FdOf(k) /= {} /\ sock[k].st \in {"gone", "reset", "broken"}

\* "So that the tunnel server knows our link local address": once the first packet
\* on a connection is from the link-local address, as it is on the connection made
\* when the address is assigned, the server comes to route the client's packets to
\* that connection, through accept, epoll and its reads.  Exceptions: the connection
\* or the server ends before, no descriptor is left for it, or an earlier connection
\* that did not end in order is still in the server's table.
RoutedToConnection ==
  (tcp.st = "open" /\ tcp.first = "ll")
    ~> (Routed \/ Shadowed \/ tcp.st /= "open" \/ ~running \/ accept_failed)
=============================================================================

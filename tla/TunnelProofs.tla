---------------------------- MODULE TunnelProofs ----------------------------
(***************************************************************************)
(* Proofs about TunnelServer and TunnelClient, for any clients, blocks,    *)
(* descriptors and bounds: the routing table of the server, its handling   *)
(* of edge-triggered events, the client's one socket, and that the client  *)
(* is one of the worlds TunnelServer allows for.                           *)
(***************************************************************************)
EXTENDS TunnelClient, SequenceTheorems, FiniteSetTheorems, TLAPS

Packets == {"ll", "global"}
States  == {"unused", "open", "eof", "gone", "reset", "broken"}
Socks   == [peer : Clients \cup {None}, st : States, inq : Seq(Packets),
            poked : BOOLEAN]
Counts  == [conns : 0 .. MaxConns, sends : Nat, tun : Nat, assigns : Nat, exits : Nat]

\* Connections are numbered in the order they are made, and a client's is open.
ConnsOK ==
  /\ sock \in [Conns -> Socks] /\ counts \in Counts
  /\ \A j \in Fds : fdtab[j] <= counts.conns
  /\ \A i \in 1 .. Len(backlog) : backlog[i] <= counts.conns
  /\ \A c \in Clients : client[c] <= counts.conns
  /\ \A c \in Clients : client[c] /= 0 => /\ sock[client[c]].st = "open"
                                          /\ sock[client[c]].peer = c

\* A block stands in prefixes[] next to the client it was once assigned to, and
\* nothing stands past the end of the array.
BlocksOK ==
  /\ \A j \in Fds : prefixes[j].pd /= None => /\ prefixes[j].ll /= None
                                              /\ <<prefixes[j].ll, prefixes[j].pd>> \in ever
  /\ \A j \in Fds \ Entries : prefixes[j].ll = None
  /\ \A c \in Clients : assignments[c] /= None => <<c, assignments[c]>> \in ever

\* epoll reports connections only, each in one event at a time, and the errors it
\* reports are those of connections that stay dead.
EventsOK ==
  /\ \A j \in Fds : Noticed(j) => fdtab[j] \in Conns
  /\ \A e \in batch : e.fd /= cur /\ (e.bad => e.fd \in Fds /\ Dead(fdtab[e.fd]))
  /\ \A e, d \in batch : e.fd = d.fd => e = d

\* The inductive invariant of the server.
ServerInv ==
  TypeOK /\ ConnsOK /\ BlocksOK /\ EventsOK /\ EntryOfConnection /\ NothingForgotten
-----------------------------------------------------------------------------
\* The lowest descriptor of a set, which open, accept and the routing loops use.
LEMMA MinOf ==
  ASSUME NEW S \in SUBSET Nat, S /= {}
  PROVE  Min(S) \in S /\ \A y \in S : Min(S) <= y
<1> DEFINE R == {ss \in Nat \X Nat : ss[1] < ss[2]}
<1>1. IsWellFoundedOn(R, Nat)
  BY NatLessThanWellFounded, Zenon DEF OpToRel
<1>2. \E x \in S : \A y \in S : ~(<<y, x>> \in R)
  <2> HIDE DEF R
  <2>1. S \subseteq Nat
    OBVIOUS
  <2>2. QED
    BY <1>1, <2>1, WFMin, Zenon
<1>3. PICK x \in S : \A y \in S : ~(<<y, x>> \in R)
  BY <1>2
<1>4. \E z \in S : \A y \in S : z =< y
  <2>1. ASSUME NEW y \in S
        PROVE  x <= y
    <3>1. x \in Nat /\ y \in Nat
      OBVIOUS
    <3>2. ~(y < x)
      BY <1>3, <3>1
    <3>3. QED
      BY <3>1, <3>2
  <2>2. QED
    BY <2>1
<1>5. QED
  BY <1>4, Zenon DEF Min
-----------------------------------------------------------------------------
\* Connection k has input or an end of file that a read would return.
Pending(k) == ~Dead(k) /\ (sock[k].inq /= << >> \/ sock[k].st = "eof")

\* What any step may do to a connection that was made before: its peer stays, the
\* dead stay dead, and what newly waits to be read is reported for its descriptors.
SockStep ==
  /\ sock' \in [Conns -> Socks]
  /\ \A k \in Conns : k <= counts.conns =>
       /\ sock'[k].peer = sock[k].peer
       /\ Dead(k) => Dead(k)'
       /\ Pending(k)' => Pending(k) \/ FdOf(k) \subseteq ready'

\* One record of sock is replaced.
LEMMA SockPut ==
  ASSUME NEW S \in [Conns -> Socks], NEW k \in Conns, NEW r \in Socks
  PROVE  /\ [S EXCEPT ![k] = r] \in [Conns -> Socks]
         /\ \A m \in Conns : [S EXCEPT ![k] = r][m] = IF m = k THEN r ELSE S[m]
  OBVIOUS

\* The fields of a connection.
LEMMA SockFields ==
  ASSUME NEW S \in [Conns -> Socks], NEW k \in Conns
  PROVE  /\ S[k] \in Socks
         /\ S[k] = [peer |-> S[k].peer, st |-> S[k].st, inq |-> S[k].inq,
                    poked |-> S[k].poked]
         /\ S[k].peer \in Clients \cup {None} /\ S[k].st \in States
         /\ S[k].inq \in Seq(Packets) /\ S[k].poked \in BOOLEAN
<1>1. S[k] \in Socks
  OBVIOUS
<1>2. QED
  BY <1>1 DEF Socks

\* Changes of one field.
LEMMA SetSt ==
  ASSUME NEW x \in Socks, NEW y \in States
  PROVE  LET r == [x EXCEPT !.st = y]
         IN  r \in Socks /\ r.st = y /\ r.peer = x.peer /\ r.inq = x.inq
  BY DEF Socks

LEMMA SetInq ==
  ASSUME NEW x \in Socks, NEW y \in Seq(Packets)
  PROVE  LET r == [x EXCEPT !.inq = y]
         IN  r \in Socks /\ r.inq = y /\ r.peer = x.peer /\ r.st = x.st
  BY DEF Socks

\* A replaced record satisfies SockStep if the record does.
LEMMA SockStepByRecord ==
  ASSUME sock \in [Conns -> Socks], NEW k \in Conns, NEW r \in Socks,
         sock' = [sock EXCEPT ![k] = r],
         k <= counts.conns =>
           /\ r.peer = sock[k].peer
           /\ Dead(k) => r.st \in {"reset", "broken"}
           /\ ~(r.st \in {"reset", "broken"}) /\ (r.inq /= << >> \/ r.st = "eof")
                => Pending(k) \/ FdOf(k) \subseteq ready'
  PROVE  SockStep
<1>1. sock' \in [Conns -> Socks] /\ \A m \in Conns : sock'[m] = IF m = k THEN r ELSE sock[m]
  BY SockPut
<1>2. ASSUME NEW m \in Conns, m <= counts.conns
      PROVE  /\ sock'[m].peer = sock[m].peer
             /\ Dead(m) => Dead(m)'
             /\ Pending(m)' => Pending(m) \/ FdOf(m) \subseteq ready'
  <2>1. CASE m = k
    BY <1>1, <1>2, <2>1 DEF Dead, Pending
  <2>2. CASE m /= k
    BY <1>1, <1>2, <2>2 DEF Dead, Pending
  <2>3. QED
    BY <2>1, <2>2
<1>3. QED
  BY <1>1, <1>2 DEF SockStep

LEMMA SockSame ==
  ASSUME sock \in [Conns -> Socks], sock' = sock
  PROVE  SockStep
  BY DEF SockStep, Dead, Pending

\* Constants and the typing facts every action needs.
LEMMA ServerFacts ==
  ASSUME TypeOK, ConnsOK
  PROVE  /\ sock \in [Conns -> Socks] /\ counts \in Counts
         /\ counts.conns \in Nat /\ counts.conns <= MaxConns
         /\ counts = [conns |-> counts.conns, sends |-> counts.sends,
                      tun |-> counts.tun, assigns |-> counts.assigns,
                      exits |-> counts.exits]
         /\ counts.sends \in Nat /\ counts.tun \in Nat /\ counts.assigns \in Nat
         /\ client \in [Clients -> {0} \cup Conns]
         /\ \A c \in Clients : client[c] /= 0 => client[c] \in Conns
         /\ MaxConns \in Nat
<1>1. MaxConns \in Nat
  BY ServerAssumption
<1>2. QED
  BY <1>1 DEF TypeOK, ConnsOK, Counts, Conns

LEMMA ConnectSock ==
  ASSUME TypeOK, ConnsOK, NEW c \in Clients, Connect(c)
  PROVE  /\ SockStep
         /\ counts.conns + 1 \in Conns
         /\ sock'[counts.conns + 1].st = "open" /\ sock'[counts.conns + 1].peer = c
<1> DEFINE k == counts.conns + 1
           r == [sock[k] EXCEPT !.peer = c, !.st = "open"]
<1>1. k \in Conns /\ sock \in [Conns -> Socks] /\ ~(k <= counts.conns)
  BY ServerFacts DEF Connect
<1>2. r \in Socks /\ r.st = "open" /\ r.peer = c
  BY <1>1, SockFields DEF Socks, States
<1>3. sock' = [sock EXCEPT ![k] = r]
  BY <1>1 DEF Connect
<1>4. SockStep
  BY <1>1, <1>2, <1>3, SockStepByRecord
<1>5. sock'[k] = r
  BY <1>1, <1>2, <1>3, SockPut
<1>6. QED
  BY <1>1, <1>2, <1>4, <1>5

LEMMA SendSock ==
  ASSUME TypeOK, ConnsOK, NEW c \in Clients, NEW p \in Packets, Send(c, p)
  PROVE  /\ SockStep
         /\ \A m \in Conns : sock'[m].st = sock[m].st
<1> DEFINE k == client[c]
           r == [sock[k] EXCEPT !.inq = Append(@, p)]
<1>1. k \in Conns /\ sock \in [Conns -> Socks]
  BY ServerFacts DEF Send
<1>2. r \in Socks /\ r.st = sock[k].st /\ r.peer = sock[k].peer
  <2>1. sock[k] \in Socks /\ sock[k].inq \in Seq(Packets)
    BY <1>1, SockFields
  <2>2. Append(sock[k].inq, p) \in Seq(Packets)
    BY <2>1
  <2>3. QED
    BY <2>1, <2>2, SetInq
<1>3. sock' = [sock EXCEPT ![k] = r]
  BY <1>1 DEF Send
<1>4. FdOf(k) \subseteq ready'
  BY DEF Send
<1>5. SockStep
  <2> HIDE DEF r
  <2>1. Dead(k) => r.st \in {"reset", "broken"}
    BY <1>2 DEF Dead
  <2>2. QED
    BY <1>1, <1>2, <1>3, <1>4, <2>1, SockStepByRecord, Zenon
<1>6. \A m \in Conns : sock'[m] = IF m = k THEN r ELSE sock[m]
  BY <1>1, <1>2, <1>3, SockPut
<1>7. QED
  BY <1>2, <1>5, <1>6

LEMMA LeaveSock ==
  ASSUME TypeOK, ConnsOK, NEW c \in Clients, NEW how \in {"eof", "reset", "gone"},
         Leave(c, how)
  PROVE  /\ SockStep
         /\ client[c] \in Conns
         /\ \A m \in Conns : m /= client[c] => sock'[m] = sock[m]
<1> DEFINE k == client[c]
           r == [sock[k] EXCEPT !.st = how]
<1>1. k \in Conns /\ sock \in [Conns -> Socks] /\ sock[k].st = "open"
  BY ServerFacts DEF Leave, ConnsOK
<1>2. r \in Socks /\ r.st = how /\ r.peer = sock[k].peer /\ r.inq = sock[k].inq
  <2>1. sock[k] \in Socks /\ how \in States
    BY <1>1 DEF States
  <2>2. QED
    BY <2>1, SetSt
<1>3. sock' = [sock EXCEPT ![k] = r]
  BY <1>1 DEF Leave
<1>4. how /= "gone" => FdOf(k) \subseteq ready'
  BY DEF Leave
<1>5. SockStep
  <2> HIDE DEF r
  <2>1. ~Dead(k) /\ (r.inq /= << >> \/ r.st = "eof" => Pending(k) \/ FdOf(k) \subseteq ready')
    BY <1>1, <1>2, <1>4 DEF Dead, Pending
  <2>2. QED
    BY <1>1, <1>2, <1>3, <2>1, SockStepByRecord, Zenon
<1>6. \A m \in Conns : sock'[m] = IF m = k THEN r ELSE sock[m]
  BY <1>1, <1>2, <1>3, SockPut
<1>7. QED
  BY <1>1, <1>5, <1>6

LEMMA ResetSock ==
  ASSUME TypeOK, ConnsOK, NEW k \in Conns, ResetArrives(k)
  PROVE  /\ SockStep
         /\ sock[k].st \in {"eof", "gone"}
         /\ \A m \in Conns : m /= k => sock'[m] = sock[m]
<1> DEFINE y == IF sock[k].st = "eof" THEN "broken" ELSE "reset"
           r == [sock[k] EXCEPT !.st = y]
<1>1. sock \in [Conns -> Socks] /\ sock[k].st \in {"eof", "gone"} /\ sock[k] \in Socks
  BY ServerFacts DEF ResetArrives
<1>2. r \in Socks /\ r.st \in {"reset", "broken"} /\ r.peer = sock[k].peer
  <2>1. y \in States /\ y \in {"reset", "broken"}
    BY DEF States
  <2> HIDE DEF y
  <2>2. QED
    BY <1>1, <2>1, SetSt
<1>3. sock' = [sock EXCEPT ![k] = r]
  BY <1>1 DEF ResetArrives
<1>4. SockStep
  <2> HIDE DEF r
  <2>1. QED
    BY <1>1, <1>2, <1>3, SockStepByRecord, Zenon
<1>5. \A m \in Conns : sock'[m] = IF m = k THEN r ELSE sock[m]
  BY <1>1, <1>2, <1>3, SockPut
<1>6. QED
  BY <1>1, <1>4, <1>5

LEMMA ReadTcpSock ==
  ASSUME TypeOK, ConnsOK, EventsOK, NEW j \in Fds, NEW n, ReadTcp(j, n)
  PROVE  /\ SockStep
         /\ fdtab[j] \in Conns /\ Head(sock[fdtab[j]].inq) \in Packets
         /\ \A m \in Conns : sock'[m].st = sock[m].st
<1> DEFINE k == fdtab[j]
           w == SubSeq(sock[k].inq, n + 1, Len(sock[k].inq))
           r == [sock[k] EXCEPT !.inq = w]
<1>1. k \in Conns /\ sock \in [Conns -> Socks] /\ sock[k] \in Socks
  BY ServerFacts DEF ReadTcp, EventsOK, Noticed
<1>2. sock[k].inq \in Seq(Packets) /\ n \in 1 .. Len(sock[k].inq)
  BY <1>1, SockFields DEF ReadTcp
<1>3. w \in Seq(Packets) /\ sock[k].inq /= << >>
  BY <1>2
<1>4. r \in Socks /\ r.st = sock[k].st /\ r.peer = sock[k].peer
  BY <1>1, <1>3, SetInq
<1>5. sock' = [sock EXCEPT ![k] = r]
  BY <1>1 DEF ReadTcp
<1>6. SockStep
  <2> HIDE DEF r
  <2>1. Dead(k) \/ Pending(k)
    BY <1>3 DEF Pending
  <2>2. Dead(k) <=> r.st \in {"reset", "broken"}
    BY <1>4 DEF Dead
  <2>3. QED
    BY <1>1, <1>4, <1>5, <2>1, <2>2, SockStepByRecord, Zenon
<1>7. \A m \in Conns : sock'[m] = IF m = k THEN r ELSE sock[m]
  BY <1>1, <1>4, <1>5, SockPut
<1>8. Head(sock[k].inq) \in Packets
  BY <1>2, <1>3
<1>9. QED
  BY <1>1, <1>4, <1>6, <1>7, <1>8

LEMMA WriteSock ==
  ASSUME TypeOK, ConnsOK, NEW j, Write(j)
  PROVE  /\ SockStep /\ running' \in BOOLEAN
         /\ \A m \in Conns : sock[m].st = "open" => sock'[m].st = "open"
<1> DEFINE k == fdtab[j]
           y == IF sock[k].st = "reset" THEN "broken" ELSE sock[k].st
           b == sock[k].poked \/ sock[k].st /= "open"
           r == [sock[k] EXCEPT !.poked = b, !.st = y]
<1>1. sock \in [Conns -> Socks]
  BY ServerFacts
<1>2. CASE k \in Conns
  <2>1. sock[k] \in Socks /\ y \in States
    BY <1>1, <1>2, SockFields DEF States
  <2>2. b \in BOOLEAN
    BY <1>1, <1>2, SockFields
  <2>3. r \in Socks /\ r.st = y /\ r.peer = sock[k].peer /\ r.inq = sock[k].inq
    <3> HIDE DEF y, b
    <3>1. QED
      BY <2>1, <2>2 DEF Socks
  <2>4. sock' = [sock EXCEPT ![k] = r]
    BY <1>1, <1>2 DEF Write
  <2>5. Dead(k) => r.st \in {"reset", "broken"}
    BY <2>3 DEF Dead
  <2>6. ~(r.st \in {"reset", "broken"}) /\ (r.inq /= << >> \/ r.st = "eof") => Pending(k)
    BY <2>3 DEF Dead, Pending
  <2>7. SockStep
    <3> HIDE DEF r
    <3>1. QED
      BY <1>1, <1>2, <2>3, <2>4, <2>5, <2>6, SockStepByRecord, Zenon
  <2>8. \A m \in Conns : sock'[m] = IF m = k THEN r ELSE sock[m]
    <3> HIDE DEF r
    <3>1. QED
      BY <1>1, <1>2, <2>3, <2>4, SockPut
  <2>9. \A m \in Conns : sock[m].st = "open" => sock'[m].st = "open"
    BY <2>3, <2>8
  <2>10. QED
    BY <2>7, <2>9 DEF Write
<1>3. CASE k \notin Conns
  <2>1. sock' = sock
    BY <1>1, <1>3 DEF Write
  <2>2. QED
    BY <1>1, <2>1, SockSame DEF Write
<1>4. QED
  BY <1>2, <1>3

LEMMA RouteSock ==
  ASSUME TypeOK, ConnsOK, NEW pp, NEW dst, Route(pp, dst)
  PROVE  /\ SockStep /\ running' \in BOOLEAN
         /\ \A m \in Conns : sock[m].st = "open" => sock'[m].st = "open"
<1>1. CASE Matches(pp, dst) /= {}
  BY <1>1, WriteSock, Zenon DEF Route
<1>2. CASE Matches(pp, dst) = {}
  <2>1. sock' = sock /\ running' = running
    BY <1>2 DEF Route
  <2>2. QED
    BY <2>1, ServerFacts, SockSame DEF TypeOK
<1>3. QED
  BY <1>1, <1>2

\* A packet from the TUN device, whether or not the assignments are read for it.
LEMMA ForwardEffect ==
  ASSUME TypeOK, ConnsOK, NEW dst, Forward(dst)
  PROVE  /\ SockStep /\ running' \in BOOLEAN
         /\ \A m \in Conns : sock[m].st = "open" => sock'[m].st = "open"
         /\ prefixes' \in {prefixes, ParsePrefixes}
         /\ \/ fdtab' = fdtab
            \/ \E f \in Fds : fdtab[f] = Free /\ fdtab' = [fdtab EXCEPT ![f] = File]
<1>1. CASE Route(prefixes, dst) /\ prefixes' = prefixes /\ fdtab' = fdtab
  BY <1>1, RouteSock
<1>2. CASE running' = FALSE /\ UNCHANGED <<sock, prefixes, fdtab>>
  BY <1>2, ServerFacts, SockSame
<1>3. CASE /\ FreeFds /= {} /\ prefixes' = ParsePrefixes
           /\ fdtab' = [fdtab EXCEPT ![Min(FreeFds)] = File]
           /\ Route(ParsePrefixes, dst)
  <2>1. FreeFds \in SUBSET Nat
    BY ServerAssumption DEF FreeFds
  <2>2. Min(FreeFds) \in FreeFds
    BY <1>3, <2>1, MinOf
  <2>3. Min(FreeFds) \in Fds /\ fdtab[Min(FreeFds)] = Free
    BY <2>2 DEF FreeFds
  <2>4. /\ SockStep /\ running' \in BOOLEAN
        /\ \A m \in Conns : sock[m].st = "open" => sock'[m].st = "open"
    BY <1>3, RouteSock
  <2>5. QED
    BY <1>3, <2>3, <2>4
<1>4. QED
  BY <1>1, <1>2, <1>3 DEF Forward

\* What accept does to the descriptors, if it returns one.
LEMMA AcceptEffect ==
  ASSUME TypeOK, Accept
  PROVE  \/ /\ fdtab' = fdtab /\ backlog' = backlog /\ ready' = ready /\ cur' = NoFd
            /\ accept_failed' \in BOOLEAN
            /\ backlog /= << >> => accept_failed'
         \/ /\ backlog /= << >> /\ Head(backlog) \in Conns
            /\ backlog' = Tail(backlog) /\ cur' = cur /\ accept_failed' = accept_failed
            /\ \E j \in Fds :
                 /\ fdtab[j] = Free
                 /\ fdtab' = [fdtab EXCEPT ![j] = Head(backlog)]
                 /\ ready' = IF \/ sock[Head(backlog)].inq /= << >>
                                \/ sock[Head(backlog)].st \notin {"open", "gone"}
                             THEN ready \cup {j} ELSE ready
<1>1. CASE backlog = << >> \/ FreeFds = {}
  <2>1. /\ fdtab' = fdtab /\ backlog' = backlog /\ ready' = ready /\ cur' = NoFd
        /\ accept_failed' = (accept_failed \/ backlog /= << >>)
    BY <1>1 DEF Accept
  <2>2. QED
    BY <2>1
<1>2. CASE backlog /= << >> /\ FreeFds /= {}
  <2>1. FreeFds \in SUBSET Nat
    BY ServerAssumption DEF FreeFds
  <2>2. Min(FreeFds) \in FreeFds
    BY <1>2, <2>1, MinOf
  <2>3. Min(FreeFds) \in Fds /\ fdtab[Min(FreeFds)] = Free
    BY <2>2 DEF FreeFds
  <2>4. Head(backlog) \in Conns
    <3>1. backlog \in Seq(Conns)
      BY DEF TypeOK
    <3>2. QED
      BY <1>2, <3>1
  <2>5. /\ backlog' = Tail(backlog) /\ cur' = cur /\ accept_failed' = accept_failed
        /\ fdtab' = [fdtab EXCEPT ![Min(FreeFds)] = Head(backlog)]
        /\ ready' = IF \/ sock[Head(backlog)].inq /= << >>
                       \/ sock[Head(backlog)].st \notin {"open", "gone"}
                    THEN ready \cup {Min(FreeFds)} ELSE ready
    BY <1>2 DEF Accept
  <2>6. QED
    BY <1>2, <2>3, <2>4, <2>5
<1>3. QED
  BY <1>1, <1>2

\* Every step treats the connections as SockStep says.
LEMMA NextSock ==
  ASSUME TypeOK, ConnsOK, EventsOK, [Next]_vars
  PROVE  SockStep
<1>0. sock \in [Conns -> Socks]
  BY ServerFacts
<1>1. ASSUME NEW c \in Clients, Connect(c)
      PROVE  SockStep
  BY <1>1, ConnectSock
<1>2. ASSUME NEW c \in Clients, NEW p \in Packets, Send(c, p)
      PROVE  SockStep
  BY <1>2, SendSock
<1>3. ASSUME NEW c \in Clients, NEW how \in {"eof", "reset", "gone"}, Leave(c, how)
      PROVE  SockStep
  BY <1>3, LeaveSock
<1>4. ASSUME NEW k \in Conns, ResetArrives(k)
      PROVE  SockStep
  BY <1>4, ResetSock
<1>5. ASSUME NEW j \in Fds, NEW n \in 1 .. MaxSends, ReadTcp(j, n)
      PROVE  SockStep
  BY <1>5, ReadTcpSock
<1>6. CASE ReadTun
  BY <1>6, ForwardEffect DEF ReadTun
<1>7. CASE sock' = sock
  BY <1>0, <1>7, SockSame
<1>8. \/ \E c \in Clients : Connect(c)
      \/ \E c \in Clients, p \in Packets : Send(c, p)
      \/ \E c \in Clients, how \in {"eof", "reset", "gone"} : Leave(c, how)
      \/ \E k \in Conns : ResetArrives(k)
      \/ \E j \in Fds, n \in 1 .. MaxSends : ReadTcp(j, n)
      \/ ReadTun
      \/ sock' = sock
  BY DEF Next, Server, World, Packets, EpollWait, EpollError, StartEvent, Accept, AcceptExits,
         ReadNothing, ReadEnd, ReadTunNothing, Assign, TunPacket, Restart, vars, env
<1>9. QED
  BY <1>1, <1>2, <1>3, <1>4, <1>5, <1>6, <1>7, <1>8
-----------------------------------------------------------------------------
\* ConnsOK is kept by a step that makes and ends no connection of a client.
LEMMA ConnsKept ==
  ASSUME TypeOK, ConnsOK, SockStep, counts' \in Counts, counts'.conns = counts.conns,
         client' = client,
         \A j \in Fds : fdtab'[j] <= counts.conns,
         \A i \in 1 .. Len(backlog') : backlog'[i] <= counts.conns,
         \A m \in Conns : sock[m].st = "open" => sock'[m].st = "open"
  PROVE  ConnsOK'
<1>1. ASSUME NEW c \in Clients, client'[c] /= 0
      PROVE  sock'[client'[c]].st = "open" /\ sock'[client'[c]].peer = c
  <2>1. client[c] \in Conns /\ client[c] <= counts.conns
    BY <1>1, ServerFacts DEF ConnsOK
  <2>2. sock[client[c]].st = "open" /\ sock[client[c]].peer = c
    BY <1>1 DEF ConnsOK
  <2>3. QED
    BY <2>1, <2>2 DEF SockStep
<1>2. QED
  BY <1>1 DEF ConnsOK, SockStep

LEMMA NextConns ==
  ASSUME TypeOK, ConnsOK, EventsOK, [Next]_vars
  PROVE  ConnsOK'
<1>0. /\ SockStep /\ counts \in Counts /\ sock \in [Conns -> Socks]
      /\ counts.conns \in Nat
      /\ backlog \in Seq(Conns) /\ fdtab \in [Fds -> Conns \cup {Free, File}]
      /\ \A j \in Fds : fdtab[j] <= counts.conns
      /\ \A i \in 1 .. Len(backlog) : backlog[i] <= counts.conns
  BY NextSock, ServerFacts DEF ConnsOK, TypeOK
<1>1. ASSUME NEW c \in Clients, Connect(c)
      PROVE  ConnsOK'
  <2> DEFINE k == counts.conns + 1
  <2>1. /\ k \in Conns /\ sock'[k].st = "open" /\ sock'[k].peer = c
        /\ backlog' = Append(backlog, k) /\ client' = [client EXCEPT ![c] = k]
        /\ counts' = [counts EXCEPT !.conns = k] /\ fdtab' = fdtab
        /\ client \in [Clients -> {0} \cup Conns]
    BY <1>1, ConnectSock, ServerFacts DEF Connect, server
  <2>2. counts' \in Counts /\ counts'.conns = k
    <3>1. k \in 0 .. MaxConns
      BY <2>1, ServerFacts DEF Conns
    <3>2. counts \in Counts /\ counts' = [counts EXCEPT !.conns = k]
      BY <1>0, <2>1
    <3> HIDE DEF k
    <3>3. QED
      BY <3>1, <3>2 DEF Counts
  <2>3. \A j \in Fds : fdtab'[j] <= k
    <3>1. \A j \in Fds : fdtab[j] \in Int
      BY <1>0 DEF Conns, Free, File
    <3>2. QED
      BY <1>0, <2>1, <3>1
  <2>4. \A i \in 1 .. Len(backlog') : backlog'[i] <= k
    <3>1. \A i \in 1 .. Len(backlog) : backlog[i] \in Int
      BY <1>0 DEF Conns
    <3>2. QED
      BY <1>0, <2>1, <3>1
  <2>5. ASSUME NEW d \in Clients
        PROVE  /\ client'[d] <= k
               /\ client'[d] /= 0 => sock'[client'[d]].st = "open"
                                     /\ sock'[client'[d]].peer = d
    <3>1. CASE d = c
      BY <1>0, <2>1, <3>1
    <3>2. CASE d /= c
      <4>1. client'[d] = client[d] /\ client[d] <= counts.conns /\ client[d] \in Nat
        BY <2>1, <3>2 DEF ConnsOK, Conns
      <4>2. client[d] /= 0 => /\ client[d] \in Conns
                              /\ sock[client[d]].st = "open" /\ sock[client[d]].peer = d
        BY ServerFacts DEF ConnsOK
      <4>3. client[d] \in Conns => sock'[client[d]] = sock[client[d]]
        <5>1. client[d] /= k
          BY <1>0, <4>1
        <5>2. sock' = [sock EXCEPT ![k].peer = c, ![k].st = "open"]
          BY <1>1 DEF Connect
        <5>3. QED
          BY <1>0, <5>1, <5>2
      <4>4. QED
        BY <1>0, <4>1, <4>2, <4>3
    <3>3. QED
      BY <3>1, <3>2
  <2>6. QED
    BY <1>0, <2>2, <2>3, <2>4, <2>5 DEF ConnsOK, SockStep
<1>2. ASSUME NEW c \in Clients, NEW how \in {"eof", "reset", "gone"}, Leave(c, how)
      PROVE  ConnsOK'
  <2>1. /\ client[c] \in Conns /\ client' = [client EXCEPT ![c] = 0]
        /\ \A m \in Conns : m /= client[c] => sock'[m] = sock[m]
        /\ counts' = counts /\ fdtab' = fdtab /\ backlog' = backlog
        /\ client \in [Clients -> {0} \cup Conns]
    BY <1>2, LeaveSock, ServerFacts DEF Leave, server
  <2>2. ASSUME NEW d \in Clients
        PROVE  /\ client'[d] <= counts.conns
               /\ client'[d] /= 0 => sock'[client'[d]].st = "open"
                                     /\ sock'[client'[d]].peer = d
    <3>1. CASE d = c
      BY <1>0, <2>1, <3>1
    <3>2. CASE d /= c
      <4>1. client'[d] = client[d] /\ client[d] <= counts.conns
        BY <2>1, <3>2 DEF ConnsOK
      <4>2. client[d] /= 0 => /\ client[d] \in Conns
                              /\ sock[client[d]].st = "open" /\ sock[client[d]].peer = d
        BY ServerFacts DEF ConnsOK
      <4>3. sock[client[c]].peer = c
        BY <2>1 DEF ConnsOK, Conns
      <4>4. client[d] /= 0 => client[d] /= client[c]
        BY <3>2, <4>2, <4>3
      <4>5. QED
        BY <2>1, <4>1, <4>2, <4>4
    <3>3. QED
      BY <3>1, <3>2
  <2>3. QED
    BY <1>0, <2>1, <2>2 DEF ConnsOK, SockStep
\* All other steps keep the clients' connections.
<1>3. ASSUME client' = client, fdtab' = fdtab, backlog' = backlog,
             counts' \in Counts, counts'.conns = counts.conns,
             \A m \in Conns : sock[m].st = "open" => sock'[m].st = "open"
      PROVE  ConnsOK'
  BY <1>0, <1>3, ConnsKept
<1>4. ASSUME NEW c \in Clients, NEW p \in Packets, Send(c, p)
      PROVE  ConnsOK'
  <2>1. /\ counts' = [counts EXCEPT !.sends = @ + 1] /\ client' = client
        /\ fdtab' = fdtab /\ backlog' = backlog
    BY <1>4 DEF Send, server
  <2>2. counts' \in Counts /\ counts'.conns = counts.conns
    BY <1>0, <2>1 DEF Counts
  <2>3. QED
    BY <1>3, <1>4, <2>1, <2>2, SendSock
<1>5. ASSUME NEW k \in Conns, ResetArrives(k)
      PROVE  ConnsOK'
  <2>1. counts' = counts /\ client' = client /\ fdtab' = fdtab /\ backlog' = backlog
    BY <1>5 DEF ResetArrives, server
  <2>2. \A m \in Conns : sock[m].st = "open" => sock'[m].st = "open"
    BY <1>5, ResetSock
  <2>3. QED
    BY <1>0, <1>3, <2>1, <2>2
<1>6. ASSUME NEW dst, TunPacket(dst)
      PROVE  ConnsOK'
  <2>1. /\ counts' = [counts EXCEPT !.tun = @ + 1] /\ client' = client
        /\ fdtab' = fdtab /\ backlog' = backlog /\ sock' = sock
    BY <1>6 DEF TunPacket, server
  <2>2. counts' \in Counts /\ counts'.conns = counts.conns
    BY <1>0, <2>1 DEF Counts
  <2>3. QED
    BY <1>3, <2>1, <2>2
<1>7. ASSUME NEW c, NEW b, Assign(c, b)
      PROVE  ConnsOK'
  <2>1. /\ counts' = [counts EXCEPT !.assigns = @ + 1] /\ client' = client
        /\ fdtab' = fdtab /\ backlog' = backlog /\ sock' = sock
    BY <1>7 DEF Assign, server
  <2>2. counts' \in Counts /\ counts'.conns = counts.conns
    BY <1>0, <2>1 DEF Counts
  <2>3. QED
    BY <1>3, <2>1, <2>2
<1>8. CASE Restart
  <2>1. /\ fdtab' = [j \in Fds |-> Free] /\ backlog' = << >> /\ counts' = counts
        /\ client' = client /\ sock' = sock
    BY <1>8 DEF Restart
  <2>2. \A j \in Fds : fdtab'[j] <= counts.conns
    BY <1>0, <2>1 DEF Free
  <2>3. QED
    BY <1>0, <2>1, <2>2, ConnsKept
<1>9. CASE Accept
  <2>1. counts' = counts /\ client' = client /\ sock' = sock
    BY <1>9 DEF Accept
  <2>2. CASE fdtab' = fdtab /\ backlog' = backlog
    BY <1>0, <1>3, <2>1, <2>2
  <2>3. ASSUME backlog /= << >>, Head(backlog) \in Conns, backlog' = Tail(backlog),
               NEW j \in Fds, fdtab' = [fdtab EXCEPT ![j] = Head(backlog)]
        PROVE  ConnsOK'
    <3>1. Head(backlog) <= counts.conns
      BY <1>0, <2>3
    <3>2. \A i \in Fds : fdtab'[i] <= counts.conns
      BY <1>0, <2>3, <3>1
    <3>3. \A i \in 1 .. Len(backlog') : backlog'[i] <= counts.conns
      BY <1>0, <2>3, HeadTailProperties
    <3>4. QED
      BY <1>0, <2>1, <3>2, <3>3, ConnsKept
  <2>4. QED
    BY <1>9, <2>2, <2>3, AcceptEffect
<1>10. ASSUME NEW j \in Fds, NEW n, ReadTcp(j, n)
       PROVE  ConnsOK'
  <2>1. counts' = counts /\ client' = client /\ fdtab' = fdtab /\ backlog' = backlog
    BY <1>10 DEF ReadTcp
  <2>2. QED
    BY <1>0, <1>3, <1>10, <2>1, ReadTcpSock
<1>11. ASSUME NEW j \in Fds, ReadEnd(j)
       PROVE  ConnsOK'
  <2>1. /\ counts' = counts /\ client' = client /\ backlog' = backlog /\ sock' = sock
        /\ fdtab' = [fdtab EXCEPT ![j] = Free]
    BY <1>11 DEF ReadEnd, env
  <2>2. \A i \in Fds : fdtab'[i] <= counts.conns
    BY <1>0, <2>1 DEF Free
  <2>3. QED
    BY <1>0, <2>1, <2>2, ConnsKept
<1>12. CASE ReadTun
  <2>1. /\ counts' = counts /\ client' = client /\ backlog' = backlog
        /\ Forward(Head(tunq))
    BY <1>12 DEF ReadTun
  <2>2. /\ \A m \in Conns : sock[m].st = "open" => sock'[m].st = "open"
        /\ \/ fdtab' = fdtab
           \/ \E f \in Fds : fdtab[f] = Free /\ fdtab' = [fdtab EXCEPT ![f] = File]
    BY <2>1, ForwardEffect
  <2>3. \A i \in Fds : fdtab'[i] <= counts.conns
    BY <1>0, <2>2 DEF File
  <2>4. QED
    BY <1>0, <2>1, <2>2, <2>3, ConnsKept
<1>13. CASE UNCHANGED env /\ fdtab' = fdtab
  <2>1. counts' = counts /\ client' = client /\ backlog' = backlog /\ sock' = sock
    BY <1>13 DEF env
  <2>2. QED
    BY <1>0, <1>3, <1>13, <2>1
<1>14. CASE EpollWait \/ ReadTunNothing \/ UNCHANGED vars
  <2>1. UNCHANGED env /\ fdtab' = fdtab
    BY <1>14 DEF EpollWait, ReadTunNothing, vars, server
  <2>2. QED
    BY <1>13, <2>1
<1>15. ASSUME NEW e, EpollError(e) \/ StartEvent(e)
       PROVE  ConnsOK'
  <2>1. UNCHANGED env /\ fdtab' = fdtab
    BY <1>15 DEF EpollError, StartEvent
  <2>2. QED
    BY <1>13, <2>1
<1>16. ASSUME NEW j, ReadNothing(j)
       PROVE  ConnsOK'
  <2>1. UNCHANGED env /\ fdtab' = fdtab
    BY <1>16 DEF ReadNothing
  <2>2. QED
    BY <1>13, <2>1
<1>17. CASE AcceptExits
  <2>1. /\ counts' = [counts EXCEPT !.exits = @ + 1] /\ client' = client
        /\ fdtab' = fdtab /\ backlog' = backlog /\ sock' = sock
    BY <1>17 DEF AcceptExits
  <2>2. counts' \in Counts /\ counts'.conns = counts.conns
    BY <1>0, <2>1 DEF Counts
  <2>3. QED
    BY <1>3, <2>1, <2>2
<1>18. QED
  BY <1>1, <1>2, <1>4, <1>5, <1>6, <1>7, <1>8, <1>9, <1>10, <1>11, <1>12, <1>14, <1>15,
     <1>16, <1>17 DEF Next, Server, World, Packets
-----------------------------------------------------------------------------
EntryType == [ll : Clients \cup {None}, pd : Blocks \cup {None}]

\* The type invariant without the connections.
QueuesOK ==
  /\ backlog \in Seq(Conns) /\ client \in [Clients -> {0} \cup Conns]
  /\ tunq \in Seq(Dests) /\ assignments \in [Clients -> Blocks \cup {None}]
  /\ ever \subseteq Clients \X Blocks
TablesOK ==
  /\ fdtab \in [Fds -> Conns \cup {Free, File}]
  /\ prefixes \in [Fds -> EntryType]
LoopOK ==
  /\ ready \subseteq Watched /\ batch \subseteq [fd : Watched, bad : BOOLEAN]
  /\ cur \in Watched \cup {NoFd} /\ running \in BOOLEAN /\ accept_failed \in BOOLEAN

PartsOK == QueuesOK /\ TablesOK /\ LoopOK

LEMMA TypeParts == TypeOK => QueuesOK /\ TablesOK /\ LoopOK
  BY DEF TypeOK, QueuesOK, TablesOK, LoopOK, EntryType

LEMMA TypeByParts == sock \in [Conns -> Socks] /\ PartsOK => TypeOK
<1> SUFFICES ASSUME sock \in [Conns -> Socks], PartsOK PROVE TypeOK
  OBVIOUS
<1>1. ASSUME NEW k \in Conns
      PROVE  /\ sock[k].peer \in Clients \cup {None}
             /\ sock[k].st \in {"unused", "open", "eof", "gone", "reset", "broken"}
             /\ sock[k].inq \in Seq({"ll", "global"}) /\ sock[k].poked \in BOOLEAN
  BY SockFields DEF States, Packets
<1>2. QED
  BY <1>1 DEF TypeOK, PartsOK, QueuesOK, TablesOK, LoopOK, EntryType

\* Who is in the file gets a block, and every entry keeps its client.
LEMMA ParseEffect ==
  ASSUME TypeOK
  PROVE  /\ ParsePrefixes \in [Fds -> EntryType]
         /\ \A j \in Fds :
              /\ ParsePrefixes[j].ll = prefixes[j].ll
              /\ \/ ParsePrefixes[j].pd = prefixes[j].pd
                 \/ /\ prefixes[j].ll \in Clients /\ prefixes[j].ll /= None
                    /\ assignments[prefixes[j].ll] /= None
                    /\ ParsePrefixes[j].pd = assignments[prefixes[j].ll]
<1> DEFINE pp == ParsePrefixes
<1>0. prefixes \in [Fds -> EntryType] /\ assignments \in [Clients -> Blocks \cup {None}]
  BY TypeParts DEF TablesOK, QueuesOK
<1>1. ASSUME NEW j \in Fds
      PROVE  /\ pp[j] \in EntryType /\ pp[j].ll = prefixes[j].ll
             /\ \/ pp[j].pd = prefixes[j].pd
                \/ /\ prefixes[j].ll \in Clients /\ prefixes[j].ll /= None
                   /\ assignments[prefixes[j].ll] /= None
                   /\ pp[j].pd = assignments[prefixes[j].ll]
  <2> DEFINE c == prefixes[j].ll
  <2>1. prefixes[j] \in EntryType /\ c \in Clients \cup {None}
    BY <1>0 DEF EntryType
  <2>2. CASE pp[j] = prefixes[j]
    BY <2>1, <2>2
  <2>3. CASE c /= None /\ assignments[c] /= None /\ pp[j] = [ll |-> c, pd |-> assignments[c]]
    <3>1. c \in Clients /\ assignments[c] \in Blocks \cup {None}
      BY <1>0, <2>1, <2>3
    <3>2. QED
      BY <2>3, <3>1 DEF EntryType
  <2>4. QED
    BY <2>2, <2>3 DEF ParsePrefixes
<1>2. pp \in [Fds -> EntryType]
  <2>1. pp = [j \in Fds |-> pp[j]]
    BY DEF ParsePrefixes
  <2>2. QED
    BY <1>1, <2>1
<1>3. QED
  BY <1>1, <1>2

\* A client's first link-local packet gives its descriptor's entry the client.
LEMMA LearnEffect ==
  ASSUME TypeOK, ConnsOK, NEW j \in Fds, fdtab[j] \in Conns, NEW p
  PROVE  /\ Learn(j, p) \in [Fds -> EntryType]
         /\ \A i \in Fds : i /= j => Learn(j, p)[i] = prefixes[i]
         /\ Learn(j, p)[j].pd = prefixes[j].pd
         /\ \/ Learn(j, p)[j].ll = prefixes[j].ll
            \/ /\ j \in Entries /\ prefixes[j].ll = None
               /\ Learn(j, p)[j].ll = sock[fdtab[j]].peer
<1>0. /\ prefixes \in [Fds -> EntryType] /\ sock[fdtab[j]].peer \in Clients \cup {None}
  BY TypeParts, ServerFacts, SockFields DEF TablesOK
<1> DEFINE c == sock[fdtab[j]].peer
<1>1. CASE Learn(j, p) = prefixes
  BY <1>0, <1>1
<1>2. CASE /\ j \in Entries /\ prefixes[j].ll = None
           /\ Learn(j, p) = [prefixes EXCEPT ![j].ll = c]
  <2>1. prefixes[j] \in EntryType
    BY <1>0
  <2>2. [prefixes[j] EXCEPT !.ll = c] \in EntryType
    BY <1>0, <2>1 DEF EntryType
  <2>3. /\ [prefixes[j] EXCEPT !.ll = c].ll = c
        /\ [prefixes[j] EXCEPT !.ll = c].pd = prefixes[j].pd
    BY <2>1 DEF EntryType
  <2>4. Learn(j, p) = [prefixes EXCEPT ![j] = [prefixes[j] EXCEPT !.ll = c]]
    BY <1>0, <1>2
  <2>5. QED
    BY <1>0, <1>2, <2>2, <2>3, <2>4
<1>3. QED
  BY <1>1, <1>2 DEF Learn

\* A closed descriptor's entry is empty again.
LEMMA ForgetEffect ==
  ASSUME TypeOK, BlocksOK, NEW j \in Fds
  PROVE  /\ Forget(j) \in [Fds -> EntryType]
         /\ \A i \in Fds : i /= j => Forget(j)[i] = prefixes[i]
         /\ Forget(j)[j].ll = None /\ Forget(j)[j].pd = None
<1>0. prefixes \in [Fds -> EntryType]
  BY TypeParts DEF TablesOK
<1>1. CASE j \in Entries
  <2>1. [ll |-> None, pd |-> None] \in EntryType
    BY DEF EntryType
  <2>2. QED
    BY <1>0, <1>1, <2>1 DEF Forget
<1>2. CASE j \notin Entries
  BY <1>0, <1>2 DEF Forget, BlocksOK
<1>3. QED
  BY <1>1, <1>2

\* Every step keeps the types.
LEMMA NextTypes ==
  ASSUME TypeOK, ConnsOK, BlocksOK, EventsOK, [Next]_vars
  PROVE  TypeOK'
<1>0. QueuesOK /\ TablesOK /\ LoopOK /\ SockStep
  BY TypeParts, NextSock
<1>1. SUFFICES PartsOK'
  <2>1. (sock \in [Conns -> Socks])'
    BY <1>0 DEF SockStep
  <2>2. QED
    BY <2>1, TypeByParts, PTL
<1> USE DEF PartsOK
<1>2. UNCHANGED <<backlog, client, tunq, assignments, ever>> => QueuesOK'
  BY <1>0 DEF QueuesOK
<1>3. UNCHANGED <<fdtab, prefixes>> => TablesOK'
  BY <1>0 DEF TablesOK
<1>4. /\ UNCHANGED <<batch, cur, running, accept_failed>> /\ ready' \subseteq Watched => LoopOK'
      /\ UNCHANGED server /\ ready' \subseteq Watched => LoopOK' /\ TablesOK'
  BY <1>0, <1>3 DEF LoopOK, server, loop
<1>5. \A k : FdOf(k) \subseteq Watched
  BY DEF FdOf, Watched
<1>6. sfd \in Watched /\ tun_file \in Watched /\ Fds \subseteq Watched /\ ready \subseteq Watched
  BY <1>0 DEF Watched, LoopOK
<1>7. ASSUME NEW c \in Clients, Connect(c)
      PROVE  PartsOK'
  <2>1. counts.conns + 1 \in Conns
    BY <1>7, ConnectSock
  <2>2. QueuesOK'
    BY <1>0, <1>7, <2>1 DEF Connect, QueuesOK
  <2>3. QED
    BY <1>4, <1>6, <1>7, <2>2 DEF Connect
<1>8. ASSUME NEW c \in Clients, NEW p \in Packets, Send(c, p)
      PROVE  PartsOK'
  BY <1>2, <1>4, <1>5, <1>6, <1>8 DEF Send
<1>9. ASSUME NEW c \in Clients, NEW how \in {"eof", "reset", "gone"}, Leave(c, how)
      PROVE  PartsOK'
  <2>1. QueuesOK'
    BY <1>0, <1>9 DEF Leave, QueuesOK
  <2>2. ready' \subseteq Watched
    BY <1>5, <1>6, <1>9 DEF Leave
  <2>3. QED
    BY <1>4, <1>9, <2>1, <2>2 DEF Leave
<1>10. ASSUME NEW k \in Conns, ResetArrives(k)
       PROVE  PartsOK'
  BY <1>2, <1>4, <1>5, <1>6, <1>10 DEF ResetArrives
<1>11. ASSUME NEW dst \in Dests, TunPacket(dst)
       PROVE  PartsOK'
  <2>1. QueuesOK'
    BY <1>0, <1>11 DEF TunPacket, QueuesOK
  <2>2. QED
    BY <1>4, <1>6, <1>11, <2>1 DEF TunPacket
<1>12. ASSUME NEW c \in Clients, NEW b \in Blocks, Assign(c, b)
       PROVE  PartsOK'
  <2>1. QueuesOK'
    BY <1>0, <1>12 DEF Assign, QueuesOK
  <2>2. QED
    BY <1>4, <1>6, <1>12, <2>1 DEF Assign
<1>13. CASE Restart
  <2>1. QueuesOK'
    BY <1>0, <1>13 DEF Restart, QueuesOK
  <2>2. [ll |-> None, pd |-> None] \in EntryType
    BY DEF EntryType
  <2>3. TablesOK'
    BY <1>13, <2>2 DEF Restart, TablesOK
  <2>4. LoopOK'
    BY <1>13 DEF Restart, LoopOK
  <2>5. QED
    BY <2>1, <2>3, <2>4
<1>14. CASE EpollWait
  <2>1. batch' \subseteq [fd : Watched, bad : BOOLEAN]
    <3>1. batch' = {[fd |-> f, bad |-> f \in Fds /\ Dead(fdtab[f])] : f \in ready}
      BY <1>14 DEF EpollWait
    <3>2. \A f \in ready : [fd |-> f, bad |-> f \in Fds /\ Dead(fdtab[f])]
                             \in [fd : Watched, bad : BOOLEAN]
      BY <1>6
    <3>3. QED
      BY <3>1, <3>2
  <2>2. LoopOK'
    BY <1>0, <1>14, <2>1 DEF EpollWait, LoopOK
  <2>3. QED
    BY <1>2, <1>3, <1>14, <2>2 DEF EpollWait, env
<1>15. ASSUME NEW e \in batch, EpollError(e) \/ StartEvent(e)
       PROVE  PartsOK'
  <2>1. e.fd \in Watched
    BY <1>0 DEF LoopOK
  <2>2. LoopOK'
    BY <1>0, <1>15, <2>1 DEF EpollError, StartEvent, LoopOK
  <2>3. QED
    BY <1>2, <1>3, <1>15, <2>2 DEF EpollError, StartEvent, env
<1>16. CASE Accept
  <2>1. UNCHANGED <<client, tunq, assignments, ever, prefixes, batch, running>>
    BY <1>16 DEF Accept
  <2>2. CASE /\ fdtab' = fdtab /\ backlog' = backlog /\ ready' = ready /\ cur' = NoFd
             /\ accept_failed' \in BOOLEAN
    BY <1>0, <1>2, <1>3, <2>1, <2>2 DEF LoopOK
  <2>3. ASSUME backlog /= << >>, Head(backlog) \in Conns, backlog' = Tail(backlog),
               cur' = cur, accept_failed' = accept_failed,
               NEW j \in Fds, fdtab' = [fdtab EXCEPT ![j] = Head(backlog)],
               ready' \subseteq ready \cup {j}
        PROVE  PartsOK'
    <3>1. QueuesOK'
      BY <1>0, <2>1, <2>3 DEF QueuesOK
    <3>2. TablesOK'
      BY <1>0, <2>1, <2>3 DEF TablesOK
    <3>3. QED
      BY <1>4, <1>6, <2>1, <2>3, <3>1, <3>2
  <2>4. QED
    BY <1>16, <2>2, <2>3, AcceptEffect
<1>17. ASSUME NEW j \in Fds, NEW n, ReadTcp(j, n)
       PROVE  PartsOK'
  <2>1. fdtab[j] \in Conns /\ Head(sock[fdtab[j]].inq) \in Packets
    BY <1>17, ReadTcpSock
  <2>2. prefixes' \in [Fds -> EntryType]
    BY <1>17, <2>1, LearnEffect DEF ReadTcp
  <2>3. TablesOK'
    BY <1>0, <1>17, <2>2 DEF ReadTcp, TablesOK
  <2>4. QED
    BY <1>2, <1>4, <1>6, <1>17, <2>3 DEF ReadTcp, loop
<1>18. ASSUME NEW j \in Fds, ReadNothing(j)
       PROVE  PartsOK'
  <2>1. LoopOK'
    BY <1>0, <1>18 DEF ReadNothing, LoopOK
  <2>2. QED
    BY <1>2, <1>3, <1>18, <2>1 DEF ReadNothing, env
<1>19. ASSUME NEW j \in Fds, ReadEnd(j)
       PROVE  PartsOK'
  <2>1. prefixes' \in [Fds -> EntryType]
    BY <1>19, ForgetEffect DEF ReadEnd
  <2>2. TablesOK'
    BY <1>0, <1>19, <2>1 DEF ReadEnd, TablesOK
  <2>3. LoopOK'
    BY <1>0, <1>19 DEF ReadEnd, LoopOK
  <2>4. QED
    BY <1>2, <1>19, <2>2, <2>3 DEF ReadEnd, env
<1>20. CASE ReadTun
  <2>1. /\ UNCHANGED <<backlog, client, assignments, ever, ready, batch, cur, accept_failed>>
        /\ tunq /= << >> /\ tunq' = Tail(tunq) /\ Forward(Head(tunq))
    BY <1>20 DEF ReadTun
  <2>2. /\ running' \in BOOLEAN /\ prefixes' \in {prefixes, ParsePrefixes}
        /\ \/ fdtab' = fdtab
           \/ \E f \in Fds : fdtab[f] = Free /\ fdtab' = [fdtab EXCEPT ![f] = File]
    BY <2>1, ForwardEffect
  <2>3. prefixes' \in [Fds -> EntryType]
    BY <1>0, <2>2, ParseEffect DEF TablesOK
  <2>4. TablesOK'
    BY <1>0, <2>2, <2>3 DEF TablesOK
  <2>5. QueuesOK'
    BY <1>0, <2>1 DEF QueuesOK
  <2>6. LoopOK'
    BY <1>0, <2>1, <2>2 DEF LoopOK
  <2>7. QED
    BY <2>4, <2>5, <2>6
<1>21. CASE ReadTunNothing
  <2>1. LoopOK'
    BY <1>0, <1>21 DEF ReadTunNothing, LoopOK
  <2>2. QED
    BY <1>2, <1>3, <1>21, <2>1 DEF ReadTunNothing, env
<1>22. CASE UNCHANGED vars
  BY <1>2, <1>4, <1>6, <1>22 DEF vars, env
<1>23. CASE AcceptExits
  <2>1. LoopOK'
    BY <1>0, <1>23 DEF AcceptExits, LoopOK
  <2>2. QED
    BY <1>2, <1>3, <1>23, <2>1 DEF AcceptExits
<1> HIDE DEF PartsOK
<1>24. QED
  <2>1. CASE World
    BY <2>1, <1>7, <1>8, <1>9, <1>10, <1>11, <1>12, <1>13 DEF World, Packets
  <2>2. CASE Server
    BY <2>2, <1>14, <1>15, <1>16, <1>17, <1>18, <1>19, <1>20, <1>21, <1>23
       DEF Server
  <2>3. QED
    BY <1>22, <2>1, <2>2 DEF Next
-----------------------------------------------------------------------------
\* An entry that has a client keeps its descriptor, and has kept the client or
\* learned it from the descriptor's connection.
LEMMA EntriesKept ==
  ASSUME TypeOK, ConnsOK, EntryOfConnection, SockStep,
         \A j \in Fds : prefixes'[j].ll /= None =>
           /\ fdtab'[j] = fdtab[j]
           /\ \/ prefixes'[j].ll = prefixes[j].ll
              \/ fdtab[j] \in Conns /\ prefixes'[j].ll = sock[fdtab[j]].peer
  PROVE  EntryOfConnection'
<1> SUFFICES ASSUME NEW j \in Fds, prefixes'[j].ll /= None
             PROVE  fdtab'[j] \in Conns /\ prefixes'[j].ll = sock'[fdtab'[j]].peer
  BY DEF EntryOfConnection
<1>1. fdtab[j] \in Conns /\ prefixes'[j].ll = sock[fdtab[j]].peer /\ fdtab'[j] = fdtab[j]
  BY DEF EntryOfConnection
<1>2. fdtab[j] <= counts.conns
  BY DEF ConnsOK
<1>3. QED
  BY <1>1, <1>2 DEF SockStep

\* Every step keeps the routing table right: entries are of the connection that
\* has the descriptor, blocks of the client in the entry.
LEMMA NextEntries ==
  ASSUME TypeOK, ConnsOK, BlocksOK, EventsOK, EntryOfConnection, [Next]_vars
  PROVE  EntryOfConnection' /\ BlocksOK'
<1> DEFINE Goal == EntryOfConnection' /\ BlocksOK'
<1>0. /\ SockStep
      /\ prefixes \in [Fds -> EntryType] /\ fdtab \in [Fds -> Conns \cup {Free, File}]
      /\ assignments \in [Clients -> Blocks \cup {None}]
      /\ \A j \in Fds : fdtab[j] = Free => prefixes[j].ll = None
  <2>1. Free \notin Conns
    BY DEF Free, Conns
  <2>2. QED
    BY <2>1, NextSock, TypeParts DEF TablesOK, QueuesOK, EntryOfConnection
<1>1. CASE UNCHANGED <<prefixes, fdtab, assignments, ever>>
  <2>1. EntryOfConnection'
    BY <1>0, <1>1, EntriesKept
  <2>2. BlocksOK'
    BY <1>1 DEF BlocksOK
  <2>3. QED
    BY <2>1, <2>2
<1>2. ASSUME NEW c \in Clients, NEW b \in Blocks, Assign(c, b)
      PROVE  Goal
  <2>1. /\ UNCHANGED <<prefixes, fdtab>> /\ ever' = ever \cup {<<c, b>>}
        /\ assignments' = [d \in Clients |-> IF d = c THEN b
                             ELSE IF assignments[d] = b THEN None ELSE assignments[d]]
    BY <1>2 DEF Assign, server
  <2>2. EntryOfConnection'
    BY <1>0, <2>1, EntriesKept
  <2>3. \A d \in Clients : assignments'[d] /= None => <<d, assignments'[d]>> \in ever'
    BY <2>1 DEF BlocksOK
  <2>4. BlocksOK'
    BY <2>1, <2>3 DEF BlocksOK
  <2>5. QED
    BY <2>2, <2>4
<1>3. CASE Restart
  <2>1. /\ prefixes' = [j \in Fds |-> [ll |-> None, pd |-> None]]
        /\ UNCHANGED <<assignments, ever>>
    BY <1>3 DEF Restart
  <2>2. \A j \in Fds : prefixes'[j].ll = None /\ prefixes'[j].pd = None
    BY <2>1
  <2>3. QED
    BY <2>1, <2>2 DEF EntryOfConnection, BlocksOK
<1>4. CASE Accept
  <2>1. UNCHANGED <<prefixes, assignments, ever>>
    BY <1>4 DEF Accept
  <2>2. CASE fdtab' = fdtab
    BY <1>1, <2>1, <2>2
  <2>3. ASSUME NEW j \in Fds, fdtab[j] = Free, fdtab' = [fdtab EXCEPT ![j] = Head(backlog)]
        PROVE  Goal
    <3>1. EntryOfConnection'
      BY <1>0, <2>1, <2>3, EntriesKept
    <3>2. BlocksOK'
      BY <2>1 DEF BlocksOK
    <3>3. QED
      BY <3>1, <3>2
  <2>4. QED
    BY <1>4, <2>2, <2>3, AcceptEffect
<1>5. ASSUME NEW j \in Fds, NEW n, ReadTcp(j, n)
      PROVE  Goal
  <2> DEFINE p == Head(sock[fdtab[j]].inq)
  <2>1. prefixes' = Learn(j, p) /\ UNCHANGED <<fdtab, assignments, ever>>
    BY <1>5 DEF ReadTcp
  <2>2. fdtab[j] \in Conns
    BY <1>5, ReadTcpSock
  <2> HIDE DEF p
  <2>3. /\ \A i \in Fds : i /= j => prefixes'[i] = prefixes[i]
        /\ prefixes'[j].pd = prefixes[j].pd
        /\ \/ prefixes'[j].ll = prefixes[j].ll
           \/ /\ j \in Entries /\ prefixes[j].ll = None
              /\ prefixes'[j].ll = sock[fdtab[j]].peer
    BY <2>1, <2>2, LearnEffect
  <2>4. EntryOfConnection'
    BY <1>0, <2>1, <2>2, <2>3, EntriesKept
  <2>5. ASSUME NEW i \in Fds
        PROVE  /\ prefixes'[i].pd /= None => /\ prefixes'[i].ll /= None
                                             /\ <<prefixes'[i].ll, prefixes'[i].pd>> \in ever'
               /\ i \notin Entries => prefixes'[i].ll = None
    BY <2>1, <2>3 DEF BlocksOK
  <2>6. BlocksOK'
    BY <2>1, <2>5 DEF BlocksOK
  <2>7. QED
    BY <2>4, <2>6
<1>6. ASSUME NEW j \in Fds, ReadEnd(j)
      PROVE  Goal
  <2>1. /\ prefixes' = Forget(j) /\ UNCHANGED <<assignments, ever>>
        /\ fdtab' = [fdtab EXCEPT ![j] = Free]
    BY <1>6 DEF ReadEnd, env
  <2>2. /\ \A i \in Fds : i /= j => prefixes'[i] = prefixes[i]
        /\ prefixes'[j].ll = None /\ prefixes'[j].pd = None
    BY <2>1, ForgetEffect
  <2>3. EntryOfConnection'
    BY <1>0, <2>1, <2>2, EntriesKept
  <2>4. BlocksOK'
    BY <2>1, <2>2 DEF BlocksOK
  <2>5. QED
    BY <2>3, <2>4
<1>7. CASE ReadTun
  <2>1. Forward(Head(tunq)) /\ UNCHANGED <<assignments, ever>>
    BY <1>7 DEF ReadTun
  <2>2. /\ prefixes' \in {prefixes, ParsePrefixes}
        /\ \/ fdtab' = fdtab
           \/ \E f \in Fds : fdtab[f] = Free /\ fdtab' = [fdtab EXCEPT ![f] = File]
    BY <2>1, ForwardEffect
  <2>3. \A j \in Fds :
          /\ prefixes'[j].ll = prefixes[j].ll
          /\ \/ prefixes'[j].pd = prefixes[j].pd
             \/ /\ prefixes[j].ll \in Clients /\ prefixes[j].ll /= None
                /\ assignments[prefixes[j].ll] /= None
                /\ prefixes'[j].pd = assignments[prefixes[j].ll]
    BY <2>2, ParseEffect
  <2>4. \A j \in Fds : prefixes'[j].ll /= None => fdtab'[j] = fdtab[j]
    BY <1>0, <2>2, <2>3
  <2>5. EntryOfConnection'
    BY <1>0, <2>3, <2>4, EntriesKept
  <2>6. BlocksOK'
    BY <2>1, <2>3 DEF BlocksOK
  <2>7. QED
    BY <2>5, <2>6
<1>8. UNCHANGED vars => UNCHANGED <<prefixes, fdtab, assignments, ever>>
  BY DEF vars, env, server
<1>9. ASSUME World
      PROVE  \/ UNCHANGED <<prefixes, fdtab, assignments, ever>>
             \/ \E c \in Clients, b \in Blocks : Assign(c, b)
             \/ Restart
  BY <1>9 DEF World, Connect, Send, Leave, ResetArrives, TunPacket, server
<1>10. ASSUME Server
       PROVE  \/ UNCHANGED <<prefixes, fdtab, assignments, ever>>
              \/ Accept \/ ReadTun
              \/ \E j \in Fds : ReadEnd(j) \/ \E n : ReadTcp(j, n)
  BY <1>10 DEF Server, EpollWait, EpollError, StartEvent, AcceptExits, ReadNothing,
               ReadTunNothing, env
<1>11. QED
  BY <1>1, <1>2, <1>3, <1>4, <1>5, <1>6, <1>7, <1>8, <1>9, <1>10 DEF Next
-----------------------------------------------------------------------------
\* The descriptors are told apart.
LEMMA FdFacts ==
  /\ sfd /= tun_file /\ sfd /= NoFd /\ tun_file /= NoFd
  /\ sfd \notin Fds /\ tun_file \notin Fds /\ NoFd \notin Fds
  /\ NoFd \notin Watched /\ Fds \subseteq Watched
  /\ Free \notin Conns /\ File \notin Conns
  BY ServerAssumption DEF sfd, tun_file, NoFd, Watched, Free, File, Conns

\* EventsOK is kept by a step that reports no event: what is noticed afterwards is
\* a connection, and still the same one if it was noticed before.
LEMMA EventsKept ==
  ASSUME ConnsOK, EventsOK, SockStep, batch' \subseteq batch,
         \A e \in batch' : e.fd /= cur',
         \A j \in Fds : Noticed(j)' => /\ fdtab'[j] \in Conns
                                       /\ Noticed(j) => fdtab'[j] = fdtab[j]
  PROVE  EventsOK'
<1>1. ASSUME NEW e \in batch', e.bad
      PROVE  e.fd \in Fds /\ Dead(fdtab[e.fd])'
  <2>1. e \in batch /\ e.fd \in Fds /\ Dead(fdtab[e.fd])
    BY <1>1 DEF EventsOK
  <2>2. Noticed(e.fd) /\ Noticed(e.fd)'
    BY <1>1, <2>1 DEF Noticed
  <2>3. fdtab'[e.fd] = fdtab[e.fd] /\ fdtab[e.fd] \in Conns /\ fdtab[e.fd] <= counts.conns
    BY <2>1, <2>2 DEF ConnsOK
  <2>4. Dead(fdtab[e.fd])'
    BY <2>1, <2>3 DEF SockStep, Dead
  <2>5. QED
    BY <2>1, <2>4
<1>2. QED
  BY <1>1 DEF EventsOK

\* No event gets lost in a step that keeps what is noticed, or drops it only where
\* nothing is left to be read.
LEMMA ForgottenKept ==
  ASSUME ConnsOK, NothingForgotten, SockStep, running' => running,
         running' /\ tunq' /= << >> => Noticed(tun_file)',
         running' /\ backlog' /= << >> => Noticed(sfd)' \/ accept_failed',
         \A j \in Fds : fdtab'[j] \in Conns =>
           \/ /\ fdtab'[j] = fdtab[j]
              /\ Noticed(j) => Noticed(j)' \/ ~Pending(fdtab[j])'
           \/ Pending(fdtab[j])' => Noticed(j)'
  PROVE  NothingForgotten'
<1> SUFFICES ASSUME running', NEW j \in Fds, fdtab'[j] \in Conns, Pending(fdtab[j])'
             PROVE  Noticed(j)'
  BY DEF NothingForgotten, Pending
<1> DEFINE k == fdtab[j]
<1>1. CASE fdtab'[j] = k /\ (Noticed(j) => Noticed(j)' \/ ~Pending(fdtab[j])')
  <2>1. k \in Conns /\ k <= counts.conns
    BY <1>1 DEF ConnsOK
  <2>2. Pending(k) \/ FdOf(k) \subseteq ready'
    BY <1>1, <2>1 DEF SockStep, Pending, Dead
  <2>3. CASE Pending(k)
    BY <1>1, <2>1, <2>3 DEF NothingForgotten, Pending
  <2>4. CASE FdOf(k) \subseteq ready'
    BY <2>4 DEF FdOf, Noticed
  <2>5. QED
    BY <2>2, <2>3, <2>4
<1>2. QED
  BY <1>1

\* Steps that leave the event loop where it is, and may add to `ready'.
LEMMA EventsAdded ==
  ASSUME TypeOK, ConnsOK, EventsOK, NothingForgotten, SockStep, UNCHANGED <<fdtab, loop>>,
         ready \subseteq ready',
         \A j \in Fds : j \in ready' => j \in ready \/ fdtab[j] \in Conns,
         tunq' = tunq \/ tun_file \in ready',
         \/ backlog' = backlog /\ accept_failed' = accept_failed
         \/ sfd \in ready'
  PROVE  EventsOK' /\ NothingForgotten'
<1>1. \A f : Noticed(f) => Noticed(f)'
  BY DEF Noticed, loop
<1>2. \A j \in Fds : Noticed(j)' => Noticed(j) \/ fdtab[j] \in Conns
  BY DEF Noticed, loop
<1>3. EventsOK'
  <2>1. batch' = batch /\ cur' = cur /\ fdtab' = fdtab
    BY DEF loop
  <2>2. \A e \in batch' : e.fd /= cur'
    BY <2>1 DEF EventsOK
  <2>3. \A j \in Fds : Noticed(j)' => fdtab'[j] \in Conns
    BY <1>2, <2>1 DEF EventsOK
  <2>4. QED
    BY <2>1, <2>2, <2>3, EventsKept
<1>4. NothingForgotten'
  <2>1. running' = running /\ fdtab' = fdtab
    BY DEF loop
  <2>2. running' /\ tunq' /= << >> => Noticed(tun_file)'
    BY <1>1, <2>1 DEF NothingForgotten, Noticed
  <2>3. running' /\ backlog' /= << >> => Noticed(sfd)' \/ accept_failed'
    BY <1>1, <2>1 DEF NothingForgotten, Noticed
  <2>4. QED
    BY <1>1, <2>1, <2>2, <2>3, ForgottenKept
<1>5. QED
  BY <1>3, <1>4

\* The surroundings never make an event unnoticed.
LEMMA WorldEvents ==
  ASSUME TypeOK, ConnsOK, EventsOK, NothingForgotten, World
  PROVE  EventsOK' /\ NothingForgotten'
<1> DEFINE Goal == EventsOK' /\ NothingForgotten'
<1>0. SockStep
  BY NextSock DEF Next
<1>1. /\ \A c \in Clients : client[c] /= 0 => client[c] \in Conns
      /\ \A k \in Conns : \A j \in FdOf(k) : fdtab[j] \in Conns
  BY ServerFacts DEF FdOf
<1>2. ASSUME NEW c \in Clients, Connect(c)
      PROVE  Goal
  BY <1>0, <1>2, FdFacts, EventsAdded DEF Connect, server
<1>3. ASSUME NEW c \in Clients, NEW p, Send(c, p)
      PROVE  Goal
  BY <1>0, <1>1, <1>3, EventsAdded DEF Send, server
<1>4. ASSUME NEW c \in Clients, NEW how, Leave(c, how)
      PROVE  Goal
  <2>1. ready' = ready \/ ready' = ready \cup FdOf(client[c])
    BY <1>4 DEF Leave
  <2>2. QED
    BY <1>0, <1>1, <1>4, <2>1, EventsAdded DEF Leave, server
<1>5. ASSUME NEW k \in Conns, ResetArrives(k)
      PROVE  Goal
  BY <1>0, <1>1, <1>5, EventsAdded DEF ResetArrives, server
<1>6. ASSUME NEW dst, TunPacket(dst)
      PROVE  Goal
  BY <1>0, <1>6, FdFacts, EventsAdded DEF TunPacket, server
<1>7. ASSUME NEW c, NEW b, Assign(c, b)
      PROVE  Goal
  BY <1>0, <1>7, EventsAdded DEF Assign, server
<1>8. CASE Restart
  <2>1. /\ running' = TRUE /\ cur' = NoFd /\ batch' = {} /\ ready' = {}
        /\ backlog' = << >> /\ tunq' = << >> /\ \A j \in Fds : fdtab'[j] = Free
    BY <1>8 DEF Restart
  <2>2. \A j \in Fds : ~Noticed(j)'
    BY <2>1, FdFacts DEF Noticed
  <2>3. EventsOK'
    BY <2>1, <2>2 DEF EventsOK
  <2>4. NothingForgotten'
    BY <2>1, FdFacts DEF NothingForgotten
  <2>5. QED
    BY <2>3, <2>4
<1>9. QED
  BY <1>2, <1>3, <1>4, <1>5, <1>6, <1>7, <1>8 DEF World

\* Nor does the server.
LEMMA ServerEvents ==
  ASSUME TypeOK, ConnsOK, EventsOK, NothingForgotten, Server
  PROVE  EventsOK' /\ NothingForgotten'
<1> DEFINE Goal == EventsOK' /\ NothingForgotten'
<1>0. /\ SockStep /\ cur \in Watched \cup {NoFd} /\ ready \subseteq Watched
      /\ fdtab \in [Fds -> Conns \cup {Free, File}]
  BY NextSock, TypeParts DEF Next, LoopOK, TablesOK
<1>1. CASE EpollWait
  <2>1. /\ running /\ cur = NoFd /\ batch = {} /\ ready' = {} /\ cur' = NoFd
        /\ UNCHANGED <<sock, backlog, tunq, fdtab, running, accept_failed>>
        /\ batch' = {[fd |-> f, bad |-> f \in Fds /\ Dead(fdtab[f])] : f \in ready}
    BY <1>1 DEF EpollWait, env
  <2>2. \A f \in Watched : Noticed(f) <=> f \in ready
    BY <2>1, FdFacts DEF Noticed
  <2>3. /\ \A f \in ready : \E e \in batch' : e.fd = f
        /\ \A e \in batch' : /\ e.fd \in ready
                             /\ e.bad => e.fd \in Fds /\ Dead(fdtab[e.fd])
        /\ \A e, d \in batch' : e.fd = d.fd => e = d
    <3>1. \A f \in ready : [fd |-> f, bad |-> f \in Fds /\ Dead(fdtab[f])] \in batch'
      BY <2>1
    <3>2. \A e \in batch' : \E f \in ready :
            e = [fd |-> f, bad |-> f \in Fds /\ Dead(fdtab[f])]
      BY <2>1
    <3>3. \A e \in batch' :
            e.fd \in ready /\ e = [fd |-> e.fd, bad |-> e.fd \in Fds /\ Dead(fdtab[e.fd])]
      BY <3>2
    <3>4. \A f \in ready : \E e \in batch' : e.fd = f
      <4>1. TAKE f \in ready
      <4>2. [fd |-> f, bad |-> f \in Fds /\ Dead(fdtab[f])].fd = f
        OBVIOUS
      <4>3. QED
        BY <3>1, <4>2
    <3>5. ASSUME NEW e \in batch'
          PROVE  e.bad => e.fd \in Fds /\ Dead(fdtab[e.fd])
      <4>1. PICK f \in ready : e = [fd |-> f, bad |-> f \in Fds /\ Dead(fdtab[f])]
        BY <3>2
      <4>2. e.fd = f
        BY <4>1
      <4>3. e.bad = (f \in Fds /\ Dead(fdtab[f]))
        BY <4>1, Zenon
      <4>4. QED
        BY <4>2, <4>3, Zenon
    <3>6. ASSUME NEW e \in batch', NEW d \in batch', e.fd = d.fd
          PROVE  e = d
      BY <3>3, <3>6, Zenon
    <3>7. QED
      BY <3>3, <3>4, <3>5, <3>6
  <2>4. \A f \in Watched : Noticed(f)' <=> f \in ready
    BY <2>1, <2>3, FdFacts DEF Noticed
  <2>5. EventsOK'
    <3>1. \A j \in Fds : Noticed(j)' => fdtab'[j] \in Conns
      BY <2>1, <2>2, <2>4, FdFacts DEF EventsOK
    <3>2. \A e \in batch' : e.fd /= cur' /\ (e.bad => e.fd \in Fds /\ Dead(fdtab[e.fd])')
      BY <1>0, <2>1, <2>3, FdFacts DEF Dead
    <3>3. QED
      BY <2>3, <3>1, <3>2 DEF EventsOK
  <2>6. NothingForgotten'
    <3>1. \A f \in Watched : Noticed(f) => Noticed(f)'
      BY <2>2, <2>4
    <3>2. Noticed(tun_file) => Noticed(tun_file)'
      BY <3>1 DEF Watched
    <3>3. Noticed(sfd) => Noticed(sfd)'
      BY <3>1 DEF Watched
    <3>4. \A j \in Fds : fdtab'[j] = fdtab[j] /\ (Noticed(j) => Noticed(j)')
      BY <2>1, <3>1, FdFacts
    <3>5. QED
      BY <1>0, <2>1, <3>2, <3>3, <3>4, ForgottenKept DEF NothingForgotten
  <2>7. QED
    BY <2>5, <2>6
<1>2. ASSUME NEW e \in batch, EpollError(e)
      PROVE  Goal
  <2>1. /\ e.bad /\ batch' = batch \ {e} /\ UNCHANGED <<ready, cur, running, fdtab>>
        /\ UNCHANGED <<sock, backlog, tunq, accept_failed>>
    BY <1>2 DEF EpollError, env
  <2>2. e.fd \in Fds /\ Dead(fdtab[e.fd])
    BY <2>1 DEF EventsOK
  <2>3. /\ \A f : Noticed(f)' => Noticed(f)
        /\ \A f : Noticed(f) => Noticed(f)' \/ f = e.fd
    BY <2>1 DEF Noticed
  <2>4. EventsOK'
    BY <1>0, <2>1, <2>3, EventsKept DEF EventsOK
  <2>5. NothingForgotten'
    <3>1. ~Pending(fdtab[e.fd])'
      BY <2>1, <2>2 DEF Pending, Dead
    <3>2. \A j \in Fds : /\ fdtab'[j] = fdtab[j]
                         /\ Noticed(j) => Noticed(j)' \/ ~Pending(fdtab[j])'
      BY <2>1, <2>3, <3>1
    <3>3. /\ Noticed(tun_file) => Noticed(tun_file)'
          /\ Noticed(sfd) => Noticed(sfd)'
      BY <2>2, <2>3, FdFacts
    <3>4. QED
      BY <1>0, <2>1, <3>2, <3>3, ForgottenKept DEF NothingForgotten
  <2>6. QED
    BY <2>4, <2>5
<1>3. ASSUME NEW e \in batch, StartEvent(e)
      PROVE  Goal
  <2>1. /\ cur = NoFd /\ cur' = e.fd /\ batch' = batch \ {e}
        /\ UNCHANGED <<ready, running, fdtab>>
        /\ UNCHANGED <<sock, backlog, tunq, accept_failed>>
    BY <1>3 DEF StartEvent, env
  <2>2. \A f \in Watched : Noticed(f)' <=> Noticed(f)
    BY <2>1, FdFacts DEF Noticed
  <2>3. EventsOK'
    <3>1. \A d \in batch' : d.fd /= cur'
      BY <2>1 DEF EventsOK
    <3>2. \A j \in Fds : Noticed(j)' => fdtab'[j] \in Conns
      BY <2>1, <2>2, FdFacts DEF EventsOK
    <3>3. QED
      BY <1>0, <2>1, <3>1, <3>2, EventsKept
  <2>4. NothingForgotten'
    <3>1. Noticed(tun_file) => Noticed(tun_file)'
      BY <2>2 DEF Watched
    <3>2. Noticed(sfd) => Noticed(sfd)'
      BY <2>2 DEF Watched
    <3>3. \A j \in Fds : fdtab'[j] = fdtab[j] /\ (Noticed(j) => Noticed(j)')
      BY <2>1, <2>2, FdFacts
    <3>4. QED
      BY <1>0, <2>1, <3>1, <3>2, <3>3, ForgottenKept DEF NothingForgotten
  <2>5. QED
    BY <2>3, <2>4
<1>4. CASE Accept
  <2>1. cur = sfd /\ UNCHANGED <<sock, tunq, batch, running>>
    BY <1>4 DEF Accept
  <2>2. CASE /\ fdtab' = fdtab /\ backlog' = backlog /\ ready' = ready /\ cur' = NoFd
             /\ backlog /= << >> => accept_failed'
    <3>1. /\ \A f : Noticed(f) => Noticed(f)' \/ f = sfd
          /\ \A f \in Watched : Noticed(f)' => Noticed(f)
      BY <2>1, <2>2, FdFacts DEF Noticed
    <3>2. EventsOK'
      <4>1. \A e \in batch' : e.fd /= cur'
        BY <2>1, <2>2, TypeParts, FdFacts DEF LoopOK
      <4>2. \A j \in Fds : Noticed(j)' => fdtab'[j] \in Conns
        BY <2>2, <3>1, FdFacts DEF EventsOK
      <4>3. QED
        BY <1>0, <2>1, <2>2, <4>1, <4>2, EventsKept
    <3>3. NothingForgotten'
      BY <1>0, <2>1, <2>2, <3>1, FdFacts, ForgottenKept DEF NothingForgotten
    <3>4. QED
      BY <3>2, <3>3
  <2>3. ASSUME Head(backlog) \in Conns, cur' = cur, accept_failed' = accept_failed,
               NEW j \in Fds, fdtab[j] = Free,
               fdtab' = [fdtab EXCEPT ![j] = Head(backlog)],
               ready' = IF \/ sock[Head(backlog)].inq /= << >>
                           \/ sock[Head(backlog)].st \notin {"open", "gone"}
                        THEN ready \cup {j} ELSE ready
        PROVE  Goal
    <3>1. /\ \A i \in Fds : i /= j => fdtab'[i] = fdtab[i]
          /\ fdtab'[j] = Head(backlog) /\ ~Noticed(j)
      BY <1>0, <2>3, FdFacts DEF EventsOK
    <3>2. /\ \A f : Noticed(f) => Noticed(f)'
          /\ \A f : Noticed(f)' => Noticed(f) \/ f = j
      BY <2>1, <2>3 DEF Noticed
    <3>3. EventsOK'
      <4>1. \A e \in batch' : e.fd /= cur'
        BY <2>1, <2>3 DEF EventsOK
      <4>2. \A i \in Fds : Noticed(i)' => /\ fdtab'[i] \in Conns
                                          /\ Noticed(i) => fdtab'[i] = fdtab[i]
        BY <2>3, <3>1, <3>2 DEF EventsOK
      <4>3. QED
        BY <1>0, <2>1, <4>1, <4>2, EventsKept
    <3>4. NothingForgotten'
      <4>1. Pending(fdtab[j])' => Noticed(j)'
        BY <2>1, <2>3, <3>1 DEF Pending, Noticed
      <4>2. Noticed(sfd)'
        BY <2>1, <2>3 DEF Noticed
      <4>3. QED
        BY <1>0, <2>1, <3>1, <3>2, <4>1, <4>2, ForgottenKept DEF NothingForgotten
    <3>5. QED
      BY <3>3, <3>4
  <2>4. QED
    BY <1>4, <2>2, <2>3, AcceptEffect
\* Steps that only let go of descriptor cur, with nothing left to read.
<1>5. ASSUME NEW j \in Fds, ReadNothing(j)
      PROVE  Goal
  <2>1. /\ cur = j /\ cur' = NoFd /\ UNCHANGED <<ready, batch, running, fdtab>>
        /\ UNCHANGED <<sock, backlog, tunq, accept_failed>>
        /\ sock[fdtab[j]].inq = << >> /\ sock[fdtab[j]].st \in {"open", "gone"}
    BY <1>5 DEF ReadNothing, env
  <2>2. /\ \A f : Noticed(f) => Noticed(f)' \/ f = j
        /\ \A f \in Watched : Noticed(f)' => Noticed(f)
    BY <2>1, FdFacts DEF Noticed
  <2>3. EventsOK'
    <3>1. \A e \in batch' : e.fd /= cur'
      BY <2>1, TypeParts, FdFacts DEF LoopOK
    <3>2. \A i \in Fds : Noticed(i)' => fdtab'[i] \in Conns
      BY <2>1, <2>2, FdFacts DEF EventsOK
    <3>3. QED
      BY <1>0, <2>1, <3>1, <3>2, EventsKept
  <2>4. NothingForgotten'
    <3>1. ~Pending(fdtab[j])'
      BY <2>1 DEF Pending
    <3>2. j /= sfd /\ j /= tun_file
      BY FdFacts
    <3>3. \A i \in Fds : /\ fdtab'[i] = fdtab[i]
                         /\ Noticed(i) => Noticed(i)' \/ ~Pending(fdtab[i])'
      BY <2>1, <2>2, <3>1
    <3>4. QED
      BY <1>0, <2>1, <2>2, <3>2, <3>3, ForgottenKept DEF NothingForgotten
  <2>5. QED
    BY <2>3, <2>4
<1>6. ASSUME NEW j \in Fds, ReadEnd(j)
      PROVE  Goal
  <2>1. /\ cur = j /\ cur' = NoFd /\ UNCHANGED <<batch, running>>
        /\ UNCHANGED <<sock, backlog, tunq, accept_failed>>
        /\ fdtab' = [fdtab EXCEPT ![j] = Free] /\ ready' = ready \ {j}
    BY <1>6 DEF ReadEnd, env
  <2>2. /\ \A i \in Fds : i /= j => fdtab'[i] = fdtab[i]
        /\ fdtab'[j] = Free
    BY <1>0, <2>1
  <2>3. /\ \A f : Noticed(f) => Noticed(f)' \/ f = j
        /\ \A f \in Watched : Noticed(f)' => Noticed(f) /\ f /= j
    BY <2>1, FdFacts DEF Noticed, EventsOK
  <2>4. EventsOK'
    <3>1. \A e \in batch' : e.fd /= cur'
      BY <2>1, TypeParts, FdFacts DEF LoopOK
    <3>2. \A i \in Fds : Noticed(i)' => /\ fdtab'[i] \in Conns
                                        /\ Noticed(i) => fdtab'[i] = fdtab[i]
      BY <2>2, <2>3, FdFacts DEF EventsOK
    <3>3. QED
      BY <1>0, <2>1, <3>1, <3>2, EventsKept
  <2>5. NothingForgotten'
    <3>1. j /= sfd /\ j /= tun_file /\ Free \notin Conns
      BY FdFacts
    <3>2. \A i \in Fds : fdtab'[i] \in Conns => /\ fdtab'[i] = fdtab[i]
                                                /\ Noticed(i) => Noticed(i)'
      BY <2>2, <2>3, <3>1
    <3>3. QED
      BY <1>0, <2>1, <2>3, <3>1, <3>2, ForgottenKept DEF NothingForgotten
  <2>6. QED
    BY <2>4, <2>5
<1>7. ASSUME NEW j \in Fds, NEW n, ReadTcp(j, n)
      PROVE  Goal
  BY <1>0, <1>7, EventsAdded DEF ReadTcp
<1>8. CASE ReadTun
  <2>1. /\ cur = tun_file /\ running /\ Forward(Head(tunq))
        /\ UNCHANGED <<backlog, ready, batch, cur, accept_failed>>
    BY <1>8 DEF ReadTun
  <2>2. \A f : Noticed(f)' <=> Noticed(f)
    BY <2>1 DEF Noticed
  <2>3. \/ fdtab' = fdtab
        \/ \E f \in Fds : fdtab[f] = Free /\ fdtab' = [fdtab EXCEPT ![f] = File]
    BY <2>1, ForwardEffect
  <2>4. \A i \in Fds : \/ fdtab'[i] = fdtab[i]
                       \/ fdtab[i] = Free /\ fdtab'[i] = File
    BY <1>0, <2>3
  <2>5. EventsOK'
    <3>1. \A e \in batch' : e.fd /= cur'
      BY <2>1 DEF EventsOK
    <3>2. \A i \in Fds : Noticed(i)' => /\ fdtab'[i] \in Conns
                                        /\ Noticed(i) => fdtab'[i] = fdtab[i]
      BY <2>2, <2>4, FdFacts DEF EventsOK
    <3>3. QED
      BY <1>0, <2>1, <3>1, <3>2, EventsKept
  <2>6. NothingForgotten'
    <3>1. Noticed(tun_file)
      BY <2>1 DEF Noticed
    <3>2. \A i \in Fds : fdtab'[i] \in Conns => fdtab'[i] = fdtab[i]
      BY <2>4, FdFacts
    <3>3. QED
      BY <1>0, <2>1, <2>2, <3>1, <3>2, ForgottenKept DEF NothingForgotten
  <2>7. QED
    BY <2>5, <2>6
<1>9. CASE ReadTunNothing
  <2>1. /\ cur = tun_file /\ cur' = NoFd /\ UNCHANGED <<ready, batch, running, fdtab>>
        /\ UNCHANGED <<sock, backlog, tunq, accept_failed>> /\ tunq = << >>
    BY <1>9 DEF ReadTunNothing, env
  <2>2. /\ \A f : Noticed(f) => Noticed(f)' \/ f = tun_file
        /\ \A f \in Watched : Noticed(f)' => Noticed(f)
    BY <2>1, FdFacts DEF Noticed
  <2>3. EventsOK'
    <3>1. \A e \in batch' : e.fd /= cur'
      BY <2>1, TypeParts, FdFacts DEF LoopOK
    <3>2. \A i \in Fds : Noticed(i)' => fdtab'[i] \in Conns
      BY <2>1, <2>2, FdFacts DEF EventsOK
    <3>3. QED
      BY <1>0, <2>1, <3>1, <3>2, EventsKept
  <2>4. NothingForgotten'
    BY <1>0, <2>1, <2>2, FdFacts, ForgottenKept DEF NothingForgotten
  <2>5. QED
    BY <2>3, <2>4
<1>10. CASE AcceptExits
  <2>1. ~running' /\ UNCHANGED <<ready, batch, cur, fdtab>>
    BY <1>10 DEF AcceptExits
  <2>2. \A f : Noticed(f)' <=> Noticed(f)
    BY <2>1 DEF Noticed
  <2>3. EventsOK'
    BY <1>0, <2>1, <2>2, EventsKept DEF EventsOK
  <2>4. QED
    BY <2>1, <2>3 DEF NothingForgotten
<1>11. QED
  BY <1>1, <1>2, <1>3, <1>4, <1>5, <1>6, <1>7, <1>8, <1>9, <1>10 DEF Server
-----------------------------------------------------------------------------
LEMMA InitServerInv == Init => ServerInv
<1> SUFFICES ASSUME Init PROVE ServerInv
  OBVIOUS
<1>1. /\ sock \in [Conns -> Socks] /\ counts \in Counts
      /\ counts.conns = 0
  <2>1. [peer |-> None, st |-> "unused", inq |-> << >>, poked |-> FALSE] \in Socks
    <3>1. << >> \in Seq(Packets)
      OBVIOUS
    <3>2. QED
      BY <3>1 DEF Socks, States
  <2>2. [conns |-> 0, sends |-> 0, tun |-> 0, assigns |-> 0, exits |-> 0] \in Counts
    BY ServerAssumption DEF Counts
  <2>3. QED
    BY <2>1, <2>2 DEF Init
<1>2. \A j \in Fds : fdtab[j] = Free /\ prefixes[j].ll = None /\ prefixes[j].pd = None
  BY DEF Init
<1>3. PartsOK
  <2>1. [ll |-> None, pd |-> None] \in EntryType
    BY DEF EntryType
  <2>2. QueuesOK
    BY DEF Init, QueuesOK
  <2>3. TablesOK
    BY <2>1 DEF Init, TablesOK
  <2>4. LoopOK
    BY DEF Init, LoopOK
  <2>5. QED
    BY <2>2, <2>3, <2>4 DEF PartsOK
<1>4. TypeOK
  BY <1>1, <1>3, TypeByParts
<1>5. ConnsOK
  <2>1. \A j \in Fds : fdtab[j] <= counts.conns
    BY <1>1, <1>2 DEF Free
  <2>2. Len(backlog) = 0 /\ \A c \in Clients : client[c] = 0
    BY DEF Init
  <2>3. \A i \in 1 .. Len(backlog) : backlog[i] <= counts.conns
    BY <2>2
  <2>4. \A c \in Clients : client[c] <= counts.conns
    BY <1>1, <2>2
  <2>5. QED
    BY <1>1, <2>1, <2>2, <2>3, <2>4 DEF ConnsOK
<1>6. BlocksOK /\ EntryOfConnection
  BY <1>2 DEF Init, BlocksOK, EntryOfConnection
<1>7. EventsOK
  BY FdFacts DEF Init, EventsOK, Noticed
<1>8. NothingForgotten
  BY <1>2, FdFacts DEF Init, NothingForgotten
<1>9. QED
  BY <1>4, <1>5, <1>6, <1>7, <1>8 DEF ServerInv

LEMMA NextServerInv == ServerInv /\ [Next]_vars => ServerInv'
<1> SUFFICES ASSUME ServerInv, [Next]_vars PROVE ServerInv'
  OBVIOUS
<1>1. TypeOK' /\ ConnsOK' /\ BlocksOK' /\ EntryOfConnection'
  BY NextTypes, NextConns, NextEntries DEF ServerInv
<1>2. EventsOK' /\ NothingForgotten'
  <2>1. CASE Next
    BY <2>1, WorldEvents, ServerEvents DEF Next, ServerInv
  <2>2. CASE UNCHANGED vars
    <3>1. UNCHANGED <<sock, backlog, tunq, fdtab, ready, batch, cur, running, accept_failed>>
      BY <2>2 DEF vars, env, server, loop
    <3>2. EventsOK'
      BY <3>1 DEF ServerInv, EventsOK, Noticed, Dead
    <3>3. NothingForgotten'
      BY <3>1 DEF ServerInv, NothingForgotten, Noticed, Dead
    <3>4. QED
      BY <3>2, <3>3
  <2>3. QED
    BY <2>1, <2>2
<1>3. QED
  BY <1>1, <1>2 DEF ServerInv

LEMMA ServerInvariant == Spec => []ServerInv
  BY InitServerInv, NextServerInv, PTL DEF Spec

\* Every variable of tunnel-server.c keeps its type, for any number of clients,
\* connections and descriptors, those past the end of prefixes[] included.
THEOREM ServerTypes == Spec => []TypeOK
<1>1. ServerInv => TypeOK
  BY DEF ServerInv
<1>2. QED
  BY <1>1, ServerInvariant, PTL

\* An address in prefixes[] was learned on the connection that has the descriptor
\* now, however descriptors are reused by accept and fopen.
THEOREM EntriesOfConnections == Spec => []EntryOfConnection
<1>1. ServerInv => EntryOfConnection
  BY DEF ServerInv
<1>2. QED
  BY <1>1, ServerInvariant, PTL

\* Whatever entry of prefixes[] a destination matches, its connection is one of a
\* client the address belongs to or the block was once assigned to.
THEOREM RoutedToOwner == Spec => []RoutesToOwner
<1>1. ServerInv => RoutesToOwner
  <2> SUFFICES ASSUME ServerInv, NEW dst \in Dests, NEW j \in Matches(prefixes, dst)
               PROVE  /\ fdtab[j] \in Conns
                      /\ \/ sock[fdtab[j]].peer = dst
                         \/ <<sock[fdtab[j]].peer, dst>> \in ever
    BY DEF RoutesToOwner
  <2>1. j \in Fds /\ (prefixes[j].pd = dst \/ prefixes[j].ll = dst) /\ dst /= None
    BY NoneAssumption DEF Matches, Entries
  <2>2. prefixes[j].ll /= None
    BY <2>1 DEF ServerInv, BlocksOK
  <2>3. fdtab[j] \in Conns /\ prefixes[j].ll = sock[fdtab[j]].peer
    BY <2>1, <2>2 DEF ServerInv, EntryOfConnection
  <2>4. CASE prefixes[j].ll = dst
    BY <2>3, <2>4
  <2>5. CASE prefixes[j].pd = dst
    BY <2>1, <2>3, <2>5 DEF ServerInv, BlocksOK
  <2>6. QED
    BY <2>1, <2>4, <2>5
<1>2. QED
  BY <1>1, ServerInvariant, PTL

\* Unread input, an end of file and a waiting connection are always still to be
\* reported by epoll_wait or being handled: the edge-triggered loop of
\* tunnel-server.c drains what it is told of.
THEOREM EdgesDrained == Spec => []NothingForgotten
<1>1. ServerInv => NothingForgotten
  BY DEF ServerInv
<1>2. QED
  BY <1>1, ServerInvariant, PTL
-----------------------------------------------------------------------------
Places   == {"socket", "connect", "address", "select", "recv", "tun", "dead"}
TcpState == {"none", "open", "eof", "gone", "reset", "broken"}
TcpType  == [fd : {NoSocket} \cup ClientFds, k : {0} \cup Conns, st : TcpState,
             rx : {0, 1}, used : BOOLEAN, first : {None} \cup Packets]

\* The types of the client's variables, part by part.
ProgramOK == at \in Places /\ back \in {"select", "tun"} /\ rfds \subseteq {"tcp", "tun"}
GatewayOK == tun \in Seq(Packets) /\ addressed \in BOOLEAN /\ faults \in 0 .. MaxFaults

\* select has reported a packet in the TUN device that main has not read yet, be it
\* in the middle of a reconnect.
HasRead == /\ "tun" \in rfds
           /\ at \in {"recv", "tun"} \/ (at \in {"socket", "connect", "address"} /\ back = "tun")

\* There is no socket but tcp_socket, which is descriptor 4 from socket() on.
SocketOK == /\ sockets \subseteq {tcp.fd} /\ sockets \subseteq ClientFds
            /\ at \in {"connect", "address", "select", "recv", "tun"} => tcp.fd = 4

\* The inductive invariant of the client.
ClientInv == ProgramOK /\ GatewayOK /\ tcp \in TcpType /\ SocketOK /\ (HasRead => tun /= << >>)

LEMMA ClientTypesByParts == ClientInv => LinkTypeOK /\ OneSocket
<1> SUFFICES ASSUME ClientInv PROVE LinkTypeOK /\ OneSocket
  OBVIOUS
<1>1. /\ tcp.fd \in {NoSocket} \cup ClientFds /\ tcp.k \in {0} \cup Conns
      /\ tcp.st \in TcpState /\ tcp.rx \in {0, 1} /\ tcp.used \in BOOLEAN
      /\ tcp.first \in {None} \cup Packets
  BY DEF ClientInv, TcpType
<1>2. LinkTypeOK
  BY <1>1 DEF ClientInv, ProgramOK, GatewayOK, SocketOK, LinkTypeOK, TcpState, Packets, Places
<1>3. OneSocket
  BY DEF ClientInv, SocketOK, OneSocket
<1>4. QED
  BY <1>2, <1>3

\* Every step of the link is one TunnelServer allows, or none of the server's.
LEMMA LinkStep ==
  ASSUME ClientInv, [LinkNext]_<<vars, cvars>>
  PROVE  [Next]_vars
<1>1. CASE UNCHANGED <<vars, cvars>>
  BY <1>1
<1>2. CASE Client
  <2>1. CASE Socket \/ AssignAddress \/ Select \/ Recv \/ SkipTun \/ SendFails
    BY <2>1 DEF Socket, AssignAddress, Select, Recv, SkipTun, SendFails
  <2>2. CASE ConnectTcp
    BY <2>2, ClientAssumption DEF ConnectTcp, Next, World
  <2>3. CASE SendTcp
    <3>1. HasRead /\ Send(Me, Head(tun))
      BY <2>3 DEF SendTcp, HasRead
    <3>2. Head(tun) \in Packets
      BY <3>1 DEF ClientInv, GatewayOK
    <3>3. QED
      BY <3>1, <3>2, ClientAssumption DEF Next, World, Packets
  <2>4. QED
    BY <1>2, <2>1, <2>2, <2>3 DEF Client
<1>3. CASE Surroundings
  <2>1. CASE SocketFails \/ ResetFollows \/ Start \/ TimesOut
    BY <2>1 DEF SocketFails, ResetFollows, Start, TimesOut
  <2>2. ASSUME NEW p \in {"ll", "global"}, GatewayPacket(p)
        PROVE  [Next]_vars
    BY <2>2 DEF GatewayPacket
  <2>3. ASSUME NEW how \in {"eof", "reset", "gone"}, Leave(Me, how)
        PROVE  [Next]_vars
    BY <2>3, ClientAssumption DEF Next, World
  <2>4. CASE \E how \in {"eof", "reset"} : ServerEnds(how)
    BY <2>3, <2>4 DEF ServerEnds
  <2>5. CASE \E how \in {"reset", "gone"} : Cut(how)
    BY <2>3, <2>5 DEF Cut
  <2>6. CASE Kill
    BY <2>3, <2>6 DEF Kill
  <2>7. QED
    BY <1>3, <2>1, <2>2, <2>4, <2>5, <2>6 DEF Surroundings
<1>4. CASE ServerStep
  BY <1>4 DEF ServerStep, Next
<1>5. CASE Others
  BY <1>5, ClientAssumption DEF Others, Next, World
<1>6. QED
  BY <1>1, <1>2, <1>3, <1>4, <1>5 DEF LinkNext

\* socket() finds descriptor 4 free once tcp_socket has been closed.
LEMMA SocketIsFour ==
  ASSUME SocketOK, Socket
  PROVE  sockets' = {4} /\ tcp' = [Closed EXCEPT !.fd = 4]
<1> DEFINE rest == sockets \ {tcp.fd}
           j == CHOOSE i \in 4 .. 4 + Cardinality(rest) :
                  i \notin rest /\ \A h \in 4 .. i - 1 : h \in rest
<1>1. rest = {}
  BY DEF SocketOK
<1>2. Cardinality(rest) = 0
  BY <1>1, FS_EmptySet
<1>3. 4 \in 4 .. 4 + Cardinality(rest) /\ 4 \notin rest /\ \A h \in 4 .. 4 - 1 : h \in rest
  BY <1>1, <1>2
<1>4. j \in 4 .. 4 + Cardinality(rest)
  BY <1>3
<1>5. j = 4
  BY <1>2, <1>4
<1>6. sockets' = rest \cup {j} /\ tcp' = [Closed EXCEPT !.fd = j]
  BY DEF Socket
<1>7. QED
  BY <1>1, <1>5, <1>6

\* The client's records.
LEMMA ClosedType ==
  /\ Closed \in TcpType /\ Closed.fd = NoSocket
  /\ [Closed EXCEPT !.fd = 4] \in TcpType /\ [Closed EXCEPT !.fd = 4].fd = 4
<1>1. 4 \in ClientFds /\ "none" \in TcpState
  BY DEF ClientFds, TcpState
<1>2. Closed \in TcpType
  BY <1>1 DEF Closed, TcpType
<1>3. \A t \in TcpType : [t EXCEPT !.fd = 4] \in TcpType /\ [t EXCEPT !.fd = 4].fd = 4
  BY <1>1 DEF TcpType
<1>4. QED
  BY <1>2, <1>3 DEF Closed

LEMMA TcpChange ==
  ASSUME tcp \in TcpType
  PROVE  /\ \A s \in TcpState : LET t == [tcp EXCEPT !.st = s]
                                IN  t \in TcpType /\ t.fd = tcp.fd
         /\ \A s \in TcpState, u \in BOOLEAN :
              LET t == [tcp EXCEPT !.st = s, !.used = u]
              IN  t \in TcpType /\ t.fd = tcp.fd
         /\ \A n \in Conns, s \in TcpState :
              LET t == [tcp EXCEPT !.k = n, !.st = s]
              IN  t \in TcpType /\ t.fd = tcp.fd
         /\ \A x \in {0, 1} : LET t == [tcp EXCEPT !.rx = x]
                              IN  t \in TcpType /\ t.fd = tcp.fd
         /\ \A u \in BOOLEAN : LET t == [tcp EXCEPT !.used = u]
                               IN  t \in TcpType /\ t.fd = tcp.fd
         /\ \A u \in BOOLEAN, p \in {None} \cup Packets :
              LET t == [tcp EXCEPT !.used = u, !.first = p]
              IN  t \in TcpType /\ t.fd = tcp.fd
  BY DEF TcpType

\* What the steps that open and close no socket leave of the client's invariant.
LEMMA ClientKept ==
  ASSUME ClientInv, ProgramOK', GatewayOK', tcp' \in TcpType, tcp'.fd = tcp.fd,
         sockets' = sockets,
         at' \in {"connect", "address", "select", "recv", "tun"}
           => at \in {"connect", "address", "select", "recv", "tun"},
         HasRead' => tun' /= << >>
  PROVE  ClientInv'
<1>1. SocketOK'
  BY DEF ClientInv, SocketOK
<1>2. QED
  BY <1>1 DEF ClientInv

\* Main's own steps.
LEMMA ClientSteps ==
  ASSUME TypeOK, ConnsOK, ClientInv, Client
  PROVE  ClientInv'
<1>0. /\ ProgramOK /\ GatewayOK /\ tcp \in TcpType /\ SocketOK
      /\ HasRead => tun /= << >>
  BY DEF ClientInv
<1>1. CASE Socket
  <2>1. sockets' = {4} /\ tcp' = [Closed EXCEPT !.fd = 4]
    BY <1>0, <1>1, SocketIsFour
  <2>2. tcp' \in TcpType /\ tcp'.fd = 4
    BY <2>1, ClosedType
  <2>3. /\ at = "socket" /\ at' = "connect"
        /\ UNCHANGED <<back, rfds, tun, addressed, faults>>
    BY <1>1 DEF Socket
  <2>4. ProgramOK' /\ GatewayOK' /\ (HasRead' => tun' /= << >>)
    BY <1>0, <2>3 DEF ProgramOK, GatewayOK, HasRead, Places
  <2>5. SocketOK'
    BY <2>1, <2>2 DEF SocketOK, ClientFds
  <2>6. QED
    BY <2>2, <2>4, <2>5 DEF ClientInv
<1>2. CASE ConnectTcp
  <2>1. /\ at = "connect" /\ at' = "address" /\ Connect(Me)
        /\ tcp' = [tcp EXCEPT !.k = counts'.conns, !.st = "open"]
        /\ UNCHANGED <<back, rfds, sockets, tun, addressed, faults>>
    BY <1>2 DEF ConnectTcp
  <2>2. counts'.conns \in Conns
    <3>1. counts \in Counts /\ counts.conns + 1 \in Conns
          /\ counts' = [counts EXCEPT !.conns = counts.conns + 1]
      BY <2>1 DEF Connect, ConnsOK
    <3>2. counts'.conns = counts.conns + 1
      BY <3>1 DEF Counts
    <3>3. QED
      BY <3>1, <3>2
  <2>3. tcp' \in TcpType /\ tcp'.fd = tcp.fd
    <3>1. "open" \in TcpState
      BY DEF TcpState
    <3>2. QED
      BY <1>0, <2>1, <2>2, <3>1, TcpChange
  <2>4. ProgramOK' /\ GatewayOK' /\ (HasRead' => tun' /= << >>)
    BY <1>0, <2>1 DEF ProgramOK, GatewayOK, HasRead, Places
  <2>5. QED
    BY <2>1, <2>3, <2>4, ClientKept
<1>3. CASE AssignAddress
  <2>1. /\ at = "address" /\ at' = back /\ tun' = (IF addressed THEN tun ELSE Append(tun, "ll"))
        /\ addressed' = TRUE /\ UNCHANGED <<back, rfds, sockets, tcp, faults>>
    BY <1>3 DEF AssignAddress
  <2>2. tun' \in Seq(Packets) /\ (tun /= << >> => tun' /= << >>)
    BY <1>0, <2>1 DEF GatewayOK, Packets
  <2>3. ProgramOK' /\ GatewayOK' /\ (HasRead' => tun' /= << >>)
    BY <1>0, <2>1, <2>2 DEF ProgramOK, GatewayOK, HasRead, Places
  <2>4. QED
    BY <1>0, <2>1, <2>3, ClientKept DEF ProgramOK
<1>4. CASE Select
  <2>1. /\ at = "select" /\ at' = "recv" /\ rfds' = Readable
        /\ UNCHANGED <<back, sockets, tcp, tun, addressed, faults>>
    BY <1>4 DEF Select
  <2>2. Readable \subseteq {"tcp", "tun"} /\ ("tun" \in Readable => tun /= << >>)
    BY DEF Readable
  <2>3. ProgramOK' /\ GatewayOK' /\ (HasRead' => tun' /= << >>)
    BY <1>0, <2>1, <2>2 DEF ProgramOK, GatewayOK, HasRead, Places
  <2>4. QED
    BY <1>0, <2>1, <2>3, ClientKept
<1>5. CASE Recv
  <2>1. /\ at = "recv" /\ at' \in {"tun", "socket"}
        /\ back' = back \/ back' = "tun"
        /\ tcp' = tcp \/ tcp' = [tcp EXCEPT !.rx = 0]
        /\ UNCHANGED <<rfds, sockets, tun, addressed, faults>>
    BY <1>5 DEF Recv
  <2>2. tcp' \in TcpType /\ tcp'.fd = tcp.fd
    BY <1>0, <2>1, TcpChange
  <2>3. ProgramOK' /\ GatewayOK' /\ (HasRead' => tun' /= << >>)
    BY <1>0, <2>1 DEF ProgramOK, GatewayOK, HasRead, Places
  <2>4. QED
    BY <2>1, <2>2, <2>3, ClientKept
<1>6. CASE SkipTun
  <2>1. /\ at = "tun" /\ at' = "select"
        /\ UNCHANGED <<back, rfds, sockets, tcp, tun, addressed, faults>>
    BY <1>6 DEF SkipTun
  <2>2. ProgramOK' /\ GatewayOK' /\ (HasRead' => tun' /= << >>)
    BY <1>0, <2>1 DEF ProgramOK, GatewayOK, HasRead, Places
  <2>3. QED
    BY <1>0, <2>1, <2>2, ClientKept
<1>7. ASSUME at = "tun", "tun" \in rfds
      PROVE  tun /= << >> /\ Head(tun) \in Packets /\ Tail(tun) \in Seq(Packets)
  <2>1. tun \in Seq(Packets) /\ tun /= << >>
    BY <1>0, <1>7 DEF HasRead, GatewayOK
  <2>2. QED
    BY <2>1
<1>8. CASE SendTcp
  <2>1. /\ at = "tun" /\ "tun" \in rfds /\ at' = "select" /\ tun' = Tail(tun)
        /\ tcp' = [tcp EXCEPT !.used = TRUE, !.first = IF @ = None THEN Head(tun) ELSE @]
        /\ UNCHANGED <<back, rfds, sockets, addressed, faults>>
    BY <1>8 DEF SendTcp
  <2>2. tcp' \in TcpType /\ tcp'.fd = tcp.fd
    <3> DEFINE p == IF tcp.first = None THEN Head(tun) ELSE tcp.first
    <3>1. p \in {None} \cup Packets
      BY <1>0, <1>7, <2>1 DEF TcpType
    <3>2. tcp' = [tcp EXCEPT !.used = TRUE, !.first = p]
      BY <1>0, <2>1 DEF TcpType
    <3>3. QED
      <4> HIDE DEF p
      <4>1. QED
        BY <1>0, <3>1, <3>2, TcpChange
  <2>3. ProgramOK' /\ GatewayOK' /\ (HasRead' => tun' /= << >>)
    BY <1>0, <1>7, <2>1 DEF ProgramOK, GatewayOK, HasRead, Places
  <2>4. QED
    BY <2>1, <2>2, <2>3, ClientKept
<1>9. CASE SendFails
  <2>1. /\ at = "tun" /\ "tun" \in rfds /\ at' \in {"socket", "dead", "select"}
        /\ back' = "select" /\ tun' = Tail(tun) /\ tcp' = [tcp EXCEPT !.used = TRUE]
        /\ UNCHANGED <<rfds, sockets, addressed, faults>>
    BY <1>9 DEF SendFails
  <2>2. tcp' \in TcpType /\ tcp'.fd = tcp.fd
    BY <1>0, <2>1, TcpChange
  <2>3. ProgramOK' /\ GatewayOK' /\ (HasRead' => tun' /= << >>)
    BY <1>0, <1>7, <2>1 DEF ProgramOK, GatewayOK, HasRead, Places
  <2>4. QED
    BY <2>1, <2>2, <2>3, ClientKept
<1>10. QED
  BY <1>1, <1>2, <1>3, <1>4, <1>5, <1>6, <1>8, <1>9 DEF Client

\* What happens around the client.
LEMMA SurroundingSteps ==
  ASSUME ClientInv, Surroundings
  PROVE  ClientInv'
<1>0. /\ ProgramOK /\ GatewayOK /\ tcp \in TcpType /\ SocketOK
      /\ HasRead => tun /= << >>
  BY DEF ClientInv
<1>1. ASSUME Fault
      PROVE  faults' \in 0 .. MaxFaults
  BY <1>0, <1>1, ClientAssumption DEF Fault, GatewayOK
<1>2. CASE SocketFails
  <2>1. /\ at = "socket" /\ sockets' = sockets \ {tcp.fd}
        /\ \E fd \in {tcp.fd, NoSocket} : tcp' = [Closed EXCEPT !.fd = fd]
        /\ faults' \in 0 .. MaxFaults /\ UNCHANGED <<at, back, rfds, tun, addressed>>
    BY <1>1, <1>2 DEF SocketFails
  <2>2. ProgramOK' /\ GatewayOK' /\ (HasRead' => tun' /= << >>)
    BY <1>0, <2>1 DEF ProgramOK, GatewayOK, HasRead
  <2>3. tcp' \in TcpType
    <3>1. tcp.fd \in {NoSocket} \cup ClientFds
      BY <1>0 DEF TcpType
    <3>2. QED
      BY <2>1, <3>1, ClosedType DEF TcpType
  <2>4. SocketOK'
    BY <1>0, <2>1 DEF SocketOK
  <2>5. QED
    BY <2>2, <2>3, <2>4 DEF ClientInv
<1>3. ASSUME tcp' \in TcpType, tcp'.fd = tcp.fd, UNCHANGED <<program, tun, addressed>>,
             faults' \in 0 .. MaxFaults
      PROVE  ClientInv'
  <2>1. UNCHANGED <<at, back, rfds, sockets, tun, addressed>>
    BY <1>3 DEF program
  <2>2. ProgramOK' /\ GatewayOK' /\ (HasRead' => tun' /= << >>)
    BY <1>0, <1>3, <2>1 DEF ProgramOK, GatewayOK, HasRead
  <2>3. QED
    BY <1>3, <2>1, <2>2, ClientKept
<1>4. \A s \in {"eof", "reset", "gone", "broken"} : s \in TcpState
  BY DEF TcpState
<1>5. CASE ResetFollows
  <2>1. tcp' = [tcp EXCEPT !.st = "broken"] /\ UNCHANGED <<program, tun, addressed, faults>>
    BY <1>5 DEF ResetFollows
  <2>2. tcp' \in TcpType /\ tcp'.fd = tcp.fd
    BY <1>0, <1>4, <2>1, TcpChange
  <2>3. QED
    BY <1>0, <1>3, <2>1, <2>2 DEF GatewayOK
<1>6. CASE TimesOut
  <2>1. tcp' = [tcp EXCEPT !.st = "reset"] /\ UNCHANGED <<program, tun, addressed, faults>>
    BY <1>6 DEF TimesOut
  <2>2. tcp' \in TcpType /\ tcp'.fd = tcp.fd
    BY <1>0, <1>4, <2>1, TcpChange
  <2>3. QED
    BY <1>0, <1>3, <2>1, <2>2 DEF GatewayOK
<1>7. ASSUME NEW how \in {"eof", "reset"}, ServerEnds(how)
      PROVE  ClientInv'
  <2>1. tcp' = [tcp EXCEPT !.st = how] /\ UNCHANGED <<program, tun, addressed, faults>>
    BY <1>7 DEF ServerEnds
  <2>2. tcp' \in TcpType /\ tcp'.fd = tcp.fd
    BY <1>0, <1>4, <2>1, TcpChange
  <2>3. QED
    BY <1>0, <1>3, <2>1, <2>2 DEF GatewayOK
<1>8. ASSUME NEW how \in {"reset", "gone"}, Cut(how)
      PROVE  ClientInv'
  <2>1. /\ tcp' = [tcp EXCEPT !.st = how, !.used = FALSE] /\ faults' \in 0 .. MaxFaults
        /\ UNCHANGED <<program, tun, addressed>>
    BY <1>1, <1>8 DEF Cut
  <2>2. tcp' \in TcpType /\ tcp'.fd = tcp.fd
    BY <1>0, <1>4, <2>1, TcpChange
  <2>3. QED
    BY <1>3, <2>1, <2>2
<1>9. ASSUME NEW p \in {"ll", "global"}, GatewayPacket(p)
      PROVE  ClientInv'
  <2>1. /\ tun' = Append(tun, p) /\ UNCHANGED <<program, tcp, addressed, faults>>
    BY <1>9 DEF GatewayPacket
  <2>2. tun' \in Seq(Packets) /\ tun' /= << >>
    BY <1>0, <2>1 DEF GatewayOK, Packets
  <2>3. UNCHANGED <<at, back, rfds, sockets>>
    BY <2>1 DEF program
  <2>4. ProgramOK' /\ GatewayOK'
    BY <1>0, <2>1, <2>2, <2>3 DEF ProgramOK, GatewayOK
  <2>5. QED
    BY <1>0, <2>1, <2>2, <2>3, <2>4, ClientKept
<1>10. CASE Kill
  <2>1. /\ at' = "dead" /\ tcp' = Closed /\ sockets' = {} /\ faults' \in 0 .. MaxFaults
        /\ UNCHANGED <<back, rfds, tun, addressed>>
    BY <1>1, <1>10 DEF Kill
  <2>2. ProgramOK' /\ GatewayOK' /\ (HasRead' => tun' /= << >>)
    BY <1>0, <2>1 DEF ProgramOK, GatewayOK, HasRead, Places
  <2>3. SocketOK' /\ tcp' \in TcpType
    BY <2>1, ClosedType DEF SocketOK
  <2>4. QED
    BY <2>2, <2>3 DEF ClientInv
<1>11. CASE Start
  <2>1. /\ at' = "socket" /\ back' = "select" /\ tcp' = Closed /\ sockets' = {} /\ rfds' = {}
        /\ tun' = << >> /\ addressed' = FALSE /\ UNCHANGED faults
    BY <1>11 DEF Start
  <2>2. ProgramOK' /\ ~HasRead'
    BY <2>1 DEF ProgramOK, HasRead, Places
  <2>3. GatewayOK'
    <3>1. << >> \in Seq(Packets)
      OBVIOUS
    <3>2. QED
      BY <1>0, <2>1, <3>1 DEF GatewayOK
  <2>4. SocketOK' /\ tcp' \in TcpType
    BY <2>1, ClosedType DEF SocketOK
  <2>5. QED
    BY <2>2, <2>3, <2>4 DEF ClientInv
<1>12. QED
  BY <1>2, <1>5, <1>6, <1>7, <1>8, <1>9, <1>10, <1>11 DEF Surroundings

LEMMA InitClientInv == ClientInit => ClientInv
<1> SUFFICES ASSUME ClientInit PROVE ClientInv
  OBVIOUS
<1>1. ProgramOK /\ ~HasRead
  BY DEF ClientInit, ProgramOK, HasRead, Places
<1>2. GatewayOK
  <2>1. << >> \in Seq(Packets) /\ 0 \in 0 .. MaxFaults
    BY ClientAssumption
  <2>2. QED
    BY <2>1 DEF ClientInit, GatewayOK
<1>3. SocketOK /\ tcp \in TcpType
  BY ClosedType DEF ClientInit, SocketOK
<1>4. QED
  BY <1>1, <1>2, <1>3 DEF ClientInv

\* Every step of the link preserves the client's invariant, given the server's.
LEMMA NextClientInv ==
  ServerInv /\ ClientInv /\ [LinkNext]_<<vars, cvars>> => ClientInv'
<1> SUFFICES ASSUME ServerInv, ClientInv, [LinkNext]_<<vars, cvars>>
             PROVE  ClientInv'
  OBVIOUS
<1>1. CASE Client
  BY <1>1, ClientSteps DEF ServerInv
<1>2. CASE Surroundings
  BY <1>2, SurroundingSteps
<1>3. ASSUME tcp' \in TcpType, tcp'.fd = tcp.fd, UNCHANGED <<program, tun, addressed, faults>>
      PROVE  ClientInv'
  <2>1. UNCHANGED <<at, back, rfds, sockets, tun, addressed, faults>>
    BY <1>3 DEF program
  <2>2. ProgramOK' /\ GatewayOK' /\ (HasRead' => tun' /= << >>)
    BY <2>1 DEF ClientInv, ProgramOK, GatewayOK, HasRead
  <2>3. QED
    BY <1>3, <2>1, <2>2, ClientKept
<1>4. CASE ServerStep
  <2> DEFINE x == IF tcp.st = "open" /\ tunq' /= tunq /\ WritesToMe THEN 1 ELSE tcp.rx
  <2>1. tcp \in TcpType /\ tcp.rx \in {0, 1}
    BY DEF ClientInv, TcpType
  <2>2. x \in {0, 1}
    BY <2>1
  <2>3. tcp' = [tcp EXCEPT !.rx = x] /\ UNCHANGED <<program, tun, addressed, faults>>
    BY <1>4, <2>1 DEF ServerStep, TcpType
  <2>4. tcp' \in TcpType /\ tcp'.fd = tcp.fd
    <3> HIDE DEF x
    <3>1. QED
      BY <2>1, <2>2, <2>3, TcpChange
  <2>5. QED
    BY <1>3, <2>3, <2>4
<1>5. CASE UNCHANGED cvars
  <2>1. UNCHANGED <<program, tcp, tun, addressed, faults>>
    BY <1>5 DEF cvars
  <2>2. QED
    BY <1>3, <2>1 DEF ClientInv
<1>6. QED
  BY <1>1, <1>2, <1>4, <1>5 DEF LinkNext

LEMMA LinkInvariant == LinkSpec => [](ServerInv /\ ClientInv)
<1>1. LinkInit => ServerInv /\ ClientInv
  BY InitServerInv, InitClientInv DEF LinkInit
<1>2. ServerInv /\ ClientInv /\ [LinkNext]_<<vars, cvars>> => ServerInv' /\ ClientInv'
  <2> SUFFICES ASSUME ServerInv, ClientInv, [LinkNext]_<<vars, cvars>>
               PROVE  ServerInv' /\ ClientInv'
    OBVIOUS
  <2>1. [Next]_vars
    BY LinkStep
  <2>2. QED
    BY <2>1, NextServerInv, NextClientInv
<1>3. QED
  BY <1>1, <1>2, PTL DEF LinkSpec

\* tunnel-client.c connected to tunnel-server.c is one of the worlds TunnelServer
\* allows for: every theorem about the server holds when this client uses it.
THEOREM LinkImplementsServer == LinkSpec => ServerSpec
<1>1. LinkInit => Init
  BY DEF LinkInit
<1>2. ClientInv /\ [LinkNext]_<<vars, cvars>> => [Next]_vars
  BY LinkStep
<1>3. QED
  BY <1>1, <1>2, LinkInvariant, PTL DEF LinkSpec, ServerSpec, Spec

\* Every variable of tunnel-client.c keeps its type.
THEOREM LinkTypes == LinkSpec => []LinkTypeOK
<1>1. ClientInv => LinkTypeOK
  BY ClientTypesByParts
<1>2. QED
  BY <1>1, LinkInvariant, PTL

\* However often and from wherever main of tunnel-client.c reconnects, no socket but
\* tcp_socket is open, and it is the same descriptor whenever main selects on it.
THEOREM OnlySocket == LinkSpec => []OneSocket
<1>1. ClientInv => OneSocket
  BY ClientTypesByParts
<1>2. QED
  BY <1>1, LinkInvariant, PTL

\* What tunnel-server.c promises, it promises this client: over all its reconnects
\* prefixes[] routes to the owners of addresses and blocks, no entry outlives its
\* connection's descriptor, and nothing unread is forgotten.
THEOREM LinkKeepsPromises ==
  LinkSpec => [](EntryOfConnection /\ RoutesToOwner /\ NothingForgotten)
  BY LinkImplementsServer, EntriesOfConnections, RoutedToOwner, EdgesDrained, PTL
     DEF ServerSpec
=============================================================================

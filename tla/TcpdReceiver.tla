----------------------------- MODULE TcpdReceiver -----------------------------
(***************************************************************************)
(* The server side of the final project's TCP daemon (src/final/tcpd.c)    *)
(* and the ftps processes it serves: the sessions that data datagrams      *)
(* open, the packages held for them in any order, and the ACCEPT and RECV  *)
(* calls that are answered when there is something to answer them with.    *)
(*                                                                         *)
(* The clients are part of a world that is chosen once: the session number *)
(* each drew with rand(), which another may have drawn as well, the port   *)
(* it connected to, and the SENDs it makes before it ends, perhaps in the  *)
(* middle of its file.  A datagram is the pair <<client, SeqNum>>; the     *)
(* daemon sees no more of its client than the session number.  A byte is   *)
(* its client with its position in the client's stream; package k holds    *)
(* SendLens[k+1] bytes.                                                    *)
(***************************************************************************)
EXTENDS Integers, Sequences, SequencesExt

CONSTANTS
  Clients,   \* the ftpc processes, one connection each
  Sess,      \* session numbers
  Ports,     \* sockets the ftps processes bind, one each
  SendLens,  \* lengths of the SEND calls of a whole file
  Worlds,    \* clients and servers the daemon may meet
  BUF_LEN,   \* Header.h:32
  None,      \* no session, no socket
  Junk       \* a byte of an error reply

ASSUME ReceiverAssumption ==
  /\ SendLens \in Seq(Nat \ {0})
  /\ Worlds \subseteq
       [client : [Clients -> [session : Sess, port : Ports,
                              sends : 0 .. Len(SendLens)]],
        reads  : Seq(Nat \ {0}) \ {<<>>}]
  /\ BUF_LEN \in Nat \ {0}
  /\ None \notin Sess \cup Ports
  /\ Junk \notin Clients

VARIABLES
  world,      \* the clients, and the lengths of ftps' RECVs for a file
  binded,     \* binded_sockets
  Accepting,  \* the bound sockets with an ACCEPT to answer
  waiting,    \* waiting_ack_sockets: sessions no ACCEPT has returned
  acked,      \* keys of acked_sockets: sessions returned by an ACCEPT
  conn,       \* the acked_sock of every session
  todo,       \* what is left of this turn of the select loop
  inData,     \* datagrams select reported, with whether they are garbled
  status,     \* "up", or "exited" once tcpd called exit
  msgs,       \* calls of ftps waiting in tcpd_msg_socket
  ftps,       \* the ftps process of every port
  got,        \* bytes RECVs returned on every session
  ackNet      \* every ack sent

daemon == <<binded, Accepting, waiting, acked, conn, status>>
loop   == <<todo, inData>>
front  == <<msgs, ftps, got>>
vars   == <<world, daemon, loop, front, ackNet>>

Session(c) == world.client[c].session
Dest(c)    == world.client[c].port
ReadLens   == world.reads

\* The ports of the ftps processes that run: those some client connects to.
Servers == {Dest(c) : c \in Clients}

Pkg == Clients \X (0 .. (Len(SendLens) - 1))

\* The datagrams of clients that make their SEND.
Sent == {a \in Pkg : a[2] < world.client[a[1]].sends}

\* Start[k] is the number of bytes SENDs before package k carried.
Start[k \in 0 .. Len(SendLens)] ==
  IF k = 0 THEN 0 ELSE Start[k - 1] + SendLens[k]

Bytes == Clients \X (0 .. (Start[Len(SendLens)] - 1))

\* What an error reply leaves in the buffer of ftps.
JunkByte == <<Junk, 0>>

\* The session opened by a datagram that was read from socket p.
NewConn(p) == [SocketFD |-> p, Base |-> 0, Packages |-> {}, taken |-> 0,
               ReceivingLength |-> 0, RecvBuffer |-> <<>>]

Calls == {"BIND", "ACCEPT", "RECV"}

TypeOK ==
  /\ world \in Worlds
  /\ binded \subseteq Ports
  /\ Accepting \subseteq Ports
  /\ waiting \in Seq(Sess)
  /\ acked \subseteq Sess
  /\ conn \in [Sess -> [SocketFD : Ports \cup {None},
                        Base : 0 .. Len(SendLens),
                        Packages : SUBSET Sent,
                        taken : Nat,
                        ReceivingLength : Nat,
                        RecvBuffer : Seq(Bytes)]]
  /\ todo \subseteq {"msg", "accept", "recv"}
  /\ inData \subseteq Sent \X BOOLEAN
  /\ status \in {"up", "exited"}
  /\ msgs \subseteq Ports \X Calls
  /\ ftps \in [Ports -> [pc : Calls \cup {"waiting", "exited"},
                         sess : Sess \cup {None},
                         reads : 0 .. Len(ReadLens)]]
  /\ got \in [Sess -> Seq(Bytes \cup {JunkByte})]
  /\ ackNet \subseteq Sent

Init ==
  /\ world \in Worlds
  /\ binded = {}
  /\ Accepting = {}
  /\ waiting = <<>>
  /\ acked = {}
  /\ conn = [s \in Sess |-> NewConn(None)]
  /\ todo = {}
  /\ inData = {}
  /\ status = "up"
  /\ msgs = {}
  /\ ftps = [p \in Ports |-> [pc |-> "BIND", sess |-> None, reads |-> 0]]
  /\ got = [s \in Sess |-> <<>>]
  /\ ackNet = {}

-----------------------------------------------------------------------------
(* ftps: BIND, then for every client ACCEPT and the RECVs of a file; every *)
(* call waits for its reply.                                               *)

FtpsCalls(p) ==
  /\ p \in Servers
  /\ ftps[p].pc \in Calls
  /\ msgs' = msgs \cup {<<p, ftps[p].pc>>}
  /\ ftps' = [ftps EXCEPT ![p].pc = "waiting"]
  /\ UNCHANGED <<world, daemon, loop, got, ackNet>>

\* ftps once an ACCEPT returned session s.
Accepted(s) == [pc |-> "RECV", sess |-> s, reads |-> 0]

\* After its last RECV ftps turns to the next client.
AfterRecv(f) ==
  IF f.reads + 1 < Len(ReadLens)
  THEN [f EXCEPT !.pc = "RECV", !.reads = @ + 1]
  ELSE [pc |-> "ACCEPT", sess |-> None, reads |-> 0]

\* A RECV of ftps p returns bytes, which p takes for data whatever they are.
RecvReturns(p, bytes) ==
  /\ got' = [got EXCEPT ![ftps[p].sess] = @ \o bytes]
  /\ ftps' = [ftps EXCEPT ![p] = AfterRecv(@)]

-----------------------------------------------------------------------------
(* One turn of the loop in main: select, process_tcpd_message, recv_data   *)
(* for every readable socket, handle_ack_back, handle_recv_back.           *)

\* At most one datagram is read from each bound socket per turn.
Arrivals ==
  {A \in SUBSET {a \in Sent : Dest(a[1]) \in binded} :
      \A a, b \in A : Dest(a[1]) = Dest(b[1]) => a = b}

\* select finds the datagrams A, some of them garbled.
SelectData(A) ==
  /\ status = "up"
  /\ todo = {}
  /\ todo' = {"accept", "recv"} \cup (IF msgs # {} THEN {"msg"} ELSE {})
  /\ \E Garbled \in SUBSET A : inData' = {<<a, a \in Garbled>> : a \in A}
  /\ UNCHANGED <<world, daemon, front, ackNet>>

Select == \E A \in Arrivals : SelectData(A)

tcpd_BIND(p) ==
  /\ binded' = binded \cup {p}
  /\ ftps' = [ftps EXCEPT ![p].pc = "ACCEPT"]
  /\ UNCHANGED <<Accepting, conn, got>>

\* An ACCEPT on a socket that is not bound, or has an ACCEPT already, is
\* refused, which ends ftps.
tcpd_ACCEPT(p) ==
  /\ IF p \in binded \ Accepting
     THEN Accepting' = Accepting \cup {p} /\ UNCHANGED ftps
     ELSE ftps' = [ftps EXCEPT ![p].pc = "exited"] /\ UNCHANGED Accepting
  /\ UNCHANGED <<binded, conn, got>>

\* A RECV on a session that is not accepted, or has a RECV already, is refused
\* with a number of four bytes.  So is one of no bytes, which ftps never makes.
tcpd_RECV(p) ==
  LET s   == ftps[p].sess
      len == ReadLens[ftps[p].reads + 1]
  IN /\ IF s \in acked /\ conn[s].ReceivingLength = 0
        THEN /\ conn' = [conn EXCEPT ![s].ReceivingLength = len]
             /\ UNCHANGED <<ftps, got>>
        ELSE /\ RecvReturns(p, [i \in 1 .. (IF len < 4 THEN len ELSE 4) |-> JunkByte])
             /\ UNCHANGED conn
     /\ UNCHANGED <<binded, Accepting>>

process_tcpd_message ==
  /\ status = "up"
  /\ "msg" \in todo
  /\ \E p \in Ports, fn \in Calls :
       /\ <<p, fn>> \in msgs
       /\ msgs' = msgs \ {<<p, fn>>}
       /\ \/ fn = "BIND" /\ tcpd_BIND(p)
          \/ fn = "ACCEPT" /\ tcpd_ACCEPT(p)
          \/ fn = "RECV" /\ tcpd_RECV(p)
  /\ todo' = todo \ {"msg"}
  /\ UNCHANGED <<world, waiting, acked, inData, status, ackNet>>

\* Fault: the sessions ftps accepted are not searched.
Known_waiting(s) == \E i \in 1 .. Len(waiting) : waiting[i] = s

\* The session is found in acked_sockets or in waiting_ack_sockets.
Known(s) == s \in acked \/ \E i \in 1 .. Len(waiting) : waiting[i] = s

\* A package of number k is in the list of session s.
Holds(s, k) == \E a \in conn[s].Packages : a[2] = k

\* Fault: a package is kept only when it is the next one, and acknowledged.
Keeps_inOrder(s, k) == conn[s].Base = k /\ ~Holds(s, k)

\* Fault: the package at Base counts as outdated.
Keeps_late(s, k) == conn[s].Base < k /\ ~Holds(s, k)

\* A package that was taken already is outdated, one that is held is not
\* entered again.
Keeps(s, k) == conn[s].Base <= k /\ ~Holds(s, k)

\* A garbled datagram is dropped.  Any other is acknowledged; the first one of
\* a session number opens the session, and its package is kept.
recv_data(a, garbled) ==
  LET s == Session(a[1])
  IN /\ status = "up"
     /\ "msg" \notin todo
     /\ <<a, garbled>> \in inData
     /\ inData' = inData \ {<<a, garbled>>}
     /\ IF garbled
        THEN UNCHANGED <<conn, waiting, ackNet>>
        ELSE /\ IF Known(s)
                THEN /\ conn' = IF Keeps(s, a[2])
                                THEN [conn EXCEPT ![s].Packages = @ \cup {a}]
                                ELSE conn
                     /\ UNCHANGED waiting
                ELSE /\ conn' = [conn EXCEPT ![s] =
                          [NewConn(Dest(a[1])) EXCEPT !.Packages = {a}]]
                     /\ waiting' = Append(waiting, s)
             /\ ackNet' = ackNet \cup {a}
     /\ UNCHANGED <<world, binded, Accepting, acked, todo, status, front>>

\* Of the sessions opened on socket p the one at place i has waited longest.
WaitsFirst(p, i) ==
  /\ conn[waiting[i]].SocketFD = p
  /\ \A j \in 1 .. (i - 1) : conn[waiting[j]].SocketFD # p

\* Fault: the session stays in waiting_ack_sockets.
AnswersAccept_listed(p, i) ==
  /\ p \in Accepting
  /\ WaitsFirst(p, i)
  /\ acked' = acked \cup {waiting[i]}
  /\ Accepting' = Accepting \ {p}
  /\ ftps' = [ftps EXCEPT ![p] = Accepted(waiting[i])]
  /\ UNCHANGED waiting

\* Fault: the socket stays Accepting.
AnswersAccept_accepting(p, i) ==
  /\ p \in Accepting
  /\ WaitsFirst(p, i)
  /\ acked' = acked \cup {waiting[i]}
  /\ waiting' = RemoveAt(waiting, i)
  /\ ftps' = [ftps EXCEPT ![p] = Accepted(waiting[i])]
  /\ UNCHANGED Accepting

\* The ACCEPT on socket p returns the session at place i.
AnswersAccept(p, i) ==
  /\ p \in Accepting
  /\ WaitsFirst(p, i)
  /\ acked' = acked \cup {waiting[i]}
  /\ waiting' = RemoveAt(waiting, i)
  /\ Accepting' = Accepting \ {p}
  /\ ftps' = [ftps EXCEPT ![p] = Accepted(waiting[i])]

\* handle_ack_back, one reply at a time, until no socket has one left.
handle_ack_back ==
  /\ status = "up"
  /\ "msg" \notin todo /\ inData = {}
  /\ "accept" \in todo
  /\ \/ \E p \in Ports, i \in DOMAIN waiting : AnswersAccept(p, i) /\ UNCHANGED todo
     \/ /\ \A p \in Accepting, i \in DOMAIN waiting : ~WaitsFirst(p, i)
        /\ todo' = todo \ {"accept"}
        /\ UNCHANGED <<acked, waiting, Accepting, ftps>>
  /\ UNCHANGED <<world, binded, conn, inData, status, msgs, got, ackNet>>

Recving(s) == s \in acked /\ conn[s].ReceivingLength > 0

\* Room left in the buffer of the RECV on session s.
RemainSize(s) == conn[s].ReceivingLength - Len(conn[s].RecvBuffer)

\* What is left of the package at Base: len of the datagram.
PkgLen(s) == SendLens[conn[s].Base + 1] - conn[s].taken

\* The packages at Base, at most one.
AtBase(s) == {a \in conn[s].Packages : a[2] = conn[s].Base}

\* Fault: the copy starts one byte late.
Body_shifted(s, n) ==
  LET c == (CHOOSE a \in AtBase(s) : TRUE)[1]
  IN [i \in 1 .. n |-> <<c, Start[conn[s].Base] + conn[s].taken + i>>]

\* The first n bytes left of the package at Base.
Body(s, n) ==
  LET c == (CHOOSE a \in AtBase(s) : TRUE)[1]
  IN [i \in 1 .. n |-> <<c, Start[conn[s].Base] + conn[s].taken + i - 1>>]

\* The while loop of handle_recv_back goes on for session s.
Fills(s) ==
  /\ Recving(s)
  /\ conn[s].ReceivingLength <= BUF_LEN
  /\ RemainSize(s) > 0
  /\ AtBase(s) # {}

\* Session s when the package at Base is taken from it.
PackageTaken(s) ==
  [conn[s] EXCEPT !.RecvBuffer = @ \o Body(s, PkgLen(s)),
                  !.Packages = @ \ AtBase(s),
                  !.Base = @ + 1,
                  !.taken = 0]

\* The package at Base fits: its bytes go to RecvBuffer and Base moves on.
TakesPackage(s) ==
  /\ Fills(s)
  /\ PkgLen(s) <= RemainSize(s)
  /\ conn' = [conn EXCEPT ![s] = PackageTaken(s)]

\* The package at Base is too long: its front is cut off and copied beyond
\* RecvBufferSize, which stays, so that the next copy overwrites it.
CutsPackage(s) ==
  /\ Fills(s)
  /\ PkgLen(s) > RemainSize(s)
  /\ conn' = [conn EXCEPT ![s].taken = @ + RemainSize(s)]

\* Fault: RecvBufferSize is not reset.
AnswersRecv_unreset(s) ==
  /\ Recving(s)
  /\ RemainSize(s) = 0
  /\ \E p \in Ports : ftps[p].sess = s /\ RecvReturns(p, conn[s].RecvBuffer)
  /\ conn' = [conn EXCEPT ![s].ReceivingLength = 0]

\* The RECV on session s is answered once its buffer is full.
AnswersRecv(s) ==
  /\ Recving(s)
  /\ RemainSize(s) = 0
  /\ \E p \in Ports : ftps[p].sess = s /\ RecvReturns(p, conn[s].RecvBuffer)
  /\ conn' = [conn EXCEPT ![s].RecvBuffer = <<>>, ![s].ReceivingLength = 0]

\* A RECV longer than the buffer ends the daemon (exit(5)).
TooLong(s) == Recving(s) /\ conn[s].ReceivingLength > BUF_LEN

\* handle_recv_back, one copy or reply at a time, until none is left to do.
handle_recv_back ==
  /\ status = "up"
  /\ todo = {"recv"}
  /\ inData = {}
  /\ \/ \E s \in Sess : (TakesPackage(s) \/ CutsPackage(s))
                        /\ UNCHANGED <<ftps, got, todo, status>>
     \/ \E s \in Sess : AnswersRecv(s) /\ UNCHANGED <<todo, status>>
     \/ /\ \E s \in Sess : TooLong(s)
        /\ status' = "exited"
        /\ UNCHANGED <<conn, ftps, got, todo>>
     \/ /\ \A s \in Sess : Recving(s) =>
             ~Fills(s) /\ ~TooLong(s) /\ RemainSize(s) > 0
        /\ todo' = {}
        /\ UNCHANGED <<conn, ftps, got, status>>
  /\ UNCHANGED <<world, binded, Accepting, waiting, acked, inData, msgs, ackNet>>

-----------------------------------------------------------------------------
Tcpd ==
  \/ Select
  \/ process_tcpd_message
  \/ \E a \in Pkg, garbled \in BOOLEAN : recv_data(a, garbled)
  \/ handle_ack_back
  \/ handle_recv_back

Next == Tcpd \/ \E p \in Ports : FtpsCalls(p)

Spec == Init /\ [][Next]_vars

\* The datagram a reaches its socket undamaged.
GetsThrough(a) ==
  /\ \E A \in Arrivals : a \in A /\ SelectData(A)
  /\ <<a, FALSE>> \in inData'

\* The daemon and the ftps processes keep running; what a client SENDs is sent
\* until it gets through, also when the client has ended, and may never be sent
\* again once it is acknowledged.
Fairness ==
  /\ WF_vars(Tcpd)
  /\ \A p \in Ports : WF_vars(FtpsCalls(p))
  /\ \A a \in Pkg : SF_vars(a \in Sent \ ackNet /\ GetsThrough(a))

FairSpec == Spec /\ Fairness

-----------------------------------------------------------------------------
(* Properties.                                                             *)

Total == Start[Len(SendLens)]

\* The bytes asked for by the first n RECVs for a file.
Asked[n \in 0 .. Len(ReadLens)] ==
  IF n = 0 THEN 0 ELSE Asked[n - 1] + ReadLens[n]

\* ftps reads whole packages, and never more than the daemon can hold.
WholePackages ==
  \A n \in 1 .. Len(ReadLens) :
    /\ ReadLens[n] <= BUF_LEN
    /\ \E k \in DOMAIN Start : Asked[n] = Start[k]

\* What RECVs return on a session is the beginning of what its client sent:
\* every byte once, in order, none of them an error reply, whatever the order,
\* repetition and loss of the datagrams (tcpd.c:163-191, 376-441).  Of clients
\* that drew the same number every position is returned once.
StreamPrefix ==
  \A s \in Sess : \A i \in 1 .. Len(got[s]) :
    /\ got[s][i][2] = i - 1
    /\ got[s][i][1] \in {c \in Clients : Session(c) = s}

\* The stream is whole when ftps reads whole packages.  However ftps reads, no
\* byte comes twice or before an older one, and none of another session.
InOrder ==
  /\ WholePackages => StreamPrefix
  /\ \A s \in Sess : \A i \in 1 .. Len(got[s]) :
       /\ got[s][i][1] \in {c \in Clients : Session(c) = s}
       /\ \A j \in 1 .. (i - 1) : got[s][j][2] < got[s][i][2]

\* A package that was acknowledged, and that the client therefore forgets, is
\* held for ftps or was handed to it: the receiver never goes back on an ack,
\* even of a session no ACCEPT has returned (tcpd.c:151-161, 188-210).  With a
\* number that two clients share, it is the package of one of them, held once.
AckedIsKept ==
  \A a \in ackNet :
    LET s == Session(a[1])
    IN /\ Known(s)
       /\ \/ a[2] < conn[s].Base
          \/ \E b \in conn[s].Packages :
               /\ b[2] = a[2]
               /\ \A d \in conn[s].Packages : d[2] = a[2] => d = b
               /\ Session(b[1]) = s

\* A session is waiting for an ACCEPT or was returned by one, not both, and
\* is waiting once; the ftps processes of two ports never hold the same one,
\* even when clients of both ports drew its number.
AcceptedOnce ==
  /\ \A i, j \in 1 .. Len(waiting) :
       waiting[i] \notin acked /\ (waiting[i] = waiting[j] => i = j)
  /\ \A p, q \in Ports :
       p # q /\ ftps[p].sess = ftps[q].sess => ftps[p].sess = None

\* Data of a file that is complete, arriving late, never opens its session a
\* second time: what an ACCEPT returned stays accepted and known
\* (tcpd.c:136-161), with its Base.
StaysAccepted ==
  [][\A s \in Sess :
       s \in acked => s \in acked' /\ conn'[s].Base >= conn[s].Base]_vars

\* A server that asks for no more than the daemon can hold never ends the
\* daemon (tcpd.c:390-394), nor is refused an ACCEPT, whatever its clients do.
NoExit ==
  (\A n \in 1 .. Len(ReadLens) : ReadLens[n] <= BUF_LEN) =>
    status = "up" /\ \A p \in Ports : ftps[p].pc # "exited"

\* Some client of session s makes all its SENDs.
Complete(s) ==
  \E c \in Clients : Session(c) = s /\ world.client[c].sends = Len(SendLens)

\* The ftps of a client of s serves a client that ended before its file did.
Stuck(s) ==
  \E c \in Clients :
    /\ Session(c) = s
    /\ ftps[Dest(c)].sess # None
    /\ ~Complete(ftps[Dest(c)].sess)

\* Every file is received in the end, those of clients that connect while ftps
\* is busy with another one too, unless their ftps waits for good in the RECV
\* of a client that ended early (ftps.c:84-124): only such a client, and no
\* loss, keeps the others from being served.
FilesReceived ==
  \A s \in Sess :
    Complete(s) /\ WholePackages =>
      <>(Len(got[s]) = Total) \/ <>[]Stuck(s)
=============================================================================

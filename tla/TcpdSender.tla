------------------------------ MODULE TcpdSender ------------------------------
(***************************************************************************)
(* The client side of the final project's TCP daemon (src/final/tcpd.c):   *)
(* the calls of ftpc, the selective-repeat buffer of every connected       *)
(* socket, the acknowledgements and timer expiries the select loop handles *)
(* and the (re)transmissions it ends with, together with the timer process *)
(* it talks to and the lossy network ("troll") around it.                  *)
(*                                                                         *)
(* A package is the pair <<socket, SeqNum>>.  The lists Packages and       *)
(* PendingPackages are sets of packages: no SeqNum is queued twice and     *)
(* neither the match in recv_ack/recv_timer nor the test that selects what *)
(* is sent depends on the order of a list.  The session a socket draws     *)
(* with rand() stands for the socket itself.                               *)
(***************************************************************************)
EXTENDS Naturals, Sequences, FiniteSets

CONSTANTS
  Socks,                \* descriptors tcpd_SOCKET handed to ftpc processes
  MAX_BUFFER_PACKAGES,  \* Header.h:34
  MINSEQ_INIT,          \* the 100000000 handle_send_all_back starts MinSeq at
  MaxSeq,               \* bound: packages ftpc sends on one socket
  MaxTimerRequests      \* bound: requests about one package queued at the timer

ASSUME SenderAssumption ==
  /\ MAX_BUFFER_PACKAGES \in Nat \ {0}
  /\ MINSEQ_INIT \in Nat
  /\ MaxSeq \in 0 .. MINSEQ_INIT   \* a file has less than 2^32 bytes
  /\ MaxTimerRequests \in Nat \ {0}

VARIABLES
  calls,               \* the call of ftpc waiting in tcpd_msg_socket, if any
  ConnectedSockets,    \* keys of the hash table
  Base,                \* next SeqNum of every socket
  Packages,            \* sent, not acknowledged
  PendingPackages,     \* to be sent (new or timed out)
  in_buffer_packages,  \* the counter that gates tcpd_msg_socket
  todo,                \* what is left of this turn of the select loop
  inAcks,              \* acks select reported, with whether they are garbled
  status,              \* "up", or "exited" once tcpd called exit
  timerQ,              \* requests on their way to the timer, per package
  armed,               \* nodes of the timer's list
  expired,             \* expiries waiting in sock_timer_driver
  dataNet,             \* data datagrams in the network
  ackNet               \* ack datagrams in the network

daemon == <<ConnectedSockets, Base, Packages, PendingPackages,
            in_buffer_packages, status>>
loop   == <<todo, inAcks>>
timer  == <<timerQ, armed, expired>>
net    == <<dataNet, ackNet>>
vars   == <<calls, daemon, loop, timer, net>>

Pkg == Socks \X (0 .. (MaxSeq - 1))
SockOf(p) == p[1]
SeqNum(p) == p[2]

TypeOK ==
  /\ calls \subseteq {"CONNECT", "SEND"} \X Socks
  /\ ConnectedSockets \subseteq Socks
  /\ Base \in [Socks -> 0 .. MaxSeq]
  /\ Packages \subseteq Pkg
  /\ PendingPackages \subseteq Pkg
  /\ in_buffer_packages \in Nat
  /\ todo \subseteq {"msg", "timer", "back"}
  /\ inAcks \subseteq Pkg \X BOOLEAN
  /\ status \in {"up", "exited"}
  /\ timerQ \in [Pkg -> Seq({"start", "cancel"})]
  /\ armed \subseteq Pkg
  /\ expired \subseteq Pkg
  /\ dataNet \subseteq Pkg
  /\ ackNet \subseteq Pkg

Init ==
  /\ calls = {}
  /\ ConnectedSockets = {}
  /\ Base = [s \in Socks |-> 0]
  /\ Packages = {}
  /\ PendingPackages = {}
  /\ in_buffer_packages = 0
  /\ todo = {}
  /\ inAcks = {}
  /\ status = "up"
  /\ timerQ = [p \in Pkg |-> <<>>]
  /\ armed = {}
  /\ expired = {}
  /\ dataNet = {}
  /\ ackNet = {}

-----------------------------------------------------------------------------
(* ftpc: CONNECT once, then one SEND after the other; every call waits for *)
(* its reply, and one ftpc runs at a time.                                 *)

FtpcConnect(s) ==
  /\ calls = {}
  /\ s \notin ConnectedSockets
  /\ calls' = {<<"CONNECT", s>>}
  /\ UNCHANGED <<daemon, loop, timer, net>>

FtpcSend(s) ==
  /\ calls = {}
  /\ s \in ConnectedSockets
  /\ Base[s] < MaxSeq
  /\ calls' = {<<"SEND", s>>}
  /\ UNCHANGED <<daemon, loop, timer, net>>

-----------------------------------------------------------------------------
(* One turn of the loop in main: select, then process_tcpd_message,        *)
(* recv_ack, recv_timer, and always handle_send_all_back.                  *)

\* Fault: the gate is off by one.
MsgReadable_late == calls # {} /\ in_buffer_packages <= MAX_BUFFER_PACKAGES

\* re_register_fd leaves tcpd_msg_socket out while the buffer is full.
MsgReadable == calls # {} /\ in_buffer_packages < MAX_BUFFER_PACKAGES

\* At most one datagram is read from each connected socket per turn.
Arrivals ==
  {A \in SUBSET {a \in ackNet : /\ SockOf(a) \in ConnectedSockets
                                /\ Len(timerQ[a]) < MaxTimerRequests} :
      \A a, b \in A : SockOf(a) = SockOf(b) => a = b}

\* select: what is ready now is what this turn handles.  A duplicated ack
\* stays in the network, the others (Last) leave it; some are garbled.
SelectAcks(A) ==
  /\ status = "up"
  /\ todo = {}
  /\ todo' = {"back"} \cup (IF MsgReadable THEN {"msg"} ELSE {})
                      \cup (IF expired # {} THEN {"timer"} ELSE {})
  /\ \E Last \in SUBSET A : \E Garbled \in SUBSET A :
       /\ ackNet' = ackNet \ Last
       /\ inAcks' = {<<a, a \in Garbled>> : a \in A}
  /\ UNCHANGED <<calls, daemon, timer, dataNet>>

Select == \E A \in Arrivals : SelectAcks(A)

\* Fault: a new connection takes the place of the last one.
tcpd_CONNECT_single(s) ==
  /\ ConnectedSockets' = {s}
  /\ Base' = [Base EXCEPT ![s] = 0]
  /\ Packages' = {p \in Packages : SockOf(p) # s}
  /\ PendingPackages' = {p \in PendingPackages : SockOf(p) # s}
  /\ UNCHANGED <<in_buffer_packages, status>>

\* The socket gets a fresh record in ConnectedSockets.
tcpd_CONNECT(s) ==
  /\ ConnectedSockets' = ConnectedSockets \cup {s}
  /\ Base' = [Base EXCEPT ![s] = 0]
  /\ Packages' = {p \in Packages : SockOf(p) # s}
  /\ PendingPackages' = {p \in PendingPackages : SockOf(p) # s}
  /\ UNCHANGED <<in_buffer_packages, status>>

\* SEND on a socket that is not connected ends the daemon (exit(1)).  One of more
\* than BUF_LEN bytes does too (exit(5)), but ftpc sends no more than BUF_LEN.
tcpd_SEND(s) ==
  IF s \in ConnectedSockets
  THEN /\ Base' = [Base EXCEPT ![s] = @ + 1]
       /\ PendingPackages' = PendingPackages \cup {<<s, Base[s]>>}
       /\ in_buffer_packages' = in_buffer_packages + 1
       /\ UNCHANGED <<ConnectedSockets, Packages, status>>
  ELSE /\ status' = "exited"
       /\ UNCHANGED <<ConnectedSockets, Base, Packages, PendingPackages,
                      in_buffer_packages>>

process_tcpd_message ==
  /\ status = "up"
  /\ "msg" \in todo
  /\ \E s \in Socks :
       \/ <<"CONNECT", s>> \in calls /\ tcpd_CONNECT(s)
       \/ <<"SEND", s>> \in calls /\ tcpd_SEND(s)
  /\ calls' = {}
  /\ todo' = todo \ {"msg"}
  /\ UNCHANGED <<inAcks, timer, net>>

\* Fault: the count goes down with every ack, the repeated ones too.
recv_ack_recount(a, garbled) ==
  /\ status = "up"
  /\ "msg" \notin todo
  /\ <<a, garbled>> \in inAcks
  /\ inAcks' = inAcks \ {<<a, garbled>>}
  /\ IF garbled
     THEN UNCHANGED <<Packages, in_buffer_packages, timerQ>>
     ELSE /\ Packages' = Packages \ {a}
          /\ in_buffer_packages' = in_buffer_packages - 1
          /\ timerQ' = [timerQ EXCEPT ![a] = Append(@, "cancel")]
  /\ UNCHANGED <<calls, ConnectedSockets, Base, PendingPackages, status, todo,
                 armed, expired, net>>

\* A garbled ack is dropped.  A good one releases its package if it is in
\* Packages, and cancels its timer whether it is or not.
recv_ack(a, garbled) ==
  /\ status = "up"
  /\ "msg" \notin todo
  /\ <<a, garbled>> \in inAcks
  /\ inAcks' = inAcks \ {<<a, garbled>>}
  /\ IF garbled
     THEN UNCHANGED <<Packages, in_buffer_packages, timerQ>>
     ELSE /\ Packages' = Packages \ {a}
          /\ in_buffer_packages' =
               IF a \in Packages THEN in_buffer_packages - 1
                                 ELSE in_buffer_packages
          /\ timerQ' = [timerQ EXCEPT ![a] = Append(@, "cancel")]
  /\ UNCHANGED <<calls, ConnectedSockets, Base, PendingPackages, status, todo,
                 armed, expired, net>>

\* Fault: the package is queued again without a look at Packages.
recv_timer_blind(p) ==
  /\ status = "up" /\ inAcks = {} /\ "msg" \notin todo
  /\ "timer" \in todo
  /\ p \in expired
  /\ expired' = expired \ {p}
  /\ todo' = todo \ {"timer"}
  /\ Packages' = Packages \ {p}
  /\ PendingPackages' = PendingPackages \cup {p}
  /\ UNCHANGED <<calls, ConnectedSockets, Base, in_buffer_packages, status,
                 inAcks, timerQ, armed, net>>

\* Fault: an expired package is dropped from Packages and not queued again.
recv_timer_drops(p) ==
  /\ status = "up" /\ inAcks = {} /\ "msg" \notin todo
  /\ "timer" \in todo
  /\ p \in expired
  /\ expired' = expired \ {p}
  /\ todo' = todo \ {"timer"}
  /\ UNCHANGED <<calls, daemon, inAcks, timerQ, armed, net>>

\* Fault: only the session is compared, so that any package may be moved.
recv_timer_session(p) ==
  /\ status = "up" /\ inAcks = {} /\ "msg" \notin todo
  /\ "timer" \in todo
  /\ p \in expired
  /\ expired' = expired \ {p}
  /\ todo' = todo \ {"timer"}
  /\ \E q \in {q \in Packages : SockOf(q) = SockOf(p)} :
       /\ Packages' = Packages \ {q}
       /\ PendingPackages' = PendingPackages \cup {q}
  /\ UNCHANGED <<calls, ConnectedSockets, Base, in_buffer_packages, status,
                 inAcks, timerQ, armed, net>>

\* An expiry moves its package, if still unacknowledged, to the pending list.
\* An expiry of an unknown session ends the daemon (exit(5)).
recv_timer(p) ==
  /\ status = "up"
  /\ inAcks = {}
  /\ "msg" \notin todo
  /\ "timer" \in todo
  /\ p \in expired
  /\ expired' = expired \ {p}
  /\ todo' = todo \ {"timer"}
  /\ IF SockOf(p) \in ConnectedSockets
     THEN /\ Packages' = Packages \ {p}
          /\ PendingPackages' = PendingPackages \cup (Packages \cap {p})
          /\ UNCHANGED status
     ELSE /\ status' = "exited"
          /\ UNCHANGED <<Packages, PendingPackages>>
  /\ UNCHANGED <<calls, ConnectedSockets, Base, in_buffer_packages, inAcks,
                 timerQ, armed, net>>

\* Fault: MinSeq starts at 0.
InWindow_fromZero(p) ==
  /\ SockOf(p) \in ConnectedSockets
  /\ SeqNum(p) < MAX_BUFFER_PACKAGES
  /\ \A q \in Packages :
       SockOf(q) = SockOf(p) => SeqNum(p) < SeqNum(q) + MAX_BUFFER_PACKAGES

\* The pending package p lies below MinSeq + MAX_BUFFER_PACKAGES, with MinSeq
\* the least SeqNum sent on its socket, or MINSEQ_INIT if that is less.
InWindow(p) ==
  /\ SockOf(p) \in ConnectedSockets
  /\ SeqNum(p) < MINSEQ_INIT + MAX_BUFFER_PACKAGES
  /\ \A q \in Packages :
       SockOf(q) = SockOf(p) => SeqNum(p) < SeqNum(q) + MAX_BUFFER_PACKAGES

Sending == {p \in PendingPackages : InWindow(p)}

\* Every pending package inside the window is sent and its timer started.
handle_send_all_back ==
  /\ status = "up"
  /\ todo = {"back"}
  /\ inAcks = {}
  /\ todo' = {}
  /\ Packages' = Packages \cup Sending
  /\ PendingPackages' = PendingPackages \ Sending
  /\ dataNet' = dataNet \cup Sending
  /\ timerQ' = [p \in Pkg |-> IF p \in Sending THEN Append(timerQ[p], "start")
                                               ELSE timerQ[p]]
  /\ UNCHANGED <<calls, ConnectedSockets, Base, in_buffer_packages, status,
                 inAcks, armed, expired, ackNet>>

-----------------------------------------------------------------------------
(* The timer process, reduced to the set of its nodes (DeltaTimer models   *)
(* its list).  Requests about one package are served in order; a start for *)
(* a package that has a node already is refused, which leaves the node.    *)

TimerServes(p) ==
  /\ timerQ[p] # <<>>
  /\ armed' = IF Head(timerQ[p]) = "start" THEN armed \cup {p}
                                           ELSE armed \ {p}
  /\ timerQ' = [timerQ EXCEPT ![p] = Tail(@)]
  /\ UNCHANGED <<calls, daemon, loop, expired, net>>

TimerExpires(p) ==
  /\ p \in armed
  /\ armed' = armed \ {p}
  /\ expired' = expired \cup {p}
  /\ UNCHANGED <<calls, daemon, loop, timerQ, net>>

-----------------------------------------------------------------------------
(* The rest of the world: the server's daemon acknowledges every datagram  *)
(* that reaches it (TcpdReceiver models it); the troll loses datagrams.    *)

\* A data datagram arrives, once more if it stays, and is acknowledged.
ServerAcks(p) ==
  /\ p \in dataNet
  /\ dataNet' \in {dataNet, dataNet \ {p}}
  /\ ackNet' = ackNet \cup {p}
  /\ UNCHANGED <<calls, daemon, loop, timer>>

LosesData(p) ==
  /\ p \in dataNet
  /\ dataNet' = dataNet \ {p}
  /\ UNCHANGED <<calls, daemon, loop, timer, ackNet>>

LosesAck(p) ==
  /\ p \in ackNet
  /\ ackNet' = ackNet \ {p}
  /\ UNCHANGED <<calls, daemon, loop, timer, dataNet>>

-----------------------------------------------------------------------------
Tcpd ==
  \/ Select
  \/ process_tcpd_message
  \/ \E a \in Pkg, garbled \in BOOLEAN : recv_ack(a, garbled)
  \/ \E p \in Pkg : recv_timer(p)
  \/ handle_send_all_back

Next ==
  \/ \E s \in Socks : FtpcConnect(s) \/ FtpcSend(s)
  \/ Tcpd
  \/ \E p \in Pkg : TimerServes(p) \/ TimerExpires(p)
  \/ \E p \in Pkg : ServerAcks(p) \/ LosesData(p) \/ LosesAck(p)

Spec == Init /\ [][Next]_vars

\* An ack of p reaches its socket undamaged.
AckGetsThrough(p) ==
  /\ \E A \in Arrivals : p \in A /\ SelectAcks(A)
  /\ <<p, FALSE>> \in inAcks'

Sends(p) == p \in Sending /\ handle_send_all_back

\* tcpd and the timer keep running, and an expiry waiting at its socket is
\* read at last.
ProcessFairness ==
  /\ WF_vars(Tcpd)
  /\ \A p \in Pkg : /\ WF_vars(TimerServes(p))
                    /\ WF_vars(TimerExpires(p))
                    /\ SF_vars(recv_timer(p))

\* The troll loses, but not everything: of a datagram that is sent again and
\* again some copy arrives, and so does some ack of it.
FairLossy ==
  \A p \in Pkg :
    /\ []<><<Sends(p)>>_vars => []<><<ServerAcks(p)>>_vars
    /\ []<><<ServerAcks(p)>>_vars => []<><<AckGetsThrough(p)>>_vars

FairSpec == Spec /\ ProcessFairness /\ FairLossy

-----------------------------------------------------------------------------
(* Properties.                                                             *)

Buffered == Packages \cup PendingPackages

\* Every SeqNum below Base was given to a package; it is released once an ack
\* has taken it out of both lists.
Released(p) == SeqNum(p) < Base[SockOf(p)] /\ p \notin Buffered

\* The counter that gates the calls of ftpc (tcpd.c:14, 267, 882) is the
\* number of packages the two lists hold, and no package is on both: no
\* order of late acks, expiries and retransmissions makes it drift.
BufferCount ==
  /\ Packages \cap PendingPackages = {}
  /\ in_buffer_packages = Cardinality(Packages) + Cardinality(PendingPackages)

\* The daemon never holds more than MAX_BUFFER_PACKAGES packages, although the
\* gate of re_register_fd is read before select and used after it.
BufferBound == in_buffer_packages <= MAX_BUFFER_PACKAGES

StartOnItsWay(p) ==
  timerQ[p] # <<>> /\ timerQ[p][Len(timerQ[p])] = "start"

\* A package that is sent and not acknowledged is always watched by exactly
\* one of: a start on its way to the timer, a node of the timer that no
\* cancel is about to remove, an expiry on its way back.  Otherwise a lost
\* datagram would never be sent again (tcpd.c:275, 316-326, 500).
TimerWatches ==
  \A p \in Packages :
    \/ StartOnItsWay(p) /\ p \notin armed \cup expired
    \/ timerQ[p] = <<>> /\ (p \in armed <=> p \notin expired)

\* A package that waits to be sent again has no timer, and nothing but
\* cancels on its way to the timer: the start of its next transmission meets
\* no node of an earlier one, which InsertRequest would refuse (timer.c:114).
PendingUntimed ==
  \A p \in PendingPackages :
    /\ p \notin armed \cup expired
    /\ \A i \in 1 .. Len(timerQ[p]) : timerQ[p][i] = "cancel"

\* The timer has exactly the packages in flight to watch: those that were sent
\* and not acknowledged, once each, and none of those that wait to be sent,
\* whatever cancels, expiries and starts cross each other on their way.
TimerAgrees == TimerWatches /\ PendingUntimed

\* When a turn ends, a package still waiting to be sent waits for an older one
\* of its socket, which is sent: the window test never leaves a socket with
\* packages to send and none that an ack or an expiry will come back for.
WaitsForOlder ==
  todo = {} => \A p \in PendingPackages :
                 \E q \in Packages : SockOf(q) = SockOf(p) /\ SeqNum(q) < SeqNum(p)

\* No order of events makes the daemon meet a socket or a session it does not
\* know, which ends it (tcpd.c:308-312, 861-865).
NoExit == status = "up"

\* Once released, a package is never queued, sent or counted again, whatever
\* late acks and expiries are still about (tcpd.c:261-272, 316-326).
StaysReleased ==
  [][\A p \in Pkg : Released(p) => Released(p)' /\ p \notin dataNet' \ dataNet]_vars

\* Every call of ftpc returns, a SEND that finds the buffer full too: acks make
\* room at last.
CallsReturn == (calls # {}) ~> (calls = {})

\* Every package ftpc hands over is acknowledged at last, through losses,
\* garbled acks, expiries and the skips of the window test.
PackagesReleased == \A p \in Pkg : (p \in Buffered) ~> (p \notin Buffered)
=============================================================================

------------------------------ MODULE TcpdSystem ------------------------------
(***************************************************************************)
(* The final project as a whole: the client's daemon with its timer        *)
(* (TcpdSender), the server's daemon with its ftps (TcpdReceiver), and the *)
(* troll between them.  The datagrams the server's select finds are those  *)
(* the client sent, and its acks are those the client's select finds.      *)
(***************************************************************************)
EXTENDS Integers, Sequences

CONSTANTS
  Sess, Ports, SendLens, Worlds, BUF_LEN, None, Junk,
  MAX_BUFFER_PACKAGES, MINSEQ_INIT, MaxTimerRequests

VARIABLES
  \* the client, as in TcpdSender
  calls, ConnectedSockets, Base, Packages, PendingPackages,
  in_buffer_packages, todo, inAcks, status, timerQ, armed, expired,
  \* the troll
  dataNet, ackNet,
  \* the server, as in TcpdReceiver
  world, binded, Accepting, waiting, acked, conn, serverTodo, inData,
  serverStatus, msgs, ftps, got, acksSent

S == INSTANCE TcpdSender WITH Socks <- Sess, MaxSeq <- Len(SendLens)
R == INSTANCE TcpdReceiver WITH
       Clients <- Sess, todo <- serverTodo, status <- serverStatus, ackNet <- acksSent

\* Every client has a session number of its own, which names it here, and
\* sends its whole file.
ASSUME SystemAssumption ==
  /\ S!SenderAssumption
  /\ R!ReceiverAssumption
  /\ \A w \in Worlds : \A s \in Sess :
       w.client[s].session = s /\ w.client[s].sends = Len(SendLens)

clientVars == <<calls, ConnectedSockets, Base, Packages, PendingPackages,
                in_buffer_packages, todo, inAcks, status, timerQ, armed, expired>>
troll      == <<dataNet, ackNet>>
serverVars == <<world, binded, Accepting, waiting, acked, conn, serverTodo,
                inData, serverStatus, msgs, ftps, got, acksSent>>
vars == <<clientVars, troll, serverVars>>

Init == S!Init /\ R!Init

\* A step of the client or a loss in the troll.
Client ==
  /\ \/ \E s \in Sess : S!FtpcConnect(s) \/ S!FtpcSend(s)
     \/ S!Tcpd
     \/ \E p \in S!Pkg : S!TimerServes(p) \/ S!TimerExpires(p)
     \/ \E p \in S!Pkg : S!LosesData(p) \/ S!LosesAck(p)
  /\ UNCHANGED serverVars

\* The server's select finds datagrams of the troll; one that is duplicated
\* stays there.
ServerSelects(A) ==
  /\ A \subseteq dataNet
  /\ R!SelectData(A)
  /\ \E Last \in SUBSET A : dataNet' = dataNet \ Last
  /\ UNCHANGED <<clientVars, ackNet>>

ServerReceives(p, garbled) ==
  /\ R!recv_data(p, garbled)
  /\ ackNet' = IF garbled THEN ackNet ELSE ackNet \cup {p}
  /\ UNCHANGED <<clientVars, dataNet>>

ServerTurn ==
  \/ \E A \in R!Arrivals : ServerSelects(A)
  \/ \E p \in S!Pkg, garbled \in BOOLEAN : ServerReceives(p, garbled)
  \/ /\ R!process_tcpd_message \/ R!handle_ack_back \/ R!handle_recv_back
     /\ UNCHANGED <<clientVars, troll>>

Server ==
  \/ ServerTurn
  \/ \E p \in Ports : R!FtpsCalls(p) /\ UNCHANGED <<clientVars, troll>>

Next == Client \/ Server

Spec == Init /\ [][Next]_vars

DataGetsThrough(p) ==
  /\ \E A \in R!Arrivals : p \in A /\ ServerSelects(A)
  /\ <<p, FALSE>> \in inData'

\* All processes keep running, and the troll delivers some copy of a datagram
\* that is sent again and again.
Fairness ==
  /\ WF_vars(S!Tcpd /\ UNCHANGED serverVars)
  /\ WF_vars(ServerTurn)
  /\ \A p \in Ports : WF_vars(R!FtpsCalls(p) /\ UNCHANGED <<clientVars, troll>>)
  /\ \A p \in S!Pkg :
       /\ WF_vars(S!TimerServes(p) /\ UNCHANGED serverVars)
       /\ WF_vars(S!TimerExpires(p) /\ UNCHANGED serverVars)
       /\ SF_vars(S!recv_timer(p) /\ UNCHANGED serverVars)
       /\ []<><<S!Sends(p)>>_vars => []<><<DataGetsThrough(p)>>_vars
       /\ []<><<ServerReceives(p, FALSE)>>_vars
            => []<><<S!AckGetsThrough(p)>>_vars

FairSpec == Spec /\ Fairness

-----------------------------------------------------------------------------
(* Properties.                                                             *)

Stream == INSTANCE ReliableStream WITH Lens <- SendLens, sent <- Base

\* Both daemons, the timer and the troll together are a reliable byte stream:
\* what RECVs return is, in order and once, what SENDs handed over (tcpudp.c).
IsReliableStream == Stream!Spec

\* And nothing that was handed over fails to come out in the end.
IsFairReliableStream == Stream!FairSpec

\* The client forgets only what the server has: a package that left both lists
\* of the client's daemon is held by the server's daemon, in a session it knows,
\* or was handed to ftps (tcpd.c:261-272 against 163-210).
ForgottenIsKept ==
  \A p \in S!Pkg : S!Released(p) =>
    /\ R!Known(p[1])
    /\ p[2] < conn[p[1]].Base \/ p \in conn[p[1]].Packages
=============================================================================

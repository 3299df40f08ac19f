--------------------------- MODULE TcpdSystem_proofs ---------------------------
(***************************************************************************)
(* The two daemons together: that each keeps, in the system, the inductive *)
(* invariant proved of it alone; that the client forgets only what the     *)
(* server has; and that the system implements ReliableStream, for every    *)
(* number of sessions, every length of the calls and every buffer.         *)
(***************************************************************************)
EXTENDS TcpdSystem, TLAPS

SP == INSTANCE TcpdSender_proofs WITH Socks <- Sess, MaxSeq <- Len(SendLens)
RP == INSTANCE TcpdReceiver_proofs WITH
        Clients <- Sess, todo <- serverTodo, status <- serverStatus, ackNet <- acksSent

-----------------------------------------------------------------------------
(* The steps of the system are those the two proofs are about.             *)

\* A step of the client's side is one of TcpdSender.
LEMMA ClientSteps == Client => SP!Next
<1> SUFFICES ASSUME Client PROVE SP!Next
  OBVIOUS
<1> USE DEF S!daemon, SP!daemon, S!loop, SP!loop, S!timer, SP!timer, S!net, SP!net,
            S!Pkg, SP!Pkg, S!SockOf, SP!SockOf, S!SeqNum, SP!SeqNum
<1>1. ASSUME NEW s \in Sess, S!FtpcConnect(s) \/ S!FtpcSend(s)
      PROVE  SP!FtpcConnect(s) \/ SP!FtpcSend(s)
  BY <1>1 DEF S!FtpcConnect, SP!FtpcConnect, S!FtpcSend, SP!FtpcSend
<1>2. ASSUME NEW p \in S!Pkg, S!TimerServes(p) \/ S!TimerExpires(p)
      PROVE  SP!TimerServes(p) \/ SP!TimerExpires(p)
  BY <1>2 DEF S!TimerServes, SP!TimerServes, S!TimerExpires, SP!TimerExpires
<1>3. ASSUME NEW p \in S!Pkg, S!LosesData(p) \/ S!LosesAck(p)
      PROVE  SP!LosesData(p) \/ SP!LosesAck(p)
  BY <1>3 DEF S!LosesData, SP!LosesData, S!LosesAck, SP!LosesAck
<1>4. S!Select => SP!Select
  BY DEF S!Select, SP!Select, S!Arrivals, SP!Arrivals, S!SelectAcks, SP!SelectAcks,
         S!MsgReadable, SP!MsgReadable
<1>5. S!process_tcpd_message => SP!process_tcpd_message
  BY DEF S!process_tcpd_message, SP!process_tcpd_message, S!tcpd_CONNECT, SP!tcpd_CONNECT,
         S!tcpd_SEND, SP!tcpd_SEND
<1>6. \A a, garbled : S!recv_ack(a, garbled) => SP!recv_ack(a, garbled)
  BY DEF S!recv_ack, SP!recv_ack
<1>7. \A p : S!recv_timer(p) => SP!recv_timer(p)
  BY DEF S!recv_timer, SP!recv_timer
<1>8. S!handle_send_all_back => SP!handle_send_all_back
  BY DEF S!handle_send_all_back, SP!handle_send_all_back, S!Sending, SP!Sending,
         S!InWindow, SP!InWindow
<1>9. S!Tcpd => SP!Tcpd
  BY <1>4, <1>5, <1>6, <1>7, <1>8 DEF S!Tcpd, SP!Tcpd
<1> QED BY <1>1, <1>2, <1>3, <1>9 DEF Client, SP!Next

\* A step of the server's side is one of TcpdReceiver.
LEMMA ServerSteps == Server => RP!Next
<1> SUFFICES ASSUME Server PROVE RP!Next
  OBVIOUS
<1> USE DEF R!daemon, RP!daemon, R!front, RP!front, R!loop, RP!loop,
            R!Session, RP!Session, R!Dest, RP!Dest, R!ReadLens, RP!ReadLens,
            R!Pkg, RP!Pkg, R!Sent, RP!Sent
<1>1. \A p : R!FtpsCalls(p) => RP!FtpsCalls(p)
  BY DEF R!FtpsCalls, RP!FtpsCalls, R!Servers, RP!Servers, R!Calls, RP!Calls
<1>2. ASSUME NEW A \in R!Arrivals, R!SelectData(A) PROVE RP!Select
  <2>1. A \in RP!Arrivals
    BY <1>2 DEF R!Arrivals, RP!Arrivals
  <2>2. RP!SelectData(A)
    BY <1>2, SMTT(20) DEF R!SelectData, RP!SelectData
  <2> QED BY <2>1, <2>2 DEF RP!Select
<1>3. \A p, garbled : R!recv_data(p, garbled) => RP!recv_data(p, garbled)
  BY DEF R!recv_data, RP!recv_data, R!Known, RP!Known, R!Keeps, RP!Keeps, R!Holds, RP!Holds,
         R!NewConn, RP!NewConn
<1>4. \A p, bytes : R!RecvReturns(p, bytes) => RP!RecvReturns(p, bytes)
  BY DEF R!RecvReturns, RP!RecvReturns, R!AfterRecv, RP!AfterRecv
<1>5. R!process_tcpd_message => RP!process_tcpd_message
  <2>1. \A p : R!tcpd_BIND(p) => RP!tcpd_BIND(p)
    BY DEF R!tcpd_BIND, RP!tcpd_BIND
  <2>2. \A p : R!tcpd_ACCEPT(p) => RP!tcpd_ACCEPT(p)
    BY DEF R!tcpd_ACCEPT, RP!tcpd_ACCEPT
  <2>3. \A p : R!tcpd_RECV(p) => RP!tcpd_RECV(p)
    BY <1>4 DEF R!tcpd_RECV, RP!tcpd_RECV, R!JunkByte, RP!JunkByte
  <2> QED BY <2>1, <2>2, <2>3 DEF R!process_tcpd_message, RP!process_tcpd_message,
                                  R!Calls, RP!Calls
<1>6. R!handle_ack_back => RP!handle_ack_back
  BY DEF R!handle_ack_back, RP!handle_ack_back, R!AnswersAccept, RP!AnswersAccept,
         R!WaitsFirst, RP!WaitsFirst, R!Accepted, RP!Accepted, R!RemoveAt, RP!RemoveAt
<1>7. R!handle_recv_back => RP!handle_recv_back
  <2> USE DEF R!Fills, RP!Fills, R!Recving, RP!Recving, R!RemainSize, RP!RemainSize,
              R!PkgLen, RP!PkgLen, R!AtBase, RP!AtBase, R!TooLong, RP!TooLong
  <2>1. \A s : R!TakesPackage(s) => RP!TakesPackage(s)
    BY DEF R!TakesPackage, RP!TakesPackage, R!PackageTaken, RP!PackageTaken,
           R!Body, RP!Body, R!Start, RP!Start
  <2>2. \A s : R!CutsPackage(s) => RP!CutsPackage(s)
    BY DEF R!CutsPackage, RP!CutsPackage
  <2>3. \A s : R!AnswersRecv(s) => RP!AnswersRecv(s)
    BY <1>4 DEF R!AnswersRecv, RP!AnswersRecv
  <2> QED BY <2>1, <2>2, <2>3 DEF R!handle_recv_back, RP!handle_recv_back
<1> QED BY <1>1, <1>2, <1>3, <1>5, <1>6, <1>7
        DEF Server, ServerTurn, ServerSelects, ServerReceives, RP!Next, RP!Tcpd, S!Pkg


-----------------------------------------------------------------------------
(* The invariant.                                                          *)

\* A package that a SEND handed over.
HandedOver(p) == p \in S!Pkg /\ p[2] < Base[p[1]]

\* What the server has, acknowledges or takes was handed over before.
ServerHas ==
  /\ \A p \in acksSent : HandedOver(p)
  /\ \A a \in inData : HandedOver(a[1])
  /\ \A s \in Sess : \A p \in conn[s].Packages : HandedOver(p)
  /\ \A s \in Sess : conn[s].Base <= Base[s]

\* The acks in the network and those select found were sent.
AcksTrue == ackNet \subseteq acksSent /\ \A a \in inAcks : a[1] \in acksSent

\* What the client forgot was acknowledged.
ForgottenIsAcked == \A p \in S!Pkg : S!Released(p) => p \in acksSent

IInv == SP!IInv /\ RP!IInv /\ ServerHas /\ AcksTrue /\ ForgottenIsAcked

\* The constants are those of both proofs.
LEMMA Assumptions ==
  /\ SP!SenderAssumption /\ RP!ReceiverAssumption
  /\ Len(SendLens) \in Nat
<1>1. SP!SenderAssumption
  BY SystemAssumption DEF S!SenderAssumption, SP!SenderAssumption
<1>2. RP!ReceiverAssumption
  BY SystemAssumption DEF R!ReceiverAssumption, RP!ReceiverAssumption
<1>3. Len(SendLens) \in Nat
  BY <1>2 DEF RP!ReceiverAssumption
<1> QED BY <1>1, <1>2, <1>3

\* Nothing was handed over, sent or acknowledged when the daemons start.
LEMMA InitIInv == Init => IInv
<1> SUFFICES ASSUME Init PROVE IInv
  OBVIOUS
<1>1. SP!Init
  BY DEF Init, S!Init, SP!Init, S!Pkg, SP!Pkg
<1>2. RP!Init
  BY DEF Init, R!Init, RP!Init, R!NewConn, RP!NewConn
<1>3. SP!IInv /\ RP!IInv
  BY <1>1, <1>2, Assumptions, SP!InitIInv, RP!InitIInv
<1>4. ServerHas
  BY DEF Init, S!Init, R!Init, R!NewConn, ServerHas
<1>5. AcksTrue
  BY DEF Init, S!Init, R!Init, AcksTrue
<1>6. ForgottenIsAcked
  <2>1. \A p \in S!Pkg : p[1] \in Sess /\ p[2] \in Nat
    BY Assumptions DEF S!Pkg
  <2> QED BY <2>1 DEF Init, S!Init, ForgottenIsAcked, S!Released, S!SeqNum, S!SockOf
<1> QED BY <1>3, <1>4, <1>5, <1>6 DEF IInv

-----------------------------------------------------------------------------
(* Steps of the client's side.                                             *)

\* What a step of the client's daemon does to what was handed over, and to acks.
LEMMA ClientBase ==
  ASSUME SP!IInv, Client
  PROVE  \/ Base' = Base
         \/ \E s \in Sess : /\ Base[s] < Len(SendLens)
                            /\ Base' = [Base EXCEPT ![s] = Base[s] + 1]
<1>1. Base \in [Sess -> 0 .. Len(SendLens)]
  BY DEF SP!IInv, SP!TypeOK
<1>2. CASE S!process_tcpd_message
  <2>1. ASSUME NEW s \in Sess, <<"CONNECT", s>> \in calls, S!tcpd_CONNECT(s) PROVE Base' = Base
    <3>1. Base[s] = 0
      BY <2>1 DEF SP!IInv, SP!CallInv
    <3> QED BY <1>1, <2>1, <3>1 DEF S!tcpd_CONNECT
  <2>2. ASSUME NEW s \in Sess, <<"SEND", s>> \in calls, S!tcpd_SEND(s)
        PROVE  Base[s] < Len(SendLens) /\ Base' = [Base EXCEPT ![s] = Base[s] + 1]
    <3>1. s \in ConnectedSockets /\ Base[s] < Len(SendLens)
      BY <2>2 DEF SP!IInv, SP!CallInv
    <3> QED BY <2>2, <3>1 DEF S!tcpd_SEND
  <2> QED BY <1>2, <2>1, <2>2 DEF S!process_tcpd_message
<1>3. CASE ~ S!process_tcpd_message
  <2> USE DEF S!daemon
  <2>1. CASE \E s \in Sess : S!FtpcConnect(s) \/ S!FtpcSend(s)
    BY <2>1 DEF S!FtpcConnect, S!FtpcSend
  <2>2. CASE S!Tcpd
    BY <1>3, <2>2 DEF S!Tcpd, S!Select, S!SelectAcks, S!recv_ack, S!recv_timer, S!handle_send_all_back
  <2>3. CASE \E p \in S!Pkg : S!TimerServes(p) \/ S!TimerExpires(p)
    BY <2>3 DEF S!TimerServes, S!TimerExpires
  <2>4. CASE \E p \in S!Pkg : S!LosesData(p) \/ S!LosesAck(p)
    BY <2>4 DEF S!LosesData, S!LosesAck
  <2> QED BY <2>1, <2>2, <2>3, <2>4 DEF Client
<1> QED BY <1>2, <1>3

\* The client's select finds the acks the network has.
LEMMA ClientAcks ==
  ASSUME Client
  PROVE  /\ ackNet' \subseteq ackNet
         /\ \A a \in inAcks' : a \in inAcks \/ a[1] \in ackNet
<1> USE DEF S!daemon, S!loop, S!net, S!timer
<1>1. CASE \E s \in Sess : S!FtpcConnect(s) \/ S!FtpcSend(s)
  BY <1>1 DEF S!FtpcConnect, S!FtpcSend
<1>2. CASE S!Select
  <2>1. PICK A \in S!Arrivals : S!SelectAcks(A)
    BY <1>2 DEF S!Select
  <2>2. A \subseteq ackNet
    BY DEF S!Arrivals
  <2> QED BY <2>1, <2>2 DEF S!SelectAcks
<1>3. CASE S!process_tcpd_message
  BY <1>3 DEF S!process_tcpd_message
<1>4. CASE \E a \in S!Pkg, garbled \in BOOLEAN : S!recv_ack(a, garbled)
  BY <1>4 DEF S!recv_ack
<1>5. CASE \E p \in S!Pkg : S!recv_timer(p)
  BY <1>5 DEF S!recv_timer
<1>6. CASE S!handle_send_all_back
  BY <1>6 DEF S!handle_send_all_back
<1>7. CASE \E p \in S!Pkg : S!TimerServes(p) \/ S!TimerExpires(p)
  BY <1>7 DEF S!TimerServes, S!TimerExpires
<1>8. CASE \E p \in S!Pkg : S!LosesData(p) \/ S!LosesAck(p)
  BY <1>8 DEF S!LosesData, S!LosesAck
<1> QED BY <1>1, <1>2, <1>3, <1>4, <1>5, <1>6, <1>7, <1>8 DEF Client, S!Tcpd

\* A package leaves both lists for an ack of it only.
LEMMA ClientForgets ==
  ASSUME SP!IInv, Client, NEW p \in S!Pkg, S!Released(p)', ~ S!Released(p)
  PROVE  \E garbled \in BOOLEAN : <<p, garbled>> \in inAcks
<1> USE DEF S!Released, S!SeqNum, S!SockOf, S!Buffered, S!daemon
<1>1. /\ Base \in [Sess -> 0 .. Len(SendLens)] /\ p[1] \in Sess /\ p[2] \in Nat
      /\ p = <<p[1], p[2]>>
  BY Assumptions DEF SP!IInv, SP!TypeOK, S!Pkg
<1>2. ~ S!process_tcpd_message
  <2> SUFFICES ASSUME S!process_tcpd_message PROVE FALSE
    OBVIOUS
  <2>1. ASSUME NEW s \in Sess, <<"CONNECT", s>> \in calls, S!tcpd_CONNECT(s) PROVE FALSE
    <3>1. Base[s] = 0 /\ Base' = Base
      <4>1. Base[s] = 0
        BY <2>1 DEF SP!IInv, SP!CallInv
      <4> QED BY <1>1, <2>1, <4>1 DEF S!tcpd_CONNECT
    <3>2. p[1] # s
      BY <1>1, <3>1
    <3> QED BY <2>1, <3>1, <3>2 DEF S!tcpd_CONNECT
  <2>2. ASSUME NEW s \in Sess, <<"SEND", s>> \in calls, S!tcpd_SEND(s) PROVE FALSE
    <3>1. s \in ConnectedSockets
      BY <2>2 DEF SP!IInv, SP!CallInv
    <3>2. /\ Base' = [Base EXCEPT ![s] = Base[s] + 1] /\ Packages' = Packages
          /\ PendingPackages' = PendingPackages \cup {<<s, Base[s]>>}
      BY <2>2, <3>1 DEF S!tcpd_SEND
    <3>3. p # <<s, Base[s]>> /\ p \notin Packages \cup PendingPackages
      BY <3>2
    <3>4. p[1] = s => p[2] # Base[s]
      BY <1>1, <3>3
    <3> QED BY <1>1, <3>2, <3>3, <3>4
  <2> QED BY <2>1, <2>2 DEF S!process_tcpd_message
<1>3. CASE \E s \in Sess : S!FtpcConnect(s) \/ S!FtpcSend(s)
  BY <1>3 DEF S!FtpcConnect, S!FtpcSend
<1>4. CASE S!Select
  BY <1>4 DEF S!Select, S!SelectAcks
<1>5. ASSUME NEW a \in S!Pkg, NEW garbled \in BOOLEAN, S!recv_ack(a, garbled)
      PROVE  \E g \in BOOLEAN : <<p, g>> \in inAcks
  BY <1>5 DEF S!recv_ack
<1>6. CASE \E q \in S!Pkg : S!recv_timer(q)
  BY <1>6 DEF S!recv_timer
<1>7. CASE S!handle_send_all_back
  BY <1>7 DEF S!handle_send_all_back
<1>8. CASE \E q \in S!Pkg : S!TimerServes(q) \/ S!TimerExpires(q)
  BY <1>8 DEF S!TimerServes, S!TimerExpires
<1>9. CASE \E q \in S!Pkg : S!LosesData(q) \/ S!LosesAck(q)
  BY <1>9 DEF S!LosesData, S!LosesAck
<1> QED BY <1>2, <1>3, <1>4, <1>5, <1>6, <1>7, <1>8, <1>9 DEF Client, S!Tcpd


\* A step of the client's side keeps the invariant.
LEMMA ClientKeepsIInv == IInv /\ Client => IInv'
<1> SUFFICES ASSUME IInv, Client PROVE IInv'
  OBVIOUS
<1>1. UNCHANGED serverVars
  BY DEF Client
<1>2. SP!IInv'
  BY Assumptions, ClientSteps, SP!NextIInv DEF IInv
<1>3. RP!IInv'
  <2>1. UNCHANGED RP!vars
    BY <1>1 DEF serverVars, RP!vars, RP!daemon, RP!loop, RP!front
  <2> QED BY <2>1, Assumptions, RP!NextIInv DEF IInv
<1>4. \A s \in Sess : Base[s] \in Nat /\ Base'[s] \in Nat /\ Base[s] <= Base'[s]
  <2>1. Base \in [Sess -> 0 .. Len(SendLens)]
    BY DEF IInv, SP!IInv, SP!TypeOK
  <2> QED BY <2>1, ClientBase, Assumptions DEF IInv
<1>5. \A p : HandedOver(p) => HandedOver(p)'
  <2>1. \A p \in S!Pkg : p[1] \in Sess /\ p[2] \in Int
    BY DEF S!Pkg
  <2> QED BY <1>4, <2>1 DEF HandedOver
<1>6. ServerHas'
  <2>1. \A s \in Sess : conn[s].Base \in Int
    <3>1. conn \in [Sess -> RP!ConnType]
      BY RP!RecordTypes, Assumptions DEF IInv, RP!IInv
    <3> QED BY <3>1 DEF RP!ConnType
  <2> QED BY <1>1, <1>4, <1>5, <2>1 DEF serverVars, IInv, ServerHas
<1>7. AcksTrue'
  BY <1>1, ClientAcks DEF serverVars, IInv, AcksTrue
<1>8. ForgottenIsAcked'
  BY <1>1, ClientForgets DEF serverVars, IInv, AcksTrue, ForgottenIsAcked
<1> QED BY <1>2, <1>3, <1>6, <1>7, <1>8 DEF IInv

-----------------------------------------------------------------------------
(* Steps of the server's side.                                             *)

\* The client's daemon does not move, and the troll passes on what it has.
LEMMA ServerTroll ==
  ASSUME Server
  PROVE  /\ UNCHANGED clientVars
         /\ dataNet' \subseteq dataNet
         /\ acksSent \subseteq acksSent'
         /\ ackNet' \subseteq ackNet \cup acksSent'
         /\ \A a \in inData' : a \in inData \/ a[1] \in dataNet
         /\ \A p \in acksSent' : p \in acksSent \/ <<p, FALSE>> \in inData
<1> USE DEF R!daemon, R!front, R!loop, troll
<1>1. ASSUME NEW A \in R!Arrivals, ServerSelects(A)
      PROVE  /\ UNCHANGED <<clientVars, ackNet, acksSent>> /\ dataNet' \subseteq dataNet
             /\ \A a \in inData' : a[1] \in dataNet
  BY <1>1 DEF ServerSelects, R!SelectData
<1>2. ASSUME NEW p \in S!Pkg, NEW garbled \in BOOLEAN, ServerReceives(p, garbled)
      PROVE  /\ UNCHANGED <<clientVars, dataNet>> /\ inData' \subseteq inData
             /\ \/ UNCHANGED <<ackNet, acksSent>>
                \/ /\ <<p, FALSE>> \in inData
                   /\ ackNet' = ackNet \cup {p} /\ acksSent' = acksSent \cup {p}
  <2>1. CASE garbled
    BY <1>2, <2>1 DEF ServerReceives, R!recv_data
  <2>2. CASE garbled = FALSE
    BY <1>2, <2>2 DEF ServerReceives, R!recv_data
  <2> QED BY <2>1, <2>2
<1>3. CASE /\ R!process_tcpd_message \/ R!handle_ack_back \/ R!handle_recv_back
           /\ UNCHANGED <<clientVars, troll>>
  BY <1>3 DEF R!process_tcpd_message, R!handle_ack_back, R!handle_recv_back
<1>4. CASE \E p \in Ports : R!FtpsCalls(p) /\ UNCHANGED <<clientVars, troll>>
  BY <1>4 DEF R!FtpsCalls
<1> QED BY <1>1, <1>2, <1>3, <1>4 DEF Server, ServerTurn

\* What a session holds was read from its socket, and Base passes what it holds.
LEMMA ServerSessions ==
  ASSUME RP!IInv, Server, NEW s \in Sess
  PROVE  /\ \A p \in conn'[s].Packages : p \in conn[s].Packages \/ <<p, FALSE>> \in inData
         /\ \/ conn'[s].Base = conn[s].Base
            \/ conn'[s].Base = 0
            \/ /\ conn'[s].Base = conn[s].Base + 1
               /\ \E p \in conn[s].Packages : p[2] = conn[s].Base
<1> USE DEF R!daemon, R!front, R!loop
<1>1. conn \in [Sess -> RP!ConnType] /\ \A t \in Sess : conn[t].Base \in Int
  <2>1. conn \in [Sess -> RP!ConnType]
    BY RP!RecordTypes, Assumptions DEF RP!IInv
  <2> QED BY <2>1 DEF RP!ConnType
<1>2. ASSUME conn'[s].Packages \subseteq conn[s].Packages, conn'[s].Base = conn[s].Base
      PROVE  /\ \A p \in conn'[s].Packages : p \in conn[s].Packages \/ <<p, FALSE>> \in inData
             /\ conn'[s].Base = conn[s].Base
  BY <1>2
<1>3. CASE UNCHANGED conn
  BY <1>2, <1>3
<1>4. CASE R!process_tcpd_message
  <2>1. conn' = conn \/ \E t, len : conn' = [conn EXCEPT ![t].ReceivingLength = len]
    BY <1>4 DEF R!process_tcpd_message, R!tcpd_BIND, R!tcpd_ACCEPT, R!tcpd_RECV
  <2>2. conn'[s].Packages = conn[s].Packages /\ conn'[s].Base = conn[s].Base
    <3>1. CASE conn' = conn
      BY <3>1
    <3>2. ASSUME NEW t, NEW len, conn' = [conn EXCEPT ![t].ReceivingLength = len]
          PROVE  conn'[s].Packages = conn[s].Packages /\ conn'[s].Base = conn[s].Base
      <4>1. conn[s] \in RP!ConnType
        BY <1>1
      <4>2. conn'[s] = conn[s] \/ conn'[s] = [conn[s] EXCEPT !.ReceivingLength = len]
        BY ONLY <1>1, <3>2, s \in Sess
      <4> QED BY ONLY <4>1, <4>2 DEF RP!ConnType
    <3> QED BY <2>1, <3>1, <3>2
  <2> QED BY <1>2, <2>2
<1>5. ASSUME NEW p \in S!Pkg, NEW garbled \in BOOLEAN, R!recv_data(p, garbled), conn' # conn
      PROVE  /\ \A q \in conn'[s].Packages : q \in conn[s].Packages \/ <<q, FALSE>> \in inData
             /\ conn'[s].Base = conn[s].Base \/ conn'[s].Base = 0
  <2>1. garbled = FALSE /\ <<p, FALSE>> \in inData
    BY <1>5 DEF R!recv_data
  <2>2. CASE conn' = [conn EXCEPT ![R!Session(p[1])].Packages = @ \cup {p}]
    BY <1>1, <2>1, <2>2 DEF RP!ConnType
  <2>3. CASE conn' = [conn EXCEPT ![R!Session(p[1])] =
                        [R!NewConn(R!Dest(p[1])) EXCEPT !.Packages = {p}]]
    BY <1>1, <2>1, <2>3 DEF R!NewConn
  <2> QED BY <1>5, <2>2, <2>3 DEF R!recv_data
<1>6. ASSUME NEW t \in Sess, R!TakesPackage(t)
      PROVE  /\ conn'[s].Packages \subseteq conn[s].Packages
             /\ \/ conn'[s].Base = conn[s].Base
                \/ /\ conn'[s].Base = conn[s].Base + 1
                   /\ \E p \in conn[s].Packages : p[2] = conn[s].Base
  <2>1. conn' = [conn EXCEPT ![t] = R!PackageTaken(t)]
    BY <1>6 DEF R!TakesPackage
  <2>2. /\ R!PackageTaken(t).Packages = conn[t].Packages \ R!AtBase(t)
        /\ R!PackageTaken(t).Base = conn[t].Base + 1
    BY <1>1 DEF R!PackageTaken, RP!ConnType
  <2>3. \E p \in conn[t].Packages : p[2] = conn[t].Base
    BY <1>6 DEF R!TakesPackage, R!Fills, R!AtBase
  <2> QED BY <1>1, <2>1, <2>2, <2>3
<1>7. ASSUME NEW t \in Sess, R!CutsPackage(t) \/ R!AnswersRecv(t)
      PROVE  conn'[s].Packages = conn[s].Packages /\ conn'[s].Base = conn[s].Base
  <2>1. CASE R!CutsPackage(t)
    BY <1>1, <2>1 DEF R!CutsPackage, RP!ConnType
  <2>2. CASE R!AnswersRecv(t)
    <3>1. conn' = [conn EXCEPT ![t].RecvBuffer = <<>>, ![t].ReceivingLength = 0]
      BY <2>2 DEF R!AnswersRecv
    <3> QED BY <1>1, <3>1 DEF RP!ConnType
  <2> QED BY <1>7, <2>1, <2>2
<1>8. CASE R!handle_recv_back
  BY <1>3, <1>6, <1>7, <1>8 DEF R!handle_recv_back
<1> QED BY <1>3, <1>4, <1>5, <1>8
        DEF Server, ServerTurn, ServerSelects, ServerReceives, R!SelectData, R!FtpsCalls,
            R!handle_ack_back


\* A step of the server's side keeps the invariant.
LEMMA ServerKeepsIInv == IInv /\ Server => IInv'
<1> SUFFICES ASSUME IInv, Server PROVE IInv'
  OBVIOUS
<1>1. RP!IInv'
  BY Assumptions, ServerSteps, RP!NextIInv DEF IInv
<1>2. \A p : HandedOver(p)' <=> HandedOver(p)
  BY ServerTroll DEF clientVars, HandedOver
<1>3. \A p \in dataNet : HandedOver(p)
  BY DEF IInv, SP!IInv, SP!TypeOK, SP!UsedInv, SP!Mentioned, HandedOver, S!Pkg, SP!Pkg,
         SP!SeqNum, SP!SockOf
<1>4. /\ \A p \in acksSent' : HandedOver(p)
      /\ \A a \in inData' : HandedOver(a[1])
  BY <1>3, ServerTroll DEF IInv, ServerHas
<1>5. ServerHas'
  <2>1. ASSUME NEW s \in Sess
        PROVE  /\ \A p \in conn'[s].Packages : HandedOver(p)
               /\ conn'[s].Base <= Base[s]
    <3>1. \A p \in conn'[s].Packages : HandedOver(p)
      BY ServerSessions DEF IInv, ServerHas
    <3>2. conn[s].Base \in Int /\ Base[s] \in Nat
      <4>1. conn \in [Sess -> RP!ConnType]
        BY RP!RecordTypes, Assumptions DEF IInv, RP!IInv
      <4>2. Base \in [Sess -> 0 .. Len(SendLens)]
        BY DEF IInv, SP!IInv, SP!TypeOK
      <4> QED BY <4>1, <4>2, Assumptions DEF RP!ConnType
    <3>3. ASSUME NEW p \in conn[s].Packages, p[2] = conn[s].Base
          PROVE  conn[s].Base + 1 <= Base[s]
      <4>1. p[1] = s /\ HandedOver(p)
        <5>1. RP!Session(p[1]) = s /\ HandedOver(p)
          BY DEF IInv, RP!IInv, RP!HeldInv, ServerHas
        <5>2. p[1] \in Sess /\ world \in Worlds
          BY <5>1 DEF HandedOver, S!Pkg, IInv, RP!IInv, RP!TypeOK
        <5> QED BY <5>1, <5>2, SystemAssumption DEF RP!Session
      <4> QED BY <3>2, <3>3, <4>1 DEF HandedOver
    <3>4. conn[s].Base <= Base[s]
      BY DEF IInv, ServerHas
    <3>5. \/ conn'[s].Base = conn[s].Base
          \/ conn'[s].Base = 0
          \/ /\ conn'[s].Base = conn[s].Base + 1
             /\ \E p \in conn[s].Packages : p[2] = conn[s].Base
      BY ServerSessions DEF IInv
    <3>6. conn'[s].Base <= Base[s]
      <4> HIDE DEF IInv
      <4>1. CASE conn'[s].Base = conn[s].Base
        BY <3>4, <4>1
      <4>2. CASE conn'[s].Base = 0
        BY <3>2, <4>2
      <4>3. CASE /\ conn'[s].Base = conn[s].Base + 1
                 /\ \E p \in conn[s].Packages : p[2] = conn[s].Base
        BY <3>3, <4>3
      <4> QED BY <3>5, <4>1, <4>2, <4>3
    <3> QED BY <3>1, <3>6
  <2> QED BY <1>2, <1>4, <2>1, ServerTroll DEF ServerHas, clientVars
<1>6. AcksTrue'
  BY ServerTroll DEF IInv, AcksTrue, clientVars
<1>7. ForgottenIsAcked'
  BY ServerTroll DEF IInv, ForgottenIsAcked, clientVars, S!Released, S!Buffered, S!SeqNum, S!SockOf
<1>8. SP!IInv'
  <2>1. \A p \in ackNet' : HandedOver(p)
    BY <1>3, <1>4, ServerTroll DEF IInv, AcksTrue, ServerHas
  <2>2. UNCHANGED clientVars /\ dataNet' \subseteq dataNet
    BY ServerTroll
  <2>3. \A p \in S!Pkg : p \in ackNet' => p[2] < Base[p[1]]
    BY <2>1 DEF HandedOver
  <2>4. ackNet' \subseteq S!Pkg
    BY <2>1 DEF HandedOver
  <2>5. SP!TypeOK'
    BY <2>2, <2>4 DEF IInv, SP!IInv, SP!TypeOK, clientVars, S!Pkg, SP!Pkg
  <2>6. SP!UsedInv'
    BY <2>2, <2>3 DEF IInv, SP!IInv, SP!UsedInv, SP!Mentioned, clientVars, S!Pkg, SP!Pkg,
                      SP!SeqNum, SP!SockOf
  <2>7. /\ SP!LoopInv' /\ SP!CallInv' /\ SP!CountInv' /\ SP!BufferBound'
        /\ SP!TimerInv' /\ SP!NoExit'
    BY <2>2 DEF IInv, SP!IInv, clientVars, SP!LoopInv, SP!CallInv, SP!CountInv, SP!BufferCount,
                SP!BufferBound, SP!TimerInv, SP!QueueInv, SP!TimerWatches, SP!StartOnItsWay,
                SP!PendingUntimed, SP!NoExit
  <2> QED BY <2>5, <2>6, <2>7 DEF SP!IInv
<1> QED BY <1>1, <1>5, <1>6, <1>7, <1>8 DEF IInv


-----------------------------------------------------------------------------
(* What follows.                                                           *)

\* Every step of the system preserves the invariant.
LEMMA NextIInv == IInv /\ [Next]_vars => IInv'
<1> SUFFICES ASSUME IInv, [Next]_vars PROVE IInv'
  OBVIOUS
<1>1. CASE Client
  BY <1>1, ClientKeepsIInv
<1>2. CASE Server
  BY <1>2, ServerKeepsIInv
<1>3. CASE UNCHANGED vars
  <2> USE DEF vars, clientVars, troll, serverVars
  <2>1. UNCHANGED SP!vars /\ UNCHANGED RP!vars
    BY <1>3 DEF SP!vars, SP!daemon, SP!loop, SP!timer, SP!net, RP!vars, RP!daemon, RP!loop, RP!front
  <2>2. SP!IInv' /\ RP!IInv'
    BY <2>1, Assumptions, SP!NextIInv, RP!NextIInv DEF IInv
  <2>3. \A p : HandedOver(p)' <=> HandedOver(p)
    BY <1>3 DEF HandedOver
  <2>4. ServerHas' /\ AcksTrue'
    BY <1>3, <2>3 DEF IInv, ServerHas, AcksTrue
  <2>5. ForgottenIsAcked'
    BY <1>3 DEF IInv, ForgottenIsAcked, S!Released, S!Buffered, S!SeqNum, S!SockOf
  <2> QED BY <2>2, <2>4, <2>5 DEF IInv
<1> QED BY <1>1, <1>2, <1>3 DEF Next

\* The invariants of both daemons and what couples them hold in every state of
\* the whole system, through losses, repetitions and garbled datagrams
\* (tcpd.c:63-505).
THEOREM Inductive == Spec => []IInv
<1>1. Init => IInv
  BY InitIInv
<1>2. IInv /\ [Next]_vars => IInv'
  BY NextIInv
<1> QED BY <1>1, <1>2, PTL DEF Spec

\* What was proved of the client's daemon with any server that acknowledges
\* holds with this one: its count and its timers stay right, and it never exits.
THEOREM ClientCorrect ==
  Spec => [](SP!BufferCount /\ SP!BufferBound /\ SP!TimerAgrees /\ SP!NoExit)
<1>1. IInv => SP!BufferCount /\ SP!BufferBound /\ SP!TimerAgrees /\ SP!NoExit
  BY DEF IInv, SP!IInv, SP!CountInv, SP!TimerInv, SP!TimerAgrees
<1> QED BY <1>1, Inductive, PTL

\* What was proved of the server's daemon with any clients holds with these:
\* it keeps what it acknowledged, returns every session once and every byte in
\* order, and an ftps it can serve never makes it exit.
THEOREM ServerCorrect ==
  Spec => [](RP!AckedIsKept /\ RP!AcceptedOnce /\ RP!InOrder /\ RP!NoExit)
<1>1. IInv => RP!AckedIsKept /\ RP!AcceptedOnce /\ RP!InOrder /\ RP!NoExit
  BY Assumptions, RP!IInvInOrder DEF IInv, RP!IInv
<1> QED BY <1>1, Inductive, PTL

\* In the system a session is its client.
LEMMA SessionIsClient ==
  ASSUME IInv, NEW c \in Sess
  PROVE  RP!Session(c) = c
<1>1. world \in Worlds
  BY DEF IInv, RP!IInv, RP!TypeOK
<1> QED BY <1>1, SystemAssumption DEF RP!Session

\* The client forgets only what the server has (tcpd.c:261-272, 163-210).
THEOREM ForgottenCorrect == Spec => []ForgottenIsKept
<1>1. IInv => ForgottenIsKept
  <2> SUFFICES ASSUME IInv, NEW p \in S!Pkg, S!Released(p)
               PROVE  /\ R!Known(p[1])
                      /\ p[2] < conn[p[1]].Base \/ p \in conn[p[1]].Packages
    BY DEF ForgottenIsKept
  <2>1. p \in acksSent /\ p[1] \in Sess /\ p = <<p[1], p[2]>>
    BY DEF IInv, ForgottenIsAcked, S!Pkg
  <2>2. RP!Session(p[1]) = p[1]
    BY <2>1, SessionIsClient
  <2>3. /\ RP!Known(p[1])
        /\ \/ p[2] < conn[p[1]].Base
           \/ \E b \in conn[p[1]].Packages : b[2] = p[2] /\ RP!Session(b[1]) = p[1]
    BY <2>1, <2>2 DEF IInv, RP!IInv, RP!AckedIsKept
  <2>4. ASSUME NEW b \in conn[p[1]].Packages, b[2] = p[2], RP!Session(b[1]) = p[1]
        PROVE  p \in conn[p[1]].Packages
    <3>1. b[1] \in Sess /\ b = <<b[1], b[2]>>
      BY <2>1 DEF IInv, ServerHas, HandedOver, S!Pkg
    <3>2. b[1] = p[1]
      BY <2>4, <3>1, SessionIsClient
    <3>3. b = p
      BY <2>1, <2>4, <3>1, <3>2
    <3> QED BY <3>3
  <2> QED BY <2>3, <2>4 DEF R!Known, RP!Known
<1> QED BY <1>1, Inductive, PTL

\* The servers read what they read.
LEMMA WholeStays ==
  ASSUME IInv, [Next]_vars
  PROVE  RP!WholePackages' <=> RP!WholePackages
<1>1. world' = world
  <2>1. CASE Client \/ UNCHANGED vars
    BY <2>1 DEF Client, vars, serverVars
  <2>2. CASE RP!Next
    BY <2>2 DEF RP!Next, RP!Tcpd, RP!Select, RP!SelectData, RP!process_tcpd_message, RP!recv_data,
                RP!handle_ack_back, RP!handle_recv_back, RP!FtpsCalls
  <2> QED BY <2>1, <2>2, ServerSteps DEF Next
<1> QED BY <1>1, RP!WorldStays, Assumptions

\* A step of the client's side is a SEND of the stream or no step of it.
LEMMA ClientImplements == IInv /\ Client => [Stream!Next]_<<Base, got>>
<1> SUFFICES ASSUME IInv, Client PROVE [Stream!Next]_<<Base, got>>
  OBVIOUS
<1>1. got' = got
  BY DEF Client, serverVars
<1>2. CASE Base' = Base
  BY <1>1, <1>2
<1>3. ASSUME NEW s \in Sess, Base[s] < Len(SendLens), Base' = [Base EXCEPT ![s] = Base[s] + 1]
      PROVE  Stream!Send(s)
  BY <1>1, <1>3 DEF Stream!Send
<1> QED BY <1>2, <1>3, ClientBase DEF IInv, Stream!Next

\* Bytes of one client whose positions follow each other, as a function.
LEMMA BytesInTurn ==
  ASSUME NEW B, NEW bytes \in Seq(B), NEW c, NEW k \in Nat,
         \A i \in 1 .. Len(bytes) : bytes[i] = <<c, k + i - 1>>
  PROVE  bytes = [i \in 1 .. Len(bytes) |-> <<c, k + i - 1>>]
<1> DEFINE F == [i \in 1 .. Len(bytes) |-> <<c, k + i - 1>>]
<1>1. bytes = [i \in 1 .. Len(bytes) |-> bytes[i]]
  OBVIOUS
<1>2. \A i \in 1 .. Len(bytes) : F[i] = bytes[i]
  OBVIOUS
<1>3. F = [i \in 1 .. Len(bytes) |-> F[i]]
  OBVIOUS
<1> HIDE DEF F
<1>4. [i \in 1 .. Len(bytes) |-> F[i]] = [i \in 1 .. Len(bytes) |-> bytes[i]]
  BY <1>2
<1>5. F = bytes
  BY <1>1, <1>3, <1>4, Zenon
<1> QED BY <1>5 DEF F

\* A step of the server's side is a RECV of the stream or no step of it.
LEMMA ServerImplements ==
  ASSUME IInv, RP!WholePackages, Server
  PROVE  [Stream!Next]_<<Base, got>>
<1>1. Base' = Base
  BY ServerTroll DEF clientVars
<1>2. ASSUME NEW s \in Sess, Len(conn[s].RecvBuffer) > 0,
             got' = [got EXCEPT ![s] = @ \o conn[s].RecvBuffer]
      PROVE  Stream!Receive(s)
  <2> DEFINE n == Len(conn[s].RecvBuffer)
  <2>1. /\ conn[s].RecvBuffer \in Seq(RP!Bytes) /\ n \in Nat /\ Len(got[s]) \in Nat
        /\ conn[s].Base \in 0 .. Len(SendLens) /\ Base[s] \in 0 .. Len(SendLens)
    BY DEF IInv, RP!IInv, RP!TypeOK, SP!IInv, SP!TypeOK
  <2>2. /\ Len(got[s]) + n = RP!Start[conn[s].Base]
        /\ \A i \in 1 .. n :
             \E c \in Sess : /\ RP!Session(c) = s
                             /\ conn[s].RecvBuffer[i] = <<c, Len(got[s]) + i - 1>>
    BY Assumptions, RP!BufferGoesOn DEF IInv
  <2>3. \A i \in 1 .. n : conn[s].RecvBuffer[i] = <<s, Len(got[s]) + i - 1>>
    BY <2>2, SessionIsClient
  <2>4. conn[s].RecvBuffer = [i \in 1 .. n |-> <<s, Len(got[s]) + i - 1>>]
    <3> DEFINE b == conn[s].RecvBuffer
               g == Len(got[s])
    <3>1. b \in Seq(RP!Bytes) /\ g \in Nat /\ \A i \in 1 .. Len(b) : b[i] = <<s, g + i - 1>>
      BY <2>1, <2>3
    <3> HIDE DEF b, g
    <3>2. b = [i \in 1 .. Len(b) |-> <<s, g + i - 1>>]
      BY ONLY <3>1, BytesInTurn, Zenon
    <3> QED BY <3>2 DEF b, g
  <2>5. /\ Stream!Size = RP!Start
        /\ RP!Start[conn[s].Base] <= RP!Start[Base[s]] /\ RP!Start[Base[s]] \in Nat
    <3>1. Stream!Size = RP!Start
      BY DEF Stream!Size, RP!Start
    <3>2. conn[s].Base <= Base[s]
      BY DEF IInv, ServerHas
    <3> QED BY <2>1, <3>1, <3>2, Assumptions, RP!StartProperties
  <2>6. n \in 1 .. (Stream!Size[Base[s]] - Len(got[s]))
    <3> DEFINE g == Len(got[s])
               t == Stream!Size[Base[s]]
    <3>1. n \in Nat /\ n > 0 /\ g \in Nat /\ t \in Nat /\ g + n <= t
      BY <1>2, <2>1, <2>2, <2>5
    <3> HIDE DEF n, g, t
    <3>2. n \in 1 .. (t - g)
      BY <3>1
    <3> QED BY <3>2 DEF t, g
  <2>7. got' = [got EXCEPT ![s] = got[s] \o [i \in 1 .. n |-> <<s, Len(got[s]) + i - 1>>]]
    BY <1>2, <2>4
  <2> HIDE DEF n
  <2> QED BY <1>1, <2>6, <2>7 DEF Stream!Receive
<1>3. \/ got' = got
      \/ \E s \in Sess : /\ Len(conn[s].RecvBuffer) > 0
                         /\ got' = [got EXCEPT ![s] = @ \o conn[s].RecvBuffer]
  BY ServerSteps, RP!GotStep, Assumptions DEF IInv
<1> QED BY <1>1, <1>2, <1>3 DEF Stream!Next

\* The daemons, the timer and the troll together implement a reliable byte
\* stream, for an ftps that reads whole packages: what RECVs return is what
\* SENDs handed over, once and in order (tcpudp.c, tcpd.c:63-505).
THEOREM StreamCorrect == Spec /\ R!WholePackages => IsReliableStream
<1>1. Init => Stream!Init
  BY DEF Init, S!Init, R!Init, Stream!Init
<1>2. R!WholePackages <=> RP!WholePackages
  BY DEF R!WholePackages, RP!WholePackages, R!Asked, RP!Asked, R!Start, RP!Start,
         R!ReadLens, RP!ReadLens
<1>3. IInv /\ RP!WholePackages /\ [Next]_vars =>
        RP!WholePackages' /\ [Stream!Next]_<<Base, got>>
  <2> SUFFICES ASSUME IInv, RP!WholePackages, [Next]_vars
               PROVE  RP!WholePackages' /\ [Stream!Next]_<<Base, got>>
    OBVIOUS
  <2>1. RP!WholePackages'
    BY WholeStays
  <2>2. CASE UNCHANGED vars
    BY <2>1, <2>2 DEF vars, clientVars, serverVars
  <2> QED BY <2>1, <2>2, ClientImplements, ServerImplements DEF Next
<1>4. [Stream!Next]_<<Base, got>> => [Stream!Next]_(Stream!vars)
  BY DEF Stream!vars
<1> QED BY <1>1, <1>2, <1>3, <1>4, Inductive, PTL DEF Spec, IsReliableStream, Stream!Spec
=============================================================================

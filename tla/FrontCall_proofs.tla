---------------------------- MODULE FrontCall_proofs ----------------------------
(***************************************************************************)
(* The safety properties of FrontCall, proved for any number of processes  *)
(* and any calls of theirs: one invariant of the types, IInv, and one of   *)
(* the datagrams, Calm, as long as no call is disturbed.                   *)
(***************************************************************************)
EXTENDS FrontCall, TLAPS, SequenceTheorems

\* The datagrams the daemon has not done with.
Queue == handler \o socket

\* What the types of FrontCall leave out.
MoreTypes ==
  /\ replies \in [Procs -> Seq(Procs \X Nat)] /\ answered \in [Procs -> Procs \X Nat]
  /\ disturbed \in BOOLEAN
  /\ \A p \in Procs : made[p] <= Len(Script[p])
  /\ \A p \in Procs : sent[p] > 0 => made[p] > 0 /\ sent[p] <= Parts[call(p)]
  /\ \A p \in Procs : Accepting[p] # NoProc => p \in bound

\* Datagram b may follow a: it goes on with its call, or begins another one.
Linked(a, b) ==
  IF a.part < Parts[a.call] THEN b = [a EXCEPT !.part = @ + 1] ELSE b.part = 1

\* A datagram is of the last call of its process.
Current(d) ==
  /\ d.part \in 1 .. sent[d.from] /\ d.n = made[d.from] /\ made[d.from] > 0
  /\ d.call = call(d.from)

\* The calls of the queue are whole but for the last, each of another process.
QueueInv ==
  /\ Len(Queue) > 0 => Queue[1].part = 1
  /\ \A i \in 1 .. Len(Queue) - 1 : Linked(Queue[i], Queue[i + 1])
  /\ \A i \in 1 .. Len(Queue) : Current(Queue[i])
  /\ \A i, j \in 1 .. Len(Queue) :
       Queue[i].from = Queue[j].from /\ Queue[i].part = Queue[j].part => i = j

\* The last is that of the process in the middle of its call, if any.
LastInv ==
  /\ \A p \in Procs : Handing(p) =>
       Len(Queue) > 0 /\ Queue[Len(Queue)].from = p /\ Queue[Len(Queue)].part = sent[p]
  /\ Len(Queue) > 0 /\ Queue[Len(Queue)].part < Parts[Queue[Len(Queue)].call] =>
       Handing(Queue[Len(Queue)].from)

\* What the daemon is reading is of one call.
HandlerInv ==
  /\ \A i \in 1 .. Len(handler) : handler[i] = [handler[1] EXCEPT !.part = i]
  /\ Len(handler) > 0 => Len(handler) <= Parts[handler[1].call]

InQueue(p) == \E i \in 1 .. Len(Queue) : Queue[i].from = p
Waits(p) == Accepting[p] # NoProc \/ Recving[p] # NoProc

\* The call of a process is in the queue, is waited for or was answered, and
\* in one place only.
Place(p) ==
  /\ Accepting[p] \in {NoProc, <<p, <<p, made[p]>>>>}
  /\ Recving[p] \in {NoProc, <<p, <<p, made[p]>>>>}
  /\ Accepting[p] = NoProc \/ Recving[p] = NoProc
  /\ Waits(p) => ~ InQueue(p) /\ sent[p] > 0
  /\ replies[p] # <<>> => /\ ~ InQueue(p) /\ ~ Waits(p) /\ sent[p] > 0
                          /\ replies[p] = <<<<p, made[p]>>>>
  /\ sent[p] = 0 => answered[p] = <<p, made[p]>>

PlaceInv == \A p \in Procs : Place(p)

\* A CONNECT or a BIND that left the queue was done.
DoneInv ==
  /\ \A p \in Procs : \A i \in 1 .. made[p] :
       Script[p][i] = "CONNECT" => p \in connected \/ (i = made[p] /\ InQueue(p))
  /\ \A p \in bound : \E i \in 1 .. made[p] :
       Script[p][i] = "BIND" /\ (i < made[p] \/ ~ InQueue(p))

Calm == QueueInv /\ LastInv /\ HandlerInv /\ PlaceInv /\ DoneInv

IInv == TypeOK /\ MoreTypes /\ (disturbed \/ Calm) /\ NoExit


-----------------------------------------------------------------------------
(* The types *)

\* A call has between one datagram and four.
LEMMA PartsType ==
  /\ DOMAIN Parts = {"SOCKET", "BIND", "ACCEPT", "RECV", "CONNECT", "SEND"}
  /\ \A c \in DOMAIN Parts : Parts[c] \in 1 .. 4
  /\ Parts["SOCKET"] = 1 /\ Parts["BIND"] = 3 /\ Parts["ACCEPT"] = 2
  /\ Parts["RECV"] = 3 /\ Parts["CONNECT"] = 3 /\ Parts["SEND"] = 4
BY DEF Parts

\* The call a process has made is one of the six.
LEMMA CallType ==
  ASSUME TypeOK, MoreTypes, NEW p \in Procs, made[p] > 0
  PROVE  /\ made[p] \in 1 .. Len(Script[p])
         /\ call(p) \in DOMAIN Parts /\ Parts[call(p)] \in 1 .. 4
<1>1. Script[p] \in Seq(DOMAIN Parts) /\ made[p] \in Nat /\ made[p] <= Len(Script[p])
  BY FrontAssumption, PartsType DEF TypeOK, MoreTypes
<1> QED BY <1>1, PartsType DEF call

\* The initial state has the types.
LEMMA InitTypes == Init => TypeOK /\ MoreTypes
<1> SUFFICES ASSUME Init PROVE TypeOK /\ MoreTypes
  OBVIOUS
<1>1. \A p \in Procs : Script[p] \in Seq(DOMAIN Parts)
  BY FrontAssumption, PartsType
<1>2. \A p \in Procs : Len(Script[p]) \in Nat
  BY <1>1
<1>3. TypeOK
  BY DEF Init, TypeOK, Requests
<1>4. replies \in [Procs -> Seq(Procs \X Nat)] /\ answered \in [Procs -> Procs \X Nat]
  BY DEF Init
<1>5. \A p \in Procs : made[p] = 0 /\ sent[p] = 0
  BY DEF Init
<1>6. disturbed \in BOOLEAN /\ \A p \in Procs : Accepting[p] = NoProc
  BY DEF Init
<1> QED BY <1>2, <1>3, <1>4, <1>5, <1>6 DEF MoreTypes

\* A next call keeps the types.
LEMMA CallsTypes ==
  ASSUME TypeOK, MoreTypes, NEW p \in Procs, Calls(p)
  PROVE  TypeOK' /\ MoreTypes'
<1> DEFINE d == [from |-> p, n |-> made[p] + 1, call |-> Script[p][made[p] + 1], part |-> 1]
<1>0. Script[p] \in Seq(DOMAIN Parts)
  BY FrontAssumption, PartsType
<1>1. Script[p] \in Seq(DOMAIN Parts) /\ made[p] \in Nat /\ made[p] + 1 <= Len(Script[p])
  BY <1>0 DEF TypeOK, Calls
<1>2. Script[p][made[p] + 1] \in DOMAIN Parts
  BY <1>1
<1>3. d \in Datagram
  BY <1>1, <1>2 DEF Datagram
<1>4. made' = [made EXCEPT ![p] = made[p] + 1] /\ sent' = [sent EXCEPT ![p] = 1]
      /\ socket' = Append(socket, d) /\ disturbed' \in BOOLEAN
      /\ UNCHANGED <<ended, answered, handler, status, bound, connected, sessions,
                     Accepting, Recving, replies>>
  BY DEF Calls, daemonVars
<1> HIDE DEF d
<1>5. TypeOK'
  BY <1>1, <1>3, <1>4 DEF TypeOK, Requests
<1>6. call(p)' = Script[p][made[p] + 1]
  BY <1>1, <1>4 DEF call, TypeOK
<1>7. \A q \in Procs \ {p} : made'[q] = made[q] /\ sent'[q] = sent[q] /\ call(q)' = call(q)
  BY <1>4 DEF call, TypeOK
<1>8. made'[p] = made[p] + 1 /\ sent'[p] = 1
  BY <1>4 DEF TypeOK
<1>9. \A q \in Procs : made'[q] <= Len(Script[q])
  BY <1>1, <1>7, <1>8 DEF MoreTypes
<1>10. \A q \in Procs : sent'[q] > 0 => made'[q] > 0 /\ sent'[q] <= Parts[call(q)']
  <2> TAKE q \in Procs
  <2>1. CASE q = p
    BY <2>1, <1>1, <1>2, <1>6, <1>8, PartsType
  <2>2. CASE q # p
    BY <2>2, <1>7 DEF MoreTypes
  <2> QED BY <2>1, <2>2
<1> QED BY <1>4, <1>5, <1>9, <1>10 DEF MoreTypes


\* Neither does an argument of it change them.
LEMMA HandsTypes ==
  ASSUME TypeOK, MoreTypes, NEW p \in Procs, Hands(p)
  PROVE  TypeOK' /\ MoreTypes'
<1> DEFINE d == [from |-> p, n |-> made[p], call |-> call(p), part |-> sent[p] + 1]
<1>1. made[p] \in Nat /\ made[p] > 0 /\ sent[p] \in 0 .. 4 /\ sent[p] > 0 /\ sent[p] < Parts[call(p)]
  BY DEF TypeOK, MoreTypes, Hands, Handing
<1>2. call(p) \in DOMAIN Parts /\ Parts[call(p)] \in 1 .. 4
  BY <1>1, CallType
<1>3. d \in Datagram
  BY <1>1, <1>2 DEF Datagram
<1>4. sent' = [sent EXCEPT ![p] = sent[p] + 1] /\ socket' = Append(socket, d)
      /\ UNCHANGED <<made, disturbed, ended, answered, handler, status, bound, connected,
                     sessions, Accepting, Recving, replies>>
  BY DEF Hands, daemonVars
<1> HIDE DEF d
<1>5. TypeOK'
  BY <1>1, <1>2, <1>3, <1>4 DEF TypeOK, Requests
<1>6. \A q \in Procs : call(q)' = call(q) /\ made'[q] = made[q]
                       /\ sent'[q] = IF q = p THEN sent[q] + 1 ELSE sent[q]
  BY <1>4 DEF call, TypeOK
<1>7. \A q \in Procs : sent'[q] > 0 => made'[q] > 0 /\ sent'[q] <= Parts[call(q)']
  <2> TAKE q \in Procs
  <2>1. CASE q = p
    BY <2>1, <1>1, <1>2, <1>6
  <2>2. CASE q # p
    BY <2>2, <1>6 DEF MoreTypes
  <2> QED BY <2>1, <2>2
<1> QED BY <1>4, <1>5, <1>6, <1>7 DEF MoreTypes

\* A return puts an answer among the answered.
LEMMA ReturnsTypes ==
  ASSUME TypeOK, MoreTypes, NEW p \in Procs, Returns(p)
  PROVE  TypeOK' /\ MoreTypes'
<1>1. replies[p] \in Seq(Procs \X Nat) /\ replies[p] # <<>>
  BY DEF MoreTypes, Returns
<1>2. Head(replies[p]) \in Procs \X Nat /\ Tail(replies[p]) \in Seq(Procs \X Nat)
  BY <1>1
<1>3. sent' = [sent EXCEPT ![p] = 0]
      /\ answered' = [answered EXCEPT ![p] = Head(replies[p])]
      /\ replies' = [replies EXCEPT ![p] = Tail(replies[p])]
      /\ UNCHANGED <<made, disturbed, ended, socket, handler, status, bound, connected,
                     sessions, Accepting, Recving>>
  BY DEF Returns, daemonVars
<1>4. TypeOK'
  BY <1>3 DEF TypeOK, Requests
<1>5. \A q \in Procs : call(q)' = call(q) /\ made'[q] = made[q]
                       /\ sent'[q] = IF q = p THEN 0 ELSE sent[q]
  BY <1>3 DEF call, TypeOK
<1>6. \A q \in Procs : sent'[q] > 0 => made'[q] > 0 /\ sent'[q] <= Parts[call(q)']
  <2> TAKE q \in Procs
  <2>1. CASE q = p
    BY <2>1, <1>5
  <2>2. CASE q # p
    BY <2>2, <1>5 DEF MoreTypes
  <2> QED BY <2>1, <2>2
<1>7. replies' \in [Procs -> Seq(Procs \X Nat)] /\ answered' \in [Procs -> Procs \X Nat]
  BY <1>2, <1>3 DEF MoreTypes
<1> QED BY <1>3, <1>4, <1>5, <1>6, <1>7 DEF MoreTypes

\* The end of a process empties its socket.
LEMMA EndsTypes ==
  ASSUME TypeOK, MoreTypes, NEW p \in Procs, Ends(p)
  PROVE  TypeOK' /\ MoreTypes'
<1>1. ended' = ended \cup {p} /\ disturbed' = (disturbed \/ Handing(p))
      /\ replies' = [replies EXCEPT ![p] = <<>>]
      /\ UNCHANGED <<made, sent, answered, socket, handler, status, bound, connected,
                     sessions, Accepting, Recving>>
  BY DEF Ends, daemonVars
<1>2. TypeOK'
  BY <1>1 DEF TypeOK, Requests
<1>3. \A q \in Procs : call(q)' = call(q)
  BY <1>1 DEF call
<1>4. replies' \in [Procs -> Seq(Procs \X Nat)] /\ disturbed' \in BOOLEAN
  BY <1>1 DEF MoreTypes
<1> QED BY <1>1, <1>2, <1>3, <1>4 DEF MoreTypes

\* What the daemon reads are datagrams, four at most.
LEMMA ReadsTypes ==
  ASSUME TypeOK, MoreTypes, process_tcpd_message \/ FetchesArgument
  PROVE  TypeOK' /\ MoreTypes'
<1>1. socket # <<>> /\ socket' = Tail(socket) /\ status' \in {"running", "exited"}
      /\ UNCHANGED <<made, sent, ended, disturbed, answered, bound, connected, sessions,
                     Accepting, Recving, replies>>
  BY DEF process_tcpd_message, FetchesArgument, frontVars, TypeOK
<1>2. Head(socket) \in Datagram /\ Tail(socket) \in Seq(Datagram)
  BY <1>1 DEF TypeOK
<1>3. handler' \in Seq(Datagram) /\ Len(handler') <= 4
  <2>1. CASE process_tcpd_message
    BY <2>1, <1>2 DEF process_tcpd_message
  <2>2. CASE FetchesArgument
    <3>1. handler \in Seq(Datagram) /\ handler # <<>>
      BY <2>2 DEF FetchesArgument, TypeOK
    <3>2. handler[1] \in Datagram
      BY <3>1
    <3>3. name \in DOMAIN Parts
      BY <3>2 DEF name, Datagram
    <3>4. Len(handler) < Parts[name] /\ Parts[name] \in 1 .. 4
      BY <2>2, <3>3, PartsType DEF FetchesArgument, Fetched
    <3>5. handler' = Append(handler, Head(socket))
      BY <2>2 DEF FetchesArgument
    <3> QED BY <1>2, <3>1, <3>4, <3>5
  <2> QED BY <2>1, <2>2
<1>4. TypeOK'
  BY <1>1, <1>2, <1>3 DEF TypeOK, Requests
<1>5. \A q \in Procs : call(q)' = call(q)
  BY <1>1 DEF call
<1> QED BY <1>1, <1>4, <1>5 DEF MoreTypes

\* A call that was read has a name, a process to be answered, and the number
\* of a socket.
LEMMA CompleteType ==
  ASSUME TypeOK, MoreTypes, NEW c \in DOMAIN Parts, Complete(c)
  PROVE  /\ handler \in Seq(Datagram) /\ Len(handler) = Parts[c] /\ Len(handler) > 0
         /\ handler[1] \in Datagram /\ handler[1].call = c
         /\ FrontAddr \in Procs /\ CallRead \in Procs \X Nat
         /\ c # "SOCKET" => SocketFD \in Procs \cup {Junk}
<1>1. handler \in Seq(Datagram) /\ handler # <<>> /\ Len(handler) = Parts[c] /\ handler[1].call = c
  BY DEF Complete, Fetching, Fetched, name, TypeOK
<1>2. Len(handler) > 0 /\ \A i \in 1 .. Len(handler) : handler[i] \in Datagram
  BY <1>1
<1>3. c # "SOCKET" => Len(handler) > 1
  BY <1>1, PartsType
<1> QED BY <1>1, <1>2, <1>3 DEF Datagram, FrontAddr, CallRead, SocketFD

\* An answer keeps the type of the replies.
LEMMA AnswerType ==
  ASSUME MoreTypes, NEW p \in Procs, NEW x \in Procs \X Nat, Answer(p, x)
  PROVE  replies' \in [Procs -> Seq(Procs \X Nat)]
<1>1. replies[p] \in Seq(Procs \X Nat)
  BY DEF MoreTypes
<1>2. Append(replies[p], x) \in Seq(Procs \X Nat)
  BY <1>1
<1> QED BY <1>2 DEF Answer, MoreTypes


\* Nor does what the daemon does with a call change the types.
LEMMA ServesTypes ==
  ASSUME TypeOK, MoreTypes,
         tcpd_SOCKET \/ tcpd_BIND \/ tcpd_ACCEPT \/ tcpd_RECV \/ tcpd_CONNECT \/ tcpd_SEND
  PROVE  TypeOK' /\ MoreTypes'
<1> DEFINE Same == UNCHANGED <<made, sent, ended, disturbed, answered, socket>>
           Rest == /\ handler' = <<>> /\ status' \in {"running", "exited"}
                   /\ bound \subseteq bound' /\ bound' \subseteq Procs
                   /\ connected' \subseteq Procs \cup {Junk} /\ sessions' = sessions
                   /\ Accepting' \in [Procs -> Requests] /\ Recving' \in [Procs -> Requests]
                   /\ \A p \in Procs : Accepting'[p] # NoProc => p \in bound'
                   /\ replies' \in [Procs -> Seq(Procs \X Nat)]
<1>0. status \in {"running", "exited"} /\ bound \subseteq Procs
      /\ connected \subseteq Procs \cup {Junk}
      /\ Accepting \in [Procs -> Requests] /\ Recving \in [Procs -> Requests]
      /\ replies \in [Procs -> Seq(Procs \X Nat)]
      /\ \A p \in Procs : Accepting[p] # NoProc => p \in bound
  BY DEF TypeOK, MoreTypes
<1>1. ASSUME Same, Rest PROVE TypeOK' /\ MoreTypes'
  <2>1. TypeOK'
    BY <1>1 DEF TypeOK
  <2>2. \A q \in Procs : call(q)' = call(q)
    BY <1>1 DEF call
  <2> QED BY <1>1, <2>1, <2>2 DEF MoreTypes
<1>2. CASE tcpd_SOCKET
  <2>1. FrontAddr \in Procs /\ CallRead \in Procs \X Nat
    BY <1>2, CompleteType, PartsType DEF tcpd_SOCKET
  <2>2. replies' \in [Procs -> Seq(Procs \X Nat)]
    BY <1>2, <2>1, AnswerType DEF tcpd_SOCKET
  <2> QED BY <1>0, <1>1, <1>2, <2>2 DEF tcpd_SOCKET, frontVars
<1>3. CASE tcpd_BIND
  <2>1. FrontAddr \in Procs /\ CallRead \in Procs \X Nat /\ SocketFD \in Procs \cup {Junk}
    BY <1>3, CompleteType, PartsType DEF tcpd_BIND
  <2>2. CASE SocketFD = Junk \/ InUse(SocketFD)
    <3>1. status' = "exited" /\ bound' = bound /\ replies' = replies
      BY <1>3, <2>2 DEF tcpd_BIND
    <3> QED BY <1>0, <1>1, <1>3, <3>1 DEF tcpd_BIND, frontVars
  <2>3. CASE ~ (SocketFD = Junk \/ InUse(SocketFD))
    <3>1. status' = status /\ bound' = bound \cup {SocketFD} /\ Answer(FrontAddr, CallRead)
      BY <1>3, <2>3 DEF tcpd_BIND
    <3>2. replies' \in [Procs -> Seq(Procs \X Nat)]
      BY <2>1, <3>1, AnswerType
    <3> QED BY <1>0, <1>1, <1>3, <2>1, <2>3, <3>1, <3>2 DEF tcpd_BIND, frontVars
  <2> QED BY <2>2, <2>3
<1>4. CASE tcpd_ACCEPT
  <2>1. FrontAddr \in Procs /\ CallRead \in Procs \X Nat
    BY <1>4, CompleteType, PartsType DEF tcpd_ACCEPT
  <2>2. CASE SocketFD \in bound /\ Accepting[SocketFD] = NoProc
    <3>1. Accepting' = [Accepting EXCEPT ![SocketFD] = <<FrontAddr, CallRead>>]
          /\ replies' = replies
      BY <1>4, <2>2 DEF tcpd_ACCEPT
    <3>2. <<FrontAddr, CallRead>> \in Requests
      BY <2>1 DEF Requests
    <3> QED BY <1>0, <1>1, <1>4, <2>2, <3>1, <3>2 DEF tcpd_ACCEPT, frontVars
  <2>3. CASE ~ (SocketFD \in bound /\ Accepting[SocketFD] = NoProc)
    <3>1. Accepting' = Accepting /\ Answer(FrontAddr, CallRead)
      BY <1>4, <2>3 DEF tcpd_ACCEPT
    <3>2. replies' \in [Procs -> Seq(Procs \X Nat)]
      BY <2>1, <3>1, AnswerType
    <3> QED BY <1>0, <1>1, <1>4, <3>1, <3>2 DEF tcpd_ACCEPT, frontVars
  <2> QED BY <2>2, <2>3
<1>5. CASE tcpd_RECV
  <2>1. FrontAddr \in Procs /\ CallRead \in Procs \X Nat
    BY <1>5, CompleteType, PartsType DEF tcpd_RECV
  <2>2. CASE SocketFD \in sessions /\ Recving[SocketFD] = NoProc
    <3>1. Recving' = [Recving EXCEPT ![SocketFD] = <<FrontAddr, CallRead>>]
          /\ replies' = replies
      BY <1>5, <2>2 DEF tcpd_RECV
    <3>2. <<FrontAddr, CallRead>> \in Requests
      BY <2>1 DEF Requests
    <3> QED BY <1>0, <1>1, <1>5, <2>2, <3>1, <3>2 DEF tcpd_RECV, frontVars
  <2>3. CASE ~ (SocketFD \in sessions /\ Recving[SocketFD] = NoProc)
    <3>1. Recving' = Recving /\ Answer(FrontAddr, CallRead)
      BY <1>5, <2>3 DEF tcpd_RECV
    <3>2. replies' \in [Procs -> Seq(Procs \X Nat)]
      BY <2>1, <3>1, AnswerType
    <3> QED BY <1>0, <1>1, <1>5, <3>1, <3>2 DEF tcpd_RECV, frontVars
  <2> QED BY <2>2, <2>3
<1>6. CASE tcpd_CONNECT
  <2>1. FrontAddr \in Procs /\ CallRead \in Procs \X Nat /\ SocketFD \in Procs \cup {Junk}
    BY <1>6, CompleteType, PartsType DEF tcpd_CONNECT
  <2>2. replies' \in [Procs -> Seq(Procs \X Nat)]
    BY <1>6, <2>1, AnswerType DEF tcpd_CONNECT
  <2> QED BY <1>0, <1>1, <1>6, <2>1, <2>2 DEF tcpd_CONNECT, frontVars
<1>7. CASE tcpd_SEND
  <2>1. FrontAddr \in Procs /\ CallRead \in Procs \X Nat
    BY <1>7, CompleteType, PartsType DEF tcpd_SEND
  <2>2. CASE SocketFD \in connected
    <3>1. status' = status /\ Answer(FrontAddr, CallRead)
      BY <1>7, <2>2 DEF tcpd_SEND
    <3>2. replies' \in [Procs -> Seq(Procs \X Nat)]
      BY <2>1, <3>1, AnswerType
    <3> QED BY <1>0, <1>1, <1>7, <3>1, <3>2 DEF tcpd_SEND, frontVars
  <2>3. CASE SocketFD \notin connected
    <3>1. status' = "exited" /\ replies' = replies
      BY <1>7, <2>3 DEF tcpd_SEND
    <3> QED BY <1>0, <1>1, <1>7, <3>1 DEF tcpd_SEND, frontVars
  <2> QED BY <2>2, <2>3
<1> QED BY <1>2, <1>3, <1>4, <1>5, <1>6, <1>7

\* An answer to a process that waits does not either.
LEMMA AnswersTypes ==
  ASSUME TypeOK, MoreTypes, NEW s \in Procs, handle_ack_back(s) \/ handle_recv_back(s)
  PROVE  TypeOK' /\ MoreTypes'
<1>1. \A r \in Requests : r # NoProc => r[1] \in Procs /\ r[2] \in Procs \X Nat
  BY DEF Requests
<1>2. NoProc \in Requests /\ UNCHANGED <<made, sent, ended, disturbed, answered, socket,
                                         handler, status, bound, connected>>
  BY DEF handle_ack_back, handle_recv_back, frontVars, Requests
<1>3. Accepting[s] \in Requests /\ Recving[s] \in Requests
  BY DEF TypeOK
<1>4. replies' \in [Procs -> Seq(Procs \X Nat)]
  <2>1. CASE handle_ack_back(s)
    BY <2>1, <1>1, <1>3, AnswerType DEF handle_ack_back
  <2>2. CASE handle_recv_back(s)
    BY <2>2, <1>1, <1>3, AnswerType DEF handle_recv_back
  <2> QED BY <2>1, <2>2
<1>5. Accepting' \in [Procs -> Requests] /\ Recving' \in [Procs -> Requests]
      /\ \A p \in Procs : Accepting'[p] # NoProc => Accepting[p] # NoProc
  BY <1>2 DEF handle_ack_back, handle_recv_back, TypeOK
<1>6. sessions' \subseteq bound
  BY DEF handle_ack_back, handle_recv_back, TypeOK, MoreTypes
<1>7. TypeOK'
  BY <1>2, <1>5, <1>6 DEF TypeOK
<1>8. \A q \in Procs : call(q)' = call(q)
  BY <1>2 DEF call
<1> QED BY <1>2, <1>4, <1>5, <1>7, <1>8 DEF MoreTypes

\* So every step keeps the types.
LEMMA NextTypes == TypeOK /\ MoreTypes /\ [Next]_vars => TypeOK' /\ MoreTypes'
<1> SUFFICES ASSUME TypeOK, MoreTypes, [Next]_vars PROVE TypeOK' /\ MoreTypes'
  OBVIOUS
<1>1. CASE Front
  BY <1>1, CallsTypes, HandsTypes, ReturnsTypes, EndsTypes DEF Front
<1>2. CASE ServesCalls
  BY <1>2, ReadsTypes, ServesTypes DEF ServesCalls
<1>3. CASE AnswersWaiting
  BY <1>3, AnswersTypes DEF AnswersWaiting
<1>4. CASE UNCHANGED vars
  BY <1>4 DEF vars, frontVars, daemonVars, TypeOK, MoreTypes, call
<1> QED BY <1>1, <1>2, <1>3, <1>4 DEF Next


-----------------------------------------------------------------------------
(* The queue *)

\* The queue is the handler and, after it, the socket.
LEMMA QueueIs ==
  ASSUME TypeOK
  PROVE  /\ handler \in Seq(Datagram) /\ socket \in Seq(Datagram)
         /\ Queue \in Seq(Datagram) /\ Len(Queue) = Len(handler) + Len(socket)
         /\ \A i \in 1 .. Len(Queue) : Queue[i] \in Datagram
         /\ \A i \in 1 .. Len(handler) : Queue[i] = handler[i]
         /\ \A i \in 1 .. Len(socket) : Queue[Len(handler) + i] = socket[i]
BY DEF Queue, TypeOK

\* A datagram that is sent comes last.
LEMMA QueueGrows ==
  ASSUME TypeOK, NEW d \in Datagram, socket' = Append(socket, d), handler' = handler
  PROVE  /\ Len(Queue)' = Len(Queue) + 1 /\ Queue'[Len(Queue) + 1] = d
         /\ \A i \in 1 .. Len(Queue) : Queue'[i] = Queue[i]
BY DEF Queue, TypeOK

\* Reading one more of a call leaves the queue as it is.
LEMMA QueueStays ==
  ASSUME TypeOK, socket # <<>>, socket' = Tail(socket), handler' = Append(handler, Head(socket))
  PROVE  Queue' = Queue
<1>1. handler \in Seq(Datagram) /\ socket \in Seq(Datagram)
  BY DEF TypeOK
<1>2. Head(socket) \in Datagram /\ Tail(socket) \in Seq(Datagram)
  BY <1>1
<1>3. Append(handler, Head(socket)) \o Tail(socket) = handler \o socket
  BY <1>1, <1>2
<1> QED BY <1>3 DEF Queue

\* A call that is done leaves from the front.
LEMMA QueueShrinks ==
  ASSUME TypeOK, handler' = <<>>, socket' = socket
  PROVE  /\ Len(Queue)' = Len(Queue) - Len(handler)
         /\ \A i \in 1 .. Len(Queue)' : Queue'[i] = Queue[Len(handler) + i]
BY DEF Queue, TypeOK


-----------------------------------------------------------------------------
(* The front processes leave the daemon calm *)

\* The next call of a process that is not disturbed comes after whole ones.
LEMMA CallsCalm ==
  ASSUME TypeOK, MoreTypes, Calm, NEW p \in Procs, Calls(p), ~ disturbed'
  PROVE  Calm'
<1> DEFINE d == [from |-> p, n |-> made[p] + 1, call |-> Script[p][made[p] + 1], part |-> 1]
<1>0. Script[p] \in Seq(DOMAIN Parts)
  BY FrontAssumption, PartsType
<1>1. /\ made[p] \in Nat /\ made[p] + 1 \in 1 .. Len(Script[p])
      /\ Script[p][made[p] + 1] \in DOMAIN Parts
  BY <1>0 DEF TypeOK, Calls
<1>2. d \in Datagram /\ d.from = p /\ d.n = made[p] + 1 /\ d.call = Script[p][made[p] + 1]
      /\ d.part = 1
  BY <1>1 DEF Datagram
<1>3. /\ made' = [made EXCEPT ![p] = made[p] + 1] /\ sent' = [sent EXCEPT ![p] = 1]
      /\ socket' = Append(socket, d) /\ p \notin ended /\ sent[p] = 0
      /\ UNCHANGED <<ended, answered, handler, status, bound, connected, sessions,
                     Accepting, Recving, replies>>
  BY DEF Calls, daemonVars
<1>4. \A q \in Procs : ~ Handing(q)
  <2>1. \A q \in Procs \ {p} : ~ Handing(q)
    BY DEF Calls
  <2>2. ~ Handing(p)
    BY <1>3 DEF Handing
  <2> QED BY <2>1, <2>2
<1> HIDE DEF d
<1>5. /\ Len(Queue)' = Len(Queue) + 1 /\ Queue'[Len(Queue) + 1] = d /\ Len(Queue) \in Nat
      /\ \A i \in 1 .. Len(Queue) : Queue'[i] = Queue[i] /\ Queue[i] \in Datagram
  BY <1>2, <1>3, QueueGrows, QueueIs
<1>6. \A i \in 1 .. Len(Queue) : Queue[i].from \in Procs \ {p}
  BY <1>3, <1>5 DEF Calm, QueueInv, Current, Datagram
<1>7. /\ \A q \in Procs \ {p} : made'[q] = made[q] /\ sent'[q] = sent[q] /\ call(q)' = call(q)
      /\ made'[p] = made[p] + 1 /\ sent'[p] = 1 /\ call(p)' = Script[p][made[p] + 1]
  BY <1>1, <1>3 DEF call, TypeOK
<1>8. QueueInv'
  <2>1. Queue'[1].part = 1
    BY <1>2, <1>5 DEF Calm, QueueInv
  <2>2. \A i \in 1 .. Len(Queue) : Linked(Queue'[i], Queue'[i + 1])
    <3> TAKE i \in 1 .. Len(Queue)
    <3>1. CASE i = Len(Queue)
      <4>1. ~ (Queue[i].part < Parts[Queue[i].call])
        BY <1>4, <1>5, <1>6, <3>1 DEF Calm, LastInv
      <4> QED BY <1>2, <1>5, <3>1, <4>1 DEF Linked
    <3>2. CASE i # Len(Queue)
      BY <1>5, <3>2 DEF Calm, QueueInv
    <3> QED BY <3>1, <3>2
  <2>3. \A i \in 1 .. Len(Queue) + 1 : Current(Queue[i])'
    <3> TAKE i \in 1 .. Len(Queue) + 1
    <3>1. CASE i = Len(Queue) + 1
      <4>1. Queue'[i] = d /\ made'[p] = made[p] + 1 /\ sent'[p] = 1 /\ call(p)' = d.call
        BY <1>2, <1>5, <1>7, <3>1
      <4> QED BY <1>1, <1>2, <4>1 DEF Current
    <3>2. CASE i # Len(Queue) + 1
      <4>1. Current(Queue[i]) /\ Queue'[i] = Queue[i] /\ Queue[i].from \in Procs \ {p}
        BY <1>5, <1>6, <3>2 DEF Calm, QueueInv
      <4> QED BY <1>7, <4>1 DEF Current
    <3> QED BY <3>1, <3>2
  <2>4. \A i, j \in 1 .. Len(Queue) + 1 :
          Queue'[i].from = Queue'[j].from /\ Queue'[i].part = Queue'[j].part => i = j
    <3> TAKE i, j \in 1 .. Len(Queue) + 1
    <3> HAVE Queue'[i].from = Queue'[j].from /\ Queue'[i].part = Queue'[j].part
    <3>1. CASE i = Len(Queue) + 1 \/ j = Len(Queue) + 1
      BY <1>2, <1>5, <1>6, <3>1
    <3>2. CASE i \in 1 .. Len(Queue) /\ j \in 1 .. Len(Queue)
      BY <1>5, <3>2 DEF Calm, QueueInv
    <3> QED BY <1>5, <3>1, <3>2
  <2> QED BY <1>5, <2>1, <2>2, <2>3, <2>4 DEF QueueInv
<1>9. LastInv'
  <2>1. \A q \in Procs \ {p} : ~ Handing(q)'
    BY <1>3, <1>4, <1>7 DEF Handing
  <2>2. Parts[d.call] > 1 => Handing(p)'
    BY <1>2, <1>3, <1>7 DEF Handing
  <2>3. Len(Queue)' > 0 /\ Queue'[Len(Queue)'] = d
    BY <1>5
  <2> QED BY <1>2, <1>7, <2>1, <2>2, <2>3 DEF LastInv
<1>10. HandlerInv'
  BY <1>3 DEF Calm, HandlerInv
<1>11. /\ \A q \in Procs \ {p} : InQueue(q)' <=> InQueue(q)
       /\ \A q \in Procs : Waits(q)' <=> Waits(q)
       /\ InQueue(p)' /\ ~ InQueue(p)
  <2>1. \A q \in Procs \ {p} : InQueue(q)' <=> InQueue(q)
    <3> TAKE q \in Procs \ {p}
    <3>1. InQueue(q) => InQueue(q)'
      BY <1>5 DEF InQueue
    <3>2. InQueue(q)' => InQueue(q)
      BY <1>2, <1>5 DEF InQueue
    <3> QED BY <3>1, <3>2
  <2>2. InQueue(p)' /\ ~ InQueue(p)
    BY <1>2, <1>5, <1>6 DEF InQueue
  <2>3. \A q \in Procs : Waits(q)' <=> Waits(q)
    BY <1>3 DEF Waits
  <2> QED BY <2>1, <2>2, <2>3
<1>12. PlaceInv'
  <2> SUFFICES ASSUME NEW q \in Procs PROVE Place(q)'
    BY DEF PlaceInv
  <2>1. CASE q = p
    <3>1. ~ Waits(p) /\ replies[p] = <<>>
      BY <1>3 DEF Calm, PlaceInv, Place
    <3>2. Accepting[p] = NoProc /\ Recving[p] = NoProc
      BY <3>1 DEF Waits
    <3> QED BY <1>3, <1>7, <1>11, <2>1, <3>1, <3>2 DEF Place
  <2>2. CASE q # p
    BY <1>3, <1>7, <1>11, <2>2 DEF Calm, PlaceInv, Place
  <2> QED BY <2>1, <2>2
<1>13. DoneInv'
  <2>1. \A q \in Procs : \A i \in 1 .. made'[q] :
          Script[q][i] = "CONNECT" => q \in connected \/ (i = made'[q] /\ InQueue(q)')
    <3> TAKE q \in Procs
    <3> TAKE i \in 1 .. made'[q]
    <3> HAVE Script[q][i] = "CONNECT"
    <3>1. CASE q = p
      BY <1>1, <1>7, <1>11, <3>1 DEF Calm, DoneInv
    <3>2. CASE q # p
      BY <1>7, <1>11, <3>2 DEF Calm, DoneInv
    <3> QED BY <3>1, <3>2
  <2>2. \A q \in bound : \E i \in 1 .. made'[q] :
          Script[q][i] = "BIND" /\ (i < made'[q] \/ ~ InQueue(q)')
    <3> TAKE q \in bound
    <3>1. q \in Procs
      BY DEF TypeOK
    <3>2. CASE q = p
      BY <1>1, <1>7, <3>2 DEF Calm, DoneInv
    <3>3. CASE q # p
      BY <1>7, <1>11, <3>1, <3>3 DEF Calm, DoneInv
    <3> QED BY <3>2, <3>3
  <2> QED BY <1>3, <2>1, <2>2 DEF DoneInv
<1> QED BY <1>8, <1>9, <1>10, <1>12, <1>13 DEF Calm


\* An argument comes after the datagram it goes on from.
LEMMA HandsCalm ==
  ASSUME TypeOK, MoreTypes, Calm, NEW p \in Procs, Hands(p), ~ disturbed'
  PROVE  Calm'
<1> DEFINE d == [from |-> p, n |-> made[p], call |-> call(p), part |-> sent[p] + 1]
<1>1. /\ made[p] \in Nat /\ made[p] > 0 /\ sent[p] \in 1 .. 4
      /\ sent[p] < Parts[call(p)] /\ Handing(p)
      /\ call(p) \in DOMAIN Parts /\ Parts[call(p)] \in 1 .. 4
  BY CallType, SMTT(20) DEF TypeOK, MoreTypes, Hands, Handing
<1>2. d \in Datagram /\ d.from = p /\ d.n = made[p] /\ d.call = call(p) /\ d.part = sent[p] + 1
  BY <1>1 DEF Datagram
<1>3. /\ sent' = [sent EXCEPT ![p] = sent[p] + 1] /\ socket' = Append(socket, d)
      /\ UNCHANGED <<made, ended, answered, handler, status, bound, connected, sessions,
                     Accepting, Recving, replies>>
  BY DEF Hands, daemonVars
<1> HIDE DEF d
<1>4. /\ Len(Queue)' = Len(Queue) + 1 /\ Queue'[Len(Queue) + 1] = d /\ Len(Queue) \in Nat
      /\ \A i \in 1 .. Len(Queue) : Queue'[i] = Queue[i] /\ Queue[i] \in Datagram
  BY <1>2, <1>3, QueueGrows, QueueIs
<1>5. \A q \in Procs : /\ call(q)' = call(q) /\ made'[q] = made[q]
                       /\ sent'[q] = IF q = p THEN sent[q] + 1 ELSE sent[q]
  BY <1>3 DEF call, TypeOK
<1>6. Len(Queue) > 0 /\ Queue[Len(Queue)].from = p /\ Queue[Len(Queue)].part = sent[p]
  BY <1>1 DEF Calm, LastInv
<1>7. Current(Queue[Len(Queue)])
  BY <1>4, <1>6 DEF Calm, QueueInv
<1>8. Queue[Len(Queue)] \in Datagram
  BY <1>4, <1>6
<1>9. QueueInv'
  <2>1. Queue'[1].part = 1
    BY <1>4, <1>6 DEF Calm, QueueInv
  <2>2. \A i \in 1 .. Len(Queue) : Linked(Queue'[i], Queue'[i + 1])
    <3> TAKE i \in 1 .. Len(Queue)
    <3>1. CASE i = Len(Queue)
      <4>1. d = [Queue[i] EXCEPT !.part = Queue[i].part + 1]
        BY <1>2, <1>6, <1>7, <1>8, <3>1 DEF Current, Datagram
      <4>2. Queue[i].part < Parts[Queue[i].call]
        BY <1>1, <1>6, <1>7, <3>1 DEF Current
      <4> QED BY <1>4, <3>1, <4>1, <4>2 DEF Linked
    <3>2. CASE i # Len(Queue)
      BY <1>4, <3>2 DEF Calm, QueueInv
    <3> QED BY <3>1, <3>2
  <2>3. \A i \in 1 .. Len(Queue) + 1 : Current(Queue[i])'
    <3> TAKE i \in 1 .. Len(Queue) + 1
    <3>1. CASE i = Len(Queue) + 1
      <4>1. Queue'[i] = d /\ made'[p] = made[p] /\ sent'[p] = sent[p] + 1 /\ call(p)' = d.call
        BY <1>2, <1>4, <1>5, <3>1
      <4> QED BY <1>1, <1>2, <4>1 DEF Current
    <3>2. CASE i # Len(Queue) + 1
      <4>1. Current(Queue[i]) /\ Queue'[i] = Queue[i] /\ Queue[i] \in Datagram
        BY <1>4, <3>2 DEF Calm, QueueInv
      <4>2. Queue[i].from \in Procs /\ Queue[i].part \in 1 .. 4
        BY <4>1 DEF Datagram
      <4>3. sent[Queue[i].from] \in 0 .. 4
        BY <4>2 DEF TypeOK
      <4>4. Queue[i].part \in 1 .. sent'[Queue[i].from]
        <5>1. Queue[i].part \in 1 .. sent[Queue[i].from]
          BY <4>1 DEF Current
        <5>2. sent'[Queue[i].from] \in {sent[Queue[i].from], sent[Queue[i].from] + 1}
          BY <1>5, <4>2
        <5> QED BY <4>3, <5>1, <5>2
      <4> QED BY <1>5, <4>1, <4>2, <4>4 DEF Current
    <3> QED BY <3>1, <3>2
  <2>4. \A i, j \in 1 .. Len(Queue) + 1 :
          Queue'[i].from = Queue'[j].from /\ Queue'[i].part = Queue'[j].part => i = j
    <3>1. \A i \in 1 .. Len(Queue) : Queue[i].from = p => Queue[i].part # sent[p] + 1
      BY <1>1 DEF Calm, QueueInv, Current
    <3> TAKE i, j \in 1 .. Len(Queue) + 1
    <3> HAVE Queue'[i].from = Queue'[j].from /\ Queue'[i].part = Queue'[j].part
    <3>2. CASE i = Len(Queue) + 1 \/ j = Len(Queue) + 1
      BY <1>2, <1>4, <3>1, <3>2
    <3>3. CASE i \in 1 .. Len(Queue) /\ j \in 1 .. Len(Queue)
      BY <1>4, <3>3 DEF Calm, QueueInv
    <3> QED BY <1>4, <3>2, <3>3
  <2> QED BY <1>4, <2>1, <2>2, <2>3, <2>4 DEF QueueInv
<1>10. LastInv'
  <2>1. \A q \in Procs \ {p} : ~ Handing(q)
    BY <1>6 DEF Calm, LastInv
  <2>2. \A q \in Procs \ {p} : ~ Handing(q)'
    BY <1>3, <1>5, <2>1 DEF Handing
  <2>3. d.part < Parts[d.call] => Handing(p)'
    BY <1>1, <1>2, <1>3, <1>5 DEF Handing
  <2>4. Len(Queue)' > 0 /\ Queue'[Len(Queue)'] = d
    BY <1>4
  <2> QED BY <1>2, <1>5, <2>2, <2>3, <2>4 DEF LastInv
<1>11. HandlerInv'
  BY <1>3 DEF Calm, HandlerInv
<1>12. \A q \in Procs : (InQueue(q)' <=> InQueue(q)) /\ (Waits(q)' <=> Waits(q))
  <2> TAKE q \in Procs
  <2>1. InQueue(q) => InQueue(q)'
    BY <1>4 DEF InQueue
  <2>2. InQueue(q)' => InQueue(q)
    BY <1>2, <1>4, <1>6 DEF InQueue
  <2>3. Waits(q)' <=> Waits(q)
    BY <1>3 DEF Waits
  <2> QED BY <2>1, <2>2, <2>3
<1>13. PlaceInv'
  <2> SUFFICES ASSUME NEW q \in Procs PROVE Place(q)'
    BY DEF PlaceInv
  <2>1. sent'[q] > 0 <=> sent[q] > 0
    BY <1>1, <1>5
  <2>2. sent'[q] = 0 <=> sent[q] = 0
    BY <1>1, <1>5
  <2> QED BY <1>3, <1>12, <2>1, <2>2 DEF Calm, PlaceInv, Place
<1>14. DoneInv'
  BY <1>3, <1>12 DEF Calm, DoneInv, TypeOK
<1> QED BY <1>9, <1>10, <1>11, <1>13, <1>14 DEF Calm

\* A call whose answer is there is neither in the queue nor waited for.
LEMMA ReturnsCalm ==
  ASSUME TypeOK, MoreTypes, Calm, NEW p \in Procs, Returns(p), ~ disturbed'
  PROVE  Calm'
<1>0. sent[p] = Parts[call(p)] /\ replies[p] # <<>> /\ Place(p)
  BY DEF Returns, Waiting, Calm, PlaceInv
<1>1. /\ ~ InQueue(p) /\ ~ Waits(p) /\ replies[p] = <<<<p, made[p]>>>>
      /\ Accepting[p] = NoProc /\ Recving[p] = NoProc /\ ~ Handing(p)
  <2>1. ~ InQueue(p) /\ ~ Waits(p) /\ replies[p] = <<<<p, made[p]>>>>
    BY <1>0 DEF Place
  <2>2. Accepting[p] = NoProc /\ Recving[p] = NoProc
    BY <2>1 DEF Waits
  <2>3. sent[p] \in 0 .. 4
    BY DEF TypeOK
  <2>4. ~ Handing(p)
    BY <1>0, <2>3 DEF Handing
  <2> QED BY <2>1, <2>2, <2>4
<1>2. /\ sent' = [sent EXCEPT ![p] = 0]
      /\ answered' = [answered EXCEPT ![p] = Head(replies[p])]
      /\ replies' = [replies EXCEPT ![p] = Tail(replies[p])]
      /\ UNCHANGED <<made, ended, socket, handler, status, bound, connected, sessions,
                     Accepting, Recving>>
  BY DEF Returns, daemonVars
<1>3. \A q \in Procs : /\ call(q)' = call(q)
                       /\ q # p => /\ sent'[q] = sent[q] /\ replies'[q] = replies[q]
                                   /\ answered'[q] = answered[q]
  BY <1>2 DEF call, TypeOK, MoreTypes
<1>4. sent'[p] = 0 /\ replies'[p] = <<>> /\ answered'[p] = <<p, made[p]>>
  BY <1>1, <1>2 DEF TypeOK, MoreTypes
<1>5. Queue' = Queue /\ \A q \in Procs : (InQueue(q)' <=> InQueue(q)) /\ (Waits(q)' <=> Waits(q))
  BY <1>2 DEF Queue, InQueue, Waits
<1>6. \A i \in 1 .. Len(Queue) : Queue[i].from \in Procs \ {p}
  BY <1>1, QueueIs DEF InQueue, Datagram
<1>7. QueueInv'
  <2>1. \A i \in 1 .. Len(Queue) : Current(Queue[i])'
    <3> TAKE i \in 1 .. Len(Queue)
    <3>1. Current(Queue[i]) /\ Queue[i].from \in Procs \ {p}
      BY <1>6 DEF Calm, QueueInv
    <3> QED BY <1>2, <1>3, <1>5, <3>1 DEF Current
  <2> QED BY <1>5, <2>1 DEF Calm, QueueInv
<1>8. LastInv'
  <2>1. \A q \in Procs : Handing(q)' <=> Handing(q)
    BY <1>1, <1>2, <1>3, <1>4 DEF Handing
  <2>2. \A q \in Procs : Handing(q) => sent'[q] = sent[q]
    BY <1>1, <1>3
  <2>3. Len(Queue) > 0 => Queue[Len(Queue)].from \in Procs
    BY <1>6, QueueIs
  <2> QED BY <1>5, <2>1, <2>2, <2>3 DEF Calm, LastInv
<1>9. HandlerInv'
  BY <1>2 DEF Calm, HandlerInv
<1>10. PlaceInv'
  <2> SUFFICES ASSUME NEW q \in Procs PROVE Place(q)'
    BY DEF PlaceInv
  <2>1. CASE q = p
    BY <1>1, <1>2, <1>4, <1>5, <2>1 DEF Place
  <2>2. CASE q # p
    BY <1>2, <1>3, <1>5, <2>2 DEF Calm, PlaceInv, Place
  <2> QED BY <2>1, <2>2
<1>11. DoneInv'
  BY <1>2, <1>5 DEF Calm, DoneInv, TypeOK
<1> QED BY <1>7, <1>8, <1>9, <1>10, <1>11 DEF Calm

\* A process that is killed between its calls, or waiting, leaves no call half sent.
LEMMA EndsCalm ==
  ASSUME TypeOK, MoreTypes, Calm, NEW p \in Procs, Ends(p), ~ disturbed'
  PROVE  Calm'
<1>1. /\ ended' = ended \cup {p} /\ ~ Handing(p)
      /\ replies' = [replies EXCEPT ![p] = <<>>]
      /\ UNCHANGED <<made, sent, answered, socket, handler, status, bound, connected, sessions,
                     Accepting, Recving>>
  BY DEF Ends, daemonVars
<1>2. \A q \in Procs : /\ call(q)' = call(q) /\ (Handing(q)' <=> Handing(q))
                       /\ replies'[q] \in {<<>>, replies[q]}
  BY <1>1 DEF call, Handing, MoreTypes
<1>3. Queue' = Queue /\ \A q \in Procs : (InQueue(q)' <=> InQueue(q)) /\ (Waits(q)' <=> Waits(q))
  BY <1>1 DEF Queue, InQueue, Waits
<1>4. QueueInv'
  <2>1. \A i \in 1 .. Len(Queue) : Current(Queue[i])'
    BY <1>1, <1>3 DEF Calm, QueueInv, Current, call
  <2> QED BY <1>3, <2>1 DEF Calm, QueueInv
<1>5. LastInv'
  <2>1. Len(Queue) > 0 => Queue[Len(Queue)].from \in Procs
    <3>1. Len(Queue) > 0 => Queue[Len(Queue)] \in Datagram
      BY QueueIs
    <3> QED BY <3>1 DEF Datagram
  <2> QED BY <1>1, <1>2, <1>3, <2>1 DEF Calm, LastInv
<1>6. HandlerInv'
  BY <1>1 DEF Calm, HandlerInv
<1>7. PlaceInv'
  BY <1>1, <1>2, <1>3 DEF Calm, PlaceInv, Place
<1>8. DoneInv'
  BY <1>1, <1>3 DEF Calm, DoneInv, TypeOK
<1> QED BY <1>4, <1>5, <1>6, <1>7, <1>8 DEF Calm


-----------------------------------------------------------------------------
(* So does the daemon *)

\* A step that leaves the queue and the calls alone keeps what is true of them.
LEMMA QueueKept ==
  ASSUME Calm, Queue' = Queue, UNCHANGED <<made, sent, ended>>
  PROVE  QueueInv' /\ LastInv' /\ \A p \in Procs : InQueue(p)' <=> InQueue(p)
<1>1. \A p \in Procs : Handing(p)' <=> Handing(p)
  BY DEF Handing, call
<1>2. \A i \in 1 .. Len(Queue) : Current(Queue[i])'
  BY DEF Calm, QueueInv, Current, call
<1>3. QueueInv'
  BY <1>2 DEF Calm, QueueInv
<1>4. LastInv'
  BY DEF Calm, LastInv, Handing, call
<1> QED BY <1>3, <1>4 DEF InQueue

\* The datagram the daemon fetches is the next of the call it is reading.
LEMMA FetchesNext ==
  ASSUME TypeOK, Calm, handler # <<>>, socket # <<>>, Len(handler) < Parts[handler[1].call]
  PROVE  Head(socket) = [handler[1] EXCEPT !.part = Len(handler) + 1]
<1> DEFINE n == Len(handler)
<1>1. /\ n \in Nat \ {0} /\ handler[1] \in Datagram /\ handler[n] \in Datagram
      /\ Len(socket) > 0 /\ Head(socket) = socket[1] /\ socket[1] \in Datagram
  BY QueueIs
<1>2. Queue[n] = handler[n] /\ Queue[n + 1] = socket[1] /\ n \in 1 .. Len(Queue) - 1
  BY <1>1, QueueIs
<1>3. handler[n] = [handler[1] EXCEPT !.part = n]
  BY <1>1 DEF Calm, HandlerInv
<1>4. Linked(handler[n], socket[1])
  BY <1>2 DEF Calm, QueueInv
<1>5. handler[n].part = n /\ handler[n].call = handler[1].call
  BY <1>1, <1>3 DEF Datagram
<1>6. socket[1] = [handler[n] EXCEPT !.part = n + 1]
  BY <1>4, <1>5 DEF Linked
<1> HIDE DEF n
<1>7. socket[1] = [handler[1] EXCEPT !.part = n + 1]
  BY <1>1, <1>3, <1>6 DEF Datagram
<1> QED BY <1>1, <1>7 DEF n

\* The first datagram of a call is what the daemon reads when it reads none.
LEMMA ReadsCalm ==
  ASSUME TypeOK, MoreTypes, Calm, process_tcpd_message \/ FetchesArgument
  PROVE  Calm'
<1>1. UNCHANGED <<made, sent, ended, answered, bound, connected, sessions,
                  Accepting, Recving, replies>>
      /\ socket # <<>> /\ socket' = Tail(socket)
  BY DEF process_tcpd_message, FetchesArgument, frontVars
<1>2. handler' = Append(handler, Head(socket)) /\ HandlerInv'
  <2>1. Head(socket) \in Datagram /\ handler \in Seq(Datagram) /\ Len(socket) > 0
        /\ Head(socket) = socket[1]
    BY <1>1, QueueIs
  <2>2. CASE process_tcpd_message
    <3>1. handler = <<>> /\ Queue[1] = socket[1] /\ Len(Queue) > 0
      BY <2>1, <2>2, QueueIs DEF process_tcpd_message
    <3>2. Head(socket).part = 1
      BY <2>1, <3>1 DEF Calm, QueueInv
    <3>3. handler' = <<Head(socket)>>
      BY <2>2, <3>2 DEF process_tcpd_message
    <3>4. Parts[Head(socket).call] \in 1 .. 4
      BY <2>1, PartsType DEF Datagram
    <3>5. Head(socket) = [Head(socket) EXCEPT !.part = 1]
      BY <2>1, <3>2 DEF Datagram
    <3> QED BY <3>1, <3>3, <3>4, <3>5 DEF HandlerInv
  <2>3. CASE FetchesArgument
    <3>1. handler # <<>> /\ Len(handler) < Parts[handler[1].call]
          /\ handler' = Append(handler, Head(socket))
      BY <2>3 DEF FetchesArgument, Fetched, name
    <3>2. Head(socket) = [handler[1] EXCEPT !.part = Len(handler) + 1]
      BY <1>1, <3>1, FetchesNext
    <3>3. /\ Len(handler') = Len(handler) + 1 /\ handler'[Len(handler) + 1] = Head(socket)
          /\ \A i \in 1 .. Len(handler) : handler'[i] = handler[i]
          /\ Len(handler) \in Nat \ {0}
      <4>1. Len(handler) \in Nat \ {0}
        BY <2>1, <3>1
      <4> QED BY <2>1, <3>1, <4>1
    <3>4. \A i \in 1 .. Len(handler') : handler'[i] = [handler'[1] EXCEPT !.part = i]
      <4> TAKE i \in 1 .. Len(handler')
      <4>1. handler'[1] = handler[1]
        BY <3>3
      <4>2. CASE i = Len(handler) + 1
        BY <3>2, <3>3, <4>1, <4>2
      <4>3. CASE i \in 1 .. Len(handler)
        BY <3>3, <4>1, <4>3 DEF Calm, HandlerInv
      <4> QED BY <3>3, <4>2, <4>3
    <3>5. handler[1].call \in DOMAIN Parts
      <4>1. handler[1] \in Datagram
        BY <2>1, <3>1
      <4> QED BY <4>1 DEF Datagram
    <3>6. Len(handler') <= Parts[handler'[1].call]
      BY <3>1, <3>3, <3>5, PartsType
    <3> QED BY <3>1, <3>4, <3>6 DEF HandlerInv
  <2> QED BY <2>2, <2>3
<1>3. Queue' = Queue
  BY <1>1, <1>2, QueueStays
<1>4. QueueInv' /\ LastInv' /\ \A p \in Procs : InQueue(p)' <=> InQueue(p)
  BY <1>1, <1>3, QueueKept
<1>5. PlaceInv'
  BY <1>1, <1>4 DEF Calm, PlaceInv, Place, Waits
<1>6. DoneInv'
  BY <1>1, <1>4 DEF Calm, DoneInv, TypeOK
<1> QED BY <1>2, <1>4, <1>5, <1>6 DEF Calm

\* A process that waited is answered once.
LEMMA AnswersCalm ==
  ASSUME TypeOK, MoreTypes, Calm, NEW s \in Procs, handle_ack_back(s) \/ handle_recv_back(s)
  PROVE  Calm'
<1>1. /\ UNCHANGED <<made, sent, ended, answered, socket, handler, bound, connected>>
      /\ NoProc \notin Procs
  BY FrontAssumption DEF handle_ack_back, handle_recv_back, frontVars
<1>2. Queue' = Queue
  BY <1>1 DEF Queue
<1>3. QueueInv' /\ LastInv' /\ \A p \in Procs : InQueue(p)' <=> InQueue(p)
  BY <1>1, <1>2, QueueKept
<1>4. /\ ~ InQueue(s) /\ replies[s] = <<>> /\ sent[s] > 0 /\ Waits(s)
      /\ Accepting[s] = NoProc \/ Recving[s] = NoProc
  BY DEF Calm, PlaceInv, Place, Waits, handle_ack_back, handle_recv_back
<1>5. Answer(s, <<s, made[s]>>)
  <2>1. CASE handle_ack_back(s)
    <3>1. Accepting[s] = <<s, <<s, made[s]>>>>
      BY <2>1 DEF Calm, PlaceInv, Place, handle_ack_back
    <3> QED BY <2>1, <3>1 DEF handle_ack_back
  <2>2. CASE handle_recv_back(s)
    <3>1. Recving[s] = <<s, <<s, made[s]>>>>
      BY <2>2 DEF Calm, PlaceInv, Place, handle_recv_back
    <3> QED BY <2>2, <3>1 DEF handle_recv_back
  <2> QED BY <2>1, <2>2
<1>6. replies'[s] \in {<<>>, <<<<s, made[s]>>>>}
      /\ \A q \in Procs \ {s} : replies'[q] = replies[q]
  BY <1>4, <1>5 DEF Answer, MoreTypes
<1>7. Accepting'[s] = NoProc /\ Recving'[s] = NoProc
      /\ \A q \in Procs \ {s} : Accepting'[q] = Accepting[q] /\ Recving'[q] = Recving[q]
  BY <1>4 DEF handle_ack_back, handle_recv_back, TypeOK
<1>8. PlaceInv'
  <2> SUFFICES ASSUME NEW q \in Procs PROVE Place(q)'
    BY DEF PlaceInv
  <2>1. CASE q = s
    <3>1. ~ Waits(s)'
      BY <1>7 DEF Waits
    <3> QED BY <1>1, <1>3, <1>4, <1>6, <1>7, <2>1, <3>1 DEF Place
  <2>2. CASE q # s
    <3>1. Waits(q)' <=> Waits(q)
      BY <1>7, <2>2 DEF Waits
    <3> QED BY <1>1, <1>3, <1>6, <1>7, <2>2, <3>1 DEF Calm, PlaceInv, Place
  <2> QED BY <2>1, <2>2
<1>9. HandlerInv' /\ DoneInv'
  BY <1>1, <1>3 DEF Calm, HandlerInv, DoneInv, TypeOK
<1> QED BY <1>3, <1>8, <1>9 DEF Calm


\* What the daemon reads whole is the last call of one process, which it names
\* as its sender and its socket, and nothing else of that process is left.
LEMMA CompleteCalm ==
  ASSUME TypeOK, MoreTypes, Calm, NEW c \in DOMAIN Parts, Complete(c),
         NEW p, p = handler[1].from
  PROVE  /\ p \in Procs /\ c = call(p) /\ made[p] \in Nat /\ made[p] > 0 /\ sent[p] > 0
         /\ sent[p] = Parts[c]
         /\ Len(handler) = Parts[c] /\ InQueue(p)
         /\ FrontAddr = p /\ CallRead = <<p, made[p]>>
         /\ c # "SOCKET" => SocketFD = p
         /\ \A i \in 1 .. Len(Queue) : Queue[i].from = p => i <= Len(handler)
         /\ Accepting[p] = NoProc /\ Recving[p] = NoProc /\ replies[p] = <<>>
<1> DEFINE n == Len(handler)
<1>1. /\ handler \in Seq(Datagram) /\ n = Parts[c] /\ n \in 1 .. 4
      /\ handler[1] \in Datagram /\ handler[1].call = c
      /\ c # "SOCKET" => n > 1
  <2>1. c # "SOCKET" => Parts[c] > 1
    BY PartsType
  <2> QED BY <2>1, CompleteType, PartsType
<1>2. \A i \in 1 .. n : /\ handler[i].from = p /\ handler[i].n = handler[1].n
                        /\ handler[i].call = c /\ handler[i].part = i
                        /\ Queue[i] = handler[i] /\ Current(Queue[i]) /\ i \in 1 .. Len(Queue)
  <2> TAKE i \in 1 .. n
  <2>1. handler[i] = [handler[1] EXCEPT !.part = i]
    BY DEF Calm, HandlerInv
  <2>2. Queue[i] = handler[i] /\ i \in 1 .. Len(Queue)
    BY <1>1, QueueIs
  <2>3. Current(Queue[i])
    BY <2>2 DEF Calm, QueueInv
  <2> QED BY <1>1, <2>1, <2>2, <2>3 DEF Datagram
<1>3. p \in Procs /\ handler[1].n = made[p] /\ made[p] > 0 /\ c = call(p)
  BY <1>1, <1>2 DEF Current, Datagram
<1>4. sent[p] = n /\ sent[p] > 0 /\ made[p] \in Nat
  <2>1. n \in 1 .. sent[p]
    BY <1>1, <1>2 DEF Current
  <2>2. sent[p] \in 0 .. 4 /\ made[p] \in Nat
    BY <1>3 DEF TypeOK
  <2>3. sent[p] <= Parts[call(p)]
    BY <1>1, <1>3, <2>1, <2>2 DEF MoreTypes
  <2> QED BY <1>1, <1>3, <2>1, <2>2, <2>3
<1>5. InQueue(p)
  BY <1>1, <1>2 DEF InQueue
<1>6. FrontAddr = p /\ CallRead = <<p, made[p]>> /\ (c # "SOCKET" => SocketFD = p)
  BY <1>1, <1>2, <1>3 DEF FrontAddr, CallRead, SocketFD
<1>7. \A i \in 1 .. Len(Queue) : Queue[i].from = p => i <= n
  <2> TAKE i \in 1 .. Len(Queue)
  <2> HAVE Queue[i].from = p
  <2>1. Queue[i].part \in 1 .. n
    BY <1>4 DEF Calm, QueueInv, Current
  <2>2. /\ Queue[Queue[i].part].from = p /\ Queue[Queue[i].part].part = Queue[i].part
        /\ Queue[i].part \in 1 .. Len(Queue)
    BY <1>2, <2>1
  <2>3. Queue[i].part = i
    BY <2>2 DEF Calm, QueueInv
  <2> QED BY <2>1, <2>3
<1>8. Accepting[p] = NoProc /\ Recving[p] = NoProc /\ replies[p] = <<>>
  BY <1>3, <1>5 DEF Calm, PlaceInv, Place, Waits
<1> HIDE DEF n
<1> QED BY <1>1, <1>3, <1>4, <1>5, <1>6, <1>7, <1>8 DEF n

\* A call that is done, and answered or waited for, leaves the daemon calm.
LEMMA ServedCalm ==
  ASSUME TypeOK, MoreTypes, Calm, NEW c \in DOMAIN Parts, Complete(c),
         NEW p, p = handler[1].from,
         handler' = <<>>, UNCHANGED <<made, sent, ended, answered, socket>>,
         \A q \in Procs \ {p} : /\ Accepting'[q] = Accepting[q] /\ Recving'[q] = Recving[q]
                                /\ replies'[q] = replies[q],
         Accepting'[p] \in {NoProc, <<p, <<p, made[p]>>>>},
         Recving'[p] \in {NoProc, <<p, <<p, made[p]>>>>},
         replies'[p] \in {<<>>, <<<<p, made[p]>>>>},
         Accepting'[p] # NoProc => Recving'[p] = NoProc /\ replies'[p] = <<>>,
         Recving'[p] # NoProc => replies'[p] = <<>>,
         connected \subseteq connected', c = "CONNECT" => p \in connected',
         bound' \subseteq bound \cup {p}, c # "BIND" => bound' = bound
  PROVE  Calm'
<1> DEFINE n == Len(handler)
<1>1. /\ p \in Procs /\ c = call(p) /\ made[p] \in Nat /\ made[p] > 0 /\ sent[p] > 0
      /\ sent[p] = Parts[c] /\ n = Parts[c] /\ InQueue(p)
      /\ \A i \in 1 .. Len(Queue) : Queue[i].from = p => i <= n
  BY CompleteCalm
<1>2. n \in 1 .. Len(Queue) /\ Len(Queue) \in Nat
      /\ \A i \in 1 .. Len(Queue) : Queue[i] \in Datagram
  BY <1>1, QueueIs DEF TypeOK
<1>3. /\ Len(Queue)' = Len(Queue) - n
      /\ \A i \in 1 .. Len(Queue)' : Queue'[i] = Queue[n + i] /\ n + i \in n + 1 .. Len(Queue)
  <2>1. Len(Queue)' = Len(Queue) - n /\ \A i \in 1 .. Len(Queue)' : Queue'[i] = Queue[n + i]
    BY QueueShrinks
  <2>2. \A i \in 1 .. Len(Queue) - n : n + i \in n + 1 .. Len(Queue)
    BY ONLY <1>2
  <2> QED BY <2>1, <2>2
<1>4. Queue[n] = handler[n] /\ handler[n].part = n /\ handler[n].call = c
  <2>1. handler[1] \in Datagram /\ handler[1].call = c /\ n \in 1 .. Len(handler)
    BY <1>1, <1>2, CompleteType
  <2>2. handler[n] = [handler[1] EXCEPT !.part = n]
    BY <2>1 DEF Calm, HandlerInv
  <2> QED BY <2>1, <2>2, QueueIs DEF Datagram
<1>5. UNCHANGED <<made, sent, ended>> /\ \A q \in Procs : call(q)' = call(q) /\ Handing(q)' = Handing(q)
  BY DEF call, Handing
<1> HIDE DEF n
<1>6. QueueInv'
  <2>1. Len(Queue)' > 0 => Queue'[1].part = 1
    <3>1. Linked(Queue[n], Queue[n + 1]) \/ n = Len(Queue)
      BY <1>2 DEF Calm, QueueInv
    <3>2. n # Len(Queue) => Queue[n + 1].part = 1
      <4>1. ~ (Queue[n].part < Parts[Queue[n].call])
        BY <1>1, <1>2, <1>4
      <4> QED BY <3>1, <4>1 DEF Linked
    <3>3. n = Len(Queue) => Len(Queue)' = 0
      BY <1>2, <1>3
    <3>4. Len(Queue)' > 0 => Queue'[1] = Queue[n + 1]
      BY <1>2, <1>3
    <3> QED BY <3>2, <3>3, <3>4
  <2>2. \A i \in 1 .. Len(Queue)' - 1 : Linked(Queue'[i], Queue'[i + 1])
    <3> TAKE i \in 1 .. Len(Queue)' - 1
    <3>1. n + i \in 1 .. Len(Queue) - 1
      BY <1>2, <1>3
    <3>2. Linked(Queue[n + i], Queue[n + i + 1])
      BY <3>1 DEF Calm, QueueInv
    <3> QED BY <1>2, <1>3, <3>2
  <2>3. \A i \in 1 .. Len(Queue)' : Current(Queue[i])'
    <3> TAKE i \in 1 .. Len(Queue)'
    <3>1. n + i \in 1 .. Len(Queue)
      BY ONLY <1>2, <1>3
    <3>2. Current(Queue[n + i]) /\ Queue'[i] = Queue[n + i]
      BY <1>3, <3>1 DEF Calm, QueueInv
    <3> QED BY <1>5, <3>2 DEF Current, call
  <2>4. \A i, j \in 1 .. Len(Queue)' :
          Queue'[i].from = Queue'[j].from /\ Queue'[i].part = Queue'[j].part => i = j
    <3> TAKE i, j \in 1 .. Len(Queue)'
    <3> HAVE Queue'[i].from = Queue'[j].from /\ Queue'[i].part = Queue'[j].part
    <3>1. n + i \in 1 .. Len(Queue) /\ n + j \in 1 .. Len(Queue)
      BY <1>2, <1>3
    <3>2. n + i = n + j
      BY <1>3, <3>1 DEF Calm, QueueInv
    <3> QED BY <1>2, <3>2
  <2> QED BY <2>1, <2>2, <2>3, <2>4 DEF QueueInv
<1>7. LastInv'
  <2>1. CASE n = Len(Queue)
    <3>1. Queue[Len(Queue)].part = Parts[call(p)] /\ Len(Queue)' = 0
      BY <1>1, <1>2, <1>3, <1>4, <2>1
    <3>2. ASSUME NEW q \in Procs, Handing(q) PROVE FALSE
      <4>1. Queue[Len(Queue)].from = q /\ Queue[Len(Queue)].part = sent[q]
        BY <3>2 DEF Calm, LastInv
      <4>2. call(q) = Queue[Len(Queue)].call
        BY <1>2, <4>1 DEF Calm, QueueInv, Current
      <4>3. sent[q] = Parts[call(q)]
        <5>1. n = Parts[c]
          BY <1>1
        <5>2. sent[q] = n /\ call(q) = c
          BY ONLY <1>4, <2>1, <4>1, <4>2
        <5> QED BY <5>1, <5>2
      <4>4. sent[q] \in 0 .. 4
        BY DEF TypeOK
      <4> QED BY <3>2, <4>3, <4>4 DEF Handing
    <3> QED BY <1>5, <3>1, <3>2 DEF LastInv
  <2>2. CASE n # Len(Queue)
    <3>1. Len(Queue)' > 0 /\ Queue'[Len(Queue)'] = Queue[Len(Queue)]
          /\ Queue[Len(Queue)].from \in Procs /\ Len(Queue) > 0
      BY <1>2, <1>3, <2>2 DEF Datagram
    <3> QED BY <1>5, <3>1 DEF Calm, LastInv
  <2> QED BY <2>1, <2>2
<1>8. HandlerInv'
  BY DEF HandlerInv
<1>9. ~ InQueue(p)' /\ \A q \in Procs \ {p} : InQueue(q)' <=> InQueue(q)
  <2>1. ~ InQueue(p)'
    <3>1. \A i \in 1 .. Len(Queue)' : Queue'[i].from # p
      <4> TAKE i \in 1 .. Len(Queue)'
      <4>1. n + i \in 1 .. Len(Queue) /\ ~ (n + i <= n) /\ Queue'[i] = Queue[n + i]
        BY ONLY <1>2, <1>3
      <4> QED BY <1>1, <4>1
    <3> QED BY <3>1 DEF InQueue
  <2>2. ASSUME NEW q \in Procs \ {p} PROVE InQueue(q)' <=> InQueue(q)
    <3>1. InQueue(q)' => InQueue(q)
      BY <1>2, <1>3 DEF InQueue
    <3>2. ASSUME InQueue(q) PROVE InQueue(q)'
      <4>1. PICK i \in 1 .. Len(Queue) : Queue[i].from = q
        BY <3>2 DEF InQueue
      <4>2. i > n
        <5>1. \A k \in 1 .. n : Queue[k].from = p
          <6> TAKE k \in 1 .. n
          <6>1. handler[k] = [handler[1] EXCEPT !.part = k] /\ Queue[k] = handler[k]
            BY QueueIs DEF Calm, HandlerInv, n
          <6>2. handler[1] \in Datagram
            BY CompleteType
          <6> QED BY <6>1, <6>2 DEF Datagram
        <5> QED BY <1>2, <4>1, <5>1
      <4>3. i - n \in 1 .. Len(Queue)' /\ Queue'[i - n] = Queue[i]
        BY <1>2, <1>3, <4>2
      <4> QED BY <4>1, <4>3 DEF InQueue
    <3> QED BY <3>1, <3>2
  <2> QED BY <2>1, <2>2
<1>10. PlaceInv'
  <2> SUFFICES ASSUME NEW q \in Procs PROVE Place(q)'
    BY DEF PlaceInv
  <2>1. CASE q = p
    BY <1>1, <1>9, <2>1 DEF Place, Waits
  <2>2. CASE q # p
    <3>1. Waits(q)' <=> Waits(q)
      BY <2>2 DEF Waits
    <3> QED BY <1>9, <2>2, <3>1 DEF Calm, PlaceInv, Place
  <2> QED BY <2>1, <2>2
<1>11. DoneInv'
  <2>1. \A q \in Procs : \A i \in 1 .. made[q] :
          Script[q][i] = "CONNECT" => q \in connected' \/ (i = made[q] /\ InQueue(q)')
    <3> TAKE q \in Procs
    <3> TAKE i \in 1 .. made[q]
    <3> HAVE Script[q][i] = "CONNECT"
    <3>1. q \in connected \/ (i = made[q] /\ InQueue(q))
      BY DEF Calm, DoneInv
    <3>2. CASE q = p
      BY <1>1, <3>1, <3>2 DEF call
    <3>3. CASE q # p
      BY <1>9, <3>1, <3>3
    <3> QED BY <3>2, <3>3
  <2>2. \A q \in bound' : \E i \in 1 .. made[q] :
          Script[q][i] = "BIND" /\ (i < made[q] \/ ~ InQueue(q)')
    <3> TAKE q \in bound'
    <3>1. CASE q \in bound
      <4>1. q \in Procs
        BY <3>1 DEF TypeOK
      <4> QED BY <1>9, <3>1, <4>1 DEF Calm, DoneInv
    <3>2. CASE q \notin bound
      <4>1. q = p /\ c = "BIND"
        BY <3>2
      <4>2. made[p] \in 1 .. made[p] /\ Script[p][made[p]] = "BIND"
        BY <1>1, <4>1 DEF call
      <4> QED BY <1>9, <4>1, <4>2
    <3> QED BY <3>1, <3>2
  <2> QED BY <2>1, <2>2 DEF DoneInv
<1> QED BY <1>6, <1>7, <1>8, <1>10, <1>11 DEF Calm


\* What is answered is answered to the process that called.
LEMMA AnswerOf ==
  ASSUME MoreTypes, NEW p \in Procs, NEW x, Answer(p, x), replies[p] = <<>>
  PROVE  /\ replies'[p] \in {<<>>, <<x>>}
         /\ \A q \in Procs \ {p} : replies'[q] = replies[q]
BY DEF Answer, MoreTypes

\* Every call of the daemon is done that way.
LEMMA ServesCalm ==
  ASSUME TypeOK, MoreTypes, Calm,
         tcpd_SOCKET \/ tcpd_BIND \/ tcpd_ACCEPT \/ tcpd_RECV \/ tcpd_CONNECT \/ tcpd_SEND
  PROVE  Calm'
<1> DEFINE p == handler[1].from
           x == <<p, made[p]>>
           Known(c) == /\ p \in Procs /\ FrontAddr = p /\ CallRead = x
                       /\ c # "SOCKET" => SocketFD = p
                       /\ Accepting[p] = NoProc /\ Recving[p] = NoProc /\ replies[p] = <<>>
<1>1. ASSUME NEW c \in DOMAIN Parts, Complete(c) PROVE Known(c)
  BY <1>1, CompleteCalm
<1>2. \A c \in {"SOCKET", "BIND", "ACCEPT", "RECV", "CONNECT", "SEND"} : c \in DOMAIN Parts
  BY PartsType
<1>3. Accepting \in [Procs -> Requests] /\ Recving \in [Procs -> Requests] /\ NoProc \notin Procs
  BY FrontAssumption DEF TypeOK
<1> HIDE DEF p
<1>4. CASE tcpd_SOCKET
  <2>1. Complete("SOCKET") /\ Answer(FrontAddr, CallRead)
    BY <1>4 DEF tcpd_SOCKET
  <2>2. Known("SOCKET")
    BY <1>1, <1>2, <2>1
  <2>3. replies'[p] \in {<<>>, <<x>>} /\ \A q \in Procs \ {p} : replies'[q] = replies[q]
    BY <2>1, <2>2, AnswerOf
  <2> QED BY <1>2, <1>4, <2>1, <2>2, <2>3, ServedCalm DEF tcpd_SOCKET, frontVars, p
<1>5. CASE tcpd_BIND
  <2>1. Complete("BIND")
    BY <1>5 DEF tcpd_BIND
  <2>2. Known("BIND")
    BY <1>1, <1>2, <2>1
  <2>3. /\ replies'[p] \in {<<>>, <<x>>} /\ \A q \in Procs \ {p} : replies'[q] = replies[q]
        /\ bound' \subseteq bound \cup {p}
    <3>1. \/ bound' = bound /\ replies' = replies
          \/ bound' = bound \cup {SocketFD} /\ Answer(FrontAddr, CallRead)
      BY <1>5 DEF tcpd_BIND
    <3> QED BY <2>2, <3>1, AnswerOf
  <2> QED BY <1>2, <1>5, <2>1, <2>2, <2>3, ServedCalm DEF tcpd_BIND, frontVars, p
<1>6. CASE tcpd_ACCEPT
  <2>1. Complete("ACCEPT")
    BY <1>6 DEF tcpd_ACCEPT
  <2>2. Known("ACCEPT")
    BY <1>1, <1>2, <2>1
  <2>3. CASE SocketFD \in bound /\ Accepting[SocketFD] = NoProc
    <3>1. Accepting' = [Accepting EXCEPT ![p] = <<p, x>>] /\ replies' = replies /\ Recving' = Recving
      BY <1>6, <2>2, <2>3 DEF tcpd_ACCEPT
    <3>2. Accepting'[p] = <<p, x>> /\ \A q \in Procs \ {p} : Accepting'[q] = Accepting[q]
      BY <1>3, <2>2, <3>1
    <3> QED BY <1>2, <1>6, <2>1, <2>2, <3>1, <3>2, ServedCalm DEF tcpd_ACCEPT, frontVars, p
  <2>4. CASE ~ (SocketFD \in bound /\ Accepting[SocketFD] = NoProc)
    <3>1. Accepting' = Accepting /\ Answer(FrontAddr, CallRead)
      BY <1>6, <2>4 DEF tcpd_ACCEPT
    <3>2. replies'[p] \in {<<>>, <<x>>} /\ \A q \in Procs \ {p} : replies'[q] = replies[q]
      BY <2>2, <3>1, AnswerOf
    <3> QED BY <1>2, <1>6, <2>1, <2>2, <3>1, <3>2, ServedCalm DEF tcpd_ACCEPT, frontVars, p
  <2> QED BY <2>3, <2>4
<1>7. CASE tcpd_RECV
  <2>1. Complete("RECV")
    BY <1>7 DEF tcpd_RECV
  <2>2. Known("RECV")
    BY <1>1, <1>2, <2>1
  <2>3. CASE SocketFD \in sessions /\ Recving[SocketFD] = NoProc
    <3>1. Recving' = [Recving EXCEPT ![p] = <<p, x>>] /\ replies' = replies /\ Accepting' = Accepting
      BY <1>7, <2>2, <2>3 DEF tcpd_RECV
    <3>2. Recving'[p] = <<p, x>> /\ \A q \in Procs \ {p} : Recving'[q] = Recving[q]
      BY <1>3, <2>2, <3>1
    <3> QED BY <1>2, <1>7, <2>1, <2>2, <3>1, <3>2, ServedCalm DEF tcpd_RECV, frontVars, p
  <2>4. CASE ~ (SocketFD \in sessions /\ Recving[SocketFD] = NoProc)
    <3>1. Recving' = Recving /\ Answer(FrontAddr, CallRead)
      BY <1>7, <2>4 DEF tcpd_RECV
    <3>2. replies'[p] \in {<<>>, <<x>>} /\ \A q \in Procs \ {p} : replies'[q] = replies[q]
      BY <2>2, <3>1, AnswerOf
    <3> QED BY <1>2, <1>7, <2>1, <2>2, <3>1, <3>2, ServedCalm DEF tcpd_RECV, frontVars, p
  <2> QED BY <2>3, <2>4
<1>8. CASE tcpd_CONNECT
  <2>1. Complete("CONNECT") /\ Answer(FrontAddr, CallRead)
    BY <1>8 DEF tcpd_CONNECT
  <2>2. Known("CONNECT")
    BY <1>1, <1>2, <2>1
  <2>3. replies'[p] \in {<<>>, <<x>>} /\ \A q \in Procs \ {p} : replies'[q] = replies[q]
    BY <2>1, <2>2, AnswerOf
  <2>4. p \in connected' /\ connected \subseteq connected'
    BY <1>8, <2>2 DEF tcpd_CONNECT
  <2> QED BY <1>2, <1>8, <2>1, <2>2, <2>3, <2>4, ServedCalm DEF tcpd_CONNECT, frontVars, p
<1>9. CASE tcpd_SEND
  <2>1. Complete("SEND")
    BY <1>9 DEF tcpd_SEND
  <2>2. Known("SEND")
    BY <1>1, <1>2, <2>1
  <2>3. replies'[p] \in {<<>>, <<x>>} /\ \A q \in Procs \ {p} : replies'[q] = replies[q]
    <3>1. replies' = replies \/ Answer(FrontAddr, CallRead)
      BY <1>9 DEF tcpd_SEND
    <3> QED BY <2>2, <3>1, AnswerOf
  <2> QED BY <1>2, <1>9, <2>1, <2>2, <2>3, ServedCalm DEF tcpd_SEND, frontVars, p
<1> QED BY <1>4, <1>5, <1>6, <1>7, <1>8, <1>9

-----------------------------------------------------------------------------
(* The daemon does not exit *)

\* Who binds a port again has bound it before, and does so twice or in the
\* place of another.
LEMMA BindsRunning ==
  ASSUME TypeOK, MoreTypes, Calm, tcpd_BIND, ~ Rebinds
  PROVE  status' = status
<1> DEFINE p == handler[1].from
<1>1. Complete("BIND") /\ "BIND" \in DOMAIN Parts
  BY PartsType DEF tcpd_BIND
<1>2. /\ p \in Procs /\ "BIND" = call(p) /\ made[p] \in Nat /\ made[p] > 0 /\ InQueue(p)
      /\ SocketFD = p
  BY <1>1, CompleteCalm
<1>3. made[p] \in 1 .. made[p] /\ made[p] \in 1 .. Len(Script[p]) /\ Script[p][made[p]] = "BIND"
  BY <1>2, CallType DEF call
<1> HIDE DEF p
<1>4. Script[p] \in Seq(DOMAIN Parts) /\ Junk \notin Procs
  BY <1>2, FrontAssumption, PartsType
<1>5. ~ InUse(p)
  <2> SUFFICES ASSUME NEW q \in bound, Port[q] = Port[p] PROVE FALSE
    BY DEF InUse
  <2>1. q \in Procs
    BY DEF TypeOK
  <2>2. PICK i \in 1 .. made[q] : Script[q][i] = "BIND" /\ (i < made[q] \/ ~ InQueue(q))
    BY DEF Calm, DoneInv
  <2>3. CASE q = p
    <3>1. i < made[p] /\ i \in 1 .. Len(Script[p])
      BY <1>2, <1>3, <1>4, <2>2, <2>3
    <3>2. i \in DOMAIN Script[p] /\ made[p] \in DOMAIN Script[p]
      BY <1>3, <1>4, <3>1
    <3>3. i = made[p]
      BY <1>2, <1>3, <2>2, <2>3, <3>2, FrontAssumption
    <3> QED BY <1>2, <3>1, <3>3
  <2>4. CASE q # p
    <3>1. \A r \in {q, p} : \E j \in 1 .. made[r] : Script[r][j] = "BIND"
      BY <1>3, <2>2
    <3> QED BY <1>2, <2>1, <2>4, <3>1 DEF Rebinds
  <2> QED BY <2>3, <2>4
<1> QED BY <1>2, <1>4, <1>5 DEF tcpd_BIND

\* Who SENDs has CONNECTed.
LEMMA SendsRunning ==
  ASSUME TypeOK, MoreTypes, Calm, tcpd_SEND
  PROVE  status' = status
<1> DEFINE p == handler[1].from
<1>1. Complete("SEND") /\ "SEND" \in DOMAIN Parts
  BY PartsType DEF tcpd_SEND
<1>2. /\ p \in Procs /\ "SEND" = call(p) /\ made[p] \in Nat /\ made[p] > 0 /\ SocketFD = p
  BY <1>1, CompleteCalm
<1>3. made[p] \in 1 .. Len(Script[p]) /\ Script[p][made[p]] = "SEND"
  BY <1>2, CallType DEF call
<1> HIDE DEF p
<1>4. Script[p] \in Seq(DOMAIN Parts)
  BY <1>2, FrontAssumption, PartsType
<1>5. made[p] \in DOMAIN Script[p]
  BY <1>3, <1>4
<1>6. PICK j \in 1 .. (made[p] - 1) : Script[p][j] = "CONNECT"
  BY <1>2, <1>3, <1>5, FrontAssumption
<1>7. j \in 1 .. made[p] /\ j # made[p]
  BY <1>2
<1>8. p \in connected
  BY <1>2, <1>6, <1>7 DEF Calm, DoneInv
<1> QED BY <1>2, <1>8 DEF tcpd_SEND

\* What the daemon fetches as the length of a SEND is its length.
LEMMA FetchesRunning ==
  ASSUME TypeOK, MoreTypes, Calm, FetchesArgument, status = "running"
  PROVE  status' = "running"
<1>1. Head(socket) = [handler[1] EXCEPT !.part = Len(handler) + 1] /\ handler[1] \in Datagram
  BY FetchesNext, QueueIs DEF FetchesArgument, Fetched, name
<1>2. Head(socket).call = handler[1].call /\ Head(socket).part = Len(handler) + 1
  BY <1>1 DEF Datagram
<1>3. name = "SEND" /\ Len(handler) = 2
      => <<Head(socket).call, Head(socket).part>> = <<"SEND", 3>>
  BY <1>2 DEF name
<1> QED BY <1>3 DEF FetchesArgument

\* A process that binds a port again goes on having done so.
LEMMA RebindsStays ==
  ASSUME TypeOK, [Next]_vars, Rebinds
  PROVE  Rebinds'
<1>1. \A p \in Procs : made[p] \in Nat /\ made'[p] \in {made[p], made[p] + 1}
  BY DEF Next, Front, ServesCalls, AnswersWaiting, Calls, Hands, Returns, Ends,
         process_tcpd_message, FetchesArgument, tcpd_SOCKET, tcpd_BIND, tcpd_ACCEPT,
         tcpd_RECV, tcpd_CONNECT, tcpd_SEND, handle_ack_back, handle_recv_back,
         vars, frontVars, TypeOK
<1>2. \A p \in Procs : \A i \in 1 .. made[p] : i \in 1 .. made'[p]
  BY <1>1
<1> QED BY <1>2 DEF Rebinds

\* A disturbed call stays one.
LEMMA DisturbedStays ==
  ASSUME [Next]_vars, disturbed
  PROVE  disturbed'
BY DEF Next, Front, ServesCalls, AnswersWaiting, Calls, Hands, Returns, Ends,
       process_tcpd_message, FetchesArgument, tcpd_SOCKET, tcpd_BIND, tcpd_ACCEPT,
       tcpd_RECV, tcpd_CONNECT, tcpd_SEND, handle_ack_back, handle_recv_back,
       vars, frontVars


-----------------------------------------------------------------------------
(* The theorems *)

\* Init establishes IInv.
LEMMA InitIInv == Init => IInv
<1> SUFFICES ASSUME Init PROVE IInv
  OBVIOUS
<1>1. TypeOK /\ MoreTypes
  BY InitTypes
<1>2. Len(Queue) = 0 /\ \A p \in Procs : ~ InQueue(p) /\ ~ Handing(p) /\ ~ Waits(p)
  BY DEF Init, Queue, InQueue, Handing, Waits
<1>3. QueueInv /\ LastInv /\ HandlerInv
  BY <1>2 DEF Init, QueueInv, LastInv, HandlerInv
<1>4. PlaceInv
  BY <1>2 DEF Init, PlaceInv, Place
<1>5. DoneInv
  BY DEF Init, DoneInv
<1>6. NoExit
  BY DEF Init, NoExit
<1> QED BY <1>1, <1>3, <1>4, <1>5, <1>6 DEF IInv, Calm

\* Every step keeps it: a step that disturbs a call has nothing to keep, and
\* any other starts from, and leads to, a calm state.
LEMMA NextIInv == IInv /\ [Next]_vars => IInv'
<1> SUFFICES ASSUME IInv, [Next]_vars PROVE IInv'
  OBVIOUS
<1>1. TypeOK /\ MoreTypes /\ TypeOK' /\ MoreTypes'
  BY NextTypes DEF IInv
<1>2. CASE disturbed'
  BY <1>1, <1>2 DEF IInv, NoExit
<1>3. CASE ~ disturbed'
  <2>1. ~ disturbed /\ Calm
    BY <1>3, DisturbedStays DEF IInv
  <2>2. CASE Front
    <3>1. Calm'
      BY <1>1, <1>3, <2>1, <2>2, CallsCalm, HandsCalm, ReturnsCalm, EndsCalm DEF Front
    <3>2. status' = status
      BY <2>2 DEF Front, Calls, Hands, Returns, Ends, daemonVars
    <3> QED BY <1>1, <2>1, <3>1, <3>2, RebindsStays DEF IInv, NoExit
  <2>3. CASE ServesCalls
    <3>1. Calm'
      BY <1>1, <2>1, <2>3, ReadsCalm, ServesCalm DEF ServesCalls
    <3>2. status = "running" /\ ~ Rebinds => status' = "running"
      BY <1>1, <2>1, <2>3, BindsRunning, SendsRunning, FetchesRunning
      DEF ServesCalls, process_tcpd_message, tcpd_SOCKET, tcpd_ACCEPT, tcpd_RECV, tcpd_CONNECT
    <3> QED BY <1>1, <2>1, <3>1, <3>2, RebindsStays DEF IInv, NoExit
  <2>4. CASE AnswersWaiting
    <3>1. Calm'
      BY <1>1, <2>1, <2>4, AnswersCalm DEF AnswersWaiting
    <3>2. status' = status
      BY <2>4 DEF AnswersWaiting, handle_ack_back, handle_recv_back
    <3> QED BY <1>1, <2>1, <3>1, <3>2, RebindsStays DEF IInv, NoExit
  <2>5. CASE UNCHANGED vars
    <3>1. Queue' = Queue /\ UNCHANGED <<made, sent, ended, answered, handler, bound, connected,
                                        Accepting, Recving, replies, status>>
      BY <2>5 DEF vars, frontVars, daemonVars, Queue
    <3>2. QueueInv' /\ LastInv' /\ \A p \in Procs : InQueue(p)' <=> InQueue(p)
      BY <2>1, <3>1, QueueKept
    <3>3. HandlerInv' /\ PlaceInv' /\ DoneInv'
      BY <1>1, <2>1, <3>1, <3>2 DEF Calm, HandlerInv, PlaceInv, Place, Waits, DoneInv, TypeOK
    <3> QED BY <1>1, <2>1, <3>1, <3>2, <3>3, RebindsStays DEF IInv, Calm, NoExit
  <2> QED BY <2>2, <2>3, <2>4, <2>5 DEF Next
<1> QED BY <1>2, <1>3

\* Every reachable state of the front calls has the inductive invariant.
THEOREM Inductive == Spec => []IInv
<1> QED BY InitIInv, NextIInv, PTL DEF Spec

\* Every variable keeps its type, whoever calls and whoever is killed
\* (tcpd.c:573-1207).
THEOREM TypeCorrect == Spec => []TypeOK
<1>1. IInv => TypeOK
  BY DEF IInv
<1> QED BY <1>1, Inductive, PTL

\* Any number of processes, killed and started again between their calls, never
\* make the daemon read the datagrams of two calls as one (tcpd.c:582-586 and
\* the recvfroms like them of the other calls).
THEOREM CallsWhole == Spec => []CallWhole
<1>1. IInv => CallWhole
  <2>1. TypeOK => DOMAIN handler = 1 .. Len(handler)
    BY DEF TypeOK
  <2> QED BY <2>1 DEF IInv, Calm, HandlerInv, CallWhole
<1> QED BY <1>1, Inductive, PTL

\* And each of their calls returns with its own answer, although the recvfrom
\* that waits for it takes any datagram (tcpudp.c).
THEOREM AnswersOwn == Spec => []OwnAnswer
<1>1. IInv => OwnAnswer
  BY DEF IInv, Calm, PlaceInv, Place, OwnAnswer
<1> QED BY <1>1, Inductive, PTL

\* None of them makes the daemon exit but one that binds a port again
\* (tcpd.c:607-612, the exits of tcpd_BIND and tcpd_SEND).
THEOREM NeverExits == Spec => []NoExit
<1>1. IInv => NoExit
  BY DEF IInv
<1> QED BY <1>1, Inductive, PTL
=============================================================================

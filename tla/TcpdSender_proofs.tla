-------------------------- MODULE TcpdSender_proofs ---------------------------
(***************************************************************************)
(* The safety properties of TcpdSender, proved for any set of sockets, any *)
(* buffer size and any bound: one inductive invariant, IInv, preserved by  *)
(* every step, and the properties that follow from it.                     *)
(***************************************************************************)
EXTENDS TcpdSender, TLAPS, FiniteSetTheorems, SequenceTheorems

\* The phases of a turn: whatever there is left to do, the sends come last,
\* and a call is read only in a turn that began with room in the buffer.
LoopInv ==
  /\ todo # {} \/ inAcks # {} => "back" \in todo
  /\ "msg" \in todo => in_buffer_packages < MAX_BUFFER_PACKAGES

\* A CONNECT is for a new socket, a SEND for a connected one.
CallInv ==
  /\ \A s \in Socks : <<"SEND", s>> \in calls =>
                        s \in ConnectedSockets /\ Base[s] < MaxSeq
  /\ \A s \in Socks : <<"CONNECT", s>> \in calls => s \notin ConnectedSockets
  /\ \A s \in Socks : s \notin ConnectedSockets => Base[s] = 0

\* Something in the system is about package p.
Mentioned(p) ==
  \/ p \in Packages \cup PendingPackages \cup armed \cup expired
  \/ p \in dataNet \cup ackNet
  \/ timerQ[p] # <<>>
  \/ \E garbled \in BOOLEAN : <<p, garbled>> \in inAcks

\* Nothing is about a package before its SEND.
UsedInv == \A p \in Pkg : Mentioned(p) => SeqNum(p) < Base[SockOf(p)]

CountInv ==
  /\ BufferCount
  /\ IsFiniteSet(Packages)
  /\ IsFiniteSet(PendingPackages)

\* At most one start of a package is on its way to the timer, and while it is,
\* the package has no node there and no expiry on its way back.
QueueInv ==
  \A p \in Pkg : \A i \in 1 .. Len(timerQ[p]) :
    timerQ[p][i] = "start" =>
      /\ p \notin armed \cup expired
      /\ \A j \in 1 .. Len(timerQ[p]) : j # i => timerQ[p][j] = "cancel"

TimerInv == QueueInv /\ TimerWatches /\ PendingUntimed

IInv ==
  /\ TypeOK
  /\ LoopInv
  /\ CallInv
  /\ UsedInv
  /\ CountInv
  /\ BufferBound
  /\ TimerInv
  /\ NoExit
-----------------------------------------------------------------------------
(* The initial state.                                                      *)

\* Nothing is buffered, watched or in the network when the daemon starts.
LEMMA InitIInv == Init => IInv
<1> SUFFICES ASSUME Init PROVE IInv
  OBVIOUS
<1> USE DEF Init
<1>1. TypeOK
  BY SenderAssumption DEF TypeOK, SenderAssumption, Pkg
<1>2. LoopInv /\ CallInv /\ NoExit
  BY DEF LoopInv, CallInv, NoExit
<1>3. UsedInv
  BY DEF UsedInv, Mentioned
<1>4. CountInv
  BY FS_EmptySet DEF CountInv, BufferCount
<1>5. BufferBound
  BY SenderAssumption DEF BufferBound, SenderAssumption
<1>6. TimerInv
  BY DEF TimerInv, QueueInv, TimerWatches, PendingUntimed
<1> QED
  BY <1>1, <1>2, <1>3, <1>4, <1>5, <1>6 DEF IInv

-----------------------------------------------------------------------------
(* ftpc.                                                                   *)

\* A call that ftpc makes only fills calls, within its protocol.
LEMMA FtpcKeepsIInv ==
  ASSUME IInv, NEW s \in Socks, FtpcConnect(s) \/ FtpcSend(s)
  PROVE  IInv'
<1> USE DEF daemon, loop, timer, net
<1>u. /\ UNCHANGED <<daemon, loop, timer, net>>
      /\ \/ /\ s \notin ConnectedSockets
            /\ calls' = {<<"CONNECT", s>>}
         \/ /\ s \in ConnectedSockets
            /\ Base[s] < MaxSeq
            /\ calls' = {<<"SEND", s>>}
  BY DEF FtpcConnect, FtpcSend
<1>1. TypeOK'
  BY <1>u DEF IInv, TypeOK, Pkg
<1>2. LoopInv'
  BY <1>u DEF IInv, LoopInv
<1>3. CallInv'
  BY <1>u DEF IInv, CallInv
<1>4. UsedInv'
  BY <1>u DEF IInv, UsedInv, Mentioned
<1>5. CountInv' /\ BufferBound' /\ NoExit'
  BY <1>u DEF IInv, CountInv, BufferCount, BufferBound, NoExit
<1>6. TimerInv'
  BY <1>u DEF IInv, TimerInv, QueueInv, TimerWatches, PendingUntimed,
              StartOnItsWay
<1> QED
  BY <1>1, <1>2, <1>3, <1>4, <1>5, <1>6 DEF IInv

-----------------------------------------------------------------------------
(* The turn of the loop.                                                   *)

\* select starts a turn: it reads a call only if there is room for a package.
LEMMA SelectKeepsIInv ==
  ASSUME IInv, Select
  PROVE  IInv'
<1> USE DEF daemon, loop, timer, net
<1>a. PICK A \in Arrivals : SelectAcks(A)
  BY DEF Select
<1>b. PICK Last \in SUBSET A : \E Garbled \in SUBSET A :
         /\ ackNet' = ackNet \ Last
         /\ inAcks' = {<<a, a \in Garbled>> : a \in A}
  BY <1>a DEF SelectAcks
<1>c. PICK Garbled \in SUBSET A :
         /\ ackNet' = ackNet \ Last
         /\ inAcks' = {<<a, a \in Garbled>> : a \in A}
  BY <1>b
<1>u. /\ UNCHANGED <<calls, daemon, timer, dataNet>>
      /\ todo = {}
      /\ todo' \subseteq {"msg", "timer", "back"}
      /\ "back" \in todo'
      /\ "msg" \in todo' => MsgReadable
  BY <1>a DEF SelectAcks
<1>d. A \subseteq ackNet
  BY DEF Arrivals
<1>1. TypeOK'
  <2>1. ackNet' \subseteq Pkg
    BY <1>c DEF IInv, TypeOK
  <2>2. inAcks' \subseteq Pkg \X BOOLEAN
    <3> SUFFICES ASSUME NEW a \in A PROVE <<a, a \in Garbled>> \in Pkg \X BOOLEAN
      BY <1>c, Zenon
    <3>1. a \in Pkg
      BY <1>d DEF IInv, TypeOK
    <3>2. (a \in Garbled) \in BOOLEAN
      OBVIOUS
    <3> QED
      BY <3>1, <3>2, Zenon
  <2> QED
    BY <1>u, <2>1, <2>2 DEF IInv, TypeOK, Pkg
<1>2. LoopInv'
  BY <1>u DEF LoopInv, MsgReadable
<1>3. CallInv'
  BY <1>u DEF IInv, CallInv
<1>4. UsedInv'
  <2> SUFFICES ASSUME NEW p \in Pkg, Mentioned(p)'
               PROVE  SeqNum(p) < Base[SockOf(p)]
    BY <1>u DEF UsedInv
  <2>1. Mentioned(p)
    BY <1>c, <1>d, <1>u DEF Mentioned
  <2> QED
    BY <2>1 DEF IInv, UsedInv
<1>5. CountInv' /\ BufferBound' /\ NoExit'
  BY <1>u DEF IInv, CountInv, BufferCount, BufferBound, NoExit
<1>6. TimerInv'
  BY <1>u DEF IInv, TimerInv, QueueInv, TimerWatches, PendingUntimed,
              StartOnItsWay
<1> QED
  BY <1>1, <1>2, <1>3, <1>4, <1>5, <1>6 DEF IInv

\* CONNECT adds a socket nothing is about yet; SEND queues a new package, for
\* which the gate left room.
LEMMA CallKeepsIInv ==
  ASSUME IInv, process_tcpd_message
  PROVE  IInv'
<1> USE DEF daemon, loop, timer, net
<1>u. /\ UNCHANGED <<inAcks, timer, net>>
      /\ calls' = {}
      /\ "msg" \in todo
      /\ todo' = todo \ {"msg"}
      /\ "back" \in todo'
  BY DEF process_tcpd_message, IInv, LoopInv
<1>t. /\ in_buffer_packages < MAX_BUFFER_PACKAGES
      /\ in_buffer_packages \in Nat /\ MAX_BUFFER_PACKAGES \in Nat
  BY <1>u, SenderAssumption DEF IInv, LoopInv, TypeOK, SenderAssumption
<1>a. PICK s \in Socks : \/ <<"CONNECT", s>> \in calls /\ tcpd_CONNECT(s)
                         \/ <<"SEND", s>> \in calls /\ tcpd_SEND(s)
  BY DEF process_tcpd_message
<1>b. Base[s] \in 0 .. MaxSeq /\ MaxSeq \in Nat
  BY SenderAssumption DEF IInv, TypeOK, SenderAssumption
<1>1. CASE <<"CONNECT", s>> \in calls /\ tcpd_CONNECT(s)
  <2>1. s \notin ConnectedSockets /\ Base[s] = 0
    BY <1>1 DEF IInv, CallInv
  <2>2. \A p \in Packages \cup PendingPackages : SockOf(p) # s
    <3> SUFFICES ASSUME NEW p \in Packages \cup PendingPackages, SockOf(p) = s
                 PROVE  FALSE
      OBVIOUS
    <3>1. p \in Pkg /\ SeqNum(p) < 0
      BY <2>1 DEF IInv, TypeOK, UsedInv, Mentioned
    <3> QED
      BY <3>1, <1>b DEF Pkg, SeqNum
  <2>3. /\ ConnectedSockets' = ConnectedSockets \cup {s}
        /\ UNCHANGED <<Base, Packages, PendingPackages, in_buffer_packages, status>>
    BY <1>1, <2>1, <2>2 DEF tcpd_CONNECT, IInv, TypeOK
  <2>4. TypeOK'
    BY <1>u, <2>3 DEF IInv, TypeOK, Pkg
  <2>5. LoopInv'
    BY <1>u DEF LoopInv
  <2>6. CallInv'
    BY <1>u, <2>3 DEF IInv, CallInv
  <2>7. UsedInv'
    BY <1>u, <2>3 DEF IInv, UsedInv, Mentioned
  <2>8. CountInv' /\ BufferBound' /\ NoExit'
    BY <2>3 DEF IInv, CountInv, BufferCount, BufferBound, NoExit
  <2>9. TimerInv'
    BY <1>u, <2>3 DEF IInv, TimerInv, QueueInv, TimerWatches, PendingUntimed,
                      StartOnItsWay
  <2> QED
    BY <2>4, <2>5, <2>6, <2>7, <2>8, <2>9 DEF IInv
<1>2. CASE <<"SEND", s>> \in calls /\ tcpd_SEND(s)
  <2> DEFINE new == <<s, Base[s]>>
  <2>1. s \in ConnectedSockets /\ Base[s] < MaxSeq
    BY <1>2 DEF IInv, CallInv
  <2>2. /\ Base' = [Base EXCEPT ![s] = @ + 1]
        /\ PendingPackages' = PendingPackages \cup {new}
        /\ in_buffer_packages' = in_buffer_packages + 1
        /\ UNCHANGED <<ConnectedSockets, Packages, status>>
    BY <1>2, <2>1 DEF tcpd_SEND
  <2>3. new \in Pkg
    BY <1>b, <2>1 DEF Pkg
  <2>4. ~Mentioned(new)
    BY <1>b, <2>3 DEF IInv, UsedInv, SeqNum, SockOf
  <2>5. TypeOK'
    <3>1. Base' \in [Socks -> 0 .. MaxSeq]
      BY <1>b, <2>1, <2>2 DEF IInv, TypeOK
    <3> HIDE DEF new
    <3> QED
      BY <1>u, <1>t, <2>2, <2>3, <3>1 DEF IInv, TypeOK
  <2>6. LoopInv'
    BY <1>u DEF LoopInv
  <2>7. CallInv'
    BY <1>u, <2>1, <2>2 DEF IInv, CallInv, TypeOK
  <2>8. UsedInv'
    <3> SUFFICES ASSUME NEW p \in Pkg, Mentioned(p)'
                 PROVE  SeqNum(p) < Base'[SockOf(p)]
      BY DEF UsedInv
    <3>1. CASE p = new
      BY <3>1, <1>b, <2>2 DEF IInv, TypeOK, SeqNum, SockOf
    <3>2. CASE p # new
      <4>1. Mentioned(p)
        BY <3>2, <1>u, <2>2 DEF Mentioned
      <4>2. SeqNum(p) < Base[SockOf(p)] /\ SockOf(p) \in Socks /\ SeqNum(p) \in Nat
        BY <4>1, <1>b DEF IInv, UsedInv, Pkg, SeqNum, SockOf
      <4>3. Base[SockOf(p)] \in Nat
        BY <4>2, <1>b DEF IInv, TypeOK
      <4> QED
        BY <4>2, <4>3, <2>2 DEF IInv, TypeOK
    <3> QED
      BY <3>1, <3>2
  <2>9. CountInv' /\ BufferBound' /\ NoExit'
    <3>1. new \notin Packages /\ new \notin PendingPackages
      BY <2>4 DEF Mentioned
    <3> HIDE DEF new
    <3>2. /\ IsFiniteSet(PendingPackages')
          /\ Cardinality(PendingPackages') = Cardinality(PendingPackages) + 1
      BY <2>2, <3>1, FS_AddElement DEF IInv, CountInv
    <3>3. Cardinality(Packages) \in Nat /\ Cardinality(PendingPackages) \in Nat
      BY FS_CardinalityType DEF IInv, CountInv
    <3> QED
      BY <1>t, <2>2, <3>1, <3>2, <3>3
         DEF IInv, CountInv, BufferCount, BufferBound, NoExit
  <2>10. TimerInv'
    <3>1. /\ new \notin armed \cup expired
          /\ timerQ[new] = <<>>
      BY <2>4 DEF Mentioned
    <3> HIDE DEF new
    <3>2. QueueInv' /\ TimerWatches'
      BY <1>u, <2>2 DEF IInv, TimerInv, QueueInv, TimerWatches, StartOnItsWay
    <3>3. PendingUntimed'
      BY <1>u, <2>2, <3>1 DEF IInv, TimerInv, PendingUntimed
    <3> QED
      BY <3>2, <3>3 DEF TimerInv
  <2> QED
    BY <2>5, <2>6, <2>7, <2>8, <2>9, <2>10 DEF IInv
<1> QED
  BY <1>a, <1>1, <1>2

\* An ack takes its package out of Packages, with the count, and sends the
\* timer a cancel that no start follows.
LEMMA AckKeepsIInv ==
  ASSUME IInv, NEW a \in Pkg, NEW garbled \in BOOLEAN, recv_ack(a, garbled)
  PROVE  IInv'
<1> USE DEF daemon, loop, timer, net
<1>u. /\ UNCHANGED <<calls, ConnectedSockets, Base, PendingPackages, status,
                     todo, armed, expired, net>>
      /\ inAcks' = inAcks \ {<<a, garbled>>}
      /\ <<a, garbled>> \in inAcks
      /\ "msg" \notin todo
  BY DEF recv_ack
<1>c. /\ Packages' \subseteq Packages
      /\ timerQ' = timerQ \/ timerQ' = [timerQ EXCEPT ![a] = Append(@, "cancel")]
      /\ timerQ' # timerQ => a \notin Packages'
  BY DEF recv_ack
<1>m. SeqNum(a) < Base[SockOf(a)]
  BY <1>u DEF IInv, UsedInv, Mentioned
<1>q. timerQ[a] \in Seq({"start", "cancel"})
  BY DEF IInv, TypeOK
<1>5. CountInv' /\ BufferBound' /\ in_buffer_packages' \in Nat
  <2>1. Cardinality(Packages) \in Nat /\ Cardinality(PendingPackages) \in Nat
    BY FS_CardinalityType DEF IInv, CountInv
  <2>2. /\ IsFiniteSet(Packages \ {a})
        /\ Cardinality(Packages \ {a}) =
             IF a \in Packages THEN Cardinality(Packages) - 1 ELSE Cardinality(Packages)
        /\ Cardinality(Packages \ {a}) \in Nat
    BY FS_RemoveElement, FS_CardinalityType DEF IInv, CountInv
  <2>3. CASE UNCHANGED <<Packages, in_buffer_packages>>
    BY <1>u, <2>3 DEF IInv, TypeOK, CountInv, BufferCount, BufferBound
  <2>4. CASE /\ Packages' = Packages \ {a}
             /\ in_buffer_packages' = IF a \in Packages THEN in_buffer_packages - 1
                                                        ELSE in_buffer_packages
    <3>1. CountInv' /\ in_buffer_packages' \in Nat
      BY <1>u, <2>1, <2>2, <2>4 DEF IInv, CountInv, BufferCount
    <3>2. BufferBound'
      BY <2>4, SenderAssumption DEF IInv, TypeOK, BufferBound, SenderAssumption
    <3> QED
      BY <3>1, <3>2
  <2> QED
    BY <2>3, <2>4 DEF recv_ack
<1>1. TypeOK'
  <2>1. timerQ' \in [Pkg -> Seq({"start", "cancel"})]
    <3>1. Append(timerQ[a], "cancel") \in Seq({"start", "cancel"})
      BY <1>q
    <3>2. timerQ \in [Pkg -> Seq({"start", "cancel"})]
      BY DEF IInv, TypeOK
    <3> QED
      BY <1>c, <3>1, <3>2
  <2> QED
    BY <1>u, <1>c, <1>5, <2>1 DEF IInv, TypeOK
<1>2. LoopInv'
  BY <1>u DEF IInv, LoopInv
<1>3. CallInv'
  BY <1>u DEF IInv, CallInv
<1>4. UsedInv'
  <2> SUFFICES ASSUME NEW p \in Pkg, Mentioned(p)'
               PROVE  SeqNum(p) < Base[SockOf(p)]
    BY <1>u DEF UsedInv
  <2>1. p = a \/ Mentioned(p)
    BY <1>u, <1>c DEF Mentioned, IInv, TypeOK
  <2> QED
    BY <2>1, <1>m DEF IInv, UsedInv
<1>6. TimerInv'
  <2>1. CASE timerQ' = timerQ
    BY <1>u, <1>c, <2>1 DEF IInv, TimerInv, QueueInv, TimerWatches,
                            PendingUntimed, StartOnItsWay
  <2>2. CASE timerQ' # timerQ
    <3>1. timerQ' = [timerQ EXCEPT ![a] = Append(@, "cancel")] /\ a \notin Packages'
      BY <1>c, <2>2
    <3>2. /\ Len(timerQ'[a]) = Len(timerQ[a]) + 1
          /\ Len(timerQ[a]) \in Nat
          /\ \A i \in 1 .. Len(timerQ[a]) : timerQ'[a][i] = timerQ[a][i]
          /\ timerQ'[a][Len(timerQ[a]) + 1] = "cancel"
      BY <3>1, <1>q DEF IInv, TypeOK
    <3>3. \A p \in Pkg : p # a => timerQ'[p] = timerQ[p]
      BY <3>1 DEF IInv, TypeOK
    <3>4. QueueInv'
      <4> SUFFICES ASSUME NEW p \in Pkg, NEW i \in 1 .. Len(timerQ'[p]),
                          timerQ'[p][i] = "start"
                   PROVE  /\ p \notin armed \cup expired
                          /\ \A j \in 1 .. Len(timerQ'[p]) :
                               j # i => timerQ'[p][j] = "cancel"
        BY <1>u DEF QueueInv
      <4>1. CASE p # a
        BY <4>1, <3>3 DEF IInv, TimerInv, QueueInv
      <4>2. CASE p = a
        <5>1. i \in 1 .. Len(timerQ[a]) /\ timerQ[a][i] = "start"
          BY <4>2, <3>2
        <5>2. /\ a \notin armed \cup expired
              /\ \A j \in 1 .. Len(timerQ[a]) : j # i => timerQ[a][j] = "cancel"
          BY <5>1 DEF IInv, TimerInv, QueueInv
        <5> QED
          BY <4>2, <5>2, <3>2
      <4> QED
        BY <4>1, <4>2
    <3>5. TimerWatches'
      BY <1>u, <1>c, <3>1, <3>3 DEF IInv, TypeOK, TimerInv, TimerWatches,
                                    StartOnItsWay
    <3>6. PendingUntimed'
      <4> SUFFICES ASSUME NEW p \in PendingPackages
                   PROVE  /\ p \notin armed \cup expired
                          /\ \A i \in 1 .. Len(timerQ'[p]) : timerQ'[p][i] = "cancel"
        BY <1>u DEF PendingUntimed
      <4>1. /\ p \in Pkg
            /\ p \notin armed \cup expired
            /\ \A i \in 1 .. Len(timerQ[p]) : timerQ[p][i] = "cancel"
        BY DEF IInv, TypeOK, TimerInv, PendingUntimed
      <4>2. CASE p # a
        BY <4>1, <4>2, <3>3
      <4>3. CASE p = a
        BY <4>1, <4>3, <3>2
      <4> QED
        BY <4>2, <4>3
    <3> QED
      BY <3>4, <3>5, <3>6 DEF TimerInv
  <2> QED
    BY <2>1, <2>2
<1>7. NoExit'
  BY <1>u DEF IInv, NoExit
<1> QED
  BY <1>1, <1>2, <1>3, <1>4, <1>5, <1>6, <1>7 DEF IInv

\* An expiry moves its package, which nothing else watches, to the pending list.
LEMMA TimerKeepsIInv ==
  ASSUME IInv, NEW p \in Pkg, recv_timer(p)
  PROVE  IInv'
<1> USE DEF daemon, loop, timer, net
<1>m. p \in expired /\ SeqNum(p) < Base[SockOf(p)]
  BY DEF recv_timer, IInv, UsedInv, Mentioned
<1>n. SockOf(p) \in ConnectedSockets
  BY <1>m DEF IInv, CallInv, Pkg, SockOf, SeqNum
<1>u. /\ UNCHANGED <<calls, ConnectedSockets, Base, in_buffer_packages, inAcks,
                     timerQ, armed, net, status>>
      /\ inAcks = {} /\ "msg" \notin todo
      /\ todo' = todo \ {"timer"} /\ "timer" \in todo
      /\ expired' = expired \ {p}
      /\ Packages' = Packages \ {p}
      /\ PendingPackages' = PendingPackages \cup (Packages \cap {p})
  BY <1>n DEF recv_timer
<1>1. TypeOK'
  BY <1>u DEF IInv, TypeOK
<1>2. LoopInv'
  BY <1>u DEF IInv, LoopInv
<1>3. CallInv'
  BY <1>u DEF IInv, CallInv
<1>4. UsedInv'
  <2> SUFFICES ASSUME NEW q \in Pkg, Mentioned(q)'
               PROVE  SeqNum(q) < Base[SockOf(q)]
    BY <1>u DEF UsedInv
  <2>1. Mentioned(q)
    BY <1>u DEF Mentioned
  <2> QED
    BY <2>1 DEF IInv, UsedInv
<1>5. CountInv' /\ BufferBound' /\ NoExit'
  <2>1. CASE p \in Packages
    <3>1. p \notin PendingPackages /\ PendingPackages' = PendingPackages \cup {p}
      BY <1>u, <2>1 DEF IInv, CountInv, BufferCount
    <3>2. /\ IsFiniteSet(PendingPackages')
          /\ Cardinality(PendingPackages') = Cardinality(PendingPackages) + 1
      BY <3>1, FS_AddElement DEF IInv, CountInv
    <3>3. /\ IsFiniteSet(Packages')
          /\ Cardinality(Packages') = Cardinality(Packages) - 1
      BY <1>u, <2>1, FS_RemoveElement DEF IInv, CountInv
    <3>4. Cardinality(Packages) \in Nat /\ Cardinality(PendingPackages) \in Nat
      BY FS_CardinalityType DEF IInv, CountInv
    <3> QED
      BY <1>u, <3>1, <3>2, <3>3, <3>4
         DEF IInv, CountInv, BufferCount, BufferBound, NoExit
  <2>2. CASE p \notin Packages
    <3>1. UNCHANGED <<Packages, PendingPackages>>
      BY <1>u, <2>2
    <3> QED
      BY <1>u, <3>1 DEF IInv, CountInv, BufferCount, BufferBound, NoExit
  <2> QED
    BY <2>1, <2>2
<1>6. TimerInv'
  <2>1. QueueInv'
    BY <1>u DEF IInv, TimerInv, QueueInv
  <2>2. TimerWatches'
    BY <1>u DEF IInv, TimerInv, TimerWatches, StartOnItsWay
  <2>3. p \in Packages => timerQ[p] = <<>> /\ p \notin armed
    BY <1>m DEF IInv, TimerInv, TimerWatches
  <2>4. PendingUntimed'
    BY <1>u, <2>3 DEF IInv, TimerInv, PendingUntimed
  <2> QED
    BY <2>1, <2>2, <2>4 DEF TimerInv
<1> QED
  BY <1>1, <1>2, <1>3, <1>4, <1>5, <1>6 DEF IInv

\* A package that is sent had no node, start or expiry, and gets one start.
LEMMA SendKeepsIInv ==
  ASSUME IInv, handle_send_all_back
  PROVE  IInv'
<1> USE DEF daemon, loop, timer, net
<1>u. /\ UNCHANGED <<calls, ConnectedSockets, Base, in_buffer_packages, status,
                     inAcks, armed, expired, ackNet>>
      /\ inAcks = {} /\ todo' = {}
      /\ Packages' = Packages \cup Sending
      /\ PendingPackages' = PendingPackages \ Sending
      /\ dataNet' = dataNet \cup Sending
      /\ timerQ' = [p \in Pkg |-> IF p \in Sending THEN Append(timerQ[p], "start")
                                                   ELSE timerQ[p]]
  BY DEF handle_send_all_back
<1>s. Sending \subseteq PendingPackages /\ Sending \subseteq Pkg
  BY DEF Sending, IInv, TypeOK
<1>q. \A p \in Pkg : timerQ[p] \in Seq({"start", "cancel"})
  BY DEF IInv, TypeOK
<1>p. \A p \in Sending :
        /\ p \notin armed \cup expired
        /\ \A i \in 1 .. Len(timerQ[p]) : timerQ[p][i] = "cancel"
  BY <1>s DEF IInv, TimerInv, PendingUntimed
<1>1. TypeOK'
  <2>1. \A p \in Pkg : Append(timerQ[p], "start") \in Seq({"start", "cancel"})
    BY <1>q
  <2>2. timerQ' \in [Pkg -> Seq({"start", "cancel"})]
    BY <1>u, <1>q, <2>1
  <2> QED
    BY <1>u, <1>s, <2>2 DEF IInv, TypeOK
<1>2. LoopInv'
  BY <1>u DEF LoopInv
<1>3. CallInv'
  BY <1>u DEF IInv, CallInv
<1>4. UsedInv'
  <2> SUFFICES ASSUME NEW p \in Pkg, Mentioned(p)'
               PROVE  SeqNum(p) < Base[SockOf(p)]
    BY <1>u DEF UsedInv
  <2>1. Mentioned(p)
    BY <1>u, <1>s DEF Mentioned
  <2> QED
    BY <2>1 DEF IInv, UsedInv
<1>5. CountInv' /\ BufferBound' /\ NoExit'
  <2>1. /\ IsFiniteSet(Sending)
        /\ Packages \cap Sending = {}
        /\ PendingPackages = PendingPackages' \cup Sending
        /\ PendingPackages' \cap Sending = {}
        /\ IsFiniteSet(PendingPackages')
        /\ Packages' \cap PendingPackages' = {}
    <3>1. IsFiniteSet(Sending) /\ IsFiniteSet(PendingPackages')
      BY <1>u, <1>s, FS_Subset DEF IInv, CountInv
    <3> QED
      BY <1>u, <1>s, <3>1 DEF IInv, CountInv, BufferCount
  <2>2. /\ IsFiniteSet(Packages')
        /\ Cardinality(Packages') =
             Cardinality(Packages) + Cardinality(Sending) - Cardinality(Packages \cap Sending)
    BY <1>u, <2>1, FS_Union DEF IInv, CountInv
  <2>3. Cardinality(PendingPackages) =
          Cardinality(PendingPackages') + Cardinality(Sending)
             - Cardinality(PendingPackages' \cap Sending)
    <3> DEFINE Rest == PendingPackages'
    <3>1. IsFiniteSet(Rest) /\ PendingPackages = Rest \cup Sending
      BY <2>1
    <3> HIDE DEF Rest
    <3>2. Cardinality(PendingPackages) =
            Cardinality(Rest) + Cardinality(Sending) - Cardinality(Rest \cap Sending)
      BY <2>1, <3>1, FS_Union
    <3> QED
      BY <3>2 DEF Rest
  <2>4. /\ Cardinality(Packages \cap Sending) = 0
        /\ Cardinality(PendingPackages' \cap Sending) = 0
    BY <2>1, FS_EmptySet
  <2>5. /\ Cardinality(Packages) \in Nat
        /\ Cardinality(PendingPackages') \in Nat
        /\ Cardinality(Sending) \in Nat
    BY <2>1, FS_CardinalityType DEF IInv, CountInv
  <2>6. Cardinality(Packages') + Cardinality(PendingPackages')
          = Cardinality(Packages) + Cardinality(PendingPackages)
    BY <2>2, <2>3, <2>4, <2>5
  <2> QED
    BY <1>u, <2>1, <2>2, <2>6 DEF IInv, CountInv, BufferCount, BufferBound, NoExit
<1>6. TimerInv'
  <2>1. \A p \in Pkg : p \notin Sending => timerQ'[p] = timerQ[p]
    BY <1>u
  <2>2. \A p \in Sending :
          /\ Len(timerQ'[p]) = Len(timerQ[p]) + 1
          /\ Len(timerQ[p]) \in Nat
          /\ \A i \in 1 .. Len(timerQ[p]) : timerQ'[p][i] = timerQ[p][i]
          /\ timerQ'[p][Len(timerQ[p]) + 1] = "start"
    BY <1>u, <1>s, <1>q
  <2>3. QueueInv'
    <3> SUFFICES ASSUME NEW p \in Pkg, NEW i \in 1 .. Len(timerQ'[p]),
                        timerQ'[p][i] = "start"
                 PROVE  /\ p \notin armed \cup expired
                        /\ \A j \in 1 .. Len(timerQ'[p]) :
                             j # i => timerQ'[p][j] = "cancel"
      BY <1>u DEF QueueInv
    <3>1. CASE p \in Sending
      <4>1. i = Len(timerQ[p]) + 1
        BY <3>1, <1>p, <2>2
      <4> QED
        BY <3>1, <4>1, <1>p, <2>2
    <3>2. CASE p \notin Sending
      BY <3>2, <2>1 DEF IInv, TimerInv, QueueInv
    <3> QED
      BY <3>1, <3>2
  <2>4. TimerWatches'
    <3> SUFFICES ASSUME NEW p \in Packages'
                 PROVE  \/ StartOnItsWay(p)' /\ p \notin armed \cup expired
                        \/ timerQ'[p] = <<>> /\ (p \in armed <=> p \notin expired)
      BY <1>u DEF TimerWatches
    <3>1. CASE p \in Sending
      <4>1. StartOnItsWay(p)'
        BY <3>1, <2>2 DEF StartOnItsWay
      <4> QED
        BY <3>1, <4>1, <1>p
    <3>2. CASE p \notin Sending
      <4>1. p \in Packages /\ p \in Pkg
        BY <1>u, <3>2 DEF IInv, TypeOK
      <4> QED
        BY <3>2, <4>1, <2>1 DEF IInv, TimerInv, TimerWatches, StartOnItsWay
    <3> QED
      BY <3>1, <3>2
  <2>5. PendingUntimed'
    BY <1>u, <2>1 DEF IInv, TypeOK, TimerInv, PendingUntimed
  <2> QED
    BY <2>3, <2>4, <2>5 DEF TimerInv
<1> QED
  BY <1>1, <1>2, <1>3, <1>4, <1>5, <1>6 DEF IInv

-----------------------------------------------------------------------------
(* The timer process.                                                      *)

\* What Head and Tail leave of a queue that is not empty.
LEMMA QueueTail ==
  ASSUME NEW S, NEW q \in Seq(S), q # <<>>
  PROVE  /\ Len(q) \in Nat \ {0}
         /\ Head(q) = q[1]
         /\ Tail(q) \in Seq(S)
         /\ Len(Tail(q)) = Len(q) - 1
         /\ \A i \in 1 .. Len(Tail(q)) : Tail(q)[i] = q[i + 1]
         /\ Len(Tail(q)) = 0 <=> Tail(q) = <<>>
<1>1. Len(q) \in Nat \ {0} /\ Head(q) = q[1]
  OBVIOUS
<1>2. Tail(q) \in Seq(S) /\ Len(Tail(q)) = Len(q) - 1
  OBVIOUS
<1>3. \A i \in 1 .. Len(Tail(q)) : Tail(q)[i] = q[i + 1]
  OBVIOUS
<1>4. Len(Tail(q)) = 0 <=> Tail(q) = <<>>
  BY <1>2, EmptySeq
<1> QED
  BY <1>1, <1>2, <1>3, <1>4

\* The timer turns the one start of a package into its one node.
LEMMA ServeKeepsIInv ==
  ASSUME IInv, NEW p \in Pkg, TimerServes(p)
  PROVE  IInv'
<1> USE DEF daemon, loop, timer, net
<1>u. /\ UNCHANGED <<calls, daemon, loop, expired, net>>
      /\ timerQ[p] # <<>>
      /\ armed' = IF Head(timerQ[p]) = "start" THEN armed \cup {p} ELSE armed \ {p}
      /\ timerQ' = [timerQ EXCEPT ![p] = Tail(@)]
  BY DEF TimerServes
<1>q. timerQ[p] \in Seq({"start", "cancel"}) /\ timerQ \in [Pkg -> Seq({"start", "cancel"})]
  BY DEF IInv, TypeOK
<1>t. /\ Len(timerQ[p]) \in Nat \ {0}
      /\ Head(timerQ[p]) = timerQ[p][1]
      /\ Tail(timerQ[p]) \in Seq({"start", "cancel"})
      /\ Len(timerQ'[p]) = Len(timerQ[p]) - 1
      /\ \A i \in 1 .. Len(timerQ'[p]) : timerQ'[p][i] = timerQ[p][i + 1]
      /\ Len(timerQ'[p]) = 0 <=> timerQ'[p] = <<>>
  <2>1. timerQ'[p] = Tail(timerQ[p])
    BY <1>u, <1>q
  <2> QED
    BY <1>u, <1>q, <2>1, QueueTail
<1>o. \A q \in Pkg : q # p => timerQ'[q] = timerQ[q]
  BY <1>u, <1>q
<1>1. TypeOK'
  <2>1. timerQ' \in [Pkg -> Seq({"start", "cancel"})]
    BY <1>u, <1>q, <1>t
  <2> QED
    BY <1>u, <2>1 DEF IInv, TypeOK
<1>2. LoopInv' /\ CallInv'
  BY <1>u DEF IInv, LoopInv, CallInv
<1>3. UsedInv'
  <2> SUFFICES ASSUME NEW q \in Pkg, Mentioned(q)'
               PROVE  SeqNum(q) < Base[SockOf(q)]
    BY <1>u DEF UsedInv
  <2>1. Mentioned(q)
    BY <1>u, <1>o DEF Mentioned
  <2> QED
    BY <2>1 DEF IInv, UsedInv
<1>4. CountInv' /\ BufferBound' /\ NoExit'
  BY <1>u DEF IInv, CountInv, BufferCount, BufferBound, NoExit
<1>5. TimerInv'
  <2>h. timerQ[p][1] = "start" =>
          /\ p \notin armed \cup expired
          /\ \A j \in 1 .. Len(timerQ[p]) : j # 1 => timerQ[p][j] = "cancel"
    BY <1>t DEF IInv, TimerInv, QueueInv
  <2>1. QueueInv'
    <3> SUFFICES ASSUME NEW q \in Pkg, NEW i \in 1 .. Len(timerQ'[q]),
                        timerQ'[q][i] = "start"
                 PROVE  /\ q \notin armed' \cup expired
                        /\ \A j \in 1 .. Len(timerQ'[q]) :
                             j # i => timerQ'[q][j] = "cancel"
      BY <1>u DEF QueueInv
    <3>1. CASE q = p
      <4>1. i + 1 \in 1 .. Len(timerQ[p]) /\ timerQ[p][i + 1] = "start" /\ i + 1 # 1
        BY <3>1, <1>t
      <4>2. /\ p \notin armed \cup expired
            /\ \A j \in 1 .. Len(timerQ[p]) : j # i + 1 => timerQ[p][j] = "cancel"
        BY <4>1 DEF IInv, TimerInv, QueueInv
      <4>3. timerQ[p][1] = "cancel"
        BY <4>1, <4>2, <1>t
      <4>4. \A j \in 1 .. Len(timerQ'[p]) : j + 1 \in 1 .. Len(timerQ[p])
        BY <1>t
      <4> QED
        BY <3>1, <4>1, <4>2, <4>3, <4>4, <1>u, <1>t
    <3>2. CASE q # p
      BY <3>2, <1>o, <1>u DEF IInv, TimerInv, QueueInv
    <3> QED
      BY <3>1, <3>2
  <2>2. TimerWatches'
    <3> SUFFICES ASSUME NEW q \in Packages
                 PROVE  \/ StartOnItsWay(q)' /\ q \notin armed' \cup expired
                        \/ timerQ'[q] = <<>> /\ (q \in armed' <=> q \notin expired)
      BY <1>u DEF TimerWatches
    <3>1. CASE q # p
      <4>1. q \in Pkg
        BY DEF IInv, TypeOK
      <4> QED
        BY <3>1, <4>1, <1>o, <1>u DEF IInv, TimerInv, TimerWatches, StartOnItsWay
    <3>2. CASE q = p
      <4>1. timerQ[p][Len(timerQ[p])] = "start" /\ p \notin armed \cup expired
        BY <3>2, <1>u DEF IInv, TimerInv, TimerWatches, StartOnItsWay
      <4>2. CASE Len(timerQ[p]) = 1
        BY <3>2, <4>1, <4>2, <1>u, <1>t
      <4>3. CASE Len(timerQ[p]) # 1
        <5>1. timerQ[p][1] # "start"
          BY <4>1, <4>3, <2>h, <1>t
        <5>2. StartOnItsWay(p)'
          <6>1. Len(timerQ'[p]) \in 1 .. Len(timerQ'[p])
            BY <4>3, <1>t
          <6>2. timerQ'[p][Len(timerQ'[p])] = timerQ[p][Len(timerQ[p])]
            BY <6>1, <1>t
          <6> QED
            BY <6>1, <6>2, <4>1, <1>t DEF StartOnItsWay
        <5> QED
          BY <3>2, <4>1, <5>1, <5>2, <1>u, <1>t
      <4> QED
        BY <4>2, <4>3
    <3> QED
      BY <3>1, <3>2
  <2>3. PendingUntimed'
    <3> SUFFICES ASSUME NEW q \in PendingPackages
                 PROVE  /\ q \notin armed' \cup expired
                        /\ \A i \in 1 .. Len(timerQ'[q]) : timerQ'[q][i] = "cancel"
      BY <1>u DEF PendingUntimed
    <3>1. /\ q \in Pkg
          /\ q \notin armed \cup expired
          /\ \A i \in 1 .. Len(timerQ[q]) : timerQ[q][i] = "cancel"
      BY DEF IInv, TypeOK, TimerInv, PendingUntimed
    <3>2. CASE q = p
      <4>1. timerQ[p][1] = "cancel"
        BY <3>1, <3>2, <1>t
      <4>2. \A i \in 1 .. Len(timerQ'[p]) : i + 1 \in 1 .. Len(timerQ[p])
        BY <1>t
      <4> QED
        BY <3>1, <3>2, <4>1, <4>2, <1>u, <1>t
    <3>3. CASE q # p
      BY <3>1, <3>3, <1>o, <1>u
    <3> QED
      BY <3>2, <3>3
  <2> QED
    BY <2>1, <2>2, <2>3 DEF TimerInv
<1> QED
  BY <1>1, <1>2, <1>3, <1>4, <1>5 DEF IInv

\* The timer turns a node into an expiry on its way back.
LEMMA ExpiryKeepsIInv ==
  ASSUME IInv, NEW p \in Pkg, TimerExpires(p)
  PROVE  IInv'
<1> USE DEF daemon, loop, timer, net
<1>u. /\ UNCHANGED <<calls, daemon, loop, timerQ, net>>
      /\ p \in armed
      /\ armed' = armed \ {p}
      /\ expired' = expired \cup {p}
  BY DEF TimerExpires
<1>1. TypeOK'
  BY <1>u DEF IInv, TypeOK
<1>2. LoopInv' /\ CallInv'
  BY <1>u DEF IInv, LoopInv, CallInv
<1>3. UsedInv'
  <2> SUFFICES ASSUME NEW q \in Pkg, Mentioned(q)'
               PROVE  SeqNum(q) < Base[SockOf(q)]
    BY <1>u DEF UsedInv
  <2>1. Mentioned(q)
    BY <1>u DEF Mentioned
  <2> QED
    BY <2>1 DEF IInv, UsedInv
<1>4. CountInv' /\ BufferBound' /\ NoExit'
  BY <1>u DEF IInv, CountInv, BufferCount, BufferBound, NoExit
<1>5. TimerInv'
  BY <1>u DEF IInv, TimerInv, QueueInv, TimerWatches, PendingUntimed,
              StartOnItsWay
<1> QED
  BY <1>1, <1>2, <1>3, <1>4, <1>5 DEF IInv

-----------------------------------------------------------------------------
(* The server and the troll.                                               *)

\* The server and the troll touch the network only, with packages of a SEND.
LEMMA NetKeepsIInv ==
  ASSUME IInv, NEW p \in Pkg, ServerAcks(p) \/ LosesData(p) \/ LosesAck(p)
  PROVE  IInv'
<1> USE DEF daemon, loop, timer, net
<1>u. /\ UNCHANGED <<calls, daemon, loop, timer>>
      /\ dataNet' \subseteq dataNet
      /\ ackNet' \subseteq ackNet \cup dataNet
  BY DEF ServerAcks, LosesData, LosesAck
<1>1. TypeOK'
  BY <1>u DEF IInv, TypeOK
<1>2. LoopInv' /\ CallInv'
  BY <1>u DEF IInv, LoopInv, CallInv
<1>3. UsedInv'
  <2> SUFFICES ASSUME NEW q \in Pkg, Mentioned(q)'
               PROVE  SeqNum(q) < Base[SockOf(q)]
    BY <1>u DEF UsedInv
  <2>1. Mentioned(q)
    BY <1>u DEF Mentioned
  <2> QED
    BY <2>1 DEF IInv, UsedInv
<1>4. CountInv' /\ BufferBound' /\ NoExit'
  BY <1>u DEF IInv, CountInv, BufferCount, BufferBound, NoExit
<1>5. TimerInv'
  BY <1>u DEF IInv, TimerInv, QueueInv, TimerWatches, PendingUntimed,
              StartOnItsWay
<1> QED
  BY <1>1, <1>2, <1>3, <1>4, <1>5 DEF IInv

-----------------------------------------------------------------------------
(* Every step, and the theorems.                                           *)

\* Every step keeps the inductive invariant.
LEMMA NextIInv == IInv /\ [Next]_vars => IInv'
<1> SUFFICES ASSUME IInv, [Next]_vars PROVE IInv'
  OBVIOUS
<1>1. ASSUME NEW s \in Socks, FtpcConnect(s) \/ FtpcSend(s) PROVE IInv'
  BY <1>1, FtpcKeepsIInv
<1>2. ASSUME Tcpd PROVE IInv'
  BY <1>2, SelectKeepsIInv, CallKeepsIInv, AckKeepsIInv, TimerKeepsIInv,
     SendKeepsIInv DEF Tcpd
<1>3. ASSUME NEW p \in Pkg, TimerServes(p) \/ TimerExpires(p) PROVE IInv'
  BY <1>3, ServeKeepsIInv, ExpiryKeepsIInv
<1>4. ASSUME NEW p \in Pkg, ServerAcks(p) \/ LosesData(p) \/ LosesAck(p) PROVE IInv'
  BY <1>4, NetKeepsIInv
<1>5. CASE UNCHANGED vars
  BY <1>5, ZenonT(30) DEF vars, daemon, loop, timer, net, IInv, TypeOK, LoopInv, CallInv,
              UsedInv, Mentioned, CountInv, BufferCount, BufferBound, TimerInv,
              QueueInv, TimerWatches, StartOnItsWay, PendingUntimed, NoExit
<1> QED
  BY <1>1, <1>2, <1>3, <1>4, <1>5 DEF Next

\* The inductive invariant holds in every reachable state.
THEOREM Inductive == Spec => []IInv
  BY InitIInv, NextIInv, PTL DEF Spec

\* Every variable of the client's daemon keeps its type, the counter of
\* buffered packages its sign.
THEOREM TypeCorrect == Spec => []TypeOK
<1>1. IInv => TypeOK
  BY DEF IInv
<1> QED
  BY <1>1, Inductive, PTL

\* The counter that gates ftpc's calls is the number of packages in the two
\* lists, which have none in common, and never passes MAX_BUFFER_PACKAGES.
THEOREM CountCorrect == Spec => [](BufferCount /\ BufferBound)
<1>1. IInv => BufferCount /\ BufferBound
  BY DEF IInv, CountInv
<1> QED
  BY <1>1, Inductive, PTL

\* The gate, read before select and used after it, never lets the daemon take
\* more packages than MAX_BUFFER_PACKAGES.
THEOREM BoundCorrect == Spec => []BufferBound
  BY CountCorrect, PTL

\* Every package in flight is watched by exactly one start, node or expiry,
\* and one that waits to be sent again by none.
THEOREM WatchCorrect == Spec => []TimerAgrees
<1>1. IInv => TimerAgrees
  BY DEF IInv, TimerInv, TimerAgrees
<1> QED
  BY <1>1, Inductive, PTL

\* No expiry or call makes the daemon exit.
THEOREM NeverExits == Spec => []NoExit
<1>1. IInv => NoExit
  BY DEF IInv
<1> QED
  BY <1>1, Inductive, PTL

-----------------------------------------------------------------------------
(* What was released stays released.                                       *)

\* No step puts a package that was acknowledged back into a list or the network.
LEMMA ReleasedStep ==
  ASSUME IInv, [Next]_vars, NEW p \in Pkg, Released(p)
  PROVE  Released(p)' /\ p \notin dataNet' \ dataNet
<1> USE DEF daemon, loop, timer, net, Released, Buffered
<1>b. /\ \A s \in Socks : Base[s] \in Nat
      /\ Base \in [Socks -> Nat]
      /\ SockOf(p) \in Socks /\ SeqNum(p) \in Nat
  BY SenderAssumption DEF IInv, TypeOK, SenderAssumption, Pkg, SockOf, SeqNum
<1>1. ASSUME NEW s \in Socks, FtpcConnect(s) \/ FtpcSend(s) PROVE UNCHANGED <<daemon, net>>
  BY <1>1 DEF FtpcConnect, FtpcSend
<1>2. ASSUME Select PROVE UNCHANGED <<daemon, dataNet>>
  BY <1>2 DEF Select, SelectAcks
<1>3. ASSUME process_tcpd_message PROVE Released(p)' /\ UNCHANGED net
  <2>1. PICK s \in Socks : \/ <<"CONNECT", s>> \in calls /\ tcpd_CONNECT(s)
                           \/ <<"SEND", s>> \in calls /\ tcpd_SEND(s)
    BY <1>3 DEF process_tcpd_message
  <2>2. CASE <<"CONNECT", s>> \in calls /\ tcpd_CONNECT(s)
    <3>1. Base[s] = 0
      BY <2>2 DEF IInv, CallInv
    <3> QED
      BY <1>3, <1>b, <2>2, <3>1 DEF process_tcpd_message, tcpd_CONNECT
  <2>3. CASE <<"SEND", s>> \in calls /\ tcpd_SEND(s)
    <3>1. /\ Base' = [Base EXCEPT ![s] = @ + 1]
          /\ Packages' = Packages
          /\ PendingPackages' = PendingPackages \cup {<<s, Base[s]>>}
      BY <2>3 DEF tcpd_SEND, IInv, CallInv
    <3>2. p # <<s, Base[s]>>
      BY <1>b DEF SockOf, SeqNum
    <3>3. SeqNum(p) < Base'[SockOf(p)]
      BY <1>b, <3>1
    <3> QED
      BY <1>3, <3>1, <3>2, <3>3 DEF process_tcpd_message
  <2> QED
    BY <2>1, <2>2, <2>3
<1>4. ASSUME NEW a \in Pkg, NEW garbled \in BOOLEAN, recv_ack(a, garbled)
      PROVE  Packages' \subseteq Packages /\ UNCHANGED <<PendingPackages, Base, net>>
  BY <1>4 DEF recv_ack
<1>5. ASSUME NEW q \in Pkg, recv_timer(q)
      PROVE  Buffered' \subseteq Buffered /\ UNCHANGED <<Base, net>>
  BY <1>5 DEF recv_timer
<1>6. ASSUME handle_send_all_back
      PROVE  /\ Buffered' \subseteq Buffered
             /\ dataNet' \subseteq dataNet \cup Buffered
             /\ UNCHANGED Base
  BY <1>6 DEF handle_send_all_back, Sending
<1>7. ASSUME NEW q \in Pkg, \/ TimerServes(q) \/ TimerExpires(q) \/ ServerAcks(q)
                            \/ LosesData(q) \/ LosesAck(q)
      PROVE  UNCHANGED daemon /\ dataNet' \subseteq dataNet
  BY <1>7 DEF TimerServes, TimerExpires, ServerAcks, LosesData, LosesAck
<1>8. CASE UNCHANGED vars
  BY <1>8 DEF vars
<1>9. CASE Tcpd
  BY <1>9, <1>2, <1>3, <1>4, <1>5, <1>6 DEF Tcpd
<1> QED
  BY <1>1, <1>7, <1>8, <1>9 DEF Next

\* A package that was acknowledged is never queued, sent or counted again.
THEOREM ReleaseIsFinal == Spec => StaysReleased
<1>1. IInv /\ [Next]_vars =>
        [\A p \in Pkg : Released(p) => Released(p)' /\ p \notin dataNet' \ dataNet]_vars
  BY ReleasedStep
<1> QED
  BY <1>1, Inductive, PTL DEF Spec, StaysReleased

-----------------------------------------------------------------------------
(* The window test leaves no socket with packages and none in flight.      *)

\* A package that waits is connected, below MINSEQ_INIT and hence, once the
\* sends are done, kept back by an older one that is in flight.
LEMMA WaitsStep == IInv /\ WaitsForOlder /\ [Next]_vars => WaitsForOlder'
<1> SUFFICES ASSUME IInv, WaitsForOlder, [Next]_vars, todo' = {},
                    NEW p \in PendingPackages'
             PROVE  \E q \in Packages' : SockOf(q) = SockOf(p) /\ SeqNum(q) < SeqNum(p)
  BY DEF WaitsForOlder
<1> USE DEF daemon, loop, timer, net
<1>1. CASE handle_send_all_back
  <2>1. /\ p \in PendingPackages /\ p \notin Sending /\ Packages \subseteq Packages'
        /\ p \in Pkg
    BY <1>1 DEF handle_send_all_back, IInv, TypeOK
  <2>2. SockOf(p) \in Socks /\ SeqNum(p) \in Nat /\ SeqNum(p) < MaxSeq
    BY <2>1, SenderAssumption DEF Pkg, SockOf, SeqNum, SenderAssumption
  <2>3. SockOf(p) \in ConnectedSockets
    BY <2>1, <2>2 DEF IInv, UsedInv, Mentioned, CallInv
  <2>4. SeqNum(p) < MINSEQ_INIT + MAX_BUFFER_PACKAGES
    BY <2>2, SenderAssumption DEF SenderAssumption
  <2>5. PICK q \in Packages : /\ SockOf(q) = SockOf(p)
                              /\ ~(SeqNum(p) < SeqNum(q) + MAX_BUFFER_PACKAGES)
    BY <2>1, <2>3, <2>4 DEF Sending, InWindow
  <2>6. SeqNum(q) \in Nat
    BY DEF IInv, TypeOK, Pkg, SeqNum
  <2> QED
    BY <2>1, <2>2, <2>5, <2>6, SenderAssumption DEF SenderAssumption
<1>2. CASE UNCHANGED <<todo, Packages, PendingPackages>>
  BY <1>2 DEF WaitsForOlder
<1>3. ASSUME NEW s \in Socks, FtpcConnect(s) \/ FtpcSend(s)
      PROVE  UNCHANGED <<todo, Packages, PendingPackages>>
  BY <1>3 DEF FtpcConnect, FtpcSend
<1>4. ASSUME Tcpd PROVE handle_send_all_back
  <2>1. ~Select
    BY DEF Select, SelectAcks
  <2>2. ~process_tcpd_message
    BY DEF process_tcpd_message, IInv, LoopInv
  <2>3. ASSUME NEW a \in Pkg, NEW garbled \in BOOLEAN PROVE ~recv_ack(a, garbled)
    BY DEF recv_ack, IInv, LoopInv
  <2>4. ASSUME NEW q \in Pkg PROVE ~recv_timer(q)
    BY DEF recv_timer, IInv, LoopInv
  <2> QED
    BY <1>4, <2>1, <2>2, <2>3, <2>4 DEF Tcpd
<1>5. ASSUME NEW q \in Pkg, \/ TimerServes(q) \/ TimerExpires(q) \/ ServerAcks(q)
                            \/ LosesData(q) \/ LosesAck(q)
      PROVE  UNCHANGED <<todo, Packages, PendingPackages>>
  BY <1>5 DEF TimerServes, TimerExpires, ServerAcks, LosesData, LosesAck
<1>6. CASE UNCHANGED vars
  BY <1>2, <1>6 DEF vars
<1> QED
  BY <1>1, <1>2, <1>3, <1>4, <1>5, <1>6 DEF Next

\* When a turn ends, every package still to be sent waits for an older one of
\* its socket that is in flight.
THEOREM NoneStranded == Spec => []WaitsForOlder
<1>1. Init => WaitsForOlder
  BY DEF Init, WaitsForOlder
<1> QED
  BY <1>1, WaitsStep, Inductive, PTL DEF Spec
=============================================================================

-------------------------- MODULE TcpdReceiver_proofs --------------------------
(***************************************************************************)
(* The safety properties of TcpdReceiver, proved for every set of clients, *)
(* of ports and of session numbers, every length of the calls and every    *)
(* world: one inductive invariant, IInv, preserved by every step, and the  *)
(* properties that follow from it.                                         *)
(***************************************************************************)
EXTENDS TcpdReceiver, WellFoundedInduction, TLAPS, SequenceTheorems

-----------------------------------------------------------------------------
(* Sums of lengths, which are functions defined by recursion.               *)

\* A set of naturals that is not empty has a least element.
LEMMA LeastElement ==
  ASSUME NEW T \in SUBSET Nat, T # {}
  PROVE  \E n \in T : \A k \in T : n <= k
<1>1. PICK n \in T : \A k \in T : ~ (<<k, n>> \in OpToRel(<, Nat))
  BY NatLessThanWellFounded, WFMin
<1>2. ASSUME NEW k \in T PROVE n <= k
  <2>1. ~ (k < n)
    BY <1>1 DEF OpToRel
  <2> QED BY <2>1
<1> QED BY <1>2

\* The sum of the first k lengths is at place k of f, for k up to n.
SumsTo(f, lens, n) ==
  f = [k \in 0 .. n |-> IF k = 0 THEN 0 ELSE f[k - 1] + lens[k]]

\* The recursion has a solution.
LEMMA SumsExist ==
  ASSUME NEW lens \in Seq(Nat)
  PROVE  \E f : SumsTo(f, lens, Len(lens))
<1> DEFINE Lacking == {n \in Nat : n <= Len(lens) /\ ~ \E f : SumsTo(f, lens, n)}
<1>1. SUFFICES ASSUME Lacking # {} PROVE FALSE
  <2>1. Len(lens) \in Nat /\ (Len(lens) \in Lacking \/ \E f : SumsTo(f, lens, Len(lens)))
    OBVIOUS
  <2> QED BY <2>1
<1>2. PICK n \in Lacking : \A k \in Lacking : n <= k
  <2> HIDE DEF Lacking
  <2>1. Lacking \in SUBSET Nat
    BY DEF Lacking
  <2> QED BY <1>1, <2>1, LeastElement
<1>3. n \in Nat /\ n <= Len(lens) /\ ~ \E f : SumsTo(f, lens, n)
  OBVIOUS
<1>4. CASE n = 0
  <2>1. SumsTo([k \in 0 .. 0 |-> 0], lens, 0)
    BY DEF SumsTo
  <2> QED BY <1>3, <1>4, <2>1
<1>5. CASE n # 0
  <2>1. n - 1 \in Nat /\ n - 1 <= Len(lens) /\ ~ (n <= n - 1)
    BY <1>3, <1>5
  <2>2. n - 1 \notin Lacking
    BY <1>2, <2>1
  <2>3. PICK g : SumsTo(g, lens, n - 1)
    BY <2>1, <2>2
  <2> DEFINE f == [k \in 0 .. n |-> IF k = n THEN g[n - 1] + lens[n] ELSE g[k]]
  <2>4. ASSUME NEW k \in 0 .. n
        PROVE  f[k] = IF k = 0 THEN 0 ELSE f[k - 1] + lens[k]
    <3>1. CASE k = n
      BY <1>3, <1>5, <3>1
    <3>2. CASE k # n
      <4>1. k \in 0 .. n - 1 /\ (k # 0 => k - 1 \in 0 .. n /\ k - 1 # n)
        BY <1>3, <3>2
      <4>2. g[k] = IF k = 0 THEN 0 ELSE g[k - 1] + lens[k]
        BY <2>3, <4>1 DEF SumsTo
      <4> QED BY <4>1, <4>2
    <3> QED BY <3>1, <3>2
  <2>5. SumsTo(f, lens, n)
    BY <2>4 DEF SumsTo
  <2> QED BY <1>3, <2>5
<1> QED BY <1>4, <1>5

\* The offsets start at zero, and grow by a length at every place.
LEMMA SumStep ==
  ASSUME NEW lens \in Seq(Nat), NEW f, SumsTo(f, lens, Len(lens))
  PROVE  /\ DOMAIN f = 0 .. Len(lens)
         /\ f[0] = 0
         /\ \A k \in 0 .. Len(lens) - 1 : f[k + 1] = f[k] + lens[k + 1]
<1> DEFINE F(k) == IF k = 0 THEN 0 ELSE f[k - 1] + lens[k]
<1>1. f = [k \in 0 .. Len(lens) |-> F(k)]
  BY DEF SumsTo
<1> HIDE DEF F
<1>2. DOMAIN f = 0 .. Len(lens) /\ \A k \in 0 .. Len(lens) : f[k] = F(k)
  BY <1>1
<1>3. Len(lens) \in Nat
  OBVIOUS
<1> QED BY <1>2, <1>3 DEF F

\* They are naturals.
LEMMA SumNat ==
  ASSUME NEW lens \in Seq(Nat), NEW f, SumsTo(f, lens, Len(lens))
  PROVE  f \in [0 .. Len(lens) -> Nat]
<1> DEFINE Bad == {n \in 0 .. Len(lens) : f[n] \notin Nat}
<1>1. SUFFICES ASSUME Bad # {} PROVE FALSE
  <2>1. f = [k \in 0 .. Len(lens) |-> f[k]]
    BY DEF SumsTo
  <2>2. ASSUME Bad = {} PROVE \A k \in 0 .. Len(lens) : f[k] \in Nat
    BY <2>2
  <2> QED BY <2>1, <2>2
<1>2. PICK n \in Bad : \A k \in Bad : n <= k
  <2>1. Bad \in SUBSET Nat
    OBVIOUS
  <2> HIDE DEF Bad
  <2> QED BY <1>1, <2>1, LeastElement
<1>3. n # 0
  BY SumStep
<1>4. n - 1 \in 0 .. Len(lens) - 1 /\ ~ (n <= n - 1) /\ n - 1 \in 0 .. Len(lens)
  BY <1>3
<1>5. f[n - 1] \in Nat
  BY <1>2, <1>4
<1>6. f[n] = f[n - 1] + lens[n]
  BY <1>4, SumStep
<1>7. lens[n] \in Nat
  BY <1>3
<1> QED BY <1>5, <1>6, <1>7

\* And they never fall.
LEMMA SumMonotonic ==
  ASSUME NEW lens \in Seq(Nat), NEW f, SumsTo(f, lens, Len(lens)),
         NEW m \in 0 .. Len(lens), NEW n \in 0 .. Len(lens), m <= n
  PROVE  f[m] <= f[n]
<1> DEFINE Bad == {k \in 0 .. Len(lens) : m <= k /\ ~ (f[m] <= f[k])}
<1>1. SUFFICES ASSUME Bad # {} PROVE FALSE
  OBVIOUS
<1>2. PICK k \in Bad : \A j \in Bad : k <= j
  <2>1. Bad \in SUBSET Nat
    OBVIOUS
  <2> HIDE DEF Bad
  <2> QED BY <1>1, <2>1, LeastElement
<1>3. f[m] \in Nat /\ f[k] \in Nat
  BY SumNat
<1>4. k # m
  BY <1>3
<1>5. k - 1 \in 0 .. Len(lens) - 1 /\ m <= k - 1 /\ ~ (k <= k - 1) /\ k - 1 \in 0 .. Len(lens)
  BY <1>4
<1>6. f[m] <= f[k - 1]
  BY <1>2, <1>5
<1>7. f[k] = f[k - 1] + lens[k]
  BY <1>5, SumStep
<1>8. f[k - 1] \in Nat /\ lens[k] \in Nat
  <2>1. f[k - 1] \in Nat
    BY <1>5, SumNat
  <2>2. k \in 1 .. Len(lens)
    BY <1>5
  <2> QED BY <2>1, <2>2
<1> QED BY <1>3, <1>6, <1>7, <1>8


\* No call of the ftps of port p waits in tcpd_msg_socket.
Silent(p) == \A fn \in Calls : <<p, fn>> \notin msgs

\* The ftps of port p makes the call fn, or has made it and nothing else.
Making(p, fn) ==
  \/ ftps[p].pc = fn /\ Silent(p)
  \/ /\ ftps[p].pc = "waiting"
     /\ \A g \in Calls : <<p, g>> \in msgs <=> g = fn

\* Its call was read and is answered later.
Awaits(p) == ftps[p].pc = "waiting" /\ Silent(p)

\* Where the ftps of port p is.
Binds(p)       == Making(p, "BIND") /\ ftps[p].sess = None /\ p \notin Accepting
Accepts(p)     == Making(p, "ACCEPT") /\ ftps[p].sess = None /\ p \in binded \ Accepting
Receives(p)    == /\ Making(p, "RECV") /\ p \in binded \ Accepting
                  /\ ftps[p].sess \in acked /\ conn[ftps[p].sess].ReceivingLength = 0
AwaitsClient(p) == Awaits(p) /\ ftps[p].sess = None /\ p \in Accepting \cap binded
AwaitsData(p)  == /\ Awaits(p) /\ p \in binded \ Accepting /\ ftps[p].sess \in acked
                  /\ conn[ftps[p].sess].ReceivingLength = ReadLens[ftps[p].reads + 1]

\* The calls of every ftps keep their protocol, so that none is refused.
CallInv ==
  \A p \in Ports :
    /\ ftps[p].reads < Len(ReadLens)
    /\ Binds(p) \/ Accepts(p) \/ Receives(p) \/ AwaitsClient(p) \/ AwaitsData(p)

\* A RECV that was not answered is that of an ftps that waits for it, and its
\* buffer is not overfull.
RecvInv ==
  \A s \in Sess :
    /\ conn[s].ReceivingLength > 0 =>
         \E p \in Ports : ftps[p].sess = s /\ AwaitsData(p)
    /\ Len(conn[s].RecvBuffer) <= conn[s].ReceivingLength

\* Packages are held for their session, once for a number, from Base on.
HeldInv ==
  \A s \in Sess : \A a \in conn[s].Packages :
    /\ Session(a[1]) = s
    /\ conn[s].Base <= a[2]
    /\ \A b \in conn[s].Packages : a[2] = b[2] => a = b

\* Of the package at Base something is left.
TakenInv ==
  \A s \in Sess :
    \/ conn[s].taken = 0
    \/ conn[s].Base < Len(SendLens) /\ conn[s].taken < SendLens[conn[s].Base + 1]

\* What was read of a session was read after an ACCEPT returned it.
FreshInv ==
  \A s \in Sess \ acked :
    /\ got[s] = <<>> /\ conn[s].RecvBuffer = <<>>
    /\ conn[s].ReceivingLength = 0 /\ conn[s].Base = 0 /\ conn[s].taken = 0

\* The bytes that were taken from the packages of session s.
Stream(s) == got[s] \o conn[s].RecvBuffer

\* Bytes are of clients of session s, in order, and before position end.
Ordered(bytes, s, end) ==
  \A i \in 1 .. Len(bytes) :
    /\ bytes[i][1] \in Clients /\ Session(bytes[i][1]) = s
    /\ bytes[i][2] \in Nat /\ bytes[i][2] < end
    /\ \A j \in 1 .. (i - 1) : bytes[j][2] < bytes[i][2]

StreamInv ==
  \A s \in Sess : Ordered(Stream(s), s, Start[conn[s].Base] + conn[s].taken)

\* Byte i of bytes has position i - 1, up to position end.
Gapless(bytes, end) ==
  Len(bytes) = end /\ \A i \in 1 .. Len(bytes) : bytes[i][2] = i - 1

\* Of an ftps that reads whole packages no package is cut.
WholeInv ==
  WholePackages =>
    /\ \A s \in Sess :
         conn[s].taken = 0 /\ Gapless(Stream(s), Start[conn[s].Base])
    /\ \A p \in Ports : ftps[p].sess # None =>
         Len(got[ftps[p].sess]) = Asked[ftps[p].reads]

IInv ==
  /\ TypeOK
  /\ CallInv
  /\ RecvInv
  /\ HeldInv
  /\ TakenInv
  /\ FreshInv
  /\ AckedIsKept
  /\ AcceptedOnce
  /\ StreamInv
  /\ WholeInv
  /\ NoExit

-----------------------------------------------------------------------------
(* Offsets.                                                                *)

\* Start is the sum of the lengths of the SENDs.
LEMMA StartProperties ==
  /\ Start \in [0 .. Len(SendLens) -> Nat]
  /\ Start[0] = 0
  /\ \A k \in 0 .. Len(SendLens) - 1 :
       SendLens[k + 1] \in Nat \ {0} /\ Start[k + 1] = Start[k] + SendLens[k + 1]
  /\ \A m, n \in 0 .. Len(SendLens) : m <= n => Start[m] <= Start[n]
<1>1. SendLens \in Seq(Nat) /\ SendLens \in Seq(Nat \ {0})
  BY ReceiverAssumption
<1>2. SumsTo(Start, SendLens, Len(SendLens))
  <2> DEFINE Sum == CHOOSE f : SumsTo(f, SendLens, Len(SendLens))
  <2>1. SumsTo(Sum, SendLens, Len(SendLens))
    BY <1>1, SumsExist
  <2>2. Start = Sum
    BY DEF Start, SumsTo
  <2> QED BY <2>1, <2>2
<1>3. ASSUME NEW k \in 0 .. Len(SendLens) - 1 PROVE SendLens[k + 1] \in Nat \ {0}
  BY <1>1
<1>4. \A m, n \in 0 .. Len(SendLens) : m <= n => Start[m] <= Start[n]
  BY <1>1, <1>2, SumMonotonic
<1> QED BY <1>1, <1>2, <1>3, <1>4, SumStep, SumNat

\* So is Asked of those of the RECVs.
LEMMA AskedProperties ==
  ASSUME world \in Worlds
  PROVE  /\ ReadLens \in Seq(Nat \ {0}) /\ Len(ReadLens) > 0
         /\ Asked \in [0 .. Len(ReadLens) -> Nat]
         /\ Asked[0] = 0
         /\ \A k \in 0 .. Len(ReadLens) - 1 : Asked[k + 1] = Asked[k] + ReadLens[k + 1]
<1>1. ReadLens \in Seq(Nat) /\ ReadLens \in Seq(Nat \ {0}) /\ Len(ReadLens) > 0
  BY ReceiverAssumption DEF ReadLens
<1>2. SumsTo(Asked, ReadLens, Len(ReadLens))
  <2> DEFINE Sum == CHOOSE f : SumsTo(f, ReadLens, Len(ReadLens))
  <2>1. SumsTo(Sum, ReadLens, Len(ReadLens))
    BY <1>1, SumsExist
  <2>2. Asked = Sum
    BY DEF Asked, SumsTo
  <2> QED BY <2>1, <2>2
<1> QED BY <1>1, <1>2, SumStep, SumNat

\* The clients and the servers are what they were.
LEMMA WorldStays ==
  ASSUME world' = world
  PROVE  /\ ReadLens' = ReadLens /\ Asked' = Asked
         /\ WholePackages' <=> WholePackages
         /\ Sent' = Sent
         /\ \A c : Session(c)' = Session(c)
<1>1. ReadLens' = ReadLens
  BY DEF ReadLens
<1>2. Asked' = Asked
  BY <1>1 DEF Asked
<1>3. WholePackages' <=> WholePackages
  BY <1>1, <1>2 DEF WholePackages
<1> QED BY <1>1, <1>2, <1>3 DEF Sent, Session

-----------------------------------------------------------------------------
(* The initial state, and what steps leave alone.                          *)

\* The records of sessions and of ftps processes.
ConnType == [SocketFD : Ports \cup {None}, Base : 0 .. Len(SendLens),
             Packages : SUBSET Sent, taken : Nat,
             ReceivingLength : Nat, RecvBuffer : Seq(Bytes)]

FtpsType == [pc : Calls \cup {"waiting", "exited"},
             sess : Sess \cup {None}, reads : 0 .. Len(ReadLens)]

\* Changing one record keeps the type of all.
LEMMA RecordTypes ==
  ASSUME TypeOK
  PROVE  /\ conn \in [Sess -> ConnType]
         /\ ftps \in [Ports -> FtpsType]
         /\ \A s \in Sess, c \in ConnType : [conn EXCEPT ![s] = c] \in [Sess -> ConnType]
         /\ \A p \in Ports, f \in FtpsType : [ftps EXCEPT ![p] = f] \in [Ports -> FtpsType]
  BY DEF TypeOK, ConnType, FtpsType

\* Nothing is bound, accepted, held or returned when the daemon starts.
LEMMA InitIInv == Init => IInv
<1> SUFFICES ASSUME Init PROVE IInv
  OBVIOUS
<1> USE ReceiverAssumption DEF Init
<1>1. TypeOK
  <2>1. Len(SendLens) \in Nat /\ Len(ReadLens) \in Nat
    BY AskedProperties
  <2> QED BY <2>1 DEF TypeOK, NewConn, Calls
<1>2. CallInv
  BY AskedProperties DEF CallInv, Binds, Making, Silent
<1>3. RecvInv /\ HeldInv /\ TakenInv /\ FreshInv
  BY DEF RecvInv, HeldInv, TakenInv, FreshInv, NewConn
<1>4. AckedIsKept /\ AcceptedOnce /\ NoExit
  BY DEF AckedIsKept, AcceptedOnce, NoExit
<1>5. \A s \in Sess : Stream(s) = <<>> /\ Len(<<>>) = 0
  BY DEF Stream, NewConn
<1>6. StreamInv
  BY <1>5 DEF StreamInv, Ordered
<1>7. WholeInv
  <2>1. \A s \in Sess : conn[s].taken = 0 /\ Gapless(Stream(s), Start[conn[s].Base])
    BY <1>5, StartProperties DEF Gapless, NewConn
  <2> QED BY <2>1 DEF WholeInv
<1> QED BY <1>1, <1>2, <1>3, <1>4, <1>6, <1>7 DEF IInv

\* The call of an ftps is where it was when nothing that it is about changes.
LEMMA CallKept ==
  ASSUME TypeOK, world' = world, acked \subseteq acked', binded \subseteq binded',
         NEW p \in Ports, ftps'[p] = ftps[p],
         \A fn \in Calls : <<p, fn>> \in msgs' <=> <<p, fn>> \in msgs,
         p \in Accepting' <=> p \in Accepting,
         ftps[p].sess \in acked =>
           conn'[ftps[p].sess].ReceivingLength = conn[ftps[p].sess].ReceivingLength
  PROVE  /\ Binds(p) => Binds(p)'
         /\ Accepts(p) => Accepts(p)'
         /\ Receives(p) => Receives(p)'
         /\ AwaitsClient(p) => AwaitsClient(p)'
         /\ AwaitsData(p) => AwaitsData(p)'
<1>1. /\ Silent(p) <=> Silent(p)'
      /\ \A fn \in Calls : Making(p, fn) <=> Making(p, fn)'
      /\ Awaits(p) <=> Awaits(p)'
  BY DEF Silent, Making, Awaits
<1>2. Binds(p) => Binds(p)'
  BY <1>1 DEF Binds, Calls
<1>3. Accepts(p) => Accepts(p)'
  BY <1>1 DEF Accepts, Calls
<1>4. Receives(p) => Receives(p)'
  BY <1>1 DEF Receives, Calls
<1>5. AwaitsClient(p) => AwaitsClient(p)'
  BY <1>1 DEF AwaitsClient
<1>6. AwaitsData(p) => AwaitsData(p)'
  BY <1>1, WorldStays DEF AwaitsData
<1> QED BY <1>2, <1>3, <1>4, <1>5, <1>6

\* The sessions are what they were when no package or byte moves.
LEMMA SessionsKept ==
  ASSUME HeldInv, TakenInv, FreshInv, StreamInv, TypeOK,
         world' = world, conn' = conn, got' = got, acked \subseteq acked'
  PROVE  HeldInv' /\ TakenInv' /\ FreshInv' /\ StreamInv'
<1>1. HeldInv'
  BY WorldStays DEF HeldInv
<1>2. TakenInv'
  BY DEF TakenInv
<1>3. FreshInv'
  BY DEF FreshInv
<1>4. StreamInv'
  <2>1. \A s : Stream(s)' = Stream(s)
    BY DEF Stream
  <2> QED BY <2>1, WorldStays DEF StreamInv, Ordered
<1> QED BY <1>1, <1>2, <1>3, <1>4

\* Where the datagrams go, and what the acks are of.
LEMMA DatagramTypes ==
  ASSUME TypeOK
  PROVE  /\ \A a \in Sent : a \in Pkg /\ Session(a[1]) \in Sess /\ Dest(a[1]) \in Ports
                            /\ a[1] \in Clients /\ a[2] \in 0 .. Len(SendLens) - 1
         /\ ackNet \subseteq Sent
         /\ \A a \in ackNet : Session(a[1]) \in Sess /\ a[2] \in Nat
<1>1. world \in Worlds /\ ackNet \subseteq Sent
  BY DEF TypeOK
<1>2. \A c \in Clients : Session(c) \in Sess /\ Dest(c) \in Ports
  <2>1. world.client \in [Clients -> [session : Sess, port : Ports, sends : 0 .. Len(SendLens)]]
    BY <1>1, ReceiverAssumption
  <2> QED BY <2>1 DEF Session, Dest
<1>3. Len(SendLens) \in Nat
  BY ReceiverAssumption
<1>4. ASSUME NEW a \in Sent
      PROVE  a \in Pkg /\ a[1] \in Clients /\ a[2] \in 0 .. Len(SendLens) - 1
  <2>1. a \in Pkg
    BY DEF Sent
  <2> QED BY <2>1, <1>3 DEF Pkg
<1>5. \A a \in Sent : a[2] \in Nat
  BY <1>4, <1>3
<1> QED BY <1>1, <1>2, <1>4, <1>5

\* What was acknowledged is kept when no package moves and no session is
\* forgotten.
LEMMA AckedKept ==
  ASSUME AckedIsKept, TypeOK, world' = world, conn' = conn, ackNet' = ackNet,
         \A s \in Sess : Known(s) => Known(s)'
  PROVE  AckedIsKept'
<1>1. \A a \in ackNet : Session(a[1]) \in Sess
  BY DatagramTypes
<1> QED BY <1>1, WorldStays DEF AckedIsKept

\* No package is cut when no byte moves and no ftps turns to another session.
LEMMA WholeKept ==
  ASSUME WholeInv, TypeOK, world' = world, conn' = conn, got' = got,
         \A p \in Ports : ftps'[p].sess = ftps[p].sess /\ ftps'[p].reads = ftps[p].reads
  PROVE  WholeInv'
<1>1. \A s : Stream(s)' = Stream(s)
  BY DEF Stream
<1> QED BY <1>1, WorldStays DEF WholeInv, Gapless

-----------------------------------------------------------------------------
(* Steps of ftps and the calls that are read.                              *)

\* An ftps that makes a call is at the same place of its protocol.
LEMMA FtpsCallsIInv ==
  ASSUME IInv, NEW p \in Ports, FtpsCalls(p)
  PROVE  IInv'
<1> USE DEF IInv
<1>1. /\ UNCHANGED <<world, binded, Accepting, waiting, acked, conn, status, todo, inData, got, ackNet>>
      /\ ftps[p].pc \in Calls /\ msgs' = msgs \cup {<<p, ftps[p].pc>>}
      /\ ftps' = [ftps EXCEPT ![p].pc = "waiting"]
  BY DEF FtpsCalls, daemon, loop
<1>2. /\ ftps'[p] = [ftps[p] EXCEPT !.pc = "waiting"]
      /\ \A q \in Ports : q # p => ftps'[q] = ftps[q]
      /\ \A q \in Ports : ftps'[q].sess = ftps[q].sess /\ ftps'[q].reads = ftps[q].reads
  BY <1>1 DEF TypeOK
<1>3. TypeOK'
  <2>1. [ftps[p] EXCEPT !.pc = "waiting"] \in FtpsType
    <3>1. ftps[p] \in FtpsType
      BY RecordTypes
    <3> QED BY ONLY <3>1 DEF FtpsType
  <2>2. ftps' \in [Ports -> FtpsType]
    BY <1>1, <2>1, RecordTypes
  <2>3. msgs' \subseteq Ports \X Calls
    BY <1>1 DEF TypeOK
  <2> QED BY <1>1, <2>2, <2>3, WorldStays DEF TypeOK, FtpsType
<1>4. CallInv' /\ \A q \in Ports : AwaitsData(q) => AwaitsData(q)'
  <2>1. ASSUME NEW q \in Ports, q # p
        PROVE  /\ ftps'[q].reads < Len(ReadLens)'
               /\ (Binds(q) \/ Accepts(q) \/ Receives(q) \/ AwaitsClient(q) \/ AwaitsData(q))'
               /\ AwaitsData(q) => AwaitsData(q)'
    <3>1. \A fn \in Calls : <<q, fn>> \in msgs' <=> <<q, fn>> \in msgs
      BY <1>1, <2>1
    <3> QED BY <1>1, <1>2, <2>1, <3>1, CallKept, WorldStays DEF CallInv
  <2>2. \A fn \in Calls : Making(p, fn) => Making(p, fn)'
    BY <1>1, <1>2 DEF Making, Silent, Calls, TypeOK
  <2>3. ~ Awaits(p)
    BY <1>1 DEF Awaits, Calls
  <2>4. (Binds(p) \/ Accepts(p) \/ Receives(p))'
    BY <1>1, <1>2, <2>2, <2>3 DEF CallInv, Binds, Accepts, Receives, AwaitsClient, AwaitsData, Calls
  <2> QED BY <1>2, <2>1, <2>3, <2>4, <1>1, WorldStays DEF CallInv, AwaitsData
<1>5. RecvInv'
  BY <1>1, <1>2, <1>4 DEF RecvInv
<1>6. HeldInv' /\ TakenInv' /\ FreshInv' /\ StreamInv'
  BY <1>1, SessionsKept
<1>7. AckedIsKept'
  BY <1>1, AckedKept DEF Known
<1>8. AcceptedOnce'
  BY <1>1, <1>2 DEF AcceptedOnce
<1>9. WholeInv'
  BY <1>1, <1>2, WholeKept
<1>10. NoExit'
  BY <1>1, <1>2, WorldStays DEF NoExit
<1> QED BY <1>3, <1>4, <1>5, <1>6, <1>7, <1>8, <1>9, <1>10

\* A turn begins.
LEMMA SelectIInv == IInv /\ Select => IInv'
<1> SUFFICES ASSUME IInv, Select PROVE IInv'
  OBVIOUS
<1> USE DEF IInv
<1>1. PICK A \in Arrivals : SelectData(A)
  BY DEF Select
<1>2. /\ UNCHANGED <<world, binded, Accepting, waiting, acked, conn, status, msgs, ftps, got, ackNet>>
      /\ todo' \subseteq {"msg", "accept", "recv"}
  BY <1>1 DEF SelectData, daemon, front
<1>3. inData' \subseteq Sent \X BOOLEAN
  <2>1. PICK Garbled \in SUBSET A : inData' = {<<a, a \in Garbled>> : a \in A}
    BY <1>1 DEF SelectData
  <2>2. A \subseteq Sent
    BY DEF Arrivals
  <2>3. ASSUME NEW a \in A PROVE <<a, a \in Garbled>> \in Sent \X BOOLEAN
    <3>1. CASE a \in Garbled
      <4>1. (a \in Garbled) = TRUE
        BY <3>1, Zenon
      <4> QED BY <2>2, <4>1, Zenon
    <3>2. CASE a \notin Garbled
      <4>1. (a \in Garbled) = FALSE
        BY <3>2, SMT
      <4> QED BY <2>2, <4>1, Zenon
    <3> QED BY <3>1, <3>2
  <2> QED BY <2>1, <2>3, Zenon
<1>4. TypeOK'
  BY <1>2, <1>3, WorldStays DEF TypeOK
<1>5. \A q \in Ports : AwaitsData(q) => AwaitsData(q)'
  BY <1>2, CallKept
<1>6. CallInv'
  BY <1>2, CallKept, WorldStays DEF CallInv
<1>7. RecvInv'
  BY <1>2, <1>5 DEF RecvInv
<1>8. HeldInv' /\ TakenInv' /\ FreshInv' /\ StreamInv'
  BY <1>2, SessionsKept
<1>9. AckedIsKept' /\ WholeInv'
  BY <1>2, AckedKept, WholeKept DEF Known
<1>10. AcceptedOnce' /\ NoExit'
  BY <1>2, WorldStays DEF AcceptedOnce, NoExit
<1> QED BY <1>4, <1>6, <1>7, <1>8, <1>9, <1>10

\* The call of p that was read is gone.
LEMMA CallRead ==
  ASSUME TypeOK, CallInv, NEW p \in Ports, NEW fn \in Calls,
         <<p, fn>> \in msgs, msgs' = msgs \ {<<p, fn>>}
  PROVE  /\ Making(p, fn) /\ ftps[p].pc = "waiting"
         /\ Silent(p)'
         /\ \A q \in Ports : q # p =>
              \A g \in Calls : <<q, g>> \in msgs' <=> <<q, g>> \in msgs
         /\ fn = "BIND" => Binds(p)
         /\ fn = "ACCEPT" => Accepts(p)
         /\ fn = "RECV" => Receives(p)
<1>1. ~ Silent(p)
  BY DEF Silent
<1>2. /\ ftps[p].pc = "waiting"
      /\ \A g \in Calls : Making(p, g) => g = fn
  BY <1>1 DEF CallInv, Making, Binds, Accepts, Receives, Awaits, AwaitsClient, AwaitsData, Calls
<1>3. Binds(p) \/ Accepts(p) \/ Receives(p)
  BY <1>1 DEF CallInv, Awaits, AwaitsClient, AwaitsData
<1>4. /\ fn = "BIND" => Binds(p)
      /\ fn = "ACCEPT" => Accepts(p)
      /\ fn = "RECV" => Receives(p)
      /\ Making(p, fn)
  BY <1>2, <1>3 DEF Binds, Accepts, Receives, Calls
<1>5. Silent(p)'
  BY <1>2, <1>4 DEF Silent, Making, Calls
<1> QED BY <1>2, <1>4, <1>5

\* A BIND turns the ftps of p to ACCEPT.
LEMMA BindIInv ==
  ASSUME IInv, NEW p \in Ports, <<p, "BIND">> \in msgs,
         msgs' = msgs \ {<<p, "BIND">>}, tcpd_BIND(p), todo' \subseteq todo,
         UNCHANGED <<world, waiting, acked, inData, status, ackNet>>
  PROVE  IInv'
<1> USE DEF IInv
<1>1. /\ binded' = binded \cup {p} /\ UNCHANGED <<Accepting, conn, got>>
      /\ ftps' = [ftps EXCEPT ![p].pc = "ACCEPT"]
  BY DEF tcpd_BIND
<1>2. /\ ftps'[p] = [ftps[p] EXCEPT !.pc = "ACCEPT"]
      /\ \A q \in Ports : q # p => ftps'[q] = ftps[q]
      /\ \A q \in Ports : ftps'[q].sess = ftps[q].sess /\ ftps'[q].reads = ftps[q].reads
  BY <1>1 DEF TypeOK
<1>3. /\ Binds(p) /\ Silent(p)'
      /\ \A q \in Ports : q # p => \A g \in Calls : <<q, g>> \in msgs' <=> <<q, g>> \in msgs
  BY CallRead DEF Calls
<1>4. TypeOK'
  <2>1. [ftps[p] EXCEPT !.pc = "ACCEPT"] \in FtpsType
    BY RecordTypes DEF FtpsType, Calls
  <2>2. ftps' \in [Ports -> FtpsType]
    BY <1>1, <2>1, RecordTypes
  <2> QED BY <1>1, <2>2, WorldStays DEF TypeOK, FtpsType
<1>5. \A q \in Ports : AwaitsData(q) => AwaitsData(q)' /\ q # p
  <2>1. ~ AwaitsData(p)
    BY <1>3, CallRead DEF Binds, AwaitsData, Making, Awaits, Silent, Calls
  <2> QED BY <1>1, <1>2, <1>3, <2>1, CallKept
<1>6. CallInv'
  <2>1. ASSUME NEW q \in Ports, q # p
        PROVE  /\ ftps'[q].reads < Len(ReadLens)'
               /\ (Binds(q) \/ Accepts(q) \/ Receives(q) \/ AwaitsClient(q) \/ AwaitsData(q))'
    BY <1>1, <1>2, <1>3, <2>1, CallKept, WorldStays DEF CallInv
  <2>2. Making(p, "ACCEPT")'
    BY <1>2, <1>3, RecordTypes DEF Making, FtpsType
  <2>3. Accepts(p)'
    BY <1>1, <1>2, <1>3, <2>2 DEF Binds, Accepts
  <2> QED BY <1>2, <2>1, <2>3, WorldStays DEF CallInv
<1>7. RecvInv'
  BY <1>1, <1>2, <1>5 DEF RecvInv
<1>8. HeldInv' /\ TakenInv' /\ FreshInv' /\ StreamInv'
  BY <1>1, SessionsKept
<1>9. AckedIsKept' /\ WholeInv'
  BY <1>1, <1>2, AckedKept, WholeKept DEF Known
<1>10. AcceptedOnce' /\ NoExit'
  BY <1>1, <1>2, WorldStays DEF AcceptedOnce, NoExit
<1> QED BY <1>4, <1>6, <1>7, <1>8, <1>9, <1>10

\* An ACCEPT is recorded, and never refused.
LEMMA AcceptIInv ==
  ASSUME IInv, NEW p \in Ports, <<p, "ACCEPT">> \in msgs,
         msgs' = msgs \ {<<p, "ACCEPT">>}, tcpd_ACCEPT(p), todo' \subseteq todo,
         UNCHANGED <<world, waiting, acked, inData, status, ackNet>>
  PROVE  IInv'
<1> USE DEF IInv
<1>1. /\ Accepts(p) /\ ftps[p].pc = "waiting" /\ Silent(p)'
      /\ \A q \in Ports : q # p => \A g \in Calls : <<q, g>> \in msgs' <=> <<q, g>> \in msgs
  BY CallRead DEF Calls
<1>2. UNCHANGED <<binded, conn, got, ftps>> /\ Accepting' = Accepting \cup {p}
  BY <1>1 DEF tcpd_ACCEPT, Accepts
<1>3. TypeOK'
  BY <1>2, WorldStays DEF TypeOK
<1>4. \A q \in Ports : AwaitsData(q) => AwaitsData(q)' /\ q # p
  <2>1. ~ AwaitsData(p)
    BY <1>1 DEF AwaitsData, Accepts, Making, Awaits, Silent, Calls
  <2> QED BY <1>1, <1>2, <2>1, CallKept
<1>5. CallInv'
  <2>1. ASSUME NEW q \in Ports, q # p
        PROVE  (Binds(q) \/ Accepts(q) \/ Receives(q) \/ AwaitsClient(q) \/ AwaitsData(q))'
    BY <1>1, <1>2, <2>1, CallKept DEF CallInv
  <2>2. AwaitsClient(p)'
    BY <1>1, <1>2 DEF AwaitsClient, Awaits, Accepts
  <2> QED BY <1>2, <2>1, <2>2, WorldStays DEF CallInv
<1>6. RecvInv'
  BY <1>2, <1>4 DEF RecvInv
<1>7. HeldInv' /\ TakenInv' /\ FreshInv' /\ StreamInv'
  BY <1>2, SessionsKept
<1>8. AckedIsKept' /\ WholeInv'
  BY <1>2, AckedKept, WholeKept DEF Known
<1>9. AcceptedOnce' /\ NoExit'
  BY <1>2, WorldStays DEF AcceptedOnce, NoExit
<1> QED BY <1>3, <1>5, <1>6, <1>7, <1>8, <1>9

\* Sessions no packages and no bytes of which move are what they were, though
\* RECVs on them begin.
LEMMA ConnKept ==
  ASSUME IInv, world' = world, got' = got, acked' = acked,
         waiting' = waiting, ackNet' = ackNet,
         \A s \in Sess : /\ conn'[s].Packages = conn[s].Packages
                         /\ conn'[s].Base = conn[s].Base
                         /\ conn'[s].taken = conn[s].taken
                         /\ conn'[s].RecvBuffer = conn[s].RecvBuffer,
         \A s \in Sess \ acked : conn'[s].ReceivingLength = conn[s].ReceivingLength,
         \A p \in Ports : ftps'[p].sess = ftps[p].sess /\ ftps'[p].reads = ftps[p].reads
  PROVE  HeldInv' /\ TakenInv' /\ FreshInv' /\ StreamInv' /\ AckedIsKept' /\ WholeInv'
<1> USE DEF IInv
<1>1. \A s \in Sess : Stream(s)' = Stream(s)
  BY DEF Stream
<1>2. HeldInv'
  BY WorldStays DEF HeldInv
<1>3. TakenInv' /\ FreshInv'
  BY DEF TakenInv, FreshInv
<1>4. StreamInv'
  BY <1>1, WorldStays DEF StreamInv, Ordered
<1>5. WholeInv'
  BY <1>1, WorldStays DEF WholeInv, Gapless
<1>6. \A a \in ackNet : Session(a[1]) \in Sess
  BY DatagramTypes
<1>7. AckedIsKept'
  BY <1>6, WorldStays DEF AckedIsKept, Known
<1> QED BY <1>2, <1>3, <1>4, <1>5, <1>7

\* A RECV is recorded, and never refused.
LEMMA RecvIInv ==
  ASSUME IInv, NEW p \in Ports, <<p, "RECV">> \in msgs,
         msgs' = msgs \ {<<p, "RECV">>}, tcpd_RECV(p), todo' \subseteq todo,
         UNCHANGED <<world, waiting, acked, inData, status, ackNet>>
  PROVE  IInv'
<1> USE DEF IInv
<1> DEFINE s == ftps[p].sess
           len == ReadLens[ftps[p].reads + 1]
<1>1. /\ Receives(p) /\ ftps[p].pc = "waiting" /\ Silent(p)'
      /\ \A q \in Ports : q # p => \A g \in Calls : <<q, g>> \in msgs' <=> <<q, g>> \in msgs
  BY CallRead DEF Calls
<1>2. s \in acked /\ s \in Sess /\ conn[s].ReceivingLength = 0
  BY <1>1 DEF Receives, TypeOK
<1>3. UNCHANGED <<binded, Accepting, got, ftps>> /\ conn' = [conn EXCEPT ![s].ReceivingLength = len]
  BY <1>2 DEF tcpd_RECV
<1>4. len \in Nat \ {0}
  <2>1. ftps[p].reads + 1 \in 1 .. Len(ReadLens)
    BY AskedProperties DEF CallInv, TypeOK
  <2> QED BY <2>1, AskedProperties DEF TypeOK
<1>5. /\ conn'[s].ReceivingLength = len
      /\ \A t \in Sess : t # s => conn'[t] = conn[t]
      /\ \A t \in Sess : /\ conn'[t].Packages = conn[t].Packages
                         /\ conn'[t].Base = conn[t].Base
                         /\ conn'[t].taken = conn[t].taken
                         /\ conn'[t].RecvBuffer = conn[t].RecvBuffer
                         /\ conn'[t].SocketFD = conn[t].SocketFD
  <2>1. /\ conn'[s] = [conn[s] EXCEPT !.ReceivingLength = len]
        /\ \A t \in Sess : t # s => conn'[t] = conn[t]
    BY <1>2, <1>3, RecordTypes
  <2>2. conn[s] \in ConnType
    BY <1>2, RecordTypes
  <2>3. /\ conn'[s].Packages = conn[s].Packages /\ conn'[s].Base = conn[s].Base
        /\ conn'[s].taken = conn[s].taken /\ conn'[s].RecvBuffer = conn[s].RecvBuffer
        /\ conn'[s].SocketFD = conn[s].SocketFD /\ conn'[s].ReceivingLength = len
    BY ONLY <2>1, <2>2 DEF ConnType
  <2> QED BY ONLY <2>1, <2>3
<1>6. TypeOK'
  <2>1. [conn[s] EXCEPT !.ReceivingLength = len] \in ConnType
    <3>1. conn[s] \in ConnType
      BY <1>2, RecordTypes
    <3> HIDE DEF s, len
    <3> QED BY <1>4, <3>1 DEF ConnType
  <2>2. conn' \in [Sess -> ConnType]
    BY <1>2, <1>3, <2>1, RecordTypes
  <2> QED BY <1>3, <2>2, WorldStays DEF TypeOK, ConnType
<1>7. None \notin Sess
  BY ReceiverAssumption
<1>8. ASSUME NEW q \in Ports, q # p
      PROVE  /\ ftps[q].sess # s
             /\ (Binds(q) \/ Accepts(q) \/ Receives(q) \/ AwaitsClient(q) \/ AwaitsData(q))'
             /\ AwaitsData(q) => AwaitsData(q)'
  <2>1. ftps[q].sess # s
    BY <1>2, <1>7, <1>8 DEF AcceptedOnce
  <2>2. ftps[q].sess \in acked =>
          conn'[ftps[q].sess].ReceivingLength = conn[ftps[q].sess].ReceivingLength
    BY <1>5, <2>1 DEF TypeOK
  <2> QED BY <1>1, <1>3, <1>8, <2>1, <2>2, CallKept DEF CallInv
<1>9. AwaitsData(p)'
  BY <1>1, <1>2, <1>3, <1>5, WorldStays DEF AwaitsData, Awaits, Receives
<1>10. CallInv'
  BY <1>3, <1>8, <1>9, WorldStays DEF CallInv
<1>11. RecvInv'
  <2>1. ASSUME NEW t \in Sess, t # s
        PROVE  /\ conn'[t].ReceivingLength > 0 =>
                    \E q \in Ports : ftps'[q].sess = t /\ AwaitsData(q)'
               /\ Len(conn'[t].RecvBuffer) <= conn'[t].ReceivingLength
    BY <1>3, <1>5, <1>8, <2>1 DEF RecvInv
  <2>2. Len(conn'[s].RecvBuffer) <= conn'[s].ReceivingLength
    BY <1>2, <1>4, <1>5 DEF RecvInv, TypeOK
  <2> QED BY <1>3, <1>9, <2>1, <2>2 DEF RecvInv
<1>12. HeldInv' /\ TakenInv' /\ FreshInv' /\ StreamInv' /\ AckedIsKept' /\ WholeInv'
  BY <1>2, <1>3, <1>5, ConnKept
<1>13. AcceptedOnce' /\ NoExit'
  BY <1>3, WorldStays DEF AcceptedOnce, NoExit
<1> QED BY <1>6, <1>10, <1>11, <1>12, <1>13

\* So a call that is read preserves the invariant.
LEMMA MessageIInv == IInv /\ process_tcpd_message => IInv'
<1> SUFFICES ASSUME IInv, process_tcpd_message PROVE IInv'
  OBVIOUS
<1>1. PICK p \in Ports, fn \in Calls :
        /\ <<p, fn>> \in msgs /\ msgs' = msgs \ {<<p, fn>>}
        /\ \/ fn = "BIND" /\ tcpd_BIND(p)
           \/ fn = "ACCEPT" /\ tcpd_ACCEPT(p)
           \/ fn = "RECV" /\ tcpd_RECV(p)
  BY DEF process_tcpd_message
<1>2. todo' \subseteq todo /\ UNCHANGED <<world, waiting, acked, inData, status, ackNet>>
  BY DEF process_tcpd_message
<1>3. CASE fn = "BIND" /\ tcpd_BIND(p)
  BY <1>1, <1>2, <1>3, BindIInv
<1>4. CASE fn = "ACCEPT" /\ tcpd_ACCEPT(p)
  BY <1>1, <1>2, <1>4, AcceptIInv
<1>5. CASE fn = "RECV" /\ tcpd_RECV(p)
  BY <1>1, <1>2, <1>5, RecvIInv
<1> QED BY <1>1, <1>3, <1>4, <1>5

-----------------------------------------------------------------------------
(* Data that arrives.                                                      *)

\* With HeldInv an acknowledged package is kept when it was taken, or any of
\* its number is held.
LEMMA HeldIsKept ==
  ASSUME HeldInv', world' = world,
         \A a \in ackNet' : Session(a[1]) \in Sess,
         \A a \in ackNet', s \in Sess : Session(a[1]) = s =>
           Known(s)' /\ (a[2] < conn'[s].Base \/ Holds(s, a[2])')
  PROVE  AckedIsKept'
<1>1. ASSUME NEW a \in ackNet', NEW s \in Sess, Session(a[1]) = s, ~ (a[2] < conn'[s].Base)
      PROVE  \E b \in conn'[s].Packages :
               /\ b[2] = a[2]
               /\ \A d \in conn'[s].Packages : d[2] = a[2] => d = b
               /\ Session(b[1]) = s
  <2>1. PICK b \in conn'[s].Packages : b[2] = a[2]
    BY <1>1 DEF Holds
  <2> QED BY <2>1, WorldStays DEF HeldInv
<1> QED BY <1>1, WorldStays DEF AckedIsKept

\* What AckedIsKept says of a package, without saying which one is held.
LEMMA KeptIsHeld ==
  ASSUME AckedIsKept, NEW a \in ackNet, NEW s \in Sess, Session(a[1]) = s
  PROVE  Known(s) /\ (a[2] < conn[s].Base \/ Holds(s, a[2]))
  BY DEF AckedIsKept, Holds

\* A package of a known session is entered, or is not.
LEMMA KnownDataIInv ==
  ASSUME IInv, NEW a \in Sent, NEW s \in Sess, s = Session(a[1]), Known(s),
         conn' = IF Keeps(s, a[2])
                 THEN [conn EXCEPT ![s].Packages = @ \cup {a}] ELSE conn,
         ackNet' = ackNet \cup {a}, inData' \subseteq inData,
         UNCHANGED <<world, binded, Accepting, acked, waiting, todo, status, msgs, ftps, got>>
  PROVE  IInv'
<1> USE DEF IInv
<1>1. a \in Pkg /\ a[2] \in 0 .. Len(SendLens) - 1
  BY DatagramTypes
<1>2. /\ \A t \in Sess : conn[t] \in ConnType /\ (t # s => conn'[t] = conn[t])
      /\ conn'[s] = IF Keeps(s, a[2]) THEN [conn[s] EXCEPT !.Packages = @ \cup {a}] ELSE conn[s]
  BY RecordTypes
<1>3. conn'[s] \in ConnType
  BY <1>2 DEF ConnType
<1>4. /\ conn'[s].Packages = IF Keeps(s, a[2]) THEN conn[s].Packages \cup {a} ELSE conn[s].Packages
      /\ \A t \in Sess : /\ conn'[t].Base = conn[t].Base
                         /\ conn'[t].taken = conn[t].taken
                         /\ conn'[t].RecvBuffer = conn[t].RecvBuffer
                         /\ conn'[t].ReceivingLength = conn[t].ReceivingLength
                         /\ t # s => conn'[t].Packages = conn[t].Packages
  <2>1. CASE Keeps(s, a[2])
    BY <1>2, <2>1 DEF ConnType
  <2>2. CASE ~ Keeps(s, a[2])
    BY <1>2, <2>2
  <2> QED BY <2>1, <2>2
<1>5. TypeOK'
  <2>1. conn' \in [Sess -> ConnType]
    BY <1>3, RecordTypes
  <2> QED BY <2>1, WorldStays DEF TypeOK, ConnType
<1>6. \A q \in Ports : AwaitsData(q) => AwaitsData(q)'
  BY <1>4, CallKept DEF TypeOK
<1>7. CallInv'
  BY <1>4, CallKept, WorldStays DEF CallInv, TypeOK
<1>8. RecvInv'
  BY <1>4, <1>6 DEF RecvInv
<1>9. HeldInv'
  <2>1. ASSUME NEW b \in conn'[s].Packages
        PROVE  /\ Session(b[1]) = s /\ conn[s].Base <= b[2]
               /\ \A d \in conn'[s].Packages : b[2] = d[2] => b = d
    BY <1>1, <1>4, <2>1 DEF HeldInv, Keeps, Holds
  <2>2. ASSUME NEW t \in Sess, t # s, NEW b \in conn'[t].Packages
        PROVE  /\ Session(b[1]) = t /\ conn[t].Base <= b[2]
               /\ \A d \in conn'[t].Packages : b[2] = d[2] => b = d
    BY <1>4, <2>2 DEF HeldInv
  <2> QED BY <1>4, <2>1, <2>2, WorldStays DEF HeldInv
<1>10. TakenInv' /\ FreshInv'
  BY <1>4 DEF TakenInv, FreshInv
<1>11. \A t \in Sess : Stream(t)' = Stream(t)
  BY <1>4 DEF Stream
<1>12. StreamInv'
  BY <1>4, <1>11, WorldStays DEF StreamInv, Ordered
<1>13. WholeInv'
  BY <1>4, <1>11, WorldStays DEF WholeInv, Gapless
<1>14. AckedIsKept'
  <2>1. \A t \in Sess : \A k : Holds(t, k) => Holds(t, k)'
    BY <1>4 DEF Holds
  <2>2. a[2] < conn[s].Base \/ Holds(s, a[2])'
    <3>1. conn[s].Base \in Nat
      BY <1>2 DEF ConnType
    <3> QED BY <1>1, <1>4, <2>1, <3>1 DEF Holds, Keeps
  <2>3. \A t : Known(t)' = Known(t)
    BY DEF Known
  <2>4. ASSUME NEW b \in ackNet', NEW t \in Sess, Session(b[1]) = t
        PROVE  Known(t)' /\ (b[2] < conn'[t].Base \/ Holds(t, b[2])')
    <3>1. CASE b = a
      BY <1>4, <2>2, <2>3, <2>4, <3>1
    <3>2. CASE b \in ackNet
      BY <1>4, <2>1, <2>3, <2>4, <3>2, KeptIsHeld
    <3> QED BY <3>1, <3>2
  <2>5. \A b \in ackNet' : Session(b[1]) \in Sess
    BY DatagramTypes
  <2> QED BY <1>9, <2>4, <2>5, HeldIsKept, WorldStays
<1>15. AcceptedOnce' /\ NoExit'
  BY WorldStays DEF AcceptedOnce, NoExit
<1> QED BY <1>5, <1>7, <1>8, <1>9, <1>10, <1>12, <1>13, <1>14, <1>15

\* The first package of a session number opens the session.
LEMMA NewDataIInv ==
  ASSUME IInv, NEW a \in Sent, NEW s \in Sess, s = Session(a[1]), ~ Known(s),
         conn' = [conn EXCEPT ![s] = [NewConn(Dest(a[1])) EXCEPT !.Packages = {a}]],
         waiting' = Append(waiting, s),
         ackNet' = ackNet \cup {a}, inData' \subseteq inData,
         UNCHANGED <<world, binded, Accepting, acked, todo, status, msgs, ftps, got>>
  PROVE  IInv'
<1> USE DEF IInv
<1>1. a \in Pkg /\ a[2] \in 0 .. Len(SendLens) - 1 /\ Dest(a[1]) \in Ports
  BY DatagramTypes
<1>2. /\ \A t \in Sess : t # s => conn'[t] = conn[t]
      /\ conn'[s].Packages = {a} /\ conn'[s].Base = 0 /\ conn'[s].taken = 0
      /\ conn'[s].ReceivingLength = 0 /\ conn'[s].RecvBuffer = <<>>
      /\ conn'[s] \in ConnType
  <2>1. /\ \A t \in Sess : t # s => conn'[t] = conn[t]
        /\ conn'[s] = [NewConn(Dest(a[1])) EXCEPT !.Packages = {a}]
    BY RecordTypes
  <2>2. Len(SendLens) \in Nat /\ <<>> \in Seq(Bytes)
    BY ReceiverAssumption
  <2>3. PICK p \in Ports : p = Dest(a[1])
    BY <1>1
  <2>4. NewConn(p) \in ConnType
    BY <2>2 DEF NewConn, ConnType
  <2>5. [NewConn(p) EXCEPT !.Packages = {a}] \in ConnType
    BY <2>4 DEF ConnType
  <2>6. /\ NewConn(p).Base = 0 /\ NewConn(p).taken = 0
        /\ NewConn(p).ReceivingLength = 0 /\ NewConn(p).RecvBuffer = <<>>
    BY DEF NewConn
  <2>7. [NewConn(p) EXCEPT !.Packages = {a}].Packages = {a}
        /\ [NewConn(p) EXCEPT !.Packages = {a}].Base = NewConn(p).Base
        /\ [NewConn(p) EXCEPT !.Packages = {a}].taken = NewConn(p).taken
        /\ [NewConn(p) EXCEPT !.Packages = {a}].ReceivingLength = NewConn(p).ReceivingLength
        /\ [NewConn(p) EXCEPT !.Packages = {a}].RecvBuffer = NewConn(p).RecvBuffer
    BY ONLY <2>4 DEF ConnType
  <2> QED BY ONLY <2>1, <2>3, <2>5, <2>6, <2>7
<1>3. s \notin acked /\ \A i \in 1 .. Len(waiting) : waiting[i] # s
  BY DEF Known
<1>4. got[s] = <<>>
  BY <1>3 DEF FreshInv
<1>5. /\ waiting' \in Seq(Sess) /\ Len(waiting') = Len(waiting) + 1
      /\ \A i \in 1 .. Len(waiting) : waiting'[i] = waiting[i]
      /\ waiting'[Len(waiting) + 1] = s
      /\ Len(waiting) \in Nat
  BY AppendProperties DEF TypeOK
<1>6. TypeOK'
  <2>1. conn' \in [Sess -> ConnType]
    BY <1>2, RecordTypes
  <2> QED BY <1>5, <2>1, WorldStays DEF TypeOK, ConnType
<1>7. \A q \in Ports : ftps[q].sess \in acked => conn'[ftps[q].sess] = conn[ftps[q].sess]
  BY <1>2, <1>3 DEF TypeOK
<1>8. \A q \in Ports : AwaitsData(q) => AwaitsData(q)'
  BY <1>7, CallKept
<1>9. CallInv'
  BY <1>7, CallKept, WorldStays DEF CallInv
<1>10. RecvInv'
  <2>1. Len(conn'[s].RecvBuffer) <= conn'[s].ReceivingLength
    BY <1>2
  <2> QED BY <1>2, <1>8, <2>1 DEF RecvInv
<1>11. HeldInv'
  BY <1>1, <1>2, WorldStays DEF HeldInv
<1>12. TakenInv' /\ FreshInv'
  BY <1>2, <1>4 DEF TakenInv, FreshInv
<1>13. Stream(s)' = <<>> /\ \A t \in Sess : t # s => Stream(t)' = Stream(t)
  <2>1. <<>> \o <<>> = <<>>
    OBVIOUS
  <2> QED BY <1>2, <1>4, <2>1 DEF Stream
<1>14. StreamInv'
  <2>1. \A t \in Sess : t # s => Ordered(Stream(t), t, Start[conn[t].Base] + conn[t].taken)'
    BY <1>2, <1>13, WorldStays DEF StreamInv, Ordered
  <2>2. Ordered(Stream(s), s, Start[conn[s].Base] + conn[s].taken)'
    BY <1>13 DEF Ordered
  <2> QED BY <2>1, <2>2 DEF StreamInv
<1>15. WholeInv'
  <2>1. Gapless(<<>>, Start[0])
    BY StartProperties DEF Gapless
  <2> QED BY <1>2, <1>13, <2>1, WorldStays DEF WholeInv, Gapless
<1>16. AckedIsKept'
  <2>1. \A t : t # s => Known(t)' = Known(t)
    BY <1>5 DEF Known
  <2>2. Known(s)'
    <3>1. Len(waiting) + 1 \in 1 .. Len(waiting')
      BY <1>5
    <3> QED BY <1>5, <3>1 DEF Known
  <2>3. ASSUME NEW b \in ackNet', NEW t \in Sess, Session(b[1]) = t
        PROVE  Known(t)' /\ (b[2] < conn'[t].Base \/ Holds(t, b[2])')
    <3>1. CASE b = a
      BY <1>2, <2>2, <2>3, <3>1 DEF Holds
    <3>2. CASE b \in ackNet
      <4>1. Known(t) /\ (b[2] < conn[t].Base \/ Holds(t, b[2])) /\ t # s
        BY <2>3, <3>2, KeptIsHeld
      <4> QED BY <1>2, <2>1, <4>1 DEF Holds
    <3> QED BY <3>1, <3>2
  <2>4. \A b \in ackNet' : Session(b[1]) \in Sess
    BY DatagramTypes
  <2> QED BY <1>11, <2>3, <2>4, HeldIsKept
<1>17. AcceptedOnce'
  <2>1. ASSUME NEW i \in 1 .. Len(waiting'), NEW j \in 1 .. Len(waiting')
        PROVE  waiting'[i] \notin acked /\ (waiting'[i] = waiting'[j] => i = j)
    <3>1. \A k \in 1 .. Len(waiting') : k \in 1 .. Len(waiting) \/ k = Len(waiting) + 1
      BY <1>5
    <3> QED BY <1>3, <1>5, <3>1 DEF AcceptedOnce
  <2> QED BY <2>1 DEF AcceptedOnce
<1>18. NoExit'
  BY WorldStays DEF NoExit
<1> QED BY <1>6, <1>9, <1>10, <1>11, <1>12, <1>14, <1>15, <1>16, <1>17, <1>18

\* A datagram that is garbled changes nothing but what is left to read.
LEMMA GarbledIInv ==
  ASSUME IInv, inData' \subseteq inData, todo' \subseteq todo,
         UNCHANGED <<world, binded, Accepting, waiting, acked, conn, status, msgs, ftps, got, ackNet>>
  PROVE  IInv'
<1> USE DEF IInv
<1>1. TypeOK'
  BY WorldStays DEF TypeOK
<1>2. \A q \in Ports : AwaitsData(q) => AwaitsData(q)'
  BY CallKept
<1>3. CallInv'
  BY CallKept, WorldStays DEF CallInv
<1>4. RecvInv'
  BY <1>2 DEF RecvInv
<1>5. HeldInv' /\ TakenInv' /\ FreshInv' /\ StreamInv'
  BY SessionsKept
<1>6. AckedIsKept' /\ WholeInv'
  BY AckedKept, WholeKept DEF Known
<1>7. AcceptedOnce' /\ NoExit'
  BY WorldStays DEF AcceptedOnce, NoExit
<1> QED BY <1>1, <1>3, <1>4, <1>5, <1>6, <1>7

\* So a datagram that is read preserves the invariant.
LEMMA DataIInv ==
  ASSUME IInv, NEW a \in Pkg, NEW garbled \in BOOLEAN, recv_data(a, garbled)
  PROVE  IInv'
<1>1. /\ <<a, garbled>> \in inData /\ inData' \subseteq inData
      /\ UNCHANGED <<world, binded, Accepting, acked, todo, status, msgs, ftps, got>>
  BY DEF recv_data, front
<1>2. a \in Sent
  BY <1>1 DEF IInv, TypeOK
<1>3. PICK s \in Sess : s = Session(a[1])
  BY <1>2, DatagramTypes DEF IInv
<1>4. CASE garbled
  <2>1. UNCHANGED <<conn, waiting, ackNet>>
    BY <1>4 DEF recv_data
  <2> QED BY <1>1, <2>1, GarbledIInv
<1>5. CASE ~ garbled /\ Known(s)
  <2>1. /\ conn' = IF Keeps(s, a[2]) THEN [conn EXCEPT ![s].Packages = @ \cup {a}] ELSE conn
        /\ waiting' = waiting /\ ackNet' = ackNet \cup {a}
    BY <1>3, <1>5 DEF recv_data
  <2> QED BY <1>1, <1>2, <1>3, <1>5, <2>1, KnownDataIInv
<1>6. CASE ~ garbled /\ ~ Known(s)
  <2>1. /\ conn' = [conn EXCEPT ![s] = [NewConn(Dest(a[1])) EXCEPT !.Packages = {a}]]
        /\ waiting' = Append(waiting, s) /\ ackNet' = ackNet \cup {a}
    BY <1>3, <1>6 DEF recv_data
  <2> QED BY <1>1, <1>2, <1>3, <1>6, <2>1, NewDataIInv
<1> QED BY <1>4, <1>5, <1>6

-----------------------------------------------------------------------------
(* ACCEPTs that are answered.                                              *)

\* An element less, and those after it a place earlier.
LEMMA RemoveAtProperties ==
  ASSUME NEW S, NEW seq \in Seq(S), NEW i \in 1 .. Len(seq)
  PROVE  /\ RemoveAt(seq, i) \in Seq(S)
         /\ Len(RemoveAt(seq, i)) = Len(seq) - 1
         /\ \A j \in 1 .. Len(seq) - 1 :
              RemoveAt(seq, i)[j] = IF j < i THEN seq[j] ELSE seq[j + 1]
<1> DEFINE before == SubSeq(seq, 1, i - 1)
           after  == SubSeq(seq, i + 1, Len(seq))
<1>1. /\ before \in Seq(S) /\ Len(before) = i - 1
      /\ \A j \in 1 .. i - 1 : before[j] = seq[j]
  BY SubSeqProperties
<1>2. /\ after \in Seq(S) /\ Len(after) = Len(seq) - i
      /\ \A j \in 1 .. Len(seq) - i : after[j] = seq[i + j]
  BY SubSeqProperties
<1>3. RemoveAt(seq, i) = before \o after
  BY DEF RemoveAt
<1> HIDE DEF before, after
<1>4. /\ before \o after \in Seq(S)
      /\ Len(before \o after) = Len(before) + Len(after)
      /\ \A j \in 1 .. Len(before) + Len(after) : (before \o after)[j] =
           IF j <= Len(before) THEN before[j] ELSE after[j - Len(before)]
  BY <1>1, <1>2, ConcatProperties
<1>5. Len(before) + Len(after) = Len(seq) - 1 /\ Len(seq) \in Nat
  BY <1>1, <1>2
<1>6. ASSUME NEW j \in 1 .. Len(seq) - 1
      PROVE  (before \o after)[j] = IF j < i THEN seq[j] ELSE seq[j + 1]
  <2>1. CASE j < i
    BY <1>1, <1>4, <1>5, <2>1
  <2>2. CASE ~ (j < i)
    <3>1. j - (i - 1) \in 1 .. Len(seq) - i /\ i + (j - (i - 1)) = j + 1
      BY <1>5, <2>2
    <3>2. (before \o after)[j] = after[j - (i - 1)]
      BY <1>1, <1>4, <1>5, <2>2
    <3>3. after[j - (i - 1)] = seq[i + (j - (i - 1))]
      BY <1>2, <3>1
    <3> QED BY <2>2, <3>1, <3>2, <3>3
  <2> QED BY <2>1, <2>2
<1> QED BY <1>3, <1>4, <1>5, <1>6

\* The session that waited longest passes from waiting_ack_sockets to
\* acked_sockets and to the ftps of its socket.
LEMMA AnswersAcceptIInv ==
  ASSUME IInv, NEW p \in Ports, NEW i \in DOMAIN waiting, NEW s, s = waiting[i],
         AnswersAccept(p, i), UNCHANGED todo,
         UNCHANGED <<world, binded, conn, inData, status, msgs, got, ackNet>>
  PROVE  IInv'
<1> USE DEF IInv
<1>1. /\ p \in Accepting /\ acked' = acked \cup {s} /\ waiting' = RemoveAt(waiting, i)
      /\ Accepting' = Accepting \ {p} /\ ftps' = [ftps EXCEPT ![p] = Accepted(s)]
  BY DEF AnswersAccept
<1>2. waiting \in Seq(Sess) /\ i \in 1 .. Len(waiting) /\ s \in Sess /\ Len(waiting) \in Nat
  <2>1. waiting \in Seq(Sess)
    <3>1. TypeOK
      OBVIOUS
    <3> QED BY ONLY <3>1, Zenon DEF TypeOK
  <2>2. i \in DOMAIN waiting /\ s = waiting[i]
    OBVIOUS
  <2> QED BY ONLY <2>1, <2>2
<1>3. /\ waiting' \in Seq(Sess) /\ Len(waiting') = Len(waiting) - 1
      /\ \A j \in 1 .. Len(waiting') :
           waiting'[j] = IF j < i THEN waiting[j] ELSE waiting[j + 1]
  BY <1>1, <1>2, RemoveAtProperties
<1>4. s \notin acked /\ conn[s].ReceivingLength = 0 /\ got[s] = <<>>
  BY <1>2 DEF AcceptedOnce, FreshInv
<1>5. None \notin Sess /\ Len(ReadLens) \in Nat /\ Len(ReadLens) > 0 /\ Asked[0] = 0
  BY ReceiverAssumption, AskedProperties DEF TypeOK
<1>6. /\ ftps'[p] = [pc |-> "RECV", sess |-> s, reads |-> 0]
      /\ \A q \in Ports : q # p => ftps'[q] = ftps[q]
  BY <1>1, RecordTypes DEF Accepted
<1>7. TypeOK'
  <2>1. [pc |-> "RECV", sess |-> s, reads |-> 0] \in FtpsType
    BY <1>2, <1>5 DEF FtpsType, Calls
  <2>2. ftps' \in [Ports -> FtpsType]
    BY <1>1, <2>1, RecordTypes DEF Accepted
  <2> QED BY <1>1, <1>2, <1>3, <2>2, WorldStays DEF TypeOK, FtpsType
<1>8. AwaitsClient(p) /\ \A q \in Ports : ftps[q].sess # s
  <2>1. AwaitsClient(p)
    BY <1>1 DEF CallInv, Binds, Accepts, Receives, AwaitsData
  <2>2. \A q \in Ports : ftps[q].sess = None \/ ftps[q].sess \in acked
    BY DEF CallInv, Binds, Accepts, Receives, AwaitsClient, AwaitsData
  <2> QED BY <1>2, <1>4, <1>5, <2>1, <2>2
<1>9. ASSUME NEW q \in Ports, q # p
      PROVE  /\ (Binds(q) \/ Accepts(q) \/ Receives(q) \/ AwaitsClient(q) \/ AwaitsData(q))'
             /\ AwaitsData(q) => AwaitsData(q)'
  BY <1>1, <1>6, <1>9, CallKept DEF CallInv
<1>10. Receives(p)'
  <2>1. Silent(p)'
    BY <1>8 DEF AwaitsClient, Awaits, Silent
  <2>2. p \in binded /\ p \notin Accepting'
    BY <1>1, <1>8 DEF AwaitsClient
  <2> QED BY <1>1, <1>4, <1>6, <2>1, <2>2 DEF Receives, Making, Silent
<1>11. CallInv'
  BY <1>5, <1>6, <1>9, <1>10, WorldStays DEF CallInv
<1>12. RecvInv'
  <2>1. ~ AwaitsData(p)
    BY <1>1 DEF AwaitsData
  <2> QED BY <1>6, <1>9, <2>1 DEF RecvInv
<1>13. HeldInv' /\ TakenInv' /\ FreshInv' /\ StreamInv'
  BY <1>1, SessionsKept
<1>14. AckedIsKept'
  <2>1. ASSUME NEW t \in Sess, Known(t) PROVE Known(t)'
    <3>1. CASE t \in acked
      BY <1>1, <3>1 DEF Known
    <3>2. CASE t = s
      BY <1>1, <3>2 DEF Known
    <3>3. CASE t # s /\ t \notin acked
      <4>1. PICK j \in 1 .. Len(waiting) : waiting[j] = t /\ j # i
        BY <2>1, <3>3 DEF Known
      <4>2. \E k \in 1 .. Len(waiting') : waiting'[k] = t
        <5>1. CASE j < i
          <6>1. j \in 1 .. Len(waiting')
            BY <1>2, <1>3, <5>1
          <6> QED BY <1>3, <4>1, <5>1, <6>1
        <5>2. CASE j > i
          <6>1. j - 1 \in 1 .. Len(waiting') /\ ~ (j - 1 < i) /\ j - 1 + 1 = j
            BY <1>2, <1>3, <5>2
          <6> QED BY <1>3, <4>1, <6>1
        <5> QED BY <1>2, <4>1, <5>1, <5>2
      <4> QED BY <4>2 DEF Known
    <3> QED BY <3>1, <3>2, <3>3
  <2> QED BY <2>1, AckedKept
<1>15. AcceptedOnce'
  <2>1. ASSUME NEW j \in 1 .. Len(waiting'), NEW k \in 1 .. Len(waiting')
        PROVE  waiting'[j] \notin acked' /\ (waiting'[j] = waiting'[k] => j = k)
    <3> DEFINE Old(n) == IF n < i THEN n ELSE n + 1
    <3>1. \A n \in 1 .. Len(waiting') :
            Old(n) \in 1 .. Len(waiting) /\ Old(n) # i /\ waiting'[n] = waiting[Old(n)]
      BY <1>2, <1>3
    <3>2. Old(j) = Old(k) => j = k
      BY <1>2
    <3> HIDE DEF Old
    <3>3. \A m, n \in 1 .. Len(waiting) :
            waiting[m] \notin acked /\ (waiting[m] = waiting[n] => m = n)
      BY <1>2 DEF AcceptedOnce
    <3>4. waiting[Old(j)] # s
      BY ONLY <1>2, <3>1, <3>3, i \in DOMAIN waiting, s = waiting[i]
    <3>5. acked' = acked \cup {s}
      BY <1>1
    <3> QED BY ONLY <3>1, <3>2, <3>3, <3>4, <3>5
  <2>2. ASSUME NEW q \in Ports, NEW r \in Ports, q # r, ftps'[q].sess = ftps'[r].sess
        PROVE  ftps'[q].sess = None
    BY <1>6, <1>8, <2>2 DEF AcceptedOnce
  <2> QED BY <2>1, <2>2 DEF AcceptedOnce
<1>16. WholeInv'
  <2>1. \A t : Stream(t)' = Stream(t)
    BY DEF Stream
  <2>2. Len(got[s]) = 0
    BY <1>4
  <2> QED BY <1>5, <1>6, <2>1, <2>2, WorldStays DEF WholeInv, Gapless
<1>17. NoExit'
  BY <1>6, WorldStays DEF NoExit
<1> QED BY <1>7, <1>11, <1>12, <1>13, <1>14, <1>15, <1>16, <1>17

\* So the answers to ACCEPTs preserve the invariant.
LEMMA AckBackIInv == IInv /\ handle_ack_back => IInv'
<1> SUFFICES ASSUME IInv, handle_ack_back PROVE IInv'
  OBVIOUS
<1>1. UNCHANGED <<world, binded, conn, inData, status, msgs, got, ackNet>>
  BY DEF handle_ack_back
<1>2. CASE \E p \in Ports, i \in DOMAIN waiting : AnswersAccept(p, i) /\ UNCHANGED todo
  BY <1>1, <1>2, AnswersAcceptIInv
<1>3. CASE todo' \subseteq todo /\ UNCHANGED <<acked, waiting, Accepting, ftps>>
  BY <1>1, <1>3, GarbledIInv
<1> QED BY <1>2, <1>3 DEF handle_ack_back

-----------------------------------------------------------------------------
(* RECVs that are answered.                                                *)

\* The next n bytes of a package, after the bytes before position end.
Bite(c, end, n) == [i \in 1 .. n |-> <<c, end + i - 1>>]

\* They come after what is in order already, and leave no gap.
LEMMA BiteProperties ==
  ASSUME NEW bytes, NEW B, bytes \in Seq(B), NEW s, NEW end \in Nat, NEW n \in Nat,
         NEW c \in Clients, Session(c) = s,
         Ordered(bytes, s, end),
         \A i \in 1 .. n : <<c, end + i - 1>> \in B
  PROVE  /\ Bite(c, end, n) \in Seq(B) /\ Len(Bite(c, end, n)) = n
         /\ bytes \o Bite(c, end, n) \in Seq(B)
         /\ Ordered(bytes \o Bite(c, end, n), s, end + n)
         /\ Gapless(bytes, end) => Gapless(bytes \o Bite(c, end, n), end + n)
<1> DEFINE bite == Bite(c, end, n)
           all == bytes \o bite
<1>1. /\ bite \in Seq(B) /\ Len(bite) = n
      /\ \A i \in 1 .. n : bite[i] = <<c, end + i - 1>>
  <2>1. bite = [i \in 1 .. n |-> <<c, end + i - 1>>]
    BY DEF Bite
  <2> HIDE DEF bite
  <2>2. bite \in [1 .. n -> B] /\ \A i \in 1 .. n : bite[i] = <<c, end + i - 1>>
    BY <2>1
  <2> QED BY <2>2
<1> HIDE DEF bite
<1>2. /\ all \in Seq(B) /\ Len(all) = Len(bytes) + n /\ Len(bytes) \in Nat
      /\ \A i \in 1 .. Len(bytes) : all[i] = bytes[i]
      /\ \A i \in Len(bytes) + 1 .. Len(all) : all[i] = bite[i - Len(bytes)]
  <2>1. /\ all \in Seq(B) /\ Len(all) = Len(bytes) + Len(bite)
        /\ \A i \in 1 .. Len(bytes) + Len(bite) :
             all[i] = IF i <= Len(bytes) THEN bytes[i] ELSE bite[i - Len(bytes)]
    BY <1>1, ConcatProperties
  <2>2. Len(bytes) \in Nat
    OBVIOUS
  <2> HIDE DEF all
  <2> QED BY <1>1, <2>1, <2>2
<1>3. \A i \in Len(bytes) + 1 .. Len(all) : all[i] = <<c, end + (i - Len(bytes)) - 1>>
  <2>1. \A i \in Len(bytes) + 1 .. Len(all) : i - Len(bytes) \in 1 .. n
    BY <1>2
  <2> QED BY <1>1, <1>2, <2>1
<1> HIDE DEF all
<1>4. Ordered(all, s, end + n)
  <2>1. ASSUME NEW i \in 1 .. Len(bytes)
        PROVE  /\ all[i][1] \in Clients /\ Session(all[i][1]) = s
               /\ all[i][2] \in Nat /\ all[i][2] < end
               /\ \A j \in 1 .. (i - 1) : all[j][2] < all[i][2]
    <3>1. \A j \in 1 .. (i - 1) : j \in 1 .. Len(bytes)
      BY <1>2
    <3>2. all[i] = bytes[i]
      BY <1>2
    <3>3. \A j \in 1 .. (i - 1) : all[j] = bytes[j]
      BY <1>2, <3>1
    <3>4. /\ bytes[i][1] \in Clients /\ Session(bytes[i][1]) = s
          /\ bytes[i][2] \in Nat /\ bytes[i][2] < end
          /\ \A j \in 1 .. (i - 1) : bytes[j][2] < bytes[i][2]
      BY DEF Ordered
    <3> HIDE DEF Session
    <3> QED BY ONLY <3>2, <3>3, <3>4
  <2>2. ASSUME NEW i \in Len(bytes) + 1 .. Len(all)
        PROVE  /\ all[i][1] \in Clients /\ Session(all[i][1]) = s
               /\ all[i][2] \in Nat /\ all[i][2] < end + n
               /\ \A j \in 1 .. (i - 1) : all[j][2] < all[i][2]
    <3>1. all[i][1] = c /\ all[i][2] = end + (i - Len(bytes)) - 1
      BY <1>3
    <3>2. ASSUME NEW j \in 1 .. (i - 1) PROVE all[j][2] < all[i][2]
      <4>1. CASE j \in 1 .. Len(bytes)
        BY <1>2, <2>1, <3>1, <4>1
      <4>2. CASE j \in Len(bytes) + 1 .. Len(all)
        BY <1>2, <1>3, <3>1, <4>2
      <4> QED BY <1>2, <4>1, <4>2
    <3> QED BY <1>2, <3>1, <3>2
  <2>3. \A i \in 1 .. Len(all) : i \in 1 .. Len(bytes) \/ i \in Len(bytes) + 1 .. Len(all)
    BY <1>2
  <2>4. \A i \in 1 .. Len(bytes) : all[i][2] < end + n
    BY <1>2, <2>1
  <2> QED BY <2>1, <2>2, <2>3, <2>4 DEF Ordered
<1>5. ASSUME Gapless(bytes, end) PROVE Gapless(all, end + n)
  <2>1. ASSUME NEW i \in 1 .. Len(all) PROVE all[i][2] = i - 1
    <3>1. CASE i \in 1 .. Len(bytes)
      BY <1>2, <1>5, <3>1 DEF Gapless
    <3>2. CASE i \in Len(bytes) + 1 .. Len(all)
      BY <1>2, <1>3, <1>5, <3>2 DEF Gapless
    <3> QED BY <1>2, <3>1, <3>2
  <2> QED BY <1>2, <1>5, <2>1 DEF Gapless
<1> QED BY <1>1, <1>2, <1>4, <1>5 DEF all, bite

\* A RECV under way is that of the ftps of one port, for what is to be read.
LEMMA RecvingPort ==
  ASSUME IInv, NEW s \in Sess, Recving(s)
  PROVE  \E p \in Ports :
           /\ ftps[p].sess = s /\ AwaitsData(p)
           /\ \A q \in Ports : ftps[q].sess = s => q = p
           /\ ftps[p].reads \in 0 .. Len(ReadLens) - 1
           /\ conn[s].ReceivingLength = ReadLens[ftps[p].reads + 1]
<1>1. PICK p \in Ports : ftps[p].sess = s /\ AwaitsData(p)
  BY DEF IInv, RecvInv, Recving
<1>2. ftps[p].reads \in 0 .. Len(ReadLens) - 1
  BY <1>1, AskedProperties DEF IInv, CallInv, TypeOK
<1>3. None \notin Sess
  BY ReceiverAssumption
<1> QED BY <1>1, <1>2, <1>3 DEF IInv, AcceptedOnce, AwaitsData

\* What Base is before, the position it is at, and what is left at it.
LEMMA FrontOfSession ==
  ASSUME IInv, NEW s \in Sess, Fills(s)
  PROVE  /\ conn[s].Base \in 0 .. Len(SendLens) - 1
         /\ Start[conn[s].Base] + conn[s].taken + PkgLen(s) = Start[conn[s].Base + 1]
         /\ PkgLen(s) \in Nat \ {0} /\ RemainSize(s) \in Nat \ {0}
         /\ \E c \in Clients :
              Session(c) = s /\ \A n \in Nat :
                Body(s, n) = Bite(c, Start[conn[s].Base] + conn[s].taken, n)
<1> USE DEF IInv
<1>1. conn[s] \in ConnType
  BY RecordTypes
<1>2. PICK b \in AtBase(s) : TRUE
  BY DEF Fills
<1> DEFINE a == CHOOSE x \in AtBase(s) : TRUE
<1>3. a \in AtBase(s)
  BY <1>2
<1>4. a \in conn[s].Packages /\ a[2] = conn[s].Base
  BY <1>3 DEF AtBase
<1>5. a \in Sent /\ Session(a[1]) = s
  BY <1>1, <1>4 DEF ConnType, HeldInv
<1>6. a[1] \in Clients /\ a[2] \in 0 .. Len(SendLens) - 1
  BY <1>5, DatagramTypes
<1>7. \A n \in Nat : Body(s, n) = Bite(a[1], Start[conn[s].Base] + conn[s].taken, n)
  BY DEF Body, Bite
<1> HIDE DEF a
<1>8. conn[s].Base \in 0 .. Len(SendLens) - 1 /\ Len(SendLens) \in Nat
  BY <1>4, <1>6, ReceiverAssumption
<1>9. /\ SendLens[conn[s].Base + 1] \in Nat \ {0}
      /\ Start[conn[s].Base + 1] = Start[conn[s].Base] + SendLens[conn[s].Base + 1]
      /\ Start[conn[s].Base] \in Nat
  BY <1>8, StartProperties
<1>10. conn[s].taken \in Nat /\ conn[s].taken < SendLens[conn[s].Base + 1]
  BY <1>1, <1>9 DEF TakenInv, ConnType
<1>11. RemainSize(s) \in Nat \ {0}
  BY <1>1 DEF Fills, RemainSize, ConnType
<1>12. PkgLen(s) = SendLens[conn[s].Base + 1] - conn[s].taken
  BY DEF PkgLen
<1>13. /\ Start[conn[s].Base] + conn[s].taken + PkgLen(s) = Start[conn[s].Base + 1]
       /\ PkgLen(s) \in Nat \ {0}
  BY ONLY <1>9, <1>10, <1>12
<1> QED BY ONLY <1>5, <1>6, <1>7, <1>8, <1>11, <1>13

\* ftps that reads whole packages asks for at least the package at Base.
LEMMA WholeFits ==
  ASSUME IInv, WholePackages, NEW s \in Sess, Fills(s)
  PROVE  PkgLen(s) <= RemainSize(s)
<1> USE DEF IInv
<1>1. PICK p \in Ports : /\ ftps[p].sess = s
                         /\ ftps[p].reads \in 0 .. Len(ReadLens) - 1
                         /\ conn[s].ReceivingLength = ReadLens[ftps[p].reads + 1]
  BY RecvingPort DEF Fills
<1>2. /\ conn[s].taken = 0 /\ Len(Stream(s)) = Start[conn[s].Base]
      /\ Len(got[s]) = Asked[ftps[p].reads]
  <2>1. s # None
    BY ReceiverAssumption
  <2> QED BY <1>1, <2>1 DEF WholeInv, Gapless
<1>3. Len(Stream(s)) = Len(got[s]) + Len(conn[s].RecvBuffer) /\ Len(conn[s].RecvBuffer) \in Nat
  BY DEF Stream, TypeOK
<1>4. Asked[ftps[p].reads + 1] = Asked[ftps[p].reads] + conn[s].ReceivingLength
  BY <1>1, AskedProperties DEF TypeOK
<1>5. Start[conn[s].Base] + RemainSize(s) = Asked[ftps[p].reads + 1]
  <2>1. conn[s].ReceivingLength \in Nat /\ Asked[ftps[p].reads] \in Nat
    BY <1>1, AskedProperties DEF TypeOK
  <2> QED BY <1>2, <1>3, <1>4, <2>1 DEF RemainSize
<1>6. PICK k \in 0 .. Len(SendLens) : Asked[ftps[p].reads + 1] = Start[k]
  <2>1. ftps[p].reads + 1 \in 1 .. Len(ReadLens)
    <3>1. world \in Worlds
      BY DEF TypeOK
    <3> QED BY ONLY <1>1, <3>1, AskedProperties
  <2>2. DOMAIN Start = 0 .. Len(SendLens)
    BY StartProperties
  <2> QED BY <2>1, <2>2 DEF WholePackages
<1>7. /\ conn[s].Base \in 0 .. Len(SendLens) - 1
      /\ Start[conn[s].Base] + PkgLen(s) = Start[conn[s].Base + 1]
      /\ PkgLen(s) \in Nat \ {0} /\ RemainSize(s) \in Nat \ {0}
  BY <1>2, FrontOfSession, StartProperties
<1>8. /\ Start[conn[s].Base] \in Nat /\ Start[k] \in Nat /\ Start[conn[s].Base + 1] \in Nat
      /\ k <= conn[s].Base => Start[k] <= Start[conn[s].Base]
      /\ conn[s].Base + 1 <= k => Start[conn[s].Base + 1] <= Start[k]
  <2>1. Len(SendLens) \in Nat
    BY ReceiverAssumption
  <2>2. conn[s].Base \in 0 .. Len(SendLens) /\ conn[s].Base + 1 \in 0 .. Len(SendLens)
    BY ONLY <1>7, <2>1
  <2> QED BY ONLY <1>6, <2>2, StartProperties
<1>9. conn[s].Base + 1 <= k
  BY <1>5, <1>6, <1>7, <1>8
<1> QED BY <1>5, <1>6, <1>7, <1>8, <1>9

\* What a step does to the package or the buffer of one RECV under way keeps
\* the calls, the acceptances and the other sessions.
LEMMA CopyKept ==
  ASSUME IInv, NEW s \in Sess, Recving(s),
         UNCHANGED <<world, binded, Accepting, waiting, acked, todo, inData, status,
                     msgs, ftps, got, ackNet>>,
         conn' \in [Sess -> ConnType],
         \A t \in Sess : t # s => conn'[t] = conn[t],
         conn'[s].ReceivingLength = conn[s].ReceivingLength
  PROVE  /\ TypeOK' /\ CallInv' /\ FreshInv' /\ AcceptedOnce' /\ NoExit'
         /\ \A p \in Ports : AwaitsData(p) => AwaitsData(p)'
         /\ \A t \in Sess : t # s => Stream(t)' = Stream(t)
<1> USE DEF IInv
<1>1. TypeOK'
  BY WorldStays DEF TypeOK, ConnType
<1>2. \A t \in Sess : conn'[t].ReceivingLength = conn[t].ReceivingLength
  OBVIOUS
<1>3. \A p \in Ports : AwaitsData(p) => AwaitsData(p)'
  BY <1>2, CallKept DEF TypeOK
<1>4. CallInv'
  BY <1>2, CallKept, WorldStays DEF CallInv, TypeOK
<1>5. FreshInv'
  BY DEF FreshInv, Recving
<1>6. AcceptedOnce' /\ NoExit'
  BY WorldStays DEF AcceptedOnce, NoExit
<1>7. \A t \in Sess : t # s => Stream(t)' = Stream(t)
  BY DEF Stream
<1> QED BY <1>1, <1>3, <1>4, <1>5, <1>6, <1>7

\* A record of a session stays one.
LEMMA ConnUpdate ==
  ASSUME NEW r \in ConnType, NEW b, b \in Seq(Bytes), NEW h, h \in SUBSET Sent,
         NEW k \in 0 .. Len(SendLens)
  PROVE  [r EXCEPT !.RecvBuffer = b, !.Packages = h, !.Base = k, !.taken = 0] \in ConnType
  BY DEF ConnType

\* A package that fits is copied whole.
LEMMA TakesIInv ==
  ASSUME IInv, NEW s \in Sess, TakesPackage(s),
         UNCHANGED <<world, binded, Accepting, waiting, acked, todo, inData, status,
                     msgs, ftps, got, ackNet>>
  PROVE  IInv'
<1> USE DEF IInv
<1> DEFINE n == PkgLen(s)
           end == Start[conn[s].Base] + conn[s].taken
<1>1. /\ conn[s].Base \in 0 .. Len(SendLens) - 1 /\ Len(SendLens) \in Nat
      /\ n \in Nat \ {0} /\ end \in Nat /\ end + n = Start[conn[s].Base + 1]
      /\ n <= RemainSize(s)
      /\ conn[s] \in ConnType
  <2>1. conn[s] \in ConnType
    BY RecordTypes
  <2>2. conn[s].Base \in 0 .. Len(SendLens) - 1 /\ Len(SendLens) \in Nat /\ conn[s].taken \in Nat
    BY <2>1, FrontOfSession, ReceiverAssumption DEF TakesPackage, ConnType
  <2>3. Start[conn[s].Base] \in Nat
    BY <2>2, StartProperties
  <2>4. n <= RemainSize(s)
    BY DEF TakesPackage
  <2>5. n \in Nat \ {0} /\ Start[conn[s].Base] + conn[s].taken + n = Start[conn[s].Base + 1]
    BY FrontOfSession DEF TakesPackage
  <2> QED BY ONLY <2>1, <2>2, <2>3, <2>4, <2>5
<1>2. PICK c \in Clients : Session(c) = s /\ Body(s, n) = Bite(c, end, n)
  BY <1>1, FrontOfSession DEF TakesPackage
<1>3. \A i \in 1 .. n : <<c, end + i - 1>> \in Bytes
  <2>1. Start[conn[s].Base + 1] <= Start[Len(SendLens)] /\ Start[Len(SendLens)] \in Nat
    BY ONLY <1>1, StartProperties
  <2>2. \A i \in 1 .. n : end + i - 1 \in 0 .. Start[Len(SendLens)] - 1
    BY <1>1, <2>1
  <2> QED BY <2>2 DEF Bytes
<1>4. /\ conn'[s] = [conn[s] EXCEPT !.RecvBuffer = @ \o Body(s, n), !.Packages = @ \ AtBase(s),
                                    !.Base = @ + 1, !.taken = 0]
      /\ \A t \in Sess : t # s => conn'[t] = conn[t]
  <2>1. conn' = [conn EXCEPT ![s] = PackageTaken(s)]
    BY DEF TakesPackage
  <2>2. conn'[s] = PackageTaken(s) /\ \A t \in Sess : t # s => conn'[t] = conn[t]
    BY <2>1, RecordTypes
  <2> QED BY <2>2 DEF PackageTaken
<1> HIDE DEF n, end
<1>5. Ordered(Stream(s), s, end) /\ Stream(s) \in Seq(Bytes \cup {JunkByte})
  BY DEF StreamInv, Stream, TypeOK, end
<1>6. /\ Bite(c, end, n) \in Seq(Bytes) /\ Len(Bite(c, end, n)) = n
      /\ Ordered(Stream(s) \o Bite(c, end, n), s, end + n)
      /\ Gapless(Stream(s), end) => Gapless(Stream(s) \o Bite(c, end, n), end + n)
  <2>1. \A i \in 1 .. n : <<c, end + i - 1>> \in Bytes \cup {JunkByte}
    BY <1>3
  <2>2. /\ Ordered(Stream(s) \o Bite(c, end, n), s, end + n)
        /\ Gapless(Stream(s), end) => Gapless(Stream(s) \o Bite(c, end, n), end + n)
    BY <1>1, <1>2, <1>5, <2>1, BiteProperties
  <2>3. Bite(c, end, n) \in [1 .. n -> Bytes]
    BY <1>3 DEF Bite
  <2> QED BY <1>1, <2>2, <2>3
<1>7. /\ conn'[s].RecvBuffer = conn[s].RecvBuffer \o Bite(c, end, n)
      /\ conn'[s].Packages = conn[s].Packages \ AtBase(s)
      /\ conn'[s].Base = conn[s].Base + 1 /\ conn'[s].taken = 0
      /\ conn'[s].ReceivingLength = conn[s].ReceivingLength
      /\ conn' \in [Sess -> ConnType]
  <2>1. /\ conn'[s].RecvBuffer = conn[s].RecvBuffer \o Bite(c, end, n)
        /\ conn'[s].Packages = conn[s].Packages \ AtBase(s)
        /\ conn'[s].Base = conn[s].Base + 1 /\ conn'[s].taken = 0
        /\ conn'[s].ReceivingLength = conn[s].ReceivingLength
        /\ conn'[s].SocketFD = conn[s].SocketFD
    BY <1>1, <1>2, <1>4 DEF ConnType
  <2>2. conn[s].RecvBuffer \o Bite(c, end, n) \in Seq(Bytes)
    BY <1>1, <1>6 DEF ConnType
  <2>3. PackageTaken(s) \in ConnType
    <3>1. conn[s].Packages \ AtBase(s) \in SUBSET Sent /\ conn[s].Base + 1 \in 0 .. Len(SendLens)
      BY <1>1 DEF ConnType
    <3>2. conn[s].RecvBuffer \o Body(s, PkgLen(s)) \in Seq(Bytes)
      BY <1>2, <2>2 DEF n
    <3> DEFINE b == conn[s].RecvBuffer \o Body(s, PkgLen(s))
               h == conn[s].Packages \ AtBase(s)
               k == conn[s].Base + 1
    <3>3. PackageTaken(s) = [conn[s] EXCEPT !.RecvBuffer = b, !.Packages = h, !.Base = k, !.taken = 0]
      BY DEF PackageTaken
    <3>4. b \in Seq(Bytes) /\ h \in SUBSET Sent /\ k \in 0 .. Len(SendLens) /\ conn[s] \in ConnType
      BY <1>1, <3>1, <3>2
    <3> HIDE DEF b, h, k
    <3>5. ASSUME NEW r \in ConnType
          PROVE  [r EXCEPT !.RecvBuffer = b, !.Packages = h, !.Base = k, !.taken = 0] \in ConnType
      BY ONLY <3>4, <3>5, ConnUpdate, Zenon
    <3> QED BY ONLY <3>3, <3>4, <3>5, Zenon
  <2>4. conn' = [conn EXCEPT ![s] = PackageTaken(s)]
    BY DEF TakesPackage
  <2> QED BY <2>1, <2>3, <2>4, RecordTypes
<1>8. Recving(s)
  BY DEF TakesPackage, Fills
<1>9. /\ TypeOK' /\ CallInv' /\ FreshInv' /\ AcceptedOnce' /\ NoExit'
      /\ \A p \in Ports : AwaitsData(p) => AwaitsData(p)'
      /\ \A t \in Sess : t # s => Stream(t)' = Stream(t)
  BY <1>4, <1>7, <1>8, CopyKept
<1>10. RecvInv'
  <2>1. Len(conn'[s].RecvBuffer) <= conn'[s].ReceivingLength
    <3>1. conn[s].ReceivingLength \in Nat
      BY ONLY <1>1 DEF ConnType
    <3> QED BY ONLY <1>1, <1>6, <1>7, <3>1 DEF RemainSize
  <2> QED BY <1>4, <1>7, <1>9, <2>1 DEF RecvInv
<1>11. HeldInv'
  <2>1. ASSUME NEW a \in conn'[s].Packages PROVE a[2] # conn[s].Base /\ a[2] \in Int
    <3>1. a \in conn[s].Packages /\ a \notin AtBase(s)
      BY ONLY <1>7, <2>1
    <3>2. a \in Sent
      BY ONLY <1>1, <3>1 DEF ConnType
    <3>3. a[2] \in Int
      BY <3>2, DatagramTypes
    <3> QED BY ONLY <3>1, <3>3 DEF AtBase
  <2>2. ASSUME NEW a \in conn'[s].Packages
        PROVE  /\ Session(a[1]) = s /\ conn'[s].Base <= a[2]
               /\ \A b \in conn'[s].Packages : a[2] = b[2] => a = b
    BY <1>1, <1>7, <2>1, <2>2 DEF HeldInv
  <2>3. ASSUME NEW t \in Sess, t # s, NEW a \in conn'[t].Packages
        PROVE  /\ Session(a[1]) = t /\ conn'[t].Base <= a[2]
               /\ \A b \in conn'[t].Packages : a[2] = b[2] => a = b
    BY <1>4, <2>3 DEF HeldInv
  <2> QED BY <2>2, <2>3, WorldStays DEF HeldInv
<1>12. TakenInv'
  BY <1>4, <1>7 DEF TakenInv
<1>13. AckedIsKept'
  <2>1. ASSUME NEW b \in ackNet, NEW t \in Sess, Session(b[1]) = t
        PROVE  Known(t)' /\ (b[2] < conn'[t].Base \/ Holds(t, b[2])')
    <3>1. Known(t) /\ (b[2] < conn[t].Base \/ Holds(t, b[2])) /\ b[2] \in Nat
      BY <2>1, KeptIsHeld, DatagramTypes
    <3>2. CASE t = s
      <4>1. Holds(s, b[2]) => b[2] = conn[s].Base \/ Holds(s, b[2])'
        BY <1>7 DEF Holds, AtBase
      <4> QED BY <1>1, <1>7, <3>1, <3>2, <4>1 DEF Known
    <3>3. CASE t # s
      BY <1>4, <3>1, <3>3 DEF Known, Holds
    <3> QED BY <3>2, <3>3
  <2> QED BY <1>11, <2>1, HeldIsKept, DatagramTypes
<1>14. Stream(s)' = Stream(s) \o Bite(c, end, n)
  <2>1. got[s] \in Seq(Bytes \cup {JunkByte}) /\ conn[s].RecvBuffer \in Seq(Bytes \cup {JunkByte})
    BY <1>1 DEF TypeOK, ConnType
  <2>2. Bite(c, end, n) \in Seq(Bytes \cup {JunkByte})
    BY <1>6
  <2>3. got[s] \o (conn[s].RecvBuffer \o Bite(c, end, n)) =
          (got[s] \o conn[s].RecvBuffer) \o Bite(c, end, n)
    <3> DEFINE B == Bytes \cup {JunkByte}
               x == got[s]
               y == conn[s].RecvBuffer
               z == Bite(c, end, n)
    <3>1. x \in Seq(B) /\ y \in Seq(B) /\ z \in Seq(B)
      BY <2>1, <2>2
    <3> HIDE DEF B, x, y, z
    <3>2. x \o (y \o z) = (x \o y) \o z
      BY <3>1, ConcatAssociative
    <3> QED BY <3>2 DEF x, y, z
  <2> QED BY <1>7, <2>3 DEF Stream
<1>15. end + n = Start[conn'[s].Base] + conn'[s].taken
  BY <1>1, <1>7, StartProperties
<1>16. StreamInv'
  <2>1. Ordered(Stream(s), s, Start[conn[s].Base] + conn[s].taken)'
    BY <1>6, <1>14, <1>15, WorldStays DEF Ordered
  <2>2. \A t \in Sess : t # s => Ordered(Stream(t), t, Start[conn[t].Base] + conn[t].taken)'
    BY <1>4, <1>9, WorldStays DEF StreamInv, Ordered
  <2> QED BY <2>1, <2>2 DEF StreamInv
<1>17. WholeInv'
  <2>1. ASSUME WholePackages PROVE Gapless(Stream(s), Start[conn[s].Base])'
    <3>1. end = Start[conn[s].Base] /\ Gapless(Stream(s), end)
      <4>1. conn[s].taken = 0 /\ Start[conn[s].Base] \in Nat
        BY <1>1, <2>1, StartProperties DEF WholeInv
      <4> QED BY <2>1, <4>1 DEF WholeInv, end
    <3>2. end + n = Start[conn'[s].Base]
      BY <1>1, <1>7
    <3> QED BY <1>6, <1>14, <3>1, <3>2 DEF Gapless
  <2>2. ASSUME WholePackages, NEW t \in Sess, t # s
        PROVE  conn'[t].taken = 0 /\ Gapless(Stream(t), Start[conn[t].Base])'
    BY <1>4, <1>9, <2>2 DEF WholeInv, Gapless
  <2> QED BY <1>7, <2>1, <2>2, WorldStays DEF WholeInv
<1> QED BY <1>9, <1>10, <1>11, <1>12, <1>13, <1>16, <1>17


\* Of a package that does not fit only its offset moves: what it is cut by is
\* no byte of the stream.
LEMMA CutsIInv ==
  ASSUME IInv, NEW s \in Sess, CutsPackage(s),
         UNCHANGED <<world, binded, Accepting, waiting, acked, todo, inData, status,
                     msgs, ftps, got, ackNet>>
  PROVE  IInv'
<1> USE DEF IInv
<1>1. /\ conn[s].Base \in 0 .. Len(SendLens) - 1
      /\ PkgLen(s) \in Nat /\ RemainSize(s) \in Nat \ {0}
      /\ PkgLen(s) > RemainSize(s) /\ Recving(s)
      /\ conn[s] \in ConnType /\ Len(SendLens) \in Nat
  BY FrontOfSession, RecordTypes, ReceiverAssumption DEF CutsPackage, Fills
<1>2. /\ \A t \in Sess : t # s => conn'[t] = conn[t]
      /\ conn'[s] = [conn[s] EXCEPT !.taken = @ + RemainSize(s)]
  BY RecordTypes DEF CutsPackage
<1>3. /\ conn'[s].RecvBuffer = conn[s].RecvBuffer /\ conn'[s].Packages = conn[s].Packages
      /\ conn'[s].Base = conn[s].Base /\ conn'[s].taken = conn[s].taken + RemainSize(s)
      /\ conn'[s].ReceivingLength = conn[s].ReceivingLength
      /\ conn'[s] \in ConnType
  <2>1. conn[s].taken + RemainSize(s) \in Nat
    BY ONLY <1>1 DEF ConnType
  <2> HIDE DEF RemainSize
  <2> QED BY ONLY <1>1, <1>2, <2>1 DEF ConnType
<1>4. conn' \in [Sess -> ConnType]
  <2>1. conn' = [conn EXCEPT ![s] = conn'[s]]
    BY <1>2, RecordTypes DEF CutsPackage
  <2> QED BY <1>3, <2>1, RecordTypes
<1>5. /\ TypeOK' /\ CallInv' /\ FreshInv' /\ AcceptedOnce' /\ NoExit'
      /\ \A p \in Ports : AwaitsData(p) => AwaitsData(p)'
      /\ \A t \in Sess : t # s => Stream(t)' = Stream(t)
  BY <1>1, <1>2, <1>3, <1>4, CopyKept
<1>6. RecvInv'
  BY <1>2, <1>3, <1>5 DEF RecvInv
<1>7. HeldInv'
  <2>1. \A t \in Sess : conn'[t].Packages = conn[t].Packages /\ conn'[t].Base = conn[t].Base
    BY <1>2, <1>3
  <2> QED BY <2>1, WorldStays DEF HeldInv
<1>8. TakenInv'
  <2>1. conn[s].Base < Len(SendLens) /\ conn'[s].taken < SendLens[conn[s].Base + 1]
    <3>1. SendLens[conn[s].Base + 1] \in Nat /\ conn[s].taken \in Nat
      BY <1>1, StartProperties DEF ConnType
    <3>2. SendLens[conn[s].Base + 1] - conn[s].taken > RemainSize(s) /\ RemainSize(s) \in Nat
      BY <1>1 DEF PkgLen
    <3>3. conn[s].Base < Len(SendLens)
      BY <1>1
    <3>4. conn[s].taken + RemainSize(s) < SendLens[conn[s].Base + 1]
      BY ONLY <3>1, <3>2
    <3> QED BY <1>3, <3>3, <3>4
  <2> QED BY <1>2, <1>3, <2>1 DEF TakenInv
<1>9. AckedIsKept'
  <2>1. \A t \in Sess : conn'[t].Packages = conn[t].Packages /\ conn'[t].Base = conn[t].Base
    BY <1>2, <1>3
  <2>2. ASSUME NEW b \in ackNet, NEW t \in Sess, Session(b[1]) = t
        PROVE  Known(t)' /\ (b[2] < conn'[t].Base \/ Holds(t, b[2])')
    BY <2>1, <2>2, KeptIsHeld DEF Known, Holds
  <2> QED BY <1>7, <2>2, HeldIsKept, DatagramTypes
<1>10. StreamInv'
  <2>1. Stream(s)' = Stream(s)
    BY <1>3 DEF Stream
  <2>2. Ordered(Stream(s), s, Start[conn[s].Base] + conn[s].taken)'
    <3>1. /\ Ordered(Stream(s), s, Start[conn[s].Base] + conn[s].taken)
          /\ Start[conn[s].Base] \in Nat /\ conn[s].taken \in Nat
      BY <1>1, StartProperties DEF StreamInv, ConnType
    <3>2. \A k \in Nat : k < Start[conn[s].Base] + conn[s].taken =>
                         k < Start[conn'[s].Base] + conn'[s].taken
      <4>1. RemainSize(s) \in Nat
        BY <1>1
      <4>2. \A k \in Nat : k < Start[conn[s].Base] + conn[s].taken =>
                           k < Start[conn[s].Base] + (conn[s].taken + RemainSize(s))
        BY ONLY <3>1, <4>1
      <4> QED BY <1>3, <4>2
    <3> QED BY <2>1, <3>1, <3>2, WorldStays DEF Ordered
  <2>3. \A t \in Sess : t # s => Ordered(Stream(t), t, Start[conn[t].Base] + conn[t].taken)'
    BY <1>2, <1>5, WorldStays DEF StreamInv, Ordered
  <2> QED BY <2>2, <2>3 DEF StreamInv
<1>11. WholeInv'
  <2>1. ~ WholePackages
    BY <1>1, WholeFits DEF CutsPackage
  <2> QED BY <2>1, WorldStays DEF WholeInv
<1> QED BY <1>5, <1>6, <1>7, <1>8, <1>9, <1>10, <1>11


\* A RECV whose buffer is full hands it to its ftps, which asks for more or
\* turns to the next client.
LEMMA AnswersRecvIInv ==
  ASSUME IInv, NEW s \in Sess, AnswersRecv(s),
         UNCHANGED <<world, binded, Accepting, waiting, acked, todo, inData, status,
                     msgs, ackNet>>
  PROVE  IInv'
<1> USE DEF IInv
<1>1. PICK p \in Ports : ftps[p].sess = s /\ RecvReturns(p, conn[s].RecvBuffer)
  BY DEF AnswersRecv
<1>2. /\ AwaitsData(p) /\ \A q \in Ports : ftps[q].sess = s => q = p
      /\ ftps[p].reads \in 0 .. Len(ReadLens) - 1
      /\ conn[s].ReceivingLength = ReadLens[ftps[p].reads + 1]
      /\ s \in acked /\ s # None
  BY <1>1, RecvingPort, ReceiverAssumption DEF AnswersRecv, Recving
<1>3. /\ conn[s] \in ConnType /\ ftps[p] \in FtpsType
      /\ Len(conn[s].RecvBuffer) = conn[s].ReceivingLength
      /\ Len(ReadLens) \in Nat
  <2>1. conn[s] \in ConnType /\ ftps[p] \in FtpsType /\ Len(ReadLens) \in Nat
    <3>1. ReadLens \in Seq(Nat \ {0})
      BY AskedProperties DEF TypeOK
    <3> QED BY <3>1, RecordTypes
  <2>2. RemainSize(s) = 0
    BY DEF AnswersRecv
  <2> QED BY <2>1, <2>2 DEF RemainSize, ConnType
<1>4. /\ conn' = [conn EXCEPT ![s].RecvBuffer = <<>>, ![s].ReceivingLength = 0]
      /\ got' = [got EXCEPT ![s] = @ \o conn[s].RecvBuffer]
      /\ ftps' = [ftps EXCEPT ![p] = AfterRecv(ftps[p])]
  BY <1>1 DEF AnswersRecv, RecvReturns
<1>5. /\ \A t \in Sess : t # s => conn'[t] = conn[t] /\ got'[t] = got[t]
      /\ conn'[s] = [conn[s] EXCEPT !.RecvBuffer = <<>>, !.ReceivingLength = 0]
      /\ got'[s] = got[s] \o conn[s].RecvBuffer
      /\ ftps'[p] = AfterRecv(ftps[p])
      /\ \A q \in Ports : q # p => ftps'[q] = ftps[q]
  BY <1>4, RecordTypes DEF TypeOK
<1>6. /\ conn'[s].RecvBuffer = <<>> /\ conn'[s].ReceivingLength = 0
      /\ \A t \in Sess : /\ conn'[t].Packages = conn[t].Packages
                         /\ conn'[t].Base = conn[t].Base
                         /\ conn'[t].taken = conn[t].taken
      /\ conn' \in [Sess -> ConnType]
  <2>1. /\ conn'[s].RecvBuffer = <<>> /\ conn'[s].ReceivingLength = 0
        /\ conn'[s].Packages = conn[s].Packages /\ conn'[s].Base = conn[s].Base
        /\ conn'[s].taken = conn[s].taken
    BY <1>3, <1>5 DEF ConnType
  <2>2. conn'[s] \in ConnType
    <3>1. <<>> \in Seq(Bytes) /\ 0 \in Nat
      OBVIOUS
    <3> QED BY <1>3, <1>5, <3>1 DEF ConnType
  <2>3. conn' = [conn EXCEPT ![s] = conn'[s]]
    BY <1>4, <1>5, RecordTypes
  <2> QED BY <1>5, <2>1, <2>2, <2>3, RecordTypes
<1>7. \/ /\ ftps[p].reads + 1 < Len(ReadLens)
         /\ ftps'[p].pc = "RECV" /\ ftps'[p].sess = s /\ ftps'[p].reads = ftps[p].reads + 1
         /\ ftps'[p] \in FtpsType
      \/ /\ ftps'[p].pc = "ACCEPT" /\ ftps'[p].sess = None /\ ftps'[p].reads = 0
         /\ ftps'[p] \in FtpsType
  <2>1. CASE ftps[p].reads + 1 < Len(ReadLens)
    <3>1. ftps'[p] = [ftps[p] EXCEPT !.pc = "RECV", !.reads = @ + 1]
      BY <1>5, <2>1 DEF AfterRecv
    <3>2. ftps[p].reads + 1 \in 0 .. Len(ReadLens) /\ "RECV" \in Calls
      BY <1>2, <1>3, <2>1 DEF Calls
    <3> QED BY <1>1, <1>3, <2>1, <3>1, <3>2 DEF FtpsType
  <2>2. CASE ~ (ftps[p].reads + 1 < Len(ReadLens))
    <3>1. ftps'[p] = [pc |-> "ACCEPT", sess |-> None, reads |-> 0]
      BY <1>5, <2>2 DEF AfterRecv
    <3>2. 0 \in 0 .. Len(ReadLens) /\ "ACCEPT" \in Calls
      BY <1>3 DEF Calls
    <3> QED BY <3>1, <3>2 DEF FtpsType
  <2> QED BY <2>1, <2>2
<1>8. ftps'[p].reads < Len(ReadLens)
  BY <1>2, <1>3, <1>7
<1>9. TypeOK'
  <2>1. ftps' \in [Ports -> FtpsType]
    BY <1>5, <1>4, <1>7, RecordTypes
  <2>2. got' \in [Sess -> Seq(Bytes \cup {JunkByte})]
    <3>1. conn[s].RecvBuffer \in Seq(Bytes \cup {JunkByte})
      BY <1>3 DEF ConnType
    <3>2. got[s] \o conn[s].RecvBuffer \in Seq(Bytes \cup {JunkByte})
      BY <3>1 DEF TypeOK
    <3> QED BY <1>4, <3>2 DEF TypeOK
  <2> QED BY <1>6, <2>1, <2>2, WorldStays DEF TypeOK, ConnType, FtpsType
<1>10. ASSUME NEW q \in Ports, q # p
       PROVE  /\ (Binds(q) \/ Accepts(q) \/ Receives(q) \/ AwaitsClient(q) \/ AwaitsData(q))'
              /\ AwaitsData(q) => AwaitsData(q)'
  <2>1. ftps[q].sess \in acked => conn'[ftps[q].sess] = conn[ftps[q].sess]
    BY <1>2, <1>5, <1>10 DEF TypeOK
  <2> QED BY <1>5, <1>10, <2>1, CallKept DEF CallInv
<1>11. Receives(p)' \/ Accepts(p)'
  <2>1. Silent(p)' /\ p \in binded' \ Accepting' /\ s \in acked'
    BY <1>2 DEF AwaitsData, Awaits, Silent
  <2> QED BY <1>6, <1>7, <2>1 DEF Receives, Accepts, Making
<1>12. CallInv'
  BY <1>5, <1>8, <1>10, <1>11, WorldStays DEF CallInv
<1>13. RecvInv'
  <2>1. ASSUME NEW t \in Sess, t # s
        PROVE  /\ conn'[t].ReceivingLength > 0 =>
                    \E q \in Ports : ftps'[q].sess = t /\ AwaitsData(q)'
               /\ Len(conn'[t].RecvBuffer) <= conn'[t].ReceivingLength
    BY <1>1, <1>5, <1>10, <2>1 DEF RecvInv
  <2>2. Len(conn'[s].RecvBuffer) <= 0 /\ ~ (conn'[s].ReceivingLength > 0)
    BY <1>6
  <2> QED BY <1>6, <2>1, <2>2 DEF RecvInv
<1>14. HeldInv' /\ TakenInv'
  BY <1>6, WorldStays DEF HeldInv, TakenInv
<1>15. FreshInv'
  BY <1>2, <1>5 DEF FreshInv
<1>16. AckedIsKept'
  <2>1. ASSUME NEW b \in ackNet, NEW t \in Sess, Session(b[1]) = t
        PROVE  Known(t)' /\ (b[2] < conn'[t].Base \/ Holds(t, b[2])')
    BY <1>6, <2>1, KeptIsHeld DEF Known, Holds
  <2> QED BY <1>14, <2>1, HeldIsKept, DatagramTypes
<1>17. AcceptedOnce'
  BY <1>1, <1>5, <1>7 DEF AcceptedOnce
<1>18. \A t \in Sess : Stream(t)' = Stream(t)
  <2>1. got[s] \o conn[s].RecvBuffer \in Seq(Bytes \cup {JunkByte})
    <3>1. conn[s].RecvBuffer \in Seq(Bytes \cup {JunkByte})
      BY <1>3 DEF ConnType
    <3> QED BY <3>1 DEF TypeOK
  <2>2. (got[s] \o conn[s].RecvBuffer) \o <<>> = got[s] \o conn[s].RecvBuffer
    BY <2>1
  <2> QED BY <1>5, <1>6, <2>2 DEF Stream
<1>19. StreamInv'
  BY <1>6, <1>18, WorldStays DEF StreamInv, Ordered
<1>20. WholeInv'
  <2>1. ASSUME WholePackages
        PROVE  \A t \in Sess : conn'[t].taken = 0 /\ Gapless(Stream(t), Start[conn[t].Base])'
    BY <1>6, <1>18, <2>1 DEF WholeInv, Gapless
  <2>2. ASSUME WholePackages PROVE Len(got'[s]) = Asked[ftps[p].reads + 1]
    <3>1. Len(got'[s]) = Len(got[s]) + conn[s].ReceivingLength
      <4>1. /\ got[s] \in Seq(Bytes \cup {JunkByte})
            /\ conn[s].RecvBuffer \in Seq(Bytes \cup {JunkByte})
        BY <1>3 DEF TypeOK, ConnType
      <4>2. Len(got[s] \o conn[s].RecvBuffer) = Len(got[s]) + Len(conn[s].RecvBuffer)
        BY ONLY <4>1
      <4> QED BY <1>3, <1>5, <4>2
    <3>2. Len(got[s]) = Asked[ftps[p].reads]
      BY <1>1, <1>2, <2>2 DEF WholeInv
    <3> QED BY <1>2, <3>1, <3>2, AskedProperties DEF TypeOK
  <2>3. ASSUME WholePackages, NEW q \in Ports, ftps'[q].sess # None
        PROVE  Len(got'[ftps'[q].sess]) = Asked[ftps'[q].reads]
    <3>1. CASE q = p
      BY <1>7, <2>2, <2>3, <3>1
    <3>2. CASE q # p
      <4>1. ftps'[q] = ftps[q] /\ ftps[q].sess \in Sess /\ ftps[q].sess # s
        <5>1. ftps'[q] = ftps[q]
          BY <1>5, <3>2
        <5>2. ftps[q].sess # None
          BY <2>3, <5>1
        <5>3. ftps[q] \in FtpsType
          BY RecordTypes
        <5>4. ftps[q].sess \in Sess
          BY ONLY <5>2, <5>3 DEF FtpsType
        <5> QED BY <1>2, <3>2, <5>1, <5>4
      <4>2. got'[ftps[q].sess] = got[ftps[q].sess]
        BY <1>5, <4>1
      <4>3. Len(got[ftps[q].sess]) = Asked[ftps[q].reads]
        BY <2>3, <4>1 DEF WholeInv
      <4> QED BY <4>1, <4>2, <4>3
    <3> QED BY <3>1, <3>2
  <2> QED BY <2>1, <2>3, WorldStays DEF WholeInv
<1>21. NoExit'
  <2>1. \A q \in Ports : ftps[q].pc # "exited" => ftps'[q].pc # "exited"
    BY <1>5, <1>7
  <2> QED BY <2>1, WorldStays DEF NoExit
<1> QED BY <1>9, <1>12, <1>13, <1>14, <1>15, <1>16, <1>17, <1>19, <1>20, <1>21


\* A RECV that is too long ends a daemon that was promised none.
LEMMA TooLongIInv ==
  ASSUME IInv, NEW s \in Sess, TooLong(s), status' = "exited",
         UNCHANGED <<world, binded, Accepting, waiting, acked, conn, todo, inData,
                     msgs, ftps, got, ackNet>>
  PROVE  IInv'
<1> USE DEF IInv
<1>1. PICK p \in Ports : /\ ftps[p].reads \in 0 .. Len(ReadLens) - 1
                         /\ conn[s].ReceivingLength = ReadLens[ftps[p].reads + 1]
  BY RecvingPort DEF TooLong
<1>2. ~ \A n \in 1 .. Len(ReadLens) : ReadLens[n] <= BUF_LEN
  <2>1. ReadLens \in Seq(Nat \ {0})
    BY AskedProperties DEF TypeOK
  <2>2. ftps[p].reads + 1 \in 1 .. Len(ReadLens)
    <3>1. Len(ReadLens) \in Nat
      BY <2>1
    <3> QED BY <1>1, <3>1
  <2>3. ReadLens[ftps[p].reads + 1] \in Nat /\ BUF_LEN \in Nat
    BY <2>1, <2>2, ReceiverAssumption
  <2>4. ReadLens[ftps[p].reads + 1] > BUF_LEN
    BY <1>1 DEF TooLong
  <2>5. ~ (ReadLens[ftps[p].reads + 1] <= BUF_LEN)
    BY ONLY <2>3, <2>4, ReceiverAssumption
  <2> QED BY <2>2, <2>5
<1>3. NoExit'
  BY <1>2, WorldStays DEF NoExit
<1>4. TypeOK'
  BY WorldStays DEF TypeOK
<1>5. \A q \in Ports : AwaitsData(q) => AwaitsData(q)'
  BY CallKept
<1>6. CallInv' /\ RecvInv'
  BY <1>5, CallKept, WorldStays DEF CallInv, RecvInv
<1>7. HeldInv' /\ TakenInv' /\ FreshInv' /\ StreamInv'
  BY SessionsKept
<1>8. AckedIsKept' /\ WholeInv'
  BY AckedKept, WholeKept DEF Known
<1>9. AcceptedOnce'
  BY DEF AcceptedOnce
<1> QED BY <1>3, <1>4, <1>6, <1>7, <1>8, <1>9

\* So the answers to RECVs preserve the invariant.
LEMMA RecvBackIInv == IInv /\ handle_recv_back => IInv'
<1> SUFFICES ASSUME IInv, handle_recv_back PROVE IInv'
  OBVIOUS
<1>1. UNCHANGED <<world, binded, Accepting, waiting, acked, inData, msgs, ackNet>>
  BY DEF handle_recv_back
<1>2. ASSUME NEW s \in Sess, TakesPackage(s) \/ CutsPackage(s), UNCHANGED <<ftps, got, todo, status>>
      PROVE  IInv'
  BY <1>1, <1>2, TakesIInv, CutsIInv
<1>3. ASSUME NEW s \in Sess, AnswersRecv(s), UNCHANGED <<todo, status>>
      PROVE  IInv'
  BY <1>1, <1>3, AnswersRecvIInv
<1>4. ASSUME NEW s \in Sess, TooLong(s), status' = "exited", UNCHANGED <<conn, ftps, got, todo>>
      PROVE  IInv'
  BY <1>1, <1>4, TooLongIInv
<1>5. CASE todo' = {} /\ UNCHANGED <<conn, ftps, got, status>>
  BY <1>1, <1>5, GarbledIInv
<1> QED BY <1>2, <1>3, <1>4, <1>5 DEF handle_recv_back

-----------------------------------------------------------------------------
(* The invariant of the specification, and what follows from it.           *)

\* Every step of the daemon and of its ftps preserves the invariant.
LEMMA NextIInv == IInv /\ [Next]_vars => IInv'
<1> SUFFICES ASSUME IInv, [Next]_vars PROVE IInv'
  OBVIOUS
<1>1. CASE Select
  BY <1>1, SelectIInv
<1>2. CASE process_tcpd_message
  BY <1>2, MessageIInv
<1>3. ASSUME NEW a \in Pkg, NEW garbled \in BOOLEAN, recv_data(a, garbled)
      PROVE  IInv'
  BY <1>3, DataIInv
<1>4. CASE handle_ack_back
  BY <1>4, AckBackIInv
<1>5. CASE handle_recv_back
  BY <1>5, RecvBackIInv
<1>6. ASSUME NEW p \in Ports, FtpsCalls(p)
      PROVE  IInv'
  BY <1>6, FtpsCallsIInv
<1>7. CASE UNCHANGED vars
  BY <1>7, GarbledIInv DEF vars, daemon, loop, front
<1> QED BY <1>1, <1>2, <1>3, <1>4, <1>5, <1>6, <1>7 DEF Next, Tcpd

\* IInv holds in every state of the server side, whatever the clients, the
\* sessions they drew, the datagrams that are lost, repeated and garbled, and
\* the lengths that ftps reads (tcpd.c:63-441, ftps.c:84-124).
THEOREM Inductive == Spec => []IInv
<1>1. Init => IInv
  BY InitIInv
<1>2. IInv /\ [Next]_vars => IInv'
  BY NextIInv
<1> QED BY <1>1, <1>2, PTL DEF Spec

\* The variables keep their types.
THEOREM TypeCorrect == Spec => []TypeOK
<1>1. IInv => TypeOK
  BY DEF IInv
<1> QED BY <1>1, Inductive, PTL

\* Every package that was acknowledged is held or was handed over
\* (tcpd.c:151-210).
THEOREM AckedCorrect == Spec => []AckedIsKept
<1>1. IInv => AckedIsKept
  BY DEF IInv
<1> QED BY <1>1, Inductive, PTL

\* No session is returned by two ACCEPTs or held by two ftps (tcpd.c:325-374).
THEOREM AcceptedCorrect == Spec => []AcceptedOnce
<1>1. IInv => AcceptedOnce
  BY DEF IInv
<1> QED BY <1>1, Inductive, PTL

\* An ftps that asks for no more than the buffer holds never ends the daemon,
\* and is refused no call (tcpd.c:296-323, 390-394).
THEOREM NeverExits == Spec => []NoExit
<1>1. IInv => NoExit
  BY DEF IInv
<1> QED BY <1>1, Inductive, PTL

\* What RECVs returned is where Stream begins.
LEMMA GotIsPrefix ==
  ASSUME TypeOK, NEW s \in Sess
  PROVE  /\ Len(got[s]) \in Nat /\ Len(Stream(s)) \in Nat
         /\ Len(got[s]) <= Len(Stream(s))
         /\ \A i \in 1 .. Len(got[s]) : Stream(s)[i] = got[s][i]
<1> DEFINE B == Bytes \cup {JunkByte}
           x == got[s]
           y == conn[s].RecvBuffer
<1>1. x \in Seq(B) /\ y \in Seq(B)
  <2>1. conn[s].RecvBuffer \in Seq(Bytes)
    BY DEF TypeOK
  <2> QED BY <2>1 DEF TypeOK
<1>2. Stream(s) = x \o y
  BY DEF Stream
<1> HIDE DEF B, x, y
<1>3. /\ Len(x \o y) = Len(x) + Len(y) /\ Len(x) \in Nat /\ Len(y) \in Nat
      /\ \A i \in 1 .. Len(x) : (x \o y)[i] = x[i]
  BY ONLY <1>1
<1> QED BY <1>2, <1>3 DEF x

\* Bytes are returned by RECVs that were accepted and filled, and by no other.
LEMMA GotStep ==
  ASSUME IInv, Next
  PROVE  \/ got' = got
         \/ \E s \in Sess : /\ Len(conn[s].RecvBuffer) > 0
                            /\ got' = [got EXCEPT ![s] = @ \o conn[s].RecvBuffer]
<1>1. CASE Select \/ handle_ack_back \/ \E p \in Ports : FtpsCalls(p)
  BY <1>1 DEF Select, SelectData, handle_ack_back, FtpsCalls, front
<1>2. CASE \E a \in Pkg, garbled \in BOOLEAN : recv_data(a, garbled)
  BY <1>2 DEF recv_data, front
<1>3. CASE process_tcpd_message
  <2>1. ASSUME NEW p \in Ports, <<p, "RECV">> \in msgs, tcpd_RECV(p) PROVE got' = got
    <3>1. Receives(p)
      BY <2>1 DEF IInv, CallInv, Binds, Accepts, AwaitsClient, AwaitsData, Making, Awaits, Silent, Calls
    <3> QED BY <2>1, <3>1 DEF tcpd_RECV, Receives
  <2> QED BY <1>3, <2>1 DEF process_tcpd_message, tcpd_BIND, tcpd_ACCEPT
<1>4. CASE handle_recv_back
  <2>1. ASSUME NEW s \in Sess, AnswersRecv(s)
        PROVE  /\ Len(conn[s].RecvBuffer) > 0
               /\ got' = [got EXCEPT ![s] = @ \o conn[s].RecvBuffer]
    <3>1. conn[s] \in ConnType
      BY RecordTypes DEF IInv
    <3>2. Len(conn[s].RecvBuffer) > 0
      BY <2>1, <3>1 DEF AnswersRecv, Recving, RemainSize, ConnType
    <3> QED BY <2>1, <3>2 DEF AnswersRecv, RecvReturns
  <2> QED BY <1>4, <2>1 DEF handle_recv_back
<1> QED BY <1>1, <1>2, <1>3, <1>4 DEF Next, Tcpd

\* Of an ftps that reads whole packages a buffer goes on where the bytes it
\* has returned end.
LEMMA BufferGoesOn ==
  ASSUME IInv, WholePackages, NEW s \in Sess
  PROVE  /\ Len(got[s]) + Len(conn[s].RecvBuffer) = Start[conn[s].Base]
         /\ \A i \in 1 .. Len(conn[s].RecvBuffer) :
              \E c \in Clients : /\ Session(c) = s
                                 /\ conn[s].RecvBuffer[i] = <<c, Len(got[s]) + i - 1>>
<1> DEFINE B == Bytes \cup {JunkByte}
           x == got[s]
           y == conn[s].RecvBuffer
<1>1. x \in Seq(B) /\ y \in Seq(Bytes)
  BY DEF IInv, TypeOK
<1>2. Stream(s) = x \o y
  BY DEF Stream
<1>3. Gapless(Stream(s), Start[conn[s].Base])
  BY DEF IInv, WholeInv
<1>4. Ordered(Stream(s), s, Start[conn[s].Base] + conn[s].taken)
  BY DEF IInv, StreamInv
<1> HIDE DEF x, y
<1>5. /\ Len(x \o y) = Len(x) + Len(y) /\ Len(x) \in Nat /\ Len(y) \in Nat
      /\ \A i \in 1 .. Len(y) : (x \o y)[Len(x) + i] = y[i] /\ y[i] \in Bytes
  <2>1. y \in Seq(B)
    BY <1>1
  <2> HIDE DEF B
  <2> QED BY ONLY <1>1, <2>1
<1>6. ASSUME NEW i \in 1 .. Len(y)
      PROVE  \E c \in Clients : Session(c) = s /\ y[i] = <<c, Len(x) + i - 1>>
  <2>1. Len(x) + i \in 1 .. Len(x \o y) /\ (Len(x) + i) - 1 = Len(x) + i - 1
    BY <1>5
  <2>2. y[i][2] = Len(x) + i - 1
    BY <1>2, <1>3, <1>5, <2>1 DEF Gapless
  <2>3. y[i][1] \in Clients /\ Session(y[i][1]) = s
    BY <1>2, <1>4, <1>5, <2>1 DEF Ordered
  <2>4. y[i] = <<y[i][1], y[i][2]>>
    BY <1>5 DEF Bytes
  <2> QED BY <2>2, <2>3, <2>4
<1> QED BY <1>2, <1>3, <1>5, <1>6 DEF Gapless, x, y

\* Bytes that were returned are in order, since those taken are.
LEMMA IInvInOrder == IInv => InOrder
<1> SUFFICES ASSUME IInv PROVE InOrder
  OBVIOUS
<1>1. ASSUME NEW s \in Sess, NEW i \in 1 .. Len(got[s])
      PROVE  /\ got[s][i][1] \in {c \in Clients : Session(c) = s}
             /\ \A j \in 1 .. (i - 1) : got[s][j][2] < got[s][i][2]
             /\ WholePackages => got[s][i][2] = i - 1
  <2>1. /\ i \in 1 .. Len(Stream(s)) /\ Stream(s)[i] = got[s][i]
        /\ \A j \in 1 .. (i - 1) : Stream(s)[j] = got[s][j]
    <3>1. /\ Len(got[s]) \in Nat /\ Len(Stream(s)) \in Nat
          /\ Len(got[s]) <= Len(Stream(s))
          /\ \A k \in 1 .. Len(got[s]) : Stream(s)[k] = got[s][k]
      BY GotIsPrefix DEF IInv
    <3>2. i \in 1 .. Len(Stream(s)) /\ \A j \in 1 .. (i - 1) : j \in 1 .. Len(got[s])
      BY <3>1
    <3> QED BY <3>1, <3>2
  <2>2. Ordered(Stream(s), s, Start[conn[s].Base] + conn[s].taken)
    BY DEF IInv, StreamInv
  <2>3. WholePackages => Gapless(Stream(s), Start[conn[s].Base])
    BY DEF IInv, WholeInv
  <2> QED BY <2>1, <2>2, <2>3 DEF Ordered, Gapless
<1> QED BY <1>1 DEF InOrder, StreamPrefix

\* The stream that ftps reads is in order, of one session's clients, and whole
\* when ftps reads whole packages, whatever happened to the datagrams
\* (tcpd.c:136-192, 376-441).
THEOREM OrderCorrect == Spec => []InOrder
  BY Inductive, IInvInOrder, PTL

\* No data of an old session opens it again: the step that would is one of
\* a session that is not Known (tcpd.c:136-192).
THEOREM AcceptedStays == Spec => StaysAccepted
<1>1. IInv /\ [Next]_vars =>
        \A s \in Sess : s \in acked => s \in acked' /\ conn'[s].Base >= conn[s].Base
  <2> SUFFICES ASSUME IInv, [Next]_vars, NEW s \in Sess, s \in acked
               PROVE  s \in acked' /\ conn'[s].Base >= conn[s].Base
    OBVIOUS
  <2>1. conn \in [Sess -> ConnType] /\ \A t \in Sess : conn[t].Base \in Nat
    <3>1. conn \in [Sess -> ConnType]
      BY RecordTypes DEF IInv
    <3> QED BY <3>1 DEF ConnType
  <2>2. CASE Select \/ \E p \in Ports : FtpsCalls(p)
    BY <2>1, <2>2 DEF Select, SelectData, FtpsCalls, daemon
  <2>3. CASE process_tcpd_message
    <3>1. acked' = acked /\ \E p \in Ports : \E len : \E t :
             conn' = conn \/ conn' = [conn EXCEPT ![t].ReceivingLength = len]
      BY <2>3 DEF process_tcpd_message, tcpd_BIND, tcpd_ACCEPT, tcpd_RECV
    <3> QED BY <2>1, <3>1 DEF ConnType
  <2>4. ASSUME NEW a \in Pkg, NEW garbled \in BOOLEAN, recv_data(a, garbled)
        PROVE  s \in acked' /\ conn'[s].Base >= conn[s].Base
    <3>1. acked' = acked
      BY <2>4 DEF recv_data
    <3>2. CASE conn' = conn
      BY <2>1, <3>1, <3>2
    <3>3. CASE conn' = [conn EXCEPT ![Session(a[1])].Packages = @ \cup {a}]
      BY <2>1, <3>1, <3>3 DEF ConnType
    <3>4. CASE /\ ~ Known(Session(a[1]))
               /\ conn' = [conn EXCEPT ![Session(a[1])] =
                             [NewConn(Dest(a[1])) EXCEPT !.Packages = {a}]]
      <4>1. s # Session(a[1])
        BY <3>4 DEF Known
      <4> QED BY <2>1, <3>1, <3>4, <4>1
    <3> QED BY <2>4, <3>2, <3>3, <3>4 DEF recv_data
  <2>5. CASE handle_ack_back
    BY <2>1, <2>5 DEF handle_ack_back, AnswersAccept
  <2>6. CASE handle_recv_back
    <3>1. acked' = acked
      BY <2>6 DEF handle_recv_back
    <3>2. ASSUME NEW t \in Sess, TakesPackage(t) PROVE conn'[s].Base >= conn[s].Base
      <4>1. conn' = [conn EXCEPT ![t] = PackageTaken(t)]
        BY <3>2 DEF TakesPackage
      <4>2. PackageTaken(t).Base = conn[t].Base + 1
        BY <2>1 DEF PackageTaken, ConnType
      <4> QED BY <2>1, <4>1, <4>2
    <3>3. ASSUME NEW t \in Sess, CutsPackage(t) PROVE conn'[s].Base >= conn[s].Base
      BY <2>1, <3>3 DEF CutsPackage, ConnType
    <3>4. ASSUME NEW t \in Sess, AnswersRecv(t) PROVE conn'[s].Base >= conn[s].Base
      <4>1. conn' = [conn EXCEPT ![t].RecvBuffer = <<>>, ![t].ReceivingLength = 0]
        BY <3>4 DEF AnswersRecv
      <4>2. conn'[t].Base = conn[t].Base /\ \A u \in Sess : u # t => conn'[u] = conn[u]
        BY <2>1, <4>1 DEF ConnType
      <4> QED BY <2>1, <4>2
    <3>5. CASE conn' = conn
      BY <2>1, <3>1, <3>5
    <3> QED BY <2>6, <3>1, <3>2, <3>3, <3>4, <3>5 DEF handle_recv_back
  <2>7. CASE UNCHANGED vars
    BY <2>1, <2>7 DEF vars, daemon
  <2> QED BY <2>2, <2>3, <2>4, <2>5, <2>6, <2>7 DEF Next, Tcpd
<1> QED BY <1>1, Inductive, PTL DEF Spec, StaysAccepted
=============================================================================

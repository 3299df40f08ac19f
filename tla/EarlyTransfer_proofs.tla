-------------------------- MODULE EarlyTransfer_proofs --------------------------
(***************************************************************************)
(* The safety properties of EarlyTransfer, proved for every size of the    *)
(* ring, every file and any number of faults of the troll: one inductive   *)
(* invariant, IInv, which counts the packets instead of going round the    *)
(* ring, and the properties that follow from it.  At the end, that the     *)
(* file of a transfer without a fault arrives.                             *)
(***************************************************************************)
EXTENDS EarlyTransfer, WellFoundedInduction, TLAPS, SequenceTheorems, FiniteSetTheorems

-----------------------------------------------------------------------------
(* Sums of lengths, which are functions defined by recursion.               *)

\* A set of naturals that is not empty has a least element.
LEMMA LeastElement ==
  ASSUME NEW T \in SUBSET Nat, T # {}
  PROVE  \E n \in T : \A k \in T : n <= k
<1>1. PICK n \in T : \A k \in T : ~ (<<k, n>> \in OpToRel(<, Nat))
  BY NatLessThanWellFounded, WFMin
<1>2. ASSUME NEW k \in T PROVE n <= k
  <2>1. ~ (k < n)
    BY <1>1 DEF OpToRel
  <2> QED BY <2>1
<1> QED BY <1>2

\* The sum of the first k lengths is at place k of f, for k up to n.
SumsTo(f, lens, n) ==
  f = [k \in 0 .. n |-> IF k = 0 THEN 0 ELSE f[k - 1] + lens[k]]

\* The recursion has a solution.
LEMMA SumsExist ==
  ASSUME NEW lens \in Seq(Nat)
  PROVE  \E f : SumsTo(f, lens, Len(lens))
<1> DEFINE Lacking == {n \in Nat : n <= Len(lens) /\ ~ \E f : SumsTo(f, lens, n)}
<1>1. SUFFICES ASSUME Lacking # {} PROVE FALSE
  <2>1. Len(lens) \in Nat /\ (Len(lens) \in Lacking \/ \E f : SumsTo(f, lens, Len(lens)))
    OBVIOUS
  <2> QED BY <2>1
<1>2. PICK n \in Lacking : \A k \in Lacking : n <= k
  <2> HIDE DEF Lacking
  <2>1. Lacking \in SUBSET Nat
    BY DEF Lacking
  <2> QED BY <1>1, <2>1, LeastElement
<1>3. n \in Nat /\ n <= Len(lens) /\ ~ \E f : SumsTo(f, lens, n)
  OBVIOUS
<1>4. CASE n = 0
  <2>1. SumsTo([k \in 0 .. 0 |-> 0], lens, 0)
    BY DEF SumsTo
  <2> QED BY <1>3, <1>4, <2>1
<1>5. CASE n # 0
  <2>1. n - 1 \in Nat /\ n - 1 <= Len(lens) /\ ~ (n <= n - 1)
    BY <1>3, <1>5
  <2>2. n - 1 \notin Lacking
    BY <1>2, <2>1
  <2>3. PICK g : SumsTo(g, lens, n - 1)
    BY <2>1, <2>2
  <2> DEFINE f == [k \in 0 .. n |-> IF k = n THEN g[n - 1] + lens[n] ELSE g[k]]
  <2>4. ASSUME NEW k \in 0 .. n
        PROVE  f[k] = IF k = 0 THEN 0 ELSE f[k - 1] + lens[k]
    <3>1. CASE k = n
      BY <1>3, <1>5, <3>1
    <3>2. CASE k # n
      <4>1. k \in 0 .. n - 1 /\ (k # 0 => k - 1 \in 0 .. n /\ k - 1 # n)
        BY <1>3, <3>2
      <4>2. g[k] = IF k = 0 THEN 0 ELSE g[k - 1] + lens[k]
        BY <2>3, <4>1 DEF SumsTo
      <4> QED BY <4>1, <4>2
    <3> QED BY <3>1, <3>2
  <2>5. SumsTo(f, lens, n)
    BY <2>4 DEF SumsTo
  <2> QED BY <1>3, <2>5
<1> QED BY <1>4, <1>5

\* The offsets start at zero, and grow by a length at every place.
LEMMA SumStep ==
  ASSUME NEW lens \in Seq(Nat), NEW f, SumsTo(f, lens, Len(lens))
  PROVE  /\ DOMAIN f = 0 .. Len(lens)
         /\ f[0] = 0
         /\ \A k \in 0 .. Len(lens) - 1 : f[k + 1] = f[k] + lens[k + 1]
<1> DEFINE F(k) == IF k = 0 THEN 0 ELSE f[k - 1] + lens[k]
<1>1. f = [k \in 0 .. Len(lens) |-> F(k)]
  BY DEF SumsTo
<1> HIDE DEF F
<1>2. DOMAIN f = 0 .. Len(lens) /\ \A k \in 0 .. Len(lens) : f[k] = F(k)
  BY <1>1
<1>3. Len(lens) \in Nat
  OBVIOUS
<1> QED BY <1>2, <1>3 DEF F

\* They are naturals.
LEMMA SumNat ==
  ASSUME NEW lens \in Seq(Nat), NEW f, SumsTo(f, lens, Len(lens))
  PROVE  f \in [0 .. Len(lens) -> Nat]
<1> DEFINE Bad == {n \in 0 .. Len(lens) : f[n] \notin Nat}
<1>1. SUFFICES ASSUME Bad # {} PROVE FALSE
  <2>1. f = [k \in 0 .. Len(lens) |-> f[k]]
    BY DEF SumsTo
  <2>2. ASSUME Bad = {} PROVE \A k \in 0 .. Len(lens) : f[k] \in Nat
    BY <2>2
  <2> QED BY <2>1, <2>2
<1>2. PICK n \in Bad : \A k \in Bad : n <= k
  <2>1. Bad \in SUBSET Nat
    OBVIOUS
  <2> HIDE DEF Bad
  <2> QED BY <1>1, <2>1, LeastElement
<1>3. n # 0
  BY SumStep
<1>4. n - 1 \in 0 .. Len(lens) - 1 /\ ~ (n <= n - 1) /\ n - 1 \in 0 .. Len(lens)
  BY <1>3
<1>5. f[n - 1] \in Nat
  BY <1>2, <1>4
<1>6. f[n] = f[n - 1] + lens[n]
  BY <1>4, SumStep
<1>7. lens[n] \in Nat
  BY <1>3
<1> QED BY <1>5, <1>6, <1>7


\* The packets that left the window are those up to base, the others are in it.
base == seq - outstanding
Window == base + 1 .. seq

\* The slot of a packet.
Slot(k) == k % WINDOW_SIZE

\* What the packets and the datagrams are.
Datagrams == [pkt : Packets, intact : BOOLEAN, seq : Packets \cup {Unknown}]
Bodies == [pkt : Packets, intact : BOOLEAN]

\* The types, by the part they are of, and what TypeOK leaves out of
\* them.
CallTypes ==
  /\ version \in {"lab2", "lab3", "proj1"} /\ call \in {"idle", "wait"} /\ sends \in 0 .. N
  /\ signals \in Seq({"block", "received"}) /\ tmp_save_buf \subseteq Packets
BlockTypes == blocking \in BOOLEAN
LocalTypes ==
  /\ local \in Seq(Packets)
  /\ ready \subseteq {"local", "ack"}
  /\ "local" \in ready => local /= <<>>
  /\ "ack" \in ready => acks /= <<>>
WindowTypes ==
  /\ last_ack \in Slots /\ last_send \in Slots /\ num_empty \in 0 .. WINDOW_SIZE
  /\ ack_bitmap \in [Slots -> {0, 1}] /\ troll_headers \in [Slots -> Packets \cup {Unknown}]
  /\ seq \in 0 .. N
TimerTypes ==
  /\ pipe \in Seq({"s", "c"} \X (Packets \cup {Unknown})) /\ nodes \subseteq Packets
  /\ \A i \in 1 .. Len(pipe) : pipe[i][1] = "s" => pipe[i][2] \in Packets
TrollTypes ==
  /\ faults \in 0 .. MaxFaults /\ under \in Seq(Datagrams)
AckTypes ==
  /\ Len(acks) <= MaxAcks /\ acks \in Seq(Packets \cup {Unknown})
ServerTypes == inbox \in Seq(Bodies)
FtpsTypes ==
  /\ ftps \in [at : {"len", "name", "body", "closed"}, rec_len : 0 .. NameSize + 1,
               left : Int, got : Seq(Int)]
  /\ taken \in Int
Types ==
  /\ CallTypes /\ BlockTypes /\ LocalTypes /\ WindowTypes /\ TimerTypes
  /\ TrollTypes /\ AckTypes /\ ServerTypes /\ FtpsTypes

\* The SEND that waits is in one place: not read yet, answered with "received",
\* or answered with "block" and in the temporary buffer for good.
Idle     == call = "idle" /\ local = <<>> /\ signals = <<>> /\ seq = sends /\ tmp_save_buf = {} /\ ~blocking
Handed   == call = "wait" /\ local = <<sends + 1>> /\ signals = <<>> /\ seq = sends /\ tmp_save_buf = {} /\ ~blocking
Received == call = "wait" /\ local = <<>> /\ signals = <<"received">> /\ seq = sends + 1 /\ tmp_save_buf = {} /\ ~blocking
Blocked  == call = "wait" /\ local = <<>> /\ signals = <<"block">> /\ seq = sends /\ tmp_save_buf = {sends + 1} /\ ~blocking
Stuck    == call = "wait" /\ local = <<>> /\ signals = <<>> /\ seq = sends /\ tmp_save_buf = {sends + 1} /\ blocking

CallInv ==
  /\ version = "proj1" => /\ Idle \/ Handed \/ Received \/ Blocked \/ Stuck
                          /\ call = "wait" => sends < N
  /\ version # "proj1" =>
       /\ call = "idle" /\ signals = <<>> /\ tmp_save_buf = {} /\ ~blocking
       /\ seq = 0 /\ num_empty = WINDOW_SIZE /\ acks = <<>> /\ pipe = <<>>

\* The indices are the slots of the counts, every packet of the window is in
\* its slot, and the oldest of it is not acknowledged.
RingInv ==
  /\ base >= 0
  /\ last_send = Slot(seq) /\ last_ack = Slot(base)
  /\ \A k \in Window : troll_headers[Slot(k)] = k
  /\ base < seq => ack_bitmap[Slot(base + 1)] = 0

\* The client was told of packet k.
Told(k) == k \in 1 .. base \/ (k \in Window /\ ack_bitmap[Slot(k)] = 1)

\* Numbers the server acknowledged: of a packet it sent to ftps, or of one that
\* the number of another was garbled into.
Heard == forwarded \cup misread

\* The client was told of what the server heard of.
ForwardedInv ==
  /\ \A k \in Packets : Told(k) => k \in Heard
  /\ \A i \in 1 .. Len(acks) : acks[i] \in Heard

\* Command i of the pipe cancels packet k, and no start of it follows.
Cancels(commands, i, k) ==
  /\ commands[i] = <<"c", k>>
  /\ \A j \in i .. Len(commands) : commands[j] # <<"s", k>>

\* Packet k is timed no more, or will not be.
Untimed(commands, list, k) ==
  \/ k \notin list /\ \A i \in 1 .. Len(commands) : commands[i] # <<"s", k>>
  \/ \E i \in 1 .. Len(commands) : Cancels(commands, i, k)

TimerInv == \A k \in Packets : Told(k) => Untimed(pipe, nodes, k)

IInv == Types /\ CallInv /\ RingInv /\ ForwardedInv /\ TimerInv

-----------------------------------------------------------------------------
(* Counting round the ring                                                 *)

\* A number is its quotient times w and its remainder.
LEMMA Division ==
  ASSUME NEW w \in Nat \ {0}, NEW a \in Int
  PROVE  /\ a % w \in 0 .. w - 1 /\ a \div w \in Int
         /\ a = w * (a \div w) + (a % w)
OBVIOUS

\* What is below w is its own remainder.
LEMMA SmallMod ==
  ASSUME NEW w \in Nat \ {0}, NEW a \in Nat, a < w
  PROVE  a % w = a
OBVIOUS

\* There is one remainder.
LEMMA OneRemainder ==
  ASSUME NEW w \in Nat \ {0}, NEW q \in Int, NEW r \in Int, 0 <= r, r < w
  PROVE  (w * q + r) % w = r
OBVIOUS

\* Whole rounds change no slot.
LEMMA WholeRounds ==
  ASSUME NEW w \in Nat \ {0}, NEW q \in Int, NEW a \in Int
  PROVE  (w * q + a) % w = a % w
<1> DEFINE d == a \div w
           r == a % w
<1>1. d \in Int /\ r \in Int /\ 0 <= r /\ r < w /\ a = w * d + r
  BY Division
<1> HIDE DEF d, r
<1>2. w * q + a = w * (q + d) + r
  BY <1>1
<1>3. q + d \in Int
  BY <1>1
<1>4. (w * (q + d) + r) % w = r
  BY <1>1, <1>3, OneRemainder
<1> QED BY <1>2, <1>4 DEF r

\* From the slot of a it is as far to a slot as from a.
LEMMA FromSlot ==
  ASSUME NEW w \in Nat \ {0}, NEW a \in Int, NEW b \in Int
  PROVE  /\ ((a % w) + b) % w = (a + b) % w
         /\ (b - (a % w)) % w = (b - a) % w
<1> DEFINE d == a \div w
           r == a % w
<1>1. d \in Int /\ r \in Int /\ a = w * d + r
  BY Division
<1> HIDE DEF d, r
<1>2. (r + b) % w = (a + b) % w
  <2>1. a + b = w * d + (r + b) /\ r + b \in Int
    BY <1>1
  <2>2. (w * d + (r + b)) % w = (r + b) % w
    BY <1>1, <2>1, WholeRounds
  <2> QED BY <2>1, <2>2
<1>3. (b - r) % w = (b - a) % w
  <2>1. b - r = w * d + (b - a) /\ b - a \in Int
    BY <1>1
  <2>2. (w * d + (b - a)) % w = (b - a) % w
    BY <1>1, <2>1, WholeRounds
  <2> QED BY <2>1, <2>2
<1> QED BY <1>2, <1>3 DEF r

\* Slots are slots, and one is followed by that of the next packet.
LEMMA SlotIs ==
  ASSUME NEW k \in Nat, NEW n \in Nat
  PROVE  /\ Slot(k) \in Slots
         /\ (Slot(k) + n) % WINDOW_SIZE = Slot(k + n)
         /\ next(Slot(k)) = Slot(k + 1)
<1>1. WINDOW_SIZE \in Nat \ {0}
  BY TransferAssumption
<1>2. k % WINDOW_SIZE \in 0 .. WINDOW_SIZE - 1
  BY <1>1, Division
<1>3. /\ ((k % WINDOW_SIZE) + n) % WINDOW_SIZE = (k + n) % WINDOW_SIZE
      /\ ((k % WINDOW_SIZE) + 1) % WINDOW_SIZE = (k + 1) % WINDOW_SIZE
  <2>1. k \in Int /\ n \in Int /\ 1 \in Int
    OBVIOUS
  <2> QED BY ONLY <1>1, <2>1, FromSlot, Zenon
<1> QED BY <1>2, <1>3 DEF Slot, Slots, next

\* Packets less than a round apart have different slots.
LEMMA SlotsDiffer ==
  ASSUME NEW j \in Nat, NEW k \in Nat, j < k, k - j < WINDOW_SIZE
  PROVE  Slot(j) # Slot(k)
<1> DEFINE w == WINDOW_SIZE
<1>1. w \in Nat \ {0} /\ k - j \in Nat /\ k - j > 0 /\ k - j < w
  BY TransferAssumption
<1> HIDE DEF w
<1>2. (k - (j % w)) % w = (k - j) % w /\ (k - (k % w)) % w = (k - k) % w
  <2>1. k \in Int /\ j \in Int
    OBVIOUS
  <2> QED BY ONLY <1>1, <2>1, FromSlot, Zenon
<1>3. (k - j) % w = k - j /\ k - k = 0 /\ 0 % w = 0
  BY <1>1, SmallMod
<1>4. j % w # k % w
  BY <1>1, <1>2, <1>3
<1> QED BY <1>4 DEF Slot, w

\* The window holds from none to WINDOW_SIZE packets.
LEMMA CountsAre ==
  ASSUME Types, RingInv
  PROVE  /\ WINDOW_SIZE \in Nat \ {0} /\ num_empty \in 0 .. WINDOW_SIZE
         /\ outstanding \in 0 .. WINDOW_SIZE /\ outstanding = WINDOW_SIZE - num_empty
         /\ N \in Nat /\ seq \in 0 .. N /\ base \in 0 .. seq /\ base \in Nat
         /\ seq = base + outstanding
<1>1. WINDOW_SIZE \in Nat \ {0} /\ N \in Nat
  BY TransferAssumption DEF N
<1> QED BY <1>1 DEF Types, WindowTypes, RingInv, base, outstanding

\* The window slides over the acknowledged packets at its front, and over
\* those only.
LEMMA SlideIs ==
  ASSUME Types, RingInv, NEW b \in [Slots -> {0, 1}]
  PROVE  /\ Slide(b) \in 0 .. outstanding
         /\ \A k \in base + 1 .. base + Slide(b) : b[Slot(k)] = 1
         /\ Slide(b) < outstanding => b[Slot(base + Slide(b) + 1)] = 0
<1> DEFINE m == outstanding
           P(n) == /\ \A j \in 1 .. n : b[(last_ack + j) % WINDOW_SIZE] = 1
                   /\ n < m => b[(last_ack + n + 1) % WINDOW_SIZE] = 0
           Bad == {n \in 0 .. m - 1 : b[(last_ack + n + 1) % WINDOW_SIZE] = 0}
           s == Slide(b)
<1>1. m \in Nat /\ base \in Nat /\ last_ack = Slot(base)
  BY CountsAre DEF RingInv
<1>2. \A j \in Nat : (last_ack + j) % WINDOW_SIZE = Slot(base + j) /\ Slot(base + j) \in Slots
  <2> TAKE j \in Nat
  <2>1. base + j \in Nat
    BY <1>1
  <2> QED BY <1>1, <2>1, SlotIs
<1>3. \A n \in Nat : last_ack + n + 1 = last_ack + (n + 1)
  <2>1. last_ack \in Int
    BY TransferAssumption DEF Types, WindowTypes, Slots
  <2> QED BY ONLY <2>1
<1>4. \E n \in 0 .. m : P(n)
  <2>1. CASE Bad = {}
    <3>1. \A j \in 1 .. m : b[(last_ack + j) % WINDOW_SIZE] = 1
      <4> TAKE j \in 1 .. m
      <4>1. j - 1 \in 0 .. m - 1 /\ j - 1 \in Nat /\ (j - 1) + 1 = j /\ j \in Nat
        BY <1>1
      <4>2. b[(last_ack + (j - 1) + 1) % WINDOW_SIZE] # 0
        BY <2>1, <4>1
      <4>3. (last_ack + (j - 1) + 1) = last_ack + j
        BY <1>3, <4>1
      <4>4. b[(last_ack + j) % WINDOW_SIZE] \in {0, 1}
        BY <1>2, <4>1
      <4> QED BY <4>2, <4>3, <4>4
    <3>2. P(m)
      BY <1>1, <3>1
    <3>3. m \in 0 .. m
      BY <1>1
    <3> QED BY <3>2, <3>3
  <2>2. CASE Bad # {}
    <3>1. PICK n \in Bad : \A i \in Bad : n <= i
      <4>1. Bad \in SUBSET Nat
        BY <1>1
      <4> HIDE DEF Bad
      <4> QED BY <2>2, <4>1, LeastElement
    <3>2. n \in 0 .. m - 1 /\ b[(last_ack + n + 1) % WINDOW_SIZE] = 0
      BY <3>1
    <3>3. \A j \in 1 .. n : b[(last_ack + j) % WINDOW_SIZE] = 1
      <4> TAKE j \in 1 .. n
      <4>1. j - 1 \in 0 .. m - 1 /\ j - 1 \in Nat /\ (j - 1) + 1 = j /\ j \in Nat /\ ~ (n <= j - 1)
        BY <1>1, <3>2
      <4>2. j - 1 \notin Bad
        <5> HIDE DEF Bad
        <5> QED BY <3>1, <4>1
      <4>3. b[(last_ack + (j - 1) + 1) % WINDOW_SIZE] # 0
        BY <4>1, <4>2
      <4>4. (last_ack + (j - 1) + 1) = last_ack + j
        BY <1>3, <4>1
      <4>5. b[(last_ack + j) % WINDOW_SIZE] \in {0, 1}
        BY <1>2, <4>1
      <4> QED BY <4>3, <4>4, <4>5
    <3>4. P(n)
      BY <3>2, <3>3
    <3>5. n \in 0 .. m
      BY <1>1, <3>2
    <3> HIDE DEF P
    <3> QED BY <3>4, <3>5
  <2> QED BY <2>1, <2>2
<1>5. s \in 0 .. m /\ P(s)
  <2>1. s = CHOOSE n \in 0 .. m : P(n)
    BY DEF Slide
  <2> HIDE DEF s, P, m
  <2> QED BY <1>4, <2>1
<1> HIDE DEF m, s
<1>6. \A k \in base + 1 .. base + s : b[Slot(k)] = 1
  <2> TAKE k \in base + 1 .. base + s
  <2>1. k - base \in 1 .. s /\ k - base \in Nat /\ base + (k - base) = k
    BY <1>1, <1>5
  <2>2. b[(last_ack + (k - base)) % WINDOW_SIZE] = 1
    BY <1>5, <2>1
  <2>3. (last_ack + (k - base)) % WINDOW_SIZE = Slot(base + (k - base))
    BY <1>2, <2>1
  <2> QED BY <2>1, <2>2, <2>3
<1>7. s < m => b[Slot(base + s + 1)] = 0
  <2> HAVE s < m
  <2>1. s \in Nat /\ s + 1 \in Nat /\ base + (s + 1) = base + s + 1
    BY <1>1, <1>5
  <2>2. b[(last_ack + s + 1) % WINDOW_SIZE] = 0
    BY <1>5
  <2>3. last_ack + s + 1 = last_ack + (s + 1)
    BY <1>3, <2>1
  <2>4. (last_ack + (s + 1)) % WINDOW_SIZE = Slot(base + (s + 1))
    BY <1>2, <2>1
  <2> QED BY <2>1, <2>2, <2>3, <2>4
<1> QED BY <1>5, <1>6, <1>7 DEF m, s

\* An ack marks its own packet, if it is in the window, and no other.
LEMMA AckedIs ==
  ASSUME Types, RingInv, NEW a
  PROVE  /\ Acked(a) \in [Slots -> {0, 1}]
         /\ \A k \in Window : Acked(a)[Slot(k)] = 1 => k = a \/ ack_bitmap[Slot(k)] = 1
<1>1. ack_bitmap \in [Slots -> {0, 1}]
  BY DEF Types, WindowTypes
<1>2. \A k \in Window : Slot(k) \in Slots /\ troll_headers[Slot(k)] = k
  <2> TAKE k \in Window
  <2>1. k \in Nat
    BY CountsAre DEF Window
  <2> QED BY <2>1, SlotIs DEF RingInv
<1> QED BY <1>1, <1>2 DEF Acked

\* Lengths add up to a natural number.
LEMMA SumIsNat ==
  ASSUME NEW sizes \in Seq(Nat)
  PROVE  Sum(sizes) \in Nat
<1> DEFINE f == CHOOSE g : SumsTo(g, sizes, Len(sizes))
<1>1. SumsTo(f, sizes, Len(sizes))
  BY SumsExist
<1>2. Sum(sizes) = f[Len(sizes)]
  BY DEF Sum, SumsTo
<1> HIDE DEF f
<1>3. f \in [0 .. Len(sizes) -> Nat]
  BY <1>1, SumNat
<1> QED BY <1>2, <1>3

\* So do those of the packets that were written, and those of the file.
LEMMA WrittenIs ==
  ASSUME Types
  PROVE  Written \in Int /\ FileLen \in Int
<1>1. Sizes \in Seq(Nat) /\ sends \in 0 .. Len(Sizes) /\ N = Len(Sizes)
  BY TransferAssumption DEF Types, CallTypes, N
<1>2. SubSeq(Sizes, 1, sends) \in Seq(Nat) /\ SubSeq(Sizes, 3, N) \in Seq(Nat)
  BY ONLY <1>1
<1>3. Sum(SubSeq(Sizes, 1, sends)) \in Nat /\ Sum(SubSeq(Sizes, 3, N)) \in Nat
  BY <1>2, SumIsNat
<1>4. taken \in Int
  BY DEF Types, FtpsTypes
<1> QED BY <1>3, <1>4 DEF Written, FileLen

\* The smaller of two numbers is one of them, and above neither.
LEMMA MinOfTwo ==
  ASSUME NEW a \in Int, NEW b \in Int
  PROVE  /\ Min({a, b}) \in {a, b}
         /\ Min({a, b}) <= a /\ Min({a, b}) <= b
<1>1. \E x \in {a, b} : \A y \in {a, b} : x <= y
  <2>1. CASE a <= b
    BY <2>1
  <2>2. CASE ~ (a <= b)
    BY <2>2
  <2> QED BY <2>1, <2>2
<1> QED BY <1>1 DEF Min

-----------------------------------------------------------------------------
(* The types                                                               *)

\* A packet that waits for the daemon of proj1 is the next one to be numbered.
LEMMA NextPacket ==
  ASSUME Types, CallInv, version = "proj1", local /= <<>>
  PROVE  Handed /\ seq + 1 \in Packets /\ Head(local) = seq + 1 /\ Tail(local) = <<>>
<1>1. Handed /\ sends < N
  BY DEF CallInv, Idle, Handed, Received, Blocked, Stuck
<1>2. sends \in Nat /\ N \in Nat
  BY TransferAssumption DEF Types, CallTypes, N
<1> QED BY <1>1, <1>2 DEF Handed, Packets

\* Nothing was sent, and the ring is empty.
LEMMA InitTypes == Init => Types
<1> SUFFICES ASSUME Init PROVE Types
  OBVIOUS
<1>1. WINDOW_SIZE \in Nat \ {0} /\ N \in Nat /\ MaxAcks \in Nat /\ MaxFaults \in Nat
  BY TransferAssumption DEF N
<1>2. 0 \in Slots
  BY <1>1 DEF Slots
<1>3. ack_bitmap \in [Slots -> {0, 1}]
  BY DEF Init, window_init
<1>4. last_ack = 0 /\ last_send = 0 /\ num_empty = WINDOW_SIZE
  BY DEF Init, window_init
<1>5. troll_headers \in [Slots -> Packets \cup {Unknown}]
  <2>1. 1 \in Packets /\ Unknown \in Packets \cup {Unknown}
    BY TransferAssumption DEF Packets, N
  <2>2. PICK k \in {Unknown, 1} : troll_headers = [i \in Slots |-> k]
    BY DEF Init, window_init
  <2> QED BY <2>1, <2>2
<1>6. CallTypes
  <2>1. version \in {"lab2", "lab3", "proj1"} /\ call \in {"idle", "wait"} /\ sends \in 0 .. N
        /\ signals \in Seq({"block", "received"}) /\ tmp_save_buf \subseteq Packets
    BY <1>1 DEF Init
  <2> QED BY <2>1 DEF CallTypes
<1>11. BlockTypes
  BY Zenon DEF Init, BlockTypes
<1>7. LocalTypes /\ TimerTypes /\ ServerTypes
  BY DEF Init, LocalTypes, TimerTypes, ServerTypes
<1>8. WindowTypes
  BY <1>1, <1>2, <1>3, <1>4, <1>5 DEF Init, WindowTypes
<1>9. TrollTypes /\ AckTypes
  BY <1>1 DEF Init, TrollTypes, AckTypes
<1>10. FtpsTypes
  BY DEF Init, FtpsTypes, AtLen, NameSize
<1> QED BY <1>6, <1>7, <1>8, <1>9, <1>10, <1>11 DEF Types

\* ftpc hands over its next packet, or reads a signal.
LEMMA ClientTypes ==
  ASSUME Types, CallInv, Writes \/ SendsAway \/ SEND \/ Signalled
  PROVE  Types'
<1>0. /\ CallTypes /\ BlockTypes /\ LocalTypes /\ WindowTypes /\ TimerTypes
      /\ TrollTypes /\ AckTypes /\ ServerTypes /\ FtpsTypes
  BY DEF Types
<1>1. N \in Nat /\ sends \in 0 .. N
  BY <1>0, TransferAssumption DEF N, CallTypes
<1>2. UNCHANGED <<version, ready, window, seq, tmp_save_buf, timerVars, under, faults, acks, serverVars>>
  BY DEF Writes, SendsAway, SEND, Signalled
<1>3. WindowTypes' /\ TimerTypes' /\ TrollTypes' /\ AckTypes' /\ ServerTypes' /\ FtpsTypes'
  BY <1>0, <1>2 DEF window, timerVars, serverVars, WindowTypes, TimerTypes, TrollTypes,
                    AckTypes, ServerTypes, FtpsTypes
<1>4. /\ sends' \in 0 .. N
      /\ \/ local' = local
         \/ local' = Append(local, sends + 1) /\ sends + 1 \in Packets
  BY <1>1 DEF Writes, SendsAway, SEND, Signalled, CallInv, Packets
<1>5. local' \in Seq(Packets) /\ (local /= <<>> => local' /= <<>>)
  BY <1>0, <1>4 DEF LocalTypes
<1>6. LocalTypes'
  BY <1>0, <1>2, <1>5 DEF LocalTypes
<1>7. call' \in {"idle", "wait"} /\ signals' \in Seq({"block", "received"})
  BY <1>0 DEF Writes, SendsAway, SEND, Signalled, CallTypes
<1>8. BlockTypes'
  <2>1. blocking' = blocking \/ blocking' = TRUE
        \/ blocking' = (blocking /\ Head(signals) /= "unblock")
    BY DEF Writes, SendsAway, SEND, Signalled
  <2> QED BY <1>0, <2>1, Zenon DEF BlockTypes
<1>9. CallTypes'
  BY <1>0, <1>2, <1>4, <1>7 DEF CallTypes
<1> QED BY <1>3, <1>6, <1>8, <1>9 DEF Types

\* What select reports is there.
LEMMA SelectTypes == ASSUME Types, Select PROVE Types'
<1>1. UNCHANGED <<version, ftpcVars, signals, local, window, seq, tmp_save_buf, timerVars, under,
                  faults, acks, serverVars>>
  BY DEF Select
<1>2. /\ CallTypes' /\ WindowTypes' /\ TimerTypes'
      /\ TrollTypes' /\ AckTypes' /\ ServerTypes' /\ FtpsTypes'
  BY <1>1 DEF Types, ftpcVars, window, timerVars, serverVars, CallTypes, WindowTypes, TimerTypes,
              TrollTypes, AckTypes, ServerTypes, FtpsTypes
<1>3. BlockTypes'
  BY <1>1, Zenon DEF Types, ftpcVars, BlockTypes
<1>4. LocalTypes'
  <2>1. ready' = {f \in {"local", "ack"} : IF f = "local" THEN local /= <<>> ELSE acks /= <<>>}
    BY DEF Select
  <2>2. local \in Seq(Packets) /\ local' = local /\ acks' = acks
    BY <1>1 DEF Types, LocalTypes
  <2> QED BY <2>1, <2>2 DEF LocalTypes
<1> QED BY <1>2, <1>3, <1>4 DEF Types

\* The client's tcpd of lab3 sends a packet.
LEMMA ForwardsTypes == ASSUME Types, Forwards PROVE Types'
<1>1. UNCHANGED <<version, ftpcVars, signals, window, seq, tmp_save_buf, timerVars, faults, acks,
                  serverVars>>
  BY DEF Forwards
<1>2. /\ CallTypes' /\ WindowTypes' /\ TimerTypes' /\ AckTypes' /\ ServerTypes' /\ FtpsTypes'
  BY <1>1 DEF Types, ftpcVars, window, timerVars, serverVars, CallTypes, WindowTypes, TimerTypes,
              AckTypes, ServerTypes, FtpsTypes
<1>3. BlockTypes'
  BY <1>1, Zenon DEF Types, ftpcVars, BlockTypes
<1>4. /\ local \in Seq(Packets) /\ local # <<>>
      /\ local' = Tail(local) /\ ready' = ready \ {"local"}
      /\ under' = Append(under, [pkt |-> Head(local), intact |-> TRUE, seq |-> Unknown])
  BY DEF Types, LocalTypes, Forwards, generate_TrollHeader
<1>5. LocalTypes'
  BY <1>1, <1>4 DEF Types, LocalTypes
<1>6. TrollTypes'
  <2>1. [pkt |-> Head(local), intact |-> TRUE, seq |-> Unknown] \in Datagrams
    BY <1>4 DEF Datagrams
  <2> QED BY <1>1, <1>4, <2>1 DEF Types, TrollTypes
<1> QED BY <1>2, <1>3, <1>5, <1>6 DEF Types

\* That of proj1 puts one in the temporary buffer,
LEMMA BlockSendingTypes ==
  ASSUME Types, CallInv, block_sending_and_save
  PROVE  Types'
<1>1. UNCHANGED <<version, ftpcVars, window, seq, timerVars, under, faults, acks, serverVars>>
  BY DEF block_sending_and_save
<1>2. /\ WindowTypes' /\ TimerTypes' /\ TrollTypes' /\ AckTypes' /\ ServerTypes' /\ FtpsTypes'
  BY <1>1 DEF Types, window, timerVars, serverVars, WindowTypes, TimerTypes,
              TrollTypes, AckTypes, ServerTypes, FtpsTypes
<1>3. BlockTypes'
  BY <1>1, Zenon DEF Types, ftpcVars, BlockTypes
<1>4. /\ local \in Seq(Packets) /\ local # <<>>
      /\ local' = Tail(local) /\ ready' = {}
      /\ signals' = Append(signals, "block")
      /\ tmp_save_buf' = tmp_save_buf \cup {Head(local)}
  BY DEF Types, LocalTypes, block_sending_and_save
<1>5. LocalTypes'
  BY <1>1, <1>4 DEF Types, LocalTypes
<1>6. CallTypes'
  BY <1>1, <1>4 DEF Types, CallTypes, ftpcVars
<1> QED BY <1>2, <1>3, <1>5, <1>6 DEF Types

\* or in the ring,
LEMMA LocalDataTypes ==
  ASSUME Types, CallInv, RingInv, LocalData
  PROVE  Types'
<1>1. UNCHANGED <<version, ftpcVars, tmp_save_buf, nodes, faults, acks, serverVars>>
  BY DEF LocalData
<1>2. AckTypes' /\ ServerTypes' /\ FtpsTypes'
  BY <1>1 DEF Types, serverVars, AckTypes, ServerTypes, FtpsTypes
<1>3. BlockTypes'
  BY <1>1, Zenon DEF Types, ftpcVars, BlockTypes
<1>4. local /= <<>> /\ local \in Seq(Packets) /\ version = "proj1"
  BY DEF Types, LocalTypes, LocalData
<1>5. seq + 1 \in Packets /\ Head(local) = seq + 1 /\ Tail(local) = <<>>
  BY <1>4, NextPacket
<1>6. /\ signals' = Append(signals, "received")
      /\ local' = Tail(local) /\ ready' = ready \ {"local"}
      /\ under' = Append(under, [pkt |-> Head(local), intact |-> TRUE, seq |-> seq + 1])
      /\ pipe' = Append(pipe, <<"s", seq + 1>>)
      /\ ack_bitmap' = [ack_bitmap EXCEPT ![next(last_send)] = 0]
      /\ troll_headers' = [troll_headers EXCEPT ![next(last_send)] = seq + 1]
      /\ last_send' = next(last_send) /\ num_empty' = num_empty - 1
      /\ num_empty # 0 /\ last_ack' = last_ack /\ seq' = seq + 1
  BY DEF LocalData, send_recv_to_ftpc, generate_TrollHeader, send_to_timer, save_packet, window_full
<1>7. CallTypes'
  BY <1>1, <1>6 DEF Types, CallTypes, ftpcVars
<1>8. LocalTypes'
  BY <1>1, <1>4, <1>6 DEF Types, LocalTypes
<1>9. WindowTypes'
  <2>1. next(last_send) \in Slots
    <3>1. seq \in Nat /\ last_send = Slot(seq) /\ seq + 1 \in Nat
      BY CountsAre DEF RingInv
    <3> QED BY <3>1, SlotIs
  <2>2. num_empty - 1 \in 0 .. WINDOW_SIZE /\ seq + 1 \in 0 .. N
    <3>1. WINDOW_SIZE \in Nat /\ num_empty \in 0 .. WINDOW_SIZE /\ N \in Nat
      BY CountsAre
    <3> QED BY ONLY <1>5, <1>6, <3>1 DEF Packets
  <2> QED BY <1>5, <1>6, <2>1, <2>2 DEF Types, WindowTypes
<1>10. TimerTypes'
  <2>1. <<"s", seq + 1>> \in {"s", "c"} \X (Packets \cup {Unknown})
    BY <1>5
  <2> QED BY <1>1, <1>5, <1>6, <2>1 DEF Types, TimerTypes
<1>11. TrollTypes'
  <2>1. [pkt |-> Head(local), intact |-> TRUE, seq |-> seq + 1] \in Datagrams
    BY <1>5 DEF Datagrams
  <2> QED BY <1>1, <1>6, <2>1 DEF Types, TrollTypes
<1> QED BY <1>2, <1>3, <1>7, <1>8, <1>9, <1>10, <1>11 DEF Types

\* and lets the ring slide for an ack.
LEMMA AckReadTypes ==
  ASSUME Types, RingInv, AckRead
  PROVE  Types'
<1> DEFINE a == Head(acks)
           n == Slide(Acked(a))
<1>1. UNCHANGED <<version, ftpcVars, signals, local, last_send, troll_headers, seq, tmp_save_buf, nodes,
                  under, faults, serverVars>>
  BY DEF AckRead
<1>2. CallTypes' /\ TrollTypes' /\ ServerTypes' /\ FtpsTypes'
  BY <1>1 DEF Types, ftpcVars, serverVars, CallTypes, TrollTypes, ServerTypes, FtpsTypes
<1>3. BlockTypes'
  BY <1>1, Zenon DEF Types, ftpcVars, BlockTypes
<1>4. /\ ack_bitmap' = Acked(a) /\ last_ack' = (last_ack + n) % WINDOW_SIZE
      /\ num_empty' = num_empty + n /\ pipe' = Append(pipe, <<"c", a>>)
      /\ acks' = Tail(acks) /\ ready' = ready \ {"ack"}
  BY DEF AckRead, delete_from_timer
<1>5. acks \in Seq(Packets \cup {Unknown}) /\ acks /= <<>> /\ Len(acks) <= MaxAcks /\ MaxAcks \in Nat
  BY TransferAssumption DEF Types, AckTypes, LocalTypes, AckRead
<1>6. a \in Packets \cup {Unknown} /\ acks' \in Seq(Packets \cup {Unknown}) /\ Len(acks') <= MaxAcks
  BY <1>4, <1>5
<1>7. AckTypes'
  BY <1>6 DEF AckTypes
<1>8. Acked(a) \in [Slots -> {0, 1}]
  BY AckedIs
<1>9. n \in 0 .. outstanding
  BY <1>8, SlideIs
<1> HIDE DEF a, n
<1>10. TimerTypes'
  <2>1. <<"c", a>> \in {"s", "c"} \X (Packets \cup {Unknown})
    BY <1>6
  <2> QED BY <1>1, <1>4, <2>1 DEF Types, TimerTypes
<1>11. WindowTypes'
  <2>1. last_ack' \in Slots
    <3>1. base \in Nat /\ last_ack = Slot(base) /\ n \in Nat /\ base + n \in Nat
      BY <1>9, CountsAre DEF RingInv
    <3> QED BY <1>4, <3>1, SlotIs
  <2>2. num_empty' \in 0 .. WINDOW_SIZE
    <3>1. /\ WINDOW_SIZE \in Nat /\ num_empty \in 0 .. WINDOW_SIZE
          /\ outstanding = WINDOW_SIZE - num_empty
      BY CountsAre
    <3> HIDE DEF outstanding
    <3> QED BY ONLY <1>4, <1>9, <3>1
  <2> QED BY <1>1, <1>4, <1>8, <2>1, <2>2 DEF Types, WindowTypes
<1>12. LocalTypes'
  BY <1>1, <1>4 DEF Types, LocalTypes
<1> QED BY <1>2, <1>3, <1>7, <1>10, <1>11, <1>12 DEF Types

\* A turn of the timer reads one command and drops what is due.
LEMMA TimerTurnTypes == ASSUME Types, TimerTurn PROVE Types'
<1>1. UNCHANGED <<version, ftpcVars, signals, local, ready, window, seq, tmp_save_buf, under, faults,
                  acks, serverVars>>
  BY DEF TimerTurn
<1>2. /\ CallTypes' /\ LocalTypes' /\ WindowTypes' /\ TrollTypes' /\ AckTypes' /\ ServerTypes'
      /\ FtpsTypes'
  BY <1>1 DEF Types, ftpcVars, window, serverVars, CallTypes, LocalTypes, WindowTypes, TrollTypes,
              AckTypes, ServerTypes, FtpsTypes
<1>3. BlockTypes'
  BY <1>1, Zenon DEF Types, ftpcVars, BlockTypes
<1>4. TimerTypes'
  <2>1. /\ pipe \in Seq({"s", "c"} \X (Packets \cup {Unknown})) /\ nodes \subseteq Packets
        /\ \A i \in 1 .. Len(pipe) : pipe[i][1] = "s" => pipe[i][2] \in Packets
    BY DEF Types, TimerTypes
  <2>2. pipe # <<>> /\ pipe' = Tail(pipe)
    BY DEF TimerTurn
  <2>3. PICK list \in SUBSET nodes :
          nodes' = IF Head(pipe)[1] = "s" THEN list \cup {Head(pipe)[2]}
                                          ELSE list \ {Head(pipe)[2]}
    BY DEF TimerTurn, update, insert, delele
  <2>4. Head(pipe)[1] = "s" => Head(pipe)[2] \in Packets
    BY ONLY <2>1, <2>2
  <2>5. nodes' \subseteq Packets
    BY <2>1, <2>3, <2>4
  <2>6. pipe' \in Seq({"s", "c"} \X (Packets \cup {Unknown}))
    BY ONLY <2>1, <2>2
  <2>7. \A i \in 1 .. Len(pipe') : pipe'[i][1] = "s" => pipe'[i][2] \in Packets
    <3> TAKE i \in 1 .. Len(pipe')
    <3>1. i + 1 \in 1 .. Len(pipe) /\ pipe'[i] = pipe[i + 1]
      BY ONLY <2>1, <2>2, i \in 1 .. Len(pipe')
    <3> QED BY <2>1, <3>1
  <2> QED BY <2>5, <2>6, <2>7 DEF TimerTypes
<1> QED BY <1>2, <1>3, <1>4 DEF Types

\* A datagram with another number is a datagram.
LEMMA RenumberedIs ==
  ASSUME NEW d \in Datagrams, NEW e \in Renumbered(d)
  PROVE  e \in Datagrams
<1>1. ASSUME NEW n \in Packets \cup {Unknown} PROVE [d EXCEPT !.seq = n] \in Datagrams
  BY ONLY d \in Datagrams, n \in Packets \cup {Unknown} DEF Datagrams
<1> QED BY <1>1 DEF Renumbered

\* A datagram of the troll is taken out, put at the end, changed or repeated.
LEMMA FaultTypes == ASSUME Types, Fault PROVE Types'
<1>1. UNCHANGED <<version, ftpcVars, signals, local, ready, window, seq, tmp_save_buf, timerVars, acks,
                  serverVars>>
  BY DEF Fault
<1>2. /\ CallTypes' /\ LocalTypes' /\ WindowTypes' /\ TimerTypes' /\ AckTypes' /\ ServerTypes'
      /\ FtpsTypes'
  BY <1>1 DEF Types, ftpcVars, window, timerVars, serverVars, CallTypes, LocalTypes, WindowTypes,
              TimerTypes, AckTypes, ServerTypes, FtpsTypes
<1>3. BlockTypes'
  BY <1>1, Zenon DEF Types, ftpcVars, BlockTypes
<1>4. TrollTypes'
  <2>1. under \in Seq(Datagrams) /\ faults \in 0 .. MaxFaults /\ MaxFaults \in Nat
    BY TransferAssumption DEF Types, TrollTypes
  <2>2. faults' \in 0 .. MaxFaults
    BY <2>1 DEF Fault
  <2>3. PICK i \in DOMAIN under :
          \/ under' = RemoveAt(under, i)
          \/ under' = Append(RemoveAt(under, i), under[i])
          \/ under' = [under EXCEPT ![i].intact = FALSE]
          \/ \E d \in Renumbered(under[i]) : under' \in {ReplaceAt(under, i, d), Append(under, d)}
    BY DEF Fault
  <2>4. under[i] \in Datagrams /\ i \in 1 .. Len(under)
    BY <2>1
  <2>5. RemoveAt(under, i) \in Seq(Datagrams)
    <3>1. /\ SubSeq(under, 1, i - 1) \in Seq(Datagrams)
          /\ SubSeq(under, i + 1, Len(under)) \in Seq(Datagrams)
      BY ONLY <2>1, <2>4
    <3> QED BY <3>1 DEF RemoveAt
  <2>6. Append(RemoveAt(under, i), under[i]) \in Seq(Datagrams)
    BY ONLY <2>4, <2>5
  <2>7. [under EXCEPT ![i] = [under[i] EXCEPT !.intact = FALSE]] \in Seq(Datagrams)
    <3>1. [under[i] EXCEPT !.intact = FALSE] \in Datagrams
      BY ONLY <2>4 DEF Datagrams
    <3> QED BY ONLY <2>1, <2>4, <3>1
  <2>8. ASSUME NEW d \in Renumbered(under[i])
        PROVE  ReplaceAt(under, i, d) \in Seq(Datagrams) /\ Append(under, d) \in Seq(Datagrams)
    <3>1. d \in Datagrams
      BY <2>4, RenumberedIs
    <3> QED BY ONLY <2>1, <2>4, <3>1 DEF ReplaceAt
  <2>9. under' \in Seq(Datagrams)
    BY <2>3, <2>5, <2>6, <2>7, <2>8
  <2> QED BY <2>2, <2>9 DEF TrollTypes
<1> QED BY <1>2, <1>3, <1>4 DEF Types

\* The server's tcpd of lab3 forwards a body.
LEMMA ForwardsRemoteTypes == ASSUME Types, ForwardsRemote PROVE Types'
<1>1. UNCHANGED <<version, ftpcVars, signals, local, ready, window, seq, tmp_save_buf, timerVars,
                  faults, acks, forwarded, misread, taken, ftps>>
  BY DEF ForwardsRemote
<1>2. /\ CallTypes' /\ LocalTypes' /\ WindowTypes' /\ TimerTypes' /\ AckTypes' /\ FtpsTypes'
  BY <1>1 DEF Types, ftpcVars, window, timerVars, CallTypes, LocalTypes, WindowTypes,
              TimerTypes, AckTypes, FtpsTypes
<1>3. BlockTypes'
  BY <1>1, Zenon DEF Types, ftpcVars, BlockTypes
<1>4. TrollTypes' /\ ServerTypes'
  <2>1. under \in Seq(Datagrams) /\ under # <<>> /\ under' = Tail(under) /\ inbox \in Seq(Bodies)
    BY DEF Types, TrollTypes, ServerTypes, ForwardsRemote
  <2>2. Head(under) \in Datagrams
    BY ONLY <2>1
  <2>3. [pkt |-> Head(under).pkt, intact |-> Head(under).intact] \in Bodies
    BY ONLY <2>2 DEF Datagrams, Bodies
  <2>4. inbox' = Append(inbox, [pkt |-> Head(under).pkt, intact |-> Head(under).intact])
    BY DEF ForwardsRemote
  <2>5. inbox' \in Seq(Bodies) /\ under' \in Seq(Datagrams)
    BY ONLY <2>1, <2>3, <2>4
  <2> QED BY <1>1, <2>5 DEF Types, TrollTypes, ServerTypes
<1> QED BY <1>2, <1>3, <1>4 DEF Types

\* That of proj1 also acknowledges the number it was sent with.
LEMMA RemoteDataTypes == ASSUME Types, RemoteData PROVE Types'
<1>1. UNCHANGED <<version, ftpcVars, signals, local, ready, window, seq, tmp_save_buf, timerVars, faults,
                  taken, ftps>>
  BY DEF RemoteData
<1>2. /\ CallTypes' /\ WindowTypes' /\ TimerTypes' /\ FtpsTypes'
  BY <1>1 DEF Types, ftpcVars, window, timerVars, CallTypes, WindowTypes, TimerTypes, FtpsTypes
<1>3. BlockTypes'
  BY <1>1, Zenon DEF Types, ftpcVars, BlockTypes
<1>4. /\ under \in Seq(Datagrams) /\ under # <<>> /\ under' = Tail(under) /\ inbox \in Seq(Bodies)
      /\ inbox' = Append(inbox, [pkt |-> Head(under).pkt, intact |-> Head(under).intact])
      /\ acks' = Append(acks, Head(under).seq) /\ acks \in Seq(Packets \cup {Unknown})
      /\ Len(acks) < MaxAcks /\ MaxAcks \in Nat
  BY TransferAssumption DEF Types, TrollTypes, ServerTypes, AckTypes, RemoteData
<1>5. Head(under) \in Datagrams
  BY ONLY <1>4
<1>6. /\ [pkt |-> Head(under).pkt, intact |-> Head(under).intact] \in Bodies
      /\ Head(under).seq \in Packets \cup {Unknown}
  BY ONLY <1>5 DEF Datagrams, Bodies
<1>7. /\ inbox' \in Seq(Bodies) /\ under' \in Seq(Datagrams)
      /\ acks' \in Seq(Packets \cup {Unknown}) /\ Len(acks') <= MaxAcks /\ acks' # <<>>
  BY ONLY <1>4, <1>6
<1>8. TrollTypes' /\ ServerTypes' /\ AckTypes' /\ LocalTypes'
  BY <1>1, <1>7 DEF Types, TrollTypes, ServerTypes, AckTypes, LocalTypes
<1> QED BY <1>2, <1>3, <1>8 DEF Types

\* Where process_request is after bytes of the file.
LEMMA BodyIs ==
  ASSUME NEW left \in Int, NEW got \in Seq(Int)
  PROVE  Body(left, got) \in [at : {"len", "name", "body", "closed"}, rec_len : 0 .. NameSize + 1,
                              left : Int, got : Seq(Int)]
<1>1. 0 \in 0 .. NameSize + 1 /\ <<>> \in Seq(Int)
  BY DEF NameSize
<1>2. CASE Left(left)
  BY <1>1, <1>2 DEF Body
<1>3. CASE ~ Left(left)
  <2>1. \/ AfterFile = [at |-> "closed", rec_len |-> 0, left |-> 0, got |-> <<>>]
        \/ AfterFile = [at |-> "len", rec_len |-> 0, left |-> 0, got |-> <<>>]
    BY DEF AfterFile, AtLen
  <2>2. Body(left, got) = [AfterFile EXCEPT !.got = got]
    BY <1>3 DEF Body
  <2>3. \/ Body(left, got) = [at |-> "closed", rec_len |-> 0, left |-> 0, got |-> got]
        \/ Body(left, got) = [at |-> "len", rec_len |-> 0, left |-> 0, got |-> got]
    BY ONLY <2>1, <2>2
  <2> QED BY ONLY <1>1, <2>3, got \in Seq(Int)
<1> QED BY <1>2, <1>3

\* process_request of lab3 and proj1 takes one datagram.
LEMMA RecvTypes == ASSUME Types, RecvLength \/ RecvName \/ RecvBody PROVE Types'
<1> DEFINE b == Head(inbox)
<1>1. /\ UNCHANGED <<version, ftpcVars, signals, local, ready, window, seq, tmp_save_buf, timerVars,
                     under, faults, acks, forwarded, misread, taken>>
      /\ inbox # <<>> /\ inbox' = Tail(inbox)
  BY DEF RecvLength, RecvName, RecvBody, RECV
<1>2. /\ CallTypes' /\ LocalTypes' /\ WindowTypes' /\ TimerTypes' /\ AckTypes' /\ TrollTypes'
  BY <1>1 DEF Types, ftpcVars, window, timerVars, CallTypes, LocalTypes, WindowTypes,
              TimerTypes, AckTypes, TrollTypes
<1>3. BlockTypes'
  BY <1>1, Zenon DEF Types, ftpcVars, BlockTypes
<1>4. inbox \in Seq(Bodies)
  BY DEF Types, ServerTypes
<1>5. b \in Bodies /\ inbox' \in Seq(Bodies)
  BY ONLY <1>1, <1>4
<1> HIDE DEF b
<1>6. b.pkt \in Packets /\ Sizes[b.pkt] \in Nat
  <2>1. b.pkt \in Packets
    BY ONLY <1>5 DEF Bodies
  <2> QED BY <2>1, TransferAssumption DEF Packets, N
<1>7. FileLen \in Int /\ Garbage \subseteq Int
  BY WrittenIs, TransferAssumption
<1>8. ftps \in [at : {"len", "name", "body", "closed"}, rec_len : 0 .. NameSize + 1,
                left : Int, got : Seq(Int)]
  BY DEF Types, FtpsTypes
<1>9. /\ ftps.at \in {"len", "name", "body", "closed"} /\ ftps.rec_len \in Nat
      /\ ftps.left \in Int /\ ftps.got \in Seq(Int) /\ NameSize = 25
      /\ ftps.rec_len <= NameSize + 1
  <2>1. /\ ftps.at \in {"len", "name", "body", "closed"} /\ ftps.rec_len \in 0 .. NameSize + 1
        /\ ftps.left \in Int /\ ftps.got \in Seq(Int)
    BY ONLY <1>8
  <2>2. NameSize = 25
    BY DEF NameSize
  <2>3. ftps.rec_len \in Nat /\ ftps.rec_len <= NameSize + 1
    <3>1. ftps.rec_len \in 0 .. NameSize + 1
      BY <2>1
    <3> QED BY ONLY <2>2, <3>1
  <2> QED BY ONLY <2>1, <2>2, <2>3, Zenon
<1>10. FtpsTypes'
  <2>1. CASE RecvLength
    <3>1. PICK n \in {FileLen} \cup Garbage :
            ftps' = [at |-> "name", rec_len |-> 0, left |-> n, got |-> <<>>]
      BY <1>7, <2>1 DEF RecvLength
    <3>2. n \in Int /\ 0 \in 0 .. NameSize + 1 /\ <<>> \in Seq(Int)
      BY <1>7, <1>9
    <3> QED BY <1>1, <3>1, <3>2 DEF FtpsTypes, Types
  <2>2. CASE RecvName
    <3> DEFINE r == ftps.rec_len + Min({NameSize, Sizes[b.pkt]})
    <3>1. \/ ftps' = Body(ftps.left, <<>>)
          \/ ftps' = [ftps EXCEPT !.rec_len = Min({r, NameSize + 1})]
      BY <2>2 DEF RecvName, b
    <3>2. Min({NameSize, Sizes[b.pkt]}) \in Nat
      <4>1. NameSize \in Int /\ NameSize >= 0 /\ Sizes[b.pkt] \in Int /\ Sizes[b.pkt] >= 0
        BY ONLY <1>6, <1>9
      <4>2. Min({NameSize, Sizes[b.pkt]}) \in {NameSize, Sizes[b.pkt]}
        BY <4>1, MinOfTwo
      <4> QED BY ONLY <4>1, <4>2
    <3>3. r \in Nat
      BY <1>9, <3>2
    <3> HIDE DEF r
    <3>4. Min({r, NameSize + 1}) \in 0 .. NameSize + 1
      <4>1. r \in Int /\ NameSize + 1 \in Int /\ NameSize + 1 >= 0 /\ r >= 0
        BY ONLY <1>9, <3>3
      <4>2. /\ Min({r, NameSize + 1}) \in {r, NameSize + 1}
            /\ Min({r, NameSize + 1}) <= NameSize + 1
        BY <4>1, MinOfTwo
      <4> QED BY ONLY <4>1, <4>2
    <3>5. <<>> \in Seq(Int)
      OBVIOUS
    <3>6. CASE ftps' = Body(ftps.left, <<>>)
      BY <1>1, <1>9, <3>5, <3>6, BodyIs DEF FtpsTypes, Types
    <3>7. CASE ftps' = [ftps EXCEPT !.rec_len = Min({r, NameSize + 1})]
      <4>1. ftps' \in [at : {"len", "name", "body", "closed"}, rec_len : 0 .. NameSize + 1,
                       left : Int, got : Seq(Int)]
        BY ONLY <1>8, <3>4, <3>7
      <4> QED BY <1>1, <4>1 DEF FtpsTypes, Types
    <3> QED BY <3>1, <3>6, <3>7
  <2>3. CASE RecvBody
    <3> DEFINE x == IF b.intact THEN b.pkt ELSE Unknown
    <3>1. ftps' = Body(ftps.left - Sizes[b.pkt], Append(ftps.got, x))
      BY <2>3 DEF RecvBody, b
    <3>2. x \in Int
      BY <1>6, TransferAssumption DEF Packets, N, Unknown
    <3>3. ftps.left - Sizes[b.pkt] \in Int /\ Append(ftps.got, x) \in Seq(Int)
      BY ONLY <1>6, <1>9, <3>2
    <3> QED BY <1>1, <3>1, <3>3, BodyIs DEF FtpsTypes, Types
  <2> QED BY <2>1, <2>2, <2>3
<1>11. ServerTypes'
  BY <1>5 DEF ServerTypes
<1> QED BY <1>2, <1>3, <1>10, <1>11 DEF Types

\* A read of lab2 returns a number of bytes.
LEMMA ReadableIs ==
  ASSUME Types, Written > 0, NEW n \in Nat, NEW k \in Readable(n)
  PROVE  k \in Nat
<1>1. Written \in Int /\ n \in Int /\ n >= 0
  BY WrittenIs
<1>2. Min({n, Written}) \in Nat
  <2>1. Min({n, Written}) \in {n, Written}
    BY <1>1, MinOfTwo
  <2>2. Written > 0
    OBVIOUS
  <2> HIDE DEF Written
  <2> QED BY ONLY <1>1, <2>1, <2>2
<1>3. (Min({n, Written}) + 1) \div 2 \in Nat
  BY ONLY <1>2
<1> QED BY <1>2, <1>3 DEF Readable

\* What a read leaves alone.
LEMMA ReadTypes ==
  ASSUME Types, NEW k \in Nat, read(k)
  PROVE  /\ CallTypes' /\ BlockTypes' /\ LocalTypes' /\ WindowTypes' /\ TimerTypes'
         /\ AckTypes' /\ ServerTypes' /\ under' = under /\ taken' \in Int /\ taken + k \in Int
<1>1. /\ UNCHANGED <<version, ftpcVars, signals, local, ready, window, seq, tmp_save_buf, timerVars,
                     under, acks, inbox, forwarded, misread>>
      /\ taken' = taken + k
  BY DEF read
<1>2. /\ CallTypes' /\ LocalTypes' /\ WindowTypes' /\ TimerTypes' /\ AckTypes' /\ ServerTypes'
  BY <1>1 DEF Types, ftpcVars, window, timerVars, CallTypes, LocalTypes, WindowTypes,
              TimerTypes, AckTypes, ServerTypes
<1>3. BlockTypes'
  BY <1>1, Zenon DEF Types, ftpcVars, BlockTypes
<1>4. taken \in Int
  BY DEF Types, FtpsTypes
<1>5. taken' \in Int /\ taken + k \in Int
  BY ONLY <1>1, <1>4, k \in Nat
<1> QED BY <1>1, <1>2, <1>3, <1>5

\* The length and the name of lab2.
LEMMA ReadHeaderTypes ==
  ASSUME Types, NEW at \in {"len", "name"}, NEW size \in 0 .. NameSize, ReadHeader(at, size)
  PROVE  Types'
<1>1. /\ ftps.at = at
      /\ \E k \in Readable(size) :
       /\ read(k)
       /\ \/ faults' = faults
          \/ faults < MaxFaults /\ faults' = faults + 1
       /\ \/ ftps' = [ftps EXCEPT !.rec_len = Min({ftps.rec_len + k, size + 1})]
          \/ ftps' = Body(ftps.left, <<taken + k>>)
          \/ \E n \in {FileLen} \cup Garbage :
               ftps' = [at |-> "name", rec_len |-> 0, left |-> n, got |-> <<>>]
  BY DEF ReadHeader
<1>2. PICK k \in Readable(size) :
       /\ read(k)
       /\ \/ faults' = faults
          \/ faults < MaxFaults /\ faults' = faults + 1
       /\ \/ ftps' = [ftps EXCEPT !.rec_len = Min({ftps.rec_len + k, size + 1})]
          \/ ftps' = Body(ftps.left, <<taken + k>>)
          \/ \E n \in {FileLen} \cup Garbage :
               ftps' = [at |-> "name", rec_len |-> 0, left |-> n, got |-> <<>>]
  BY <1>1
<1>3. k \in Nat
  <2>1. Written > 0 /\ size \in Nat
    BY <1>2 DEF read, NameSize
  <2> QED BY <2>1, ReadableIs
<1>4. /\ CallTypes' /\ BlockTypes' /\ LocalTypes' /\ WindowTypes' /\ TimerTypes'
      /\ AckTypes' /\ ServerTypes' /\ under' = under /\ taken' \in Int /\ taken + k \in Int
  BY <1>2, <1>3, ReadTypes
<1>5. TrollTypes'
  <2>1. faults \in 0 .. MaxFaults /\ MaxFaults \in Nat /\ under \in Seq(Datagrams)
    BY TransferAssumption DEF Types, TrollTypes
  <2>2. faults' \in 0 .. MaxFaults
    BY ONLY <1>2, <2>1
  <2> QED BY <1>4, <2>1, <2>2 DEF TrollTypes
<1>6. ftps \in [at : {"len", "name", "body", "closed"}, rec_len : 0 .. NameSize + 1,
                left : Int, got : Seq(Int)]
  BY DEF Types, FtpsTypes
<1>7. ftps.rec_len \in Nat /\ ftps.left \in Int /\ NameSize = 25 /\ size \in Nat /\ size <= NameSize
  <2>1. ftps.rec_len \in 0 .. NameSize + 1 /\ ftps.left \in Int
    BY ONLY <1>6
  <2>2. NameSize = 25
    BY DEF NameSize
  <2> QED BY ONLY <2>1, <2>2, size \in 0 .. NameSize
<1>8. ftps' \in [at : {"len", "name", "body", "closed"}, rec_len : 0 .. NameSize + 1,
                 left : Int, got : Seq(Int)]
  <2>1. CASE ftps' = [ftps EXCEPT !.rec_len = Min({ftps.rec_len + k, size + 1})]
    <3> DEFINE r == ftps.rec_len + k
    <3>1. r \in Int /\ r >= 0 /\ size + 1 \in Int /\ size + 1 >= 0 /\ size + 1 <= NameSize + 1
      BY <1>3, <1>7
    <3> HIDE DEF r
    <3>2. Min({r, size + 1}) \in 0 .. NameSize + 1
      <4>1. Min({r, size + 1}) \in {r, size + 1} /\ Min({r, size + 1}) <= size + 1
        BY <3>1, MinOfTwo
      <4> QED BY ONLY <1>7, <3>1, <4>1
    <3>3. ftps' = [ftps EXCEPT !.rec_len = Min({r, size + 1})]
      BY <2>1 DEF r
    <3> QED BY ONLY <1>6, <3>2, <3>3
  <2>2. CASE ftps' = Body(ftps.left, <<taken + k>>)
    <3>1. <<taken + k>> \in Seq(Int)
      BY <1>4
    <3> QED BY <1>7, <2>2, <3>1, BodyIs
  <2>3. ASSUME NEW n \in {FileLen} \cup Garbage,
               ftps' = [at |-> "name", rec_len |-> 0, left |-> n, got |-> <<>>]
        PROVE  ftps' \in [at : {"len", "name", "body", "closed"}, rec_len : 0 .. NameSize + 1,
                          left : Int, got : Seq(Int)]
    <3>1. n \in Int
      BY WrittenIs, TransferAssumption
    <3>2. 0 \in 0 .. NameSize + 1 /\ <<>> \in Seq(Int)
      BY ONLY <1>7
    <3> QED BY ONLY <2>3, <3>1, <3>2
  <2> QED BY <1>2, <2>1, <2>2, <2>3
<1> QED BY <1>4, <1>5, <1>8 DEF Types, FtpsTypes

\* The file of lab2.
LEMMA ReadBodyTypes == ASSUME Types, ReadBody PROVE Types'
<1>1. PICK k \in Readable(1000) : read(k) /\ ftps' = Body(ftps.left - k, ftps.got)
  BY DEF ReadBody
<1>2. k \in Nat
  <2>1. Written > 0 /\ 1000 \in Nat
    BY <1>1 DEF read
  <2> QED BY <2>1, ReadableIs
<1>3. /\ CallTypes' /\ BlockTypes' /\ LocalTypes' /\ WindowTypes' /\ TimerTypes'
      /\ AckTypes' /\ ServerTypes' /\ under' = under /\ taken' \in Int
  BY <1>1, <1>2, ReadTypes
<1>4. TrollTypes'
  BY <1>3 DEF Types, TrollTypes, ReadBody
<1>5. ftps.left - k \in Int /\ ftps.got \in Seq(Int)
  BY <1>2 DEF Types, FtpsTypes
<1>6. FtpsTypes'
  BY <1>1, <1>3, <1>5, BodyIs DEF FtpsTypes
<1> QED BY <1>3, <1>4, <1>6 DEF Types

\* Every step keeps the types.
LEMMA NextTypes == ASSUME Types, CallInv, RingInv, Next PROVE Types'
<1>1. 4 \in 0 .. NameSize /\ NameSize \in 0 .. NameSize
  BY DEF NameSize
<1>2. CASE process_request
  <2>1. CASE RecvLength \/ RecvName \/ RecvBody
    BY <2>1, RecvTypes
  <2>2. CASE ReadHeader("len", 4) \/ ReadHeader("name", NameSize)
    BY <1>1, <2>2, ReadHeaderTypes
  <2>3. CASE ReadBody
    BY <2>3, ReadBodyTypes
  <2> QED BY <1>2, <2>1, <2>2, <2>3 DEF process_request
<1> QED BY <1>2, ClientTypes, SelectTypes, ForwardsTypes, BlockSendingTypes, LocalDataTypes,
           AckReadTypes, TimerTurnTypes, FaultTypes, ForwardsRemoteTypes, RemoteDataTypes
        DEF Next, Client, Tcpd, ServerTcpd

-----------------------------------------------------------------------------
(* The SEND that waits                                                     *)

\* What CallInv is about.
callVars == <<version, call, local, signals, seq, sends, tmp_save_buf, blocking>>

\* A step that leaves it alone keeps it.
LEMMA CallStays ==
  ASSUME CallInv, UNCHANGED callVars,
         version # "proj1" => UNCHANGED <<num_empty, acks, pipe>>
  PROVE  CallInv'
<1>1. /\ Idle' <=> Idle
      /\ Handed' <=> Handed
      /\ Received' <=> Received
      /\ Blocked' <=> Blocked
      /\ Stuck' <=> Stuck
  BY Zenon DEF callVars, Idle, Handed, Received, Blocked, Stuck
<1>2. version = "proj1" => CallInv'
  BY <1>1, Zenon DEF CallInv, callVars
<1>3. version # "proj1" => CallInv'
  BY Zenon DEF CallInv, callVars
<1> QED BY <1>2, <1>3

\* A SEND hands its packet over, is answered, and returns or is stuck.
LEMMA SendCall ==
  ASSUME Types, CallInv, RingInv,
         SEND \/ Signalled \/ block_sending_and_save \/ LocalData
  PROVE  CallInv'
<1>0. sends \in Nat /\ N \in Nat
  BY TransferAssumption DEF Types, CallTypes, N
<1>1. CASE SEND
  <2>1. Idle /\ version = "proj1"
    BY <1>1 DEF SEND, CallInv, Idle, Handed, Received, Blocked, Stuck
  <2>2. Append(<<>>, sends + 1) = <<sends + 1>>
    OBVIOUS
  <2>3. /\ call' = "wait" /\ local' = <<sends + 1>> /\ signals' = signals /\ seq' = seq
        /\ sends' = sends /\ tmp_save_buf' = tmp_save_buf /\ blocking' = blocking
        /\ sends < N /\ version' = version
    BY <1>1, <2>1, <2>2, Zenon DEF SEND, Idle
  <2>4. Handed'
    BY <2>1, <2>3, Zenon DEF Idle, Handed
  <2> QED BY <2>1, <2>3, <2>4 DEF CallInv
<1>2. CASE Signalled
  <2>1. /\ version' = version /\ local' = local /\ seq' = seq /\ tmp_save_buf' = tmp_save_buf
        /\ signals' = Tail(signals) /\ signals # <<>> /\ call = "wait"
    BY <1>2 DEF Signalled
  <2>2. version = "proj1" /\ sends < N /\ (Received \/ Blocked)
    BY <2>1 DEF CallInv, Idle, Handed, Received, Blocked, Stuck
  <2>3. CASE Received
    <3>1. Head(signals) = "received" /\ Tail(signals) = <<>> /\ Head(signals) # "block"
      BY <2>3 DEF Received
    <3>2. call' = "idle" /\ sends' = sends + 1
          /\ blocking' = (blocking /\ Head(signals) # "unblock")
      BY <1>2, <3>1, Zenon DEF Signalled
    <3>3. ~ blocking'
      BY <2>3, <3>2, Zenon DEF Received
    <3>4. local' = <<>> /\ signals' = <<>> /\ seq' = sends' /\ tmp_save_buf' = {}
      BY <2>1, <2>3, <3>1, <3>2 DEF Received
    <3>5. Idle'
      BY <3>2, <3>3, <3>4, Zenon DEF Idle
    <3> QED BY <2>1, <2>2, <3>2, <3>5 DEF CallInv
  <2>4. CASE Blocked
    <3>1. Head(signals) = "block" /\ Tail(signals) = <<>>
      BY <2>4 DEF Blocked
    <3>2. call' = call /\ sends' = sends /\ blocking' = TRUE
      BY <1>2, <3>1, Zenon DEF Signalled
    <3>3. Stuck'
      BY <2>1, <2>4, <3>1, <3>2, Zenon DEF Blocked, Stuck
    <3> QED BY <2>1, <2>2, <3>2, <3>3 DEF CallInv
  <2> QED BY <2>2, <2>3, <2>4
<1>3. CASE block_sending_and_save
  <2>1. /\ version = "proj1" /\ version' = version /\ call' = call /\ sends' = sends
        /\ blocking' = blocking /\ seq' = seq /\ local # <<>>
        /\ signals' = Append(signals, "block") /\ local' = Tail(local)
        /\ tmp_save_buf' = tmp_save_buf \cup {Head(local)}
    BY <1>3 DEF block_sending_and_save, ftpcVars, Types, LocalTypes
  <2>2. Handed /\ Head(local) = seq + 1 /\ Tail(local) = <<>> /\ sends < N
    BY <2>1, NextPacket DEF CallInv, Handed
  <2>3. Append(<<>>, "block") = <<"block">>
    OBVIOUS
  <2>4. /\ call = "wait" /\ signals = <<>> /\ seq = sends /\ tmp_save_buf = {}
    BY <2>2 DEF Handed
  <2>5. tmp_save_buf' = {sends + 1} /\ signals' = <<"block">> /\ local' = <<>> /\ call' = "wait"
        /\ seq' = sends'
    BY <2>1, <2>2, <2>3, <2>4
  <2>6. ~ blocking'
    BY <2>1, <2>2, Zenon DEF Handed
  <2>7. Blocked'
    BY <2>1, <2>5, <2>6, Zenon DEF Blocked
  <2> QED BY <2>1, <2>2, <2>7 DEF CallInv
<1>4. CASE LocalData
  <2>1. /\ version = "proj1" /\ version' = version /\ call' = call /\ sends' = sends
        /\ blocking' = blocking /\ seq' = seq + 1 /\ local # <<>>
        /\ signals' = Append(signals, "received") /\ local' = Tail(local)
        /\ tmp_save_buf' = tmp_save_buf
    BY <1>4 DEF LocalData, send_recv_to_ftpc, ftpcVars, Types, LocalTypes
  <2>2. Handed /\ Tail(local) = <<>> /\ sends < N
    BY <2>1, NextPacket DEF CallInv, Handed
  <2>3. Append(<<>>, "received") = <<"received">>
    OBVIOUS
  <2>4. /\ call = "wait" /\ signals = <<>> /\ seq = sends /\ tmp_save_buf = {}
    BY <2>2 DEF Handed
  <2>5. tmp_save_buf' = {} /\ signals' = <<"received">> /\ local' = <<>> /\ call' = "wait"
        /\ seq' = sends' + 1
    BY <2>1, <2>2, <2>3, <2>4
  <2>6. ~ blocking'
    BY <2>1, <2>2, Zenon DEF Handed
  <2>7. Received'
    BY <2>5, <2>6, Zenon DEF Received
  <2> QED BY <2>1, <2>2, <2>7 DEF CallInv
<1> QED BY <1>1, <1>2, <1>3, <1>4

\* A turn of a loop of lab2 is a read.
LEMMA HeaderReads ==
  ASSUME NEW at, NEW size, ReadHeader(at, size)
  PROVE  \E k \in Readable(size) : read(k)
BY SMT DEF ReadHeader

LEMMA BodyIsRead == ASSUME ReadBody PROVE \E k \in Readable(1000) : read(k)
BY Zenon DEF ReadBody

\* process_request reads the inbox or the stream, and nothing of the client.
LEMMA RequestLeaves ==
  ASSUME process_request
  PROVE  UNCHANGED <<version, ftpcVars, signals, local, window, seq, tmp_save_buf, timerVars, acks,
                     forwarded, misread>>
<1>1. CASE RecvLength \/ RecvName \/ RecvBody
  <2>1. RECV
    BY <1>1, Zenon DEF RecvLength, RecvName, RecvBody
  <2> QED BY <2>1, Zenon DEF RECV
<1>2. CASE ReadHeader("len", 4) \/ ReadHeader("name", NameSize) \/ ReadBody
  <2>1. \E k : read(k)
    BY <1>2, HeaderReads, BodyIsRead
  <2> QED BY <2>1, Zenon DEF read
<1> QED BY <1>1, <1>2, Zenon DEF process_request

\* Every step keeps CallInv.
LEMMA NextCall == ASSUME Types, CallInv, RingInv, Next PROVE CallInv'
<1>1. CASE SEND \/ Signalled \/ block_sending_and_save \/ LocalData
  BY <1>1, SendCall
<1>2. CASE Writes \/ SendsAway \/ Forwards
  <2>1. /\ version # "proj1"
        /\ UNCHANGED <<version, call, signals, seq, tmp_save_buf, blocking, num_empty, acks, pipe>>
    BY <1>2 DEF Writes, SendsAway, Forwards, ftpcVars, window, timerVars
  <2> QED BY <2>1, Zenon DEF CallInv
<1>3. CASE Select \/ Fault \/ ForwardsRemote
  <2>1. UNCHANGED callVars /\ UNCHANGED <<num_empty, acks, pipe>>
    BY <1>3 DEF Select, Fault, ForwardsRemote, callVars, ftpcVars, window, timerVars
  <2> QED BY <2>1, CallStays
<1>4. CASE AckRead
  <2>1. UNCHANGED callVars /\ acks # <<>>
    BY <1>4 DEF AckRead, callVars, ftpcVars, Types, LocalTypes
  <2>2. version = "proj1"
    BY <2>1 DEF CallInv
  <2> QED BY <2>1, <2>2, CallStays
<1>5. CASE TimerTurn
  <2>1. UNCHANGED callVars /\ pipe # <<>>
    BY <1>5 DEF TimerTurn, callVars, ftpcVars
  <2>2. version = "proj1"
    BY <2>1 DEF CallInv
  <2> QED BY <2>1, <2>2, CallStays
<1>6. CASE RemoteData
  <2>1. UNCHANGED callVars /\ version = "proj1"
    BY <1>6 DEF RemoteData, callVars, ftpcVars
  <2> QED BY <2>1, CallStays
<1>7. CASE process_request
  <2>1. UNCHANGED callVars /\ UNCHANGED <<num_empty, acks, pipe>>
    BY <1>7, RequestLeaves, Zenon DEF callVars, ftpcVars, window, timerVars
  <2> QED BY <2>1, CallStays
<1> QED BY <1>1, <1>2, <1>3, <1>4, <1>5, <1>6, <1>7 DEF Next, Client, Tcpd, ServerTcpd

-----------------------------------------------------------------------------
(* The ring                                                                *)

\* What a packet of ftpc changes: the count and the slot after the last.
LEMMA SaveIs ==
  ASSUME Types, CallInv, RingInv, LocalData
  PROVE  /\ base' = base /\ seq' = seq + 1 /\ Window' = base + 1 .. seq + 1
         /\ last_ack' = last_ack /\ last_send' = Slot(seq + 1) /\ Slot(seq + 1) \in Slots
         /\ troll_headers'[Slot(seq + 1)] = seq + 1 /\ ack_bitmap'[Slot(seq + 1)] = 0
         /\ \A k \in Window : /\ Slot(k) \in Slots /\ Slot(k) # Slot(seq + 1)
                              /\ troll_headers'[Slot(k)] = troll_headers[Slot(k)]
                              /\ ack_bitmap'[Slot(k)] = ack_bitmap[Slot(k)]
<1>1. /\ WINDOW_SIZE \in Nat \ {0} /\ num_empty \in 0 .. WINDOW_SIZE
      /\ outstanding \in 0 .. WINDOW_SIZE /\ outstanding = WINDOW_SIZE - num_empty
      /\ N \in Nat /\ seq \in 0 .. N /\ base \in 0 .. seq /\ base \in Nat
      /\ seq = base + outstanding
  BY CountsAre
<1>2. /\ ack_bitmap' = [ack_bitmap EXCEPT ![next(last_send)] = 0]
      /\ troll_headers' = [troll_headers EXCEPT ![next(last_send)] = seq + 1]
      /\ last_send' = next(last_send) /\ num_empty' = num_empty - 1
      /\ num_empty # 0 /\ last_ack' = last_ack /\ seq' = seq + 1
  BY DEF LocalData, save_packet, window_full
<1>3. seq \in Nat /\ last_send = Slot(seq) /\ seq + 1 \in Nat
  BY <1>1 DEF RingInv
<1>4. next(last_send) = Slot(seq + 1) /\ Slot(seq + 1) \in Slots
  BY <1>3, SlotIs
<1>5. base' = base
  <2>1. base = seq - (WINDOW_SIZE - num_empty) /\ base' = seq' - (WINDOW_SIZE - num_empty')
    BY DEF base, outstanding
  <2> HIDE DEF base
  <2> QED BY ONLY <1>1, <1>2, <2>1
<1>6. Window' = base + 1 .. seq + 1
  BY <1>2, <1>5 DEF Window
<1>7. ack_bitmap \in [Slots -> {0, 1}] /\ troll_headers \in [Slots -> Packets \cup {Unknown}]
  BY DEF Types, WindowTypes
<1>8. ASSUME NEW k \in Window
      PROVE  /\ Slot(k) \in Slots /\ Slot(k) # Slot(seq + 1)
             /\ troll_headers'[Slot(k)] = troll_headers[Slot(k)]
             /\ ack_bitmap'[Slot(k)] = ack_bitmap[Slot(k)]
  <2>1. k \in base + 1 .. seq
    BY DEF Window
  <2>2. outstanding < WINDOW_SIZE
    <3> HIDE DEF outstanding
    <3> QED BY ONLY <1>1, <1>2
  <2>3. k \in Nat /\ k < seq + 1 /\ seq + 1 - k < WINDOW_SIZE
    <3> HIDE DEF outstanding, base
    <3> QED BY ONLY <1>1, <2>1, <2>2
  <2>4. Slot(k) # Slot(seq + 1)
    BY <1>3, <2>3, SlotsDiffer
  <2>5. Slot(k) \in Slots
    BY <2>3, SlotIs
  <2> QED BY ONLY <1>2, <1>4, <1>7, <2>4, <2>5
<1>9. troll_headers'[Slot(seq + 1)] = seq + 1 /\ ack_bitmap'[Slot(seq + 1)] = 0
  BY ONLY <1>2, <1>4, <1>7
<1> QED BY <1>2, <1>4, <1>5, <1>6, <1>8, <1>9

\* What an ack changes: its bit, and how far the window slides.
LEMMA AckIs ==
  ASSUME Types, RingInv, AckRead
  PROVE  \E n \in 0 .. outstanding :
           /\ base' = base + n /\ base + n <= seq /\ seq' = seq
           /\ Window' = base + n + 1 .. seq
           /\ last_ack' = Slot(base + n) /\ last_send' = last_send
           /\ troll_headers' = troll_headers /\ ack_bitmap' = Acked(Head(acks))
           /\ \A k \in base + 1 .. base + n : k \in Window /\ Acked(Head(acks))[Slot(k)] = 1
           /\ base + n < seq => Acked(Head(acks))[Slot(base + n + 1)] = 0
<1> DEFINE b == Acked(Head(acks))
           n == Slide(b)
<1>1. /\ WINDOW_SIZE \in Nat \ {0} /\ num_empty \in 0 .. WINDOW_SIZE
      /\ outstanding \in 0 .. WINDOW_SIZE /\ outstanding = WINDOW_SIZE - num_empty
      /\ N \in Nat /\ seq \in 0 .. N /\ base \in 0 .. seq /\ base \in Nat
      /\ seq = base + outstanding
  BY CountsAre
<1>2. /\ ack_bitmap' = b /\ last_ack' = (last_ack + n) % WINDOW_SIZE
      /\ num_empty' = num_empty + n /\ last_send' = last_send
      /\ troll_headers' = troll_headers /\ seq' = seq
  BY DEF AckRead
<1>3. b \in [Slots -> {0, 1}]
  BY AckedIs
<1> HIDE DEF b
<1>4. /\ n \in 0 .. outstanding
      /\ \A k \in base + 1 .. base + n : b[Slot(k)] = 1
      /\ n < outstanding => b[Slot(base + n + 1)] = 0
  BY <1>3, SlideIs
<1> HIDE DEF n
<1>5. n \in Nat /\ base + n \in Nat
  <2> HIDE DEF base, outstanding
  <2> QED BY ONLY <1>1, <1>4
<1>6. last_ack' = Slot(base + n)
  <2>1. last_ack = Slot(base)
    BY DEF RingInv
  <2> QED BY <1>1, <1>2, <1>5, <2>1, SlotIs
<1>7. base' = base + n
  <2>1. base = seq - (WINDOW_SIZE - num_empty) /\ base' = seq' - (WINDOW_SIZE - num_empty')
    BY DEF base, outstanding
  <2> HIDE DEF base
  <2> QED BY ONLY <1>1, <1>2, <1>5, <2>1
<1>8. Window' = base + n + 1 .. seq
  BY <1>2, <1>7 DEF Window
<1>9. base + n <= seq /\ (base + n < seq => n < outstanding)
  <2> HIDE DEF base, outstanding
  <2> QED BY ONLY <1>1, <1>4
<1>10. \A k \in base + 1 .. base + n : k \in Window
  <2>1. Window = base + 1 .. seq
    BY DEF Window
  <2> HIDE DEF base, outstanding
  <2> QED BY ONLY <1>1, <1>5, <1>9, <2>1
<1> QED BY <1>2, <1>4, <1>6, <1>7, <1>8, <1>9, <1>10 DEF b

\* The other steps leave the ring alone.
LEMMA RingStays ==
  ASSUME Next
  PROVE  LocalData \/ AckRead \/ UNCHANGED <<window, seq>>
<1>1. CASE process_request
  BY <1>1, RequestLeaves, Zenon
<1>2. CASE Client
  BY <1>2, Zenon DEF Client, Writes, SendsAway, SEND, Signalled
<1>3. CASE Tcpd
  BY <1>3, Zenon DEF Tcpd, Select, Forwards, block_sending_and_save
<1>4. CASE TimerTurn \/ Fault \/ ServerTcpd
  BY <1>4, Zenon DEF TimerTurn, Fault, ServerTcpd, ForwardsRemote, RemoteData
<1> QED BY <1>1, <1>2, <1>3, <1>4 DEF Next

\* Every step keeps RingInv.
LEMMA NextRing == ASSUME Types, CallInv, RingInv, Next PROVE RingInv'
<1>1. /\ seq \in Nat /\ base \in 0 .. seq /\ base \in Nat
  BY CountsAre
<1>2. CASE LocalData
  <2>1. /\ base' = base /\ seq' = seq + 1 /\ Window' = base + 1 .. seq + 1
        /\ last_ack' = last_ack /\ last_send' = Slot(seq + 1)
        /\ troll_headers'[Slot(seq + 1)] = seq + 1 /\ ack_bitmap'[Slot(seq + 1)] = 0
        /\ \A k \in Window : /\ troll_headers'[Slot(k)] = troll_headers[Slot(k)]
                             /\ ack_bitmap'[Slot(k)] = ack_bitmap[Slot(k)]
    BY <1>2, SaveIs
  <2>2. \A k \in Window' : k \in Window \/ k = seq + 1
    <3>1. Window = base + 1 .. seq
      BY DEF Window
    <3> HIDE DEF base
    <3> QED BY ONLY <1>1, <2>1, <3>1
  <2>3. \A k \in Window' : troll_headers'[Slot(k)] = k
    BY <2>1, <2>2 DEF RingInv
  <2>4. ack_bitmap'[Slot(base + 1)] = 0
    <3>1. CASE base < seq
      <4>1. base + 1 \in Window
        BY <1>1, <3>1 DEF Window
      <4> QED BY <2>1, <3>1, <4>1 DEF RingInv
    <3>2. CASE ~ (base < seq)
      <4>1. base = seq
        <5> HIDE DEF base
        <5> QED BY ONLY <1>1, <3>2
      <4> QED BY <2>1, <4>1
    <3> QED BY <3>1, <3>2
  <2>5. base' >= 0 /\ last_ack' = Slot(base')
    BY <1>1, <2>1 DEF RingInv
  <2>6. last_send' = Slot(seq') /\ ack_bitmap'[Slot(base' + 1)] = 0
    BY <2>1, <2>4
  <2> QED BY <2>3, <2>5, <2>6 DEF RingInv, Slot
<1>3. CASE AckRead
  <2>1. PICK n \in 0 .. outstanding :
           /\ base' = base + n /\ base + n <= seq /\ seq' = seq
           /\ Window' = base + n + 1 .. seq
           /\ last_ack' = Slot(base + n) /\ last_send' = last_send
           /\ troll_headers' = troll_headers /\ ack_bitmap' = Acked(Head(acks))
           /\ base + n < seq => Acked(Head(acks))[Slot(base + n + 1)] = 0
    BY <1>3, AckIs
  <2>2. n \in Nat /\ base + n \in Nat
    <3>1. outstanding \in Nat
      BY CountsAre
    <3> HIDE DEF base, outstanding
    <3> QED BY ONLY <1>1, <3>1, n \in 0 .. outstanding
  <2>3. \A k \in Window' : k \in Window
    <3>1. Window = base + 1 .. seq
      BY DEF Window
    <3> HIDE DEF base
    <3> QED BY ONLY <1>1, <2>1, <2>2, <3>1
  <2>4. \A k \in Window' : troll_headers'[Slot(k)] = k
    BY <2>1, <2>3 DEF RingInv
  <2>5. base' >= 0 /\ last_ack' = Slot(base') /\ last_send' = Slot(seq')
    BY <2>1, <2>2 DEF RingInv
  <2>6. base' < seq' => ack_bitmap'[Slot(base' + 1)] = 0
    BY <2>1
  <2> QED BY <2>4, <2>5, <2>6 DEF RingInv, Slot
<1>4. CASE UNCHANGED <<window, seq>>
  BY <1>4 DEF RingInv, window, base, outstanding, Window, Slot
<1> QED BY <1>2, <1>3, <1>4, RingStays

\* Only an ack tells the client of a packet, and only of its own.
LEMMA ToldStep ==
  ASSUME Types, CallInv, RingInv, Next, NEW k \in Packets, Told(k)'
  PROVE  Told(k) \/ (AckRead /\ k = Head(acks))
<1>1. /\ seq \in Nat /\ base \in 0 .. seq /\ base \in Nat /\ k \in Nat
  BY CountsAre, TransferAssumption DEF Packets, N
<1>2. CASE LocalData
  <2>1. /\ base' = base /\ Window' = base + 1 .. seq + 1 /\ ack_bitmap'[Slot(seq + 1)] = 0
        /\ \A j \in Window : ack_bitmap'[Slot(j)] = ack_bitmap[Slot(j)]
    BY <1>2, SaveIs
  <2>2. k \in 1 .. base \/ (k \in base + 1 .. seq + 1 /\ ack_bitmap'[Slot(k)] = 1)
    BY <2>1 DEF Told, Slot
  <2>3. k \in base + 1 .. seq + 1 => k = seq + 1 \/ k \in Window
    <3>1. Window = base + 1 .. seq
      BY DEF Window
    <3> HIDE DEF base
    <3> QED BY ONLY <1>1, <3>1
  <2> QED BY <2>1, <2>2, <2>3 DEF Told
<1>3. CASE AckRead
  <2>1. PICK n \in 0 .. outstanding :
           /\ base' = base + n /\ base + n <= seq
           /\ Window' = base + n + 1 .. seq /\ ack_bitmap' = Acked(Head(acks))
           /\ \A j \in base + 1 .. base + n : j \in Window /\ Acked(Head(acks))[Slot(j)] = 1
    BY <1>3, AckIs
  <2>2. n \in Nat
    <3>1. outstanding \in Nat
      BY CountsAre
    <3> HIDE DEF outstanding
    <3> QED BY ONLY <3>1, n \in 0 .. outstanding
  <2>3. \/ k \in 1 .. base + n
        \/ k \in base + n + 1 .. seq /\ Acked(Head(acks))[Slot(k)] = 1
    BY <2>1 DEF Told, Slot
  <2>4. /\ k \in 1 .. base + n => k \in 1 .. base \/ k \in base + 1 .. base + n
        /\ k \in base + n + 1 .. seq => k \in base + 1 .. seq
    <3> HIDE DEF base
    <3> QED BY ONLY <1>1, <2>2
  <2>5. k \in 1 .. base \/ (k \in Window /\ Acked(Head(acks))[Slot(k)] = 1)
    BY <2>1, <2>3, <2>4 DEF Window
  <2>6. \A j \in Window : Acked(Head(acks))[Slot(j)] = 1
                            => j = Head(acks) \/ ack_bitmap[Slot(j)] = 1
    BY AckedIs
  <2> QED BY <1>3, <2>5, <2>6 DEF Told
<1>4. CASE UNCHANGED <<window, seq>>
  BY <1>4 DEF Told, window, base, outstanding, Window, Slot
<1> QED BY <1>2, <1>3, <1>4, RingStays

-----------------------------------------------------------------------------
(* Acknowledgements and timers                                             *)

\* What the server heard of stays so, and only its daemon sends acks.
LEMMA ForwardedStays ==
  ASSUME Next
  PROVE  \/ RemoteData
         \/ AckRead /\ Heard' = Heard
         \/ acks' = acks /\ Heard' = Heard
<1>1. CASE process_request
  BY <1>1, RequestLeaves, Zenon DEF Heard
<1>2. CASE Client
  BY <1>2 DEF Heard, Client, Writes, SendsAway, SEND, Signalled, serverVars
<1>3. CASE Tcpd
  BY <1>3 DEF Heard, Tcpd, Select, Forwards, block_sending_and_save, LocalData, AckRead, serverVars
<1>4. CASE TimerTurn \/ Fault \/ ServerTcpd
  BY <1>4 DEF Heard, TimerTurn, Fault, ServerTcpd, ForwardsRemote, serverVars
<1> QED BY <1>1, <1>2, <1>3, <1>4 DEF Next

\* Every step keeps ForwardedInv.
LEMMA NextForwarded ==
  ASSUME Types, CallInv, RingInv, ForwardedInv, Next
  PROVE  ForwardedInv'
<1>1. acks \in Seq(Packets \cup {Unknown}) /\ (AckRead => acks # <<>>)
  BY DEF Types, AckTypes, LocalTypes, AckRead
<1>2. \A i \in 1 .. Len(acks) : acks[i] \in Heard
  BY DEF ForwardedInv
<1>3. Heard \subseteq Heard' /\ \A i \in 1 .. Len(acks') : acks'[i] \in Heard'
  <2>1. CASE RemoteData
    <3>1. /\ acks' = Append(acks, Head(under).seq)
          /\ Heard \subseteq Heard' /\ Head(under).seq \in Heard'
      BY <2>1 DEF RemoteData, Heard
    <3>2. /\ Len(acks') = Len(acks) + 1 /\ Len(acks) \in Nat
          /\ \A i \in 1 .. Len(acks) : acks'[i] = acks[i]
          /\ acks'[Len(acks) + 1] = Head(under).seq
      BY <1>1, <3>1, AppendProperties
    <3>3. \A i \in 1 .. Len(acks') : i \in 1 .. Len(acks) \/ i = Len(acks) + 1
      BY ONLY <3>2
    <3> QED BY ONLY <1>2, <3>1, <3>2, <3>3
  <2>2. CASE AckRead /\ Heard' = Heard
    <3>1. acks' = Tail(acks)
      BY <2>2 DEF AckRead
    <3>2. /\ Len(acks') = Len(acks) - 1 /\ Len(acks) \in Nat
          /\ \A i \in 1 .. Len(acks') : acks'[i] = acks[i + 1]
      BY <1>1, <2>2, <3>1
    <3>3. \A i \in 1 .. Len(acks') : i + 1 \in 1 .. Len(acks)
      BY ONLY <3>2
    <3> QED BY ONLY <1>2, <2>2, <3>2, <3>3
  <2>3. CASE acks' = acks /\ Heard' = Heard
    BY <1>2, <2>3
  <2> QED BY <2>1, <2>2, <2>3, ForwardedStays
<1>4. ASSUME NEW k \in Packets, Told(k)' PROVE k \in Heard'
  <2>1. Told(k) => k \in Heard
    BY DEF ForwardedInv
  <2>2. AckRead => Head(acks) \in Heard
    <3>1. ASSUME AckRead PROVE Head(acks) = acks[1] /\ 1 \in 1 .. Len(acks)
      BY <1>1, <3>1
    <3> QED BY <1>2, <3>1
  <2> QED BY <1>3, <1>4, <2>1, <2>2, ToldStep
<1> QED BY <1>3, <1>4 DEF ForwardedInv

\* One more command that does not start packet k leaves it untimed.
LEMMA AppendUntimed ==
  ASSUME NEW S, NEW commands \in Seq(S), NEW c \in S, NEW list, NEW k,
         Untimed(commands, list, k), c # <<"s", k>>
  PROVE  Untimed(Append(commands, c), list, k)
<1> DEFINE more == Append(commands, c)
<1>1. /\ Len(more) = Len(commands) + 1 /\ Len(commands) \in Nat
      /\ \A i \in 1 .. Len(commands) : more[i] = commands[i]
      /\ more[Len(commands) + 1] = c
  BY AppendProperties
<1> HIDE DEF more
<1>2. \A i \in 1 .. Len(more) : i \in 1 .. Len(commands) \/ i = Len(commands) + 1
  BY ONLY <1>1
<1>3. CASE k \notin list /\ \A i \in 1 .. Len(commands) : commands[i] # <<"s", k>>
  <2>1. \A i \in 1 .. Len(more) : more[i] # <<"s", k>>
    BY ONLY <1>1, <1>2, <1>3, c # <<"s", k>>
  <2> QED BY <1>3, <2>1 DEF Untimed, more
<1>4. ASSUME NEW i \in 1 .. Len(commands), Cancels(commands, i, k)
      PROVE  Untimed(more, list, k)
  <2>1. commands[i] = <<"c", k>> /\ \A j \in i .. Len(commands) : commands[j] # <<"s", k>>
    BY <1>4 DEF Cancels
  <2>2. i \in 1 .. Len(more) /\ more[i] = <<"c", k>>
    BY ONLY <1>1, <2>1, i \in 1 .. Len(commands)
  <2>3. \A j \in i .. Len(more) : more[j] # <<"s", k>>
    <3> TAKE j \in i .. Len(more)
    <3>1. j \in 1 .. Len(more)
      BY ONLY <1>1, i \in 1 .. Len(commands), j \in i .. Len(more)
    <3>2. CASE j \in 1 .. Len(commands)
      <4>1. j \in i .. Len(commands)
        BY ONLY <1>1, <3>2, i \in 1 .. Len(commands), j \in i .. Len(more)
      <4> QED BY <1>1, <2>1, <3>2, <4>1
    <3>3. CASE j = Len(commands) + 1
      BY <1>1, <3>3
    <3> QED BY <1>2, <3>1, <3>2, <3>3
  <2> QED BY <2>2, <2>3 DEF Untimed, Cancels
<1> QED BY <1>3, <1>4 DEF Untimed, more

\* A command that cancels packet k at the end leaves it untimed.
LEMMA CancelUntimed ==
  ASSUME NEW S, NEW commands \in Seq(S), NEW k, <<"c", k>> \in S, NEW list
  PROVE  Untimed(Append(commands, <<"c", k>>), list, k)
<1> DEFINE more == Append(commands, <<"c", k>>)
           n == Len(commands) + 1
<1>1. /\ Len(more) = n /\ Len(commands) \in Nat /\ more[n] = <<"c", k>>
  BY AppendProperties
<1> HIDE DEF more
<1>2. n \in 1 .. Len(more) /\ \A j \in n .. Len(more) : j = n
  BY ONLY <1>1
<1>3. <<"c", k>> # <<"s", k>>
  OBVIOUS
<1>4. Cancels(more, n, k)
  BY ONLY <1>1, <1>2, <1>3 DEF Cancels
<1> QED BY <1>2, <1>4 DEF Untimed, more

\* A turn of the timer keeps packet k untimed.
LEMMA TurnUntimed ==
  ASSUME Types, TimerTurn, NEW k \in Packets, Untimed(pipe, nodes, k)
  PROVE  Untimed(pipe', nodes', k)
<1>1. pipe \in Seq({"s", "c"} \X (Packets \cup {Unknown})) /\ pipe # <<>> /\ pipe' = Tail(pipe)
  BY DEF Types, TimerTypes, TimerTurn
<1>2. /\ Len(pipe') = Len(pipe) - 1 /\ Len(pipe) \in Nat /\ Len(pipe) > 0
      /\ \A i \in 1 .. Len(pipe') : pipe'[i] = pipe[i + 1]
      /\ Head(pipe) = pipe[1] /\ pipe[1] \in {"s", "c"} \X (Packets \cup {Unknown})
  BY ONLY <1>1
<1>3. PICK list \in SUBSET nodes :
        nodes' = IF Head(pipe)[1] = "s" THEN list \cup {Head(pipe)[2]}
                                        ELSE list \ {Head(pipe)[2]}
  BY DEF TimerTurn, update, insert, delele
<1>4. CASE k \notin nodes /\ \A i \in 1 .. Len(pipe) : pipe[i] # <<"s", k>>
  <2>1. \A i \in 1 .. Len(pipe') : pipe'[i] # <<"s", k>>
    <3> TAKE i \in 1 .. Len(pipe')
    <3>1. i + 1 \in 1 .. Len(pipe)
      BY ONLY <1>2, i \in 1 .. Len(pipe')
    <3> QED BY <1>2, <1>4, <3>1
  <2>2. k \notin nodes'
    <3>1. pipe[1] # <<"s", k>>
      BY <1>2, <1>4
    <3>2. ~ (Head(pipe)[1] = "s" /\ Head(pipe)[2] = k)
      BY ONLY <1>2, <3>1
    <3> QED BY <1>3, <1>4, <3>2
  <2> QED BY <2>1, <2>2 DEF Untimed
<1>5. ASSUME NEW i \in 1 .. Len(pipe), Cancels(pipe, i, k)
      PROVE  Untimed(pipe', nodes', k)
  <2>1. pipe[i] = <<"c", k>> /\ \A j \in i .. Len(pipe) : pipe[j] # <<"s", k>>
    BY <1>5 DEF Cancels
  <2>2. CASE i = 1
    <3>1. Head(pipe)[1] = "c" /\ Head(pipe)[2] = k /\ "c" # "s"
      BY <1>2, <2>1, <2>2
    <3>2. k \notin nodes'
      BY ONLY <1>3, <3>1
    <3>3. \A j \in 1 .. Len(pipe') : pipe'[j] # <<"s", k>>
      <4> TAKE j \in 1 .. Len(pipe')
      <4>1. j + 1 \in i .. Len(pipe)
        BY ONLY <1>2, <2>2, j \in 1 .. Len(pipe')
      <4> QED BY <1>2, <2>1, <4>1
    <3> QED BY <3>2, <3>3 DEF Untimed
  <2>3. CASE i # 1
    <3>1. i - 1 \in 1 .. Len(pipe') /\ (i - 1) + 1 = i
      BY ONLY <1>2, <2>3, i \in 1 .. Len(pipe)
    <3>2. pipe'[i - 1] = <<"c", k>>
      BY <1>2, <2>1, <3>1
    <3>3. \A j \in i - 1 .. Len(pipe') : pipe'[j] # <<"s", k>>
      <4> TAKE j \in i - 1 .. Len(pipe')
      <4>1. j \in 1 .. Len(pipe') /\ j + 1 \in i .. Len(pipe)
        BY ONLY <1>2, <3>1, i \in 1 .. Len(pipe), j \in i - 1 .. Len(pipe')
      <4> QED BY <1>2, <2>1, <4>1
    <3>4. Cancels(pipe', i - 1, k)
      BY <3>2, <3>3 DEF Cancels
    <3> QED BY <3>1, <3>4 DEF Untimed
  <2> QED BY <2>2, <2>3
<1> QED BY <1>4, <1>5 DEF Untimed

\* Who touches the timer.
LEMMA TimerStays ==
  ASSUME Next
  PROVE  LocalData \/ AckRead \/ TimerTurn \/ UNCHANGED timerVars
<1>1. CASE process_request
  BY <1>1, RequestLeaves, Zenon
<1>2. CASE Client
  BY <1>2 DEF Client, Writes, SendsAway, SEND, Signalled
<1>3. CASE Tcpd
  BY <1>3 DEF Tcpd, Select, Forwards, block_sending_and_save
<1>4. CASE Fault \/ ServerTcpd
  BY <1>4 DEF Fault, ServerTcpd, ForwardsRemote, RemoteData
<1> QED BY <1>1, <1>2, <1>3, <1>4 DEF Next

\* Every step keeps TimerInv.
LEMMA NextTimer ==
  ASSUME Types, CallInv, RingInv, TimerInv, Next
  PROVE  TimerInv'
<1> SUFFICES ASSUME NEW k \in Packets, Told(k)' PROVE Untimed(pipe', nodes', k)
  <2>1. ASSUME \A k \in Packets : Told(k)' => Untimed(pipe', nodes', k) PROVE TimerInv'
    BY <2>1 DEF TimerInv, Untimed, Cancels
  <2> QED BY <2>1
<1> DEFINE Commands == {"s", "c"} \X (Packets \cup {Unknown})
<1>1. pipe \in Seq(Commands)
  BY DEF Types, TimerTypes
<1>2. Told(k) => Untimed(pipe, nodes, k)
  BY DEF TimerInv
<1>3. Told(k) \/ (AckRead /\ k = Head(acks))
  BY ToldStep
<1>4. CASE LocalData
  <2>1. /\ pipe' = Append(pipe, <<"s", seq + 1>>) /\ nodes' = nodes
        /\ seq + 1 \in Packets
    <3>1. version = "proj1" /\ local # <<>>
      BY <1>4 DEF LocalData, Types, LocalTypes
    <3> QED BY <1>4, <3>1, NextPacket DEF LocalData, send_to_timer
  <2>2. Told(k)
    <3>1. ASSUME AckRead PROVE FALSE
      <4>1. seq' = seq + 1 /\ seq' = seq
        BY <1>4, <3>1 DEF LocalData, AckRead
      <4>2. seq \in Nat
        BY CountsAre
      <4> QED BY ONLY <4>1, <4>2
    <3> QED BY <1>3, <3>1
  <2>3. k # seq + 1
    <3>1. /\ seq \in Nat /\ base \in 0 .. seq
      BY CountsAre
    <3>2. k \in 1 .. base \/ k \in base + 1 .. seq
      BY <2>2 DEF Told, Window
    <3> HIDE DEF base
    <3> QED BY ONLY <3>1, <3>2
  <2>4. <<"s", seq + 1>> # <<"s", k>> /\ <<"s", seq + 1>> \in Commands
    BY <2>1, <2>3
  <2>5. Untimed(Append(pipe, <<"s", seq + 1>>), nodes, k)
    <3> HIDE DEF Commands
    <3> QED BY <1>1, <1>2, <2>2, <2>4, AppendUntimed
  <2> QED BY <2>1, <2>5
<1>5. CASE AckRead
  <2>1. /\ pipe' = Append(pipe, <<"c", Head(acks)>>) /\ nodes' = nodes
        /\ acks \in Seq(Packets \cup {Unknown}) /\ acks # <<>>
    BY <1>5 DEF AckRead, delete_from_timer, Types, AckTypes, LocalTypes
  <2>2. Head(acks) \in Packets \cup {Unknown}
    BY ONLY <2>1
  <2>3. <<"c", Head(acks)>> \in Commands /\ <<"c", Head(acks)>> # <<"s", k>>
    BY <2>2
  <2> HIDE DEF Commands
  <2>4. CASE k = Head(acks)
    BY <1>1, <2>1, <2>3, <2>4, CancelUntimed
  <2>5. CASE Told(k)
    <3>1. Untimed(Append(pipe, <<"c", Head(acks)>>), nodes, k)
      BY <1>1, <1>2, <2>3, <2>5, AppendUntimed
    <3> QED BY <2>1, <3>1
  <2> QED BY <1>3, <2>4, <2>5
<1>6. CASE TimerTurn
  <2>1. Told(k)
    <3>1. ASSUME AckRead PROVE FALSE
      <4>1. /\ pipe' = Append(pipe, <<"c", Head(acks)>>) /\ pipe' = Tail(pipe) /\ pipe # <<>>
        BY <1>6, <3>1 DEF TimerTurn, AckRead, delete_from_timer
      <4>2. Len(Append(pipe, <<"c", Head(acks)>>)) = Len(pipe) + 1
        BY <1>1
      <4>3. Len(Tail(pipe)) = Len(pipe) - 1 /\ Len(pipe) \in Nat
        BY <1>1, <4>1
      <4> QED BY ONLY <4>1, <4>2, <4>3
    <3> QED BY <1>3, <3>1
  <2> QED BY <1>2, <1>6, <2>1, TurnUntimed
<1>7. CASE UNCHANGED timerVars
  <2>1. Told(k)
    <3>1. ASSUME AckRead PROVE FALSE
      <4>1. /\ pipe' = Append(pipe, <<"c", Head(acks)>>) /\ pipe' = pipe
        BY <1>7, <3>1 DEF timerVars, AckRead, delete_from_timer
      <4>2. Len(Append(pipe, <<"c", Head(acks)>>)) = Len(pipe) + 1 /\ Len(pipe) \in Nat
        BY <1>1
      <4> QED BY ONLY <4>1, <4>2
    <3> QED BY <1>3, <3>1
  <2> QED BY <1>2, <1>7, <2>1 DEF timerVars
<1> QED BY <1>4, <1>5, <1>6, <1>7, TimerStays

-----------------------------------------------------------------------------
(* The inductive invariant                                                 *)

\* Nothing was sent, and the slots hold anything.
LEMMA InitIInv == Init => IInv
<1> SUFFICES ASSUME Init PROVE IInv
  OBVIOUS
<1>1. Types
  BY InitTypes
<1>2. WINDOW_SIZE \in Nat \ {0}
  BY TransferAssumption
<1>3. /\ seq = 0 /\ num_empty = WINDOW_SIZE /\ last_ack = 0 /\ last_send = 0
      /\ acks = <<>> /\ pipe = <<>> /\ nodes = {}
  BY DEF Init, window_init
<1>4. outstanding = 0 /\ base = 0 /\ Window = {}
  BY <1>2, <1>3 DEF outstanding, base, Window
<1>5. Slot(0) = 0
  BY <1>2, SmallMod DEF Slot
<1>6. CallInv
  <2>1. /\ call = "idle" /\ sends = 0 /\ ~ blocking /\ signals = <<>> /\ local = <<>>
        /\ tmp_save_buf = {}
    BY Zenon DEF Init
  <2>2. Idle
    BY <1>3, <2>1, Zenon DEF Idle
  <2>3. call # "wait"
    BY <2>1
  <2> QED BY <1>3, <2>1, <2>2, <2>3, Zenon DEF CallInv
<1>7. RingInv
  BY <1>3, <1>4, <1>5 DEF RingInv
<1>8. ASSUME NEW k PROVE ~ Told(k)
  BY <1>4 DEF Told
<1>9. ForwardedInv /\ TimerInv
  BY <1>3, <1>8 DEF ForwardedInv, TimerInv
<1> QED BY <1>1, <1>6, <1>7, <1>9 DEF IInv

\* Every step, and a stutter, keeps it.
LEMMA NextIInv == IInv /\ [Next]_vars => IInv'
<1> SUFFICES ASSUME IInv, [Next]_vars PROVE IInv'
  OBVIOUS
<1>1. Types /\ CallInv /\ RingInv /\ ForwardedInv /\ TimerInv
  BY DEF IInv
<1>2. CASE Next
  BY <1>1, <1>2, NextTypes, NextCall, NextRing, NextForwarded, NextTimer DEF IInv
<1>3. CASE UNCHANGED vars
  <2>1. /\ UNCHANGED <<version, call, sends, signals, local, ready, seq, tmp_save_buf, under, faults,
                       acks>>
        /\ UNCHANGED blocking
        /\ UNCHANGED <<last_ack, last_send, num_empty, ack_bitmap, troll_headers, pipe, nodes>>
        /\ UNCHANGED <<inbox, forwarded, misread, taken, ftps>>
    BY <1>3 DEF vars, ftpcVars, window, timerVars, serverVars
  <2>2. /\ CallTypes' /\ LocalTypes' /\ WindowTypes' /\ TimerTypes' /\ TrollTypes' /\ AckTypes'
        /\ ServerTypes' /\ FtpsTypes'
    BY <1>1, <2>1 DEF Types, CallTypes, LocalTypes, WindowTypes, TimerTypes, TrollTypes, AckTypes,
                      ServerTypes, FtpsTypes
  <2>3. BlockTypes'
    BY <1>1, <2>1, Zenon DEF Types, BlockTypes
  <2>4. CallInv'
    BY <1>1, <2>1, CallStays DEF callVars
  <2>5. RingInv'
    BY <1>1, <2>1 DEF RingInv, base, outstanding, Window, Slot
  <2>6. \A k : Told(k)' => Told(k)
    BY <2>1 DEF Told, base, outstanding, Window, Slot
  <2>7. ForwardedInv'
    BY <1>1, <2>1, <2>6 DEF ForwardedInv, Heard
  <2>8. TimerInv'
    BY <1>1, <2>1, <2>6 DEF TimerInv, Untimed, Cancels
  <2> QED BY <2>2, <2>3, <2>4, <2>5, <2>7, <2>8 DEF IInv, Types
<1> QED BY <1>2, <1>3

\* The inductive invariant holds in every state of every transfer.
THEOREM Inductive == Spec => []IInv
<1>1. Init => IInv
  BY InitIInv
<1>2. IInv /\ [Next]_vars => IInv'
  BY NextIInv
<1> QED BY <1>1, <1>2, PTL DEF Spec

\* Every variable of the three transfers keeps its type: the indices stay in
\* the ring, its count between none and all, and rec_len within its bound.
THEOREM TypeCorrect == Spec => []TypeOK
<1>1. IInv => TypeOK
  <2> SUFFICES ASSUME IInv PROVE TypeOK
    OBVIOUS
  <2>1. /\ CallTypes /\ BlockTypes /\ LocalTypes /\ WindowTypes /\ TimerTypes
        /\ TrollTypes /\ AckTypes /\ ServerTypes /\ FtpsTypes
    BY DEF IInv, Types
  <2>2. ftps.at \in {"len", "name", "body", "closed"} /\ ftps.rec_len \in 0 .. NameSize + 1
    BY <2>1 DEF FtpsTypes
  <2>3. blocking \in BOOLEAN
    BY <2>1, Zenon DEF BlockTypes
  <2> QED BY <2>1, <2>2, <2>3, Zenon
          DEF TypeOK, CallTypes, LocalTypes, WindowTypes, TimerTypes, TrollTypes, AckTypes
<1> QED BY <1>1, Inductive, PTL

\* The ring of proj1 (save_packet, the search and the slide of an ack): its
\* count and its indices agree, its slots hold the last packets in order, and
\* its front is never an acknowledged packet that was left behind.
THEOREM RingCorrect == Spec => []WindowRing
<1>1. IInv => WindowRing
  <2> SUFFICES ASSUME IInv PROVE WindowRing
    OBVIOUS
  <2>0. Types /\ RingInv
    BY DEF IInv
  <2>1. /\ WINDOW_SIZE \in Nat \ {0} /\ outstanding \in 0 .. WINDOW_SIZE /\ outstanding \in Nat
        /\ seq \in Nat /\ base \in Nat /\ seq = base + outstanding
        /\ seq - outstanding = base
    <3>1. /\ WINDOW_SIZE \in Nat \ {0} /\ outstanding \in 0 .. WINDOW_SIZE /\ N \in Nat
          /\ seq \in 0 .. N /\ base \in Nat /\ seq = base + outstanding
      BY <2>0, CountsAre
    <3> HIDE DEF outstanding, base
    <3> QED BY ONLY <3>1
  <2>2. last_send = seq % WINDOW_SIZE /\ last_ack = base % WINDOW_SIZE /\ last_ack = Slot(base)
    BY <2>0 DEF RingInv, Slot
  <2>3. outstanding % WINDOW_SIZE = (last_send - last_ack) % WINDOW_SIZE
    <3> DEFINE w == WINDOW_SIZE
               s == seq
               b == base
    <3>1. w \in Nat \ {0} /\ s \in Int /\ b \in Int /\ -b \in Int /\ s % w \in Int
          /\ s + (-b) = outstanding
      <4>1. seq % WINDOW_SIZE \in Int
        BY <2>1, Division
      <4> HIDE DEF outstanding, base
      <4> QED BY <2>1, <4>1
    <3> HIDE DEF w, s, b, outstanding
    <3>2. ((s % w) - (b % w)) % w = ((s % w) - b) % w
      BY ONLY <3>1, FromSlot, Zenon
    <3>3. ((s % w) + (-b)) % w = (s + (-b)) % w
      BY ONLY <3>1, FromSlot, Zenon
    <3>4. (s % w) + (-b) = (s % w) - b
      BY ONLY <3>1
    <3>5. ((s % w) - (b % w)) % w = outstanding % w
      BY ONLY <3>1, <3>2, <3>3, <3>4, Zenon
    <3> QED BY ONLY <2>2, <3>5, Zenon DEF w, s, b
  <2>4. ASSUME NEW j \in 1 .. outstanding
        PROVE  troll_headers[(last_ack + j) % WINDOW_SIZE] = seq - outstanding + j
    <3>1. j \in Nat /\ base + j \in base + 1 .. seq
      <4> HIDE DEF base, outstanding
      <4> QED BY ONLY <2>1, j \in 1 .. outstanding
    <3>2. base + j \in Window
      BY <3>1 DEF Window
    <3>3. (last_ack + j) % WINDOW_SIZE = Slot(base + j)
      BY <2>1, <2>2, <3>1, SlotIs
    <3>4. troll_headers[Slot(base + j)] = base + j
      BY <2>0, <3>2 DEF RingInv
    <3> QED BY <2>1, <3>3, <3>4
  <2>5. outstanding > 0 => ack_bitmap[next(last_ack)] = 0
    <3>1. outstanding > 0 => base < seq
      <4> HIDE DEF base, outstanding
      <4> QED BY ONLY <2>1
    <3>2. next(last_ack) = Slot(base + 1)
      BY <2>1, <2>2, SlotIs
    <3> QED BY <2>0, <3>1, <3>2 DEF RingInv
  <2> QED BY <2>3, <2>4, <2>5 DEF WindowRing
<1> QED BY <1>1, Inductive, PTL

\* The window of proj1 slides over a packet, and marks one, only when the server
\* forwarded it, or acknowledged another packet whose number the troll had garbled
\* into its own (proj1/tcpd.c:239-252 checks nothing).  save_packet clears the bit
\* an earlier packet left, and an ack of a packet that is not in the window marks
\* none.
THEOREM SlidCorrect == Spec => []SlidOverForwarded
<1>1. IInv => SlidOverForwarded
  <2> SUFFICES ASSUME IInv PROVE SlidOverForwarded
    OBVIOUS
  <2>0. Types /\ RingInv /\ ForwardedInv
    BY DEF IInv
  <2>1. /\ outstanding \in Nat /\ seq \in 0 .. N /\ base \in Nat /\ N \in Nat
        /\ seq = base + outstanding /\ seq - outstanding = base
    <3>1. /\ WINDOW_SIZE \in Nat /\ outstanding \in 0 .. WINDOW_SIZE /\ N \in Nat
          /\ seq \in 0 .. N /\ base \in Nat /\ seq = base + outstanding
      BY <2>0, CountsAre
    <3> HIDE DEF outstanding, base
    <3> QED BY ONLY <3>1
  <2>2. last_ack = Slot(base)
    BY <2>0 DEF RingInv
  <2>3. 1 .. seq - outstanding \subseteq Heard
    <3>1. ASSUME NEW k \in 1 .. base PROVE k \in Packets
      <4> HIDE DEF base, outstanding
      <4> QED BY <2>1 DEF Packets
    <3> QED BY <2>0, <2>1, <3>1 DEF ForwardedInv, Told
  <2>4. ASSUME NEW j \in 1 .. outstanding,
               ack_bitmap[(last_ack + j) % WINDOW_SIZE] = 1
        PROVE  seq - outstanding + j \in Heard
    <3>1. j \in Nat /\ base + j \in base + 1 .. seq /\ base + j \in Packets
      <4> HIDE DEF base, outstanding
      <4> QED BY <2>1 DEF Packets
    <3>2. base + j \in Window
      BY <3>1 DEF Window
    <3>3. (last_ack + j) % WINDOW_SIZE = Slot(base + j)
      BY <2>1, <2>2, <3>1, SlotIs
    <3>4. base + j \in Heard
      BY <2>0, <2>4, <3>1, <3>2, <3>3 DEF ForwardedInv, Told
    <3> QED BY <2>1, <3>4
  <2> QED BY <2>3, <2>4 DEF SlidOverForwarded, Heard
<1> QED BY <1>1, Inductive, PTL

\* A SEND of proj1 returns only for a packet in the window: it is there, or
\* not read yet, or in the temporary buffer of a SEND that never returns.
THEOREM SendsCorrect == Spec => []SendsTaken
<1>1. IInv => SendsTaken
  <2> SUFFICES ASSUME IInv, version = "proj1" PROVE SendsTaken
    BY DEF SendsTaken
  <2>1. Idle \/ Handed \/ Received \/ Blocked \/ Stuck
    BY DEF IInv, CallInv
  <2>2. sends \in Nat
    BY TransferAssumption DEF IInv, Types, CallTypes, N
  <2>3. Cardinality({}) = 0 /\ Cardinality({sends + 1}) = 1
    BY FS_EmptySet, FS_Singleton
  <2>4. Len(<<>>) = 0 /\ Len(<<sends + 1>>) = 1
    OBVIOUS
  <2>5. sends <= seq
    BY <2>1, <2>2 DEF Idle, Handed, Received, Blocked, Stuck
  <2>6. \/ blocking
        \/ seq + Len(local) + Cardinality(tmp_save_buf)
             = sends + (IF call = "wait" THEN 1 ELSE 0)
    <3>1. CASE Idle
      <4>1. seq + Len(local) + Cardinality(tmp_save_buf) = sends + 0
        BY <2>2, <2>3, <2>4, <3>1 DEF Idle
      <4>2. call # "wait"
        BY <3>1 DEF Idle
      <4> QED BY <4>1, <4>2
    <3>2. CASE Handed \/ Received \/ Blocked
      <4>1. seq + Len(local) + Cardinality(tmp_save_buf) = sends + 1
        <5>1. \/ seq = sends /\ local = <<sends + 1>> /\ tmp_save_buf = {}
              \/ seq = sends + 1 /\ local = <<>> /\ tmp_save_buf = {}
              \/ seq = sends /\ local = <<>> /\ tmp_save_buf = {sends + 1}
          BY <3>2 DEF Handed, Received, Blocked
        <5>2. \/ seq = sends /\ Len(local) = 1 /\ Cardinality(tmp_save_buf) = 0
              \/ seq = sends + 1 /\ Len(local) = 0 /\ Cardinality(tmp_save_buf) = 0
              \/ seq = sends /\ Len(local) = 0 /\ Cardinality(tmp_save_buf) = 1
          BY ONLY <2>3, <2>4, <5>1
        <5>3. \/ seq + Len(local) + Cardinality(tmp_save_buf) = sends + 1 + 0
              \/ seq + Len(local) + Cardinality(tmp_save_buf) = sends + 1 + 0 + 0
              \/ seq + Len(local) + Cardinality(tmp_save_buf) = sends + 0 + 1
          BY ONLY <5>2, Zenon
        <5>4. sends + 1 + 0 = sends + 1 /\ sends + 1 + 0 + 0 = sends + 1 /\ sends + 0 + 1 = sends + 1
          BY ONLY <2>2
        <5> QED BY ONLY <5>3, <5>4, Zenon
      <4>2. call = "wait"
        BY <3>2 DEF Handed, Received, Blocked
      <4> QED BY <4>1, <4>2
    <3>3. CASE Stuck
      BY <3>3, Zenon DEF Stuck
    <3> QED BY <2>1, <3>1, <3>2, <3>3
  <2>7. blocking => seq = sends /\ tmp_save_buf = {sends + 1}
    BY <2>1, Zenon DEF Idle, Handed, Received, Blocked, Stuck
  <2> QED BY <2>5, <2>6, <2>7, Zenon DEF SendsTaken
<1> QED BY <1>1, Inductive, PTL

\* A packet that left the window of proj1 is not timed for good: a cancel of
\* it is on its way to the timer, and no start comes after.
THEOREM TimerCorrect == Spec => []TimerForgets
<1>1. IInv => TimerForgets
  <2> SUFFICES ASSUME IInv, NEW k \in 1 .. seq - outstanding,
                      k \in nodes \/ Contains(pipe, <<"s", k>>)
               PROVE  \E i \in DOMAIN pipe :
                        /\ pipe[i] = <<"c", k>>
                        /\ ~ Contains(SubSeq(pipe, i, Len(pipe)), <<"s", k>>)
    BY DEF TimerForgets
  <2>1. k \in Packets /\ Told(k)
    <3>1. N \in Nat /\ seq \in 0 .. N /\ base \in 0 .. seq /\ k \in 1 .. base
      BY CountsAre DEF IInv, base
    <3> HIDE DEF base, outstanding
    <3> QED BY ONLY <3>1 DEF Packets, Told
  <2>2. Untimed(pipe, nodes, k)
    BY <2>1 DEF IInv, TimerInv
  <2>3. ~ (k \notin nodes /\ \A i \in 1 .. Len(pipe) : pipe[i] # <<"s", k>>)
    BY DEF Contains
  <2>4. PICK i \in 1 .. Len(pipe) : Cancels(pipe, i, k)
    BY <2>2, <2>3 DEF Untimed
  <2>5. pipe[i] = <<"c", k>> /\ \A j \in i .. Len(pipe) : pipe[j] # <<"s", k>>
    BY <2>4 DEF Cancels
  <2>6. pipe \in Seq({"s", "c"} \X (Packets \cup {Unknown}))
    BY DEF IInv, Types, TimerTypes
  <2>7. i \in DOMAIN pipe /\ Len(pipe) \in Nat
    BY <2>6
  <2>8. ~ Contains(SubSeq(pipe, i, Len(pipe)), <<"s", k>>)
    <3>1. /\ Len(SubSeq(pipe, i, Len(pipe))) = Len(pipe) - i + 1
          /\ \A m \in 1 .. Len(pipe) - i + 1 : SubSeq(pipe, i, Len(pipe))[m] = pipe[i + m - 1]
      BY ONLY <2>6, <2>7, i \in 1 .. Len(pipe)
    <3>2. \A m \in 1 .. Len(pipe) - i + 1 : i + m - 1 \in i .. Len(pipe)
      BY ONLY <2>7, i \in 1 .. Len(pipe)
    <3> QED BY <2>5, <3>1, <3>2 DEF Contains
  <2> QED BY <2>5, <2>7, <2>8
<1> QED BY <1>1, Inductive, PTL

-----------------------------------------------------------------------------
(* A faultless transfer                                                    *)

\* The stream of bytes up to the end of packet k.
Offset(k) == Sum(SubSeq(Sizes, 1, k))

\* The numbers of the first n chunks of the file.
Chunks(n) == [i \in 1 .. n |-> i + 2]

\* ftpc SENDs the length of the file as 4 bytes, and its name as 25.
Header == Sizes[1] = 4 /\ Sizes[2] = NameSize

\* What is left for TLC of CleanTransfer is that it happens: whenever all that
\* ftpc sent without a fault was read, ftps has the whole file, in order, and
\* what it has before is the front of it.  A child of lab2 reads no byte that
\* was not written, and closes when it has read them all.
ArrivesClean ==
  Header /\ faults = 0 =>
    /\ version = "lab2" =>
         /\ taken <= Offset(sends)
         /\ ftps.at = "closed" => taken = Sum(Sizes) /\ ftps.got = <<4 + NameSize>>
    /\ version # "lab2" =>
         /\ \E n \in 0 .. N - 2 : ftps.got = Chunks(n)
         /\ sends = N /\ local = <<>> /\ under = <<>> /\ inbox = <<>>
              => ftps.at = "len" /\ ftps.got = Chunks(N - 2)

\* Lengths from a + 1 to b add up to the difference of two sums.
LEMMA SumOfPart ==
  ASSUME NEW lens \in Seq(Nat), NEW f, SumsTo(f, lens, Len(lens)),
         NEW b \in 0 .. Len(lens), NEW a \in 0 .. b
  PROVE  Sum(SubSeq(lens, a + 1, b)) = f[b] - f[a]
<1> DEFINE part == SubSeq(lens, a + 1, b)
           g == CHOOSE h : SumsTo(h, part, Len(part))
<1>1. /\ part \in Seq(Nat) /\ Len(part) = b - a /\ b - a \in Nat
      /\ \A i \in 1 .. b - a : part[i] = lens[a + i]
  <2>1. /\ a \in Nat /\ b \in Nat /\ a <= b /\ b <= Len(lens) /\ Len(lens) \in Nat
        /\ a + 1 \in Nat
    OBVIOUS
  <2>2. part \in Seq(Nat)
    BY <2>1
  <2>3. Len(part) = b - a /\ b - a \in Nat
    BY <2>1
  <2>4. ASSUME NEW i \in 1 .. b - a PROVE part[i] = lens[a + i]
    <3>1. part[i] = lens[a + 1 + i - 1] /\ a + 1 + i - 1 = a + i
      BY <2>1
    <3> QED BY <3>1
  <2> QED BY <2>2, <2>3, <2>4
<1>2. SumsTo(g, part, Len(part))
  BY <1>1, SumsExist
<1>3. Sum(part) = g[b - a]
  BY <1>1 DEF Sum, SumsTo
<1> HIDE DEF part, g
<1>4. /\ g[0] = 0
      /\ \A k \in 0 .. b - a - 1 : g[k + 1] = g[k] + part[k + 1]
  <2>1. part \in Seq(Nat) /\ Len(part) = b - a
    BY <1>1
  <2>2. \A k \in 0 .. Len(part) - 1 : g[k + 1] = g[k] + part[k + 1]
    BY ONLY <1>2, <2>1, SumStep
  <2>3. g[0] = 0
    BY ONLY <1>2, <2>1, SumStep
  <2> QED BY ONLY <2>1, <2>2, <2>3
<1>5. /\ f \in [0 .. Len(lens) -> Nat]
      /\ \A k \in 0 .. Len(lens) - 1 : f[k + 1] = f[k] + lens[k + 1]
  BY SumNat, SumStep
<1> DEFINE Bad == {n \in 0 .. b - a : g[n] # f[a + n] - f[a]}
<1>6. SUFFICES ASSUME Bad # {} PROVE FALSE
  <2>1. b - a \in 0 .. b - a /\ a + (b - a) = b
    BY <1>1
  <2>2. ASSUME Bad = {} PROVE g[b - a] = f[a + (b - a)] - f[a]
    BY <2>1, <2>2
  <2> QED BY <1>3, <2>1, <2>2 DEF part
<1>7. PICK n \in Bad : \A k \in Bad : n <= k
  <2>1. Bad \in SUBSET Nat
    OBVIOUS
  <2> HIDE DEF Bad
  <2> QED BY <1>6, <2>1, LeastElement
<1>8. n \in 0 .. b - a /\ g[n] # f[a + n] - f[a]
  BY <1>7
<1>9. f[a] \in Nat
  BY <1>5
<1>10. n # 0
  BY <1>4, <1>8, <1>9
<1>11. n - 1 \in 0 .. b - a - 1 /\ n - 1 \in 0 .. b - a /\ ~ (n <= n - 1) /\ n - 1 + 1 = n
  BY <1>1, <1>8, <1>10
<1>12. g[n - 1] = f[a + (n - 1)] - f[a]
  BY <1>7, <1>11
<1>13. g[n] = g[n - 1] + part[n] /\ part[n] = lens[a + n]
  BY <1>1, <1>4, <1>8, <1>10, <1>11
<1>14. f[a + n] = f[a + (n - 1)] + lens[a + n]
  <2>1. a + (n - 1) \in 0 .. Len(lens) - 1 /\ a + (n - 1) + 1 = a + n
    BY <1>1, <1>11
  <2> QED BY <1>5, <2>1
<1>15. f[a + (n - 1)] \in Nat /\ lens[a + n] \in Nat
  <2>1. a + (n - 1) \in 0 .. Len(lens) /\ a + n \in 1 .. Len(lens)
    BY <1>1, <1>8, <1>11
  <2>2. f[a + (n - 1)] \in Nat
    BY ONLY <1>5, <2>1
  <2>3. lens[a + n] \in Nat
    BY ONLY <2>1, lens \in Seq(Nat)
  <2> QED BY <2>2, <2>3
<1>16. g[n] = f[a + n] - f[a]
  <2> DEFINE x == f[a + (n - 1)]
             y == lens[a + n]
             z == f[a]
  <2>1. x \in Nat /\ y \in Nat /\ z \in Nat
    BY <1>9, <1>15
  <2>2. g[n] = x - z + y /\ f[a + n] = x + y
    BY <1>12, <1>13, <1>14
  <2> HIDE DEF x, y, z
  <2>3. x - z + y = x + y - z
    BY <2>1
  <2>4. g[n] = x + y - z
    BY <2>2, <2>3
  <2>5. f[a + n] = x + y
    BY <2>2
  <2>6. g[n] = f[a + n] - z
    BY ONLY <2>1, <2>4, <2>5
  <2> QED BY <2>6, Zenon DEF z
<1> QED BY <1>8, <1>16

\* The stream grows by a packet's length at every packet; FileLen is what
\* comes after the header.
LEMMA OffsetIs ==
  /\ \A k \in 0 .. N : Offset(k) \in Nat
  /\ Offset(0) = 0 /\ Offset(N) = Sum(Sizes)
  /\ \A k \in 0 .. N - 1 : Offset(k + 1) = Offset(k) + Sizes[k + 1]
  /\ FileLen = Offset(N) - Offset(2)
<1> DEFINE f == CHOOSE g : SumsTo(g, Sizes, N)
<1>1. Sizes \in Seq(Nat) /\ N = Len(Sizes) /\ N \in Nat /\ N >= 2
  BY TransferAssumption DEF N
<1>2. SumsTo(f, Sizes, Len(Sizes))
  BY <1>1, SumsExist
<1>3. Sum(Sizes) = f[N]
  BY <1>1 DEF Sum, SumsTo
<1> HIDE DEF f
<1>4. /\ f \in [0 .. N -> Nat] /\ f[0] = 0
      /\ \A k \in 0 .. N - 1 : f[k + 1] = f[k] + Sizes[k + 1]
  BY <1>1, <1>2, SumNat, SumStep
<1>5. ASSUME NEW k \in 0 .. N PROVE Offset(k) = f[k]
  <2>1. 0 \in 0 .. k /\ k \in 0 .. Len(Sizes) /\ 0 + 1 = 1
    BY <1>1
  <2>2. Sum(SubSeq(Sizes, 0 + 1, k)) = f[k] - f[0]
    BY ONLY <1>1, <1>2, <2>1, SumOfPart
  <2>3. f[k] \in Nat
    BY <1>4
  <2> QED BY <1>4, <2>1, <2>2, <2>3 DEF Offset
<1>6. FileLen = f[N] - f[2]
  <2>1. 2 \in 0 .. N /\ N \in 0 .. Len(Sizes) /\ 2 + 1 = 3
    BY <1>1
  <2>2. Sum(SubSeq(Sizes, 2 + 1, N)) = f[N] - f[2]
    BY ONLY <1>1, <1>2, <2>1, SumOfPart
  <2> QED BY <2>1, <2>2 DEF FileLen
<1>7. 0 \in 0 .. N /\ 2 \in 0 .. N /\ N \in 0 .. N
  BY <1>1
<1>8. \A k \in 0 .. N - 1 : k \in 0 .. N /\ k + 1 \in 0 .. N
  BY <1>1
<1> QED BY <1>3, <1>4, <1>5, <1>6, <1>7, <1>8

\* It grows at every one.
LEMMA OffsetGrows ==
  ASSUME NEW j \in 0 .. N, NEW k \in 0 .. j
  PROVE  Offset(k) <= Offset(j) /\ (k < j => Offset(k) < Offset(j))
<1>1. N \in Nat /\ \A i \in 1 .. N : Sizes[i] \in Nat \ {0}
  BY TransferAssumption DEF N
<1> DEFINE Bad == {i \in k + 1 .. j : ~ (Offset(k) < Offset(i))}
<1>2. ASSUME Bad # {} PROVE FALSE
  <2>1. PICK n \in Bad : \A i \in Bad : n <= i
    <3>1. Bad \in SUBSET Nat
      BY <1>1
    <3> HIDE DEF Bad
    <3> QED BY <1>2, <3>1, LeastElement
  <2>2. n \in k + 1 .. j /\ ~ (Offset(k) < Offset(n))
    BY <2>1
  <2>3. n - 1 \in 0 .. N - 1 /\ n \in 1 .. N /\ n - 1 + 1 = n /\ n - 1 \in 0 .. N /\ k \in 0 .. N
    BY <1>1, <2>2
  <2>4. Offset(n) = Offset(n - 1) + Sizes[n] /\ Offset(n - 1) \in Nat /\ Offset(k) \in Nat
    BY <2>3, OffsetIs
  <2>5. Sizes[n] \in Nat \ {0}
    BY <1>1, <2>3
  <2>6. Offset(n - 1) < Offset(n)
    BY ONLY <2>4, <2>5
  <2>7. CASE n - 1 = k
    BY <2>2, <2>6, <2>7
  <2>8. CASE n - 1 # k
    <3>1. n - 1 \in k + 1 .. j /\ ~ (n <= n - 1)
      BY <1>1, <2>2, <2>8
    <3>2. n - 1 \notin Bad
      BY <2>1, <3>1
    <3>3. Offset(k) < Offset(n - 1)
      BY <3>1, <3>2
    <3>4. Offset(n) \in Nat
      BY ONLY <2>4, <2>5
    <3> QED BY ONLY <2>2, <2>4, <2>6, <3>3, <3>4
  <2> QED BY <2>7, <2>8
<1>3. k < j => Offset(k) < Offset(j)
  <2>1. k < j => j \in k + 1 .. j
    BY <1>1
  <2> QED BY <1>2, <2>1
<1>4. Offset(k) \in Nat /\ Offset(j) \in Nat
  BY <1>1, OffsetIs
<1>5. CASE k = j
  BY <1>3, <1>4, <1>5
<1>6. CASE k # j
  <2>1. k < j
    BY <1>1, <1>6
  <2> QED BY <1>3, <1>4, <2>1
<1> QED BY <1>5, <1>6

\* Where process_request of lab3 or proj1 is when it has read d packets, none
\* of them garbled.
Reading(d) ==
  IF d = 0 THEN AtLen
  ELSE IF d = 1 THEN [at |-> "name", rec_len |-> 0, left |-> FileLen, got |-> <<>>]
  ELSE IF d < N THEN [at |-> "body", rec_len |-> 0, left |-> Offset(N) - Offset(d),
                      got |-> Chunks(d - 2)]
  ELSE [at |-> "len", rec_len |-> 0, left |-> 0, got |-> Chunks(N - 2)]

\* The datagrams of s are those after packet n.
Line(s, n) == \A i \in 1 .. Len(s) : s[i].pkt = n + i /\ s[i].intact

\* What process_request has not read is on its way in one line: at ftps, in the
\* troll and, in lab3, at the client's daemon.
InLine(d) ==
  /\ Line(inbox, d) /\ Line(under, d + Len(inbox))
  /\ version = "lab3" =>
       /\ sends = d + Len(inbox) + Len(under) + Len(local)
       /\ \A i \in 1 .. Len(local) : local[i] = d + Len(inbox) + Len(under) + i
  /\ version = "proj1" => seq = d + Len(inbox) + Len(under)

PacketsInv ==
  Header /\ faults = 0 /\ version # "lab2" =>
    \E d \in 0 .. N : ftps = Reading(d) /\ InLine(d)

\* lab2 has read the first bytes of the stream: none, those of the length, also
\* those of the name and perhaps of the file, or all.
BytesInv ==
  Header /\ faults = 0 /\ version = "lab2" =>
    /\ inbox = <<>> /\ taken \in Nat /\ taken <= Offset(sends)
    /\ \/ taken = 0 /\ ftps = AtLen
       \/ taken = 4 /\ ftps = [at |-> "name", rec_len |-> 0, left |-> FileLen, got |-> <<>>]
       \/ /\ taken < Offset(N)
          /\ ftps = [at |-> "body", rec_len |-> 0, left |-> Offset(N) - taken,
                     got |-> <<4 + NameSize>>]
       \/ /\ taken = Offset(N)
          /\ ftps = [at |-> "closed", rec_len |-> 0, left |-> 0, got |-> <<4 + NameSize>>]

\* A line grows at its end,
LEMMA LineGrows ==
  ASSUME NEW T, NEW s \in Seq(T), NEW e \in T, NEW n \in Nat, Line(s, n),
         e.pkt = n + Len(s) + 1, e.intact
  PROVE  Append(s, e) \in Seq(T) /\ Len(Append(s, e)) = Len(s) + 1 /\ Line(Append(s, e), n)
<1>1. /\ Append(s, e) \in Seq(T) /\ Len(Append(s, e)) = Len(s) + 1 /\ Len(s) \in Nat
      /\ Append(s, e)[Len(s) + 1] = e
      /\ \A i \in 1 .. Len(s) : Append(s, e)[i] = s[i]
  OBVIOUS
<1>2. ASSUME NEW i \in 1 .. Len(Append(s, e))
      PROVE  Append(s, e)[i].pkt = n + i /\ Append(s, e)[i].intact
  <2>1. CASE i \in 1 .. Len(s)
    BY <1>1, <2>1 DEF Line
  <2>2. CASE i = Len(s) + 1
    <3>1. n + i = n + Len(s) + 1
      BY <1>1, <2>2
    <3> QED BY <1>1, <2>2, <3>1
  <2> QED BY <1>1, <2>1, <2>2
<1> QED BY <1>1, <1>2 DEF Line

\* and moves on by one when its first is taken.
LEMMA LineMoves ==
  ASSUME NEW T, NEW s \in Seq(T), s # <<>>, NEW n \in Nat, Line(s, n)
  PROVE  /\ Head(s) \in T /\ Head(s).pkt = n + 1 /\ Head(s).intact
         /\ Tail(s) \in Seq(T) /\ Len(Tail(s)) = Len(s) - 1 /\ Len(s) \in Nat \ {0}
         /\ Line(Tail(s), n + 1)
<1>1. /\ Head(s) = s[1] /\ Head(s) \in T /\ Tail(s) \in Seq(T)
      /\ Len(s) \in Nat \ {0} /\ Len(Tail(s)) = Len(s) - 1
      /\ \A i \in 1 .. Len(Tail(s)) : Tail(s)[i] = s[i + 1]
  OBVIOUS
<1>2. Head(s).pkt = n + 1 /\ Head(s).intact
  BY <1>1 DEF Line
<1>3. ASSUME NEW i \in 1 .. Len(Tail(s))
      PROVE  Tail(s)[i].pkt = n + 1 + i /\ Tail(s)[i].intact
  <2>1. i + 1 \in 1 .. Len(s) /\ n + (i + 1) = n + 1 + i
    BY <1>1
  <2>2. s[i + 1].pkt = n + (i + 1) /\ s[i + 1].intact
    BY <2>1 DEF Line
  <2> QED BY <1>1, <2>1, <2>2
<1> QED BY <1>1, <1>2, <1>3 DEF Line

\* What one more datagram of the file does.
LEMMA BodyReads ==
  ASSUME version \in {"lab3", "proj1"}, NEW d \in 2 .. N
  PROVE  Body(Offset(N) - Offset(d), Chunks(d - 2)) = Reading(d)
<1>1. N \in Nat /\ N >= 2 /\ d \in 0 .. N /\ N \in 0 .. N /\ d # 0 /\ d # 1
  BY TransferAssumption DEF N
<1>2. Offset(d) \in Nat /\ Offset(N) \in Nat /\ (d < N => Offset(d) < Offset(N))
  BY <1>1, OffsetIs, OffsetGrows
<1>3. CASE d < N
  <2>1. Offset(N) - Offset(d) > 0
    BY <1>2, <1>3
  <2>2. Left(Offset(N) - Offset(d))
    BY <2>1, Zenon DEF Left
  <2> QED BY <1>1, <1>3, <2>2 DEF Body, Reading
<1>4. CASE ~ (d < N)
  <2>1. d = N
    BY <1>1, <1>4
  <2>2. Offset(N) - Offset(d) = 0 /\ ~ (0 > 0)
    BY <1>2, <2>1
  <2>3. ~ Left(0)
    BY <2>2 DEF Left
  <2>4. AfterFile = [at |-> "len", rec_len |-> 0, left |-> 0, got |-> <<>>]
    BY DEF AfterFile, AtLen
  <2>5. Body(0, Chunks(N - 2)) = [AfterFile EXCEPT !.got = Chunks(N - 2)]
    BY <2>3 DEF Body
  <2>6. Body(0, Chunks(N - 2)) = [at |-> "len", rec_len |-> 0, left |-> 0, got |-> Chunks(N - 2)]
    BY ONLY <2>4, <2>5
  <2> QED BY <1>1, <1>4, <2>1, <2>2, <2>6 DEF Reading
<1> QED BY <1>3, <1>4

\* process_request reads the packet it waits for.
LEMMA RequestReads ==
  ASSUME Types, Header, version \in {"lab3", "proj1"}, RecvLength \/ RecvName \/ RecvBody,
         NEW d \in 0 .. N, ftps = Reading(d), InLine(d)
  PROVE  d + 1 \in 0 .. N /\ ftps' = Reading(d + 1) /\ InLine(d + 1)'
<1> DEFINE b == Head(inbox)
<1>1. /\ UNCHANGED <<version, sends, local, seq, under>>
      /\ inbox # <<>> /\ inbox' = Tail(inbox)
  BY DEF RecvLength, RecvName, RecvBody, RECV, ftpcVars
<1>2. inbox \in Seq(Bodies) /\ Line(inbox, d) /\ d \in Nat /\ N \in Nat /\ N >= 2
  BY TransferAssumption DEF Types, ServerTypes, InLine, N
<1>3. /\ b \in Bodies /\ b.pkt = d + 1 /\ b.intact
      /\ Len(inbox') = Len(inbox) - 1 /\ Len(inbox) \in Nat \ {0}
      /\ Line(inbox', d + 1)
  BY ONLY <1>1, <1>2, LineMoves
<1> HIDE DEF b
<1>4. d + 1 \in 1 .. N /\ d < N
  <2>1. b.pkt \in 1 .. N
    BY ONLY <1>3 DEF Bodies, Packets
  <2> QED BY <1>2, <1>3, <2>1
<1>5. d + 1 + Len(inbox') = d + Len(inbox)
  BY <1>2, <1>3
<1>6. InLine(d + 1)'
  BY <1>1, <1>3, <1>5 DEF InLine, Line
<1>7. Sizes[d + 1] \in Nat \ {0} /\ Offset(d + 1) = Offset(d) + Sizes[d + 1]
      /\ Offset(d) \in Nat /\ Offset(N) \in Nat
  <2>1. d \in 0 .. N - 1 /\ N \in 0 .. N /\ d + 1 \in 1 .. Len(Sizes)
    BY <1>2, <1>4 DEF N
  <2> QED BY <2>1, OffsetIs, TransferAssumption
<1>8. CASE d = 0
  <2>1. ftps = AtLen /\ ftps.at = "len"
    BY <1>8 DEF Reading, AtLen
  <2>2. RecvLength
    BY <2>1 DEF RecvLength, RecvName, RecvBody
  <2>3. ftps' = [at |-> "name", rec_len |-> 0, left |-> FileLen, got |-> <<>>]
    BY <1>3, <1>8, <2>2 DEF RecvLength, b
  <2> QED BY <1>4, <1>6, <1>8, <2>3 DEF Reading
<1>9. CASE d = 1
  <2>1. ftps = [at |-> "name", rec_len |-> 0, left |-> FileLen, got |-> <<>>]
    BY <1>9 DEF Reading
  <2>2. ftps.at = "name" /\ ftps.rec_len = 0 /\ ftps.left = FileLen
    BY ONLY <2>1
  <2>3. RecvName
    BY <2>2 DEF RecvLength, RecvName, RecvBody
  <2>4. ftps.rec_len + Min({NameSize, Sizes[b.pkt]}) = NameSize
    <3>1. Sizes[b.pkt] = NameSize /\ NameSize \in Int
      BY <1>3, <1>9 DEF Header, NameSize
    <3>2. Min({NameSize, NameSize}) = NameSize
      BY <3>1, MinOfTwo
    <3> QED BY <2>2, <3>1, <3>2
  <2>5. ftps' = Body(FileLen, <<>>)
    BY <2>2, <2>3, <2>4 DEF RecvName, b
  <2>6. FileLen = Offset(N) - Offset(2) /\ Chunks(2 - 2) = <<>>
    BY OffsetIs DEF Chunks
  <2>7. 2 \in 2 .. N /\ d + 1 = 2
    BY <1>2, <1>9
  <2>8. ftps' = Reading(2)
    BY <2>5, <2>6, <2>7, BodyReads
  <2> QED BY <1>4, <1>6, <2>7, <2>8
<1>10. CASE d # 0 /\ d # 1
  <2>1. ftps = [at |-> "body", rec_len |-> 0, left |-> Offset(N) - Offset(d),
                got |-> Chunks(d - 2)]
    BY <1>4, <1>10 DEF Reading
  <2>2. ftps.at = "body" /\ ftps.left = Offset(N) - Offset(d) /\ ftps.got = Chunks(d - 2)
    BY ONLY <2>1
  <2>3. RecvBody
    BY <2>2 DEF RecvLength, RecvName, RecvBody
  <2>4. ftps' = Body(ftps.left - Sizes[d + 1], Append(ftps.got, d + 1))
    BY <1>3, <2>3 DEF RecvBody, b
  <2>5. ftps.left - Sizes[d + 1] = Offset(N) - Offset(d + 1)
    BY <1>7, <2>2
  <2>6. Append(Chunks(d - 2), d + 1) = Chunks(d + 1 - 2)
    <3>1. d - 2 \in Nat /\ d + 1 - 2 = d - 2 + 1 /\ d + 1 = d - 2 + 1 + 2
      BY <1>2, <1>10
    <3> DEFINE n == d - 2
    <3> HIDE DEF n
    <3>2. n \in Nat => Append([i \in 1 .. n |-> i + 2], n + 1 + 2) = [i \in 1 .. n + 1 |-> i + 2]
      OBVIOUS
    <3>3. n \in Nat => Append(Chunks(n), n + 1 + 2) = Chunks(n + 1)
      BY <3>2 DEF Chunks
    <3> QED BY <3>1, <3>3 DEF n
  <2>7. d + 1 \in 2 .. N
    BY <1>2, <1>4, <1>10
  <2>8. Body(Offset(N) - Offset(d + 1), Chunks(d + 1 - 2)) = Reading(d + 1)
    BY <2>7, BodyReads
  <2>9. ftps' = Body(Offset(N) - Offset(d + 1), Chunks(d + 1 - 2))
    BY <2>2, <2>4, <2>5, <2>6, Zenon
  <2> QED BY <1>4, <1>6, <2>8, <2>9
<1> QED BY <1>8, <1>9, <1>10

\* A server's daemon passes the next datagram of the troll on.
LEMMA ServerPasses ==
  ASSUME Types, version \in {"lab3", "proj1"}, ForwardsRemote \/ RemoteData,
         NEW d \in 0 .. N, ftps = Reading(d), InLine(d)
  PROVE  ftps' = Reading(d) /\ InLine(d)'
<1> DEFINE head == Head(under)
           b == [pkt |-> head.pkt, intact |-> head.intact]
<1>1. /\ UNCHANGED <<version, sends, local, seq, ftps>>
      /\ under # <<>> /\ under' = Tail(under) /\ inbox' = Append(inbox, b)
  BY DEF ForwardsRemote, RemoteData, ftpcVars
<1>2. /\ inbox \in Seq(Bodies) /\ Line(inbox, d) /\ under \in Seq(Datagrams)
      /\ Line(under, d + Len(inbox)) /\ d \in Nat /\ Len(inbox) \in Nat /\ Len(under) \in Nat
  BY TransferAssumption DEF Types, ServerTypes, TrollTypes, InLine, N
<1>3. d + Len(inbox) \in Nat
  BY <1>2
<1>4. /\ head \in Datagrams /\ head.pkt = d + Len(inbox) + 1 /\ head.intact
      /\ under' \in Seq(Datagrams) /\ Len(under') = Len(under) - 1
      /\ Line(under', d + Len(inbox) + 1)
  BY ONLY <1>1, <1>2, <1>3, LineMoves
<1> HIDE DEF head
<1>5. b \in Bodies /\ b.pkt = d + Len(inbox) + 1 /\ b.intact
  BY ONLY <1>4 DEF Datagrams, Bodies
<1> HIDE DEF b
<1>6. Len(inbox') = Len(inbox) + 1 /\ Line(inbox', d)
  BY ONLY <1>1, <1>2, <1>5, LineGrows
<1>7. /\ d + Len(inbox') = d + Len(inbox) + 1
      /\ d + Len(inbox') + Len(under') = d + Len(inbox) + Len(under)
  BY <1>2, <1>4, <1>6
<1> QED BY <1>1, <1>4, <1>6, <1>7 DEF InLine, Line

\* A client's daemon sends the next packet to the troll.
LEMMA ClientSends ==
  ASSUME Types, CallInv, RingInv, Forwards \/ LocalData,
         NEW d \in 0 .. N, ftps = Reading(d), InLine(d)
  PROVE  ftps' = Reading(d) /\ InLine(d)'
<1>1. /\ UNCHANGED <<version, sends, inbox, ftps>> /\ local' = Tail(local)
      /\ version \in {"lab3", "proj1"}
  BY DEF Forwards, LocalData, ftpcVars, serverVars
<1>2. local # <<>> /\ local \in Seq(Packets) /\ under \in Seq(Datagrams)
  BY DEF Types, LocalTypes, TrollTypes, Forwards, LocalData
<1>3. /\ Line(under, d + Len(inbox)) /\ d + Len(inbox) \in Nat /\ Len(under) \in Nat
      /\ Line(inbox, d)
  BY <1>2, TransferAssumption DEF Types, ServerTypes, InLine, N
<1>4. Head(local) \in Packets /\ Len(local) \in Nat \ {0}
  BY ONLY <1>2
<1> DEFINE m == d + Len(inbox) + Len(under)
<1>5. Head(local) = m + 1
  <2>1. CASE version = "lab3"
    <3>1. local[1] = m + 1
      BY <1>4, <2>1 DEF InLine
    <3> QED BY ONLY <1>2, <3>1
  <2>2. CASE version = "proj1"
    <3>1. Head(local) = seq + 1
      BY <1>2, <2>2, NextPacket
    <3> QED BY <2>2, <3>1 DEF InLine
  <2> QED BY <1>1, <2>1, <2>2
<1> HIDE DEF m
<1>6. ASSUME NEW x \in Packets \cup {Unknown}, under' = Append(under, generate_TrollHeader(Head(local), x))
      PROVE  Len(under') = Len(under) + 1 /\ Line(under', d + Len(inbox))
  <2> DEFINE e == generate_TrollHeader(Head(local), x)
  <2>1. e \in Datagrams /\ e.pkt = m + 1 /\ e.intact
    BY ONLY <1>4, <1>5, x \in Packets \cup {Unknown} DEF generate_TrollHeader, Datagrams
  <2> HIDE DEF e
  <2>2. e.pkt = d + Len(inbox) + Len(under) + 1
    BY <2>1 DEF m
  <2>3. /\ Len(Append(under, e)) = Len(under) + 1
        /\ Line(Append(under, e), d + Len(inbox))
    BY ONLY <1>2, <1>3, <2>1, <2>2, LineGrows
  <2> QED BY <1>6, <2>3 DEF e
<1>7. CASE Forwards
  <2>1. version = "lab3" /\ under' = Append(under, generate_TrollHeader(Head(local), Unknown))
    BY <1>7 DEF Forwards
  <2>2. Len(under') = Len(under) + 1 /\ Line(under', d + Len(inbox))
    BY <1>6, <2>1
  <2>3. d + Len(inbox) + Len(under') = m + 1 /\ m \in Nat
    BY <1>3, <2>2 DEF m
  <2>4. /\ Len(local') = Len(local) - 1
        /\ \A i \in 1 .. Len(local') : local'[i] = local[i + 1] /\ i + 1 \in 1 .. Len(local)
    BY ONLY <1>1, <1>2, <1>4
  <2>5. /\ sends = m + Len(local)
        /\ \A i \in 1 .. Len(local) : local[i] = m + i
    BY <2>1 DEF InLine, m
  <2>6. m + 1 + Len(local') = m + Len(local)
    BY <1>4, <2>3, <2>4
  <2>7. \A i \in 1 .. Len(local') : local'[i] = m + 1 + i
    <3> TAKE i \in 1 .. Len(local')
    <3>1. i \in Int /\ m + (i + 1) = m + 1 + i
      BY <2>3
    <3> QED BY <2>4, <2>5, <3>1
  <2> QED BY <1>1, <1>3, <2>1, <2>2, <2>3, <2>5, <2>6, <2>7 DEF InLine, Line
<1>8. CASE LocalData
  <2>1. /\ version = "proj1" /\ seq' = seq + 1
        /\ under' = Append(under, generate_TrollHeader(Head(local), seq + 1))
    BY <1>8 DEF LocalData
  <2>2. seq + 1 \in Packets
    BY <1>2, <2>1, NextPacket
  <2>3. Len(under') = Len(under) + 1 /\ Line(under', d + Len(inbox))
    BY <1>6, <2>1, <2>2
  <2>4. seq = d + Len(inbox) + Len(under)
    BY <2>1 DEF InLine
  <2>5. d + Len(inbox) + Len(under') = seq'
    BY <1>3, <2>1, <2>3, <2>4
  <2> QED BY <1>1, <1>3, <2>1, <2>3, <2>5 DEF InLine, Line
<1> QED BY <1>7, <1>8

\* Where process_request is does not depend on the state.
LEMMA ReadingStays == ASSUME NEW d PROVE Reading(d)' = Reading(d)
BY DEF Reading, AtLen, FileLen, Sum, Offset, Chunks, N

\* A faultless transfer was faultless before.
LEMMA FaultlessBefore ==
  ASSUME Types, Next, faults' = 0
  PROVE  faults = 0 /\ ~ Fault /\ version' = version
<1>1. faults \in Nat
  BY TransferAssumption DEF Types, TrollTypes
<1>2. ~ Fault
  BY <1>1 DEF Fault
<1>3. CASE process_request
  <2>1. version' = version
    BY <1>3, RequestLeaves
  <2>2. faults = 0
    <3>1. CASE RecvLength \/ RecvName \/ RecvBody
      BY <3>1 DEF RecvLength, RecvName, RecvBody, RECV
    <3>2. CASE ReadHeader("len", 4) \/ ReadHeader("name", NameSize)
      <4>1. faults' = faults \/ faults' = faults + 1
        BY <3>2 DEF ReadHeader
      <4> QED BY <1>1, <4>1
    <3>3. CASE ReadBody
      BY <3>3 DEF ReadBody
    <3> QED BY <1>3, <3>1, <3>2, <3>3 DEF process_request
  <2> QED BY <1>2, <2>1, <2>2
<1>4. CASE Client
  <2>1. faults' = faults /\ version' = version
    BY <1>4 DEF Client, Writes, SendsAway, SEND, Signalled
  <2> QED BY <1>2, <2>1
<1>5. CASE Tcpd
  <2>1. faults' = faults /\ version' = version
    BY <1>5 DEF Tcpd, Select, Forwards, block_sending_and_save, LocalData, AckRead
  <2> QED BY <1>2, <2>1
<1>6. CASE TimerTurn \/ ServerTcpd
  <2>1. faults' = faults /\ version' = version
    BY <1>6 DEF TimerTurn, ServerTcpd, ForwardsRemote, RemoteData
  <2> QED BY <1>2, <2>1
<1> QED BY <1>2, <1>3, <1>4, <1>5, <1>6 DEF Next

\* Every step keeps the packets of lab3 and proj1 in line.
LEMMA NextPackets ==
  ASSUME Types, CallInv, RingInv, PacketsInv, Next
  PROVE  PacketsInv'
<1> SUFFICES ASSUME Header, faults' = 0, version' # "lab2"
             PROVE  \E d \in 0 .. N : ftps' = Reading(d) /\ InLine(d)'
  BY ReadingStays DEF PacketsInv, Header, NameSize, N
<1>1. faults = 0 /\ ~ Fault /\ version' = version /\ version \in {"lab3", "proj1"}
  BY FaultlessBefore DEF Types, CallTypes
<1>2. PICK d \in 0 .. N : ftps = Reading(d) /\ InLine(d)
  BY <1>1 DEF PacketsInv
<1>3. CASE Client
  <2>1. UNCHANGED <<version, inbox, under, ftps, seq>>
    BY <1>3 DEF Client, Writes, SendsAway, SEND, Signalled, serverVars
  <2>2. CASE version = "proj1"
    BY <1>2, <2>1, <2>2 DEF InLine, Line
  <2>3. CASE version = "lab3"
    <3>1. SendsAway
      <4>1. ~ (call = "wait")
        BY <2>3, Zenon DEF CallInv
      <4> QED BY <1>3, <2>3, <4>1 DEF Client, Writes, SEND, Signalled
    <3>2. local' = Append(local, sends + 1) /\ sends' = sends + 1
      BY <3>1 DEF SendsAway
    <3> DEFINE m == d + Len(inbox) + Len(under)
    <3>3. /\ sends = m + Len(local) /\ \A i \in 1 .. Len(local) : local[i] = m + i
          /\ local \in Seq(Packets) /\ m \in Nat /\ Len(local) \in Nat
      BY <1>2, <2>3, TransferAssumption
         DEF InLine, Types, LocalTypes, TrollTypes, ServerTypes, N
    <3> HIDE DEF m
    <3>4. /\ Len(local') = Len(local) + 1 /\ local'[Len(local) + 1] = sends + 1
          /\ \A i \in 1 .. Len(local) : local'[i] = local[i]
      BY ONLY <3>2, <3>3
    <3>5. sends' = m + Len(local') /\ sends + 1 = m + (Len(local) + 1)
      BY <3>2, <3>3, <3>4
    <3>6. ASSUME NEW i \in 1 .. Len(local') PROVE local'[i] = m + i
      <4>1. i \in 1 .. Len(local) \/ i = Len(local) + 1
        BY <3>3, <3>4
      <4> QED BY <3>3, <3>4, <3>5, <4>1
    <3> QED BY <1>2, <2>1, <2>3, <3>5, <3>6 DEF InLine, Line, m
  <2> QED BY <1>1, <2>2, <2>3
<1>4. CASE Tcpd
  <2>1. CASE Forwards \/ LocalData
    BY <1>2, <2>1, ClientSends
  <2>2. CASE Select \/ block_sending_and_save \/ AckRead
    <3>1. /\ UNCHANGED <<version, sends, inbox, under, ftps, seq>>
          /\ version = "lab3" => UNCHANGED local
      BY <2>2 DEF Select, block_sending_and_save, AckRead, ftpcVars, serverVars
    <3> QED BY <1>1, <1>2, <3>1 DEF InLine, Line
  <2> QED BY <1>4, <2>1, <2>2 DEF Tcpd
<1>5. CASE TimerTurn
  <2>1. UNCHANGED <<version, sends, local, inbox, under, ftps, seq>>
    BY <1>5 DEF TimerTurn, ftpcVars, serverVars
  <2> QED BY <1>2, <2>1 DEF InLine, Line
<1>6. CASE ServerTcpd
  BY <1>1, <1>2, <1>6, ServerPasses DEF ServerTcpd
<1>7. CASE process_request
  <2>1. ASSUME NEW k PROVE ~ read(k)
    BY <1>1 DEF read
  <2>2. ~ ReadHeader("len", 4) /\ ~ ReadHeader("name", NameSize) /\ ~ ReadBody
    BY <2>1, HeaderReads, BodyIsRead
  <2>3. RecvLength \/ RecvName \/ RecvBody
    BY <1>7, <2>2, Zenon DEF process_request
  <2> QED BY <1>1, <1>2, <2>3, RequestReads
<1> QED BY <1>1, <1>3, <1>4, <1>5, <1>6, <1>7 DEF Next

\* The smaller of n, which is positive, and what was written.
LEMMA AllIs ==
  ASSUME Types, Written > 0, NEW n \in Nat, n > 0
  PROVE  /\ Min({n, Written}) \in Nat \ {0} /\ Min({n, Written}) <= Written /\ Written \in Int
         /\ n <= Written => Min({n, Written}) = n
<1> DEFINE m == Min({n, Written})
           w == Written
<1>1. w \in Int /\ n \in Int /\ w > 0
  BY WrittenIs
<1>2. m \in {n, w} /\ m <= n /\ m <= w
  BY <1>1, MinOfTwo
<1> HIDE DEF m, w
<1>3. m \in Nat \ {0} /\ m <= w /\ w \in Int /\ (n <= w => m = n)
  BY ONLY <1>1, <1>2, n \in Nat, n > 0
<1> QED BY <1>3 DEF m, w

\* A read of lab2 never returns more than was written.
LEMMA ReadsAtMost ==
  ASSUME Types, Written > 0, NEW n \in Nat, n > 0, NEW k \in Readable(n)
  PROVE  k \in Nat /\ k <= Written
<1> DEFINE m == Min({n, Written})
           w == Written
<1>1. m \in Nat \ {0} /\ m <= w /\ w \in Int
  BY AllIs
<1>2. k \in {m, (m + 1) \div 2}
  BY DEF Readable
<1> HIDE DEF m, w
<1>3. (m + 1) \div 2 \in Nat /\ (m + 1) \div 2 <= m
  BY ONLY <1>1
<1>4. k \in Nat /\ k <= w
  BY ONLY <1>1, <1>2, <1>3
<1> QED BY <1>4 DEF w

\* The reads of the header are whole, those of the file within it.
LEMMA StreamReads ==
  ASSUME Types, Header, version = "lab2", faults = 0, faults' = 0, BytesInv,
         ReadHeader("len", 4) \/ ReadHeader("name", NameSize) \/ ReadBody
  PROVE  BytesInv'
<1>1. /\ inbox = <<>> /\ taken \in Nat /\ taken <= Offset(sends)
      /\ \/ taken = 0 /\ ftps = AtLen
         \/ taken = 4 /\ ftps = [at |-> "name", rec_len |-> 0, left |-> FileLen, got |-> <<>>]
         \/ /\ taken < Offset(N)
            /\ ftps = [at |-> "body", rec_len |-> 0, left |-> Offset(N) - taken,
                       got |-> <<4 + NameSize>>]
         \/ /\ taken = Offset(N)
            /\ ftps = [at |-> "closed", rec_len |-> 0, left |-> 0, got |-> <<4 + NameSize>>]
  BY DEF BytesInv
<1>2. /\ sends \in 0 .. N /\ N \in Nat /\ N >= 2 /\ Offset(sends) \in Nat /\ Offset(N) \in Nat
      /\ Offset(sends) <= Offset(N)
  <2>1. sends \in 0 .. N /\ N \in Nat /\ N >= 2 /\ N \in 0 .. N /\ sends \in 0 .. N
    BY TransferAssumption DEF Types, CallTypes, N
  <2> QED BY <2>1, OffsetIs, OffsetGrows
<1>3. Written = Offset(sends) - taken
  BY DEF Written, Offset
<1>4. NameSize = 25
  BY DEF NameSize
<1>5. /\ Offset(0) = 0 /\ Offset(1) = 4 /\ Offset(2) = 4 + NameSize
      /\ FileLen = Offset(N) - (4 + NameSize)
      /\ \A k \in 1 .. N : 4 <= Offset(k)
      /\ \A k \in 2 .. N : 4 + NameSize <= Offset(k)
  <2>1. Offset(0) = 0 /\ FileLen = Offset(N) - Offset(2)
    BY OffsetIs
  <2>2. Offset(1) = 4
    <3>1. 0 \in 0 .. N - 1
      BY <1>2
    <3>2. Offset(0 + 1) = Offset(0) + Sizes[0 + 1]
      BY <3>1, OffsetIs
    <3> QED BY <2>1, <3>2 DEF Header
  <2>3. Offset(2) = 4 + NameSize
    <3>1. 1 \in 0 .. N - 1
      BY <1>2
    <3>2. Offset(1 + 1) = Offset(1) + Sizes[1 + 1]
      BY <3>1, OffsetIs
    <3> QED BY <1>4, <2>2, <3>2 DEF Header
  <2>4. ASSUME NEW k \in 1 .. N PROVE 4 <= Offset(k)
    <3>1. k \in 0 .. N /\ 1 \in 0 .. k
      BY <1>2
    <3> QED BY <2>2, <3>1, OffsetGrows
  <2>5. ASSUME NEW k \in 2 .. N PROVE 4 + NameSize <= Offset(k)
    <3>1. k \in 0 .. N /\ 2 \in 0 .. k
      BY <1>2
    <3> QED BY <2>3, <3>1, OffsetGrows
  <2> QED BY <2>1, <2>2, <2>3, <2>4, <2>5
<1>6. ASSUME NEW k \in Nat, read(k), k <= Written
      PROVE  /\ inbox' = <<>> /\ taken' \in Nat /\ taken' = taken + k /\ taken' <= Offset(sends)
             /\ Offset(sends)' = Offset(sends) /\ sends' = sends /\ version' = version
             /\ taken' <= Offset(N)
  <2>1. inbox' = inbox /\ sends' = sends /\ taken' = taken + k /\ version' = version
    BY <1>6 DEF read, ftpcVars
  <2>2. Offset(sends)' = Offset(sends)
    BY <2>1 DEF Offset, Sum
  <2>3. taken' <= Offset(sends) /\ taken' \in Nat /\ taken' <= Offset(N)
    BY <1>1, <1>2, <1>3, <1>6, <2>1
  <2> QED BY <1>1, <2>1, <2>2, <2>3
<1>7. ASSUME NEW left \in Int, left >= 0, NEW got
      PROVE  Body(left, got) =
               IF left = 0 THEN [at |-> "closed", rec_len |-> 0, left |-> 0, got |-> got]
               ELSE [at |-> "body", rec_len |-> 0, left |-> left, got |-> got]
  <2>1. Left(left) <=> left # 0
    BY <1>7 DEF Left
  <2>2. AfterFile = [at |-> "closed", rec_len |-> 0, left |-> 0, got |-> <<>>]
    BY DEF AfterFile, AtLen
  <2>3. [AfterFile EXCEPT !.got = got] = [at |-> "closed", rec_len |-> 0, left |-> 0, got |-> got]
    BY ONLY <2>2
  <2> QED BY <2>1, <2>3 DEF Body

<1>8. SUFFICES \/ /\ taken' = 4
                  /\ ftps' = [at |-> "name", rec_len |-> 0, left |-> FileLen, got |-> <<>>]
               \/ /\ taken' \in Nat /\ taken' <= Offset(N)
                  /\ ftps' = Body(Offset(N) - taken', <<4 + NameSize>>)
  <2>1. \E k \in Nat : read(k) /\ k <= Written
    <3>1. PICK n \in {4, NameSize, 1000} : \E k \in Readable(n) : read(k)
      BY HeaderReads, BodyIsRead
    <3>2. n \in Nat /\ n > 0
      BY <1>4
    <3>3. PICK k \in Readable(n) : read(k)
      BY <3>1
    <3>4. Written > 0
      BY <3>3 DEF read
    <3>5. k \in Nat /\ k <= Written
      BY <3>2, <3>3, <3>4, ReadsAtMost
    <3> QED BY <3>3, <3>5
  <2>2. /\ inbox' = <<>> /\ taken' \in Nat /\ taken' <= Offset(sends)
        /\ Offset(sends)' = Offset(sends) /\ taken' <= Offset(N)
    BY <1>6, <2>1
  <2>3. Offset(N)' = Offset(N) /\ FileLen' = FileLen /\ NameSize' = NameSize
    BY DEF Offset, FileLen, Sum, N, NameSize
  <2>4. \/ /\ taken' = 4
           /\ ftps' = [at |-> "name", rec_len |-> 0, left |-> FileLen, got |-> <<>>]
        \/ ftps' = Body(Offset(N) - taken', <<4 + NameSize>>)
    BY <1>8
  <2>5. Offset(N) - taken' \in Int /\ Offset(N) - taken' >= 0
        /\ (Offset(N) - taken' = 0 <=> taken' = Offset(N))
        /\ (Offset(N) - taken' # 0 <=> taken' < Offset(N))
    BY <1>2, <2>2
  <2>6. CASE ftps' = Body(Offset(N) - taken', <<4 + NameSize>>)
    <3>1. \/ /\ taken' = Offset(N)
             /\ ftps' = [at |-> "closed", rec_len |-> 0, left |-> 0, got |-> <<4 + NameSize>>]
          \/ /\ taken' < Offset(N)
             /\ ftps' = [at |-> "body", rec_len |-> 0, left |-> Offset(N) - taken',
                         got |-> <<4 + NameSize>>]
      BY <1>7, <2>5, <2>6
    <3> QED BY <2>2, <2>3, <3>1 DEF BytesInv
  <2> QED BY <2>2, <2>3, <2>4, <2>6 DEF BytesInv
<1>9. ASSUME NEW at \in {"len", "name"}, NEW size \in Nat \ {0}, ReadHeader(at, size)
      PROVE  \E k \in Readable(size) :
               /\ read(k) /\ k = Min({size, Written}) /\ ftps.at = at
               /\ ftps.rec_len + k = size =>
                    IF at = "name"
                      THEN ftps' = Body(ftps.left, <<taken + k>>)
                      ELSE \E n \in IF k = size /\ taken = 0 THEN {FileLen} ELSE Garbage :
                             ftps' = [at |-> "name", rec_len |-> 0, left |-> n, got |-> <<>>]
  <2>1. ~ (faults' = faults + 1)
    OBVIOUS
  <2> QED BY <1>9, <2>1 DEF ReadHeader
<1>10. CASE ReadHeader("len", 4)
  <2>1. PICK k \in Readable(4) :
          /\ read(k) /\ k = Min({4, Written}) /\ ftps.at = "len"
          /\ ftps.rec_len + k = 4 =>
               \E n \in IF k = 4 /\ taken = 0 THEN {FileLen} ELSE Garbage :
                 ftps' = [at |-> "name", rec_len |-> 0, left |-> n, got |-> <<>>]
    BY <1>9, <1>10
  <2>2. taken = 0 /\ ftps.rec_len = 0
    BY <1>1, <2>1 DEF AtLen
  <2>3. Written > 0
    BY <2>1 DEF read
  <2>4. sends \in 1 .. N
    BY <1>2, <1>3, <1>5, <2>2, <2>3
  <2>5. 4 <= Written
    BY <1>2, <1>3, <1>5, <2>2, <2>4
  <2>6. k = 4
    BY <2>1, <2>3, <2>5, AllIs
  <2>7. taken' = 4
    BY <1>6, <2>1, <2>2, <2>5, <2>6
  <2>8. ftps' = [at |-> "name", rec_len |-> 0, left |-> FileLen, got |-> <<>>]
    <3>1. ftps.rec_len + k = 4
      BY <2>2, <2>6
    <3> QED BY <2>1, <2>2, <2>6, <3>1, Zenon
  <2> QED BY <2>7, <2>8
<1>11. CASE ReadHeader("name", NameSize)
  <2>1. PICK k \in Readable(NameSize) :
          /\ read(k) /\ k = Min({NameSize, Written}) /\ ftps.at = "name"
          /\ ftps.rec_len + k = NameSize => ftps' = Body(ftps.left, <<taken + k>>)
    BY <1>4, <1>9, <1>11
  <2>2. taken = 4 /\ ftps.rec_len = 0 /\ ftps.left = FileLen
    BY <1>1, <2>1 DEF AtLen
  <2>3. Written > 0
    BY <2>1 DEF read
  <2>4. sends \in 2 .. N
    BY <1>2, <1>3, <1>5, <2>2, <2>3
  <2>5. NameSize <= Written
    BY <1>2, <1>3, <1>4, <1>5, <2>2, <2>4
  <2>6. k = NameSize /\ k \in Nat
    BY <1>4, <2>1, <2>3, <2>5, AllIs
  <2>7. taken' = 4 + NameSize /\ taken' \in Nat /\ taken' <= Offset(N)
    BY <1>6, <2>1, <2>2, <2>5, <2>6
  <2>8. ftps' = Body(FileLen, <<4 + NameSize>>)
    <3>1. ftps.rec_len + k = NameSize /\ taken + k = 4 + NameSize
      BY <1>4, <2>2, <2>6
    <3> QED BY <2>1, <2>2, <3>1, Zenon
  <2> QED BY <1>5, <2>7, <2>8
<1>12. CASE ReadBody
  <2>1. PICK k \in Readable(1000) : read(k) /\ ftps' = Body(ftps.left - k, ftps.got)
    BY <1>12 DEF ReadBody
  <2>2. ftps.at = "body" /\ Written > 0
    BY <1>12, <2>1 DEF ReadBody, read
  <2>3. ftps.left = Offset(N) - taken /\ ftps.got = <<4 + NameSize>>
    BY <1>1, <2>2 DEF AtLen
  <2>4. k \in Nat /\ k <= Written
    <3>1. 1000 \in Nat /\ 1000 > 0
      OBVIOUS
    <3> QED BY <2>1, <2>2, <3>1, ReadsAtMost
  <2>5. taken' = taken + k /\ taken' \in Nat /\ taken' <= Offset(N)
    BY <1>6, <2>1, <2>4
  <2>6. ftps.left - k = Offset(N) - taken'
    BY <1>1, <1>2, <2>3, <2>4, <2>5
  <2> QED BY <2>1, <2>3, <2>5, <2>6
<1> QED BY <1>10, <1>11, <1>12

\* Every step keeps what lab2 has read.
LEMMA NextBytes ==
  ASSUME Types, CallInv, RingInv, BytesInv, Next
  PROVE  BytesInv'
<1> SUFFICES ASSUME Header, faults' = 0, version' = "lab2" PROVE BytesInv'
  BY DEF BytesInv, Header, NameSize
<1>1. faults = 0 /\ ~ Fault /\ version = "lab2"
  BY FaultlessBefore
<1>2. inbox = <<>> /\ taken \in Nat /\ taken <= Offset(sends)
  BY <1>1 DEF BytesInv
<1>3. ASSUME UNCHANGED <<inbox, taken, ftps>>, Offset(sends) <= Offset(sends)'
      PROVE  BytesInv'
  <2>1. Offset(N)' = Offset(N) /\ FileLen' = FileLen /\ NameSize' = NameSize /\ AtLen' = AtLen
    BY DEF Offset, FileLen, Sum, N, NameSize, AtLen
  <2>2. taken' \in Nat /\ taken' <= Offset(sends)'
    <3>1. Offset(sends) \in Nat /\ Offset(sends)' \in Nat
      <4>1. sends \in 0 .. N /\ sends' \in 0 .. N
        <5>1. Types'
          BY NextTypes
        <5> QED BY <5>1 DEF Types, CallTypes, N
      <4>2. Offset(sends)' = Offset(sends')
        BY DEF Offset, Sum
      <4> QED BY <4>1, <4>2, OffsetIs
    <3> QED BY <1>2, <1>3, <3>1
  <2>3. \/ taken = 0 /\ ftps = AtLen
        \/ taken = 4 /\ ftps = [at |-> "name", rec_len |-> 0, left |-> FileLen, got |-> <<>>]
        \/ /\ taken < Offset(N)
           /\ ftps = [at |-> "body", rec_len |-> 0, left |-> Offset(N) - taken,
                      got |-> <<4 + NameSize>>]
        \/ /\ taken = Offset(N)
           /\ ftps = [at |-> "closed", rec_len |-> 0, left |-> 0, got |-> <<4 + NameSize>>]
    BY <1>1 DEF BytesInv
  <2> QED BY <1>2, <1>3, <2>1, <2>2, <2>3 DEF BytesInv
<1>4. ASSUME UNCHANGED <<inbox, taken, ftps, sends>> PROVE BytesInv'
  <2>1. Offset(sends)' = Offset(sends)
    BY <1>4 DEF Offset, Sum
  <2>2. Offset(sends) \in Nat
    BY OffsetIs DEF Types, CallTypes
  <2> QED BY <1>3, <1>4, <2>1, <2>2
<1>5. CASE Client
  <2>1. ~ (call = "wait")
    BY <1>1, Zenon DEF CallInv
  <2>2. Writes
    BY <1>1, <1>5, <2>1 DEF Client, SendsAway, SEND, Signalled
  <2>3. UNCHANGED <<inbox, taken, ftps>> /\ sends' = sends + 1 /\ sends < N
    BY <2>2 DEF Writes, serverVars
  <2>4. Offset(sends)' = Offset(sends + 1)
    BY <2>3 DEF Offset, Sum
  <2>5. N \in Nat /\ sends + 1 \in 0 .. N /\ sends \in 0 .. sends + 1
    BY <2>3, TransferAssumption DEF Types, CallTypes, N
  <2>6. Offset(sends) <= Offset(sends + 1)
    BY <2>5, OffsetGrows
  <2> QED BY <1>3, <2>3, <2>4, <2>6
<1>6. CASE Tcpd
  <2>1. UNCHANGED <<inbox, taken, ftps, sends>>
    BY <1>6 DEF Tcpd, Select, Forwards, block_sending_and_save, LocalData, AckRead, ftpcVars,
                serverVars
  <2> QED BY <1>4, <2>1
<1>7. CASE TimerTurn
  <2>1. UNCHANGED <<inbox, taken, ftps, sends>>
    BY <1>7 DEF TimerTurn, ftpcVars, serverVars
  <2> QED BY <1>4, <2>1
<1>8. ~ ServerTcpd
  BY <1>1 DEF ServerTcpd, ForwardsRemote, RemoteData
<1>9. CASE process_request
  <2>1. ~ RECV
    BY <1>2 DEF RECV
  <2>2. ReadHeader("len", 4) \/ ReadHeader("name", NameSize) \/ ReadBody
    BY <1>9, <2>1, Zenon DEF process_request, RecvLength, RecvName, RecvBody
  <2> QED BY <1>1, <2>2, StreamReads
<1> QED BY <1>1, <1>5, <1>6, <1>7, <1>8, <1>9 DEF Next

\* Nothing was sent or read.
LEMMA InitArrives == Init => PacketsInv /\ BytesInv
<1> SUFFICES ASSUME Init PROVE PacketsInv /\ BytesInv
  OBVIOUS
<1>1. N \in Nat /\ 0 \in 0 .. N
  BY TransferAssumption DEF N
<1>2. /\ sends = 0 /\ local = <<>> /\ seq = 0 /\ under = <<>> /\ inbox = <<>> /\ taken = 0
      /\ ftps = AtLen
  BY DEF Init
<1>3. ftps = Reading(0) /\ InLine(0)
  BY <1>2 DEF Reading, InLine, Line
<1>4. PacketsInv
  BY <1>1, <1>3 DEF PacketsInv
<1>5. Offset(sends) \in Nat
  BY <1>1, <1>2, OffsetIs
<1>6. BytesInv
  <2>1. taken \in Nat /\ taken <= Offset(sends)
    BY <1>2, <1>5
  <2> QED BY <1>2, <2>1 DEF BytesInv
<1> QED BY <1>4, <1>6

\* A stutter keeps both.
LEMMA StutterArrives ==
  ASSUME PacketsInv, BytesInv, UNCHANGED vars
  PROVE  PacketsInv' /\ BytesInv'
<1>1. UNCHANGED <<version, sends, local, seq, under, faults, inbox, taken, ftps>>
  BY DEF vars, ftpcVars, serverVars
<1>2. PacketsInv'
  <2> SUFFICES ASSUME Header, faults = 0, version # "lab2"
               PROVE  \E d \in 0 .. N : ftps' = Reading(d) /\ InLine(d)'
    BY <1>1, ReadingStays DEF PacketsInv, Header, NameSize, N
  <2>1. PICK d \in 0 .. N : ftps = Reading(d) /\ InLine(d)
    BY DEF PacketsInv
  <2> QED BY <1>1, <2>1 DEF InLine, Line
<1>3. BytesInv'
  <2>1. Offset(N)' = Offset(N) /\ FileLen' = FileLen /\ Offset(sends)' = Offset(sends)
    BY <1>1 DEF Offset, FileLen, Sum, N
  <2> QED BY <1>1, <2>1 DEF BytesInv, Header, NameSize, AtLen
<1> QED BY <1>2, <1>3

\* Without a fault the file arrives whole and in order, whatever the sizes of
\* the ring and the file: the loops of process_request end where they have to,
\* and what was read before is the front of the file.
THEOREM FileArrives == Spec => []ArrivesClean
<1>1. IInv /\ PacketsInv /\ BytesInv /\ [Next]_vars => (PacketsInv /\ BytesInv)'
  <2> SUFFICES ASSUME IInv, PacketsInv, BytesInv, [Next]_vars PROVE PacketsInv' /\ BytesInv'
    OBVIOUS
  <2> QED BY NextPackets, NextBytes, StutterArrives DEF IInv
<1>2. IInv /\ PacketsInv /\ BytesInv => ArrivesClean
  <2> SUFFICES ASSUME IInv, PacketsInv, BytesInv, Header, faults = 0
               PROVE  /\ version = "lab2" =>
                           /\ taken <= Offset(sends)
                           /\ ftps.at = "closed" => taken = Sum(Sizes) /\ ftps.got = <<4 + NameSize>>
                      /\ version # "lab2" =>
                           /\ \E n \in 0 .. N - 2 : ftps.got = Chunks(n)
                           /\ sends = N /\ local = <<>> /\ under = <<>> /\ inbox = <<>>
                                => ftps.at = "len" /\ ftps.got = Chunks(N - 2)
    BY DEF ArrivesClean
  <2>1. N \in Nat /\ N >= 2
    BY TransferAssumption DEF N
  <2>2. ASSUME version = "lab2"
        PROVE  /\ taken <= Offset(sends)
               /\ ftps.at = "closed" => taken = Sum(Sizes) /\ ftps.got = <<4 + NameSize>>
    BY <2>2, OffsetIs DEF BytesInv, AtLen
  <2>3. ASSUME version # "lab2"
        PROVE  /\ \E n \in 0 .. N - 2 : ftps.got = Chunks(n)
               /\ sends = N /\ local = <<>> /\ under = <<>> /\ inbox = <<>>
                    => ftps.at = "len" /\ ftps.got = Chunks(N - 2)
    <3>1. PICK d \in 0 .. N : ftps = Reading(d) /\ InLine(d)
      BY <2>3 DEF PacketsInv
    <3>2. 0 \in 0 .. N - 2 /\ N - 2 \in 0 .. N - 2 /\ Chunks(0) = <<>>
      BY <2>1 DEF Chunks
    <3>3. \E n \in 0 .. N - 2 : ftps.got = Chunks(n)
      <4>1. CASE d = 0 \/ d = 1
        BY <3>1, <3>2, <4>1 DEF Reading, AtLen
      <4>2. CASE d # 0 /\ d # 1 /\ d < N
        <5>1. ftps.got = Chunks(d - 2)
          BY <3>1, <4>2 DEF Reading
        <5>2. d - 2 \in 0 .. N - 2
          BY <2>1, <4>2
        <5> QED BY <5>1, <5>2
      <4>3. CASE d # 0 /\ d # 1 /\ ~ (d < N)
        BY <3>1, <3>2, <4>3 DEF Reading
      <4> QED BY <4>1, <4>2, <4>3
    <3>4. ASSUME sends = N, local = <<>>, under = <<>>, inbox = <<>>
          PROVE  ftps.at = "len" /\ ftps.got = Chunks(N - 2)
      <4>1. Len(local) = 0 /\ Len(under) = 0 /\ Len(inbox) = 0
        BY <3>4
      <4>2. d = N
        <5>1. CASE version = "lab3"
          BY <2>1, <3>1, <3>4, <4>1, <5>1 DEF InLine
        <5>2. CASE version = "proj1"
          <6>1. CallInv
            BY DEF IInv
          <6>2. call # "wait"
            BY <2>1, <3>4, <5>2, <6>1 DEF CallInv
          <6>3. seq = sends
            BY <5>2, <6>1, <6>2 DEF CallInv, Idle, Handed, Received, Blocked, Stuck
          <6> QED BY <2>1, <3>1, <3>4, <4>1, <5>2, <6>3 DEF InLine
        <5>3. version \in {"lab3", "proj1"}
          BY <2>3 DEF IInv, Types, CallTypes
        <5> QED BY <5>1, <5>2, <5>3
      <4>3. ftps = [at |-> "len", rec_len |-> 0, left |-> 0, got |-> Chunks(N - 2)]
        BY <2>1, <3>1, <4>2 DEF Reading
      <4> QED BY ONLY <4>3
    <3> QED BY <3>3, <3>4
  <2> QED BY <2>2, <2>3
<1> QED BY <1>1, <1>2, InitArrives, Inductive, PTL DEF Spec
=============================================================================

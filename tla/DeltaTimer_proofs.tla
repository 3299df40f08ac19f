--------------------------- MODULE DeltaTimer_proofs ---------------------------
(***************************************************************************)
(* The list of DeltaTimer keeps its shape and the promise of TimerSpec,    *)
(* proved for any packages, durations and bounds.  Sees(list, f) says that *)
(* a list of deltas stands for a function of times left; each part of a    *)
(* turn does to the list what TimerSpec does to the function.              *)
(***************************************************************************)
EXTENDS DeltaTimer, WellFoundedInduction, TLAPS, FiniteSetTheorems

-----------------------------------------------------------------------------
(* Sums of lengths, which are functions defined by recursion.               *)

\* A set of naturals that is not empty has a least element.
LEMMA LeastElement ==
  ASSUME NEW T \in SUBSET Nat, T # {}
  PROVE  \E n \in T : \A k \in T : n <= k
<1>1. PICK n \in T : \A k \in T : ~ (<<k, n>> \in OpToRel(<, Nat))
  BY NatLessThanWellFounded, WFMin
<1>2. ASSUME NEW k \in T PROVE n <= k
  <2>1. ~ (k < n)
    BY <1>1 DEF OpToRel
  <2> QED BY <2>1
<1> QED BY <1>2

\* What holds of zero, and of every number that follows one it holds of, holds
\* up to n.
LEMMA UpTo ==
  ASSUME NEW n \in Nat, NEW S, 0 \in S, \A i \in 1 .. n : i - 1 \in S => i \in S
  PROVE  \A i \in 0 .. n : i \in S
<1> DEFINE Bad == {i \in 0 .. n : i \notin S}
<1>1. SUFFICES ASSUME Bad # {} PROVE FALSE
  OBVIOUS
<1>2. PICK k \in Bad : \A j \in Bad : k <= j
  <2>1. Bad \in SUBSET Nat
    OBVIOUS
  <2> HIDE DEF Bad
  <2> QED BY <1>1, <2>1, LeastElement
<1>3. k \in 1 .. n /\ k - 1 \in 0 .. n /\ ~ (k <= k - 1) /\ k \notin S
  OBVIOUS
<1>4. k - 1 \in S
  BY <1>2, <1>3
<1> QED BY <1>3, <1>4

\* The sum of the first k lengths is at place k of f, for k up to n.
SumsTo(f, lens, n) ==
  f = [k \in 0 .. n |-> IF k = 0 THEN 0 ELSE f[k - 1] + lens[k]]

\* The recursion has a solution.
LEMMA SumsExist ==
  ASSUME NEW lens \in Seq(Nat)
  PROVE  \E f : SumsTo(f, lens, Len(lens))
<1> DEFINE Lacking == {n \in Nat : n <= Len(lens) /\ ~ \E f : SumsTo(f, lens, n)}
<1>1. SUFFICES ASSUME Lacking # {} PROVE FALSE
  <2>1. Len(lens) \in Nat /\ (Len(lens) \in Lacking \/ \E f : SumsTo(f, lens, Len(lens)))
    OBVIOUS
  <2> QED BY <2>1
<1>2. PICK n \in Lacking : \A k \in Lacking : n <= k
  <2> HIDE DEF Lacking
  <2>1. Lacking \in SUBSET Nat
    BY DEF Lacking
  <2> QED BY <1>1, <2>1, LeastElement
<1>3. n \in Nat /\ n <= Len(lens) /\ ~ \E f : SumsTo(f, lens, n)
  OBVIOUS
<1>4. CASE n = 0
  <2>1. SumsTo([k \in 0 .. 0 |-> 0], lens, 0)
    BY DEF SumsTo
  <2> QED BY <1>3, <1>4, <2>1
<1>5. CASE n # 0
  <2>1. n - 1 \in Nat /\ n - 1 <= Len(lens) /\ ~ (n <= n - 1)
    BY <1>3, <1>5
  <2>2. n - 1 \notin Lacking
    BY <1>2, <2>1
  <2>3. PICK g : SumsTo(g, lens, n - 1)
    BY <2>1, <2>2
  <2> DEFINE f == [k \in 0 .. n |-> IF k = n THEN g[n - 1] + lens[n] ELSE g[k]]
  <2>4. ASSUME NEW k \in 0 .. n
        PROVE  f[k] = IF k = 0 THEN 0 ELSE f[k - 1] + lens[k]
    <3>1. CASE k = n
      BY <1>3, <1>5, <3>1
    <3>2. CASE k # n
      <4>1. k \in 0 .. n - 1 /\ (k # 0 => k - 1 \in 0 .. n /\ k - 1 # n)
        BY <1>3, <3>2
      <4>2. g[k] = IF k = 0 THEN 0 ELSE g[k - 1] + lens[k]
        BY <2>3, <4>1 DEF SumsTo
      <4> QED BY <4>1, <4>2
    <3> QED BY <3>1, <3>2
  <2>5. SumsTo(f, lens, n)
    BY <2>4 DEF SumsTo
  <2> QED BY <1>3, <2>5
<1> QED BY <1>4, <1>5

\* The offsets start at zero, and grow by a length at every place.
LEMMA SumStep ==
  ASSUME NEW lens \in Seq(Nat), NEW f, SumsTo(f, lens, Len(lens))
  PROVE  /\ DOMAIN f = 0 .. Len(lens)
         /\ f[0] = 0
         /\ \A k \in 0 .. Len(lens) - 1 : f[k + 1] = f[k] + lens[k + 1]
<1> DEFINE F(k) == IF k = 0 THEN 0 ELSE f[k - 1] + lens[k]
<1>1. f = [k \in 0 .. Len(lens) |-> F(k)]
  BY DEF SumsTo
<1> HIDE DEF F
<1>2. DOMAIN f = 0 .. Len(lens) /\ \A k \in 0 .. Len(lens) : f[k] = F(k)
  BY <1>1
<1>3. Len(lens) \in Nat
  OBVIOUS
<1> QED BY <1>2, <1>3 DEF F

\* They are naturals.
LEMMA SumNat ==
  ASSUME NEW lens \in Seq(Nat), NEW f, SumsTo(f, lens, Len(lens))
  PROVE  f \in [0 .. Len(lens) -> Nat]
<1> DEFINE Bad == {n \in 0 .. Len(lens) : f[n] \notin Nat}
<1>1. SUFFICES ASSUME Bad # {} PROVE FALSE
  <2>1. f = [k \in 0 .. Len(lens) |-> f[k]]
    BY DEF SumsTo
  <2>2. ASSUME Bad = {} PROVE \A k \in 0 .. Len(lens) : f[k] \in Nat
    BY <2>2
  <2> QED BY <2>1, <2>2
<1>2. PICK n \in Bad : \A k \in Bad : n <= k
  <2>1. Bad \in SUBSET Nat
    OBVIOUS
  <2> HIDE DEF Bad
  <2> QED BY <1>1, <2>1, LeastElement
<1>3. n # 0
  BY SumStep
<1>4. n - 1 \in 0 .. Len(lens) - 1 /\ ~ (n <= n - 1) /\ n - 1 \in 0 .. Len(lens)
  BY <1>3
<1>5. f[n - 1] \in Nat
  BY <1>2, <1>4
<1>6. f[n] = f[n - 1] + lens[n]
  BY <1>4, SumStep
<1>7. lens[n] \in Nat
  BY <1>3
<1> QED BY <1>5, <1>6, <1>7

\* And they never fall.
LEMMA SumMonotonic ==
  ASSUME NEW lens \in Seq(Nat), NEW f, SumsTo(f, lens, Len(lens)),
         NEW m \in 0 .. Len(lens), NEW n \in 0 .. Len(lens), m <= n
  PROVE  f[m] <= f[n]
<1> DEFINE Bad == {k \in 0 .. Len(lens) : m <= k /\ ~ (f[m] <= f[k])}
<1>1. SUFFICES ASSUME Bad # {} PROVE FALSE
  OBVIOUS
<1>2. PICK k \in Bad : \A j \in Bad : k <= j
  <2>1. Bad \in SUBSET Nat
    OBVIOUS
  <2> HIDE DEF Bad
  <2> QED BY <1>1, <2>1, LeastElement
<1>3. f[m] \in Nat /\ f[k] \in Nat
  BY SumNat
<1>4. k # m
  BY <1>3
<1>5. k - 1 \in 0 .. Len(lens) - 1 /\ m <= k - 1 /\ ~ (k <= k - 1) /\ k - 1 \in 0 .. Len(lens)
  BY <1>4
<1>6. f[m] <= f[k - 1]
  BY <1>2, <1>5
<1>7. f[k] = f[k - 1] + lens[k]
  BY <1>5, SumStep
<1>8. f[k - 1] \in Nat /\ lens[k] \in Nat
  <2>1. f[k - 1] \in Nat
    BY <1>5, SumNat
  <2>2. k \in 1 .. Len(lens)
    BY <1>5
  <2> QED BY <2>1, <2>2
<1> QED BY <1>3, <1>6, <1>7, <1>8


\* What is left of a time, no less than nothing.
Clip(x) == IF x > 0 THEN x ELSE 0

\* No two nodes of a list are for the same package.
Distinct(list) == \A j, k \in 1 .. Len(list) : list[j].Id = list[k].Id => j = k

\* The packages that have a node.
IdsOf(list) == {list[j].Id : j \in 1 .. Len(list)}

\* The list stands for the times left of f, in their order; the deltas up to a
\* node that is overdue come to nothing.
Sees(list, f) ==
  /\ list \in Seq(Node) /\ Distinct(list)
  /\ f \in [IdsOf(list) -> Int]
  /\ \A j \in 1 .. Len(list) : Due(list)[j] = Clip(f[list[j].Id])
  /\ \A j, k \in 1 .. Len(list) : j <= k => f[list[j].Id] <= f[list[k].Id]

IInv == TypeOK /\ NoneDueInList

-----------------------------------------------------------------------------
(* Lemmas about the operators                                              *)

\* A set of naturals has a minimum.
LEMMA MinIs ==
  ASSUME NEW S \in SUBSET Nat, S # {}
  PROVE  Min(S) \in S /\ \A k \in S : Min(S) <= k
BY LeastElement DEF Min

\* Find finds a node of the package, if there is one.
LEMMA FindIs ==
  ASSUME NEW list \in Seq(Node), NEW id
  PROVE  /\ Find(list, id) \in 0 .. Len(list)
         /\ Find(list, id) = 0 <=> \A j \in 1 .. Len(list) : list[j].Id # id
         /\ Find(list, id) # 0 => list[Find(list, id)].Id = id
<1> DEFINE I == {j \in 1 .. Len(list) : list[j].Id = id}
<1>1. Find(list, id) = IF I # {} THEN Min(I) ELSE 0
  BY DEF Find, SelectInSeq
<1>2. I \in SUBSET Nat /\ I \subseteq 1 .. Len(list)
  OBVIOUS
<1>3. CASE I = {}
  BY <1>1, <1>3
<1>4. CASE I # {}
  <2>1. Min(I) \in I
    <3> HIDE DEF I
    <3> QED BY <1>2, <1>4, MinIs
  <2> QED BY <1>1, <1>4, <2>1
<1> QED BY <1>3, <1>4


\* Due is the sum of the deltas up to each node, which never falls.
LEMMA DueIs ==
  ASSUME NEW list \in Seq(Node)
  PROVE  /\ Due(list) \in [0 .. Len(list) -> Nat] /\ Due(list)[0] = 0
         /\ \A j \in 1 .. Len(list) : Due(list)[j] = Due(list)[j - 1] + list[j].RemainSeconds
         /\ \A j, k \in 0 .. Len(list) : j <= k => Due(list)[j] <= Due(list)[k]
<1> DEFINE lens == [j \in 1 .. Len(list) |-> list[j].RemainSeconds]
           D == Due(list)
<1>0. \A j \in 1 .. Len(list) : list[j].RemainSeconds \in Nat
  <2>1. \A j \in 1 .. Len(list) : list[j] \in Node
    OBVIOUS
  <2> QED BY <2>1 DEF Node
<1>1. lens \in Seq(Nat) /\ Len(lens) = Len(list) /\ Len(list) \in Nat
      /\ \A j \in 1 .. Len(list) : lens[j] = list[j].RemainSeconds
  BY <1>0
<1> HIDE DEF lens
<1>2. \A f : SumsTo(f, lens, Len(list)) <=>
        f = [j \in 0 .. Len(list) |-> IF j = 0 THEN 0 ELSE f[j - 1] + list[j].RemainSeconds]
  <2> TAKE f
  <2>1. \A j \in 0 .. Len(list) : (IF j = 0 THEN 0 ELSE f[j - 1] + list[j].RemainSeconds)
                                  = (IF j = 0 THEN 0 ELSE f[j - 1] + lens[j])
    BY <1>1
  <2> QED BY <2>1 DEF SumsTo
<1>3. D = CHOOSE f : SumsTo(f, lens, Len(list))
  BY <1>2 DEF Due
<1>4. SumsTo(D, lens, Len(lens))
  BY <1>1, <1>3, SumsExist
<1> HIDE DEF D
<1>5. D \in [0 .. Len(list) -> Nat] /\ D[0] = 0
  BY <1>1, <1>4, SumNat, SumStep
<1>6. \A j \in 1 .. Len(list) : D[j] = D[j - 1] + list[j].RemainSeconds
  <2> TAKE j \in 1 .. Len(list)
  <2>1. j - 1 \in 0 .. Len(lens) - 1 /\ (j - 1) + 1 = j
    BY <1>1
  <2>2. D[(j - 1) + 1] = D[j - 1] + lens[(j - 1) + 1]
    BY <1>1, <1>4, <2>1, SumStep
  <2> QED BY <1>1, <2>1, <2>2
<1>7. \A j, k \in 0 .. Len(list) : j <= k => D[j] <= D[k]
  BY <1>1, <1>4, SumMonotonic
<1> QED BY <1>5, <1>6, <1>7 DEF D

\* Whatever starts at zero and grows by the deltas is Due.
LEMMA DueUnique ==
  ASSUME NEW list \in Seq(Node), NEW g, g[0] = 0,
         \A j \in 1 .. Len(list) : g[j] = g[j - 1] + list[j].RemainSeconds
  PROVE  \A j \in 0 .. Len(list) : Due(list)[j] = g[j]
<1> DEFINE S == {j \in 0 .. Len(list) : Due(list)[j] = g[j]}
<1>1. 0 \in S
  BY DueIs
<1>2. ASSUME NEW i \in 1 .. Len(list), i - 1 \in S PROVE i \in S
  BY <1>2, DueIs
<1> HIDE DEF S
<1>3. \A i \in 0 .. Len(list) : i \in S
  <2>1. Len(list) \in Nat
    OBVIOUS
  <2> QED BY ONLY <1>1, <1>2, <2>1, UpTo
<1> QED BY <1>3 DEF S

\* UpdateTimerList takes the time that passed off every node, but no more than
\* it has.
LEMMA UpdateIs ==
  ASSUME NEW list \in Seq(Node), elapsed \in Nat
  PROVE  /\ UpdateTimerList(list) \in Seq(Node) /\ Len(UpdateTimerList(list)) = Len(list)
         /\ \A j \in 1 .. Len(list) : UpdateTimerList(list)[j].Id = list[j].Id
         /\ \A j \in 1 .. Len(list) :
              Due(UpdateTimerList(list))[j] = Clip(Due(list)[j] - elapsed)
<1> DEFINE n == Len(list)
           D == Due(list)
           Step(f, j) == IF j = 0 THEN elapsed
                         ELSE IF f[j - 1] < list[j].RemainSeconds THEN 0
                         ELSE f[j - 1] - list[j].RemainSeconds
           Owed(f) == f = [j \in 0 .. n |-> Step(f, j)]
           g == [j \in 0 .. n |-> Clip(elapsed - D[j])]
           owed == CHOOSE f : Owed(f)
           New(j) == [list[j] EXCEPT !.RemainSeconds =
                        IF owed[j - 1] < @ THEN @ - owed[j - 1] ELSE 0]
           U == UpdateTimerList(list)
<1>1. n \in Nat /\ DOMAIN list = 1 .. n /\ \A j \in 1 .. n : list[j] \in Node
  OBVIOUS
<1>2. U = [j \in 1 .. n |-> New(j)]
  BY <1>1 DEF UpdateTimerList
<1>3. /\ \A j \in 0 .. n : D[j] \in Nat
      /\ D[0] = 0 /\ \A j \in 1 .. n : D[j] = D[j - 1] + list[j].RemainSeconds
      /\ \A j \in 1 .. n : j - 1 \in 0 .. n /\ list[j].RemainSeconds \in Nat
  <2>1. D \in [0 .. n -> Nat] /\ D[0] = 0
        /\ \A j \in 1 .. n : D[j] = D[j - 1] + list[j].RemainSeconds
    BY DueIs
  <2>2. \A j \in 1 .. n : list[j].RemainSeconds \in Nat
    BY <1>1 DEF Node
  <2> HIDE DEF D, n
  <2> QED BY <1>1, <2>1, <2>2
<1> HIDE DEF D, n
<1>4. Owed(g)
  <2> SUFFICES ASSUME NEW j \in 0 .. n PROVE g[j] = Step(g, j)
    OBVIOUS
  <2>1. CASE j = 0
    BY <1>3, <2>1 DEF Clip
  <2>2. CASE j # 0
    <3>1. j \in 1 .. n /\ D[j] = D[j - 1] + list[j].RemainSeconds /\ D[j - 1] \in Nat
          /\ list[j].RemainSeconds \in Nat /\ j - 1 \in 0 .. n
      BY <1>1, <1>3, <2>2
    <3>2. g[j] = Clip(elapsed - D[j]) /\ g[j - 1] = Clip(elapsed - D[j - 1])
      BY <3>1
    <3> HIDE DEF g
    <3> QED BY <2>2, <3>1, <3>2 DEF Clip
  <2> QED BY <2>1, <2>2
<1>5. Owed(owed)
  <2> HIDE DEF Owed, g
  <2> QED BY <1>4
<1>6. \A j \in 0 .. n : owed[j] = g[j]
  <2> HIDE DEF owed, g
  <2> DEFINE S == {j \in 0 .. n : owed[j] = g[j]}
  <2>1. \A j \in 0 .. n : owed[j] = Step(owed, j)
    BY <1>5
  <2>2. \A j \in 0 .. n : g[j] = Step(g, j)
    BY <1>4
  <2> HIDE DEF Owed
  <2>3. 0 \in S
    BY <1>1, <2>1, <2>2
  <2>4. ASSUME NEW i \in 1 .. n, i - 1 \in S PROVE i \in S
    BY <1>1, <2>1, <2>2, <2>4
  <2> HIDE DEF S
  <2>5. \A i \in 0 .. n : i \in S
    BY ONLY <1>1, <2>3, <2>4, UpTo
  <2> QED BY <2>5 DEF S
<1>7. \A j \in 1 .. n : owed[j - 1] = Clip(elapsed - D[j - 1])
  BY <1>3, <1>6
<1> HIDE DEF owed, Owed, g
<1>8. \A j \in 1 .. n : /\ New(j) \in Node /\ New(j).Id = list[j].Id
                        /\ New(j).RemainSeconds = Clip(D[j] - elapsed) - Clip(D[j - 1] - elapsed)
  <2> TAKE j \in 1 .. n
  <2> DEFINE r == IF owed[j - 1] < list[j].RemainSeconds
                  THEN list[j].RemainSeconds - owed[j - 1] ELSE 0
  <2>1. list[j] \in Node /\ New(j) = [list[j] EXCEPT !.RemainSeconds = r]
    BY <1>1
  <2>2. r \in Nat /\ r = Clip(D[j] - elapsed) - Clip(D[j - 1] - elapsed)
    <3> DEFINE a == D[j - 1]
               b == D[j]
               s == list[j].RemainSeconds
               o == owed[j - 1]
    <3>1. a \in Nat /\ b \in Nat /\ s \in Nat /\ b = a + s /\ o = Clip(elapsed - a) /\ elapsed \in Nat
      BY <1>1, <1>3, <1>7
    <3> HIDE DEF a, b, s, o
    <3>2. /\ (IF o < s THEN s - o ELSE 0) \in Nat
          /\ (IF o < s THEN s - o ELSE 0) = Clip(b - elapsed) - Clip(a - elapsed)
      <4>1. CASE elapsed >= a
        <5>1. o = elapsed - a /\ Clip(a - elapsed) = 0
          BY ONLY <3>1, <4>1 DEF Clip
        <5>2. Clip(b - elapsed) = IF o < s THEN s - o ELSE 0
          BY ONLY <3>1, <4>1, <5>1 DEF Clip
        <5> QED BY ONLY <3>1, <4>1, <5>1, <5>2
      <4>2. CASE elapsed < a
        <5>1. o = 0 /\ Clip(a - elapsed) = a - elapsed /\ Clip(b - elapsed) = b - elapsed
          BY ONLY <3>1, <4>2 DEF Clip
        <5> QED BY ONLY <3>1, <4>2, <5>1
      <4> QED BY ONLY <3>1, <4>1, <4>2
    <3> QED BY <3>2 DEF a, b, s, o
  <2> HIDE DEF r, New
  <2> QED BY <2>1, <2>2 DEF Node
<1>9. U \in Seq(Node) /\ Len(U) = n /\ \A j \in 1 .. n : U[j] = New(j)
  <2> HIDE DEF New, U
  <2> QED BY <1>1, <1>2, <1>8
<1> DEFINE h == [j \in 0 .. n |-> Clip(D[j] - elapsed)]
<1>10. \A j \in 0 .. n : Due(U)[j] = h[j]
  <2> HIDE DEF New, U
  <2>1. h[0] = 0
    BY <1>1, <1>3 DEF Clip
  <2>2. \A j \in 1 .. n : h[j] = h[j - 1] + U[j].RemainSeconds
    <3> TAKE j \in 1 .. n
    <3>1. h[j] = Clip(D[j] - elapsed) /\ h[j - 1] = Clip(D[j - 1] - elapsed)
      BY <1>1, <1>3
    <3> HIDE DEF h
    <3>2. Clip(D[j] - elapsed) \in Int /\ Clip(D[j - 1] - elapsed) \in Int
      BY <1>1, <1>3 DEF Clip
    <3> QED BY <1>8, <1>9, <3>1, <3>2
  <2> HIDE DEF h
  <2> QED BY <1>9, <2>1, <2>2, DueUnique
<1>11. \A j \in 1 .. n : Due(U)[j] = Clip(D[j] - elapsed)
  BY <1>1, <1>10
<1> QED BY <1>8, <1>9, <1>11 DEF D, n


\* SubSeq has the elements from its first place to its last.
LEMMA SubSeqIs ==
  ASSUME NEW S, NEW list \in Seq(S), NEW m \in 1 .. Len(list) + 1, NEW n \in 0 .. Len(list),
         m <= n + 1
  PROVE  /\ SubSeq(list, m, n) \in Seq(S) /\ Len(SubSeq(list, m, n)) = n + 1 - m
         /\ \A j \in 1 .. n + 1 - m : SubSeq(list, m, n)[j] = list[m + j - 1]
OBVIOUS

\* InsertAt moves what came at its place, and after, one place on.
LEMMA InsertAtIs ==
  ASSUME NEW S, NEW list \in Seq(S), NEW at \in 1 .. Len(list) + 1, NEW e \in S
  PROVE  /\ InsertAt(list, at, e) \in Seq(S) /\ Len(InsertAt(list, at, e)) = Len(list) + 1
         /\ \A j \in 1 .. Len(list) + 1 :
              InsertAt(list, at, e)[j] = IF j < at THEN list[j]
                                         ELSE IF j = at THEN e ELSE list[j - 1]
<1> DEFINE n == Len(list)
           a == SubSeq(list, 1, at - 1)
           b == SubSeq(list, at, n)
<1>1. n \in Nat /\ at \in 1 .. n + 1
  OBVIOUS
<1>2. a \in Seq(S) /\ Len(a) = at - 1 /\ \A j \in 1 .. at - 1 : a[j] = list[j]
  BY SubSeqIs
<1>3. b \in Seq(S) /\ Len(b) = n + 1 - at /\ \A j \in 1 .. n + 1 - at : b[j] = list[at + j - 1]
  BY SubSeqIs
<1>4. InsertAt(list, at, e) = a \o <<e>> \o b
  BY DEF InsertAt
<1> HIDE DEF a, b, n
<1>5. a \o <<e>> \in Seq(S) /\ Len(a \o <<e>>) = at /\ (a \o <<e>>)[at] = e
      /\ \A j \in 1 .. at - 1 : (a \o <<e>>)[j] = a[j]
  BY <1>1, <1>2
<1> DEFINE c == a \o <<e>>
<1> HIDE DEF c
<1>6. c \o b \in Seq(S) /\ Len(c \o b) = n + 1
      /\ (\A j \in 1 .. at : (c \o b)[j] = c[j])
      /\ (\A j \in at + 1 .. n + 1 : (c \o b)[j] = b[j - at])
  BY <1>1, <1>3, <1>5 DEF c
<1>7. \A j \in 1 .. n + 1 : (c \o b)[j] = IF j < at THEN list[j] ELSE IF j = at THEN e ELSE list[j - 1]
  <2> TAKE j \in 1 .. n + 1
  <2>1. CASE j < at
    BY <1>1, <1>2, <1>5, <1>6, <2>1 DEF c
  <2>2. CASE j = at
    BY <1>1, <1>5, <1>6, <2>2 DEF c
  <2>3. CASE j > at
    <3> DEFINE k == j - at
    <3>1. k \in 1 .. n + 1 - at /\ at + k - 1 = j - 1 /\ j \in at + 1 .. n + 1
      BY <1>1, <2>3
    <3>2. (c \o b)[j] = b[k]
      BY <1>6, <3>1
    <3> HIDE DEF k
    <3>3. b[k] = list[at + k - 1]
      BY <1>3, <3>1
    <3>4. list[at + k - 1] = list[j - 1]
      BY <3>1
    <3>5. ~ (j < at) /\ j # at
      BY <1>1, <2>3
    <3> QED BY ONLY <3>2, <3>3, <3>4, <3>5
  <2>4. j < at \/ j = at \/ j > at
    BY <1>1
  <2> QED BY ONLY <2>1, <2>2, <2>3, <2>4
<1> QED BY <1>4, <1>6, <1>7 DEF c, n

\* RemoveAt moves what came after its place one place back.
LEMMA RemoveAtIs ==
  ASSUME NEW S, NEW list \in Seq(S), NEW at \in 1 .. Len(list)
  PROVE  /\ RemoveAt(list, at) \in Seq(S) /\ Len(RemoveAt(list, at)) = Len(list) - 1
         /\ \A j \in 1 .. Len(list) - 1 :
              RemoveAt(list, at)[j] = IF j < at THEN list[j] ELSE list[j + 1]
<1> DEFINE n == Len(list)
           a == SubSeq(list, 1, at - 1)
           b == SubSeq(list, at + 1, n)
<1>1. n \in Nat /\ at \in 1 .. n
  OBVIOUS
<1>2. a \in Seq(S) /\ Len(a) = at - 1 /\ \A j \in 1 .. at - 1 : a[j] = list[j]
  BY SubSeqIs
<1>3. b \in Seq(S) /\ Len(b) = n - at /\ \A j \in 1 .. n - at : b[j] = list[at + j]
  BY SubSeqIs
<1>4. RemoveAt(list, at) = a \o b
  BY DEF RemoveAt
<1> HIDE DEF a, b, n
<1>5. a \o b \in Seq(S) /\ Len(a \o b) = n - 1
      /\ (\A j \in 1 .. at - 1 : (a \o b)[j] = a[j])
      /\ (\A j \in at .. n - 1 : (a \o b)[j] = b[j - (at - 1)])
  <2>1. Len(a) = at - 1 /\ Len(b) = n - at
    BY ONLY <1>2, <1>3
  <2>4. Len(a) + Len(b) = n - 1
    BY ONLY <1>1, <2>1
  <2>2. a \o b \in Seq(S) /\ Len(a \o b) = n - 1
    <3>1. a \o b \in Seq(S) /\ Len(a \o b) = Len(a) + Len(b)
      <4>1. a \in Seq(S) /\ b \in Seq(S)
        BY <1>2, <1>3
      <4> QED BY ONLY <4>1
    <3> QED BY ONLY <2>4, <3>1
  <2>3. \A j \in 1 .. Len(a) + Len(b) : (a \o b)[j] = IF j <= Len(a) THEN a[j] ELSE b[j - Len(a)]
    BY <1>2, <1>3
  <2> QED BY ONLY <1>1, <2>1, <2>2, <2>3, <2>4
<1>6. \A j \in 1 .. n - 1 : (a \o b)[j] = IF j < at THEN list[j] ELSE list[j + 1]
  <2> TAKE j \in 1 .. n - 1
  <2>1. CASE j < at
    BY <1>1, <1>2, <1>5, <2>1
  <2>2. CASE j >= at
    <3> DEFINE k == j - (at - 1)
    <3>1. k \in 1 .. n - at /\ at + k = j + 1 /\ j \in at .. n - 1
      BY <1>1, <2>2
    <3>2. (a \o b)[j] = b[k]
      BY <1>5, <3>1
    <3> HIDE DEF k
    <3>3. b[k] = list[at + k]
      BY <1>3, <3>1
    <3>4. list[at + k] = list[j + 1]
      BY <3>1
    <3>5. ~ (j < at)
      BY <1>1, <2>2
    <3> QED BY ONLY <3>2, <3>3, <3>4, <3>5
  <2>3. j < at \/ j >= at
    BY <1>1
  <2> QED BY ONLY <2>1, <2>2, <2>3
<1> QED BY <1>4, <1>5, <1>6 DEF n


\* P is the list with a new node at a place before which all are due no later
\* and from which all were due later.
PlacedAt(P, list, id, secs, at) ==
  /\ \A j \in 1 .. Len(list) : /\ j < at => Due(list)[j] <= secs
                               /\ j >= at => secs < Due(list)[j]
  /\ P \in Seq(Node) /\ Len(P) = Len(list) + 1
  /\ \A j \in 1 .. Len(list) + 1 :
       P[j].Id = IF j < at THEN list[j].Id ELSE IF j = at THEN id ELSE list[j - 1].Id
  /\ \A j \in 1 .. Len(list) + 1 :
       Due(P)[j] = IF j < at THEN Due(list)[j]
                   ELSE IF j = at THEN secs ELSE Due(list)[j - 1]

\* A new node comes after those that are due no later and before the others;
\* it is due when it asked to be, and no other's time is moved.
LEMMA PlaceIs ==
  ASSUME NEW list \in Seq(Node), NEW id \in Ids, NEW secs \in Nat
  PROVE  \E at \in 1 .. Len(list) + 1 : PlacedAt(Place(list, id, secs), list, id, secs, at)
<1> DEFINE n == Len(list)
           D == Due(list)
           P == Place(list, id, secs)
           Step(f, j) == IF j = 0 THEN secs ELSE f[j - 1] - list[j].RemainSeconds
           Rest(f) == f = [j \in 0 .. n |-> Step(f, j)]
           g == [j \in 0 .. n |-> secs - D[j]]
           rest == CHOOSE f : Rest(f)
           A == {j \in 1 .. n : rest[j - 1] < list[j].RemainSeconds}
           at == Min(A \cup {n + 1})
           next == IF at > n THEN list ELSE [list EXCEPT ![at].RemainSeconds = @ - rest[at - 1]]
           e == [Id |-> id, RemainSeconds |-> rest[at - 1]]
<1>1. n \in Nat /\ DOMAIN list = 1 .. n /\ \A j \in 1 .. n : list[j] \in Node
  OBVIOUS
<1>2. P = InsertAt(next, at, e)
  BY DEF Place
<1>3. /\ \A j \in 0 .. n : D[j] \in Nat
      /\ D[0] = 0 /\ \A j \in 1 .. n : D[j] = D[j - 1] + list[j].RemainSeconds
      /\ \A j \in 1 .. n : j - 1 \in 0 .. n /\ list[j].RemainSeconds \in Nat
      /\ \A j, k \in 0 .. n : j <= k => D[j] <= D[k]
  <2>1. D \in [0 .. n -> Nat] /\ D[0] = 0
        /\ (\A j \in 1 .. n : D[j] = D[j - 1] + list[j].RemainSeconds)
        /\ (\A j, k \in 0 .. n : j <= k => D[j] <= D[k])
    BY DueIs
  <2>2. \A j \in 1 .. n : list[j].RemainSeconds \in Nat
    BY <1>1 DEF Node
  <2> HIDE DEF D, n
  <2> QED BY <1>1, <2>1, <2>2
<1> HIDE DEF D, n, P
<1>4. Rest(g)
  <2> SUFFICES ASSUME NEW j \in 0 .. n PROVE g[j] = Step(g, j)
    OBVIOUS
  <2>1. CASE j = 0
    BY <1>3, <2>1
  <2>2. CASE j # 0
    <3>1. j \in 1 .. n /\ D[j] = D[j - 1] + list[j].RemainSeconds /\ D[j - 1] \in Nat
          /\ list[j].RemainSeconds \in Nat /\ j - 1 \in 0 .. n
      BY <1>1, <1>3, <2>2
    <3>2. g[j] = secs - D[j] /\ g[j - 1] = secs - D[j - 1]
      BY <3>1
    <3> HIDE DEF g
    <3> QED BY <2>2, <3>1, <3>2
  <2> QED BY <2>1, <2>2
<1>5. Rest(rest)
  <2> HIDE DEF Rest, g
  <2> QED BY <1>4
<1>6. \A j \in 0 .. n : rest[j] = secs - D[j]
  <2> DEFINE S == {j \in 0 .. n : rest[j] = g[j]}
  <2>0. \A j \in 0 .. n : g[j] = secs - D[j]
    OBVIOUS
  <2> HIDE DEF rest, g
  <2>1. \A j \in 0 .. n : rest[j] = Step(rest, j)
    BY <1>5
  <2>2. \A j \in 0 .. n : g[j] = Step(g, j)
    BY <1>4
  <2> HIDE DEF Rest
  <2>3. 0 \in S
    BY <1>1, <2>1, <2>2
  <2>4. ASSUME NEW i \in 1 .. n, i - 1 \in S PROVE i \in S
    BY <1>1, <2>1, <2>2, <2>4
  <2> HIDE DEF S
  <2>5. \A i \in 0 .. n : i \in S
    BY ONLY <1>1, <2>3, <2>4, UpTo
  <2> QED BY <2>0, <2>5 DEF S
<1> HIDE DEF rest, g, Rest
<1>7. \A j \in 1 .. n : j \in A <=> secs < D[j]
  <2> TAKE j \in 1 .. n
  <2>1. rest[j - 1] = secs - D[j - 1] /\ D[j] = D[j - 1] + list[j].RemainSeconds
        /\ D[j - 1] \in Nat /\ list[j].RemainSeconds \in Nat
    BY <1>1, <1>3, <1>6
  <2> QED BY <2>1
<1>8. at \in A \cup {n + 1} /\ \A k \in A \cup {n + 1} : at <= k
  <2>1. A \cup {n + 1} \in SUBSET Nat /\ A \cup {n + 1} # {}
    BY <1>1
  <2> HIDE DEF A
  <2> QED BY <2>1, MinIs
<1>9. A \subseteq 1 .. n
  OBVIOUS
<1> HIDE DEF A, at
<1>10. /\ at \in 1 .. n + 1
       /\ \A j \in 1 .. n : (j < at => D[j] <= secs) /\ (j >= at => secs < D[j])
  <2>1. at \in 1 .. n + 1 /\ at \in Nat
    BY <1>1, <1>8, <1>9
  <2>2. ASSUME NEW j \in 1 .. n, j < at PROVE D[j] <= secs
    <3>1. j \notin A
      BY <1>1, <1>8, <2>1, <2>2
    <3> QED BY <1>3, <1>7, <3>1
  <2>3. ASSUME NEW j \in 1 .. n, j >= at PROVE secs < D[j]
    <3>1. at \in 1 .. n /\ at \in A
      BY <1>1, <1>8, <2>1, <2>3
    <3>2. secs < D[at] /\ D[at] <= D[j] /\ D[at] \in Nat /\ D[j] \in Nat
      <4>1. at \in 0 .. n /\ j \in 0 .. n /\ at <= j
        BY <1>1, <2>3, <3>1
      <4>2. secs < D[at]
        BY <1>7, <3>1
      <4> QED BY <1>3, <4>1, <4>2
    <3> QED BY <3>2
  <2> QED BY <2>1, <2>2, <2>3
<1>11. rest[at - 1] = secs - D[at - 1] /\ rest[at - 1] \in Nat /\ D[at - 1] \in Nat
       /\ at - 1 \in 0 .. n
  <2>1. at - 1 \in 0 .. n
    BY <1>1, <1>10
  <2>2. D[at - 1] <= secs /\ D[at - 1] \in Nat
    <3>1. CASE at = 1
      BY <1>3, <2>1, <3>1
    <3>2. CASE at # 1
      BY <1>1, <1>3, <1>10, <2>1, <3>2
    <3> QED BY <3>1, <3>2
  <2> QED BY <1>6, <2>1, <2>2
<1>12. e \in Node /\ e.Id = id /\ e.RemainSeconds = secs - D[at - 1]
  BY <1>11 DEF Node
<1>13. /\ next \in Seq(Node) /\ Len(next) = n
       /\ \A j \in 1 .. n : /\ next[j].Id = list[j].Id
                            /\ next[j].RemainSeconds = IF j = at THEN D[at] - secs
                                                       ELSE list[j].RemainSeconds
  <2>1. CASE at > n
    BY <1>1, <2>1 DEF n
  <2>2. CASE ~ (at > n)
    <3> DEFINE r == list[at].RemainSeconds - rest[at - 1]
    <3>1. at \in 1 .. n
      BY <1>1, <1>10, <2>2
    <3>2. r \in Nat /\ r = D[at] - secs
      BY <1>3, <1>10, <1>11, <3>1
    <3>3. next = [list EXCEPT ![at] = [list[at] EXCEPT !.RemainSeconds = r]]
      BY <1>1, <2>2, <3>1
    <3> HIDE DEF r, next
    <3>4. [list[at] EXCEPT !.RemainSeconds = r] \in Node
          /\ [list[at] EXCEPT !.RemainSeconds = r].Id = list[at].Id
          /\ [list[at] EXCEPT !.RemainSeconds = r].RemainSeconds = r
      BY <1>1, <3>1, <3>2 DEF Node
    <3> DEFINE x == [list[at] EXCEPT !.RemainSeconds = r]
    <3> HIDE DEF x
    <3>5. next \in Seq(Node) /\ Len(next) = n /\ next[at] = x
          /\ \A j \in 1 .. n : j # at => next[j] = list[j]
      BY <1>1, <3>1, <3>3, <3>4 DEF x, n
    <3> QED BY <3>2, <3>4, <3>5 DEF x
  <2> QED BY <2>1, <2>2
<1> HIDE DEF next, e
<1>14. /\ P \in Seq(Node) /\ Len(P) = n + 1
       /\ \A j \in 1 .. n + 1 :
            P[j] = IF j < at THEN next[j] ELSE IF j = at THEN e ELSE next[j - 1]
  <2>1. /\ InsertAt(next, at, e) \in Seq(Node) /\ Len(InsertAt(next, at, e)) = Len(next) + 1
        /\ \A j \in 1 .. Len(next) + 1 :
             InsertAt(next, at, e)[j] = IF j < at THEN next[j] ELSE IF j = at THEN e ELSE next[j - 1]
    <3>1. at \in 1 .. Len(next) + 1 /\ next \in Seq(Node) /\ e \in Node
      BY <1>10, <1>12, <1>13
    <3> QED BY ONLY <3>1, InsertAtIs
  <2> QED BY <1>2, <1>13, <2>1
<1>15. \A j \in 1 .. n + 1 :
         P[j].Id = IF j < at THEN list[j].Id ELSE IF j = at THEN id ELSE list[j - 1].Id
  <2> TAKE j \in 1 .. n + 1
  <2>1. CASE j < at
    BY <1>1, <1>10, <1>13, <1>14, <2>1
  <2>2. CASE j = at
    BY <1>1, <1>10, <1>12, <1>14, <2>2
  <2>3. CASE j > at
    BY <1>1, <1>10, <1>13, <1>14, <2>3
  <2>4. j < at \/ j = at \/ j > at
    BY <1>1, <1>10
  <2> QED BY ONLY <2>1, <2>2, <2>3, <2>4
<1> DEFINE h == [j \in 0 .. n + 1 |-> IF j < at THEN D[j] ELSE IF j = at THEN secs ELSE D[j - 1]]
<1>16. \A j \in 0 .. n + 1 : h[j] = IF j < at THEN D[j] ELSE IF j = at THEN secs ELSE D[j - 1]
  OBVIOUS
<1> HIDE DEF h
<1>17. \A j \in 0 .. n + 1 : Due(P)[j] = h[j]
  <2>1. h[0] = 0
    <3>1. 0 < at /\ 0 \in 0 .. n + 1
      BY <1>1, <1>10
    <3> QED BY <1>3, <1>16, <3>1
  <2>2. ASSUME NEW j \in 1 .. n + 1 PROVE h[j] = h[j - 1] + P[j].RemainSeconds
    <3>0. j - 1 \in 0 .. n + 1 /\ j \in 0 .. n + 1
      BY <1>1
    <3>1. CASE j < at
      <4>1. j \in 1 .. n /\ j - 1 < at /\ j # at
        BY <1>1, <1>10, <3>1
      <4>2. h[j] = D[j] /\ h[j - 1] = D[j - 1] /\ P[j].RemainSeconds = list[j].RemainSeconds
        BY <1>13, <1>14, <1>16, <3>0, <3>1, <4>1
      <4> QED BY <1>3, <4>1, <4>2
    <3>2. CASE j = at
      <4>1. h[j] = secs /\ h[j - 1] = D[at - 1] /\ P[j] = e
        BY <1>1, <1>10, <1>14, <1>16, <3>0, <3>2
      <4> QED BY <1>11, <1>12, <4>1
    <3>3. CASE j > at
      <4>0. j - 1 \in 1 .. n /\ j - 1 >= at /\ ~ (j < at) /\ j # at /\ (j - 1) - 1 \in 0 .. n
        BY <1>1, <1>10, <3>3
      <4>1. h[j] = D[j - 1] /\ P[j] = next[j - 1]
        BY <1>14, <1>16, <3>0, <4>0
      <4>2. CASE j - 1 = at
        <5>1. h[j - 1] = secs /\ next[j - 1].RemainSeconds = D[at] - secs
          BY <1>13, <1>16, <3>0, <4>0, <4>2
        <5>2. D[j - 1] = D[at] /\ D[at] \in Nat
          BY <1>1, <1>3, <4>0, <4>2
        <5> QED BY <4>1, <5>1, <5>2
      <4>3. CASE j - 1 # at
        <5>1. h[j - 1] = D[(j - 1) - 1] /\ next[j - 1].RemainSeconds = list[j - 1].RemainSeconds
          BY <1>1, <1>10, <1>13, <1>16, <3>0, <4>0, <4>3
        <5> QED BY <1>3, <4>0, <4>1, <5>1
      <4> QED BY <4>2, <4>3
    <3>4. j < at \/ j = at \/ j > at
      BY <1>1, <1>10
    <3> QED BY ONLY <3>1, <3>2, <3>3, <3>4
  <2>3. \A j \in 1 .. Len(P) : h[j] = h[j - 1] + P[j].RemainSeconds
    BY <1>14, <2>2
  <2>4. \A j \in 0 .. Len(P) : Due(P)[j] = h[j]
    BY <1>14, <2>1, <2>3, DueUnique
  <2> QED BY <1>14, <2>4
<1>18. \A j \in 1 .. n + 1 : Due(P)[j] = IF j < at THEN D[j] ELSE IF j = at THEN secs ELSE D[j - 1]
  BY <1>1, <1>16, <1>17
<1> QED BY <1>10, <1>14, <1>15, <1>18 DEF D, n, P, PlacedAt


\* A cancel takes its node out and moves no other's time.
LEMMA CancelIs ==
  ASSUME NEW list \in Seq(Node), NEW id, NEW i, i = Find(list, id), i # 0
  PROVE  LET C == CancelRequest(list, id)
             n == Len(list)
         IN  /\ i \in 1 .. n /\ list[i].Id = id
             /\ C \in Seq(Node) /\ Len(C) = n - 1
             /\ \A j \in 1 .. n - 1 : C[j].Id = IF j < i THEN list[j].Id ELSE list[j + 1].Id
             /\ \A j \in 1 .. n - 1 :
                  Due(C)[j] = IF j < i THEN Due(list)[j] ELSE Due(list)[j + 1]
<1> DEFINE n == Len(list)
           D == Due(list)
           C == CancelRequest(list, id)
           next == IF i = n THEN list
                   ELSE [list EXCEPT ![i + 1].RemainSeconds = @ + list[i].RemainSeconds]
<1>1. /\ n \in Nat /\ DOMAIN list = 1 .. n /\ i \in 1 .. n /\ list[i].Id = id
      /\ \A j \in 1 .. n : list[j] \in Node
  BY FindIs
<1>2. C = RemoveAt(next, i)
  BY DEF CancelRequest
<1>3. /\ \A j \in 0 .. n : D[j] \in Nat
      /\ D[0] = 0 /\ \A j \in 1 .. n : D[j] = D[j - 1] + list[j].RemainSeconds
      /\ \A j \in 1 .. n : list[j].RemainSeconds \in Nat
  <2>1. D \in [0 .. n -> Nat] /\ D[0] = 0
        /\ \A j \in 1 .. n : D[j] = D[j - 1] + list[j].RemainSeconds
    BY DueIs
  <2>2. \A j \in 1 .. n : list[j].RemainSeconds \in Nat
    BY <1>1 DEF Node
  <2> HIDE DEF D, n
  <2> QED BY <1>1, <2>1, <2>2
<1> HIDE DEF D, n, C
<1>4. /\ next \in Seq(Node) /\ Len(next) = n
      /\ \A j \in 1 .. n :
           /\ next[j].Id = list[j].Id
           /\ next[j].RemainSeconds = IF j = i + 1 THEN list[j].RemainSeconds + list[i].RemainSeconds
                                      ELSE list[j].RemainSeconds
  <2>1. CASE i = n
    BY <1>1, <2>1 DEF n
  <2>2. CASE i # n
    <3> DEFINE r == list[i + 1].RemainSeconds + list[i].RemainSeconds
               x == [list[i + 1] EXCEPT !.RemainSeconds = r]
    <3>1. i + 1 \in 1 .. n
      BY <1>1, <2>2
    <3>2. r \in Nat
      BY <1>1, <1>3, <3>1
    <3>3. next = [list EXCEPT ![i + 1] = x]
      BY <1>1, <2>2, <3>1
    <3> HIDE DEF r, next
    <3>4. x \in Node /\ x.Id = list[i + 1].Id /\ x.RemainSeconds = r
      BY <1>1, <3>1, <3>2 DEF Node
    <3> HIDE DEF x
    <3>5. next \in Seq(Node) /\ Len(next) = n /\ next[i + 1] = x
          /\ \A j \in 1 .. n : j # i + 1 => next[j] = list[j]
      BY <1>1, <3>1, <3>3, <3>4 DEF n
    <3> QED BY <3>4, <3>5 DEF r
  <2> QED BY <2>1, <2>2
<1> HIDE DEF next
<1>5. /\ C \in Seq(Node) /\ Len(C) = n - 1
      /\ \A j \in 1 .. n - 1 : C[j] = IF j < i THEN next[j] ELSE next[j + 1]
  <2>1. /\ RemoveAt(next, i) \in Seq(Node) /\ Len(RemoveAt(next, i)) = Len(next) - 1
        /\ \A j \in 1 .. Len(next) - 1 : RemoveAt(next, i)[j] = IF j < i THEN next[j] ELSE next[j + 1]
    <3>1. i \in 1 .. Len(next) /\ next \in Seq(Node)
      BY <1>1, <1>4
    <3> QED BY ONLY <3>1, RemoveAtIs
  <2> QED BY <1>2, <1>4, <2>1
<1>6. \A j \in 1 .. n - 1 : C[j].Id = IF j < i THEN list[j].Id ELSE list[j + 1].Id
  <2> TAKE j \in 1 .. n - 1
  <2>1. j \in 1 .. n /\ j + 1 \in 1 .. n
    BY <1>1
  <2> QED BY <1>4, <1>5, <2>1
<1> DEFINE h == [j \in 0 .. n - 1 |-> IF j < i THEN D[j] ELSE D[j + 1]]
<1>7. \A j \in 0 .. n - 1 : h[j] = IF j < i THEN D[j] ELSE D[j + 1]
  OBVIOUS
<1> HIDE DEF h
<1>8. \A j \in 0 .. n - 1 : Due(C)[j] = h[j]
  <2>1. h[0] = 0
    <3>1. 0 < i /\ 0 \in 0 .. n - 1
      BY <1>1
    <3> QED BY <1>3, <1>7, <3>1
  <2>2. ASSUME NEW j \in 1 .. n - 1 PROVE h[j] = h[j - 1] + C[j].RemainSeconds
    <3>0. j - 1 \in 0 .. n - 1 /\ j \in 0 .. n - 1 /\ j \in 1 .. n /\ j + 1 \in 1 .. n /\ j - 1 \in 0 .. n
          /\ j \in 0 .. n /\ j + 1 \in 0 .. n /\ (j + 1) - 1 = j /\ (j - 1) + 1 = j
      BY <1>1
    <3>1. CASE j < i
      <4>1. j - 1 < i /\ j # i + 1
        BY <1>1, <3>0, <3>1
      <4>2. h[j] = D[j] /\ h[j - 1] = D[j - 1] /\ C[j].RemainSeconds = list[j].RemainSeconds
        BY <1>4, <1>5, <1>7, <3>0, <3>1, <4>1
      <4> QED BY <1>3, <3>0, <4>2
    <3>2. CASE j = i
      <4>1. ~ (j < i) /\ j - 1 < i /\ j + 1 = i + 1
        BY <1>1, <3>0, <3>2
      <4>2. h[j] = D[j + 1] /\ h[j - 1] = D[j - 1]
            /\ C[j].RemainSeconds = list[j + 1].RemainSeconds + list[j].RemainSeconds
        BY <1>4, <1>5, <1>7, <3>0, <3>2, <4>1
      <4>3. D[j + 1] = D[j] + list[j + 1].RemainSeconds /\ D[j] = D[j - 1] + list[j].RemainSeconds
            /\ D[j - 1] \in Nat /\ list[j].RemainSeconds \in Nat /\ list[j + 1].RemainSeconds \in Nat
        BY <1>3, <3>0
      <4> QED BY <4>2, <4>3
    <3>3. CASE j > i
      <4>1. ~ (j < i) /\ ~ (j - 1 < i) /\ j + 1 # i + 1
        BY <1>1, <3>0, <3>3
      <4>2. h[j] = D[j + 1] /\ h[j - 1] = D[j] /\ C[j].RemainSeconds = list[j + 1].RemainSeconds
        BY <1>4, <1>5, <1>7, <3>0, <4>1
      <4> QED BY <1>3, <3>0, <4>2
    <3>4. j < i \/ j = i \/ j > i
      BY <1>1, <3>0
    <3> QED BY ONLY <3>1, <3>2, <3>3, <3>4
  <2>3. \A j \in 1 .. Len(C) : h[j] = h[j - 1] + C[j].RemainSeconds
    BY <1>5, <2>2
  <2>4. \A j \in 0 .. Len(C) : Due(C)[j] = h[j]
    BY <1>5, <2>1, <2>3, DueUnique
  <2> QED BY <1>5, <2>4
<1>9. \A j \in 1 .. n - 1 : Due(C)[j] = IF j < i THEN D[j] ELSE D[j + 1]
  BY <1>1, <1>7, <1>8
<1> QED BY <1>1, <1>5, <1>6, <1>9 DEF D, n, C

\* The nodes after the first d are due as much later as the d-th is.
LEMMA SuffixIs ==
  ASSUME NEW list \in Seq(Node), NEW d \in 0 .. Len(list)
  PROVE  LET R == SubSeq(list, d + 1, Len(list))
         IN  /\ R \in Seq(Node) /\ Len(R) = Len(list) - d
             /\ \A j \in 1 .. Len(list) - d : /\ R[j] = list[d + j]
                                              /\ Due(R)[j] = Due(list)[d + j] - Due(list)[d]
<1> DEFINE n == Len(list)
           D == Due(list)
           R == SubSeq(list, d + 1, n)
<1>1. R \in Seq(Node) /\ Len(R) = n - d /\ \A j \in 1 .. n - d : R[j] = list[d + j]
  BY SubSeqIs
<1>2. /\ D \in [0 .. n -> Nat] /\ D[0] = 0 /\ n \in Nat
      /\ \A j \in 1 .. n : D[j] = D[j - 1] + list[j].RemainSeconds
  BY DueIs
<1>3. \A j \in 1 .. n : list[j].RemainSeconds \in Nat
  <2>1. \A j \in 1 .. n : list[j] \in Node
    OBVIOUS
  <2> QED BY <2>1 DEF Node
<1> DEFINE h == [j \in 0 .. n - d |-> D[d + j] - D[d]]
<1>4. \A j \in 0 .. n - d : h[j] = D[d + j] - D[d]
  OBVIOUS
<1> HIDE DEF D, n, R, h
<1>5. h[0] = 0
  BY <1>2, <1>4 DEF n
<1>6. ASSUME NEW j \in 1 .. n - d PROVE h[j] = h[j - 1] + R[j].RemainSeconds
  <2> DEFINE k == d + j
  <2>1. j - 1 \in 0 .. n - d /\ j \in 0 .. n - d /\ d + (j - 1) = k - 1 /\ k \in 1 .. n
        /\ k - 1 \in 0 .. n /\ d \in 0 .. n
    BY <1>2 DEF n
  <2>2. h[j] = D[k] - D[d] /\ h[j - 1] = D[k - 1] - D[d] /\ R[j] = list[k]
    BY <1>1, <1>4, <2>1
  <2> HIDE DEF k
  <2>3. D[k] = D[k - 1] + list[k].RemainSeconds /\ list[k].RemainSeconds \in Nat
    BY <1>2, <1>3, <2>1
  <2>4. D[k - 1] \in Nat /\ D[d] \in Nat
    BY <1>2, <2>1
  <2> QED BY ONLY <2>2, <2>3, <2>4
<1>7. \A j \in 0 .. Len(R) : Due(R)[j] = h[j]
  <2>1. \A j \in 1 .. Len(R) : h[j] = h[j - 1] + R[j].RemainSeconds
    BY <1>1, <1>6
  <2> QED BY <1>1, <1>5, <2>1, DueUnique
<1>8. \A j \in 1 .. n - d : Due(R)[j] = D[d + j] - D[d]
  BY <1>1, <1>2, <1>4, <1>7 DEF n
<1> QED BY <1>1, <1>8 DEF D, n, R


-----------------------------------------------------------------------------
(* The list and the times left *)

\* Left, of any list and any time that passed.
LeftOf(list, e) == [i \in IdsOf(list) |-> Due(list)[Find(list, i)] - e]

\* Every node has left the deltas up to it, less the time that passed.
LEMMA LeftIs ==
  ASSUME NEW list \in Seq(Node), Distinct(list), NEW e \in Nat
  PROVE  /\ LeftOf(list, e) \in [IdsOf(list) -> Int]
         /\ \A j \in 1 .. Len(list) : LeftOf(list, e)[list[j].Id] = Due(list)[j] - e
<1>1. ASSUME NEW i \in IdsOf(list) PROVE Due(list)[Find(list, i)] - e \in Int
  <2>1. Find(list, i) \in 0 .. Len(list)
    BY FindIs
  <2>2. Due(list) \in [0 .. Len(list) -> Nat]
    BY DueIs
  <2> QED BY <2>1, <2>2
<1>2. ASSUME NEW j \in 1 .. Len(list) PROVE LeftOf(list, e)[list[j].Id] = Due(list)[j] - e
  <2>1. list[j].Id \in IdsOf(list)
    BY DEF IdsOf
  <2>2. Find(list, list[j].Id) \in 1 .. Len(list) /\ list[Find(list, list[j].Id)].Id = list[j].Id
    BY FindIs
  <2>3. Find(list, list[j].Id) = j
    BY <2>2 DEF Distinct
  <2> QED BY <2>1, <2>3 DEF LeftOf
<1> QED BY <1>1, <1>2 DEF LeftOf

\* NoneDueInList is about Distinct, and Left about LeftOf.
LEMMA Named ==
  ASSUME TypeOK
  PROVE  /\ Left = LeftOf(TimerList, elapsed)
         /\ NoneDueInList => Distinct(TimerList)
         /\ DOMAIN TimerList = 1 .. Len(TimerList)
<1>1. DOMAIN TimerList = 1 .. Len(TimerList)
  BY DEF TypeOK
<1> QED BY <1>1 DEF Left, LeftOf, IdsOf, NoneDueInList, Distinct

\* With the time that passed taken off, the list stands for what is left.
LEMMA UpdateSees ==
  ASSUME IInv
  PROVE  Sees(UpdateTimerList(TimerList), Left)
<1> DEFINE list == TimerList
           U == UpdateTimerList(TimerList)
           D == Due(TimerList)
           f == Left
<1>1. list \in Seq(Node) /\ elapsed \in Nat /\ Distinct(list) /\ f = LeftOf(list, elapsed)
  BY Named, TimerAssumption DEF IInv, TypeOK
<1>2. /\ U \in Seq(Node) /\ Len(U) = Len(list)
      /\ \A j \in 1 .. Len(list) : U[j].Id = list[j].Id
      /\ \A j \in 1 .. Len(list) : Due(U)[j] = Clip(D[j] - elapsed)
  BY <1>1, UpdateIs
<1>3. f \in [IdsOf(list) -> Int] /\ \A j \in 1 .. Len(list) : f[list[j].Id] = D[j] - elapsed
  BY <1>1, LeftIs
<1>4. /\ \A j \in 0 .. Len(list) : D[j] \in Nat
      /\ \A j, k \in 0 .. Len(list) : j <= k => D[j] <= D[k]
  BY <1>1, DueIs
<1>5. Len(list) \in Nat
  BY <1>1
<1> HIDE DEF list, U, D, f
<1>6. IdsOf(U) = IdsOf(list) /\ Distinct(U)
  BY <1>1, <1>2 DEF IdsOf, Distinct
<1>7. \A j \in 1 .. Len(U) : Due(U)[j] = Clip(f[U[j].Id])
  BY <1>2, <1>3
<1>8. \A j, k \in 1 .. Len(U) : j <= k => f[U[j].Id] <= f[U[k].Id]
  <2> TAKE j, k \in 1 .. Len(U)
  <2> HAVE j <= k
  <2>1. f[U[j].Id] = D[j] - elapsed /\ f[U[k].Id] = D[k] - elapsed
    BY <1>2, <1>3
  <2>2. D[j] <= D[k] /\ D[j] \in Nat /\ D[k] \in Nat
    BY <1>2, <1>4, <1>5
  <2> QED BY <1>1, <2>1, <2>2
<1> QED BY <1>2, <1>3, <1>6, <1>7, <1>8 DEF Sees, U, f

\* A start of a package that has no node gives it one, with its time.
LEMMA PlaceSees ==
  ASSUME NEW list, NEW f, Sees(list, f), NEW id \in Ids \ DOMAIN f, NEW secs \in Nat
  PROVE  Sees(Place(list, id, secs), [i \in DOMAIN f \cup {id} |-> IF i = id THEN secs ELSE f[i]])
<1> DEFINE n == Len(list)
           D == Due(list)
           P == Place(list, id, secs)
           g == [i \in DOMAIN f \cup {id} |-> IF i = id THEN secs ELSE f[i]]
<1>1. /\ list \in Seq(Node) /\ Distinct(list) /\ f \in [IdsOf(list) -> Int] /\ n \in Nat
      /\ \A j \in 1 .. n : D[j] = Clip(f[list[j].Id])
      /\ \A j, k \in 1 .. n : j <= k => f[list[j].Id] <= f[list[k].Id]
      /\ \A j \in 1 .. n : list[j].Id \in DOMAIN f
  BY DEF Sees, IdsOf
<1>0. PICK at \in 1 .. n + 1 : PlacedAt(P, list, id, secs, at)
  <2>1. list \in Seq(Node) /\ id \in Ids /\ secs \in Nat
    BY <1>1
  <2> QED BY ONLY <2>1, PlaceIs
<1>2. /\ \A j \in 1 .. n : /\ j < at => D[j] <= secs
                           /\ j >= at => secs < D[j]
      /\ P \in Seq(Node) /\ Len(P) = n + 1
      /\ \A j \in 1 .. n + 1 :
           P[j].Id = IF j < at THEN list[j].Id ELSE IF j = at THEN id ELSE list[j - 1].Id
      /\ \A j \in 1 .. n + 1 :
           Due(P)[j] = IF j < at THEN D[j] ELSE IF j = at THEN secs ELSE D[j - 1]
  BY <1>0 DEF PlacedAt
<1> DEFINE old(j) == IF j < at THEN j ELSE j - 1
<1> HIDE DEF n, D, P
<1>3. \A j \in 1 .. n + 1 : j # at => old(j) \in 1 .. n /\ P[j].Id = list[old(j)].Id
                                      /\ Due(P)[j] = D[old(j)]
  <2> TAKE j \in 1 .. n + 1
  <2> HAVE j # at
  <2>1. CASE j < at
    BY <1>1, <1>2, <2>1
  <2>2. CASE ~ (j < at)
    BY <1>1, <1>2, <2>2
  <2> QED BY <2>1, <2>2
<1>4. P[at].Id = id /\ Due(P)[at] = secs
  BY <1>1, <1>2
<1>5. \A j, k \in 1 .. n + 1 : j # at /\ k # at => (j <= k <=> old(j) <= old(k)) /\ (old(j) = old(k) => j = k)
  BY <1>1
<1>6. \A j \in 1 .. n + 1 : j # at => (j < at <=> old(j) < at)
  BY <1>1
<1> HIDE DEF old
<1>7. \A i \in DOMAIN f : f[i] \in Int
  BY <1>1
<1>8. /\ g \in [DOMAIN f \cup {id} -> Int] /\ g[id] = secs
      /\ \A i \in DOMAIN f : g[i] = f[i] /\ i # id
  BY <1>7
<1> HIDE DEF g
<1>9. IdsOf(P) = DOMAIN f \cup {id}
  <2>1. ASSUME NEW i \in IdsOf(P) PROVE i \in DOMAIN f \cup {id}
    <3>1. PICK j \in 1 .. n + 1 : i = P[j].Id
      BY <1>2, <2>1 DEF IdsOf
    <3> QED BY <1>1, <1>3, <1>4, <3>1
  <2>2. id \in IdsOf(P)
    BY <1>2, <1>4 DEF IdsOf
  <2>3. ASSUME NEW i \in DOMAIN f PROVE i \in IdsOf(P)
    <3>0. DOMAIN f = IdsOf(list)
      BY ONLY <1>1
    <3>1. PICK k \in 1 .. n : i = list[k].Id
      BY ONLY <2>3, <3>0 DEF IdsOf, n
    <3>2. CASE k < at
      <4>1. k \in 1 .. n + 1 /\ P[k].Id = list[k].Id
        BY <1>1, <1>2, <3>2
      <4> QED BY <1>2, <3>1, <4>1 DEF IdsOf
    <3>3. CASE k >= at
      <4>1. k + 1 \in 1 .. n + 1 /\ ~ (k + 1 < at) /\ k + 1 # at /\ (k + 1) - 1 = k
        BY <1>1, <3>3
      <4>2. P[k + 1].Id = list[k].Id
        BY <1>2, <4>1
      <4> QED BY <1>2, <3>1, <4>1, <4>2 DEF IdsOf
    <3> QED BY <1>1, <3>2, <3>3
  <2> QED BY <2>1, <2>2, <2>3
<1>10. Distinct(P)
  <2> SUFFICES ASSUME NEW j \in 1 .. n + 1, NEW k \in 1 .. n + 1, P[j].Id = P[k].Id PROVE j = k
    BY <1>2 DEF Distinct
  <2>1. CASE j = at \/ k = at
    BY <1>1, <1>3, <1>4, <2>1
  <2>2. CASE j # at /\ k # at
    <3>1. old(j) = old(k)
      BY <1>1, <1>3, <2>2 DEF Distinct, n
    <3> QED BY <1>5, <2>2, <3>1
  <2> QED BY <2>1, <2>2
<1>11. \A j \in 1 .. n + 1 : Due(P)[j] = Clip(g[P[j].Id])
  <2> TAKE j \in 1 .. n + 1
  <2>1. CASE j = at
    <3>1. Clip(secs) = secs
      BY DEF Clip
    <3> QED BY <1>4, <1>8, <2>1, <3>1
  <2>2. CASE j # at
    BY <1>1, <1>3, <1>8, <2>2
  <2> QED BY <2>1, <2>2
<1>12. \A j, k \in 1 .. n + 1 : j <= k => g[P[j].Id] <= g[P[k].Id]
  <2> TAKE j, k \in 1 .. n + 1
  <2> HAVE j <= k
  <2>1. CASE j = at /\ k = at
    BY <1>4, <1>8, <2>1
  <2>2. CASE j = at /\ k # at
    <3>1. old(k) \in 1 .. n /\ old(k) >= at /\ g[P[k].Id] = f[list[old(k)].Id]
      BY <1>1, <1>3, <1>6, <1>8, <2>2
    <3>2. secs < Clip(f[list[old(k)].Id]) /\ f[list[old(k)].Id] \in Int
      BY <1>1, <1>2, <1>7, <3>1
    <3>3. secs < f[list[old(k)].Id]
      BY <3>2 DEF Clip
    <3> QED BY <1>4, <1>8, <2>2, <3>1, <3>2, <3>3
  <2>3. CASE j # at /\ k = at
    <3>1. old(j) \in 1 .. n /\ old(j) < at /\ g[P[j].Id] = f[list[old(j)].Id]
      BY <1>1, <1>3, <1>6, <1>8, <2>3
    <3>2. Clip(f[list[old(j)].Id]) <= secs /\ f[list[old(j)].Id] \in Int
      BY <1>1, <1>2, <1>7, <3>1
    <3>3. f[list[old(j)].Id] <= secs
      BY <3>2 DEF Clip
    <3> QED BY <1>4, <1>8, <2>3, <3>1, <3>3
  <2>4. CASE j # at /\ k # at
    <3>1. old(j) \in 1 .. n /\ old(k) \in 1 .. n /\ old(j) <= old(k)
          /\ g[P[j].Id] = f[list[old(j)].Id] /\ g[P[k].Id] = f[list[old(k)].Id]
      BY <1>1, <1>3, <1>5, <1>8, <2>4
    <3> QED BY <1>1, <3>1
  <2> QED BY <2>1, <2>2, <2>3, <2>4
<1> QED BY <1>2, <1>8, <1>9, <1>10, <1>11, <1>12 DEF Sees, P, g


\* A cancel takes its package out of the function and leaves the others' times.
LEMMA CancelSees ==
  ASSUME NEW list, NEW f, Sees(list, f), NEW id
  PROVE  Sees(CancelRequest(list, id), [i \in DOMAIN f \ {id} |-> f[i]])
<1> DEFINE n == Len(list)
           D == Due(list)
           C == CancelRequest(list, id)
           g == [i \in DOMAIN f \ {id} |-> f[i]]
           p == Find(list, id)
<1>1. /\ list \in Seq(Node) /\ Distinct(list) /\ f \in [IdsOf(list) -> Int] /\ n \in Nat
      /\ DOMAIN f = IdsOf(list)
      /\ \A j \in 1 .. n : D[j] = Clip(f[list[j].Id])
      /\ \A j, k \in 1 .. n : j <= k => f[list[j].Id] <= f[list[k].Id]
      /\ \A j \in 1 .. n : list[j].Id \in DOMAIN f
  <2>1. \A j \in 1 .. n : list[j].Id \in IdsOf(list)
    BY DEF IdsOf
  <2> QED BY <2>1 DEF Sees
<1>2. CASE p = 0
  <2>1. C = list
    BY <1>2 DEF CancelRequest
  <2>2. \A j \in 1 .. n : list[j].Id # id
    BY <1>1, <1>2, FindIs
  <2>3. id \notin DOMAIN f
    BY <1>1, <2>2 DEF IdsOf
  <2>4. g = f
    BY <1>1, <2>3
  <2> HIDE DEF C, g
  <2>5. Sees(C, g)
    BY <2>1, <2>4
  <2> QED BY <2>5 DEF C, g
<1>3. CASE p # 0
  <2>1. /\ p \in 1 .. n /\ list[p].Id = id
        /\ C \in Seq(Node) /\ Len(C) = n - 1
        /\ \A j \in 1 .. n - 1 : C[j].Id = IF j < p THEN list[j].Id ELSE list[j + 1].Id
        /\ \A j \in 1 .. n - 1 : Due(C)[j] = IF j < p THEN D[j] ELSE D[j + 1]
    BY <1>1, <1>3, CancelIs
  <2> DEFINE old(j) == IF j < p THEN j ELSE j + 1
  <2> HIDE DEF n, D, C, p
  <2>2. \A j \in 1 .. n - 1 : old(j) \in 1 .. n /\ old(j) # p /\ C[j].Id = list[old(j)].Id
                              /\ Due(C)[j] = D[old(j)]
    <3> TAKE j \in 1 .. n - 1
    <3>1. CASE j < p
      BY <1>1, <2>1, <3>1
    <3>2. CASE ~ (j < p)
      BY <1>1, <2>1, <3>2
    <3> QED BY <3>1, <3>2
  <2>3. \A j, k \in 1 .. n - 1 : (j <= k => old(j) <= old(k)) /\ (old(j) = old(k) => j = k)
    BY <1>1, <2>1
  <2>4. \A k \in 1 .. n : k # p => \E j \in 1 .. n - 1 : C[j].Id = list[k].Id
    <3> TAKE k \in 1 .. n
    <3> HAVE k # p
    <3>1. CASE k < p
      <4>1. k \in 1 .. n - 1
        BY <1>1, <2>1, <3>1
      <4> QED BY <2>1, <3>1, <4>1
    <3>2. CASE k > p
      <4>1. k - 1 \in 1 .. n - 1 /\ ~ (k - 1 < p) /\ (k - 1) + 1 = k
        BY <1>1, <2>1, <3>2
      <4>2. C[k - 1].Id = list[k].Id
        BY <2>1, <4>1
      <4> QED BY <4>1, <4>2
    <3> QED BY <1>1, <2>1, <3>1, <3>2
  <2> HIDE DEF old
  <2>5. \A j \in 1 .. n - 1 : C[j].Id \in DOMAIN f /\ C[j].Id # id
    <3> TAKE j \in 1 .. n - 1
    <3>1. list[old(j)].Id # list[p].Id
      BY <1>1, <2>1, <2>2 DEF Distinct, n
    <3> QED BY <1>1, <2>1, <2>2, <3>1
  <2>6. IdsOf(C) = DOMAIN f \ {id}
    <3>1. ASSUME NEW i \in IdsOf(C) PROVE i \in DOMAIN f \ {id}
      BY <2>1, <2>5, <3>1 DEF IdsOf
    <3>2. ASSUME NEW i \in DOMAIN f \ {id} PROVE i \in IdsOf(C)
      <4>0. i \in IdsOf(list)
        BY <1>1, <3>2
      <4>1. PICK k \in 1 .. n : i = list[k].Id
        BY ONLY <4>0 DEF IdsOf, n
      <4>2. k # p
        BY <2>1, <3>2, <4>1
      <4>3. PICK j \in 1 .. n - 1 : C[j].Id = list[k].Id
        BY <2>4, <4>2
      <4> QED BY <2>1, <4>1, <4>3 DEF IdsOf
    <3> QED BY <3>1, <3>2
  <2>7. Distinct(C)
    <3> SUFFICES ASSUME NEW j \in 1 .. n - 1, NEW k \in 1 .. n - 1, C[j].Id = C[k].Id PROVE j = k
      BY <2>1 DEF Distinct
    <3>1. /\ old(j) \in 1 .. n /\ old(k) \in 1 .. n
          /\ list[old(j)].Id = list[old(k)].Id
      BY <2>2
    <3>2. old(j) = old(k)
      BY <1>1, <3>1 DEF Distinct, n
    <3> QED BY <2>3, <3>2
  <2>8. g \in [DOMAIN f \ {id} -> Int] /\ \A j \in 1 .. n - 1 : g[C[j].Id] = f[list[old(j)].Id]
    BY <1>1, <2>2, <2>5
  <2> HIDE DEF g
  <2>9. \A j \in 1 .. n - 1 : Due(C)[j] = Clip(g[C[j].Id])
    BY <1>1, <2>2, <2>8
  <2>10. \A j, k \in 1 .. n - 1 : j <= k => g[C[j].Id] <= g[C[k].Id]
    BY <1>1, <2>2, <2>3, <2>8
  <2>11. Sees(C, g)
    BY <2>1, <2>6, <2>7, <2>8, <2>9, <2>10 DEF Sees
  <2> QED BY <2>11 DEF C, g
<1> QED BY <1>2, <1>3

\* The list after a request stands for what TimerSpec makes of it.
LEMMA ServeSees ==
  ASSUME IInv
  PROVE  Sees(Serve(UpdateTimerList(TimerList)), Abstract!Served)
<1> DEFINE U == UpdateTimerList(TimerList)
           f == Left
           r == Head(requests)
<1>1. Sees(U, f)
  BY UpdateSees
<1>2. U \in Seq(Node) /\ DOMAIN f = IdsOf(U)
  BY <1>1 DEF Sees
<1>3. requests # <<>> => r \in Requests
  BY DEF IInv, TypeOK
<1>4. Abstract!Served = IF requests = <<>> THEN f
                        ELSE IF r.type = "cancel" THEN [i \in DOMAIN f \ {r.id} |-> f[i]]
                        ELSE IF r.id \in DOMAIN f THEN f
                        ELSE [i \in DOMAIN f \cup {r.id} |-> IF i = r.id THEN r.secs ELSE f[i]]
  BY DEF Abstract!Served, Abstract!Nodes
<1>5. Serve(U) = IF requests = <<>> THEN U
                 ELSE IF r.type = "start" THEN InsertRequest(U, r.id, r.secs)
                                          ELSE CancelRequest(U, r.id)
  BY DEF Serve
<1> HIDE DEF U, f, r
<1>6. CASE requests = <<>>
  BY <1>1, <1>4, <1>5, <1>6 DEF U
<1>7. CASE requests # <<>> /\ r.type = "cancel"
  <2>1. Serve(U) = CancelRequest(U, r.id)
    BY <1>5, <1>7
  <2>2. Abstract!Served = [i \in DOMAIN f \ {r.id} |-> f[i]]
    BY <1>4, <1>7
  <2>3. Sees(CancelRequest(U, r.id), [i \in DOMAIN f \ {r.id} |-> f[i]])
    BY <1>1, CancelSees
  <2> QED BY <2>1, <2>2, <2>3 DEF U
<1>8. CASE requests # <<>> /\ r.type # "cancel"
  <2>1. r.type = "start" /\ r.id \in Ids /\ r.secs \in Nat
    BY <1>3, <1>8, TimerAssumption DEF Requests
  <2>2. Find(U, r.id) = 0 <=> r.id \notin DOMAIN f
    BY <1>2, FindIs DEF IdsOf
  <2>3. Serve(U) = InsertRequest(U, r.id, r.secs)
    BY <1>5, <1>8, <2>1
  <2>4. CASE r.id \in DOMAIN f
    <3>1. Serve(U) = U /\ Abstract!Served = f
      BY <1>4, <1>8, <2>2, <2>3, <2>4 DEF InsertRequest
    <3> QED BY <1>1, <3>1 DEF U
  <2>5. CASE r.id \notin DOMAIN f
    <3>1. Serve(U) = Place(U, r.id, r.secs)
      BY <2>2, <2>3, <2>5 DEF InsertRequest
    <3>2. Abstract!Served = [i \in DOMAIN f \cup {r.id} |-> IF i = r.id THEN r.secs ELSE f[i]]
      BY <1>4, <1>8, <2>5
    <3>3. Sees(Place(U, r.id, r.secs), [i \in DOMAIN f \cup {r.id} |-> IF i = r.id THEN r.secs ELSE f[i]])
      BY <1>1, <2>1, <2>5, PlaceSees
    <3> QED BY <3>1, <3>2, <3>3 DEF U
  <2> QED BY <2>4, <2>5
<1> QED BY <1>6, <1>7, <1>8


-----------------------------------------------------------------------------
(* The callbacks                                                           *)

\* How many nodes at the head of the list have nothing left to wait for.
Over(list) ==
  LET i == SelectInSeq(list, LAMBDA n : n.RemainSeconds > 0)
  IN IF i = 0 THEN Len(list) ELSE i - 1

\* Over stops at the first node that has to wait.
LEMMA OverIs ==
  ASSUME NEW list \in Seq(Node)
  PROVE  /\ Over(list) \in 0 .. Len(list)
         /\ \A j \in 1 .. Over(list) : list[j].RemainSeconds = 0
         /\ Over(list) < Len(list) => list[Over(list) + 1].RemainSeconds > 0
<1> DEFINE I == {j \in 1 .. Len(list) : list[j].RemainSeconds > 0}
           i == IF I # {} THEN Min(I) ELSE 0
<1>1. Over(list) = IF i = 0 THEN Len(list) ELSE i - 1
  BY DEF Over, SelectInSeq
<1>2. I \in SUBSET Nat /\ I \subseteq 1 .. Len(list) /\ Len(list) \in Nat
  OBVIOUS
<1>3. \A j \in 1 .. Len(list) : list[j].RemainSeconds \in Nat
  <2>1. \A j \in 1 .. Len(list) : list[j] \in Node
    OBVIOUS
  <2> QED BY <2>1 DEF Node
<1>4. CASE I = {}
  <2>1. Over(list) = Len(list)
    BY <1>1, <1>4
  <2>2. \A j \in 1 .. Len(list) : list[j].RemainSeconds = 0
    BY <1>3, <1>4
  <2> QED BY <1>2, <2>1, <2>2
<1>5. CASE I # {}
  <2>1. Min(I) \in I /\ \A j \in I : Min(I) <= j
    <3> HIDE DEF I
    <3> QED BY <1>2, <1>5, MinIs
  <2> DEFINE m == Min(I)
  <2>2. m \in 1 .. Len(list) /\ list[m].RemainSeconds > 0
    BY <2>1
  <2>3. Over(list) = m - 1
    BY <1>1, <1>5, <2>2
  <2>4. \A j \in 1 .. Len(list) : j < m => list[j].RemainSeconds = 0
    <3> TAKE j \in 1 .. Len(list)
    <3> HAVE j < m
    <3>1. m \in Nat /\ ~ (m <= j) /\ \A k \in I : m <= k
      <4>1. m \in Nat /\ j \in Nat
        BY <1>2, <2>2
      <4>2. \A k \in I : m <= k
        BY <2>1
      <4> HIDE DEF I, m
      <4> QED BY <4>1, <4>2
    <3>2. j \notin I
      <4> HIDE DEF I, m
      <4> QED BY <3>1
    <3> QED BY <1>3, <3>2
  <2> HIDE DEF m, I
  <2>5. \A j \in 1 .. m - 1 : list[j].RemainSeconds = 0
    BY <1>2, <2>2, <2>4
  <2>6. (m - 1) + 1 = m /\ m - 1 \in 0 .. Len(list)
    BY <1>2, <2>2
  <2> QED BY <2>2, <2>3, <2>5, <2>6
<1> QED BY <1>4, <1>5

\* The nodes before Over are those that are due, and the others have left what
\* the deltas say.
LEMMA OverSees ==
  ASSUME NEW list, NEW f, Sees(list, f)
  PROVE  /\ \A j \in 1 .. Over(list) : f[list[j].Id] <= 0
         /\ \A j \in Over(list) + 1 .. Len(list) : /\ f[list[j].Id] > 0
                                                   /\ Due(list)[j] = f[list[j].Id]
         /\ Due(list)[Over(list)] = 0
<1> DEFINE n == Len(list)
           D == Due(list)
           d == Over(list)
<1>1. /\ list \in Seq(Node) /\ f \in [IdsOf(list) -> Int] /\ n \in Nat
      /\ \A j \in 1 .. n : D[j] = Clip(f[list[j].Id])
  BY DEF Sees
<1>2. \A j \in 1 .. n : f[list[j].Id] \in Int
  <2>1. \A j \in 1 .. n : list[j].Id \in IdsOf(list)
    BY DEF IdsOf
  <2> QED BY <1>1, <2>1
<1>3. /\ d \in 0 .. n
      /\ \A j \in 1 .. d : list[j].RemainSeconds = 0
      /\ d < n => list[d + 1].RemainSeconds > 0
  BY <1>1, OverIs
<1>4. /\ D \in [0 .. n -> Nat] /\ D[0] = 0
      /\ \A j \in 1 .. n : D[j] = D[j - 1] + list[j].RemainSeconds
      /\ \A j, k \in 0 .. n : j <= k => D[j] <= D[k]
  BY <1>1, DueIs
<1> HIDE DEF D, n, d
<1>5. \A j \in 0 .. d : D[j] = 0
  <2> DEFINE S == {j \in 0 .. d : D[j] = 0}
  <2>1. 0 \in S
    BY <1>3, <1>4
  <2>2. ASSUME NEW i \in 1 .. d, i - 1 \in S PROVE i \in S
    <3>1. i \in 1 .. n /\ D[i - 1] = 0 /\ list[i].RemainSeconds = 0
      BY <1>1, <1>3, <2>2
    <3> QED BY <1>3, <1>4, <3>1
  <2>3. d \in Nat
    BY <1>1, <1>3
  <2> HIDE DEF S
  <2>4. \A i \in 0 .. d : i \in S
    BY ONLY <2>1, <2>2, <2>3, UpTo
  <2> QED BY <2>4 DEF S
<1>6. \A j \in 1 .. d : f[list[j].Id] <= 0
  <2> TAKE j \in 1 .. d
  <2>1. j \in 1 .. n /\ D[j] = 0
    BY <1>1, <1>3, <1>5
  <2>2. Clip(f[list[j].Id]) = 0 /\ f[list[j].Id] \in Int
    BY <1>1, <1>2, <2>1
  <2> QED BY <2>2 DEF Clip
<1>7. \A j \in d + 1 .. n : f[list[j].Id] > 0 /\ D[j] = f[list[j].Id]
  <2> TAKE j \in d + 1 .. n
  <2>1. j \in 1 .. n /\ d < n /\ d + 1 \in 1 .. n /\ d + 1 <= j /\ (d + 1) - 1 = d
    BY <1>1, <1>3
  <2>2. D[d + 1] = D[d] + list[d + 1].RemainSeconds /\ D[d] = 0
    <3>1. D[d + 1] = D[(d + 1) - 1] + list[d + 1].RemainSeconds
      BY <1>4, <2>1
    <3>2. d \in 0 .. d
      BY <1>3, <1>1
    <3> QED BY <1>5, <2>1, <3>1, <3>2
  <2>3. D[d + 1] > 0 /\ D[d + 1] \in Nat
    <3>1. list[d + 1].RemainSeconds > 0
      BY <1>3, <2>1
    <3>2. D[d + 1] \in Nat
      BY <1>4, <2>1
    <3>3. list[d + 1] \in Node
      BY <1>1, <2>1 DEF n
    <3>4. list[d + 1].RemainSeconds \in Nat
      BY <3>3 DEF Node
    <3> QED BY <2>2, <3>1, <3>2, <3>4
  <2>4. D[d + 1] <= D[j] /\ D[j] \in Nat
    BY <1>4, <2>1
  <2>5. D[j] > 0
    BY <2>3, <2>4
  <2>6. D[j] = Clip(f[list[j].Id]) /\ f[list[j].Id] \in Int
    BY <1>1, <1>2, <2>1
  <2> QED BY <2>5, <2>6 DEF Clip
<1>8. D[d] = 0
  BY <1>3, <1>5
<1> QED BY <1>6, <1>7, <1>8 DEF D, n, d


\* A sequence that lists a set, each member once, is among SetToSeqs of it.
LEMMA SeqsAre ==
  ASSUME NEW S, NEW n \in Nat, NEW c \in [1 .. n -> S],
         \A j, k \in 1 .. n : c[j] = c[k] => j = k,
         \A i \in S : \E j \in 1 .. n : c[j] = i
  PROVE  c \in Abstract!SetToSeqs(S)
<1>1. c \in Bijection(1 .. n, S)
  BY DEF Bijection, Injection, Surjection, IsInjective
<1>2. ExistsBijection(1 .. n, S)
  BY <1>1 DEF ExistsBijection
<1>3. Cardinality(S) = n
  BY <1>2, FS_CountingElements
<1>4. Abstract!Cardinality(S) = Cardinality(S)
  BY DEF Abstract!Cardinality, Cardinality
<1>5. Abstract!Cardinality(S) = n
  BY <1>3, <1>4
<1> QED BY <1>5 DEF Abstract!SetToSeqs

\* The nodes called back are those that are due, once each and in the order
\* of their times.
LEMMA CallbacksAre ==
  ASSUME NEW list, NEW f, Sees(list, f), NEW c,
         c = [j \in 1 .. Over(list) |-> list[j].Id]
  PROVE  /\ c \in Seq(Ids)
         /\ c \in Abstract!SetToSeqs(Abstract!DueIn(f))
         /\ \A j \in 1 .. (Len(c) - 1) : f[c[j]] <= f[c[j + 1]]
<1> DEFINE n == Len(list)
           d == Over(list)
           S == Abstract!DueIn(f)
<1>1. /\ list \in Seq(Node) /\ Distinct(list) /\ f \in [IdsOf(list) -> Int] /\ n \in Nat
      /\ DOMAIN f = IdsOf(list)
      /\ \A j, k \in 1 .. n : j <= k => f[list[j].Id] <= f[list[k].Id]
  BY DEF Sees
<1>2. d \in 0 .. n
  BY <1>1, OverIs
<1>3. /\ \A j \in 1 .. d : f[list[j].Id] <= 0
      /\ \A j \in d + 1 .. n : f[list[j].Id] > 0
  BY OverSees
<1>4. \A j \in 1 .. n : list[j].Id \in Ids /\ list[j].Id \in DOMAIN f /\ f[list[j].Id] \in Int
  <2> TAKE j \in 1 .. n
  <2>1. list[j] \in Node
    BY <1>1
  <2>2. list[j].Id \in IdsOf(list)
    BY DEF IdsOf
  <2> QED BY <1>1, <2>1, <2>2 DEF Node
<1> HIDE DEF d, n
<1>5. Len(c) = d /\ d \in Nat /\ \A j \in 1 .. d : c[j] = list[j].Id /\ j \in 1 .. n
  BY <1>1, <1>2 DEF d
<1>6. c \in Seq(Ids)
  BY <1>2, <1>4, <1>5 DEF d
<1>7. \A j \in 1 .. d : c[j] \in S
  BY <1>3, <1>4, <1>5 DEF Abstract!DueIn
<1>8. \A j, k \in 1 .. d : c[j] = c[k] => j = k
  <2> SUFFICES ASSUME NEW j \in 1 .. d, NEW k \in 1 .. d, c[j] = c[k] PROVE j = k
    OBVIOUS
  <2>1. list[j].Id = list[k].Id /\ j \in 1 .. Len(list) /\ k \in 1 .. Len(list)
    BY <1>5 DEF n
  <2> QED BY <1>1, <2>1 DEF Distinct
<1>9. \A i \in S : \E j \in 1 .. d : c[j] = i
  <2> TAKE i \in S
  <2>1. i \in DOMAIN f /\ f[i] <= 0
    BY DEF Abstract!DueIn
  <2>2. i \in IdsOf(list)
    BY <1>1, <2>1
  <2>3. PICK j \in 1 .. n : i = list[j].Id
    BY ONLY <2>2 DEF IdsOf, n
  <2>4. ~ (j \in d + 1 .. n)
    <3>1. f[i] \in Int
      BY <1>4, <2>3
    <3> QED BY <1>3, <2>1, <2>3, <3>1
  <2>5. j \in 1 .. d
    BY <1>1, <1>5, <2>4
  <2> QED BY <1>5, <2>3, <2>5
<1>10. c \in [1 .. d -> S]
  BY <1>7 DEF d
<1> HIDE DEF S
<1>11. c \in Abstract!SetToSeqs(S)
  <2>1. d \in Nat
    BY <1>5
  <2> QED BY ONLY <2>1, <1>8, <1>9, <1>10, SeqsAre
<1>12. \A j \in 1 .. (Len(c) - 1) : f[c[j]] <= f[c[j + 1]]
  <2>1. Len(c) = d /\ d \in Nat
    BY <1>5
  <2>2. ASSUME NEW j \in 1 .. (d - 1) PROVE f[c[j]] <= f[c[j + 1]]
    <3>1. j \in 1 .. d /\ j + 1 \in 1 .. d /\ j <= j + 1
      BY ONLY <2>1, <2>2
    <3> QED BY <1>1, <1>5, <3>1
  <2> QED BY ONLY <2>1, <2>2
<1> QED BY <1>6, <1>11, <1>12 DEF S

\* The times of the nodes that are not due.
NotDue(f) == [i \in DOMAIN f \ Abstract!DueIn(f) |-> f[i]]

\* What is left after the callbacks is the list of the nodes that were not due.
LEMMA RestSees ==
  ASSUME NEW list, NEW f, Sees(list, f), NEW R,
         R = SubSeq(list, Over(list) + 1, Len(list))
  PROVE  /\ R \in Seq(Node) /\ Distinct(R)
         /\ R # <<>> => R[1].RemainSeconds > 0
         /\ LeftOf(R, 0) = NotDue(f)
<1> DEFINE n == Len(list)
           d == Over(list)
           D == Due(list)
           g == [i \in DOMAIN f \ Abstract!DueIn(f) |-> f[i]]
<1>1. /\ list \in Seq(Node) /\ Distinct(list) /\ f \in [IdsOf(list) -> Int] /\ n \in Nat
      /\ DOMAIN f = IdsOf(list)
  BY DEF Sees
<1>2. d \in 0 .. n /\ (d < n => list[d + 1].RemainSeconds > 0)
  BY <1>1, OverIs
<1>3. /\ \A j \in 1 .. d : f[list[j].Id] <= 0
      /\ \A j \in d + 1 .. n : f[list[j].Id] > 0 /\ D[j] = f[list[j].Id]
      /\ D[d] = 0
  BY OverSees
<1>4. /\ R \in Seq(Node) /\ Len(R) = n - d
      /\ \A j \in 1 .. n - d : R[j] = list[d + j] /\ Due(R)[j] = D[d + j] - D[d]
  BY <1>1, <1>2, SuffixIs
<1>5. \A j \in 1 .. n : list[j].Id \in DOMAIN f /\ f[list[j].Id] \in Int
  <2> TAKE j \in 1 .. n
  <2>1. list[j].Id \in IdsOf(list)
    BY DEF IdsOf
  <2> QED BY <1>1, <2>1
<1> HIDE DEF n, d, D
<1>6. \A j \in 1 .. n - d : /\ d + j \in 1 .. n /\ d + j \in d + 1 .. n
                            /\ R[j].Id = list[d + j].Id /\ Due(R)[j] = f[R[j].Id]
  <2> TAKE j \in 1 .. n - d
  <2>1. d + j \in 1 .. n /\ d + j \in d + 1 .. n
    BY <1>1, <1>2
  <2>2. R[j] = list[d + j] /\ Due(R)[j] = D[d + j] - D[d]
    BY <1>4
  <2>3. D[d + j] = f[list[d + j].Id] /\ f[list[d + j].Id] \in Int /\ D[d] = 0
    BY <1>3, <1>5, <2>1
  <2>4. Due(R)[j] = f[list[d + j].Id] /\ R[j].Id = list[d + j].Id
    BY ONLY <2>2, <2>3
  <2> QED BY <2>1, <2>4
<1>7. Distinct(R)
  <2> SUFFICES ASSUME NEW j \in 1 .. n - d, NEW k \in 1 .. n - d, R[j].Id = R[k].Id PROVE j = k
    BY <1>4 DEF Distinct
  <2>1. list[d + j].Id = list[d + k].Id /\ d + j \in 1 .. n /\ d + k \in 1 .. n
    BY <1>6
  <2>2. d + j = d + k
    BY <1>1, <2>1 DEF Distinct, n
  <2> QED BY <1>2, <1>1, <2>2
<1>8. R # <<>> => R[1].RemainSeconds > 0
  <2> HAVE R # <<>>
  <2>1. 1 \in 1 .. n - d /\ d < n
    BY <1>1, <1>2, <1>4
  <2> QED BY <1>2, <1>4, <2>1
<1>9. IdsOf(R) = DOMAIN f \ Abstract!DueIn(f)
  <2>1. ASSUME NEW i \in IdsOf(R) PROVE i \in DOMAIN f \ Abstract!DueIn(f)
    <3>1. PICK j \in 1 .. n - d : i = R[j].Id
      BY <1>4, <2>1 DEF IdsOf
    <3>2. i \in DOMAIN f /\ f[i] > 0 /\ f[i] \in Int
      BY <1>3, <1>5, <1>6, <3>1
    <3> QED BY <3>2 DEF Abstract!DueIn
  <2>2. ASSUME NEW i \in DOMAIN f \ Abstract!DueIn(f) PROVE i \in IdsOf(R)
    <3>1. i \in IdsOf(list) /\ ~ (f[i] <= 0)
      BY <1>1 DEF Abstract!DueIn
    <3>2. PICK k \in 1 .. n : i = list[k].Id
      BY ONLY <3>1 DEF IdsOf, n
    <3>3. ~ (k \in 1 .. d)
      BY <1>3, <3>1, <3>2
    <3>4. k - d \in 1 .. n - d /\ d + (k - d) = k
      BY <1>1, <1>2, <3>3
    <3>5. R[k - d].Id = list[k].Id
      BY <1>4, <3>4
    <3> QED BY <1>4, <3>2, <3>4, <3>5 DEF IdsOf
  <2> QED BY <2>1, <2>2
<1>10. LeftOf(R, 0) = g
  <2>1. /\ LeftOf(R, 0) \in [IdsOf(R) -> Int]
        /\ \A j \in 1 .. Len(R) : LeftOf(R, 0)[R[j].Id] = Due(R)[j] - 0
    BY <1>4, <1>7, LeftIs
  <2>2. ASSUME NEW i \in IdsOf(R) PROVE LeftOf(R, 0)[i] = f[i]
    <3>1. PICK j \in 1 .. n - d : i = R[j].Id
      BY <1>4, <2>2 DEF IdsOf
    <3>2. LeftOf(R, 0)[i] = Due(R)[j] - 0 /\ Due(R)[j] = f[i] /\ f[i] \in Int
      BY <1>4, <1>5, <1>6, <2>1, <3>1
    <3> QED BY <3>2
  <2> DEFINE h == LeftOf(R, 0)
  <2>3. h \in [IdsOf(R) -> Int] /\ \A i \in IdsOf(R) : h[i] = f[i]
    BY <2>1, <2>2
  <2> HIDE DEF h
  <2>4. h = [i \in IdsOf(R) |-> f[i]]
    BY ONLY <2>3
  <2> QED BY ONLY <1>9, <2>4 DEF h, g
<1> QED BY <1>4, <1>7, <1>8, <1>10 DEF g, NotDue


\* SendCallbacks leaves the nodes that are not due, and calls back the others.
LEMMA SendsBack ==
  ASSUME NEW list, NEW f, Sees(list, f), SendCallbacks(list), elapsed' = 0
  PROVE  /\ TimerList' \in Seq(Node) /\ callbacks' \in Seq(Ids)
         /\ NoneDueInList'
         /\ Left' = NotDue(f)
         /\ callbacks' \in Abstract!SetToSeqs(Abstract!DueIn(f))
         /\ \A j \in 1 .. (Len(callbacks') - 1) : f[callbacks'[j]] <= f[callbacks'[j + 1]]
<1>1. /\ callbacks' = [j \in 1 .. Over(list) |-> list[j].Id]
      /\ TimerList' = SubSeq(list, Over(list) + 1, Len(list))
  BY DEF SendCallbacks, Over
<1>2. /\ TimerList' \in Seq(Node) /\ Distinct(TimerList')
      /\ TimerList' # <<>> => TimerList'[1].RemainSeconds > 0
      /\ LeftOf(TimerList', 0) = NotDue(f)
  <2> DEFINE R == SubSeq(list, Over(list) + 1, Len(list))
  <2>1. /\ R \in Seq(Node) /\ Distinct(R)
        /\ R # <<>> => R[1].RemainSeconds > 0
        /\ LeftOf(R, 0) = NotDue(f)
    <3>1. R = SubSeq(list, Over(list) + 1, Len(list))
      OBVIOUS
    <3>2. Sees(list, f)
      OBVIOUS
    <3> HIDE DEF R
    <3> QED BY ONLY <3>1, <3>2, RestSees
  <2>2. TimerList' = R
    BY <1>1
  <2> HIDE DEF R
  <2> QED BY <2>1, <2>2
<1>3. DOMAIN TimerList' = 1 .. Len(TimerList')
  BY <1>2
<1>4. NoneDueInList'
  BY <1>2, <1>3 DEF NoneDueInList, Distinct
<1>5. Left' = LeftOf(TimerList', 0)
  BY <1>3 DEF Left, LeftOf, IdsOf
<1> QED BY <1>1, <1>2, <1>4, <1>5, CallbacksAre

-----------------------------------------------------------------------------
(* The theorems                                                            *)

\* TypeOK and NoneDueInList are inductive together: UpdateTimerList gives the
\* list of a turn its order back, which SendCallbacks needs to stop in time.
LEMMA InitInv == Init => IInv
BY TimerAssumption DEF Init, IInv, TypeOK, NoneDueInList

LEMMA NextInv == IInv /\ [Next]_vars => IInv'
<1> SUFFICES ASSUME IInv, [Next]_vars PROVE IInv'
  OBVIOUS
<1>0. TypeOK /\ NoneDueInList /\ MaxLate \in Nat
  BY TimerAssumption DEF IInv
<1>1. ASSUME NEW r \in Requests, Request(r) PROVE IInv'
  <2>1. requests' \in Seq(Requests) /\ UNCHANGED <<TimerList, elapsed, callbacks>>
    BY <1>0, <1>1 DEF Request, TypeOK
  <2> QED BY <1>0, <2>1 DEF IInv, TypeOK, NoneDueInList
<1>2. CASE Tick
  <2>1. elapsed' \in 0 .. MaxLate /\ UNCHANGED <<TimerList, requests, callbacks>>
    BY <1>0, <1>2 DEF Tick, TypeOK
  <2> QED BY <1>0, <2>1 DEF IInv, TypeOK, NoneDueInList
<1>3. CASE Wake
  <2>1. requests' \in Seq(Requests)
    BY <1>0, <1>3 DEF Wake, TypeOK
  <2>2. elapsed' = 0 /\ elapsed' \in 0 .. MaxLate
    BY <1>0, <1>3 DEF Wake
  <2>3. SendCallbacks(Serve(UpdateTimerList(TimerList)))
    BY <1>3 DEF Wake
  <2>4. /\ TimerList' \in Seq(Node) /\ callbacks' \in Seq(Ids)
        /\ NoneDueInList'
    BY <2>2, <2>3, ServeSees, SendsBack
  <2> QED BY <2>1, <2>2, <2>4 DEF IInv, TypeOK
<1>4. CASE UNCHANGED vars
  BY <1>0, <1>4 DEF vars, IInv, TypeOK, NoneDueInList
<1> QED BY <1>1, <1>2, <1>3, <1>4 DEF Next

\* Between turns the list is well formed, holds no node twice, and none that
\* is due (timer.c:104-229).
THEOREM Inductive == Spec => []IInv
BY InitInv, NextInv, PTL DEF Spec

\* The deltas stay natural numbers: neither subtracting the time that passed
\* nor placing a node makes one negative (timer.c:104-199).
THEOREM TypeCorrect == Spec => []TypeOK
<1>1. IInv => TypeOK
  BY DEF IInv
<1> QED BY <1>1, Inductive, PTL

\* What SendCallbacks leaves, select has to wait for (timer.c:54-61, 208-212).
THEOREM NoneDueCorrect == Spec => []NoneDueInList
<1>1. IInv => NoneDueInList
  BY DEF IInv
<1> QED BY <1>1, Inductive, PTL


-----------------------------------------------------------------------------
(* The delta list implements TimerSpec                                     *)

\* The empty list stands for no times.
LEMMA InitKeeps == Init => Abstract!Init
<1> SUFFICES ASSUME Init PROVE Abstract!Init
  OBVIOUS
<1>1. TimerList = <<>>
  BY DEF Init
<1>2. {TimerList[j].Id : j \in DOMAIN TimerList} = {}
  BY <1>1
<1>3. Left = <<>>
  <2>1. Left = [i \in {} |-> Due(TimerList)[Find(TimerList, i)] - elapsed]
    BY <1>2 DEF Left
  <2>2. <<>> = [i \in 1 .. 0 |-> Due(TimerList)[Find(TimerList, i)] - elapsed]
    OBVIOUS
  <2>3. 1 .. 0 = {}
    OBVIOUS
  <2> QED BY ONLY <2>1, <2>2, <2>3
<1> QED BY <1>3 DEF Init, Abstract!Init

\* The first node's time is over when some node is due, and select does not
\* wait longer for it (timer.c:54-67).
LEMMA FirstIsDue ==
  ASSUME IInv, TimerList # <<>>, TimerList[1].RemainSeconds <= elapsed
  PROVE  Abstract!DueIn(Left) # {}
<1> DEFINE list == TimerList
<1>1. list \in Seq(Node) /\ elapsed \in Nat /\ Distinct(list) /\ Left = LeftOf(list, elapsed)
  BY Named, TimerAssumption DEF IInv, TypeOK
<1>2. 1 \in 1 .. Len(list) /\ list[1] \in Node
  BY <1>1
<1>3. Left \in [IdsOf(list) -> Int] /\ Left[list[1].Id] = Due(list)[1] - elapsed
  BY <1>1, <1>2, LeftIs
<1>4. Due(list)[1] = list[1].RemainSeconds
  <2>1. /\ Due(list)[0] = 0
        /\ \A j \in 1 .. Len(list) : Due(list)[j] = Due(list)[j - 1] + list[j].RemainSeconds
    BY <1>1, DueIs
  <2>2. Due(list)[1] = Due(list)[1 - 1] + list[1].RemainSeconds /\ list[1].RemainSeconds \in Nat
    BY <1>2, <2>1 DEF Node
  <2> HIDE DEF list
  <2> QED BY <2>1, <2>2
<1>5. Left[list[1].Id] <= 0
  <2>1. list[1].RemainSeconds \in Nat /\ list[1].RemainSeconds <= elapsed
    BY <1>2 DEF Node
  <2> QED BY <1>1, <1>3, <1>4, <2>1
<1>6. list[1].Id \in DOMAIN Left
  <2>1. list[1].Id \in IdsOf(list)
    BY <1>2 DEF IdsOf
  <2> QED BY <1>3, <2>1
<1> QED BY <1>5, <1>6 DEF Abstract!DueIn

\* A turn of the loop is a turn of TimerSpec.
LEMMA WakeKeeps == IInv /\ Wake => Abstract!Wake
<1> SUFFICES ASSUME IInv, Wake PROVE Abstract!Wake
  OBVIOUS
<1> DEFINE f == Abstract!Served
           S == Abstract!DueIn(f)
<1>1. requests # <<>> \/ Abstract!DueIn(Left) # {}
  BY FirstIsDue DEF Wake
<1>2. /\ elapsed' = 0
      /\ requests' = IF requests = <<>> THEN <<>> ELSE Tail(requests)
      /\ SendCallbacks(Serve(UpdateTimerList(TimerList)))
  BY DEF Wake
<1>3. Sees(Serve(UpdateTimerList(TimerList)), f)
  BY ServeSees
<1>4. /\ Left' = [i \in DOMAIN f \ S |-> f[i]]
      /\ callbacks' \in Abstract!SetToSeqs(S)
      /\ \A j \in 1 .. (Len(callbacks') - 1) : f[callbacks'[j]] <= f[callbacks'[j + 1]]
  BY <1>2, <1>3, SendsBack DEF NotDue
<1>5. callbacks' \in {c \in Abstract!SetToSeqs(S) :
                        \A j \in 1 .. (Len(c) - 1) : f[c[j]] <= f[c[j + 1]]}
  BY <1>4
<1> QED BY <1>1, <1>2, <1>4, <1>5 DEF Abstract!Wake

\* A second that passes comes off every node at once.
LEMMA TickKeeps == IInv /\ Tick => Abstract!Tick
<1> SUFFICES ASSUME IInv, Tick PROVE Abstract!Tick
  OBVIOUS
<1> DEFINE list == TimerList
<1>1. list \in Seq(Node) /\ elapsed \in Nat
  BY TimerAssumption DEF IInv, TypeOK
<1>2. /\ elapsed < MaxLate /\ elapsed' = elapsed + 1
      /\ UNCHANGED <<TimerList, requests, callbacks>>
  BY DEF Tick
<1>3. DOMAIN list = 1 .. Len(list) /\ DOMAIN Left = IdsOf(list)
  BY <1>1 DEF Left, IdsOf
<1>4. Left' = [i \in IdsOf(list) |-> Due(list)[Find(list, i)] - (elapsed + 1)]
  BY <1>2, <1>3 DEF Left, IdsOf
<1>5. \A i \in IdsOf(list) : /\ Left[i] = Due(list)[Find(list, i)] - elapsed
                             /\ Due(list)[Find(list, i)] \in Nat
  <2> TAKE i \in IdsOf(list)
  <2>1. Find(list, i) \in 0 .. Len(list) /\ Due(list) \in [0 .. Len(list) -> Nat]
    BY <1>1, FindIs, DueIs
  <2>2. Due(list)[Find(list, i)] \in Nat
    BY <2>1
  <2>3. Left[i] = Due(list)[Find(list, i)] - elapsed
    BY <1>3 DEF Left, IdsOf
  <2> QED BY <2>2, <2>3
<1> HIDE DEF list
<1>6. \A i \in IdsOf(list) : Due(list)[Find(list, i)] - (elapsed + 1) = Left[i] - 1
  <2> DEFINE L == Left
  <2>1. \A i \in IdsOf(list) : /\ L[i] = Due(list)[Find(list, i)] - elapsed
                               /\ Due(list)[Find(list, i)] \in Nat
    BY <1>5
  <2> HIDE DEF L
  <2>2. \A i \in IdsOf(list) : Due(list)[Find(list, i)] - (elapsed + 1) = L[i] - 1
    <3> TAKE i \in IdsOf(list)
    <3> DEFINE x == Due(list)[Find(list, i)]
    <3>1. L[i] = x - elapsed /\ x \in Nat
      BY <2>1
    <3> HIDE DEF x
    <3>2. x - (elapsed + 1) = L[i] - 1
      BY ONLY <1>1, <3>1
    <3> QED BY ONLY <3>2 DEF x
  <2> QED BY <2>2 DEF L
<1>7. Left' = [i \in IdsOf(list) |-> Left[i] - 1]
  BY ONLY <1>4, <1>6
<1> QED BY <1>2, <1>3, <1>7 DEF Abstract!Tick, Abstract!Nodes

LEMMA NextKeeps == IInv /\ [Next]_vars => [Abstract!Next]_(Abstract!vars)
<1> SUFFICES ASSUME IInv, [Next]_vars PROVE [Abstract!Next]_(Abstract!vars)
  OBVIOUS
<1>1. ASSUME NEW r \in Requests, Request(r) PROVE Abstract!Request(r) /\ r \in Abstract!Requests
  <2>1. Left' = Left
    BY <1>1 DEF Request, Left
  <2> QED BY <1>1, <2>1 DEF Request, Abstract!Request, Requests, Abstract!Requests
<1>2. CASE Tick
  BY <1>2, TickKeeps DEF Abstract!Next
<1>3. CASE Wake
  BY <1>3, WakeKeeps DEF Abstract!Next
<1>4. CASE UNCHANGED vars
  BY <1>4 DEF vars, Abstract!vars, Left
<1> QED BY <1>1, <1>2, <1>3, <1>4 DEF Next, Abstract!Next

\* The delta list keeps the promise of TimerSpec: no callback early, none
\* missed in the turn it is due, earliest first, none after a cancel
\* (timer.c:104-229).
THEOREM TimeKept == Spec => KeepsTime
<1>1. Init => Abstract!Init
  BY InitKeeps
<1>2. IInv /\ [Next]_vars => [Abstract!Next]_(Abstract!vars)
  BY NextKeeps
<1> QED BY <1>1, <1>2, Inductive, PTL DEF Spec, KeepsTime, Abstract!Spec
=============================================================================

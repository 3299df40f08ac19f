------------------------- MODULE CountMatches_proofs -------------------------
(***************************************************************************)
(* That the program of src/lab1 counts no place twice, and misses none if  *)
(* the table of the pattern is exact: for every alphabet, every file,      *)
(* every pattern and every size of the buffer.                             *)
(***************************************************************************)
EXTENDS CountMatches, SequenceTheorems, FiniteSetTheorems, WellFoundedInduction, TLAPS

-----------------------------------------------------------------------------
(* The table of a pattern.                                                  *)

\* A set of naturals that is not empty has a least element.
LEMMA LeastElement ==
  ASSUME NEW T \in SUBSET Nat, T # {}
  PROVE  \E n \in T : \A k \in T : n <= k
<1>1. PICK n \in T : \A k \in T : ~ (<<k, n>> \in OpToRel(<, Nat))
  BY NatLessThanWellFounded, WFMin
<1>2. ASSUME NEW k \in T PROVE n <= k
  <2>1. ~ (k < n)
    BY <1>1 DEF OpToRel
  <2> QED BY <2>1
<1> QED BY <1>2

\* What holds of zero, and of every number that follows one it holds of, holds
\* up to n.
LEMMA UpTo ==
  ASSUME NEW n \in Nat, NEW S, 0 \in S, \A i \in 1 .. n : i - 1 \in S => i \in S
  PROVE  \A i \in 0 .. n : i \in S
<1> DEFINE Bad == {i \in 0 .. n : i \notin S}
<1>1. SUFFICES ASSUME Bad # {} PROVE FALSE
  OBVIOUS
<1>2. PICK k \in Bad : \A j \in Bad : k <= j
  <2>1. Bad \in SUBSET Nat
    OBVIOUS
  <2> HIDE DEF Bad
  <2> QED BY <1>1, <2>1, LeastElement
<1>3. k \in 1 .. n /\ k - 1 \in 0 .. n /\ ~ (k <= k - 1) /\ k \notin S
  OBVIOUS
<1>4. k - 1 \in S
  BY <1>2, <1>3
<1> QED BY <1>3, <1>4

\* f is the table gen_next computes, up to place n.
TableTo(f, p, n) ==
  f = [i \in 0 .. n |->
         IF i < 2 THEN 0
         ELSE IF p[i] = p[f[i - 1] + 1] THEN f[i - 1] + 1 ELSE 0]

\* There is such a table.
LEMMA TableExists ==
  ASSUME NEW p, NEW n \in Nat
  PROVE  \E f : TableTo(f, p, n)
<1> DEFINE S == {i \in Nat : \E f : TableTo(f, p, i)}
<1>1. 0 \in S
  <2>1. TableTo([i \in 0 .. 0 |-> 0], p, 0)
    BY DEF TableTo
  <2> QED BY <2>1
<1>2. ASSUME NEW m \in 1 .. n, m - 1 \in S PROVE m \in S
  <2>1. PICK g : TableTo(g, p, m - 1)
    BY <1>2
  <2> DEFINE At(h, i) == IF i < 2 THEN 0 ELSE IF p[i] = p[h[i - 1] + 1] THEN h[i - 1] + 1 ELSE 0
             f == [i \in 0 .. m |-> IF i = m THEN At(g, m) ELSE g[i]]
  <2>2. g = [i \in 0 .. m - 1 |-> At(g, i)]
    BY <2>1 DEF TableTo
  <2>3. ASSUME NEW i \in 0 .. m PROVE f[i] = At(f, i)
    <3>1. At(f, i) = At(g, i)
      <4>1. i < 2 \/ (i - 1 \in 0 .. m /\ i - 1 # m)
        OBVIOUS
      <4>2. i < 2 \/ f[i - 1] = g[i - 1]
        BY <4>1
      <4> HIDE DEF f
      <4> QED BY <4>2
    <3>2. i # m => g[i] = At(g, i)
      <4>1. i # m => i \in 0 .. m - 1
        OBVIOUS
      <4> HIDE DEF At
      <4> QED BY <2>2, <4>1
    <3>3. f[i] = IF i = m THEN At(g, m) ELSE g[i]
      OBVIOUS
    <3> HIDE DEF f, At
    <3> QED BY <3>1, <3>2, <3>3
  <2>4. f = [i \in 0 .. m |-> At(f, i)]
    <3>1. f = [i \in 0 .. m |-> f[i]]
      OBVIOUS
    <3> HIDE DEF f, At
    <3> QED BY <2>3, <3>1
  <2>5. TableTo(f, p, m)
    <3> HIDE DEF f
    <3> QED BY <2>4 DEF TableTo
  <2> HIDE DEF f
  <2> QED BY <2>5
<1> HIDE DEF S
<1>3. n \in S
  BY <1>1, <1>2, UpTo
<1> QED BY <1>3 DEF S

\* It is the one gen_next returns.
LEMMA TableOf ==
  ASSUME NEW p, Len(p) \in Nat
  PROVE  \A i \in 0 .. Len(p) :
           gen_next(p)[i] = IF i < 2 THEN 0
                            ELSE IF p[i] = p[gen_next(p)[i - 1] + 1]
                                 THEN gen_next(p)[i - 1] + 1 ELSE 0
<1>1. \E f : TableTo(f, p, Len(p))
  BY TableExists
<1>2. TableTo(gen_next(p), p, Len(p))
  <2> DEFINE f == CHOOSE g : TableTo(g, p, Len(p))
  <2>1. gen_next(p) = f
    BY ZenonT(30) DEF gen_next, TableTo
  <2>2. TableTo(f, p, Len(p))
    BY <1>1
  <2> QED BY <2>1, <2>2
<1> HIDE DEF gen_next
<1> QED BY <1>2 DEF TableTo

\* The n places of s after place at are the first n of p.
Begins(p, s, at, n) == \A j \in 1 .. n : s[at + j] = p[j]

\* gen_next[i] is a length, short of i, at which the first i characters of a
\* pattern start again at their end.
LEMMA TableBorder ==
  ASSUME NEW p, Len(p) \in Nat, NEW i \in 1 .. Len(p)
  PROVE  /\ gen_next(p)[i] \in 0 .. i - 1
         /\ Begins(p, p, i - gen_next(p)[i], gen_next(p)[i])
<1> DEFINE f == gen_next(p)
           Border(k) == f[k] \in 0 .. k - 1 /\ Begins(p, p, k - f[k], f[k])
           S == {k \in Nat : k = 0 \/ Border(k)}
<1>0. \A k \in 0 .. Len(p) :
        f[k] = IF k < 2 THEN 0 ELSE IF p[k] = p[f[k - 1] + 1] THEN f[k - 1] + 1 ELSE 0
  BY TableOf
<1> HIDE DEF f
<1>1. ASSUME NEW k \in 1 .. Len(p), k - 1 \in S PROVE k \in S
  <2>1. CASE f[k] = 0
    BY <2>1 DEF Begins
  <2>2. CASE f[k] # 0
    <3>1. k >= 2 /\ p[k] = p[f[k - 1] + 1] /\ f[k] = f[k - 1] + 1
      <4>1. f[k] = IF k < 2 THEN 0 ELSE IF p[k] = p[f[k - 1] + 1] THEN f[k - 1] + 1 ELSE 0
        BY <1>0
      <4> QED BY <2>2, <4>1
    <3>2. f[k - 1] \in 0 .. k - 2 /\ Begins(p, p, k - 1 - f[k - 1], f[k - 1])
      <4>1. Border(k - 1)
        BY <1>1, <3>1
      <4> QED BY <4>1
    <3>3. f[k] \in 0 .. k - 1 /\ k - f[k] = k - 1 - f[k - 1]
      BY <3>1, <3>2
    <3>4. ASSUME NEW j \in 1 .. f[k] PROVE p[k - f[k] + j] = p[j]
      <4>1. CASE j = f[k]
        <5>1. k - f[k] + j = k
          BY <3>3, <4>1
        <5> QED BY <3>1, <4>1, <5>1
      <4>2. CASE j # f[k]
        <5>1. j \in 1 .. f[k - 1]
          BY <3>1, <3>2, <4>2
        <5> QED BY <3>2, <3>3, <5>1 DEF Begins
      <4> QED BY <4>1, <4>2
    <3> QED BY <3>3, <3>4 DEF Begins
  <2> QED BY <2>1, <2>2
<1>2. i \in S
  <2>1. 0 \in S
    OBVIOUS
  <2> HIDE DEF S
  <2>2. \A k \in 1 .. Len(p) : k - 1 \in S => k \in S
    BY <1>1
  <2>3. \A k \in 0 .. Len(p) : k \in S
    BY ONLY Len(p) \in Nat, <2>1, <2>2, UpTo
  <2> QED BY <2>3
<1> QED BY <1>2 DEF f

-----------------------------------------------------------------------------
(* Where the pattern occurs.                                                *)

\* What a bounded sequence is.
LEMMA Bounded ==
  ASSUME NEW n \in Nat, NEW s \in BoundedSeq(Alphabet, n)
  PROVE  s \in Seq(Alphabet) /\ Len(s) \in Nat /\ Len(s) <= n
<1>1. PICK m \in 0 .. n : s \in [1 .. m -> Alphabet]
  BY DEF BoundedSeq, SeqOf
<1>2. m \in Nat
  OBVIOUS
<1> QED BY <1>1, <1>2

\* An occurrence is one of every character of the pattern.
LEMMA OccursAt ==
  ASSUME file \in Seq(Alphabet), pattern \in Seq(Alphabet), NEW i \in Nat, i >= 1,
         i + Len(pattern) - 1 <= Len(file)
  PROVE  SubSeq(file, i, i + Len(pattern) - 1) = pattern
           <=> Begins(pattern, file, i - 1, Len(pattern))
<1> DEFINE L == Len(pattern)
           sub == SubSeq(file, i, i + L - 1)
<1>1. L \in Nat /\ Len(file) \in Nat /\ pattern = [j \in 1 .. L |-> pattern[j]]
  OBVIOUS
<1>2. sub \in Seq(Alphabet) /\ Len(sub) = L /\ \A j \in 1 .. L : sub[j] = file[i - 1 + j]
  <2>1. i \in Int /\ i + L - 1 \in Int /\ \A j \in i .. i + L - 1 : file[j] \in Alphabet
    <3>1. \A j \in i .. i + L - 1 : j \in 1 .. Len(file)
      BY <1>1
    <3> QED BY <1>1, <3>1
  <2>2. /\ sub \in Seq(Alphabet)
        /\ Len(sub) = IF i <= i + L - 1 THEN i + L - 1 - i + 1 ELSE 0
        /\ \A j \in 1 .. i + L - 1 - i + 1 : sub[j] = file[i + j - 1]
    <3> DEFINE hi == i + L - 1
    <3>1. i \in Int /\ hi \in Int /\ \A j \in i .. hi : file[j] \in Alphabet
      BY <2>1
    <3> HIDE DEF hi
    <3>2. /\ SubSeq(file, i, hi) \in Seq(Alphabet)
          /\ Len(SubSeq(file, i, hi)) = IF i <= hi THEN hi - i + 1 ELSE 0
          /\ \A j \in 1 .. hi - i + 1 : SubSeq(file, i, hi)[j] = file[i + j - 1]
      BY ONLY <3>1, SubSeqProperties
    <3> QED BY <3>2 DEF hi
  <2> HIDE DEF sub, L
  <2>3. i + L - 1 - i + 1 = L /\ (i <= i + L - 1 <=> L # 0)
    BY <1>1
  <2>4. \A j \in 1 .. L : i + j - 1 = i - 1 + j
    BY <1>1
  <2> QED BY <2>2, <2>3, <2>4
<1>3. sub = pattern <=> \A j \in 1 .. L : sub[j] = pattern[j]
  <2>1. sub = [j \in 1 .. L |-> sub[j]]
    <3> HIDE DEF sub
    <3>1. sub = [j \in 1 .. Len(sub) |-> sub[j]]
      BY <1>2
    <3> QED BY <1>2, <3>1
  <2> HIDE DEF sub, L
  <2> QED BY <1>1, <2>1
<1> HIDE DEF sub
<1>4. sub = pattern <=> \A j \in 1 .. L : file[i - 1 + j] = pattern[j]
  BY <1>2, <1>3
<1> QED BY <1>4 DEF Begins, sub

\* Too few characters hold no occurrence.
LEMMA NoneShort ==
  ASSUME pattern \in Seq(Alphabet), NEW n \in Int, n < Len(pattern)
  PROVE  Occurrences(n) = {}
<1>1. Len(pattern) \in Nat
  OBVIOUS
<1>2. 1 .. n - Len(pattern) + 1 = {}
  BY <1>1
<1> QED BY <1>2 DEF Occurrences

\* One character more holds at most one occurrence more, the one it ends.
LEMMA OneMore ==
  ASSUME file \in Seq(Alphabet), pattern \in Seq(Alphabet), NEW n \in Nat,
         n >= Len(pattern) - 1, n < Len(file)
  PROVE  /\ Cardinality(Occurrences(n)) \in Nat
         /\ Cardinality(Occurrences(n + 1)) =
              IF Begins(pattern, file, n + 1 - Len(pattern), Len(pattern))
              THEN Cardinality(Occurrences(n)) + 1 ELSE Cardinality(Occurrences(n))
<1> DEFINE L == Len(pattern)
           last == n + 2 - L
           Is(i) == SubSeq(file, i, i + L - 1) = pattern
<1>1. L \in Nat /\ Len(file) \in Nat /\ last \in Nat /\ last >= 1
  OBVIOUS
<1>2. Occurrences(n) = {i \in 1 .. last - 1 : Is(i)}
  <2>1. n - L + 1 = last - 1
    BY <1>1
  <2> QED BY <2>1 DEF Occurrences
<1>3. Occurrences(n + 1) = {i \in 1 .. last : Is(i)}
  <2>1. n + 1 - L + 1 = last
    BY <1>1
  <2> QED BY <2>1 DEF Occurrences
<1>4. Is(last) <=> Begins(pattern, file, n + 1 - L, L)
  <2>1. last - 1 = n + 1 - L /\ last + L - 1 <= Len(file)
    BY <1>1
  <2> QED BY <1>1, <2>1, OccursAt
<1> HIDE DEF Is, last, L
<1>5. /\ IsFiniteSet(Occurrences(n)) /\ Cardinality(Occurrences(n)) \in Nat
      /\ last \notin Occurrences(n)
  <2>1. IsFiniteSet(1 .. last - 1)
    BY <1>1, FS_Interval
  <2>2. Occurrences(n) \subseteq 1 .. last - 1
    BY <1>2
  <2>3. IsFiniteSet(Occurrences(n))
    BY <2>1, <2>2, FS_Subset
  <2>4. last \notin 1 .. last - 1
    BY <1>1
  <2> QED BY <2>2, <2>3, <2>4, FS_CardinalityType
<1>6. 1 .. last = (1 .. last - 1) \cup {last}
  BY <1>1
<1>7. CASE Is(last)
  <2>1. Occurrences(n + 1) = Occurrences(n) \cup {last}
    BY <1>2, <1>3, <1>6, <1>7
  <2>2. Cardinality(Occurrences(n) \cup {last}) = Cardinality(Occurrences(n)) + 1
    BY <1>5, FS_AddElement
  <2> QED BY <1>4, <1>5, <1>7, <2>1, <2>2 DEF L
<1>8. CASE ~ Is(last)
  <2>1. Occurrences(n + 1) = Occurrences(n)
    BY <1>2, <1>3, <1>6, <1>8
  <2> QED BY <1>4, <1>5, <1>8, <2>1 DEF L
<1> QED BY <1>7, <1>8

\* If the table is exact, what starts again at the end of the first i
\* characters is no longer than the table says.
LEMMA ExactTable ==
  ASSUME pattern \in Seq(Alphabet), NextIsExact,
         NEW i \in 1 .. Len(pattern), NEW k \in gen_next(pattern)[i] + 1 .. i - 1
  PROVE  ~ Begins(pattern, pattern, i - k, k)
<1> DEFINE next == gen_next(pattern)
           L == Len(pattern)
<1>1. L \in Nat /\ next[i] \in 0 .. i - 1
  BY TableBorder
<1>2. SubSeq(pattern, 1, k) # SubSeq(pattern, i - k + 1, i)
  BY DEF NextIsExact
<1> HIDE DEF next, L
<1>3. k \in Nat /\ k >= 1 /\ k < i /\ i <= L
  <2>1. k \in next[i] + 1 .. i - 1 /\ i \in 1 .. L
    BY DEF next, L
  <2> QED BY <1>1, <2>1
<1>4. ASSUME NEW m \in Nat, m + k <= L
      PROVE  LET s == SubSeq(pattern, m + 1, m + k) IN
               s = [j \in 1 .. k |-> pattern[m + j]]
  <2> DEFINE s == SubSeq(pattern, m + 1, m + k)
  <2>1. \A j \in m + 1 .. m + k : pattern[j] \in Alphabet
    <3>1. \A j \in m + 1 .. m + k : j \in 1 .. L
      BY <1>1, <1>3, <1>4
    <3> QED BY <3>1 DEF L
  <2>2. /\ s \in Seq(Alphabet)
        /\ Len(s) = IF m + 1 <= m + k THEN m + k - (m + 1) + 1 ELSE 0
        /\ \A j \in 1 .. m + k - (m + 1) + 1 : s[j] = pattern[m + 1 + j - 1]
    <3>1. m + 1 \in Int /\ m + k \in Int
      BY <1>3
    <3> QED BY <2>1, <3>1, SubSeqProperties
  <2> HIDE DEF s
  <2>3. m + 1 <= m + k /\ m + k - (m + 1) + 1 = k
    BY <1>3
  <2>4. \A j \in 1 .. k : m + 1 + j - 1 = m + j
    BY <1>3
  <2>5. s = [j \in 1 .. Len(s) |-> s[j]]
    BY <2>2
  <2>6. s = [j \in 1 .. k |-> s[j]] /\ \A j \in 1 .. k : s[j] = pattern[m + j]
    BY <2>2, <2>3, <2>4, <2>5
  <2> QED BY <2>6 DEF s
<1>5. SubSeq(pattern, 1, k) = [j \in 1 .. k |-> pattern[0 + j]]
  <2>1. 0 + k <= L /\ 0 + 1 = 1 /\ 0 + k = k
    BY <1>1, <1>3
  <2> QED BY <1>4, <2>1
<1>6. SubSeq(pattern, i - k + 1, i) = [j \in 1 .. k |-> pattern[i - k + j]]
  <2>1. i - k \in Nat /\ i - k + k = i
    BY <1>3
  <2> QED BY <1>3, <1>4, <2>1
<1>7. PICK j \in 1 .. k : pattern[0 + j] # pattern[i - k + j]
  BY <1>2, <1>5, <1>6
<1>8. 0 + j = j
  BY <1>3
<1> QED BY <1>7, <1>8 DEF Begins

-----------------------------------------------------------------------------
(* The inductive invariant.                                                 *)

\* Where in the file the buffer begins.
Base == read - Len(text)

\* The buffer is a part of the file, which ends where the file was read to: at
\* its end, or where the buffer was full.  Between two pieces it is one shorter
\* than the pattern.
Placed ==
  /\ Base \in Nat /\ \A j \in 1 .. Len(text) : text[j] = file[Base + j]
  /\ pc = "main" =>
       \/ read = 0 /\ text = <<>>
       \/ pattern # <<>> /\ Len(text) = Len(pattern) - 1
  /\ pc = "kmp_match" =>
       /\ Base = 0 \/ Len(text) >= Len(pattern)
       /\ read = Len(file) \/ Len(text) = TEXT_SIZE - 1
  /\ pc = "done" /\ pattern # <<>> => read = Len(file)

\* The matched_len characters before t are the first of the pattern.
Matched ==
  pc = "kmp_match" =>
    matched_len < t /\ Begins(pattern, text, t - 1 - matched_len, matched_len)

\* No longer part of the pattern ends before t and goes on at t, if the table is
\* exact.
Longest ==
  NextIsExact /\ pc = "kmp_match" =>
    \A k \in matched_len + 1 .. Len(pattern) - 1 :
      k < t /\ Begins(pattern, text, t - 1 - k, k) =>
        t <= Len(text) /\ text[t] # pattern[k + 1]

IInv == TypeOK /\ Placed /\ Matched /\ Longest /\ NeverOvercounts /\ CountsAll

\* What TypeOK says of sequences and lengths.
LEMMA Types ==
  ASSUME TypeOK
  PROVE  /\ file \in Seq(Alphabet) /\ pattern \in Seq(Alphabet) /\ text \in Seq(Alphabet)
         /\ Len(file) \in Nat /\ Len(pattern) \in Nat /\ Len(text) \in Nat
         /\ Len(pattern) <= MaxPattern /\ (pattern = <<>> <=> Len(pattern) = 0)
         /\ read \in Nat /\ read <= Len(file) /\ matched_times \in Nat
         /\ t \in Nat /\ matched_len \in Nat
         /\ (matched_len = 0 \/ matched_len < Len(pattern))
         /\ (pc = "kmp_match" => 1 <= t /\ t <= Len(text) + 1)
<1>1. MaxPattern \in Nat /\ MaxFile \in Nat
  BY CountAssumption
<1>2. file \in BoundedSeq(Alphabet, MaxFile) /\ pattern \in BoundedSeq(Alphabet, MaxPattern)
  BY DEF TypeOK
<1>3. /\ file \in Seq(Alphabet) /\ Len(file) \in Nat
      /\ pattern \in Seq(Alphabet) /\ Len(pattern) \in Nat /\ Len(pattern) <= MaxPattern
  BY <1>1, <1>2, Bounded
<1>4. /\ text \in Seq(Alphabet) /\ read \in 0 .. Len(file) /\ matched_times \in Nat
      /\ t \in Nat /\ matched_len \in Nat
      /\ (matched_len = 0 \/ matched_len < Len(pattern))
      /\ (pc = "kmp_match" => t \in 1 .. Len(text) + 1)
  BY DEF TypeOK
<1>5. pattern = <<>> <=> Len(pattern) = 0
  BY <1>3, EmptySeq
<1>6. Len(text) \in Nat
  BY <1>4
<1> QED BY <1>3, <1>4, <1>5, <1>6

-----------------------------------------------------------------------------
(* Beginnings of the pattern.                                               *)

\* What begins again at the end of a beginning of the pattern begins again at
\* the end of every copy of it.
LEMMA Falls ==
  ASSUME NEW p, NEW s, NEW at \in Int, NEW i \in Nat, NEW k \in 0 .. i,
         Begins(p, s, at, i), Begins(p, p, i - k, k)
  PROVE  Begins(p, s, at + i - k, k)
<1>1. ASSUME NEW j \in 1 .. k PROVE s[at + i - k + j] = p[j]
  <2>1. i - k + j \in 1 .. i /\ at + (i - k + j) = at + i - k + j
    OBVIOUS
  <2>2. s[at + (i - k + j)] = p[i - k + j]
    BY <2>1 DEF Begins
  <2>3. p[i - k + j] = p[j]
    BY DEF Begins
  <2> QED BY <2>1, <2>2, <2>3
<1> QED BY <1>1 DEF Begins

\* And the other way around.
LEMMA Rises ==
  ASSUME NEW p, NEW s, NEW at \in Int, NEW i \in Nat, NEW k \in 0 .. i,
         Begins(p, s, at, i), Begins(p, s, at + i - k, k)
  PROVE  Begins(p, p, i - k, k)
<1>1. ASSUME NEW j \in 1 .. k PROVE p[i - k + j] = p[j]
  <2>1. i - k + j \in 1 .. i /\ at + (i - k + j) = at + i - k + j
    OBVIOUS
  <2>2. s[at + (i - k + j)] = p[i - k + j]
    BY <2>1 DEF Begins
  <2>3. s[at + i - k + j] = p[j]
    BY DEF Begins
  <2> QED BY <2>1, <2>2, <2>3
<1> QED BY <1>1 DEF Begins

\* Of the beginnings of the pattern that end with the character at t, none is
\* longer than the search's, if the table is exact.
LEMMA Consumed ==
  ASSUME TypeOK, Longest, NextIsExact, pc = "kmp_match",
         NEW k \in 1 .. Len(pattern), k <= t, Begins(pattern, text, t - k, k)
  PROVE  text[t] = pattern[k] /\ k <= matched_len + 1
<1>1. t \in Nat /\ matched_len \in Nat /\ Len(pattern) \in Nat
  BY Types
<1>2. t - k \in Int /\ k - 1 \in Nat /\ k - 1 + 1 = k /\ t - k + (k - 1) + 1 = t
  BY <1>1
<1>3. Begins(pattern, text, t - k, k - 1) /\ text[t] = pattern[k]
  <2>1. \A j \in 1 .. k : text[t - k + j] = pattern[j]
    BY DEF Begins
  <2>2. k \in 1 .. k /\ t - k + k = t
    BY <1>1
  <2>3. \A j \in 1 .. k - 1 : j \in 1 .. k
    OBVIOUS
  <2>4. Begins(pattern, text, t - k, k - 1)
    BY <2>1, <2>3 DEF Begins
  <2>5. text[t - k + k] = pattern[k]
    BY <2>1, <2>2
  <2> QED BY <2>2, <2>4, <2>5
<1>4. ASSUME k > matched_len + 1 PROVE FALSE
  <2>1. /\ k - 1 \in matched_len + 1 .. Len(pattern) - 1 /\ k - 1 < t
        /\ t - 1 - (k - 1) = t - k
    BY <1>1, <1>4
  <2>2. text[t] # pattern[k - 1 + 1]
    BY <1>3, <2>1 DEF Longest
  <2> QED BY <1>2, <1>3, <2>2
<1> QED BY <1>1, <1>3, <1>4

-----------------------------------------------------------------------------
(* What a step does to the places that are to be counted.                   *)

\* They are finitely many.
LEMMA CountNat ==
  ASSUME Len(pattern) \in Nat, NEW n \in Int
  PROVE  Cardinality(Occurrences(n)) \in Nat
<1>1. IsFiniteSet(1 .. n - Len(pattern) + 1)
  <2>1. 1 \in Int /\ n - Len(pattern) + 1 \in Int
    OBVIOUS
  <2> QED BY <2>1, FS_Interval
<1>2. Occurrences(n) \subseteq 1 .. n - Len(pattern) + 1
  BY DEF Occurrences
<1> QED BY <1>1, <1>2, FS_Subset, FS_CardinalityType

\* Where an occurrence lies does not depend on what the search does.
LEMMA SamePlaces ==
  ASSUME UNCHANGED <<file, pattern>>
  PROVE  Occurrences(Searched)' = Occurrences(Searched')
BY DEF Occurrences

\* Characters that end an occurrence in the buffer end one in the file.
LEMMA EndsHere ==
  ASSUME TypeOK, Placed, pc = "kmp_match", t <= Len(text), t >= Len(pattern)
  PROVE  Begins(pattern, file, Base + t - Len(pattern), Len(pattern))
           <=> Begins(pattern, text, t - Len(pattern), Len(pattern))
<1>1. t \in Nat /\ Len(pattern) \in Nat /\ Len(text) \in Nat /\ Base \in Nat
  BY Types DEF Placed
<1>2. ASSUME NEW j \in 1 .. Len(pattern)
      PROVE  text[t - Len(pattern) + j] = file[Base + t - Len(pattern) + j]
  <2>1. /\ t - Len(pattern) + j \in 1 .. Len(text)
        /\ Base + (t - Len(pattern) + j) = Base + t - Len(pattern) + j
    BY <1>1
  <2>2. text[t - Len(pattern) + j] = file[Base + (t - Len(pattern) + j)]
    BY <2>1 DEF Placed
  <2> QED BY <2>1, <2>2
<1> QED BY <1>2 DEF Begins

\* A step that passes a character passes the occurrence it ends, if it does.
LEMMA Passed ==
  ASSUME TypeOK, Placed, pc = "kmp_match", t <= Len(text), pattern # <<>>,
         t' = t + 1, UNCHANGED <<file, pattern, pc, read, text>>
  PROVE  /\ Cardinality(Occurrences(Searched)) \in Nat
         /\ Cardinality(Occurrences(Searched))' =
              IF t >= Len(pattern) /\ Begins(pattern, text, t - Len(pattern), Len(pattern))
              THEN Cardinality(Occurrences(Searched)) + 1
              ELSE Cardinality(Occurrences(Searched))
<1> DEFINE L == Len(pattern)
           Ends == t >= L /\ Begins(pattern, text, t - L, L)
<1>1. /\ t \in Nat /\ t >= 1 /\ L \in Nat /\ L >= 1 /\ Len(text) \in Nat
      /\ Base \in Nat /\ read \in Nat /\ read <= Len(file) /\ Len(file) \in Nat
      /\ file \in Seq(Alphabet) /\ pattern \in Seq(Alphabet)
  <2>1. Len(pattern) # 0
    BY Types
  <2> QED BY <2>1, Types DEF Placed
<1>2. read = Base + Len(text)
  BY <1>1, Types DEF Base
<1>3. /\ Searched = Base + (IF t > L THEN t - 1 ELSE L - 1)
      /\ Searched' = Base + (IF t + 1 > L THEN t ELSE L - 1)
  <2>1. Searched = read - Len(text) + (IF t > L THEN t - 1 ELSE L - 1)
    BY DEF Searched
  <2>2. Searched' = read - Len(text) + (IF t + 1 > L THEN t + 1 - 1 ELSE L - 1)
    <3>1. pc' = "kmp_match" /\ read' = read /\ text' = text /\ pattern' = pattern /\ t' = t + 1
      OBVIOUS
    <3>2. Searched' = read' - Len(text') + (IF t' > Len(pattern') THEN t' - 1 ELSE Len(pattern') - 1)
      BY <3>1 DEF Searched
    <3>3. t' > Len(pattern') <=> t + 1 > L
      BY <3>1, Zenon
    <3>4. t' - 1 = t + 1 - 1
      BY <1>1, <3>1
    <3>5. Len(pattern') = L
      BY <3>1
    <3>6. read' - Len(text') = read - Len(text)
      BY <3>1
    <3> HIDE DEF L
    <3> QED BY ONLY <3>2, <3>3, <3>4, <3>5, <3>6
  <2>3. read - Len(text) = Base /\ t + 1 - 1 = t
    BY <1>1 DEF Base
  <2> QED BY <2>1, <2>2, <2>3
<1>4. Cardinality(Occurrences(Searched))' = Cardinality(Occurrences(Searched'))
  BY SamePlaces
<1>5. Searched \in Nat
  <2> HIDE DEF L
  <2>1. t - 1 \in Nat /\ L - 1 \in Nat
    BY <1>1
  <2> DEFINE off == IF t > L THEN t - 1 ELSE L - 1
  <2>2. off \in Nat /\ Searched = Base + off
    BY <1>3, <2>1
  <2>3. Base \in Nat
    BY <1>1
  <2> HIDE DEF off
  <2> QED BY ONLY <2>2, <2>3
<1>6. Cardinality(Occurrences(Searched)) \in Nat
  <2>1. Searched \in Int /\ Len(pattern) \in Nat
    BY <1>1, <1>5
  <2> QED BY ONLY <2>1, CountNat
<1>7. CASE t < L
  <2>1. Searched' = Searched
    <3> HIDE DEF L
    <3> QED BY <1>1, <1>3, <1>7
  <2>2. ~ Ends
    BY <1>1, <1>7
  <2>3. Cardinality(Occurrences(Searched))' = Cardinality(Occurrences(Searched))
    BY <1>4, <2>1
  <2> QED BY <1>6, <2>2, <2>3
<1>8. CASE t >= L
  <2>1. /\ Searched = Base + t - 1 /\ Searched' = Searched + 1
        /\ Searched >= L - 1 /\ Searched < Len(file)
        /\ Searched + 1 - L = Base + t - L
    <3> HIDE DEF L
    <3> QED BY <1>1, <1>2, <1>3, <1>8
  <2>2. Begins(pattern, file, Searched + 1 - L, L) <=> Begins(pattern, text, t - L, L)
    BY <1>8, <2>1, EndsHere
  <2>3. Cardinality(Occurrences(Searched + 1)) =
          IF Begins(pattern, file, Searched + 1 - L, L)
          THEN Cardinality(Occurrences(Searched)) + 1
          ELSE Cardinality(Occurrences(Searched))
    BY <1>1, <1>5, <2>1, OneMore
  <2> QED BY <1>4, <1>6, <1>8, <2>1, <2>2, <2>3
<1> QED BY <1>1, <1>7, <1>8

\* The counts hold where neither they nor what they are compared with change.
LEMMA SameCount ==
  ASSUME NeverOvercounts, CountsAll, UNCHANGED <<file, pattern, matched_times>>,
         pattern # <<>> => Occurrences(Searched') = Occurrences(Searched)
  PROVE  NeverOvercounts' /\ CountsAll'
<1>1. pattern # <<>> =>
        Cardinality(Occurrences(Searched))' = Cardinality(Occurrences(Searched))
  BY SamePlaces
<1>2. NextIsExact' <=> NextIsExact
  BY DEF NextIsExact
<1> QED BY <1>1, <1>2 DEF NeverOvercounts, CountsAll

-----------------------------------------------------------------------------
(* The invariant holds at first, and every step keeps it.                   *)

LEMMA InitIInv == Init => IInv
<1> SUFFICES ASSUME Init PROVE IInv
  OBVIOUS
<1>1. /\ file \in BoundedSeq(Alphabet, MaxFile) /\ pattern \in BoundedSeq(Alphabet, MaxPattern)
      /\ pc = "main" /\ read = 0 /\ text = <<>> /\ t = 1 /\ matched_len = 0
      /\ matched_times = 0
  BY DEF Init
<1>2. /\ MaxFile \in Nat /\ MaxPattern \in Nat /\ TEXT_SIZE \in Nat /\ 0 < TEXT_SIZE
      /\ text \in Seq(Alphabet) /\ Len(text) = 0
  BY <1>1, CountAssumption
<1>3. /\ file \in Seq(Alphabet) /\ Len(file) \in Nat
      /\ pattern \in Seq(Alphabet) /\ Len(pattern) \in Nat
  BY <1>1, <1>2, Bounded
<1>4. TypeOK
  BY <1>1, <1>2, <1>3 DEF TypeOK
<1>5. Base = 0
  <2>1. read = 0 /\ Len(text) = 0
    BY <1>1, <1>2
  <2> QED BY ONLY <2>1 DEF Base
<1>6. Placed
  <2>1. Len(text) = 0 /\ Base \in Nat
    BY <1>2, <1>5
  <2>2. \A j \in 1 .. Len(text) : text[j] = file[Base + j]
    BY ONLY <2>1
  <2>3. pc = "main" /\ read = 0 /\ text = <<>>
    BY <1>1
  <2>4. pc # "kmp_match" /\ pc # "done"
    BY <1>1
  <2> QED BY ONLY <2>1, <2>2, <2>3, <2>4, Zenon DEF Placed
<1>7. Matched /\ Longest
  BY <1>1 DEF Matched, Longest
<1>8. Searched = 0
  BY <1>1 DEF Searched
<1>9. pattern # <<>> => Cardinality(Occurrences(Searched)) = 0
  <2>1. pattern # <<>> => 0 < Len(pattern)
    BY <1>3, EmptySeq
  <2>2. pattern # <<>> => Occurrences(0) = {}
    BY <1>3, <2>1, NoneShort
  <2> QED BY <1>8, <2>2, FS_EmptySet
<1>10. NeverOvercounts /\ CountsAll
  BY <1>1, <1>9 DEF NeverOvercounts, CountsAll
<1> QED BY <1>4, <1>6, <1>7, <1>10 DEF IInv

\* main sees the end of the file.
LEMMA EndStep == IInv /\ EndOfFile => IInv'
<1> SUFFICES ASSUME IInv, EndOfFile PROVE IInv'
  OBVIOUS
<1>1. /\ pc = "main" /\ ReadNum = 0 /\ pc' = "done"
      /\ UNCHANGED <<file, pattern, read, text, t, matched_len, matched_times>>
  BY DEF EndOfFile
<1>2. TypeOK /\ Placed /\ NeverOvercounts /\ CountsAll
  BY DEF IInv
<1>3. TypeOK'
  BY <1>1, <1>2 DEF TypeOK
<1>4. pattern # <<>> => read = Len(file)
  <2> SUFFICES ASSUME pattern # <<>> PROVE read = Len(file)
    OBVIOUS
  <2>1. /\ Len(pattern) \in Nat /\ Len(pattern) # 0 /\ Len(pattern) <= MaxPattern
        /\ Len(text) \in Nat /\ read \in Nat /\ read <= Len(file) /\ Len(file) \in Nat
    BY <1>2, Types
  <2>2. TEXT_SIZE \in Nat /\ MaxPattern \in Nat /\ MaxPattern < TEXT_SIZE
    BY CountAssumption
  <2>3. Len(text) <= Len(pattern) - 1
    <3>1. Len(text) = 0 \/ Len(text) = Len(pattern) - 1
      BY <1>1, <1>2, EmptySeq DEF Placed
    <3> QED BY <2>1, <3>1
  <2>4. TEXT_SIZE - Len(text) - 1 > 0
    BY <2>1, <2>2, <2>3
  <2>5. 0 = IF Len(file) - read < TEXT_SIZE - Len(text) - 1
            THEN Len(file) - read ELSE TEXT_SIZE - Len(text) - 1
    BY <1>1 DEF ReadNum
  <2> QED BY <2>1, <2>2, <2>4, <2>5
<1>5. Placed'
  <2>1. Base' = Base
    BY <1>1 DEF Base
  <2> QED BY <1>1, <1>2, <1>4, <2>1 DEF Placed
<1>6. Matched' /\ Longest'
  BY <1>1 DEF Matched, Longest
<1>7. pattern # <<>> => Searched' = Searched
  <2>1. Searched = read /\ Searched' = Len(file')
    BY <1>1 DEF Searched
  <2> QED BY <1>1, <1>4, <2>1
<1>8. NeverOvercounts' /\ CountsAll'
  BY <1>1, <1>2, <1>7, SameCount
<1> QED BY <1>3, <1>5, <1>6, <1>8 DEF IInv

\* main reads a piece.
LEMMA ReadStep == IInv /\ ReadPiece => IInv'
<1> SUFFICES ASSUME IInv, ReadPiece PROVE IInv'
  OBVIOUS
<1> DEFINE n == ReadNum
           more == SubSeq(file, read + 1, read + n)
<1>1. /\ pc = "main" /\ n > 0 /\ text' = text \o more /\ read' = read + n
      /\ pc' = "kmp_match" /\ t' = 1 /\ matched_len' = 0
      /\ UNCHANGED <<file, pattern, matched_times>>
  BY DEF ReadPiece
<1>2. TypeOK /\ Placed /\ NeverOvercounts /\ CountsAll
  BY DEF IInv
<1>3. /\ file \in Seq(Alphabet) /\ pattern \in Seq(Alphabet) /\ text \in Seq(Alphabet)
      /\ Len(file) \in Nat /\ Len(pattern) \in Nat /\ Len(text) \in Nat
      /\ (pattern = <<>> <=> Len(pattern) = 0)
      /\ read \in Nat /\ read <= Len(file) /\ Base \in Nat
  BY <1>2, Types DEF Placed
<1>4. Base = read - Len(text)
  BY DEF Base
<1>5. TEXT_SIZE \in Nat /\ Len(text) < TEXT_SIZE
  BY <1>2, CountAssumption DEF TypeOK
<1>6. /\ n \in Nat /\ read + n <= Len(file) /\ Len(text) + n <= TEXT_SIZE - 1
      /\ (read + n = Len(file) \/ Len(text) + n = TEXT_SIZE - 1)
  <2>1. n = IF Len(file) - read < TEXT_SIZE - Len(text) - 1
            THEN Len(file) - read ELSE TEXT_SIZE - Len(text) - 1
    BY DEF ReadNum
  <2> HIDE DEF n
  <2> QED BY <1>3, <1>5, <2>1
<1> HIDE DEF n
<1>7. more \in Seq(Alphabet) /\ Len(more) = n /\ \A j \in 1 .. n : more[j] = file[read + j]
  <2> DEFINE lo == read + 1
             hi == read + n
  <2>1. lo \in Int /\ hi \in Int /\ \A j \in lo .. hi : file[j] \in Alphabet
    <3>1. \A j \in lo .. hi : j \in 1 .. Len(file)
      BY <1>3, <1>6
    <3> QED BY <1>3, <1>6, <3>1
  <2>2. lo <= hi /\ hi - lo + 1 = n /\ \A j \in 1 .. n : lo + j - 1 = read + j
    BY <1>1, <1>3, <1>6
  <2> HIDE DEF lo, hi
  <2>3. /\ SubSeq(file, lo, hi) \in Seq(Alphabet)
        /\ Len(SubSeq(file, lo, hi)) = IF lo <= hi THEN hi - lo + 1 ELSE 0
        /\ \A j \in 1 .. hi - lo + 1 : SubSeq(file, lo, hi)[j] = file[lo + j - 1]
    BY ONLY <2>1, SubSeqProperties
  <2>4. more = SubSeq(file, lo, hi)
    BY DEF lo, hi
  <2> HIDE DEF more
  <2> QED BY <2>2, <2>3, <2>4
<1> HIDE DEF more
<1>8. /\ text' \in Seq(Alphabet) /\ Len(text') = Len(text) + n
      /\ \A j \in 1 .. Len(text) + n :
           text'[j] = IF j <= Len(text) THEN text[j] ELSE more[j - Len(text)]
  BY <1>1, <1>3, <1>7, ConcatProperties
<1>9. Base' = Base
  BY <1>1, <1>3, <1>4, <1>6, <1>8 DEF Base
<1>10. TypeOK'
  <2>1. /\ file' \in BoundedSeq(Alphabet, MaxFile)
        /\ pattern' \in BoundedSeq(Alphabet, MaxPattern) /\ matched_times' \in Nat
    BY <1>1, <1>2 DEF TypeOK
  <2>2. read' \in 0 .. Len(file')
    BY <1>1, <1>3, <1>6
  <2>3. text' \in Seq(Alphabet) /\ Len(text') < TEXT_SIZE
    BY <1>5, <1>6, <1>8, <1>3
  <2>4. t' \in 1 .. Len(text') + 1
    BY <1>1, <1>3, <1>6, <1>8
  <2> QED BY <1>1, <2>1, <2>2, <2>3, <2>4 DEF TypeOK
<1>11. Placed'
  <2>1. ASSUME NEW j \in 1 .. Len(text) + n PROVE text'[j] = file[Base + j]
    <3>1. CASE j <= Len(text)
      <4>1. j \in 1 .. Len(text)
        BY <1>3, <1>6, <3>1
      <4>2. text'[j] = text[j] /\ text[j] = file[Base + j]
        BY <1>2, <1>8, <3>1, <4>1 DEF Placed
      <4> QED BY <4>2
    <3>2. CASE j > Len(text)
      <4>1. j - Len(text) \in 1 .. n /\ read + (j - Len(text)) = Base + j
        BY <1>3, <1>4, <1>6, <3>2
      <4>2. text'[j] = more[j - Len(text)]
        BY <1>3, <1>6, <1>8, <3>2
      <4>3. more[j - Len(text)] = file[read + (j - Len(text))]
        BY <1>7, <4>1
      <4> QED BY <4>1, <4>2, <4>3
    <3> QED BY <1>3, <1>6, <3>1, <3>2
  <2>2. Base = 0 \/ Len(text') >= Len(pattern)
    <3>1. (read = 0 /\ Len(text) = 0) \/ Len(text) = Len(pattern) - 1
      BY <1>1, <1>2, <1>3, EmptySeq DEF Placed
    <3> QED BY <1>1, <1>3, <1>4, <1>6, <1>8, <3>1
  <2>3. read' = Len(file') \/ Len(text') = TEXT_SIZE - 1
    BY <1>1, <1>6, <1>8
  <2>4. \A j \in 1 .. Len(text') : text'[j] = file'[Base' + j]
    BY <1>1, <1>8, <1>9, <2>1
  <2> QED BY <1>1, <1>3, <1>9, <2>2, <2>3, <2>4 DEF Placed
<1>12. Matched'
  BY <1>1 DEF Matched, Begins
<1>13. Longest'
  <2>1. \A k \in 0 + 1 .. Len(pattern') - 1 : ~ (k < 1)
    BY <1>1, <1>3
  <2> QED BY <1>1, <2>1 DEF Longest
<1>14. pattern # <<>> => Occurrences(Searched') = Occurrences(Searched)
  <2> SUFFICES ASSUME pattern # <<>>
               PROVE  Occurrences(Searched') = Occurrences(Searched)
    OBVIOUS
  <2>1. Searched = read
    BY <1>1 DEF Searched
  <2>2. Searched' = Base + (Len(pattern) - 1)
    <3>1. Searched' = read' - Len(text') + (IF 1 > Len(pattern) THEN 1 - 1 ELSE Len(pattern) - 1)
      BY <1>1 DEF Searched
    <3>2. read' - Len(text') = Base /\ ~ (1 > Len(pattern))
      BY <1>3, <1>9 DEF Base
    <3> QED BY <3>1, <3>2
  <2>3. CASE Len(text) = Len(pattern) - 1
    <3>1. Searched' = Searched
      BY <1>3, <1>4, <2>1, <2>2, <2>3
    <3> QED BY <3>1
  <2>4. CASE read = 0 /\ text = <<>>
    <3>1. Base = 0 /\ 0 < Len(pattern)
      <4>1. read = 0 /\ Len(text) = 0
        BY <2>4
      <4>2. Base = 0
        BY ONLY <1>4, <4>1
      <4> QED BY <1>3, <4>2
    <3>2. Searched < Len(pattern) /\ Searched' < Len(pattern) /\ Searched \in Int /\ Searched' \in Int
      BY <1>3, <2>1, <2>2, <2>4, <3>1
    <3> QED BY <1>3, <3>2, NoneShort
  <2> QED BY <1>1, <1>2, <2>3, <2>4 DEF Placed
<1>15. NeverOvercounts' /\ CountsAll'
  BY <1>1, <1>2, <1>14, SameCount
<1> QED BY <1>10, <1>11, <1>12, <1>13, <1>15 DEF IInv

\* A character differs.
LEMMA MismatchStep == IInv /\ Mismatch => IInv'
<1> SUFFICES ASSUME IInv, Mismatch PROVE IInv'
  OBVIOUS
<1> DEFINE m == matched_len
           n == gen_next(pattern)[m]
           L == Len(pattern)
<1>1. /\ pc = "kmp_match" /\ t <= Len(text) /\ ~SameChar
      /\ UNCHANGED <<file, pattern, pc, read, text, matched_times>>
  BY DEF Mismatch
<1>2. TypeOK /\ Placed /\ Matched /\ Longest /\ NeverOvercounts /\ CountsAll
  BY DEF IInv
<1>3. /\ pattern \in Seq(Alphabet) /\ L \in Nat /\ Len(text) \in Nat
      /\ t \in Nat /\ 1 <= t /\ m \in Nat /\ (m = 0 \/ m < L)
      /\ matched_times \in Nat
  BY <1>1, <1>2, Types
<1>4. m < t /\ Begins(pattern, text, t - 1 - m, m)
  BY <1>1, <1>2 DEF Matched
<1>5. pattern # <<>> => L >= 1 /\ text[t] # pattern[m + 1]
  <2>1. pattern # <<>> => L # 0
    BY <1>2, Types
  <2> QED BY <1>1, <1>3, <2>1 DEF SameChar
<1>6. Placed'
  <2>1. Base' = Base
    BY <1>1 DEF Base
  <2> QED BY <1>1, <1>2, <2>1 DEF Placed
<1>7. NextIsExact' <=> NextIsExact
  BY <1>1 DEF NextIsExact
<1>8. CASE m > 0 /\ m' = n /\ t' = t
  <2>1. m \in 1 .. L /\ m < L
    BY <1>3, <1>8
  <2>2. n \in 0 .. m - 1 /\ Begins(pattern, pattern, m - n, n)
    BY <1>3, <2>1, TableBorder
  <2> HIDE DEF n
  <2>3. TypeOK'
    <3>1. n \in Nat /\ n < L
      BY <1>3, <2>1, <2>2
    <3> QED BY <1>1, <1>2, <1>8, <3>1 DEF TypeOK
  <2>4. Matched'
    <3> DEFINE at == t - 1 - m
    <3>1. at \in Int /\ at + m - n = t - 1 - n /\ n < t /\ n \in 0 .. m
      BY <1>3, <1>4, <2>2
    <3>2. Begins(pattern, text, at, m)
      BY <1>4
    <3> HIDE DEF at, m, n
    <3>3. Begins(pattern, text, at + m - n, n)
      BY <1>3, <2>2, <3>1, <3>2, Falls
    <3>4. Begins(pattern, text, t - 1 - n, n)
      BY <3>1, <3>3
    <3> QED BY <1>1, <1>8, <3>1, <3>4 DEF Matched, m
  <2>5. Longest'
    <3> SUFFICES ASSUME NextIsExact, NEW k \in n + 1 .. L - 1, k < t,
                        Begins(pattern, text, t - 1 - k, k)
                 PROVE  text[t] # pattern[k + 1]
      BY <1>1, <1>7, <1>8 DEF Longest
    <3>1. k \in Nat /\ k >= 1
      BY <1>3, <2>2
    <3>2. CASE k > m
      <4>1. k \in m + 1 .. L - 1
        BY <1>3, <3>1, <3>2
      <4> QED BY <1>1, <1>2, <4>1 DEF Longest
    <3>3. CASE k = m
      BY <1>3, <1>5, <2>1, <3>3, EmptySeq
    <3>4. CASE k < m
      <4> DEFINE at == t - 1 - m
      <4>1. /\ at \in Int /\ at + m - k = t - 1 - k /\ k \in 0 .. m
            /\ k \in n + 1 .. m - 1
        BY <1>3, <2>2, <3>1, <3>4
      <4>2. Begins(pattern, text, at, m) /\ Begins(pattern, text, at + m - k, k)
        BY <1>4, <4>1
      <4> HIDE DEF at
      <4>3. Begins(pattern, pattern, m - k, k)
        BY <1>3, <4>1, <4>2, Rises
      <4>4. ~ Begins(pattern, pattern, m - k, k)
        BY <1>3, <2>1, <4>1, ExactTable DEF n
      <4> QED BY <4>3, <4>4
    <3> QED BY <1>3, <3>1, <3>2, <3>3, <3>4
  <2>6. Searched' = Searched
    BY <1>1, <1>8 DEF Searched
  <2>7. NeverOvercounts' /\ CountsAll'
    BY <1>1, <1>2, <2>6, SameCount
  <2> QED BY <1>6, <2>3, <2>4, <2>5, <2>7 DEF IInv
<1>9. CASE m = 0 /\ m' = 0 /\ t' = t + 1
  <2>1. TypeOK'
    <3>1. t' \in 1 .. Len(text') + 1 /\ t' \in Nat
      BY <1>1, <1>3, <1>9
    <3> QED BY <1>1, <1>2, <1>9, <3>1 DEF TypeOK
  <2>2. Matched'
    BY <1>3, <1>9 DEF Matched, Begins
  <2>3. ASSUME NextIsExact, NEW k \in 1 .. L, k <= t, Begins(pattern, text, t - k, k)
        PROVE  FALSE
    <3>1. text[t] = pattern[k] /\ k <= 0 + 1
      BY <1>1, <1>2, <1>9, <2>3, Consumed
    <3>2. k = 1 /\ pattern # <<>>
      BY <1>3, <3>1, EmptySeq
    <3> QED BY <1>5, <1>9, <3>1, <3>2
  <2>4. Longest'
    <3> SUFFICES ASSUME NextIsExact', NEW k \in matched_len' + 1 .. Len(pattern') - 1,
                        k < t', Begins(pattern', text', t' - 1 - k, k)
                 PROVE  FALSE
      BY DEF Longest
    <3>1. k \in 1 .. L /\ k <= t /\ t' - 1 - k = t - k
      BY <1>1, <1>3, <1>9
    <3>2. Begins(pattern, text, t - k, k)
      BY <1>1, <3>1
    <3> QED BY <1>7, <2>3, <3>1, <3>2
  <2>5. NeverOvercounts' /\ CountsAll'
    <3>1. CASE pattern = <<>>
      BY <1>1, <3>1 DEF NeverOvercounts, CountsAll
    <3>2. CASE pattern # <<>>
      <4> DEFINE c == Cardinality(Occurrences(Searched))
      <4>1. /\ c \in Nat
            /\ c' = IF t >= L /\ Begins(pattern, text, t - L, L) THEN c + 1 ELSE c
        BY <1>1, <1>2, <1>9, <3>2, Passed
      <4>2. NextIsExact => ~ (t >= L /\ Begins(pattern, text, t - L, L))
        BY <1>3, <1>5, <2>3, <3>2
      <4>3. matched_times <= c /\ (NextIsExact => matched_times = c)
        BY <1>2, <3>2 DEF NeverOvercounts, CountsAll
      <4> HIDE DEF c
      <4>4. matched_times <= c' /\ (NextIsExact => matched_times = c')
        BY <1>3, <4>1, <4>2, <4>3
      <4> QED BY <1>1, <1>7, <4>4 DEF NeverOvercounts, CountsAll, c
    <3> QED BY <3>1, <3>2
  <2> QED BY <1>6, <2>1, <2>2, <2>4, <2>5 DEF IInv
<1> QED BY <1>8, <1>9 DEF Mismatch

\* A character is the same.
LEMMA MatchStep == IInv /\ Match => IInv'
<1> SUFFICES ASSUME IInv, Match PROVE IInv'
  OBVIOUS
<1> DEFINE m == matched_len
           L == Len(pattern)
           n == gen_next(pattern)[L]
           c == Cardinality(Occurrences(Searched))
           Ends == t >= L /\ Begins(pattern, text, t - L, L)
<1>1. /\ pc = "kmp_match" /\ t <= Len(text) /\ t' = t + 1
      /\ pattern # <<>> /\ text[t] = pattern[m + 1]
      /\ UNCHANGED <<file, pattern, pc, read, text>>
  BY DEF Match, SameChar
<1>2. TypeOK /\ Placed /\ Matched /\ Longest /\ NeverOvercounts /\ CountsAll
  BY DEF IInv
<1>3. /\ pattern \in Seq(Alphabet) /\ L \in Nat /\ L >= 1 /\ Len(text) \in Nat
      /\ t \in Nat /\ 1 <= t /\ m \in Nat /\ m < L /\ matched_times \in Nat
  <2>1. L # 0
    BY <1>1, <1>2, Types
  <2> QED BY <1>1, <1>2, <2>1, Types
<1>4. m < t /\ Begins(pattern, text, t - 1 - m, m)
  BY <1>1, <1>2 DEF Matched
<1>5. Begins(pattern, text, t - 1 - m, m + 1)
  <2>1. ASSUME NEW j \in 1 .. m + 1 PROVE text[t - 1 - m + j] = pattern[j]
    <3>1. CASE j = m + 1
      <4>1. t - 1 - m + j = t
        BY <1>3, <3>1
      <4> QED BY <1>1, <3>1, <4>1
    <3>2. CASE j # m + 1
      <4>1. j \in 1 .. m
        BY <1>3, <3>2
      <4> QED BY <1>4, <4>1 DEF Begins
    <3> QED BY <3>1, <3>2
  <2> QED BY <2>1 DEF Begins
<1>6. Placed'
  <2>1. Base' = Base
    BY <1>1 DEF Base
  <2> QED BY <1>1, <1>2, <2>1 DEF Placed
<1>7. NextIsExact' <=> NextIsExact
  BY <1>1 DEF NextIsExact
<1>8. c \in Nat /\ c' = IF Ends THEN c + 1 ELSE c
  BY <1>1, <1>2, Passed
<1>9. matched_times <= c /\ (NextIsExact => matched_times = c)
  BY <1>1, <1>2 DEF NeverOvercounts, CountsAll
<1>10. t' \in Nat /\ t' \in 1 .. Len(text') + 1
  BY <1>1, <1>3
<1>11. ASSUME NextIsExact, NEW k \in 1 .. L, k <= t, Begins(pattern, text, t - k, k)
       PROVE  k <= m + 1
  BY <1>1, <1>2, <1>11, Consumed
<1>12. ASSUME NEW k \in matched_len' + 1 .. Len(pattern') - 1, k < t',
              Begins(pattern', text', t' - 1 - k, k), matched_len' \in Nat
       PROVE  k \in 1 .. L /\ k < L /\ k <= t /\ Begins(pattern, text, t - k, k)
  <2>1. k \in 1 .. L /\ k < L /\ k <= t /\ t' - 1 - k = t - k
    <3>1. Len(pattern') = L /\ t' = t + 1 /\ matched_len' \in Nat
      BY <1>1, <1>12
    <3>2. k \in matched_len' + 1 .. L - 1 /\ k < t + 1
      BY <1>12, <3>1
    <3> DEFINE lo == matched_len'
    <3>3. lo \in Nat /\ L \in Nat /\ k \in lo + 1 .. L - 1
      BY <1>3, <3>1, <3>2
    <3> HIDE DEF L, lo
    <3>4. k \in Nat /\ k >= 1 /\ k <= L - 1
      BY ONLY <3>3
    <3> QED BY <1>3, <3>1, <3>2, <3>4
  <2>2. Begins(pattern, text, t - k, k)
    BY <1>1, <1>12, <2>1
  <2> QED BY <2>1, <2>2
<1>13. CASE m + 1 < L /\ m' = m + 1 /\ matched_times' = matched_times
  <2>1. TypeOK'
    BY <1>1, <1>2, <1>3, <1>10, <1>13 DEF TypeOK
  <2>2. Matched'
    <3>1. m' < t' /\ t' - 1 - m' = t - 1 - m
      BY <1>1, <1>3, <1>4, <1>13
    <3>2. Begins(pattern', text', t' - 1 - m', m')
      BY <1>1, <1>5, <1>13, <3>1
    <3> QED BY <3>1, <3>2 DEF Matched
  <2>3. Longest'
    <3> SUFFICES ASSUME NextIsExact', NEW k \in matched_len' + 1 .. Len(pattern') - 1,
                        k < t', Begins(pattern', text', t' - 1 - k, k)
                 PROVE  FALSE
      BY DEF Longest
    <3>1. k <= m + 1
      BY <1>3, <1>7, <1>11, <1>12, <1>13
    <3> QED BY <1>3, <1>13, <3>1
  <2>4. NextIsExact => ~ Ends
    <3>1. L \in 1 .. L /\ ~ (L <= m + 1)
      BY <1>3, <1>13
    <3> QED BY <1>11, <3>1, <1>3
  <2>5. matched_times' <= c' /\ (NextIsExact => matched_times' = c')
    <3> HIDE DEF c, Ends
    <3> QED BY <1>3, <1>8, <1>9, <1>13, <2>4
  <2>6. NeverOvercounts' /\ CountsAll'
    BY <1>7, <2>5 DEF NeverOvercounts, CountsAll
  <2> QED BY <1>6, <2>1, <2>2, <2>3, <2>6 DEF IInv
<1>14. CASE m + 1 = L /\ m' = n /\ matched_times' = matched_times + 1
  <2>1. L \in 1 .. L /\ L <= t /\ t - 1 - m = t - L
    BY <1>3, <1>4, <1>14
  <2>2. Begins(pattern, text, t - L, L)
    BY <1>5, <1>14, <2>1
  <2>3. n \in 0 .. L - 1 /\ Begins(pattern, pattern, L - n, n)
    BY <1>3, <2>1, TableBorder
  <2> HIDE DEF n
  <2>4. TypeOK'
    <3>1. n \in Nat /\ n < L /\ matched_times + 1 \in Nat
      BY <1>3, <2>3
    <3> QED BY <1>1, <1>2, <1>10, <1>14, <3>1 DEF TypeOK
  <2>5. Matched'
    <3> DEFINE at == t - L
    <3>1. /\ at \in Int /\ at + L - n = t - n /\ n \in 0 .. L
          /\ m' < t' /\ t' - 1 - m' = t - n
      BY <1>1, <1>3, <1>14, <2>1, <2>3
    <3>2. Begins(pattern, text, at, L)
      BY <2>2
    <3> HIDE DEF at
    <3>3. Begins(pattern, text, at + L - n, n)
      BY <1>3, <2>3, <3>1, <3>2, Falls
    <3>4. Begins(pattern', text', t' - 1 - m', m')
      BY <1>1, <1>14, <3>1, <3>3
    <3> QED BY <3>1, <3>4 DEF Matched
  <2>6. Longest'
    <3> SUFFICES ASSUME NextIsExact', NEW k \in matched_len' + 1 .. Len(pattern') - 1,
                        k < t', Begins(pattern', text', t' - 1 - k, k)
                 PROVE  FALSE
      BY DEF Longest
    <3>1. k \in 1 .. L /\ k < L /\ k <= t /\ Begins(pattern, text, t - k, k)
      <4>1. matched_len' \in Nat
        BY <1>14, <2>3
      <4> QED BY <1>12, <4>1
    <3> DEFINE at == t - L
    <3>2. /\ at \in Int /\ at + L - k = t - k /\ k \in 0 .. L /\ k \in n + 1 .. L - 1
      BY <1>1, <1>3, <1>14, <2>3, <3>1
    <3>3. Begins(pattern, text, at, L) /\ Begins(pattern, text, at + L - k, k)
      BY <2>2, <3>1, <3>2
    <3> HIDE DEF at
    <3>4. Begins(pattern, pattern, L - k, k)
      BY <1>3, <3>2, <3>3, Rises
    <3>5. ~ Begins(pattern, pattern, L - k, k)
      BY <1>3, <1>7, <2>1, <3>2, ExactTable DEF n
    <3> QED BY <3>4, <3>5
  <2>7. c' = c + 1
    <3>1. Ends
      BY <1>3, <2>1, <2>2
    <3> QED BY <1>8, <3>1
  <2>8. matched_times' <= c' /\ (NextIsExact => matched_times' = c')
    <3> HIDE DEF c
    <3> QED BY <1>3, <1>8, <1>9, <1>14, <2>7
  <2>9. NeverOvercounts' /\ CountsAll'
    BY <1>7, <2>8 DEF NeverOvercounts, CountsAll
  <2> QED BY <1>6, <2>4, <2>5, <2>6, <2>9 DEF IInv
<1> QED BY <1>13, <1>14 DEF Match

\* The search of a piece ends.
LEMMA ReturnStep == IInv /\ Return => IInv'
<1> SUFFICES ASSUME IInv, Return PROVE IInv'
  OBVIOUS
<1> DEFINE L == Len(pattern)
<1>1. /\ pc = "kmp_match" /\ t > Len(text)
      /\ UNCHANGED <<file, pattern, read, t, matched_len, matched_times>>
  BY DEF Return
<1>2. TypeOK /\ Placed /\ NeverOvercounts /\ CountsAll
  BY DEF IInv
<1>3. /\ pattern \in Seq(Alphabet) /\ text \in Seq(Alphabet)
      /\ L \in Nat /\ Len(text) \in Nat /\ Len(file) \in Nat /\ read \in Nat
      /\ (pattern = <<>> <=> L = 0) /\ L <= MaxPattern
      /\ t = Len(text) + 1 /\ Base \in Nat /\ read <= Len(file)
  <2>1. t \in Nat /\ t <= Len(text) + 1 /\ Len(text) \in Nat
    BY <1>1, <1>2, Types
  <2>2. t = Len(text) + 1
    BY <1>1, <2>1
  <2> QED BY <1>2, <2>2, Types DEF Placed
<1>4. Base = read - Len(text)
  BY DEF Base
<1>5. Searched = Base + (IF t > L THEN t - 1 ELSE L - 1)
  BY <1>1, <1>4 DEF Searched
<1>6. TEXT_SIZE \in Nat /\ MaxPattern \in Nat /\ MaxPattern < TEXT_SIZE /\ Len(text) < TEXT_SIZE
  BY <1>2, CountAssumption DEF TypeOK
<1>7. pc' # "kmp_match"
  BY DEF Return
<1>8. Matched' /\ Longest'
  BY <1>7 DEF Matched, Longest
<1>9. CASE (Len(text) < L - 1 \/ pattern = <<>>) /\ pc' = "done" /\ text' = text
  <2>1. TypeOK'
    BY <1>1, <1>2, <1>9 DEF TypeOK
  <2>2. ASSUME pattern # <<>>
        PROVE  Base = 0 /\ read = Len(file) /\ Len(text) < L - 1
    <3>1. Len(text) < L - 1
      BY <1>9, <2>2
    <3>2. ~ (Len(text) >= L) /\ Len(text) # TEXT_SIZE - 1
      BY <1>3, <1>6, <3>1
    <3> QED BY <1>1, <1>2, <3>1, <3>2 DEF Placed
  <2>3. Placed'
    <3>1. Base' = Base
      BY <1>1, <1>9 DEF Base
    <3> QED BY <1>1, <1>2, <1>9, <2>2, <3>1 DEF Placed
  <2>4. pattern # <<>> => Occurrences(Searched') = Occurrences(Searched)
    <3> SUFFICES ASSUME pattern # <<>>
                 PROVE  Occurrences(Searched') = Occurrences(Searched)
      OBVIOUS
    <3>1. Searched' = Len(file)
      BY <1>1, <1>9 DEF Searched
    <3>2. Searched' \in Int /\ Searched' < L
      BY <1>3, <1>4, <2>2, <3>1
    <3>3. Searched = L - 1
      BY <1>3, <1>5, <2>2
    <3>4. Searched \in Int /\ Searched < L
      BY <1>3, <3>3
    <3> QED BY <1>3, <3>2, <3>4, NoneShort
  <2>5. NeverOvercounts' /\ CountsAll'
    BY <1>1, <1>2, <2>4, SameCount
  <2> QED BY <1>8, <2>1, <2>3, <2>5 DEF IInv
<1>10. CASE /\ Len(text) >= L - 1 /\ pattern # <<>> /\ pc' = "main"
            /\ text' = SubSeq(text, Len(text) - Left + 1, Len(text))
  <2> DEFINE lo == Len(text) - (L - 1) + 1
             hi == Len(text)
  <2>1. text' = SubSeq(text, lo, hi)
    BY <1>10 DEF Left
  <2>2. /\ lo \in Int /\ hi \in Int /\ L >= 1 /\ lo >= 1 /\ hi - lo + 1 = L - 1
        /\ (lo <= hi <=> L - 1 # 0)
    <3>1. L \in Nat /\ L >= 1 /\ Len(text) \in Nat /\ Len(text) >= L - 1
      <4>1. L # 0
        BY <1>3, <1>10
      <4> QED BY <1>3, <1>10, <4>1
    <3> DEFINE len == Len(text)
    <3> HIDE DEF L, len
    <3> QED BY <3>1 DEF len
  <2>3. \A j \in lo .. hi : text[j] \in Alphabet
    <3>1. \A j \in lo .. hi : j \in 1 .. Len(text)
      BY <1>3, <2>2
    <3> QED BY <1>3, <3>1
  <2>4. \A j \in 1 .. L - 1 : lo + j - 1 = Len(text) - (L - 1) + j
    BY <1>3
  <2> HIDE DEF lo, hi
  <2>5. /\ SubSeq(text, lo, hi) \in Seq(Alphabet)
        /\ Len(SubSeq(text, lo, hi)) = IF lo <= hi THEN hi - lo + 1 ELSE 0
        /\ \A j \in 1 .. hi - lo + 1 : SubSeq(text, lo, hi)[j] = text[lo + j - 1]
    BY ONLY <2>2, <2>3, SubSeqProperties
  <2>6. /\ text' \in Seq(Alphabet) /\ Len(text') = L - 1
        /\ \A j \in 1 .. L - 1 : text'[j] = text[Len(text) - (L - 1) + j]
    <3> HIDE DEF L
    <3> QED BY <2>1, <2>2, <2>4, <2>5
  <2>7. TypeOK'
    <3>1. Len(text') < TEXT_SIZE
      BY <1>3, <1>6, <1>10, <2>6
    <3> QED BY <1>1, <1>2, <1>10, <2>6, <3>1 DEF TypeOK
  <2>8. Base' = read - (L - 1) /\ Base' = Base + (Len(text) - (L - 1)) /\ Base' \in Nat
    <3>1. Base' = read - (L - 1)
      BY <1>1, <2>6 DEF Base
    <3> QED BY <1>3, <1>4, <1>10, <3>1
  <2>9. Placed'
    <3>1. ASSUME NEW j \in 1 .. L - 1 PROVE text'[j] = file[Base' + j]
      <4>1. /\ Len(text) - (L - 1) + j \in 1 .. Len(text)
            /\ Base + (Len(text) - (L - 1) + j) = Base' + j
        BY <1>3, <1>10, <2>8
      <4>2. text[Len(text) - (L - 1) + j] = file[Base + (Len(text) - (L - 1) + j)]
        BY <1>2, <4>1 DEF Placed
      <4> QED BY <2>6, <4>1, <4>2
    <3>2. \A j \in 1 .. Len(text') : text'[j] = file'[Base' + j]
      BY <1>1, <2>6, <3>1
    <3> QED BY <1>1, <1>10, <2>6, <2>8, <3>2 DEF Placed
  <2>10. Searched' = Searched
    <3>1. Searched' = read
      BY <1>1, <1>10 DEF Searched
    <3>2. (IF t > L THEN t - 1 ELSE L - 1) = Len(text)
      BY <1>3, <1>10
    <3>3. Searched = Base + Len(text)
      BY <1>5, <3>2
    <3> QED BY <1>3, <1>4, <3>1, <3>3
  <2>11. NeverOvercounts' /\ CountsAll'
    BY <1>1, <1>2, <2>10, SameCount
  <2> QED BY <1>8, <2>7, <2>9, <2>11 DEF IInv
<1> QED BY <1>9, <1>10 DEF Return

\* Nothing happens.
LEMMA Stutters == IInv /\ UNCHANGED vars => IInv'
<1> SUFFICES ASSUME IInv, UNCHANGED vars PROVE IInv'
  OBVIOUS
<1>1. /\ TypeOK /\ Placed /\ Matched /\ Longest /\ NeverOvercounts /\ CountsAll
      /\ UNCHANGED <<file, pattern, pc, read, text, t, matched_len, matched_times>>
  BY DEF IInv, vars
<1>2. TypeOK'
  BY <1>1 DEF TypeOK
<1>3. Base' = Base /\ Searched' = Searched
  BY <1>1 DEF Base, Searched
<1>4. Placed'
  BY <1>1, <1>3 DEF Placed
<1>5. NextIsExact' <=> NextIsExact
  BY <1>1 DEF NextIsExact
<1>6. Matched' /\ Longest'
  BY <1>1, <1>5 DEF Matched, Longest
<1>7. NeverOvercounts' /\ CountsAll'
  BY <1>1, <1>3, SameCount
<1> QED BY <1>2, <1>4, <1>6, <1>7 DEF IInv

-----------------------------------------------------------------------------
(* The theorems.                                                            *)

\* The invariant is inductive (main and kmp_match).
THEOREM Inductive == Spec => []IInv
<1>1. IInv /\ [Next]_vars => IInv'
  BY EndStep, ReadStep, MismatchStep, MatchStep, ReturnStep, Stutters DEF Next
<1> QED BY <1>1, InitIInv, PTL DEF Spec

\* Every variable keeps its type and the buffer never overflows, whatever its
\* size (the fread of main).
THEOREM TypeCorrect == Spec => []TypeOK
<1>1. IInv => TypeOK
  BY DEF IInv
<1> QED BY <1>1, Inductive, PTL

\* No place is counted twice and none that is no match, in any file and for any
\* pattern (kmp_match, and what main carries over).
THEOREM NoneTwice == Spec => []NeverOvercounts
<1>1. IInv => NeverOvercounts
  BY DEF IInv
<1> QED BY <1>1, Inductive, PTL

\* None is missed if the table of the pattern is exact (kmp_match, and what main
\* carries over).
THEOREM NoneMissed == Spec => []CountsAll
<1>1. IInv => CountsAll
  BY DEF IInv
<1> QED BY <1>1, Inductive, PTL
=============================================================================

----------------------------- MODULE CountMatches -----------------------------
(***************************************************************************)
(* The program of src/lab1: it counts the places of a file where a pattern *)
(* occurs, reading the file piece by piece into a buffer of TEXT_SIZE      *)
(* characters and carrying the end of a piece over to the next.  A step is *)
(* a read of main, a turn of the loop of kmp_match, or its return.         *)
(*                                                                         *)
(* The pattern is at most half as long as the buffer: with a longer one    *)
(* strncpy copies between overlapping parts of it, which C leaves          *)
(* undefined.  (In the last piece, which may be short, they overlap for    *)
(* any pattern, but what is carried over from it is not used.)  No         *)
(* character of the file is zero: zero ends a string.                      *)
(***************************************************************************)
EXTENDS Integers, Sequences, SequencesExt, FiniteSets

CONSTANTS
  Alphabet,
  TEXT_SIZE,     \* sizeof(text), 100 in the code
  MaxPattern,    \* bound: length of a pattern
  MaxFile        \* bound: length of a file

ASSUME CountAssumption ==
  /\ TEXT_SIZE \in Nat /\ MaxPattern \in Nat /\ MaxFile \in Nat
  /\ MaxPattern < TEXT_SIZE /\ 2 * (MaxPattern - 1) < TEXT_SIZE

VARIABLES
  file, pattern,
  pc,             \* in which function the program is: "main", "kmp_match", "done"
  read,           \* characters of the file that were read: cnt
  text,           \* the buffer up to its terminating zero
  t,              \* kmp_match: the place of text that is compared next
  matched_len,    \* kmp_match: the places before t that match the pattern
  matched_times

vars == <<file, pattern, pc, read, text, t, matched_len, matched_times>>

----------------------------------------------------------------------------
\* Fault: the comparison is with the character before.
gen_next_behind(p) ==
  LET next[i \in 0 .. Len(p)] ==
        IF i < 2 THEN 0
        ELSE IF next[i - 1] > 0 /\ p[i] = p[next[i - 1]] THEN next[i - 1] + 1
        ELSE IF p[i] = p[1] THEN 1 ELSE 0
  IN next

\* next[i] is a length at which the first i characters start again at their
\* end.  A mismatch sets it to zero, without trying shorter ones.
gen_next(p) ==
  LET next[i \in 0 .. Len(p)] ==
        IF i < 2 THEN 0
        ELSE IF p[i] = p[next[i - 1] + 1] THEN next[i - 1] + 1 ELSE 0
  IN next

----------------------------------------------------------------------------
Init ==
  /\ file \in BoundedSeq(Alphabet, MaxFile)
  /\ pattern \in BoundedSeq(Alphabet, MaxPattern)
  /\ pc = "main" /\ read = 0 /\ text = <<>>
  /\ t = 1 /\ matched_len = 0 /\ matched_times = 0

\* Fault: no room is left for the terminating zero.
ReadNum_unterminated ==
  LET room == TEXT_SIZE - Len(text)
  IN IF Len(file) - read < room THEN Len(file) - read ELSE room

\* fread fills what the carried characters leave of the buffer, but for its
\* terminating zero.
ReadNum ==
  LET room == TEXT_SIZE - Len(text) - 1
  IN IF Len(file) - read < room THEN Len(file) - read ELSE room

EndOfFile ==
  /\ pc = "main" /\ ReadNum = 0
  /\ pc' = "done"
  /\ UNCHANGED <<file, pattern, read, text, t, matched_len, matched_times>>

\* A piece is read, and kmp_match starts on it.
ReadPiece ==
  /\ pc = "main" /\ ReadNum > 0
  /\ text' = text \o SubSeq(file, read + 1, read + ReadNum)
  /\ read' = read + ReadNum
  /\ pc' = "kmp_match" /\ t' = 1 /\ matched_len' = 0
  /\ UNCHANGED <<file, pattern, matched_times>>

\* The character at t is the pattern's next one, which an empty pattern has not.
SameChar == pattern /= <<>> /\ text[t] = pattern[matched_len + 1]

\* cur_head moves up to where the pattern may begin, at worst beyond t.
Mismatch ==
  /\ pc = "kmp_match" /\ t <= Len(text) /\ ~SameChar
  /\ \/ matched_len > 0 /\ matched_len' = gen_next(pattern)[matched_len] /\ t' = t
     \/ matched_len = 0 /\ matched_len' = 0 /\ t' = t + 1
  /\ UNCHANGED <<file, pattern, pc, read, text, matched_times>>

Match ==
  /\ pc = "kmp_match" /\ t <= Len(text) /\ SameChar
  /\ t' = t + 1
  /\ \/ /\ matched_len + 1 < Len(pattern)
        /\ matched_len' = matched_len + 1
        /\ UNCHANGED matched_times
     \/ /\ matched_len + 1 = Len(pattern)
        /\ matched_len' = gen_next(pattern)[Len(pattern)]
        /\ matched_times' = matched_times + 1
  /\ UNCHANGED <<file, pattern, pc, read, text>>

\* Fault: one character too few is carried over.
Left_short == IF Len(pattern) > 1 THEN Len(pattern) - 2 ELSE 0

\* The characters carried over: the longest part of a match that may have
\* begun.
Left == Len(pattern) - 1

\* kmp_match returns.  The loop of main ends when the piece was too short to
\* hold a match; so it does when the pattern is empty, strlen(pattern)-1 being
\* unsigned.
Return ==
  /\ pc = "kmp_match" /\ t > Len(text)
  /\ \/ /\ Len(text) < Len(pattern) - 1 \/ pattern = <<>>
        /\ pc' = "done" /\ UNCHANGED text
     \/ /\ Len(text) >= Len(pattern) - 1 /\ pattern /= <<>>
        /\ pc' = "main" /\ text' = SubSeq(text, Len(text) - Left + 1, Len(text))
  /\ UNCHANGED <<file, pattern, read, t, matched_len, matched_times>>

Next == EndOfFile \/ ReadPiece \/ Mismatch \/ Match \/ Return

Spec == Init /\ [][Next]_vars

----------------------------------------------------------------------------
\* Properties

\* Where the pattern occurs in the first n characters of the file.
Occurrences(n) ==
  {i \in 1 .. n - Len(pattern) + 1 : SubSeq(file, i, i + Len(pattern) - 1) = pattern}

\* The characters of the file the search has passed: those before t, those that
\* were carried over, which are fewer than the pattern has, and at the end all.
Searched ==
  CASE pc = "main" -> read
    [] pc = "kmp_match" ->
         read - Len(text) + (IF t > Len(pattern) THEN t - 1 ELSE Len(pattern) - 1)
    [] pc = "done" -> Len(file)

\* The table misses no length at which the first i characters start again at
\* their end.
NextIsExact ==
  \A i \in 1 .. Len(pattern) : \A k \in gen_next(pattern)[i] + 1 .. i - 1 :
    SubSeq(pattern, 1, k) /= SubSeq(pattern, i - k + 1, i)

\* Every variable keeps its type, the buffer never overflows and the search
\* stays in it and in the pattern.
TypeOK ==
  /\ file \in BoundedSeq(Alphabet, MaxFile) /\ pattern \in BoundedSeq(Alphabet, MaxPattern)
  /\ pc \in {"main", "kmp_match", "done"}
  /\ read \in 0 .. Len(file) /\ matched_times \in Nat
  /\ text \in Seq(Alphabet) /\ Len(text) < TEXT_SIZE
  /\ t \in Nat /\ (pc = "kmp_match" => t \in 1 .. Len(text) + 1)
  /\ matched_len \in Nat /\ (matched_len = 0 \/ matched_len < Len(pattern))

\* No place is counted twice and none that is no match, whatever the pattern:
\* not in one piece (kmp_match) and not where two pieces meet (main).
NeverOvercounts ==
  pattern /= <<>> => matched_times <= Cardinality(Occurrences(Searched))

\* Every place the search has passed is counted, also where two pieces meet, if
\* the table holds the longest lengths; gen_next misses them for patterns such
\* as "abaa".
CountsAll ==
  NextIsExact /\ pattern /= <<>> => matched_times = Cardinality(Occurrences(Searched))
====

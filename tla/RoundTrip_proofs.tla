--------------------------- MODULE RoundTrip_proofs ---------------------------
(***************************************************************************)
(* What RoundTrip says of the estimates, for every set of packages, every  *)
(* time that may pass, and any number of samples.                          *)
(***************************************************************************)
EXTENDS RoundTrip, WellFoundedInduction, TLAPS

\* The clock is past every send, in final past the last one by the millisecond
\* the daemon sleeps, and no sample is longer than the longest an ack took.
ClockInv ==
  /\ \A p \in Packages : sent[p] <= now
  /\ Hundredth <= longest
  /\ Elapsed <= longest
  /\ version = "final" =>
       \A p \in Packages : sent[p] # NotSent => sent[p] <= SendTime /\ SendTime < now

\* A record was never used, or says when the package of its number was sent.
RecordInv ==
  \A i \in 0 .. Records - 1 :
    \/ record_buf[i].seq = 0 /\ record_buf[i].start = 0
    \/ \E q \in Packages : /\ record_buf[i].seq = Number(q)
                            /\ sent[q] # NotSent
                            /\ record_buf[i].start = sent[q]

\* The estimates lie between the samples.  That of the deviation needs a bound
\* of its own for RTO to have one.
EstimateInv ==
  /\ version = "final" => scale <= RTT /\ RTT <= longest * scale /\ DEV <= longest * scale
  /\ version = "proj1" => /\ RTT > -(Second * scale)
                          /\ stray \/ RTT <= longest * scale
                          /\ RTT <= now * scale

IInv == TypeOK /\ ClockInv /\ RecordInv /\ EstimateInv /\ CutBelowSecond

-----------------------------------------------------------------------------
(* Arithmetic.                                                             *)

\* A product of integers grows with a factor.
LEMMA Grows ==
  ASSUME NEW a \in Int, NEW b \in Int, NEW c \in Nat, a <= b
  PROVE  a * c <= b * c
  BY SMT

\* Counting x in units of d drops less than a d of it.
LEMMA Units ==
  ASSUME NEW x \in Nat, NEW d \in Nat \ {0}
  PROVE  /\ x \div d \in Nat
         /\ (x \div d) * d <= x
         /\ x < (x \div d) * d + d
  BY SMT

\* The .01 s of the code is at least a millisecond.
LEMMA HundredthOK == Hundredth \in Nat /\ Hundredth >= 1
  BY RoundTripAssumption, SMT DEF RoundTripAssumption, Hundredth

\* abs drops less than a second of a deviation.
LEMMA AbsCuts ==
  ASSUME NEW x \in Int, scale \in Nat \ {0}
  PROVE  /\ abs(x) \in Nat /\ Magnitude(x) \in Nat
         /\ abs(x) <= Magnitude(x)
         /\ Magnitude(x) < abs(x) + Second * scale
<1> DEFINE m == Magnitude(x)
           d == Second * scale
           q == m \div d
<1>1. Second \in Nat \ {0}
  BY RoundTripAssumption DEF RoundTripAssumption
<1>2. m \in Nat
  BY DEF Magnitude
<1>3. d \in Nat \ {0}
  BY <1>1, SMT
<1>4. q \in Nat /\ q * d <= m /\ m < q * d + d
  <2> HIDE DEF m, d
  <2> QED BY <1>2, <1>3, Units
<1>5. abs(x) = q * d
  <2>1. abs(x) = (q * Second) * scale
    BY DEF abs
  <2> HIDE DEF q
  <2> QED BY <2>1, <1>1, <1>4, SMT
<1>6. q * d \in Nat
  <2> HIDE DEF q, d
  <2> QED BY <1>3, <1>4, SMT
<1> HIDE DEF q, d, m
<1>7. /\ abs(x) \in Nat /\ m \in Nat
      /\ abs(x) <= m /\ m < abs(x) + d
  BY <1>2, <1>3, <1>4, <1>5, <1>6, SMT
<1> QED BY <1>7 DEF m, d

\* The old estimates are no larger, over the scale, when longest has grown.
LEMMA LongestGrows ==
  ASSUME NEW l \in Nat, longest \in Nat, longest <= l, scale \in Nat
  PROVE  /\ longest * scale \in Nat /\ l * scale \in Nat
         /\ longest * scale <= l * scale
<1>1. longest * scale <= l * scale
  BY Grows
<1>2. longest * scale \in Nat /\ l * scale \in Nat
  BY SMT
<1> QED BY <1>1, <1>2

-----------------------------------------------------------------------------
(* The initial states.                                                     *)

LEMMA InitIInv == Init => IInv
<1> SUFFICES ASSUME Init PROVE IInv
  OBVIOUS
<1> USE DEF Init
<1>1. Hundredth \in Nat /\ Hundredth >= 1
  BY HundredthOK
<1>2. Epoch \in Nat /\ Second \in Nat /\ Second >= 1 /\ Records \in Nat \ {0}
  BY RoundTripAssumption, SMT DEF RoundTripAssumption
<1>3. TypeOK
  <2>1. 0 \in 0 .. Records - 1
    BY <1>2
  <2>2. record_buf \in [0 .. Records - 1 -> [seq : {0} \cup Numbers, start : Nat]]
    OBVIOUS
  <2>3. RTT \in Nat
    BY <1>1
  <2>4. sent \in [Packages -> Nat \cup {NotSent}]
    OBVIOUS
  <2>5. now \in Nat /\ longest \in Nat /\ 1 \in Nat \ {0} /\ RTT \in Int
    BY <1>1, <1>2, <2>3
  <2> QED BY <2>1, <2>2, <2>3, <2>4, <2>5, Zenon DEF TypeOK
<1>4. ClockInv
  BY <1>1, <1>2, SMT DEF ClockInv, NotSent
<1>5. RecordInv
  BY DEF RecordInv
<1>6. longest * scale = Hundredth /\ Second * scale = Second /\ now * scale = Epoch
  BY <1>1, <1>2, SMT
<1>7. EstimateInv
  BY <1>1, <1>2, <1>6, SMT DEF EstimateInv
<1>8. CutBelowSecond
  <2>1. exact = RTT /\ DEV = RTT /\ RTT \in Nat
    BY <1>1
  <2>2. exact - DEV = 0 /\ DEV <= exact
    BY <2>1, SMT
  <2>3. 0 < Second * scale
    BY <1>2, <1>6, SMT
  <2> QED BY <2>2, <2>3 DEF CutBelowSecond
<1> QED BY <1>3, <1>4, <1>5, <1>7, <1>8 DEF IInv

-----------------------------------------------------------------------------
(* The daemon of final.                                                    *)

\* A sample is at least a millisecond and no longer than longest.
LEMMA SampleOK ==
  ASSUME TypeOK, ClockInv
  PROVE  /\ Sample \in Nat /\ Sample >= 1 /\ Sample <= longest
         /\ Sample * scale \in Nat
         /\ scale <= Sample * scale
         /\ Sample * scale <= longest * scale
<1>1. Sample \in Nat /\ Sample >= 1 /\ Sample <= longest
  BY HundredthOK, SMT DEF Sample, TypeOK, ClockInv
<1>2. Sample * scale <= longest * scale
  BY <1>1, Grows DEF TypeOK
<1>3. 1 * scale <= Sample * scale
  BY <1>1, Grows DEF TypeOK
<1> HIDE DEF Sample
<1>4. 1 * scale = scale /\ Sample * scale \in Nat
  BY <1>1, SMT DEF TypeOK
<1> QED BY <1>1, <1>2, <1>3, <1>4

\* A send folds the sample into both estimates.
LEMMA SendInv ==
  ASSUME IInv, NEW p \in Packages, handle_send_all_back(p)
  PROVE  IInv'
<1> DEFINE P == Sample * scale
           L == longest * scale
           S == Second * scale
           a == abs(P - RTT)
           d == Magnitude(P - RTT)
<1> USE DEF IInv
<1>1. Second \in Nat \ {0}
  BY RoundTripAssumption DEF RoundTripAssumption
<1>2. /\ scale \in Nat \ {0} /\ longest \in Nat /\ RTT \in Int
      /\ DEV \in Nat /\ exact \in Nat /\ now \in Nat
  BY DEF TypeOK
<1>3. P \in Nat /\ scale <= P /\ P <= L
  BY SampleOK
<1>4. L \in Nat /\ S \in Nat \ {0}
  BY <1>1, <1>2, SMT
<1>5. a \in Nat /\ d \in Nat /\ a <= d /\ d < a + S
  <2>1. P - RTT \in Int
    BY <1>2, <1>3
  <2> HIDE DEF P
  <2> QED BY <2>1, <1>2, AbsCuts
<1>6. scale <= RTT /\ RTT <= L /\ DEV <= L /\ DEV <= exact /\ exact - DEV < S
  BY DEF EstimateInv, CutBelowSecond, handle_send_all_back
<1>7. d <= L
  <2>1. d = IF P - RTT < 0 THEN -(P - RTT) ELSE P - RTT
    BY DEF Magnitude
  <2> HIDE DEF P, L, d
  <2> QED BY <2>1, <1>2, <1>3, <1>4, <1>6, SMT
<1>8. /\ scale' = 8 * scale /\ longest' = longest /\ version' = version
      /\ RTT' = 7 * RTT + P /\ DEV' = 6 * DEV + 2 * a /\ exact' = 6 * exact + 2 * d
  BY DEF handle_send_all_back, Smoothed, Deviation
<1>9. longest' * scale' = 8 * L /\ Second * scale' = 8 * S
  <2>1. longest * (8 * scale) = 8 * (longest * scale)
    BY <1>2, SMT
  <2>2. Second * (8 * scale) = 8 * (Second * scale)
    BY <1>1, <1>2, SMT
  <2> QED BY <2>1, <2>2, <1>8
<1>10. version = "final"
  BY DEF handle_send_all_back
<1>11. TypeOK'
  <2>1. /\ scale' \in Nat \ {0} /\ RTT' \in Int /\ DEV' \in Nat /\ exact' \in Nat
    <3> HIDE DEF P, L, S, a, d
    <3> QED BY <1>2, <1>3, <1>5, <1>8, SMT
  <2>2. /\ now' \in Nat /\ sent' \in [Packages -> Nat \cup {NotSent}]
        /\ SendTime' \in Nat /\ Elapsed' \in Nat
    BY SampleOK DEF TypeOK, handle_send_all_back
  <2> QED BY <2>1, <2>2 DEF TypeOK, handle_send_all_back, records
<1>12. ClockInv'
  <2>1. \A q \in Packages : sent'[q] = sent[q] \/ sent'[q] = now
    BY DEF handle_send_all_back, TypeOK
  <2>2. Elapsed' <= longest'
    BY SampleOK DEF handle_send_all_back
  <2>3. now' = now + 1 /\ SendTime' = now
    BY DEF handle_send_all_back
  <2>4. \A q \in Packages : sent'[q] <= now
    BY <2>1, <1>2, SMT DEF ClockInv, TypeOK, NotSent
  <2>5. \A q \in Packages : sent'[q] \in Int
    BY <1>11, SMT DEF TypeOK, NotSent
  <2>6. \A q \in Packages : sent'[q] <= now'
    BY <2>3, <2>4, <2>5, <1>2, SMT
  <2>7. Hundredth <= longest'
    BY <1>8 DEF ClockInv
  <2>8. SendTime' < now'
    BY <2>3, <1>2, SMT
  <2> QED BY <2>2, <2>3, <2>4, <2>6, <2>7, <2>8 DEF ClockInv, Hundredth
<1>13. RecordInv'
  <2>1. \A q \in Packages : sent[q] # NotSent => sent'[q] = sent[q]
    BY DEF handle_send_all_back, TypeOK
  <2> QED BY <2>1 DEF RecordInv, handle_send_all_back, records, NotSent
<1>14. EstimateInv'
  <2>1. /\ RTT' <= 8 * L /\ RTT' >= scale' /\ DEV' <= 8 * L
    <3> HIDE DEF P, L, S, a, d
    <3> QED BY <1>2, <1>3, <1>4, <1>5, <1>6, <1>7, <1>8, SMT
  <2>2. version' # "proj1"
    BY <1>8, <1>10
  <2> QED BY <2>1, <2>2, <1>9 DEF EstimateInv
<1>15. CutBelowSecond'
  <2>1. DEV' <= exact' /\ exact' - DEV' < 8 * S
    <3> HIDE DEF P, L, S, a, d
    <3> QED BY <1>2, <1>4, <1>5, <1>6, <1>8, SMT
  <2> QED BY <2>1, <1>9 DEF CutBelowSecond
<1> QED BY <1>11, <1>12, <1>13, <1>14, <1>15

\* What Answered does to longest.
LEMMA AnsweredOK ==
  ASSUME TypeOK, NEW p, Answered(p)
  PROVE  /\ longest' \in Nat /\ longest <= longest'
         /\ p \in Packages /\ sent[p] # NotSent => now - sent[p] <= longest'
<1>1. longest \in Nat /\ now \in Nat
  BY DEF TypeOK
<1>2. CASE p \notin Packages
  BY <1>1, <1>2, SMT DEF Answered
<1>3. CASE p \in Packages
  <2>1. sent[p] \in Int
    BY <1>3, SMT DEF TypeOK, NotSent
  <2> QED BY <1>1, <1>3, <2>1, SMT DEF Answered
<1> QED BY <1>2, <1>3

\* An ack is timed from the last send, which is not before the first copy; the
\* bound on the estimates grows with longest.
LEMMA AckInv ==
  ASSUME IInv, NEW p \in Packages, recv_ack(p)
  PROVE  IInv'
<1> USE DEF IInv
<1>1. /\ longest' \in Nat /\ longest <= longest' /\ now - sent[p] <= longest'
  BY AnsweredOK DEF recv_ack
<1>2. /\ sent[p] \in Nat /\ SendTime \in Nat /\ now \in Nat
      /\ sent[p] <= SendTime /\ SendTime < now
  BY SMT DEF recv_ack, TypeOK, ClockInv, NotSent
<1>3. Elapsed' \in Nat /\ Elapsed' <= longest'
  BY <1>1, <1>2, SMT DEF recv_ack, Magnitude
<1>4. TypeOK'
  BY <1>1, <1>3 DEF TypeOK, recv_ack, estimates, records
<1>5. ClockInv'
  <2>1. Hundredth <= longest'
    BY <1>1, HundredthOK, SMT DEF ClockInv, TypeOK
  <2> QED BY <1>3, <2>1 DEF ClockInv, recv_ack, Hundredth
<1>6. RecordInv'
  BY DEF RecordInv, recv_ack, records, NotSent
<1>7. EstimateInv'
  <2> DEFINE L == longest * scale
             M == longest' * scale
  <2>1. RTT <= L /\ DEV <= L /\ scale <= RTT
    BY DEF EstimateInv, recv_ack
  <2>2. L \in Nat /\ M \in Nat /\ L <= M
    BY <1>1, LongestGrows DEF TypeOK
  <2>3. RTT \in Int /\ DEV \in Nat
    BY DEF TypeOK
  <2> HIDE DEF L, M
  <2>4. RTT <= M /\ DEV <= M
    BY <2>1, <2>2, <2>3, SMT
  <2> QED BY <2>1, <2>4 DEF M, EstimateInv, recv_ack, estimates
<1>8. CutBelowSecond'
  BY DEF CutBelowSecond, recv_ack, estimates
<1> QED BY <1>4, <1>5, <1>6, <1>7, <1>8

-----------------------------------------------------------------------------
(* The daemon of proj1.                                                    *)

\* A record is of a package that is sent now.
LEMMA RecordedInv ==
  ASSUME IInv, NEW p \in Packages, SendsRecorded(p)
  PROVE  IInv'
<1> USE DEF IInv
<1>1. /\ now \in Nat /\ sent' = [sent EXCEPT ![p] = now] /\ sent[p] = NotSent
      /\ sent \in [Packages -> Nat \cup {NotSent}]
      /\ record_buf \in [0 .. Records - 1 -> [seq : {0} \cup Numbers, start : Nat]]
      /\ record_index \in 0 .. Records - 1
      /\ record_buf' = [record_buf EXCEPT ![record_index] = [seq |-> Number(p), start |-> now]]
      /\ version = "proj1"
  BY DEF SendsRecorded, record, TypeOK
<1>2. record_index' \in 0 .. Records - 1
  <2>1. Records \in Nat \ {0} /\ record_index \in Nat
    BY <1>1, RoundTripAssumption DEF RoundTripAssumption
  <2>2. record_index' = (record_index + 1) % Records
    BY DEF SendsRecorded, record
  <2> QED BY <2>1, <2>2, SMT
<1>3. record_buf' \in [0 .. Records - 1 -> [seq : {0} \cup Numbers, start : Nat]]
  <2>1. Number(p) \in Numbers
    BY DEF Numbers
  <2> QED BY <1>1, <2>1
<1>4. TypeOK'
  BY <1>1, <1>2, <1>3 DEF TypeOK, SendsRecorded, clock, estimates
<1>5. ClockInv'
  <2>1. \A q \in Packages : sent'[q] = sent[q] \/ sent'[q] = now
    BY <1>1
  <2>2. \A q \in Packages : sent'[q] <= now
    BY <2>1, <1>1, SMT DEF ClockInv
  <2> QED BY <1>1, <2>2 DEF ClockInv, SendsRecorded, clock, Hundredth
<1>6. RecordInv'
  <2>1. \A q \in Packages : sent[q] # NotSent => q # p /\ sent'[q] = sent[q]
    BY <1>1
  <2>2. sent'[p] = now /\ now # NotSent
    BY <1>1, SMT DEF NotSent
  <2>3. ASSUME NEW i \in 0 .. Records - 1
        PROVE  \/ record_buf'[i].seq = 0 /\ record_buf'[i].start = 0
               \/ \E q \in Packages : /\ record_buf'[i].seq = Number(q)
                                       /\ sent'[q] # NotSent
                                       /\ record_buf'[i].start = sent'[q]
    <3>1. CASE i = record_index
      BY <3>1, <1>1, <2>2
    <3>2. CASE i # record_index
      <4>1. record_buf'[i] = record_buf[i]
        BY <3>2, <1>1
      <4> QED BY <4>1, <2>1, <2>3 DEF RecordInv
    <3> QED BY <3>1, <3>2
  <2> QED BY <2>3 DEF RecordInv, NotSent
<1>7. EstimateInv' /\ CutBelowSecond'
  BY DEF EstimateInv, CutBelowSecond, SendsRecorded, clock, estimates
<1> QED BY <1>4, <1>5, <1>6, <1>7

\* Of the records with a number there is a last one.
LEMMA LastRecorded ==
  ASSUME TypeOK, NEW n \in Int, Recorded(n) # {}
  PROVE  \E i \in Recorded(n) : \A j \in Recorded(n) : j <= i
<1> DEFINE R == Recorded(n)
           Back == {m \in 0 .. Records - 1 : Records - 1 - m \in R}
<1>1. Records \in Nat \ {0}
  BY RoundTripAssumption DEF RoundTripAssumption
<1>2. R \subseteq 0 .. Records - 1
  BY DEF Recorded, TypeOK
<1> HIDE DEF R
<1>3. \A j \in R : Records - 1 - j \in Back
  BY <1>1, <1>2, SMT
<1>4. Back # {}
  BY <1>3 DEF R
<1>5. Back \subseteq Nat
  BY <1>1, SMT
<1> HIDE DEF Back
<1>6. PICK m \in Back : \A k \in Back : ~ (<<k, m>> \in OpToRel(<, Nat))
  BY <1>4, <1>5, NatLessThanWellFounded, WFMin
<1>7. \A k \in Back : ~ (k < m)
  BY <1>5, <1>6 DEF OpToRel
<1>8. Records - 1 - m \in R /\ m \in 0 .. Records - 1
  BY DEF Back
<1>9. ASSUME NEW j \in R PROVE j <= Records - 1 - m
  <2>1. ~ (Records - 1 - j < m)
    BY <1>3, <1>7
  <2> QED BY <1>1, <1>2, <1>8, <2>1, SMT
<1> QED BY <1>8, <1>9 DEF R

\* A number of a package is an integer and not that of a record never used.
LEMMA NumberOK ==
  ASSUME NEW p \in Packages
  PROVE  Number(p) \in Int /\ Number(p) # 0 /\ Number(p) - random_ini_seq = p
<1>1. p \in Nat
  BY RoundTripAssumption DEF RoundTripAssumption
<1> QED BY <1>1, SMT DEF Number, random_ini_seq

\* A sample of proj1 is minus a second, or the age of the package with the number
\* of the ack, or, for a number no package has, at most the time since 1970.
LEMMA GetRttOK ==
  ASSUME IInv, NEW n \in {0} \cup Numbers, AckUpdates(n)
  PROVE  /\ get_rtt(n) \in Int
         /\ -Second <= get_rtt(n) /\ get_rtt(n) <= now
         /\ stray' \/ get_rtt(n) <= longest'
<1> USE DEF IInv
<1>1. Second \in Nat /\ now \in Nat /\ longest' \in Nat
  BY RoundTripAssumption, AnsweredOK DEF RoundTripAssumption, AckUpdates, TypeOK
<1>2. n \in Int
  BY NumberOK DEF Numbers
<1>3. CASE Recorded(n) = {}
  <2>1. get_rtt(n) = -Second
    BY <1>3 DEF get_rtt
  <2> QED BY <2>1, <1>1, SMT
<1>4. CASE Recorded(n) # {}
  <2> DEFINE i == CHOOSE k \in Recorded(n) : \A j \in Recorded(n) : j <= k
  <2>1. i \in Recorded(n)
    BY <1>2, <1>4, LastRecorded
  <2> HIDE DEF i
  <2>2. i \in 0 .. Records - 1 /\ record_buf[i].seq = n
    BY <2>1 DEF Recorded, TypeOK
  <2>3. Found(n) = record_buf[i]
    BY DEF Found, i
  <2>4. get_rtt(n) = now - record_buf[i].start
    BY <1>4, <2>3 DEF get_rtt
  <2>5. CASE record_buf[i].seq = 0 /\ record_buf[i].start = 0
    <3>1. n \notin Numbers
      BY <2>2, <2>5, NumberOK DEF Numbers
    <3>2. stray'
      BY <3>1 DEF AckUpdates
    <3>3. get_rtt(n) = now
      BY <2>4, <2>5, <1>1, SMT
    <3> QED BY <3>2, <3>3, <1>1, SMT
  <2>6. ASSUME NEW q \in Packages, record_buf[i].seq = Number(q),
               sent[q] # NotSent, record_buf[i].start = sent[q]
        PROVE  get_rtt(n) \in Nat /\ get_rtt(n) <= now /\ get_rtt(n) <= longest'
    <3>1. n - random_ini_seq = q
      BY <2>2, <2>6, NumberOK
    <3>2. now - sent[q] <= longest'
      BY <3>1, <2>6, AnsweredOK DEF AckUpdates
    <3>3. sent[q] \in Nat /\ sent[q] <= now
      BY <2>6 DEF TypeOK, ClockInv
    <3> QED BY <2>4, <2>6, <3>2, <3>3, <1>1, SMT
  <2>7. CASE \E q \in Packages : /\ record_buf[i].seq = Number(q)
                                 /\ sent[q] # NotSent
                                 /\ record_buf[i].start = sent[q]
    BY <2>6, <2>7, <1>1, SMT
  <2> QED BY <2>2, <2>5, <2>7 DEF RecordInv
<1> QED BY <1>3, <1>4

\* An ack folds its sample into both estimates, and nothing is cut.
LEMMA AckUpdatesInv ==
  ASSUME IInv, NEW n \in {0} \cup Numbers, AckUpdates(n)
  PROVE  IInv'
<1> DEFINE s == get_rtt(n)
           l == longest'
           P == s * scale
           L == longest * scale
           M == l * scale
           T == now * scale
           S == Second * scale
           d == Magnitude(P - RTT)
<1> USE DEF IInv
<1>1. Second \in Nat \ {0}
  BY RoundTripAssumption DEF RoundTripAssumption
<1>2. /\ scale \in Nat \ {0} /\ longest \in Nat /\ now \in Nat /\ RTT \in Int
      /\ DEV \in Nat /\ exact \in Nat /\ stray \in BOOLEAN
  BY DEF TypeOK
<1>3. l \in Nat /\ longest <= l
  BY AnsweredOK DEF AckUpdates
<1>4. s \in Int /\ -Second <= s /\ s <= now /\ (stray' \/ s <= l)
  BY GetRttOK
<1>5. P \in Int /\ L \in Nat /\ M \in Nat /\ S \in Nat \ {0} /\ T \in Nat
  <2> HIDE DEF s, l
  <2> QED BY <1>1, <1>2, <1>3, <1>4, SMT
<1>6. P <= T /\ (stray' \/ P <= M)
  <2> HIDE DEF s, l
  <2>1. P <= T
    BY <1>2, <1>4, Grows
  <2>2. s <= l => P <= M
    BY <1>2, <1>3, <1>4, Grows
  <2> QED BY <1>4, <2>1, <2>2
<1>7. -S <= P
  <2>1. (-Second) * scale <= P
    <3> HIDE DEF s
    <3> QED BY <1>1, <1>2, <1>4, Grows
  <2>2. (-Second) * scale = -S
    BY <1>1, <1>2, SMT
  <2> QED BY <2>1, <2>2
<1>8. L <= M
  BY <1>2, <1>3, LongestGrows
<1>9. RTT > -S /\ RTT <= T /\ (stray \/ RTT <= L)
  BY DEF EstimateInv, AckUpdates
<1>10. d \in Nat
  <2> HIDE DEF P
  <2> QED BY <1>2, <1>5, SMT DEF Magnitude
<1>11. /\ RTT' = 28 * RTT + 4 * P /\ DEV' = 24 * DEV + 7 * d /\ exact' = DEV'
       /\ scale' = 32 * scale /\ version' = version /\ version = "proj1" /\ now' = now
  BY DEF AckUpdates, update_RTO, Deviation
<1>12. longest' * scale' = 32 * M /\ Second * scale' = 32 * S /\ now' * scale' = 32 * T
  <2> HIDE DEF l
  <2>1. l * (32 * scale) = 32 * (l * scale)
    BY <1>2, <1>3, SMT
  <2>2. Second * (32 * scale) = 32 * (Second * scale)
    BY <1>1, <1>2, SMT
  <2>3. now * (32 * scale) = 32 * (now * scale)
    BY <1>2, SMT
  <2> QED BY <2>1, <2>2, <2>3, <1>11 DEF l
<1>13. stray => stray'
  BY DEF AckUpdates
<1>14. /\ RTT' \in Int /\ DEV' \in Nat /\ scale' \in Nat \ {0}
       /\ RTT' > -(32 * S) /\ exact' - DEV' < 32 * S /\ DEV' <= exact'
       /\ RTT' <= 32 * T
  <2> HIDE DEF P, L, M, S, T, d
  <2> QED BY <1>2, <1>5, <1>6, <1>7, <1>9, <1>10, <1>11, SMT
<1>15. stray' \/ RTT' <= 32 * M
  <2>1. CASE stray'
    BY <2>1
  <2>2. CASE ~ stray'
    <3>1. P <= M /\ RTT <= L
      BY <2>2, <1>6, <1>9, <1>13
    <3> HIDE DEF P, L, M, S, T, d
    <3> QED BY <3>1, <1>2, <1>5, <1>8, <1>11, SMT
  <2> QED BY <2>1, <2>2
<1>16. TypeOK'
  BY <1>3, <1>11, <1>14 DEF TypeOK, AckUpdates
<1>17. ClockInv'
  <2>1. Hundredth <= longest' /\ Elapsed <= longest'
    BY <1>2, <1>3, HundredthOK, SMT DEF ClockInv, TypeOK
  <2> QED BY <2>1, <1>11 DEF ClockInv, AckUpdates, Hundredth
<1>18. RecordInv'
  BY DEF RecordInv, AckUpdates, NotSent
<1>19. EstimateInv'
  BY <1>11, <1>12, <1>14, <1>15 DEF EstimateInv
<1>20. CutBelowSecond'
  BY <1>12, <1>14 DEF CutBelowSecond
<1> QED BY <1>16, <1>17, <1>18, <1>19, <1>20

-----------------------------------------------------------------------------
(* Time, and the theorems.                                                 *)

\* Time passes; the bound of an estimate after a stray ack grows with it.
LEMMA PassesInv ==
  ASSUME IInv, NEW t \in Waits, Passes(t)
  PROVE  IInv'
<1> USE DEF IInv
<1>1. t \in Nat /\ now \in Nat /\ now' = now + t
  BY RoundTripAssumption DEF RoundTripAssumption, Passes, TypeOK
<1>2. TypeOK'
  BY <1>1 DEF TypeOK, Passes, estimates, records
<1>3. ClockInv'
  <2>1. \A q \in Packages : sent[q] \in Int /\ sent[q] <= now
    BY SMT DEF ClockInv, TypeOK, NotSent
  <2>2. \A q \in Packages : sent[q] <= now'
    BY <2>1, <1>1, SMT
  <2>3. version = "final" =>
          \A q \in Packages : sent[q] # NotSent => sent[q] <= SendTime /\ SendTime < now'
    BY <1>1, SMT DEF ClockInv, TypeOK, NotSent
  <2> QED BY <2>2, <2>3 DEF ClockInv, Passes, Hundredth, NotSent
<1>4. RecordInv' /\ CutBelowSecond'
  BY DEF RecordInv, CutBelowSecond, Passes, estimates, records, NotSent
<1>5. EstimateInv'
  <2> DEFINE T == now * scale
             U == now' * scale
  <2>1. T <= U /\ T \in Nat /\ U \in Nat
    <3>1. now \in Int /\ now' \in Int /\ now <= now' /\ scale \in Nat
      BY <1>1 DEF TypeOK
    <3>2. T <= U
      BY <3>1, Grows
    <3>3. T \in Nat
      BY <1>1, <3>1, SMT
    <3> DEFINE n == now'
    <3>4. n \in Nat
      BY <1>1
    <3> HIDE DEF n
    <3>5. n * scale \in Nat
      BY <3>1, <3>4, SMT
    <3> QED BY <3>2, <3>3, <3>5 DEF n
  <2>2. version = "proj1" => RTT <= T
    BY DEF EstimateInv
  <2>3. RTT \in Int
    BY DEF TypeOK
  <2> HIDE DEF T, U
  <2>4. version = "proj1" => RTT <= U
    BY <2>1, <2>2, <2>3, SMT
  <2> QED BY <2>4 DEF EstimateInv, Passes, estimates, records, U
<1> QED BY <1>2, <1>3, <1>4, <1>5

\* Every step keeps the invariant.
LEMMA NextIInv == IInv /\ [Next]_vars => IInv'
<1> SUFFICES ASSUME IInv, [Next]_vars PROVE IInv'
  OBVIOUS
<1>1. CASE UNCHANGED vars
  BY <1>1 DEF IInv, TypeOK, ClockInv, RecordInv, EstimateInv, CutBelowSecond,
     vars, clock, records, estimates, NotSent, Hundredth
<1>2. ASSUME NEW p \in Packages, handle_send_all_back(p) PROVE IInv'
  BY <1>2, SendInv
<1>3. ASSUME NEW p \in Packages, recv_ack(p) PROVE IInv'
  BY <1>3, AckInv
<1>4. ASSUME NEW p \in Packages, SendsRecorded(p) PROVE IInv'
  BY <1>4, RecordedInv
<1>5. ASSUME NEW n \in {0} \cup Numbers, AckUpdates(n) PROVE IInv'
  BY <1>5, AckUpdatesInv
<1>6. ASSUME NEW t \in Waits, Passes(t) PROVE IInv'
  BY <1>6, PassesInv
<1> QED BY <1>1, <1>2, <1>3, <1>4, <1>5, <1>6 DEF Next

\* The estimates of final are between the samples, so their sum is.
LEMMA BoundsFollow == IInv => EstimatesBounded
<1> SUFFICES ASSUME IInv PROVE EstimatesBounded
  OBVIOUS
<1> DEFINE L == longest * scale
           S == Second * scale
<1>1. /\ RTT \in Int /\ DEV \in Nat /\ scale \in Nat \ {0}
      /\ L \in Nat /\ S \in Nat
  <2>1. Second \in Nat
    BY RoundTripAssumption DEF RoundTripAssumption
  <2> QED BY <2>1, SMT DEF IInv, TypeOK
<1>2. version = "final" => scale <= RTT /\ RTT <= L /\ DEV <= L
  BY DEF IInv, EstimateInv
<1>3. version = "proj1" => RTT > -S
  BY DEF IInv, EstimateInv
<1>4. /\ version = "final" => RTT + 4 * DEV <= 5 * L
      /\ version = "proj1" => RTT + 4 * DEV > -S
  <2> HIDE DEF L, S
  <2> QED BY <1>1, <1>2, <1>3, SMT
<1> QED BY <1>2, <1>4 DEF EstimatesBounded, RTO, IInv, EstimateInv

\* The daemons keep IInv (tcpd.c:444-509, proj1/tcpd.c:474-489).
THEOREM Inductive == Spec => []IInv
  BY InitIInv, NextIInv, PTL DEF Spec

\* The clock, the records and the estimates keep their types; that the
\* deviation is never negative is what abs is for (tcpd.c:493).
THEOREM TypeCorrect == Spec => []TypeOK
<1>1. IInv => TypeOK
  BY DEF IInv
<1> QED BY <1>1, Inductive, PTL

\* A timer of final is started with at least a millisecond and with at most five
\* times the longest an ack took (tcpd.c:489-500).  The RTO of proj1 is above
\* minus a second, and its average is at most the longest an ack took as long as
\* every ack bears the number of a package (proj1/tcpd.c:468-489, 529-550).
THEOREM EstimatesCorrect == Spec => []EstimatesBounded
  BY BoundsFollow, Inductive, PTL

\* The int abs of tcpd.c:492 takes less than a second off the deviation, however
\* many samples it is applied to.
THEOREM CutCorrect == Spec => []CutBelowSecond
<1>1. IInv => CutBelowSecond
  BY DEF IInv
<1> QED BY <1>1, Inductive, PTL
=============================================================================

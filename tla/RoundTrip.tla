------------------------------ MODULE RoundTrip -------------------------------
(***************************************************************************)
(* How long a timer runs: the estimates of the round trip and its          *)
(* deviation kept by the daemons of final and of proj1.                    *)
(*                                                                         *)
(* Time is counted in milliseconds.  An estimate is a fraction that every  *)
(* sample divides further: its numerator is kept, over the denominator     *)
(* scale.  (The code has doubles, whose rounding is not modelled.)         *)
(* version says which daemon a behaviour is of.  The one of final folds    *)
(* the last sample in at every package it sends, the one of proj1 at every *)
(* ack it reads.  When a package is sent again is left open, as is which   *)
(* acks arrive.                                                            *)
(*                                                                         *)
(* A package of proj1 has the number of its first byte.  The model counts  *)
(* packages: numbers start where the code starts them, rise and are told   *)
(* apart.  They wrap at 65535, long after every record was used.           *)
(***************************************************************************)
EXTENDS Integers

CONSTANTS
  Packages,  \* the packages, in the order they are sent first
  Epoch,     \* what the clock says when a daemon starts
  Waits,     \* times that may pass at once
  Second,    \* milliseconds of a second
  Records,   \* length of record_buf, proj1/tcpd.c:13
  MaxTime,   \* bound: how long a behaviour takes
  MaxScale   \* bound: the largest denominator

ASSUME RoundTripAssumption ==
  /\ Packages \subseteq Nat /\ Waits \subseteq Nat
  /\ Epoch \in Nat \ {0}
  /\ Second \in Nat \ {0} /\ Second % 100 = 0
  /\ Records \in Nat \ {0}

VARIABLES
  version,
  now,         \* the clock
  sent,        \* when the first copy of a package was sent
  SendTime,    \* final: when any package was sent last
  Elapsed,     \* final: ElapsedSeconds, the last sample
  record_buf,  \* proj1: the last packages sent, with the time
  record_index,
  stray,       \* whether an ack of proj1 bore a number that no package has
  scale,
  RTT,         \* EstimatedRTTprev; SRTT
  DEV,         \* EstimatedDEVprev; DevRTT
  exact,       \* what DEV were with deviations that are not cut
  longest      \* the longest time an ack took from the first copy, or .01 s

clock     == <<version, now, longest>>
estimates == <<scale, RTT, DEV, exact>>
records   == <<record_buf, record_index, stray>>
vars      == <<clock, sent, SendTime, Elapsed, records, estimates>>

\* Fault: numbers start where those of the records do that were never used.
random_ini_seq_zero == 0

random_ini_seq == 1

Number(p) == random_ini_seq + p
Numbers == {Number(p) : p \in Packages}

Hundredth == Second \div 100
NotSent == -1

TypeOK ==
  /\ version \in {"final", "proj1"}
  /\ now \in Nat
  /\ sent \in [Packages -> Nat \cup {NotSent}]
  /\ SendTime \in Nat \cup {NotSent}
  /\ Elapsed \in Nat
  /\ record_buf \in [0 .. Records - 1 -> [seq : {0} \cup Numbers, start : Nat]]
  /\ record_index \in 0 .. Records - 1
  /\ stray \in BOOLEAN
  /\ scale \in Nat \ {0}
  /\ RTT \in Int
  /\ DEV \in Nat
  /\ exact \in Nat
  /\ longest \in Nat

Init ==
  /\ version \in {"final", "proj1"}
  /\ now = Epoch
  /\ sent = [p \in Packages |-> NotSent]
  /\ SendTime = NotSent
  /\ Elapsed = 0
  /\ record_buf = [i \in 0 .. Records - 1 |-> [seq |-> 0, start |-> 0]]
  /\ record_index = 0
  /\ stray = FALSE
  /\ scale = 1
  /\ RTT = IF version = "final" THEN Hundredth ELSE 0
  /\ DEV = RTT
  /\ exact = RTT
  /\ longest = Hundredth

Magnitude(x) == IF x < 0 THEN -x ELSE x

\* The distance of a sample from RTT, over scale.
Deviation(sample) == Magnitude(sample * scale - RTT)

\* Fault: the sign is kept.
abs_signed(x) == ((x \div (Second * scale)) * Second) * scale

\* Fault: x is rounded to whole seconds.
abs_rounded(x) ==
  (((Magnitude(x) + (Second * scale) \div 2) \div (Second * scale)) * Second) * scale

\* abs of stdlib.h takes an int: whole seconds are left of x.
abs(x) == ((Magnitude(x) \div (Second * scale)) * Second) * scale

\* The time from the first copy of p to now counts for longest.
Answered(p) ==
  longest' = IF p \in Packages /\ sent[p] # NotSent /\ now - sent[p] > longest
               THEN now - sent[p] ELSE longest

-----------------------------------------------------------------------------
(* final                                                                   *)

\* No sample at all counts as .01 s.
Sample == IF Elapsed <= 0 THEN Hundredth ELSE Elapsed

\* Fault: the weights of RTT do not add up to one.
Smoothed_heavy(sample) == 7 * RTT + 2 * (sample * scale)

\* RTT after a sample, an eighth of it, over 8 * scale.
Smoothed(sample) == 7 * RTT + sample * scale

\* A package is sent, its timer is started with the RTO, and the estimates take
\* the last sample in, which they may have taken in before; then the daemon
\* sleeps a millisecond.
handle_send_all_back(p) ==
  /\ version = "final"
  /\ scale < MaxScale /\ now < Epoch + MaxTime
  /\ sent' = IF sent[p] = NotSent THEN [sent EXCEPT ![p] = now] ELSE sent
  /\ SendTime' = now
  /\ Elapsed' = Sample
  /\ RTT' = Smoothed(Sample)
  /\ DEV' = 6 * DEV + 2 * abs(Sample * scale - RTT)
  /\ exact' = 6 * exact + 2 * Deviation(Sample)
  /\ scale' = 8 * scale
  /\ now' = now + 1
  /\ UNCHANGED <<version, longest, records>>

\* Any ack, of whatever package and garbled or not, is timed from the last send.
recv_ack(p) ==
  /\ version = "final"
  /\ sent[p] # NotSent
  /\ Elapsed' = Magnitude(SendTime - now)
  /\ Answered(p)
  /\ UNCHANGED <<version, now, sent, SendTime, records, estimates>>

-----------------------------------------------------------------------------
(* proj1                                                                   *)

\* A record takes the slot of the oldest one.
record(p) ==
  /\ record_buf' = [record_buf EXCEPT ![record_index] = [seq |-> Number(p), start |-> now]]
  /\ record_index' = (record_index + 1) % Records

\* Packages are sent once, in order.
SendsRecorded(p) ==
  /\ version = "proj1"
  /\ sent[p] = NotSent /\ \A q \in Packages : q < p => sent[q] # NotSent
  /\ sent' = [sent EXCEPT ![p] = now]
  /\ record(p)
  /\ UNCHANGED <<clock, SendTime, Elapsed, stray, estimates>>

Recorded(n) == {i \in DOMAIN record_buf : record_buf[i].seq = n}

\* The last record with the number n, used or not: those that are not have
\* number 0 and time 0.
Found(n) == record_buf[CHOOSE i \in Recorded(n) : \A j \in Recorded(n) : j <= i]

\* An ack of a number that has no record took minus one second.
get_rtt(n) == IF Recorded(n) = {} THEN -Second ELSE now - Found(n).start

\* The deviation is taken from the new average, 7/8 of that from the old one.
update_RTO(sample) ==
  /\ RTT' = 28 * RTT + 4 * (sample * scale)
  /\ DEV' = 24 * DEV + 7 * Deviation(sample)
  /\ exact' = DEV'
  /\ scale' = 32 * scale

\* An ack has the number of the datagram it is for, which nobody checks: one that
\* was garbled may name another package, sent or not, or none, as number 0 does.
AckUpdates(n) ==
  /\ version = "proj1"
  /\ scale < MaxScale
  /\ update_RTO(get_rtt(n))
  /\ Answered(n - random_ini_seq)
  /\ stray' = (stray \/ n \notin Numbers)
  /\ UNCHANGED <<version, now, sent, SendTime, Elapsed, record_buf, record_index>>

-----------------------------------------------------------------------------
Passes(d) ==
  /\ now + d <= Epoch + MaxTime
  /\ now' = now + d
  /\ UNCHANGED <<version, longest, sent, SendTime, Elapsed, records, estimates>>

Next ==
  \/ \E p \in Packages : \/ handle_send_all_back(p) \/ recv_ack(p)
                         \/ SendsRecorded(p)
  \/ \E n \in {0} \cup Numbers : AckUpdates(n)
  \/ \E d \in Waits : Passes(d)

Spec == Init /\ [][Next]_vars

-----------------------------------------------------------------------------
(* Properties.                                                             *)

\* The next RTO, over scale, once there is an estimate: proj1 starts with 100 s.
RTO == RTT + 4 * DEV

\* The estimates stay between what the acks say.  In final a timer is never
\* started with less than a millisecond, nor with more than five times the
\* longest an ack took (tcpd.c:489-500).  In proj1 even a daemon all of whose
\* records are lost, and which averages minus ones, has an RTO above -1 s, which
\* the int of send_to_timer makes no less than 0 (tcpd.c:182-190, 474-489).  Its
\* average is no more than the longest an ack took: neither a record that was
\* overwritten nor one that was never used is taken for that of a package.  Only
\* the ack of a datagram whose number was garbled to 0 is timed by a record that
\* was never used (tcpd.c:537-539), and then by the time since 1970.
EstimatesBounded ==
  /\ version = "final" => /\ scale <= RTT /\ RTT <= longest * scale
                          /\ RTO <= 5 * (longest * scale)
  /\ version = "proj1" => /\ RTO > -(Second * scale)
                          /\ stray \/ RTT <= longest * scale
                          /\ RTT <= now * scale

\* abs() of an int drops less than a second of the deviation, as an average, and
\* the RTO of final lacks it four times: the timer is never longer than that of
\* Jacobson's algorithm, and less than four seconds shorter (tcpd.c:492-493).
CutBelowSecond ==
  /\ DEV <= exact
  /\ exact - DEV < Second * scale
=============================================================================

---------------------------- MODULE ReliableStream ----------------------------
(***************************************************************************)
(* What the final project promises ftpc and ftps (src/final/tcpudp.c):     *)
(* on every session the bytes of the SENDs come out of the RECVs, all of   *)
(* them, once and in order.  Lens are the lengths of the SENDs, and a byte *)
(* is its session with its position in the stream.                         *)
(***************************************************************************)
EXTENDS Integers, Sequences

CONSTANTS Sess, Lens

VARIABLES
  sent,  \* SENDs that were taken, on every session
  got    \* bytes that RECVs returned, on every session

vars == <<sent, got>>

\* The bytes of the first n SENDs.
Size[n \in 0 .. Len(Lens)] == IF n = 0 THEN 0 ELSE Size[n - 1] + Lens[n]

Init ==
  /\ sent = [s \in Sess |-> 0]
  /\ got = [s \in Sess |-> <<>>]

Send(s) ==
  /\ sent[s] < Len(Lens)
  /\ sent' = [sent EXCEPT ![s] = @ + 1]
  /\ UNCHANGED got

\* A RECV returns the next n bytes.
Receive(s) ==
  /\ \E n \in 1 .. (Size[sent[s]] - Len(got[s])) :
       got' = [got EXCEPT ![s] = @ \o [i \in 1 .. n |-> <<s, Len(@) + i - 1>>]]
  /\ UNCHANGED sent

Next == \E s \in Sess : Send(s) \/ Receive(s)

Spec == Init /\ [][Next]_vars

\* What was sent is received in the end.
FairSpec == Spec /\ \A s \in Sess : WF_vars(Receive(s))
=============================================================================

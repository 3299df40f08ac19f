------------------------------ MODULE TimerSpec -------------------------------
(***************************************************************************)
(* What the timer process (src/final/timer.c) promises tcpd, with no list: *)
(* every node has the time it has left, requests are served in order, and  *)
(* whatever is due when the process wakes is called back, earliest first.  *)
(***************************************************************************)
EXTENDS Integers, Sequences, SequencesExt

CONSTANTS
  Ids,          \* the <<Session, SeqNum>> of the requests
  Durations,    \* the times a start asks for
  MaxRequests,  \* bound: requests waiting at TimerSocket
  MaxLate       \* bound: time the process may sleep on

Requests == [type : {"start"}, id : Ids, secs : Durations]
              \cup [type : {"cancel"}, id : Ids]

VARIABLES
  left,      \* what every node has left; negative once it is overdue
  elapsed,   \* the time since the process last woke
  requests,  \* requests waiting at TimerSocket
  callbacks  \* the callbacks of the last turn

vars == <<left, elapsed, requests, callbacks>>

Init ==
  /\ left = <<>>
  /\ elapsed = 0
  /\ requests = <<>>
  /\ callbacks = <<>>

Nodes == DOMAIN left

Request(r) ==
  /\ Len(requests) < MaxRequests
  /\ requests' = Append(requests, r)
  /\ UNCHANGED <<left, elapsed, callbacks>>

Tick ==
  /\ elapsed < MaxLate
  /\ elapsed' = elapsed + 1
  /\ left' = [i \in Nodes |-> left[i] - 1]
  /\ UNCHANGED <<requests, callbacks>>

\* The nodes with the first request served: the start of a node that exists
\* is refused, even if the node is due.
Served ==
  IF requests = <<>> THEN left
  ELSE LET r == Head(requests)
       IN IF r.type = "cancel" THEN [i \in Nodes \ {r.id} |-> left[i]]
          ELSE IF r.id \in Nodes THEN left
          ELSE [i \in Nodes \cup {r.id} |-> IF i = r.id THEN r.secs ELSE left[i]]

DueIn(nodes) == {i \in DOMAIN nodes : nodes[i] <= 0}

\* Serve one request, then call back what is due in the order it was due.
Wake ==
  /\ requests # <<>> \/ DueIn(left) # {}
  /\ elapsed' = 0
  /\ requests' = IF requests = <<>> THEN <<>> ELSE Tail(requests)
  /\ left' = [i \in DOMAIN Served \ DueIn(Served) |-> Served[i]]
  /\ callbacks' \in {c \in SetToSeqs(DueIn(Served)) :
                       \A j \in 1 .. (Len(c) - 1) : Served[c[j]] <= Served[c[j + 1]]}

Next == Tick \/ Wake \/ \E r \in Requests : Request(r)

Spec == Init /\ [][Next]_vars
=============================================================================

------------------------------ MODULE DeltaTimer ------------------------------
(***************************************************************************)
(* The timer process of the final project (src/final/timer.c): a list of   *)
(* nodes, each with the time that remains AFTER the node before it, kept   *)
(* up to date by subtracting the time that passed from the first node and  *)
(* carrying what is too much over to the next ones.                        *)
(*                                                                         *)
(* Seconds are whole numbers here (double in the code, whose rounding is   *)
(* not modelled); elapsed is the clock minus LastSystemTime.               *)
(***************************************************************************)
EXTENDS Integers, Sequences, SequencesExt

CONSTANTS Ids, Durations, MaxRequests, MaxLate   \* as in TimerSpec

\* No start asks for less than no time: a tcpd asks for its RTO (tcpd.c:487-500),
\* an average of times and four of their distances (RoundTrip).
ASSUME TimerAssumption ==
  Durations \subseteq Nat /\ MaxRequests \in Nat /\ MaxLate \in Nat

Requests == [type : {"start"}, id : Ids, secs : Durations]
              \cup [type : {"cancel"}, id : Ids]

VARIABLES
  TimerList,  \* the nodes, each with its Id and its RemainSeconds
  elapsed,    \* the time since LastSystemTime
  requests,   \* requests waiting at TimerSocket
  callbacks   \* the callbacks of the last turn

vars == <<TimerList, elapsed, requests, callbacks>>

Node == [Id : Ids, RemainSeconds : Nat]

TypeOK ==
  /\ TimerList \in Seq(Node)
  /\ elapsed \in 0 .. MaxLate
  /\ requests \in Seq(Requests)
  /\ callbacks \in Seq(Ids)

Init ==
  /\ TimerList = <<>>
  /\ elapsed = 0
  /\ requests = <<>>
  /\ callbacks = <<>>

\* The place of a node in list, 0 if it has none.
Find(list, id) == SelectInSeq(list, LAMBDA n : n.Id = id)

Request(r) ==
  /\ Len(requests) < MaxRequests
  /\ requests' = Append(requests, r)
  /\ UNCHANGED <<TimerList, elapsed, callbacks>>

Tick ==
  /\ elapsed < MaxLate
  /\ elapsed' = elapsed + 1
  /\ UNCHANGED <<TimerList, requests, callbacks>>

-----------------------------------------------------------------------------
(* One turn of the loop in main: UpdateTimerList, one request, and then    *)
(* SendCallbacks.                                                          *)

\* Fault: the time before a request is not counted.
UpdateTimerList_interrupted(list) ==
  [j \in DOMAIN list |->
     IF requests # <<>> \/ j > 1 THEN list[j]
     ELSE [list[j] EXCEPT !.RemainSeconds = IF elapsed < @ THEN @ - elapsed ELSE 0]]

\* The time that passed comes off the first node; what a node cannot pay comes
\* off the next one.
UpdateTimerList(list) ==
  LET owed[j \in 0 .. Len(list)] ==
        IF j = 0 THEN elapsed
        ELSE IF owed[j - 1] < list[j].RemainSeconds THEN 0
        ELSE owed[j - 1] - list[j].RemainSeconds
  IN [j \in DOMAIN list |->
        [list[j] EXCEPT !.RemainSeconds = IF owed[j - 1] < @ THEN @ - owed[j - 1] ELSE 0]]

\* The new node goes before the first one it is due before, past those due at
\* the same time; it turns into a delta on the way, and the node it comes
\* before has that much less to wait for.
Place(list, id, secs) ==
  LET rest[j \in 0 .. Len(list)] ==
        IF j = 0 THEN secs ELSE rest[j - 1] - list[j].RemainSeconds
      at   == Min({j \in 1 .. Len(list) : rest[j - 1] < list[j].RemainSeconds}
                    \cup {Len(list) + 1})
      next == IF at > Len(list) THEN list
              ELSE [list EXCEPT ![at].RemainSeconds = @ - rest[at - 1]]
  IN InsertAt(next, at, [Id |-> id, RemainSeconds |-> rest[at - 1]])

\* Fault: a second node is not refused.
InsertRequest_twice(list, id, secs) == Place(list, id, secs)

\* A second node for the same package is refused.
InsertRequest(list, id, secs) ==
  IF Find(list, id) # 0 THEN list ELSE Place(list, id, secs)

\* Fault: the delta of the cancelled node comes off the next one.
CancelRequest_subtracts(list, id) ==
  LET i    == Find(list, id)
      next == IF i = Len(list) THEN list
              ELSE [list EXCEPT ![i + 1].RemainSeconds = @ - list[i].RemainSeconds]
  IN IF i = 0 THEN list ELSE RemoveAt(next, i)

\* The node after the cancelled one waits that much longer for itself.
CancelRequest(list, id) ==
  LET i    == Find(list, id)
      next == IF i = Len(list) THEN list
              ELSE [list EXCEPT ![i + 1].RemainSeconds = @ + list[i].RemainSeconds]
  IN IF i = 0 THEN list ELSE RemoveAt(next, i)

\* The list after the request that was ready, if one was.
Serve(list) ==
  IF requests = <<>> THEN list
  ELSE LET r == Head(requests)
       IN IF r.type = "start" THEN InsertRequest(list, r.id, r.secs)
                              ELSE CancelRequest(list, r.id)

\* Every node up to the first that has time left is called back and deleted.
SendCallbacks(list) ==
  LET i   == SelectInSeq(list, LAMBDA n : n.RemainSeconds > 0)
      due == IF i = 0 THEN Len(list) ELSE i - 1
  IN /\ callbacks' = [j \in 1 .. due |-> list[j].Id]
     /\ TimerList' = SubSeq(list, due + 1, Len(list))

\* select returns when a request is there or the first node's time is over.
Wake ==
  /\ \/ requests # <<>>
     \/ TimerList # <<>> /\ TimerList[1].RemainSeconds <= elapsed
  /\ elapsed' = 0
  /\ requests' = IF requests = <<>> THEN <<>> ELSE Tail(requests)
  /\ \E list \in {Serve(UpdateTimerList(TimerList))} : SendCallbacks(list)

Next == Tick \/ Wake \/ \E r \in Requests : Request(r)

Spec == Init /\ [][Next]_vars

\* Time passes and the process keeps running.
FairSpec == Spec /\ WF_vars(Tick) /\ WF_vars(Wake)

-----------------------------------------------------------------------------
(* Properties.                                                             *)

\* The deltas up to each node of a list.
Due(list) ==
  LET due[j \in 0 .. Len(list)] ==
        IF j = 0 THEN 0 ELSE due[j - 1] + list[j].RemainSeconds
  IN due

\* A node's time left: the deltas up to it, less the time not subtracted yet.
Left ==
  [i \in {TimerList[j].Id : j \in DOMAIN TimerList} |->
     Due(TimerList)[Find(TimerList, i)] - elapsed]

Abstract == INSTANCE TimerSpec WITH left <- Left

\* The delta list keeps the promise of TimerSpec: no callback early, none
\* missed in the turn it is due, earliest first, none after a cancel, however
\* inserts, cancels and late wake-ups shift the deltas (timer.c:104-229).
KeepsTime == Abstract!Spec

\* Every node is called back or cancelled: the list never holds a node for
\* good, although only its first node has time subtracted (timer.c:185-199).
NodesLeave ==
  \A i \in Ids : (Find(TimerList, i) # 0) ~> (Find(TimerList, i) = 0)

\* Between turns the list holds no node twice and no node that is due: what
\* SendCallbacks leaves, select has to wait for (timer.c:54-61, 208-212).
NoneDueInList ==
  /\ \A j, k \in DOMAIN TimerList : TimerList[j].Id = TimerList[k].Id => j = k
  /\ TimerList # <<>> => TimerList[1].RemainSeconds > 0
=============================================================================

------------------------------ MODULE FrontCall -------------------------------
(***************************************************************************)
(* How the calls of tcpudp.c reach the daemon (src/final).  A call is a    *)
(* datagram that names it and one for each of its arguments, all to the    *)
(* one socket of the daemon that every front process uses; the daemon      *)
(* reads the name and then, blocking, as many datagrams as the call has    *)
(* arguments, from whoever sent them, and answers the sender of the last.  *)
(* What the calls do is left to TcpdSender and TcpdReceiver; here a socket *)
(* is the process it belongs to.  A process may be killed at any time, and *)
(* another one started in its place.                                       *)
(***************************************************************************)
EXTENDS Integers, Sequences, FiniteSets

CONSTANTS
  Procs,         \* front processes
  Script,        \* the calls each of them makes
  Port,          \* the port each of them would bind
  Follows,       \* the process, if any, in whose place it is started
  NoProc, Junk   \* no request; a socket number read from something else

\* ftpc CONNECTs before it SENDs (ftpc.c:76-117), ftps BINDs once (ftps.c:53).
ASSUME FrontAssumption ==
  /\ Script \in [Procs -> Seq({"SOCKET", "BIND", "ACCEPT", "RECV", "CONNECT", "SEND"})]
  /\ \A p \in Procs : \A i \in DOMAIN Script[p] :
       /\ Script[p][i] = "SEND" => \E j \in 1 .. (i - 1) : Script[p][j] = "CONNECT"
       /\ \A j \in DOMAIN Script[p] :
            Script[p][i] = "BIND" /\ Script[p][j] = "BIND" => i = j
  /\ Follows \in [Procs -> Procs \cup {NoProc}]
  /\ DOMAIN Port = Procs
  /\ NoProc \notin Procs /\ Junk \notin Procs

VARIABLES
  made,       \* per process, the call it makes or made last
  sent,       \* per process, the datagrams of it that were sent
  ended,      \* processes that were killed
  disturbed,  \* whether one ever called in the middle of another's call, or was
              \* killed in the middle of its own
  socket,     \* datagrams to the daemon
  handler,    \* datagrams of the call the daemon is reading
  status,     \* "running" or "exited"
  bound, connected, sessions,   \* sockets the daemon knows, and their state
  Accepting, Recving,           \* per socket, who waits for an answer
  replies,    \* per process, datagrams on its socket
  answered    \* per process, the call its last return answers

frontVars  == <<made, sent, ended, disturbed, answered>>
daemonVars == <<handler, status, bound, connected, sessions, Accepting, Recving>>
vars == <<frontVars, socket, daemonVars, replies>>

\* Datagrams of a call, its name included.
Parts == [SOCKET |-> 1, BIND |-> 3, ACCEPT |-> 2, RECV |-> 3, CONNECT |-> 3, SEND |-> 4]

Datagram == [from : Procs, n : Nat, call : DOMAIN Parts, part : 1 .. 4]

Init ==
  /\ made = [p \in Procs |-> 0] /\ sent = [p \in Procs |-> 0]
  /\ ended = {} /\ disturbed = FALSE /\ socket = <<>> /\ handler = <<>> /\ status = "running"
  /\ bound = {} /\ connected = {} /\ sessions = {}
  /\ Accepting = [p \in Procs |-> NoProc] /\ Recving = [p \in Procs |-> NoProc]
  /\ replies = [p \in Procs |-> <<>>]
  /\ answered = [p \in Procs |-> <<p, 0>>]

----------------------------------------------------------------------------
\* The front processes

call(p) == Script[p][made[p]]
Handing(p) == p \notin ended /\ sent[p] > 0 /\ sent[p] < Parts[call(p)]
Waiting(p) == p \notin ended /\ sent[p] > 0 /\ sent[p] = Parts[call(p)]

\* The first datagram of the next call.
Calls(p) ==
  /\ p \notin ended /\ Follows[p] \in ended \cup {NoProc}
  /\ sent[p] = 0 /\ made[p] < Len(Script[p])
  /\ made' = [made EXCEPT ![p] = @ + 1]
  /\ sent' = [sent EXCEPT ![p] = 1]
  /\ disturbed' = (disturbed \/ \E q \in Procs \ {p} : Handing(q))
  /\ socket' = Append(socket, [from |-> p, n |-> made[p] + 1,
                               call |-> Script[p][made[p] + 1], part |-> 1])
  /\ UNCHANGED <<ended, answered, daemonVars, replies>>

\* An argument of it.
Hands(p) ==
  /\ Handing(p)
  /\ sent' = [sent EXCEPT ![p] = @ + 1]
  /\ socket' = Append(socket, [from |-> p, n |-> made[p], call |-> call(p),
                               part |-> sent[p] + 1])
  /\ UNCHANGED <<made, disturbed, ended, answered, daemonVars, replies>>

\* The call returns with whatever datagram comes first.
Returns(p) ==
  /\ Waiting(p) /\ replies[p] /= <<>>
  /\ answered' = [answered EXCEPT ![p] = Head(replies[p])]
  /\ replies' = [replies EXCEPT ![p] = Tail(@)]
  /\ sent' = [sent EXCEPT ![p] = 0]
  /\ UNCHANGED <<made, ended, disturbed, socket, daemonVars>>

\* A process is killed; its socket and what waits there are gone.
Ends(p) ==
  /\ p \notin ended /\ made[p] > 0
  /\ ended' = ended \cup {p}
  /\ disturbed' = (disturbed \/ Handing(p))
  /\ replies' = [replies EXCEPT ![p] = <<>>]
  /\ UNCHANGED <<made, sent, answered, socket, daemonVars>>

----------------------------------------------------------------------------
\* The daemon

\* Fault: the flags of a SEND, which tcpudp.c keeps to itself, are fetched.
Fetched_flags(c) == IF c = "SEND" THEN 5 ELSE Parts[c]

\* What the daemon reads for a call.
Fetched(c) == Parts[c]

\* process_tcpd_message reads a name; a datagram that is none is dropped.
process_tcpd_message ==
  /\ status = "running" /\ handler = <<>> /\ socket /= <<>>
  /\ handler' = IF Head(socket).part = 1 THEN <<Head(socket)>> ELSE <<>>
  /\ socket' = Tail(socket)
  /\ UNCHANGED <<frontVars, status, bound, connected, sessions, Accepting, Recving, replies>>

name == handler[1].call
Fetching(c) == status = "running" /\ handler /= <<>> /\ name = c
Complete(c) == Fetching(c) /\ Len(handler) = Fetched(c)

\* A recvfrom of an argument.  A SEND whose length is no length may end the
\* daemon (BUF_LEN < len).
FetchesArgument ==
  /\ status = "running" /\ handler /= <<>> /\ Len(handler) < Fetched(name) /\ socket /= <<>>
  /\ socket' = Tail(socket)
  /\ handler' = Append(handler, Head(socket))
  /\ status' \in IF name = "SEND" /\ Len(handler) = 2
                    /\ <<Head(socket).call, Head(socket).part>> /= <<"SEND", 3>>
                 THEN {"running", "exited"} ELSE {"running"}
  /\ UNCHANGED <<frontVars, bound, connected, sessions, Accepting, Recving, replies>>

FrontAddr == handler[Len(handler)].from
SocketFD == IF handler[2].part = 2 THEN handler[2].from ELSE Junk
CallRead == <<handler[1].from, handler[1].n>>

\* An answer to a process that ended goes nowhere: no process started later is
\* taken to be given its UDP port by the system.
Answer(p, of) ==
  replies' = IF p \in ended THEN replies ELSE [replies EXCEPT ![p] = Append(@, of)]

tcpd_SOCKET ==
  /\ Complete("SOCKET")
  /\ Answer(FrontAddr, CallRead)
  /\ handler' = <<>>
  /\ UNCHANGED <<frontVars, socket, status, bound, connected, sessions, Accepting, Recving>>

\* Some socket of the daemon, which closes none, has the port already.
InUse(p) == \E q \in bound : Port[q] = Port[p]

\* bind fails for what is no socket and for a port in use, which ends the daemon.
tcpd_BIND ==
  /\ Complete("BIND")
  /\ handler' = <<>>
  /\ IF SocketFD = Junk \/ InUse(SocketFD)
       THEN status' = "exited" /\ UNCHANGED <<bound, replies>>
       ELSE bound' = bound \cup {SocketFD} /\ Answer(FrontAddr, CallRead) /\ UNCHANGED status
  /\ UNCHANGED <<frontVars, socket, connected, sessions, Accepting, Recving>>

\* Fault: the request is answered as well as recorded.
tcpd_ACCEPT_answers ==
  /\ Complete("ACCEPT")
  /\ handler' = <<>>
  /\ Accepting' = IF SocketFD \in bound THEN [Accepting EXCEPT ![SocketFD] = <<FrontAddr, CallRead>>] ELSE Accepting
  /\ Answer(FrontAddr, CallRead)
  /\ UNCHANGED <<frontVars, socket, status, bound, connected, sessions, Recving>>

\* The request is recorded, or refused at once.
tcpd_ACCEPT ==
  /\ Complete("ACCEPT")
  /\ handler' = <<>>
  /\ IF SocketFD \in bound /\ Accepting[SocketFD] = NoProc
       THEN Accepting' = [Accepting EXCEPT ![SocketFD] = <<FrontAddr, CallRead>>] /\ UNCHANGED replies
       ELSE Answer(FrontAddr, CallRead) /\ UNCHANGED Accepting
  /\ UNCHANGED <<frontVars, socket, status, bound, connected, sessions, Recving>>

tcpd_RECV ==
  /\ Complete("RECV")
  /\ handler' = <<>>
  /\ IF SocketFD \in sessions /\ Recving[SocketFD] = NoProc
       THEN Recving' = [Recving EXCEPT ![SocketFD] = <<FrontAddr, CallRead>>] /\ UNCHANGED replies
       ELSE Answer(FrontAddr, CallRead) /\ UNCHANGED Recving
  /\ UNCHANGED <<frontVars, socket, status, bound, connected, sessions, Accepting>>

\* Fault: the socket is not recorded.
tcpd_CONNECT_forgets ==
  /\ Complete("CONNECT")
  /\ handler' = <<>>
  /\ Answer(FrontAddr, CallRead)
  /\ UNCHANGED <<frontVars, socket, status, bound, connected, sessions, Accepting, Recving>>

tcpd_CONNECT ==
  /\ Complete("CONNECT")
  /\ handler' = <<>>
  /\ connected' = connected \cup {SocketFD}
  /\ Answer(FrontAddr, CallRead)
  /\ UNCHANGED <<frontVars, socket, status, bound, sessions, Accepting, Recving>>

\* A SEND to a socket that is not connected ends the daemon.
tcpd_SEND ==
  /\ Complete("SEND")
  /\ handler' = <<>>
  /\ IF SocketFD \in connected
       THEN Answer(FrontAddr, CallRead) /\ UNCHANGED status
       ELSE status' = "exited" /\ UNCHANGED replies
  /\ UNCHANGED <<frontVars, socket, bound, connected, sessions, Accepting, Recving>>

\* A client came, or its data: the process that waits for it is answered.
handle_ack_back(s) ==
  /\ status = "running" /\ handler = <<>> /\ Accepting[s] /= NoProc
  /\ Answer(Accepting[s][1], Accepting[s][2])
  /\ Accepting' = [Accepting EXCEPT ![s] = NoProc]
  /\ sessions' = sessions \cup {s}
  /\ UNCHANGED <<frontVars, socket, handler, status, bound, connected, Recving>>

handle_recv_back(s) ==
  /\ status = "running" /\ handler = <<>> /\ Recving[s] /= NoProc
  /\ Answer(Recving[s][1], Recving[s][2])
  /\ Recving' = [Recving EXCEPT ![s] = NoProc]
  /\ UNCHANGED <<frontVars, socket, handler, status, bound, connected, sessions, Accepting>>

----------------------------------------------------------------------------
Front == \E p \in Procs : Calls(p) \/ Hands(p) \/ Returns(p) \/ Ends(p)

ServesCalls ==
  \/ process_tcpd_message \/ FetchesArgument
  \/ tcpd_SOCKET \/ tcpd_BIND \/ tcpd_ACCEPT \/ tcpd_RECV \/ tcpd_CONNECT \/ tcpd_SEND

AnswersWaiting == \E s \in Procs : handle_ack_back(s) \/ handle_recv_back(s)

Next == Front \/ ServesCalls \/ AnswersWaiting

Spec == Init /\ [][Next]_vars

\* The processes and the daemon keep running, and the clients that ACCEPT and
\* RECV wait for come and send.
FairSpec ==
  /\ Spec
  /\ \A p \in Procs : WF_vars(Calls(p) \/ Hands(p) \/ Returns(p))
  /\ WF_vars(ServesCalls)
  /\ \A s \in Procs : SF_vars(handle_ack_back(s) \/ handle_recv_back(s))

----------------------------------------------------------------------------
\* Properties

Requests == (Procs \X (Procs \X Nat)) \cup {NoProc}

\* Every variable keeps its type.
TypeOK ==
  /\ made \in [Procs -> Nat] /\ sent \in [Procs -> 0 .. 4]
  /\ socket \in Seq(Datagram) /\ handler \in Seq(Datagram) /\ Len(handler) <= 4
  /\ status \in {"running", "exited"} /\ ended \subseteq Procs
  /\ bound \subseteq Procs /\ connected \subseteq Procs \cup {Junk} /\ sessions \subseteq bound
  /\ Accepting \in [Procs -> Requests] /\ Recving \in [Procs -> Requests]

\* What the daemon reads as one call is the datagrams of one call, in order
\* (tcpd.c:582 "fetch the oringin arguments of BIND calls"), as long as no
\* process calls, or is killed, between the first and last sendto of a call:
\* those killed between calls or waiting for an answer disturb none.
CallWhole ==
  disturbed \/ \A i \in DOMAIN handler : handler[i] = [handler[1] EXCEPT !.part = i]

\* Then a call returns with its own answer, never with one that an earlier
\* call left in its socket (the recvfrom of every call in tcpudp.c takes any).
OwnAnswer ==
  disturbed \/ \A p \in Procs : sent[p] = 0 => answered[p] = <<p, made[p]>>

\* Two processes, one perhaps in the place of the other, bind the same port.
Rebinds ==
  \E p, q \in Procs :
    /\ p # q /\ Port[p] = Port[q]
    /\ \A r \in {p, q} : \E i \in 1 .. made[r] : Script[r][i] = "BIND"

\* Then no order of the calls and the ends of several processes makes the
\* daemon exit (the exits of tcpd_BIND and tcpd_SEND), but for a port bound
\* again: the daemon never closes the socket of an ftps that ended
\* (tcpd.c:607-612).
NoExit == disturbed \/ Rebinds \/ status = "running"

\* And then every call of a process that is not killed returns, however long
\* ACCEPT and RECV of others, living or killed, wait.
CallReturns ==
  [](~disturbed /\ ~Rebinds) =>
    \A p \in Procs : sent[p] > 0 ~> sent[p] = 0 \/ p \in ended
====

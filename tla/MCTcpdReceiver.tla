---- MODULE MCTcpdReceiver ----
(***************************************************************************)
(* TcpdReceiver for TLC: the worlds the server's daemon may meet.          *)
(***************************************************************************)
EXTENDS TcpdReceiver, TLC

CONSTANTS c1, c2, s1, s2, p1, p2

\* The header and the chunks of a file.
FileLens == <<1, 2, 1>>

\* ftps reads the header, and then two packages at once.
HeaderRest == <<1, 3>>

\* ftps reads half a package, and then more than the daemon can hold.
OddReads == <<1, 1, 4>>

\* ftps reads two packages at once, and its next RECV starts a package.
TwoOne == <<3, 1>>

Client(s, p, n) == [session |-> s, port |-> p, sends |-> n]

World(a, b, lens) == [client |-> c1 :> a @@ c2 :> b, reads |-> lens]

\* Two clients of one server: one waits while the other is served.
OneServer == World(Client(s1, p1, 3), Client(s2, p1, 3), HeaderRest)

\* One client each of two servers behind one daemon, which the reads end.
TwoServers == World(Client(s1, p1, 2), Client(s2, p2, 2), OddReads)

\* One of the clients ends after its first or second SEND.
OneEnds == {World(Client(s1, p1, n), Client(s2, p1, 3), HeaderRest) : n \in 1 .. 2}

\* Two clients drew the same number, and connect to one or to two servers.
Collision == {World(Client(s1, p1, 2), Client(s1, p1, 3), TwoOne),
              World(Client(s1, p1, 1), Client(s1, p2, 3), TwoOne)}

AllWorlds == {OneServer, TwoServers} \cup OneEnds \cup Collision

\* A single client whose server reads a package in two halves.
HalfReads == {World(Client(s1, p1, 2), Client(s2, p1, 0), <<1, 1, 1>>)}
====

# Verification of CSE5462-Network-Programming

The repository holds the work of a network programming course. Its core is
`src/final`: a user-level TCP. Applications (`ftpc`, `ftps`) call SOCKET, BIND,
ACCEPT, CONNECT, SEND and RECV of `tcpudp.c`; each call is a few UDP datagrams
to a local daemon (`tcpd.c`), which runs a selective-repeat protocol over UDP
through a *troll*, a simulator that loses, duplicates, reorders, delays and
garbles datagrams. A third process, `timer.c`, keeps the retransmission timers.
The other directories are earlier steps of the same work (`lab1` to `lab3`,
`proj1`) and simulation scripts (`lab4`, `lab5`, `proj2`).

This directory holds TLA+ modules for that code, the TLC configurations that
check them and proofs for TLAPS. `PROJECT.json` maps every definition to the
lines it models, and lists the runs, the mutants (plausible bugs every property
is tested against), the hazards and the theorems.

## The system

| part | state | operations | hard because |
|---|---|---|---|
| `ftpc` (`final/ftpc.c`) | the file position | CONNECT, then SEND of the header, the name and the chunks | it waits for the daemon in every call |
| `ftps` (`final/ftps.c`) | the session it serves | BIND, then for every client ACCEPT and the RECVs of a file | clients come while it serves another |
| front calls (`final/tcpudp.c`) | one UDP socket | a call is 1 to 4 datagrams to tcpd and one reply | all processes share the daemon's socket |
| client daemon (`final/tcpd.c`) | `ConnectedSockets` with `Base`, `Packages` (sent), `PendingPackages` (to be sent); `in_buffer_packages` | CONNECT, SEND, `recv_ack`, `recv_timer`, `handle_send_all_back` | acks, expiries, calls and requests to the timer cross each other |
| server daemon (`final/tcpd.c`) | `binded_sockets`, `waiting_ack_sockets`, `acked_sockets` with `Base`, `Packages`, `RecvBuffer` | BIND, ACCEPT, RECV, `recv_data`, `handle_ack_back`, `handle_recv_back` | copies, late copies, any order, sessions nobody has accepted |
| RTO (`final/tcpd.c`, `proj1/tcpd.c`) | two averages, the last sample or the last thirty sends | a sample from an ack, an RTO for a timer | which time an ack is measured from |
| timer (`final/timer.c`) | `TimerList`, deltas | start, cancel, update, callbacks | wakes up late and with requests waiting |
| troll | datagrams under way | lose, duplicate, reorder, garble | |
| `proj1` | a ring of ten packets, `tmp_save_buf`, a timer with absolute times | SEND and its signals, send, ack, forward | the ring wraps and fills |
| `lab3` | none | forward in both directions | the server reads datagrams as a stream |
| `lab2` | a TCP connection | `write`, `read` | short reads |
| `lab1` | a text buffer, what is carried over, a count | read a piece, search it | matches across pieces |
| `lab4`, `lab5`, `proj2` | ns-3 set-ups; a congestion control with a fixed window on top of ns-3's TCP | | |

The parts of `final` interact by datagrams only. A daemon is a single `select`
loop: it reads at most one call, one datagram per bound socket, one ack per
connected socket and one expiry, in this order, and ends every turn with
`handle_back_imformation`. What is hard in it is not threads but order: which
ack, expiry, call or datagram comes in which turn, what `select` reported before
a handler changed the state, what the timer has not been told yet, and which
copies of a datagram are still about. Nothing is persistent: a daemon that ends
takes its transfers with it. Front processes may end under a daemon that stays:
a client in the middle of its file, or any of them in the middle of a call, and
another one may be started in its place.

What makes each part correct:

* client daemon: its counter, its two lists and the timer agree; nothing in
  flight is unwatched; nothing that was acknowledged comes back; a SEND returns;
* server daemon: what it acknowledged it keeps; ftps gets every byte once, in
  order; a session is returned by one ACCEPT, whatever comes late;
* RTO: the estimates stay between what the acks say;
* timer: no callback early, none missed, none after a cancel;
* the whole: a reliable byte stream;
* front calls: a call is read whole and gets its own answer;
* `proj1`: the window slides only over what the server forwarded, unless a number was
  garbled into another;
* `lab1`: every match is counted, none twice.

## The modules

* **TcpdSender** - the client daemon with an abstract timer and network.
  `todo` and `inAcks` are what is left of the current turn, so the handlers are
  separate actions in the order of `main`, and `MsgReadable` is evaluated at the
  `select`, as `re_register_fd` does. `timerQ` holds the requests on their way
  to the timer, per package, `armed` its nodes, `expired` the expiries on their
  way back. A package is a socket and a sequence number; its bytes, its checksum
  (a predicate `garbled`) and the RTO are left out: a timer may expire at any time.
* **TcpdReceiver** - the server daemon with its `ftps` processes. `world` is chosen
  once: for every client the session number it drew, the port it connects to and
  the SENDs it makes before it ends, and the lengths `ftps` reads. A datagram of a
  client may arrive at any time and any number of times; the daemon knows of its
  client only the session number, which two may share. A byte is its client and
  its position, so `got`, what RECVs returned, can be compared with what was sent.
  `handle_ack_back` answers one waiting ACCEPT a step and `handle_recv_back` takes one
  package a step, as their loops do; the turn goes on when nothing is left to do.
* **DeltaTimer** - the timer's list, and **TimerSpec**, what it has to do: keep a
  time for every node. `KeepsTime` is the refinement of the second by the first.
* **TcpdSystem** - the two daemons and the troll composed by INSTANCE:
  `ServerSelects` takes the datagrams the client sent, and the client's acks are
  those the server sent. **ReliableStream** is the abstract specification: bytes
  in, the same bytes out. `IsReliableStream` and `IsFairReliableStream` are the
  refinements.
* **FrontCall** - the datagrams of the calls, between front processes and one
  daemon. The daemon reads a call's name and then, blocking, its arguments from
  whoever sent them. A process may be killed (`Ends`), with what waits on its
  socket, and another started in its place (`Follows`). `disturbed` records whether
  a process ever called between two datagrams of another's call, or was killed
  between two of its own.
* **RoundTrip** - the estimates behind the timers, of `final` and of `proj1`, which
  `version` tells apart. An average is a numerator over the common denominator
  `scale`, which every sample multiplies by 8 (`final`: 1/8 and 1/4) or by 32
  (`proj1`: 1/8, and 1/4 of a deviation from the new average). `exact` is the
  deviation of `final` with an `abs` that cuts nothing, `longest` the longest time
  from a first copy of a package to an ack of it. `stray` records whether an ack of
  `proj1` bore a number no package has. What the estimates are not used for, when
  packages are sent again, is left open.
* **EarlyTransfer** - the transfers of `lab2`, `lab3` and `proj1`, which share
  the same `ftpc` and `process_request`: `version` says which one a behaviour is
  of. For `proj1` it has the ring with its bitmap, the signals to SEND, the
  timer's list and the forwarding server. Two variables are history only:
  `forwarded`, the packets sent to `ftps`, and `misread`, the numbers acknowledged for
  a datagram of another packet.
* **CountMatches** - `lab1`: a step is a read of `main`, a turn of the loop of
  `kmp_match` or its return, which carries the end of a piece over to the next.
  `gen_next` is a recursive function; `cur_head` and `p` are left out, as they
  are `t` less `matched_len` and the pattern's place `matched_len`.
* **MC...** modules give TLC the constants. **TcpdSender_proofs**,
  **TcpdReceiver_proofs**, **TcpdSystem_proofs**, **DeltaTimer_proofs**,
  **FrontCall_proofs**, **EarlyTransfer_proofs**, **CountMatches_proofs** and
  **RoundTrip_proofs** hold the proofs.

The definitions whose name ends in a suffix after `_` and whose comment starts
with "Fault" are not part of a specification: they are the bugs the properties
are tested against.

## The runs

| run | bounds | what it shows |
|---|---|---|
| sender_safety | 1 socket, buffer of 2, 3 packages, 2 requests per package under way | the buffer's counter, the gate, the timer and both lists stay consistent |
| sender_live | 2 sockets, buffer of 1, 1 package each | a SEND that finds the buffer full returns; every package is acknowledged; no exit |
| receiver | 2 clients, 2 ports, 3 packages, six worlds | acks are never taken back, bytes come once and in order, sessions of two ports do not mix, every file comes whole that no ended client keeps `ftps` from |
| receiver_partial | 1 client | a finding, see below |
| timer | 3 nodes, durations 1, 2, 4, up to 5 s late | the delta list implements the timer |
| system_safety | 1 client, 2 packages, buffer of 2 | the whole implements the reliable stream, and forgets only what the server has |
| system_live | 1 client, 1 package, buffer of 1 | and the fair one: what was sent is received |
| early | 4 packets, window of 3, 1 fault, 2 acks waiting | see below |
| early_blocked | 4 packets, window of 2, no fault | a finding |
| front_call | an `ftpc` with 3 calls, an `ftps` with 5, an `ftps` in its place with 2, all of which may be killed | calls that nothing disturbs are read whole, answered and return |
| count_matches | files to 9, patterns to 4, two letters, a buffer of 7 | the count is right where the table is |
| round_trip | 3 packages, 2 records, 2.7 s in steps of 0.4, 0.9 and 1.7 s, up to 4 sends or 3 acks averaged in | the estimates stay between the samples |

Why the bounds are enough:

* The client's gate, window and counter can only go wrong at a full buffer, and
  sockets meet in the buffer and the timer only. With three packages and room
  for two, the window test skips a package, packages are sent again while
  others wait, and late acks of the first race expiries of the second. A second
  request of a package under way lets a start follow a cancel; a third needs
  the same package to be acknowledged or to expire again and repeats the pattern.
  Two sockets need a buffer of one to block each other.
* On the server, three packages allow a hole in the middle, a repetition behind
  and one ahead; two sizes, and RECVs that take one or two packages, half of one
  or more than the daemon holds, cover the loop of `handle_recv_back`. The six
  worlds are two clients of one `ftps`, of which one waits; one client each of two
  `ftps`; a client that ends after its first or its second SEND; and two clients
  with one number, at one `ftps` or at two. A third client could only wait longer.
* Three nodes and lateness beyond the longest duration let a late wake-up run
  over two nodes and into the third, cancel first, middle and last, and insert
  at every place.
* Four packets in a ring of three make it wrap and fill; `MaxFaults` is one
  fault of the troll (or one short read of a header): a datagram lost, or one that
  comes late, garbled in its body or into any number, or twice, where the number of the
  copy may be garbled too. A copy of a packet with the number of the next one is
  enough to slide the window over a packet not forwarded. `CleanTransfer` is about
  transfers without one; the other properties hold with it. `Garbage` is what a
  chunk read as a length may say: a wrong positive number or a negative one.
* In `FrontCall` a client and a server are enough for every overlap of two calls,
  and each uses every call it has; the third process is the server's successor.
* In `RoundTrip` the waits are below and above half a second and a second, where
  rounding and cutting differ; three packages and two records let a record be
  overwritten, read late and read before it was ever used. Numbers start where
  `random_ini_seq` starts them, and an ack may also bear number 0, which no package has.
* `TEXT_SIZE` 7 with patterns to 4 gives pieces that carry 0 to 3 letters, and
  files of 9 two or three pieces, the last of any length.

CHECK_DEADLOCK is off only where the system may really stop: when the server
daemon exits (receiver), when transfers or scripts are over (early,
early_blocked, front_call), when the program has ended (count_matches) and when
the bounded time is over (round_trip).

### Fairness

* A process that can take a step takes one at last (weak fairness of the turns
  of a daemon, of a front process, of the timer). The loops of the code poll
  nothing but `select`, and block only in calls that the model blocks in as well.
* `recv_timer` is strongly fair per package: a daemon reads one expiry a turn from
  one socket, a queue that is served in order, which the model keeps as a set.
* The troll loses, but not always: of a datagram that is sent again and again
  some copy arrives, and so does some ack (`FairLossy`, and in `TcpdSystem` the
  last two conjuncts of `Fairness`). Without it no protocol delivers anything.
* In `TcpdReceiver`, on its own, a package that a client SENDs gets through in the
  end unless it was acknowledged (the daemon of an ended client keeps sending).
* In `FrontCall` the clients that ACCEPT and RECV wait for come and send. In
  `EarlyTransfer` the troll delivers what it does not lose.

## Findings

* `receiver_partial`: a RECV that ends inside a package loses bytes.
  `handle_recv_back` (tcpd.c:416-422) copies the front of the package into
  `RecvBuffer` and cuts it off the package, but does not count it in
  `RecvBufferSize`; the loop goes on and copies over it. `ftpc` and `ftps` use the
  same chunk size and never ask for part of a package; any other front process may.
* `early_blocked`: in `proj1`, a SEND that finds the window full never returns.
  The daemon answers "block" and reads the packet into `tmp_save_buf`
  (proj1/tcpd.c:374-392); nothing sends it from there, and nothing ever sends the
  "unblock" that SEND waits for (proj1/wrap_func.c:90). The same full window
  makes every ack ignored: the search at proj1/tcpd.c:149 starts where it ends.

More observations have no run of their own:

* Calls of two front processes of one daemon can mix, and a process killed in the
  middle of a call leaves a daemon that waits for the rest of it (the states with
  `disturbed` of `FrontCall`).
* The daemon never closes a socket: an `ftps` that is killed and started again
  makes bind fail, and `exit(2)` (tcpd.c:607-612) ends every connection of the
  daemon (`Rebinds` in `FrontCall`).
* A client that ends early keeps `ftps` in a RECV for good, and with it every other
  client of that `ftps` (`Stuck` in `TcpdReceiver`).
* Of two clients that drew the same session number one file comes out, a mixture
  of both; each daemon believes its own was delivered.
* `ElapsedSeconds` (tcpd.c:239) is the time since the last package sent, not, as the
  comment above it says, "between send and ack response" of the package the ack is
  of; and `abs` at tcpd.c:492 is that of an int, so that the deviation Jacobson's
  algorithm (tcpd.c:487) would have is cut to whole seconds. `EstimatesBounded` and
  `CutBelowSecond` say what holds all the same.
* `proj1` looks at no checksum (`check_crc`, tcpd.c:240) and acknowledges whatever
  number a datagram bears. One whose number the troll garbled into that of another
  packet marks that packet, and the window slides over it although `ftps` may never
  get it (`misread` in `EarlyTransfer`); nothing is sent twice, so no later copy
  mends it. `SlidOverForwarded` says that this is the only way.
* An ack in `proj1` with a number no packet has is timed all the same: as minus one
  second (tcpd.c:532), or, if the number was garbled to 0 before thirty packets were
  sent, from 1970, as the records that were never used have number 0 and time 0
  (`stray` in `RoundTrip`). The numbers of packets start with 1 (`random_ini_seq`,
  tcpd.c:468), so that no ack of an intact datagram is mistaken.
* `gen_next` of `lab1` drops to zero on a mismatch instead of trying a shorter
  length, so that for the pattern `abaa` a match that overlaps the one before is
  missed (`CountsAll` is stated for patterns whose table is exact).
* `ftps` of `lab2` and `lab3` never ends a file after a short read of the header or a
  lost datagram; that of `lab2` reads zero bytes for good when its client ends early.
* The numbers of `proj1` wrap at 65535 and come again after 13107 chunks of 800 bytes.

## What is proved

`TcpdSender_proofs` proves, for every set of sockets, every buffer size and file
length and every bound on requests under way, that the specification of the
client's daemon implies

* `TypeCorrect`: the types;
* `CountCorrect` and `BoundCorrect`: `BufferCount` and `BufferBound`, the counter and
  its limit;
* `WatchCorrect`: `TimerAgrees`, that is `TimerWatches` and `PendingUntimed`;
* `NeverExits`: no handler meets what it does not know;
* `ReleaseIsFinal`: `StaysReleased`, an action property;
* `NoneStranded`: `WaitsForOlder`.

They follow from one inductive invariant, `IInv`. The properties alone are not
inductive, and its other conjuncts say why they hold:

* `LoopInv` - while a turn has handlers to run it has `handle_back_imformation` to
  run, and a call it has still to read was let through by the gate, and nothing
  in the turn has taken the room since: acks only make room. `BufferBound` needs it.
* `CallInv` - calls keep the protocol of `ftpc`. `NoExit` needs it.
* `UsedInv` - whatever is mentioned anywhere, an ack or an expiry included, has a
  number that was given out. It keeps a new package from being born acknowledged
  or timed, and with `CallInv` it makes the session of every expiry known.
* `CountInv` - the lists are finite, so that cardinalities can be reasoned with.
* `QueueInv` - a start on its way to the timer is the only one of its package, and
  its package has neither node nor expiry. `TimerWatches` and `PendingUntimed`
  need it when the timer serves a request.

There is one lemma for each action, with a step for each conjunct, and `NextIInv`
puts them together. The only assumption is `SenderAssumption`, in `TcpdSender`:
a buffer of at least one package, and at most 100000000 packages in a file, the
sentinel the code starts `MinSeq` with. `ReleaseIsFinal` and `NoneStranded` are
lemmas about a step (`ReleasedStep`, `WaitsStep`) under `IInv`.

`TcpdReceiver_proofs` proves, for every set of clients, ports and session numbers,
every file, every `BUF_LEN` and every `world`, the properties the run `receiver`
checks: `TypeCorrect`, `AckedCorrect` (`AckedIsKept`), `AcceptedCorrect`
(`AcceptedOnce`), `NeverExits` (`NoExit`), `OrderCorrect` (`InOrder`) and `AcceptedStays`
(`StaysAccepted`). The other conjuncts of its `IInv` are

* `CallInv` - every `ftps` is at a call, or waits for the reply to one that is still
  to be read or was read and noted. `NoExit` needs it, and so does whatever happens
  when a RECV is answered;
* `RecvInv` - what was noted of a RECV is of an `ftps` that waits for it;
* `HeldInv` and `TakenInv` - the packages of a session are its own, one for a number,
  from `Base` on, and the one at `Base` is not used up;
* `FreshInv` - of a session nobody accepted nothing was read;
* `StreamInv` - the bytes read and those in `RecvBuffer` are in order and come before
  what is left of the package at `Base`: the order of `InOrder`, however RECVs cut;
* `WholeInv` - where `ftps` reads whole packages they are also without a gap. This is
  the conjunct that the lost bytes of `receiver_partial` would break, and the reason
  `InOrder` and `StreamCorrect` ask for `WholePackages`.

`ReceiverAssumption` says which worlds there are: lengths that are not zero, and
numbers of clients, sessions and ports that are told apart.

`TcpdSystem_proofs` takes both by INSTANCE. `ClientSteps` and `ServerSteps` show that
a step of the system is one of `TcpdSender` or of `TcpdReceiver`, so that both
invariants hold in the system (`ClientCorrect`, `ServerCorrect`). Three more
conjuncts couple them: `ServerHas` (what the server holds, acknowledges or takes was
handed over by a SEND), `AcksTrue` (an ack on the way was sent) and `ForgottenIsAcked`
(a package the client forgot was acknowledged). `ForgottenCorrect` (`ForgottenIsKept`)
follows with `AckedIsKept`, and `StreamCorrect`, that the system implements
`ReliableStream`, from what a SEND does to `Base` and what a RECV does to `got`.
`SystemAssumption` adds to those of the daemons that every session has its own
number and its client SENDs the whole file.

`DeltaTimer_proofs` proves `TypeCorrect`, `NoneDueCorrect` (`NoneDueInList`) and
`TimeKept` (`KeepsTime`, the refinement of `TimerSpec`) for every set of packages and
of durations and any lateness. The first two are inductive together: that
`SendCallbacks` stops before nothing that is due needs the list in order. The
refinement rests on a relation, `Sees(list, f)`: the prefix sums of the deltas (`Due`)
are the times of `f`, in order, and nothing for those overdue, as an update stops at
zero. The lemmas say what each part of a turn does to the prefix sums (`UpdateIs`,
`PlaceIs`, `CancelIs`, `SuffixIs`), and then that it does to the list what `TimerSpec` does
to the function (`UpdateSees`, `PlaceSees`, `CancelSees`, `ServeSees`, `SendsBack`).
`TimerAssumption` is that no start asks for less than no time.

`FrontCall_proofs` proves `TypeCorrect`, `CallsWhole` (`CallWhole`), `AnswersOwn`
(`OwnAnswer`) and `NeverExits` (`NoExit`) for any processes and any calls of theirs.
`IInv` is made of the types and of `Calm`, which holds as long as no call is
disturbed:

* `QueueInv`, `LastInv` and `HandlerInv` - what the daemon reads and what waits at its
  socket are whole calls one after the other, but for the last, whose process is the
  only one in the middle of a call;
* `PlaceInv` - a call is in one place: in the queue, noted by the daemon, or answered;
* `DoneInv` - a CONNECT or a BIND that left the queue was done, so that a SEND finds
  its socket and only a port that is bound twice makes bind fail.

`FrontAssumption` says of the scripts what `ftpc.c:76-117` and `ftps.c:53` do: a SEND
comes after a CONNECT, and a process binds once.

`EarlyTransfer_proofs` proves `TypeCorrect`, `RingCorrect` (`WindowRing`), `SlidCorrect`
(`SlidOverForwarded`), `SendsCorrect` (`SendsTaken`) and `TimerCorrect` (`TimerForgets`) for
a ring of any size, any file and any number of faults. Its `IInv` counts packets
instead of going round the ring: `base` is the last packet that left the window,
`Window` those in it, and `Slot(k)`, the remainder of `k`, the slot of packet `k`.

* `RingInv` - the indices are the slots of the counts, and the slot of every packet of
  the window holds it. Packets less than a round apart have different slots
  (`SlotsDiffer`), which is why a new one overwrites none that is in the window, and
  why the daemon must stop at a window that is full;
* `ForwardedInv` - of every packet the client was told of (`Told`: it left the window or
  is marked in it), and of every ack on the way, the server heard (`Heard`: it forwarded
  the packet, or another datagram that was garbled to bear its number). A bit an earlier
  packet left does not tell, as `save_packet` clears it;
* `TimerInv` - every packet the client was told of is untimed: the timer has no node
  of it and no start on its way, or a cancel with no start behind;
* `CallInv` - a SEND is in one of five places, of which it never leaves `Stuck`: the
  finding of `early_blocked`.

`SlideIs` says that the `CHOOSE` of `Slide` has a value, and which. The only
assumption is `TransferAssumption`, with positive sizes and at least two packets: a
transfer always has the length and the name of its file.

`FileArrives` is the safety half of `CleanTransfer`, stated as `ArrivesClean`: as long
as the troll has made no fault, what `ftps` has of the file is the front of it, and
it has all of it once ftpc has sent everything and nothing is on its way; a child of
`lab2` closes after exactly the bytes that were written, however short its reads of
the file are. Two invariants on top of `IInv` carry it. `PacketsInv`: all that was
sent and not read is one line of packets without a gap, from the inbox of `ftps`
through the troll to the client's daemon, and `Reading(d)` is where `process_request`
is after `d` packets. `BytesInv`: where a child of `lab2` is follows from how many
bytes it took. `SumOfPart`, `OffsetIs` and `OffsetGrows` say that `left_len` is what is
left of the stream, so that the loops end at zero and not beside it. `Header`, the
hypothesis, is that ftpc sends 4 bytes and then 25 (`proj1/ftpc.c:105,112` and the
same lines of the labs). `ArrivesClean` is defined with its proof; that something
happens at all is what the run `early` checks of `CleanTransfer`.

`CountMatches_proofs` proves `TypeCorrect`, `NoneTwice` (`NeverOvercounts`) and
`NoneMissed` (`CountsAll`) for every alphabet, file, pattern and size of the buffer.
Its `IInv` adds to the three properties

* `Placed` - the buffer holds the last characters read, and between two pieces only
  as many as a match that has begun may need, one less than the pattern has;
* `Matched` - the characters before `t` are the first `matched_len` of the pattern;
* `Longest` - if the table is exact and more than `matched_len` characters before `t`
  begin the pattern, the one at `t` does not go on with them: the search may drop
  them without missing a match.

`TableBorder` says what `gen_next` returns: lengths at which the first characters of a
pattern start again at their end. It holds of every pattern, and `NeverOvercounts`
rests on it; `CountsAll` needs `NextIsExact` too, which is false of patterns such as
`abaa` (see Findings), and `ExactTable` turns it into what a mismatch may drop. `OneMore`
says when one more character is the end of a match, `Passed` and `SameCount` what that
does to the number of places, and `Consumed`, `Rises` and `Falls` how a turn of the loop
moves. `CountAssumption` bounds the pattern by half the buffer, as `strncpy` asks, and
the lengths by numbers; no alphabet is excluded.

Sums of lengths and tables are functions defined by recursion over the naturals.
That they exist (`SumsExist`, `TableExists`), what a step adds (`SumStep`, `TableOf`), and
what holds at every place because it goes from each to the next (`UpTo`,
`TableBorder`, `SumNat`), comes from the naturals being well-founded, by way of a least
counterexample, `LeastElement`. Every module has the few it needs.

`RoundTrip_proofs` proves `TypeCorrect`, `EstimatesCorrect` (`EstimatesBounded`) and
`CutCorrect` (`CutBelowSecond`) for every set of packages, every length of the
buffer of records, all times and any number of samples, where the run stops after
four. Its invariant adds to the properties

* `ClockInv` - no sample of `final` is longer than `longest`: the last send is not
  before the first copy of anything that was sent;
* `RecordInv` - a record of `proj1` was never used, and has number 0, or says when the
  package of its number was sent. With numbers from 1 on (`NumberOK`) an ack of a package
  is therefore timed by its own record or by none (`GetRttOK`);
* `EstimateInv` - the deviation of `final` has the bound of the average, without
  which their weighted sum has none.

The products with `scale` are the only non-linear terms. `Grows`, `Units`, `AbsCuts`
and `LongestGrows` say what is needed of them; each step then names them and is
linear. `LastRecorded`, that the search for the last record finds one, uses that
the naturals are well-founded. The only assumption is `RoundTripAssumption`: a
second is a multiple of .01 s, there is a record, and the clock has left zero.

## What is only model-checked

Liveness under fairness, which the prover cannot do: `PackagesReleased`, `CallsReturn`,
`FilesReceived`, `NodesLeave`, `CallReturns`, `CleanTransfer` and
`IsFairReliableStream`. Of `CleanTransfer` the half that is safety is proved
(`FileArrives`), of `IsFairReliableStream` all but the fairness (`StreamCorrect`). Every
other property that a passing run checks is a theorem.

## What is not modelled, and why

* Checksums (`crc32.c`, `checksum.c`, the CRC of `proj1`): a garbled datagram is
  taken to be noticed by `final`, and to be ignored by `proj1`, as the code does.
* The rounding of doubles in the estimates; and their effect on the timers: the
  timers of the daemons' models expire at any time, which includes every RTO.
* `driver.c`, a fixed test script for the timer, the troll's own code, examples
  (`client.c`, `server.c`) and files that transfers produced (`recvd_*`).
* `lab4`, `lab5`, `proj2`: set-ups of ns-3 simulations, and `TcpFixed`, whose state
  and transmissions are those of ns-3's `TcpSocketBase`: only the window, a constant,
  is its own.
* The byte ring of `proj1` (tcpd.c:552-721), which is commented out but for
  `buffer_empty_size`, which nothing calls.
* The other system calls that may fail, which end the process in all of the code;
  and a daemon that ends and is started again, with which every connection is lost.
* Calls that `ftpc` and `ftps` never make: a SEND of more than `BUF_LEN` bytes, which
  ends the client's daemon (tcpd.c:845-849), and a RECV of no bytes, which is answered
  at once (tcpd.c:722-732).
* A new process that is given the UDP port of one that was killed, and may get its
  answer: in `FrontCall` an answer to a killed process is lost.
* What `ftpc` and `ftps` of `final` do with the file: its name, its size and its bytes.

## What is left

Every part the sections above name as modelled is checked, and every safety
property of the runs is proved. What would come next is the composition
(`TcpdSystem`) of two clients that drew the same session number: `TcpdReceiver` has
them, but which of the two clients forgets packages the server does not hold
(see Findings) is stated by no property.

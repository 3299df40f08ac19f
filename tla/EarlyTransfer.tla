---------------------------- MODULE EarlyTransfer -----------------------------
(***************************************************************************)
(* The file transfers that came before src/final: ftpc sends the length of *)
(* a file, its name and its bytes, and process_request of ftps reads them. *)
(*   lab2   over TCP; a read may return less than it asks for              *)
(*   lab3   through a daemon that forwards every packet of ftpc to the     *)
(*          troll, and another that forwards its datagrams to ftps         *)
(*   proj1  through a daemon that also keeps a packet in a ring of         *)
(*          WINDOW_SIZE slots until it is acknowledged, starts a timer for *)
(*          it and tells ftpc what became of its SEND, and another that    *)
(*          acknowledges what it forwards                                  *)
(* None of them sends anything twice.                                      *)
(*                                                                         *)
(* Packet k is the k-th SEND of ftpc and stands for its sequence number    *)
(* too: the numbers (seq + bytes) % 65535 of proj1/tcpd.c:125 repeat only  *)
(* after 13107 chunks of 800 bytes.  Sizes[k] is its length.  Time is left *)
(* out: a node of the timer may be due whenever the timer looks.           *)
(***************************************************************************)
EXTENDS Integers, Sequences, FiniteSets, SequencesExt

CONSTANTS
  WINDOW_SIZE,
  Sizes,         \* lengths of the packets: file length, file name, chunks
  Garbage,       \* what a chunk read as the length of a file may say
  MaxFaults,     \* bound: faults of the troll, short reads of a header
  MaxAcks        \* bound: acks that wait to be read

ASSUME TransferAssumption ==
  /\ WINDOW_SIZE \in Nat \ {0} /\ MaxFaults \in Nat /\ MaxAcks \in Nat \ {0}
  /\ Sizes \in Seq(Nat \ {0}) /\ Len(Sizes) >= 2 /\ Garbage \subseteq Int

N == Len(Sizes)
Packets == 1 .. N
Unknown == 0          \* a sequence number that is in no window
Slots == 0 .. WINDOW_SIZE - 1
NameSize == 25

VARIABLES
  version,        \* "lab2", "lab3" or "proj1"
  call,           \* ftpc: "idle" between SENDs, "wait" for a signal
  sends,          \* SENDs that returned
  blocking,       \* the static of SEND
  signals,        \* datagrams to BLOCK_SIG
  local,          \* datagrams on sock_client_local
  ready,          \* what the client's select reported and is not yet served
  last_ack, last_send, num_empty, ack_bitmap, troll_headers,  \* window_client
  seq,            \* packets numbered so far
  tmp_save_buf,   \* packets that went to the temporary buffer
  pipe,           \* commands to the timer
  nodes,          \* the list of the timer
  under, faults,  \* datagrams in the troll, and its faults so far
  acks,           \* on sock_client_remote
  inbox,          \* datagrams to ftps
  forwarded,      \* packets that were sent to ftps
  misread,        \* packets whose number was acknowledged for another packet
  taken,          \* lab2: bytes of the stream that were read
  ftps            \* where process_request is

ftpcVars   == <<call, sends, blocking>>
window     == <<last_ack, last_send, num_empty, ack_bitmap, troll_headers>>
timerVars  == <<pipe, nodes>>
serverVars == <<inbox, forwarded, misread, taken, ftps>>
vars == <<version, ftpcVars, signals, local, ready, window, seq, tmp_save_buf, timerVars,
          under, faults, acks, serverVars>>

next(i) == (i + 1) % WINDOW_SIZE
outstanding == WINDOW_SIZE - num_empty

AtLen == [at |-> "len", rec_len |-> 0, left |-> 0, got |-> <<>>]

\* Only the first eight bytes are cleared: the slots hold anything.
window_init ==
  /\ last_ack = 0 /\ last_send = 0 /\ num_empty = WINDOW_SIZE
  /\ ack_bitmap \in {[i \in Slots |-> b] : b \in {0, 1}}
  /\ troll_headers \in {[i \in Slots |-> k] : k \in {Unknown, 1}}

Init ==
  /\ version \in {"lab2", "lab3", "proj1"}
  /\ call = "idle" /\ sends = 0 /\ blocking = FALSE /\ signals = <<>> /\ local = <<>>
  /\ ready = {}
  /\ window_init
  /\ seq = 0 /\ tmp_save_buf = {}
  /\ pipe = <<>> /\ nodes = {}
  /\ under = <<>> /\ faults = 0 /\ acks = <<>>
  /\ inbox = <<>> /\ forwarded = {} /\ misread = {} /\ taken = 0 /\ ftps = AtLen

----------------------------------------------------------------------------
\* ftpc

\* lab2: a write, which TCP takes whole.
Writes ==
  /\ version = "lab2" /\ sends < N /\ ftps.at /= "closed"
  /\ sends' = sends + 1
  /\ UNCHANGED <<version, call, blocking, signals, local, ready, window, seq, tmp_save_buf, timerVars,
                 under, faults, acks, serverVars>>

\* lab3: a SEND is one sendto.
SendsAway ==
  /\ version = "lab3" /\ sends < N
  /\ local' = Append(local, sends + 1)
  /\ sends' = sends + 1
  /\ UNCHANGED <<version, call, blocking, signals, ready, window, seq, tmp_save_buf, timerVars,
                 under, faults, acks, serverVars>>

\* proj1: a SEND hands its packet to tcpd, unless an earlier signal said
\* "block", and waits for a signal.
SEND ==
  /\ version = "proj1" /\ call = "idle" /\ sends < N
  /\ call' = "wait"
  /\ local' = IF blocking THEN local ELSE Append(local, sends + 1)
  /\ UNCHANGED <<version, sends, blocking, signals, ready, window, seq, tmp_save_buf, timerVars,
                 under, faults, acks, serverVars>>

\* A signal: SEND returns when it says "received" or "unblock" and goes on
\* waiting, without sending again, when it says "block".
Signalled ==
  /\ call = "wait" /\ signals /= <<>>
  /\ signals' = Tail(signals)
  /\ IF Head(signals) = "block"
       THEN blocking' = TRUE /\ UNCHANGED <<call, sends>>
       ELSE /\ blocking' = (blocking /\ Head(signals) /= "unblock")
            /\ call' = "idle" /\ sends' = sends + 1
  /\ UNCHANGED <<version, local, ready, window, seq, tmp_save_buf, timerVars, under, faults,
                 acks, serverVars>>

----------------------------------------------------------------------------
\* The client's tcpd

Select ==
  /\ ready = {}
  /\ ready' = {f \in {"local", "ack"} : IF f = "local" THEN local /= <<>> ELSE acks /= <<>>}
  /\ ready' /= {}
  /\ UNCHANGED <<version, ftpcVars, signals, local, window, seq, tmp_save_buf, timerVars, under,
                 faults, acks, serverVars>>

\* Fault: the test that the window is full comes one packet late.
window_full_late == num_empty < 0

window_full == num_empty = 0

\* Fault: ftpc is told that its packet was received.
block_sending_and_save_received ==
  /\ version = "proj1" /\ "local" \in ready /\ window_full
  /\ signals' = Append(signals, "received")
  /\ tmp_save_buf' = tmp_save_buf \cup {Head(local)}
  /\ local' = Tail(local)
  /\ ready' = {}
  /\ UNCHANGED <<version, ftpcVars, window, seq, timerVars, under, faults, acks, serverVars>>

\* block_sending_and_save: the packet goes to the temporary buffer, and the
\* rest of the turn is skipped.
block_sending_and_save ==
  /\ version = "proj1" /\ "local" \in ready /\ window_full
  /\ signals' = Append(signals, "block")
  /\ tmp_save_buf' = tmp_save_buf \cup {Head(local)}
  /\ local' = Tail(local)
  /\ ready' = {}
  /\ UNCHANGED <<version, ftpcVars, window, seq, timerVars, under, faults, acks, serverVars>>

\* Fault: the slot keeps the bit of the packet before.
save_packet_stale(k) ==
  /\ troll_headers' = [troll_headers EXCEPT ![next(last_send)] = k]
  /\ last_send' = next(last_send)
  /\ num_empty' = num_empty - 1
  /\ UNCHANGED <<last_ack, ack_bitmap>>

save_packet(k) ==
  /\ ack_bitmap' = [ack_bitmap EXCEPT ![next(last_send)] = 0]
  /\ troll_headers' = [troll_headers EXCEPT ![next(last_send)] = k]
  /\ last_send' = next(last_send)
  /\ num_empty' = num_empty - 1
  /\ UNCHANGED last_ack

generate_TrollHeader(k, n) == [pkt |-> k, intact |-> TRUE, seq |-> n]

\* lab3: a packet of ftpc is sent.
Forwards ==
  /\ version = "lab3" /\ "local" \in ready
  /\ local' = Tail(local)
  /\ under' = Append(under, generate_TrollHeader(Head(local), Unknown))
  /\ ready' = ready \ {"local"}
  /\ UNCHANGED <<version, ftpcVars, signals, window, seq, tmp_save_buf, timerVars, faults, acks,
                 serverVars>>

\* Fault: ftpc is answered only when the window is full.
send_recv_to_ftpc_silent == UNCHANGED signals

send_recv_to_ftpc == signals' = Append(signals, "received")

send_to_timer(k) == pipe' = Append(pipe, <<"s", k>>)

\* proj1: a packet of ftpc is sent, timed and saved.
LocalData ==
  /\ version = "proj1" /\ "local" \in ready /\ ~window_full
  /\ send_recv_to_ftpc
  /\ local' = Tail(local)
  /\ under' = Append(under, generate_TrollHeader(Head(local), seq + 1))
  /\ send_to_timer(seq + 1)
  /\ save_packet(seq + 1)
  /\ seq' = seq + 1
  /\ ready' = ready \ {"local"}
  /\ UNCHANGED <<version, ftpcVars, tmp_save_buf, nodes, faults, acks, serverVars>>

\* The slots the search of an ack goes through: from after last_ack to
\* last_send, so none of a window that is full.
Searched == {i \in Slots : (i - next(last_ack)) % WINDOW_SIZE
                             < (last_send - last_ack) % WINDOW_SIZE}

Acked(k) ==
  [i \in Slots |-> IF i \in Searched /\ troll_headers[i] = k THEN 1 ELSE ack_bitmap[i]]

\* Fault: the window slides by the number of packets acknowledged.
Slide_counts(bitmap) ==
  Cardinality({j \in 1 .. outstanding : bitmap[(last_ack + j) % WINDOW_SIZE] = 1})

\* How far the window slides: over the acknowledged packets at its front.
Slide(bitmap) ==
  CHOOSE n \in 0 .. outstanding :
    /\ \A j \in 1 .. n : bitmap[(last_ack + j) % WINDOW_SIZE] = 1
    /\ n < outstanding => bitmap[(last_ack + n + 1) % WINDOW_SIZE] = 0

\* Fault: an ack cancels the timer of the oldest packet.
delete_from_timer_oldest(k) == Append(pipe, <<"c", troll_headers[next(last_ack)]>>)

delete_from_timer(k) == Append(pipe, <<"c", k>>)

\* An ack marks its packet, lets the window slide and cancels the timer.
AckRead ==
  /\ "local" \notin ready /\ "ack" \in ready
  /\ LET k == Head(acks)
     IN /\ ack_bitmap' = Acked(k)
        /\ last_ack' = (last_ack + Slide(Acked(k))) % WINDOW_SIZE
        /\ num_empty' = num_empty + Slide(Acked(k))
        /\ pipe' = delete_from_timer(k)
  /\ acks' = Tail(acks)
  /\ ready' = ready \ {"ack"}
  /\ UNCHANGED <<version, ftpcVars, signals, local, last_send, troll_headers, seq, tmp_save_buf, nodes,
                 under, faults, serverVars>>

----------------------------------------------------------------------------
\* The timer process

insert(list, k) == list \cup {k}
delele(list, k) == list \ {k}

\* What is due leaves the list and is told nobody.
update(list) == SUBSET list

\* A turn drops the nodes that are due and serves one command.
TimerTurn ==
  /\ pipe /= <<>>
  /\ pipe' = Tail(pipe)
  /\ LET k == Head(pipe)[2]
     IN \E list \in update(nodes) :
          nodes' = IF Head(pipe)[1] = "s" THEN insert(list, k) ELSE delele(list, k)
  /\ UNCHANGED <<version, ftpcVars, signals, local, ready, window, seq, tmp_save_buf, under, faults,
                 acks, serverVars>>

----------------------------------------------------------------------------
\* The troll

\* A datagram whose number is garbled: into that of any packet, sent or not, or
\* of none.
Renumbered(d) == {[d EXCEPT !.seq = n] : n \in Packets \cup {Unknown}}

\* A datagram is lost, overtaken, garbled in its body or number, or repeated, with
\* the number of the copy as it was or garbled.
Fault ==
  /\ faults < MaxFaults
  /\ faults' = faults + 1
  /\ \E i \in DOMAIN under :
       under' \in {RemoveAt(under, i), Append(RemoveAt(under, i), under[i]),
                   [under EXCEPT ![i].intact = FALSE]}
                  \cup UNION {{ReplaceAt(under, i, d), Append(under, d)} :
                               d \in Renumbered(under[i])}
  /\ UNCHANGED <<version, ftpcVars, signals, local, ready, window, seq, tmp_save_buf, timerVars, acks,
                 serverVars>>

----------------------------------------------------------------------------
\* The server

\* lab3: the server's tcpd forwards a packet.
ForwardsRemote ==
  /\ version = "lab3" /\ under /= <<>>
  /\ inbox' = Append(inbox, [pkt |-> Head(under).pkt, intact |-> Head(under).intact])
  /\ under' = Tail(under)
  /\ UNCHANGED <<version, ftpcVars, signals, local, ready, window, seq, tmp_save_buf, timerVars,
                 faults, acks, forwarded, misread, taken, ftps>>

\* proj1: it also acknowledges it, by the number it bears, whatever its checksum
\* says.
RemoteData ==
  /\ version = "proj1" /\ under /= <<>> /\ Len(acks) < MaxAcks
  /\ LET head == Head(under)
     IN /\ inbox' = Append(inbox, [pkt |-> head.pkt, intact |-> head.intact])
        /\ forwarded' = forwarded \cup {head.pkt}
        /\ misread' = misread \cup ({head.seq} \ {head.pkt})
        /\ acks' = Append(acks, head.seq)
  /\ under' = Tail(under)
  /\ UNCHANGED <<version, ftpcVars, signals, local, ready, window, seq, tmp_save_buf, timerVars, faults,
                 taken, ftps>>

Sum(sizes) ==
  LET sum[k \in 0 .. Len(sizes)] == IF k = 0 THEN 0 ELSE sum[k - 1] + sizes[k]
  IN sum[Len(sizes)]

FileLen == Sum(SubSeq(Sizes, 3, N))

\* The loop of proj1 ends when left_len is not positive, those of the others
\* when it is zero.
Left(left) == left > 0 \/ (version /= "proj1" /\ left /= 0)

\* lab2 closes the connection; the others read the next length.
AfterFile == IF version = "lab2" THEN [AtLen EXCEPT !.at = "closed"] ELSE AtLen

Body(left, got) ==
  IF Left(left)
    THEN [at |-> "body", rec_len |-> 0, left |-> left, got |-> got]
    ELSE [AfterFile EXCEPT !.got = got]

\* A datagram for the recvfrom of a RECV.
RECV ==
  /\ inbox /= <<>>
  /\ inbox' = Tail(inbox)
  /\ UNCHANGED <<version, ftpcVars, signals, local, ready, window, seq, tmp_save_buf, timerVars, under,
                 faults, acks, forwarded, misread, taken>>

\* Whatever comes first is the length of the file.
RecvLength ==
  /\ RECV /\ ftps.at = "len"
  /\ \E n \in IF Head(inbox).pkt = 1 /\ Head(inbox).intact THEN {FileLen} ELSE Garbage :
       ftps' = [at |-> "name", rec_len |-> 0, left |-> n, got |-> <<>>]

\* Datagrams are read until exactly 25 bytes are.
RecvName ==
  /\ RECV /\ ftps.at = "name"
  /\ LET read == ftps.rec_len + Min({NameSize, Sizes[Head(inbox).pkt]})
     IN ftps' = IF read = NameSize
                  THEN Body(ftps.left, <<>>)
                  ELSE [ftps EXCEPT !.rec_len = Min({read, NameSize + 1})]

RecvBody ==
  /\ RECV /\ ftps.at = "body"
  /\ LET b == Head(inbox)
     IN ftps' = Body(ftps.left - Sizes[b.pkt],
                     Append(ftps.got, IF b.intact THEN b.pkt ELSE Unknown))

Written == Sum(SubSeq(Sizes, 1, sends)) - taken

\* lab2: what a read of n bytes may return: all, what there is, or less (here
\* a half).
Readable(n) == {Min({n, Written}), (Min({n, Written}) + 1) \div 2}

read(k) ==
  /\ version = "lab2" /\ Written > 0
  /\ taken' = taken + k
  /\ UNCHANGED <<version, ftpcVars, signals, local, ready, window, seq, tmp_save_buf, timerVars, under,
                 acks, inbox, forwarded, misread>>

\* The length or the name: a read goes to the start of the buffer whatever
\* was read before, and the loop ends when exactly size bytes were read.
ReadHeader(at, size) ==
  /\ ftps.at = at
  /\ \E k \in Readable(size) :
       /\ read(k)
       /\ IF k = Min({size, Written})
            THEN UNCHANGED faults
            ELSE faults < MaxFaults /\ faults' = faults + 1
       /\ IF ftps.rec_len + k /= size
            THEN ftps' = [ftps EXCEPT !.rec_len = Min({ftps.rec_len + k, size + 1})]
          ELSE IF at = "name"
            THEN ftps' = Body(ftps.left, <<taken + k>>)
          ELSE \E n \in IF k = size /\ taken = 0 THEN {FileLen} ELSE Garbage :
                 ftps' = [at |-> "name", rec_len |-> 0, left |-> n, got |-> <<>>]

\* The file: got keeps where in the stream it began.
ReadBody ==
  /\ ftps.at = "body"
  /\ \E k \in Readable(1000) :
       /\ read(k)
       /\ ftps' = Body(ftps.left - k, ftps.got)
  /\ UNCHANGED faults

----------------------------------------------------------------------------
Client == Writes \/ SendsAway \/ SEND \/ Signalled
Tcpd == Select \/ Forwards \/ block_sending_and_save \/ LocalData \/ AckRead
ServerTcpd == ForwardsRemote \/ RemoteData

process_request ==
  \/ RecvLength \/ RecvName \/ RecvBody
  \/ ReadHeader("len", 4) \/ ReadHeader("name", NameSize) \/ ReadBody

Next == Client \/ Tcpd \/ TimerTurn \/ Fault \/ ServerTcpd \/ process_request

Spec == Init /\ [][Next]_vars

\* Every process keeps running, and the troll delivers what it does not lose.
FairSpec == Spec /\ WF_vars(Client) /\ WF_vars(Tcpd) /\ WF_vars(TimerTurn)
                 /\ WF_vars(ServerTcpd) /\ WF_vars(process_request)

----------------------------------------------------------------------------
\* Properties

\* Every variable keeps its type.
TypeOK ==
  /\ version \in {"lab2", "lab3", "proj1"} /\ call \in {"idle", "wait"} /\ sends \in 0 .. N /\ blocking \in BOOLEAN
  /\ signals \in Seq({"block", "received"}) /\ local \in Seq(Packets)
  /\ ready \subseteq {"local", "ack"}
  /\ last_ack \in Slots /\ last_send \in Slots /\ num_empty \in 0 .. WINDOW_SIZE
  /\ ack_bitmap \in [Slots -> {0, 1}] /\ troll_headers \in [Slots -> Packets \cup {Unknown}]
  /\ seq \in 0 .. N /\ tmp_save_buf \subseteq Packets
  /\ pipe \in Seq({"s", "c"} \X (Packets \cup {Unknown})) /\ nodes \subseteq Packets
  /\ faults \in 0 .. MaxFaults /\ Len(acks) <= MaxAcks
  /\ ftps.at \in {"len", "name", "body", "closed"} /\ ftps.rec_len \in 0 .. NameSize + 1

\* The ring (save_packet, and the two loops of an ack): its count and its two
\* indices agree, its slots hold the last packets in order, and its front is
\* not acknowledged, so that it never slides late.
WindowRing ==
  /\ outstanding % WINDOW_SIZE = (last_send - last_ack) % WINDOW_SIZE
  /\ \A j \in 1 .. outstanding :
       troll_headers[(last_ack + j) % WINDOW_SIZE] = seq - outstanding + j
  /\ outstanding > 0 => ack_bitmap[next(last_ack)] = 0

\* A packet leaves the window, or is marked in it, only when the server has
\* forwarded it, or another datagram that was garbled to bear its number: a bit
\* that an earlier packet left in its slot never counts, nor does an ack that was
\* ignored, overtaken, repeated or read before the packet was sent.
SlidOverForwarded ==
  /\ 1 .. seq - outstanding \subseteq forwarded \cup misread
  /\ \A j \in 1 .. outstanding :
       ack_bitmap[(last_ack + j) % WINDOW_SIZE] = 1 =>
         (seq - outstanding + j) \in forwarded \cup misread

\* proj1: what ftpc handed over is in the window, once, or in the temporary
\* buffer, or not read yet; a SEND returns only for a packet of the first kind.
SendsTaken ==
  version = "proj1" =>
  /\ sends <= seq
  /\ blocking \/ seq + Len(local) + Cardinality(tmp_save_buf)
                    = sends + (IF call = "wait" THEN 1 ELSE 0)
  /\ blocking => seq = sends /\ tmp_save_buf = {sends + 1}

\* A packet that left the window is timed no more once the timer has read its
\* commands: no start overtakes a cancel, and every ack cancels.
TimerForgets ==
  \A k \in 1 .. seq - outstanding :
    k \in nodes \/ Contains(pipe, <<"s", k>>) =>
      \E i \in DOMAIN pipe : /\ pipe[i] = <<"c", k>>
                            /\ ~Contains(SubSeq(pipe, i, Len(pipe)), <<"s", k>>)

\* If the troll is faultless and the window never full, ftps gets the whole
\* file in order and every packet leaves the window (lab3 has no window).  If
\* the two reads of the header are whole, lab2 reads the whole file and not a
\* byte else, however short the reads of the file are.
CleanTransfer ==
  [](faults = 0 /\ num_empty > 0) =>
    <>(/\ sends = N /\ num_empty = WINDOW_SIZE
       /\ IF version = "lab2"
            THEN ftps.at = "closed" /\ ftps.got = <<4 + NameSize>> /\ taken = Sum(Sizes)
            ELSE ftps.got = [i \in 1 .. N - 2 |-> i + 2])

\* A SEND returns: proj1/wrap_func.c:92 waits for "The tcpd window has empty
\* space, unblock!", and proj1/tcpd.c:387 saves its packet for the time being.
SendReturns == call = "wait" ~> call = "idle"

====

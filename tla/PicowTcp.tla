------------------------------ MODULE PicowTcp ------------------------------
(***************************************************************************)
(* The TCP client of src/picow_net/picow_tcp.c, its one static socket      *)
(* g_tcp, the program that calls it (src/ssh/picow_ssh_runtime.c through   *)
(* src/ssh/picow_ssh_platform.c) and, outside the repository, the network  *)
(* and a conforming TCP server.                                            *)
(*                                                                         *)
(* The client is single threaded: frames reach tcp_handle_ipv4 only inside *)
(* picow_net_poll, that is, while one of the blocking calls connect, read, *)
(* write or poll_fd is in its wait loop.  `pc' names that call.  A wait    *)
(* loop is left when its condition fails or its deadline has passed; the   *)
(* clock is not modelled, so a deadline may have passed at any check.      *)
(*                                                                         *)
(* The network is two growing sets of segments: a segment is delivered at  *)
(* any time, any number of times, in any order, or never.                  *)
(*                                                                         *)
(* Bytes are identified by their position (1, 2, ...) in the stream of the *)
(* program or of the peer.  Sequence numbers are those on the wire: they   *)
(* start at arbitrary Isn and PeerIsn and wrap at SeqMod (2^32 in C).      *)
(***************************************************************************)
EXTENDS Integers, Sequences

CONSTANTS
  RxCapacity,   \* TCP_RX_CAPACITY: bytes in the receive ring
  Mss,          \* TCP_MSS: largest payload, in both directions
  SeqMod,       \* sequence numbers are 0 .. SeqMod - 1
  Isn,          \* get_rand_32() in connect
  PeerIsn,      \* initial sequence number of the peer
  Attempts,     \* SYNs connect sends before it gives up
  AppLen,       \* bytes the program wants to write
  PeerLen,      \* bytes of the peer's stream
  SndSpan,      \* bound: sequence numbers the program's writes may use up
  Overshoot     \* bytes the peer may send beyond the window (window probes)

ASSUME SizeAssumption ==
  /\ RxCapacity \in Nat \ {0} /\ Mss \in Nat \ {0} /\ SeqMod \in Nat \ {0}
  /\ Attempts \in Nat \ {0} /\ AppLen \in Nat /\ PeerLen \in Nat
  /\ SndSpan \in Nat /\ Overshoot \in Nat
ASSUME SeqAssumption ==
  /\ Isn \in 0 .. SeqMod - 1 /\ PeerIsn \in 0 .. SeqMod - 1
  /\ 2 * (SndSpan + 2) < SeqMod
  /\ PeerLen + RxCapacity + Mss + 2 < SeqMod

VARIABLES
  state, snd_una, snd_nxt, rcv_nxt, rx, rx_start, rx_len,     \* g_tcp
  overflowed,   \* g_tcp_debug.rx_overflow_events # 0
  ackTimeout,   \* g_tcp_debug.write_ack_timeouts # 0
  handler,      \* tcp_handle_ipv4 is installed in picow_net
  pc,           \* the call in progress, or "idle"
  attempt,      \* connect: number of the SYN being waited on
  wr,           \* write: count, sent, chunk and end_seq
  forever,      \* poll_fd: negative timeout, no deadline
  phase,        \* of the program: "start", "open" (it holds the descriptor),
                \* "failed" (a read or write failed, it will only close), "done"
  got,          \* bytes read so far, in the order the program saw them
  told,         \* bytes the program was told were written
  toPeer, toClient,                                           \* network
  pState, pSent, pFin, pEdge, pGot, pClosed                   \* peer

sock == <<state, snd_una, snd_nxt, rcv_nxt, rx, rx_start, rx_len, overflowed,
          ackTimeout, handler>>
caller == <<pc, attempt, wr, forever, phase, got, told>>
peer == <<pState, pSent, pFin, pEdge, pGot, pClosed>>
vars == <<sock, caller, toPeer, toClient, peer>>

States == {"CLOSED", "SYN_SENT", "ESTABLISHED", "CLOSE_WAIT", "FIN_WAIT_1",
           "FIN_WAIT_2"}
SeqNums == 0 .. SeqMod - 1
Least(a, b) == IF a <= b THEN a ELSE b
Most(a, b) == IF a <= b THEN b ELSE a
NoWrite == [count |-> 0, sent |-> 0, chunk |-> 0, end_seq |-> 0]

-----------------------------------------------------------------------------
(* Sequence arithmetic and the receive ring.                               *)

SeqAdd(a, n) == (a + n) % SeqMod
\* (int32_t)(a - b) <= 0
seq_leq(a, b) == (b - a) % SeqMod <= SeqMod \div 2
\* Sequence numbers the program's bytes have used up.
SndUsed == (snd_nxt - Isn - 1) % SeqMod
\* Bytes of the peer's stream before the one numbered seq.
Offset(seq) == (seq - PeerIsn - 1) % SeqMod

Slot(i) == (rx_start + i) % RxCapacity
Accepted(len) == Least(len, RxCapacity - rx_len)
\* The ring after rx_append of the peer's bytes from + 1, from + 2, ...
rx_append_AtStart(from, n) ==
  [s \in DOMAIN rx |->
     LET i == (s - rx_start) % RxCapacity
     IN  IF i < n THEN from + i + 1 ELSE rx[s]]
rx_append(from, n) ==
  [s \in DOMAIN rx |->
     LET i == (s - rx_start - rx_len) % RxCapacity
     IN  IF i < n THEN from + i + 1 ELSE rx[s]]
Buffered(n) == [i \in 1 .. n |-> rx[Slot(i - 1)]]

\* A segment of send_segment: the acknowledgement and the window advertised
\* are those of the socket when it is sent, next = rcv_nxt and used = rx_len.
Segment_FullWindow(flags, seq, from, len, next, used) ==
  [flags |-> flags, seq |-> seq, from |-> from, len |-> len,
   ack |-> next, wnd |-> RxCapacity]
Segment_OneSlotKept(flags, seq, from, len, next, used) ==
  [flags |-> flags, seq |-> seq, from |-> from, len |-> len,
   ack |-> next, wnd |-> RxCapacity - 1 - Least(used, RxCapacity - 1)]
Segment(flags, seq, from, len, next, used) ==
  [flags |-> flags, seq |-> seq, from |-> from, len |-> len,
   ack |-> next, wnd |-> RxCapacity - used]
AckSegment(next, used) == Segment({"ACK"}, snd_nxt, 0, 0, next, used)

-----------------------------------------------------------------------------
Init ==
  /\ state = "CLOSED" /\ snd_una = 0 /\ snd_nxt = 0 /\ rcv_nxt = 0
  /\ rx = [s \in 0 .. RxCapacity - 1 |-> 0] /\ rx_start = 0 /\ rx_len = 0
  /\ overflowed = FALSE /\ ackTimeout = FALSE /\ handler = FALSE
  /\ pc = "idle" /\ attempt = 0 /\ wr = NoWrite /\ forever = FALSE
  /\ phase = "start" /\ got = <<>> /\ told = 0
  /\ toPeer = {} /\ toClient = {}
  /\ pState = "LISTEN" /\ pSent = 0 /\ pFin = FALSE /\ pEdge = 0
  /\ pGot = <<>> /\ pClosed = FALSE

-----------------------------------------------------------------------------
(* picow_tcp_connect: Attempts SYNs, each followed by a wait of a second.   *)

SynSent ==
  /\ toPeer' = toPeer \cup {Segment({"SYN"}, Isn, 0, 0, rcv_nxt, rx_len)}
  /\ snd_nxt' = SeqAdd(Isn, 1)
  /\ attempt' = attempt + 1 /\ pc' = "connect" /\ phase' = phase
\* send_segment fails: the socket keeps its state and its handler
SynNotSent ==
  /\ snd_nxt' = Isn /\ pc' = "idle" /\ phase' = "done"
  /\ UNCHANGED <<toPeer, attempt>>

\* The next hop did not answer ARP: nothing is installed.
ConnectUnreachable ==
  /\ pc = "idle" /\ phase = "start"
  /\ phase' = "done"
  /\ UNCHANGED <<sock, pc, attempt, wr, forever, got, told, toPeer, toClient,
                 peer>>

ConnectStart ==
  /\ pc = "idle" /\ phase = "start"
  /\ snd_una' = Isn /\ state' = "SYN_SENT" /\ handler' = TRUE
  /\ SynSent \/ SynNotSent
  /\ UNCHANGED <<rcv_nxt, rx, rx_start, rx_len, overflowed, ackTimeout, wr,
                 forever, got, told, toClient, peer>>

\* The handshake completed before the check after the wait.
ConnectDone ==
  /\ pc = "connect" /\ state = "ESTABLISHED"
  /\ pc' = "idle" /\ phase' = "open"
  /\ UNCHANGED <<sock, attempt, wr, forever, got, told, toPeer, toClient, peer>>

\* The wait ended in any other state: a further SYN ...
ConnectAgain ==
  /\ pc = "connect" /\ state # "ESTABLISHED" /\ attempt < Attempts
  /\ SynSent \/ SynNotSent
  /\ UNCHANGED <<state, snd_una, rcv_nxt, rx, rx_start, rx_len, overflowed,
                 ackTimeout, handler, wr, forever, got, told, toClient, peer>>

\* ... or failure.
ConnectFailed ==
  /\ pc = "connect" /\ state # "ESTABLISHED" /\ attempt = Attempts
  /\ state' = "CLOSED" /\ handler' = FALSE
  /\ pc' = "idle" /\ phase' = "done"
  /\ UNCHANGED <<snd_una, snd_nxt, rcv_nxt, rx, rx_start, rx_len, overflowed,
                 ackTimeout, attempt, wr, forever, got, told, toPeer, toClient,
                 peer>>

-----------------------------------------------------------------------------
(* tcp_handle_ipv4, called for a segment of the connection.                 *)

Delivered(m) ==
  /\ pc # "idle" /\ handler /\ state # "CLOSED" /\ m \in toClient

\* A reset is believed whatever its sequence number.
ReceiveRst(m) ==
  /\ Delivered(m) /\ "RST" \in m.flags
  /\ state' = "CLOSED"
  /\ UNCHANGED <<snd_una, snd_nxt, rcv_nxt, rx, rx_start, rx_len, overflowed,
                 ackTimeout, handler, caller, toPeer, toClient, peer>>

UnaAfter(ack) ==
  IF seq_leq(snd_una, ack) /\ seq_leq(ack, snd_nxt) THEN ack ELSE snd_una

ReceiveInSynSent(m) ==
  /\ Delivered(m) /\ "RST" \notin m.flags /\ state = "SYN_SENT"
  /\ snd_una' = UnaAfter(m.ack)
  /\ IF {"SYN", "ACK"} \subseteq m.flags /\ m.ack = snd_nxt
     THEN /\ rcv_nxt' = SeqAdd(m.seq, 1)
          /\ state' = "ESTABLISHED"
          /\ toPeer' = toPeer \cup {AckSegment(SeqAdd(m.seq, 1), rx_len)}
     ELSE UNCHANGED <<rcv_nxt, state, toPeer>>
  /\ UNCHANGED <<snd_nxt, rx, rx_start, rx_len, overflowed, ackTimeout, handler,
                 caller, toClient, peer>>

\* State after a segment: allAcked when snd_una reached snd_nxt, fin on FIN.
\* (close leaves FIN_WAIT_1 before it returns, so the handler never runs in it.)
StateAfter(allAcked, fin) ==
  LET acked == IF state = "FIN_WAIT_1" /\ allAcked THEN "FIN_WAIT_2" ELSE state
  IN  IF ~fin THEN acked
      ELSE IF acked = "ESTABLISHED" THEN "CLOSE_WAIT"
      ELSE IF acked \in {"FIN_WAIT_1", "FIN_WAIT_2"} THEN "CLOSED"
      ELSE acked

InOrder_Unchecked(m) == m.len # 0
InOrder(m) == m.len # 0 /\ m.seq = rcv_nxt
RcvAfter_NotMoved(n) == rcv_nxt
RcvAfter(n) == SeqAdd(rcv_nxt, n)
FinNext_Always(m, next) == "FIN" \in m.flags
FinNext(m, next) == "FIN" \in m.flags /\ SeqAdd(m.seq, m.len) = next

\* Payload is taken only at rcv_nxt, as much of it as the ring holds; payload
\* and FIN are each answered by an acknowledgement.  A FIN counts only when it
\* is next in sequence, but moves the state in any case.
ReceiveSegment(m) ==
  /\ Delivered(m) /\ "RST" \notin m.flags /\ state # "SYN_SENT"
  /\ LET fin == "FIN" \in m.flags
         n == IF InOrder(m) THEN Accepted(m.len) ELSE 0
         afterData == RcvAfter(n)
         next == IF FinNext(m, afterData) THEN SeqAdd(afterData, 1) ELSE afterData
     IN  /\ snd_una' = UnaAfter(m.ack)
         /\ rx' = rx_append(m.from, n)
         /\ rx_len' = rx_len + n
         /\ overflowed' = (overflowed \/ (InOrder(m) /\ n < m.len))
         /\ rcv_nxt' = next
         /\ state' = StateAfter(UnaAfter(m.ack) = snd_nxt, fin)
         /\ toPeer' = toPeer
              \cup (IF m.len # 0 THEN {AckSegment(afterData, rx_len + n)} ELSE {})
              \cup (IF fin THEN {AckSegment(next, rx_len + n)} ELSE {})
  /\ UNCHANGED <<snd_nxt, rx_start, ackTimeout, handler, caller, toClient, peer>>

-----------------------------------------------------------------------------
(* picow_tcp_read                                                           *)

\* Sent by rx_take when bytes have left the ring, which then holds used.
WindowUpdate(used) == IF state \in {"ESTABLISHED", "CLOSE_WAIT"}
                      THEN {AckSegment(rcv_nxt, used)} ELSE {}

\* rx_take for some count: n bytes leave the ring, the window update is sent.
Take(n) ==
  /\ n \in 1 .. rx_len
  /\ got' = got \o Buffered(n)
  /\ rx_start' = Slot(n)
  /\ rx_len' = rx_len - n
  /\ toPeer' = toPeer \cup WindowUpdate(rx_len - n)
  /\ pc' = "idle"
  /\ UNCHANGED <<state, snd_una, snd_nxt, rcv_nxt, rx, overflowed, ackTimeout,
                 handler, attempt, wr, forever, phase, told, toClient, peer>>

ReadNow(n) == pc = "idle" /\ phase = "open" /\ Take(n)

ReadWait ==
  /\ pc = "idle" /\ phase = "open" /\ rx_len = 0
  /\ pc' = "read"
  /\ UNCHANGED <<sock, attempt, wr, forever, phase, got, told, toPeer, toClient,
                 peer>>

ReadDone(n) == pc = "read" /\ Take(n)

\* 0 when the connection is closed, -1 when the deadline passed: both end it
ReadNothing ==
  /\ pc = "read" /\ rx_len = 0
  /\ pc' = "idle" /\ phase' = "failed"
  /\ UNCHANGED <<sock, attempt, wr, forever, got, told, toPeer, toClient, peer>>

-----------------------------------------------------------------------------
(* picow_tcp_write, called by rt_write_all with what is left to write: a    *)
(* short count is followed by another call, a failure is not.               *)

WriteReturns(n) ==
  /\ pc' = "idle" /\ wr' = NoWrite /\ told' = told + n
  /\ phase' = IF n = 0 THEN "failed" ELSE phase

DataSegment(seq, from, len) ==
  Segment({"ACK", "PSH"}, seq, from, len, rcv_nxt, rx_len)

\* The top of the loop: the next chunk, or a short return if it is not sent.
SendChunk(count, sent) ==
  \/ LET chunk == Least(count - sent, Mss)
     IN  /\ toPeer' = toPeer \cup {DataSegment(snd_nxt, told + sent, chunk)}
         /\ snd_nxt' = SeqAdd(snd_nxt, chunk)
         /\ wr' = [count |-> count, sent |-> sent, chunk |-> chunk,
                    end_seq |-> SeqAdd(snd_nxt, chunk)]
         /\ pc' = "write" /\ UNCHANGED <<told, phase>>
  \/ WriteReturns(sent) /\ UNCHANGED <<snd_nxt, toPeer>>

WriteFrame == UNCHANGED <<state, snd_una, rcv_nxt, rx, rx_start, rx_len,
                          overflowed, handler, attempt, forever, got, toClient,
                          peer>>

WriteStart(count) ==
  /\ pc = "idle" /\ phase = "open" /\ state = "ESTABLISHED"
  /\ count \in 1 .. AppLen - told
  /\ SndUsed + count <= SndSpan
  /\ SendChunk(count, 0)
  /\ WriteFrame /\ UNCHANGED ackTimeout

WriteRefused ==
  /\ pc = "idle" /\ phase = "open" /\ state # "ESTABLISHED" /\ told < AppLen
  /\ WriteReturns(0)
  /\ WriteFrame /\ UNCHANGED <<ackTimeout, snd_nxt, toPeer>>

Unacked_FirstByte == seq_leq(snd_una, (wr.end_seq - wr.chunk - 1) % SeqMod)
Unacked == seq_leq(snd_una, (wr.end_seq - 1) % SeqMod)

\* The 250 ms timer: the chunk again, with snd_nxt set back for the call only
ResendSeq_NotSetBack == snd_nxt
ResendSeq == (wr.end_seq - wr.chunk) % SeqMod
Resend ==
  /\ pc = "write" /\ Unacked
  /\ toPeer' = toPeer \cup {DataSegment(ResendSeq, told + wr.sent, wr.chunk)}
  /\ UNCHANGED <<sock, caller, toClient, peer>>

\* The wait ended without the acknowledgement: deadline, reset or FIN.
WriteShort ==
  /\ pc = "write" /\ Unacked
  /\ ackTimeout' = TRUE
  /\ WriteReturns(wr.sent)
  /\ WriteFrame /\ UNCHANGED <<snd_nxt, toPeer>>

WriteAcked ==
  /\ pc = "write" /\ ~Unacked
  /\ LET sent == wr.sent + wr.chunk
     IN  \/ sent < wr.count /\ SendChunk(wr.count, sent)
         \/ sent = wr.count /\ WriteReturns(sent) /\ UNCHANGED <<snd_nxt, toPeer>>
  /\ WriteFrame /\ UNCHANGED ackTimeout

-----------------------------------------------------------------------------
(* picow_tcp_poll_fd and picow_tcp_close                                    *)

Ready == rx_len # 0 \/ state \in {"CLOSE_WAIT", "CLOSED"}

PollWait(noDeadline) ==
  /\ pc = "idle" /\ phase = "open" /\ ~Ready
  /\ pc' = "poll" /\ forever' = noDeadline
  /\ UNCHANGED <<sock, attempt, wr, phase, got, told, toPeer, toClient, peer>>

\* Unlike the check on entry, the loop does not look for CLOSE_WAIT.
PollDone_NoDeadline ==
  /\ pc = "poll" /\ (rx_len # 0 \/ state = "CLOSED")
  /\ pc' = "idle" /\ forever' = FALSE
  /\ UNCHANGED <<sock, attempt, wr, phase, got, told, toPeer, toClient, peer>>
PollDone ==
  /\ pc = "poll" /\ (rx_len # 0 \/ state = "CLOSED" \/ ~forever)
  /\ pc' = "idle" /\ forever' = FALSE
  /\ UNCHANGED <<sock, attempt, wr, phase, got, told, toPeer, toClient, peer>>

Close ==
  /\ pc = "idle" /\ phase \in {"open", "failed"}
  /\ IF state \in {"ESTABLISHED", "CLOSE_WAIT"}
     THEN /\ toPeer' = toPeer \cup
               {Segment({"ACK", "FIN"}, snd_nxt, 0, 0, rcv_nxt, rx_len)}
          /\ snd_nxt' = SeqAdd(snd_nxt, 1)
     ELSE UNCHANGED <<toPeer, snd_nxt>>
  /\ handler' = FALSE /\ state' = "CLOSED" /\ phase' = "done"
  /\ UNCHANGED <<snd_una, rcv_nxt, rx, rx_start, rx_len, overflowed, ackTimeout,
                 pc, attempt, wr, forever, got, told, toClient, peer>>

-----------------------------------------------------------------------------
(* The peer, outside the repository: a TCP server that keeps to the window  *)
(* (up to Overshoot bytes) and retransmits what it likes.                   *)

PeerSegment(flags, from, len, received) ==
  [flags |-> flags, seq |-> SeqAdd(PeerIsn, 1 + from), from |-> from,
   len |-> len, ack |-> SeqAdd(Isn, 1 + received)]

PeerAccepts(m) ==
  /\ pState = "LISTEN" /\ m \in toPeer /\ "SYN" \in m.flags
  /\ pState' = "SYN_RCVD" /\ pEdge' = m.wnd
  /\ toClient' = toClient \cup
       {[flags |-> {"SYN", "ACK"}, seq |-> PeerIsn, from |-> 0, len |-> 0,
         ack |-> SeqAdd(m.seq, 1)]}
  /\ UNCHANGED <<sock, caller, toPeer, pSent, pFin, pGot, pClosed>>

PeerReceives(m) ==
  /\ pState \in {"SYN_RCVD", "OPEN"} /\ m \in toPeer /\ "ACK" \in m.flags
  /\ LET acked == Offset(m.ack)
         next == m.seq = SeqAdd(Isn, 1 + Len(pGot)) /\ ~pClosed
         data == IF next THEN [i \in 1 .. m.len |-> m.from + i] ELSE <<>>
         closed == pClosed \/ (next /\ "FIN" \in m.flags)
         received == Len(pGot) + Len(data) + (IF closed THEN 1 ELSE 0)
     IN  /\ pEdge' = Most(pEdge, acked + m.wnd)
         /\ pGot' = pGot \o data
         /\ pClosed' = closed
         /\ toClient' = IF m.len = 0 /\ "FIN" \notin m.flags THEN toClient
              ELSE toClient \cup {PeerSegment({"ACK"},
                     pSent + (IF pFin THEN 1 ELSE 0), 0, received)}
  /\ pState' = "OPEN"
  /\ UNCHANGED <<sock, caller, toPeer, pSent, pFin>>

PeerSends(from, len, fin) ==
  /\ pState = "OPEN" /\ from <= pSent /\ len + (IF fin THEN 1 ELSE 0) # 0
  /\ from + len <= Least(PeerLen, pEdge + Overshoot)
  /\ fin => from + len = PeerLen
  /\ pSent' = Most(pSent, from + len)
  /\ pFin' = (pFin \/ fin)
  /\ toClient' = toClient \cup
       {PeerSegment(IF fin THEN {"ACK", "FIN"} ELSE {"ACK"}, from, len,
                    Len(pGot) + (IF pClosed THEN 1 ELSE 0))}
  /\ UNCHANGED <<sock, caller, toPeer, pState, pEdge, pGot, pClosed>>

PeerResets ==
  /\ pState # "DEAD" /\ toPeer # {}
  /\ pState' = "DEAD"
  /\ toClient' = toClient \cup {PeerSegment({"RST"}, pSent, 0, Len(pGot))}
  /\ UNCHANGED <<sock, caller, toPeer, pSent, pFin, pEdge, pGot, pClosed>>

-----------------------------------------------------------------------------
Connect == \/ ConnectUnreachable \/ ConnectStart
           \/ ConnectDone \/ ConnectAgain \/ ConnectFailed
Receive == \E m \in toClient :
             ReceiveRst(m) \/ ReceiveInSynSent(m) \/ ReceiveSegment(m)
Read == \/ \E n \in 1 .. RxCapacity : ReadNow(n) \/ ReadDone(n)
        \/ ReadWait \/ ReadNothing
Write == \/ \E count \in 1 .. AppLen : WriteStart(count)
         \/ WriteRefused \/ Resend \/ WriteShort \/ WriteAcked
Poll == (\E noDeadline \in BOOLEAN : PollWait(noDeadline)) \/ PollDone
Peer == \/ \E m \in toPeer : PeerAccepts(m) \/ PeerReceives(m)
        \/ \E from \in 0 .. PeerLen, len \in 0 .. Mss, fin \in BOOLEAN :
             PeerSends(from, len, fin)
        \/ PeerResets

Next == Connect \/ Receive \/ Read \/ Write \/ Poll \/ Close \/ Peer

\* The thread runs and time passes: a wait loop is left sooner or later.
Running == /\ WF_vars(ConnectDone \/ ConnectAgain \/ ConnectFailed)
           /\ WF_vars((\E n \in 1 .. RxCapacity : ReadDone(n)) \/ ReadNothing)
           /\ WF_vars(WriteShort \/ WriteAcked)
           /\ WF_vars(PollDone)

\* The network loses nothing and the peer goes on sending.
Lossless == /\ WF_vars(\E m \in toPeer : PeerAccepts(m) \/ PeerReceives(m))
            /\ WF_vars(Receive)
            /\ WF_vars(\E from \in 0 .. PeerLen, len \in 0 .. Mss,
                          fin \in BOOLEAN : PeerSends(from, len, fin))

Spec == Init /\ [][Next]_vars
FairSpec == Spec /\ Running
LosslessSpec == FairSpec /\ Lossless

-----------------------------------------------------------------------------
(* Properties                                                               *)

Iota(n) == [i \in 1 .. n |-> i]
Synchronised == state \in {"ESTABLISHED", "CLOSE_WAIT"}
Arrived == Len(got) + rx_len

\* Every variable keeps to its range; in particular the ring indices and the
\* fill level of g_tcp.rx stay inside TCP_RX_CAPACITY.
TypeOK ==
  /\ state \in States /\ pc \in {"idle", "connect", "read", "write", "poll"}
  /\ snd_una \in SeqNums /\ snd_nxt \in SeqNums /\ rcv_nxt \in SeqNums
  /\ rx \in [0 .. RxCapacity - 1 -> 0 .. PeerLen]
  /\ rx_start \in 0 .. RxCapacity - 1 /\ rx_len \in 0 .. RxCapacity
  /\ overflowed \in BOOLEAN /\ ackTimeout \in BOOLEAN /\ handler \in BOOLEAN
  /\ attempt \in 0 .. Attempts /\ forever \in BOOLEAN
  /\ wr \in [count : 0 .. AppLen, sent : 0 .. AppLen, chunk : 0 .. Mss,
             end_seq : SeqNums]
  /\ phase \in {"start", "open", "failed", "done"}
  /\ got \in Seq(1 .. PeerLen) /\ told \in 0 .. AppLen
  /\ pState \in {"LISTEN", "SYN_RCVD", "OPEN", "DEAD"}
  /\ pSent \in 0 .. PeerLen /\ pFin \in BOOLEAN /\ pClosed \in BOOLEAN
  /\ pEdge \in Nat /\ pGot \in Seq(1 .. AppLen)

\* What the program has read, followed by what waits in the ring, is the
\* beginning of the peer's stream: no byte is lost, doubled or displaced by a
\* lost, repeated or reordered segment, by a segment that only partly fits the
\* ring, or by the ring wrapping round (rx_append, rx_take, tcp_handle_ipv4).
StreamInOrder == got \o Buffered(rx_len) = Iota(Arrived)

\* A peer that keeps to the windows advertised by send_segment never makes
\* rx_append drop a byte, however late or often it learns of a window.
NoOverflow == Overshoot = 0 => ~overflowed

\* rcv_nxt runs ahead of the bytes received only by the peer's FIN, and only
\* when every byte before the FIN has been received.
FinIsLast ==
  Synchronised /\ Offset(rcv_nxt) # Arrived =>
    pFin /\ Arrived = PeerLen /\ Offset(rcv_nxt) = PeerLen + 1

\* The right edge of the window offered to the peer never moves back.
RightEdge == Offset(rcv_nxt) + RxCapacity - rx_len
WindowNeverShrinks ==
  [][Synchronised /\ Synchronised' => RightEdge' >= RightEdge]_vars

\* The stream received is a reliable byte stream with flow control.
InStream == INSTANCE ByteStream WITH
  Length <- PeerLen, Window <- RxCapacity,
  sent <- pSent, arrived <- Arrived, read <- got
ReceivesByteStream == InStream!Spec

\* A byte that picow_tcp_write counted in its result is in the peer's hands.
ReportedWasReceived == told <= Len(pGot)

\* Until a write has given up on an acknowledgement (write_ack_timeouts), the
\* peer gets each byte of the program once and in order.  Afterwards snd_nxt
\* stays ahead of the bytes given up, and a caller that writes them again, as
\* rt_write_all does after a short count, sends them under new numbers.
WrittenOnce == ~ackTimeout => pGot = Iota(Len(pGot))

\* connect, read, write and a poll with a deadline return.
CallsReturn == pc # "idle" /\ ~forever ~> pc = "idle"

\* Over a network that loses nothing but may reorder and repeat, a poll without
\* deadline that waits for bytes the peer still has wakes up, even if the ring
\* was full before or the FIN overtakes the bytes.
PollWakes ==
  pc = "poll" /\ forever /\ pState # "DEAD" /\ Len(got) < PeerLen
    ~> pc = "idle" \/ pState = "DEAD"

=============================================================================

---------------------------- MODULE PicowTcpInv ----------------------------
(***************************************************************************)
(* The inductive invariants behind the theorems of PicowTcp_proofs: IInv   *)
(* for what the TCP client receives and, on top of it, SendInv for what it *)
(* sends.                                                                  *)
(***************************************************************************)
EXTENDS PicowTcp

Flags == {"SYN", "ACK", "PSH", "FIN", "RST"}
ClientSegments == [flags : SUBSET Flags, seq : SeqNums, from : 0 .. AppLen,
                   len : 0 .. Mss, ack : SeqNums, wnd : 0 .. RxCapacity]
PeerSegments == [flags : SUBSET Flags, seq : SeqNums, from : 0 .. PeerLen + 1,
                 len : 0 .. Mss, ack : SeqNums]

\* Which call goes with which phase of the program and state of the socket.
CallInv ==
  /\ state \notin {"FIN_WAIT_1", "FIN_WAIT_2"}
  /\ pc = "idle" /\ phase = "start" => attempt = 0
  /\ pc = "connect" => phase = "start"
  /\ pc \in {"read", "write", "poll"} => phase = "open"
  /\ pc = "write" =>
       wr.sent + wr.chunk <= wr.count /\ told + wr.count <= AppLen

\* No byte has come in before the handshake.
FreshInv == (pc = "idle" /\ phase = "start") \/ state = "SYN_SENT" => Arrived = 0

\* The ring holds the bytes after those the program has read.
RingInv ==
  /\ got = Iota(Len(got))
  /\ Arrived <= pSent
  /\ \A i \in 0 .. rx_len - 1 : rx[Slot(i)] = Len(got) + i + 1

\* Once the handshake is over rcv_nxt numbers the byte after them, or the one
\* after the FIN; a reset does not change that.
Agreed == Synchronised \/ phase \in {"open", "failed"}
RcvInv == Agreed => \/ Offset(rcv_nxt) = Arrived
                    \/ Offset(rcv_nxt) = Arrived + 1 /\ pFin /\ Arrived = PeerLen

PeerInv == /\ pFin => pSent = PeerLen
           /\ pState = "LISTEN" => pEdge = 0

\* No window reaches further than the ring does from the last byte read.
InWindow(edge) == Least(PeerLen, edge) <= Len(got) + RxCapacity
ClientSegmentOK(m) ==
  /\ m \in ClientSegments
  /\ m.from + m.len <= AppLen
  /\ "SYN" \in m.flags => InWindow(m.wnd)
  /\ "ACK" \in m.flags => InWindow(Offset(m.ack) + m.wnd)
WindowInv == InWindow(pEdge) /\ \A m \in toPeer : ClientSegmentOK(m)

\* What the peer's segments carry is where their numbers say it is.
PeerSegmentOK(m) ==
  /\ m \in PeerSegments
  /\ "SYN" \in m.flags => m.seq = PeerIsn /\ m.len = 0 /\ m.flags = {"SYN", "ACK"}
  /\ "SYN" \notin m.flags => m.seq = SeqAdd(PeerIsn, 1 + m.from)
  /\ m.len # 0 => m.from + m.len <= pSent /\ m.from + m.len <= pEdge + Overshoot
  /\ "FIN" \in m.flags => pFin /\ m.from + m.len = PeerLen
SegmentInv == \A m \in toClient : PeerSegmentOK(m)

IInv == /\ TypeOK /\ CallInv /\ FreshInv /\ RingInv /\ RcvInv /\ PeerInv
        /\ WindowInv /\ SegmentInv /\ NoOverflow

-----------------------------------------------------------------------------
(* The sending side                                                         *)

\* Bytes of the program before the one numbered seq; sent under new numbers.
Place(seq) == (seq - Isn - 1) % SeqMod
Used == Place(snd_nxt)
\* The same, for a SYN that was not sent (snd_nxt = Isn) as well.
InUse == IF snd_nxt = Isn THEN 0 ELSE Used
\* What the peer acknowledges: the bytes it has and, once it has it, the FIN.
Received == Len(pGot) + (IF pClosed THEN 1 ELSE 0)
Opened == phase \in {"open", "failed"}

\* Nothing is sent before connect, and connect uses no number but the SYN's;
\* the FIN is the last thing the program has sent.
ConnectInv ==
  /\ pc = "idle" /\ phase = "start" => toPeer = {} /\ Received = 0
  /\ phase = "start" => told = 0
  /\ pc = "connect" => Used = 0
  /\ Opened => state # "SYN_SENT" /\ Used <= SndSpan
  /\ state = "SYN_SENT" => pc = "connect" \/ phase = "done"
  /\ phase # "done" => ~pClosed /\ \A m \in toPeer : "FIN" \notin m.flags

\* No segment reaches beyond the numbers used, nor does what the peer has.
Length(m) == m.len + (IF "FIN" \in m.flags THEN 1 ELSE 0)
SentInv ==
  /\ Received <= InUse
  /\ \A m \in toPeer : /\ "SYN" \in m.flags => m.seq = Isn
                       /\ "ACK" \in m.flags => Place(m.seq) + Length(m) <= InUse

\* The peer acknowledges what it has received and the client believes no more.
AckInv ==
  /\ \A m \in toClient : Place(m.ack) <= Received
  /\ Agreed => Place(snd_una) <= Received
  /\ state = "SYN_SENT" => snd_una = Isn \/ Place(snd_una) <= Received

\* A write in progress waits for its last chunk, and the peer has the others.
WriteInv ==
  /\ told <= Len(pGot)
  /\ pc = "write" =>
       /\ wr.chunk # 0 /\ wr.end_seq = snd_nxt
       /\ told + wr.sent <= Len(pGot) /\ told + wr.sent + wr.chunk <= Used
       /\ Used + wr.count - wr.sent - wr.chunk <= SndSpan

\* Until an acknowledgement is given up, bytes and numbers go together.
OnceInv ==
  ~ackTimeout =>
    /\ pGot = Iota(Len(pGot))
    /\ Opened => Used = told + (IF pc = "write" THEN wr.sent + wr.chunk ELSE 0)
    /\ \A m \in toPeer : m.len # 0 => m.from = Place(m.seq)

SendInv == ConnectInv /\ SentInv /\ AckInv /\ WriteInv /\ OnceInv
=============================================================================

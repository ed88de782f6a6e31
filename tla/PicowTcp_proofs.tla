-------------------------- MODULE PicowTcp_proofs --------------------------
(***************************************************************************)
(* Proofs about PicowTcp, for every ring size, every modulus of the        *)
(* sequence numbers, every pair of initial sequence numbers and every      *)
(* length of the two streams: first what the program receives, then, on    *)
(* top of that invariant, what it sends.                                   *)
(***************************************************************************)
EXTENDS PicowTcpInv, SequenceTheorems, TLAPS

USE SizeAssumption, SeqAssumption

-----------------------------------------------------------------------------
(* Sequence numbers                                                        *)

LEMMA ModWithin ==
  ASSUME NEW m \in Nat \ {0}, NEW x \in -(2 * m) .. 2 * m - 1
  PROVE  x % m = IF x >= m THEN x - m ELSE IF x >= 0 THEN x
                 ELSE IF x >= -m THEN x + m ELSE x + 2 * m
  OBVIOUS

LEMMA SeqAddType ==
  ASSUME NEW s \in SeqNums, NEW n \in Nat
  PROVE  SeqAdd(s, n) \in SeqNums
  BY DEF SeqAdd, SeqNums

\* A number seen from an initial number isn, as Offset and Place see it.
LEMMA DistanceType ==
  ASSUME NEW isn \in SeqNums, NEW s \in SeqNums
  PROVE  /\ (s - isn - 1) % SeqMod \in 0 .. SeqMod - 1
         /\ (s - isn - 1) % SeqMod = IF s >= isn + 1 THEN s - isn - 1
                                     ELSE s - isn - 1 + SeqMod
<1> DEFINE d == s - isn - 1
<1>1. d \in -SeqMod .. SeqMod - 1
  BY DEF SeqNums
<1> HIDE DEF d
<1>2. d % SeqMod = IF d >= 0 THEN d ELSE d + SeqMod
  BY <1>1
<1> QED
  BY <1>1, <1>2 DEF SeqNums, d

LEMMA DistanceAdd ==
  ASSUME NEW isn \in SeqNums, NEW s \in SeqNums, NEW n \in Nat,
         ((s - isn - 1) % SeqMod) + n < SeqMod
  PROVE  (SeqAdd(s, n) - isn - 1) % SeqMod = ((s - isn - 1) % SeqMod) + n
<1>1. s \in 0 .. SeqMod - 1 /\ n \in 0 .. SeqMod - 1
  BY DistanceType DEF SeqNums
<1>2. (s + n) % SeqMod = IF s + n < SeqMod THEN s + n ELSE s + n - SeqMod
  BY <1>1
<1>3. SeqAdd(s, n) = IF s + n < SeqMod THEN s + n ELSE s + n - SeqMod
  BY <1>2 DEF SeqAdd
<1> DEFINE t == SeqAdd(s, n)
<1>4. t \in SeqNums
  BY SeqAddType
<1>5. (t - isn - 1) % SeqMod = IF t >= isn + 1 THEN t - isn - 1
                               ELSE t - isn - 1 + SeqMod
  <2> HIDE DEF t
  <2> QED BY <1>4, DistanceType
<1>6. (s - isn - 1) % SeqMod = IF s >= isn + 1 THEN s - isn - 1
                               ELSE s - isn - 1 + SeqMod
  BY DistanceType
<1> HIDE DEF t
<1>7. t = IF s + n < SeqMod THEN s + n ELSE s + n - SeqMod
  BY <1>3 DEF t
<1>8. (t - isn - 1) % SeqMod = ((s - isn - 1) % SeqMod) + n
  BY <1>1, <1>5, <1>6, <1>7, <1>4 DEF SeqNums
<1> QED
  BY <1>8 DEF t

\* Byte k + 1 after isn is numbered isn + 1 + k.
LEMMA DistanceOf ==
  ASSUME NEW isn \in SeqNums, NEW k \in 0 .. SeqMod - 2
  PROVE  (SeqAdd(isn, 1 + k) - isn - 1) % SeqMod = k
<1> DEFINE s == isn + (1 + k)
<1>1. s \in 1 .. 2 * SeqMod - 2
  BY DEF SeqNums
<1>2. s % SeqMod = IF s < SeqMod THEN s ELSE s - SeqMod
  BY <1>1
<1>3. (s % SeqMod) - isn - 1 = IF s < SeqMod THEN k ELSE k - SeqMod
  BY <1>2 DEF SeqNums
<1> QED
  BY <1>3 DEF SeqAdd

LEMMA InitialNumbers == Isn \in SeqNums /\ PeerIsn \in SeqNums
  BY DEF SeqNums

LEMMA OffsetOf ==
  ASSUME NEW k \in 0 .. SeqMod - 2
  PROVE  Offset(SeqAdd(PeerIsn, 1 + k)) = k
  BY InitialNumbers, DistanceOf DEF Offset

LEMMA OffsetType ==
  ASSUME NEW s \in SeqNums
  PROVE  /\ Offset(s) \in 0 .. SeqMod - 1
         /\ Offset(s) = IF s >= PeerIsn + 1 THEN s - PeerIsn - 1
                        ELSE s - PeerIsn - 1 + SeqMod
  BY InitialNumbers, DistanceType DEF Offset

LEMMA OffsetAdd ==
  ASSUME NEW s \in SeqNums, NEW n \in Nat, Offset(s) + n < SeqMod
  PROVE  Offset(SeqAdd(s, n)) = Offset(s) + n
  BY InitialNumbers, DistanceAdd DEF Offset

LEMMA PlaceOf ==
  ASSUME NEW k \in 0 .. SeqMod - 2
  PROVE  Place(SeqAdd(Isn, 1 + k)) = k
  BY InitialNumbers, DistanceOf DEF Place

LEMMA PlaceType ==
  ASSUME NEW s \in SeqNums
  PROVE  /\ Place(s) \in 0 .. SeqMod - 1
         /\ Place(s) = IF s >= Isn + 1 THEN s - Isn - 1 ELSE s - Isn - 1 + SeqMod
  BY InitialNumbers, DistanceType DEF Place

LEMMA PlaceAdd ==
  ASSUME NEW s \in SeqNums, NEW n \in Nat, Place(s) + n < SeqMod
  PROVE  Place(SeqAdd(s, n)) = Place(s) + n
  BY InitialNumbers, DistanceAdd DEF Place

LEMMA PlaceBack ==
  ASSUME NEW s \in SeqNums, NEW n \in Nat, n <= Place(s)
  PROVE  /\ (s - n) % SeqMod \in SeqNums
         /\ Place((s - n) % SeqMod) = Place(s) - n
<1> DEFINE t == (s - n) % SeqMod
<1>1. s - n \in -SeqMod .. SeqMod - 1
  BY PlaceType DEF SeqNums
<1>2. t = IF s - n >= 0 THEN s - n ELSE s - n + SeqMod
  BY <1>1
<1>3. t \in SeqNums
  BY DEF SeqNums
<1> HIDE DEF t
<1>4. Place(t) = IF t >= Isn + 1 THEN t - Isn - 1 ELSE t - Isn - 1 + SeqMod
  BY <1>3, PlaceType
<1>5. Place(s) = IF s >= Isn + 1 THEN s - Isn - 1 ELSE s - Isn - 1 + SeqMod
  BY PlaceType
<1>6. Place(t) = Place(s) - n
  BY <1>1, <1>2, <1>3, <1>4, <1>5, PlaceType DEF SeqNums
<1> QED
  BY <1>3, <1>6 DEF t

\* The wait of picow_tcp_write ends when everything sent is acknowledged.
LEMMA AckedMeansAll ==
  ASSUME NEW una \in SeqNums, NEW end \in SeqNums,
         Place(una) <= Place(end), Place(end) <= SndSpan,
         ~seq_leq(una, (end - 1) % SeqMod)
  PROVE  Place(una) = Place(end)
<1> SUFFICES ASSUME Place(una) < Place(end) PROVE FALSE
  BY PlaceType
<1> DEFINE t == (end - 1) % SeqMod
<1>1. t \in SeqNums /\ Place(t) = Place(end) - 1
  BY PlaceType, PlaceBack
<1> HIDE DEF t
<1>2. Place(t) = IF t >= Isn + 1 THEN t - Isn - 1 ELSE t - Isn - 1 + SeqMod
  BY <1>1, PlaceType
<1>3. Place(una) = IF una >= Isn + 1 THEN una - Isn - 1 ELSE una - Isn - 1 + SeqMod
  BY PlaceType
<1>4. Place(una) \in Nat /\ Place(end) \in Nat
  BY PlaceType
<1>5. t - una \in -SeqMod .. SeqMod - 1
  BY <1>1 DEF SeqNums
<1>6. (t - una) % SeqMod = IF t - una >= 0 THEN t - una ELSE t - una + SeqMod
  BY <1>5
<1>7. (t - una) % SeqMod = Place(t) - Place(una)
  BY <1>1, <1>2, <1>3, <1>4, <1>6 DEF SeqNums
<1>8. (t - una) % SeqMod <= SeqMod \div 2
  BY <1>1, <1>4, <1>7
<1> QED
  BY <1>8 DEF seq_leq, t

-----------------------------------------------------------------------------
(* The ring                                                                *)

LEMMA RingSize == RxCapacity \in Nat \ {0}
  OBVIOUS

LEMMA SlotType ==
  ASSUME rx_start \in 0 .. RxCapacity - 1, NEW i \in 0 .. RxCapacity
  PROVE  /\ Slot(i) \in 0 .. RxCapacity - 1
         /\ Slot(i) = IF rx_start + i < RxCapacity THEN rx_start + i
                      ELSE rx_start + i - RxCapacity
  BY DEF Slot

\* rx_append leaves what is in the ring and puts the new bytes after it.
LEMMA AppendInRing ==
  ASSUME rx_start \in 0 .. RxCapacity - 1, rx_len \in 0 .. RxCapacity,
         rx \in [0 .. RxCapacity - 1 -> 0 .. PeerLen],
         NEW n \in 0 .. RxCapacity - rx_len, NEW from \in Nat,
         NEW i \in 0 .. rx_len + n - 1
  PROVE  rx_append(from, n)[Slot(i)] =
           IF i < rx_len THEN rx[Slot(i)] ELSE from + (i - rx_len) + 1
<1> DEFINE s == Slot(i)
           d == s - rx_start - rx_len
           j == d % RxCapacity
<1>1. i \in 0 .. RxCapacity
  OBVIOUS
<1>2. /\ s \in 0 .. RxCapacity - 1
      /\ s = IF rx_start + i < RxCapacity THEN rx_start + i
             ELSE rx_start + i - RxCapacity
  BY <1>1, SlotType
<1>3. rx_append(from, n)[s] = IF j < n THEN from + j + 1 ELSE rx[s]
  BY <1>2 DEF rx_append
<1> HIDE DEF s
<1>4. d = IF rx_start + i < RxCapacity THEN i - rx_len ELSE i - rx_len - RxCapacity
  BY <1>2
<1>5. d \in -(2 * RxCapacity) .. 2 * RxCapacity - 1 /\ d < RxCapacity
  BY <1>1, <1>4
<1> HIDE DEF d
<1>6. j = IF d >= 0 THEN d ELSE IF d >= -RxCapacity THEN d + RxCapacity
          ELSE d + 2 * RxCapacity
  <2>1. d \in -(2 * RxCapacity) .. 2 * RxCapacity - 1
    BY <1>5
  <2>2. j = IF d >= RxCapacity THEN d - RxCapacity ELSE IF d >= 0 THEN d
            ELSE IF d >= -RxCapacity THEN d + RxCapacity ELSE d + 2 * RxCapacity
    BY <2>1, RingSize, ModWithin, Zenon
  <2> QED
    BY <1>5, <2>2
<1> HIDE DEF j
<1>7. j = IF i < rx_len THEN i - rx_len + RxCapacity ELSE i - rx_len
  BY <1>1, <1>2, <1>4, <1>5, <1>6
<1>8. rx_append(from, n)[s] = IF i < rx_len THEN rx[s] ELSE from + (i - rx_len) + 1
  BY <1>3, <1>7
<1> QED
  BY <1>8 DEF s

LEMMA AppendType ==
  ASSUME rx_start \in 0 .. RxCapacity - 1, rx_len \in 0 .. RxCapacity,
         rx \in [0 .. RxCapacity - 1 -> 0 .. PeerLen],
         NEW n \in Nat, NEW from \in Nat, n # 0 => from + n <= PeerLen
  PROVE  rx_append(from, n) \in [0 .. RxCapacity - 1 -> 0 .. PeerLen]
<1>1. \A s \in 0 .. RxCapacity - 1 :
        (s - rx_start - rx_len) % RxCapacity \in 0 .. RxCapacity - 1
  OBVIOUS
<1> QED
  BY <1>1 DEF rx_append

\* Reading moves the start of the ring: slot i is then what slot n + i was.
LEMMA SlotAfterTake ==
  ASSUME rx_start \in 0 .. RxCapacity - 1, NEW n \in Nat, NEW i \in Nat,
         n + i \in 0 .. RxCapacity, rx_start' = Slot(n)
  PROVE  Slot(i)' = Slot(n + i)
<1>1. Slot(n) = IF rx_start + n < RxCapacity THEN rx_start + n
                ELSE rx_start + n - RxCapacity
  BY SlotType
<1>2. Slot(n + i) = IF rx_start + (n + i) < RxCapacity THEN rx_start + (n + i)
                    ELSE rx_start + (n + i) - RxCapacity
  BY SlotType
<1>3. Slot(i)' = (Slot(n) + i) % RxCapacity
  BY DEF Slot
<1>4. Slot(i)' = IF Slot(n) + i < RxCapacity THEN Slot(n) + i
                 ELSE Slot(n) + i - RxCapacity
  BY <1>1, <1>3
<1> QED
  BY <1>1, <1>2, <1>4
-----------------------------------------------------------------------------
(* Steps that leave the ring, the peer and its segments alone               *)

quiet == <<rx, rx_start, rx_len, got, overflowed, toClient, peer>>

LEMMA QuietStep ==
  ASSUME IInv, UNCHANGED quiet
  PROVE  RingInv' /\ PeerInv' /\ SegmentInv' /\ NoOverflow'
<1> USE DEF IInv, quiet, peer
<1>1. RingInv'
  BY DEF RingInv, Slot, Arrived
<1>2. PeerInv'
  BY DEF PeerInv
<1>3. SegmentInv'
  BY DEF SegmentInv, PeerSegmentOK
<1>4. NoOverflow'
  BY DEF NoOverflow
<1> QED
  BY <1>1, <1>2, <1>3, <1>4

\* Once the handshake is over, the window that goes with rcv_nxt ends where
\* the ring does.
LEMMA WindowOfSocket ==
  ASSUME IInv
  PROVE  /\ InWindow(RxCapacity - rx_len)
         /\ Agreed => InWindow(Offset(rcv_nxt) + (RxCapacity - rx_len))
<1>1. Len(got) \in Nat /\ rx_len \in 0 .. RxCapacity
  BY DEF IInv, TypeOK
<1>2. InWindow(RxCapacity - rx_len)
  BY <1>1 DEF InWindow, Least
<1>3. ASSUME Agreed
      PROVE  InWindow(Offset(rcv_nxt) + (RxCapacity - rx_len))
  BY <1>1, <1>3 DEF IInv, RcvInv, InWindow, Least, Arrived
<1> QED
  BY <1>2, <1>3

LEMMA Sendable ==
  ASSUME IInv, NEW flags \in SUBSET Flags, NEW seq \in SeqNums,
         NEW from \in Nat, NEW len \in 0 .. Mss, from + len <= AppLen,
         "ACK" \in flags => Agreed
  PROVE  ClientSegmentOK(Segment(flags, seq, from, len, rcv_nxt, rx_len))
<1>1. Segment(flags, seq, from, len, rcv_nxt, rx_len) \in ClientSegments
  BY DEF Segment, ClientSegments, IInv, TypeOK
<1> QED
  BY <1>1, WindowOfSocket DEF ClientSegmentOK, Segment

LEMMA WindowAfterSend ==
  ASSUME IInv, UNCHANGED <<got, pEdge>>,
         \A m \in toPeer' : m \in toPeer \/ ClientSegmentOK(m)
  PROVE  WindowInv'
<1>1. InWindow(pEdge)'
  BY DEF IInv, WindowInv, InWindow
<1>2. ASSUME NEW m \in toPeer'
      PROVE  ClientSegmentOK(m)'
  BY <1>2 DEF IInv, WindowInv, ClientSegmentOK, InWindow
<1> QED
  BY <1>1, <1>2 DEF WindowInv

LEMMA SynSentType ==
  ASSUME IInv
  PROVE  /\ SeqAdd(Isn, 1) \in SeqNums /\ Isn \in SeqNums
         /\ ClientSegmentOK(Segment({"SYN"}, Isn, 0, 0, rcv_nxt, rx_len))
<1>1. Isn \in SeqNums /\ SeqAdd(Isn, 1) \in SeqNums
  BY SeqAddType DEF SeqNums
<1>2. {"SYN"} \in SUBSET Flags /\ "ACK" \notin {"SYN"}
  BY DEF Flags
<1>3. 0 \in Nat /\ 0 \in 0 .. Mss /\ 0 + 0 <= AppLen
  OBVIOUS
<1>4. ClientSegmentOK(Segment({"SYN"}, Isn, 0, 0, rcv_nxt, rx_len))
  BY <1>1, <1>2, <1>3, Sendable
<1> QED
  BY <1>1, <1>4

-----------------------------------------------------------------------------
(* One lemma for the actions of each call.                                  *)

LEMMA ConnectStep ==
  ASSUME IInv, Connect
  PROVE  IInv'
<1> USE DEF sock, caller, peer
<1>1. CASE ConnectUnreachable
  <2> USE <1>1 DEF ConnectUnreachable
  <2>1. RingInv' /\ PeerInv' /\ SegmentInv' /\ NoOverflow'
    BY QuietStep DEF quiet
  <2>2. TypeOK' /\ CallInv' /\ FreshInv' /\ RcvInv'
    BY DEF IInv, TypeOK, CallInv, FreshInv, RcvInv, Arrived, Agreed, Synchronised
  <2>3. WindowInv'
    BY WindowAfterSend
  <2> QED
    BY <2>1, <2>2, <2>3 DEF IInv
<1>2. CASE ConnectStart
  <2> USE <1>2 DEF ConnectStart, SynSent, SynNotSent
  <2>1. RingInv' /\ PeerInv' /\ SegmentInv' /\ NoOverflow'
    BY QuietStep DEF quiet
  <2>2. TypeOK'
    <3>1. attempt' \in 0 .. Attempts
      BY DEF IInv, TypeOK, CallInv
    <3> QED
      BY <3>1, SynSentType DEF IInv, TypeOK, States
  <2>3. CallInv' /\ FreshInv' /\ RcvInv'
    BY DEF IInv, TypeOK, CallInv, FreshInv, RcvInv, Arrived, Agreed, Synchronised
  <2>4. WindowInv'
    BY WindowAfterSend, SynSentType
  <2> QED
    BY <2>1, <2>2, <2>3, <2>4 DEF IInv
<1>3. CASE ConnectDone
  <2> USE <1>3 DEF ConnectDone
  <2>1. RingInv' /\ PeerInv' /\ SegmentInv' /\ NoOverflow'
    BY QuietStep DEF quiet
  <2>2. TypeOK' /\ CallInv' /\ FreshInv' /\ RcvInv'
    BY DEF IInv, TypeOK, CallInv, FreshInv, RcvInv, Arrived, Agreed, Synchronised
  <2>3. WindowInv'
    BY WindowAfterSend
  <2> QED
    BY <2>1, <2>2, <2>3 DEF IInv
<1>4. CASE ConnectAgain
  <2> USE <1>4 DEF ConnectAgain, SynSent, SynNotSent
  <2>1. RingInv' /\ PeerInv' /\ SegmentInv' /\ NoOverflow'
    BY QuietStep DEF quiet
  <2>2. TypeOK'
    BY SynSentType, SMTT(20) DEF IInv, TypeOK
  <2>3. CallInv' /\ FreshInv' /\ RcvInv'
    BY DEF IInv, TypeOK, CallInv, FreshInv, RcvInv, Arrived, Agreed, Synchronised
  <2>4. WindowInv'
    BY WindowAfterSend, SynSentType
  <2> QED
    BY <2>1, <2>2, <2>3, <2>4 DEF IInv
<1>5. CASE ConnectFailed
  <2> USE <1>5 DEF ConnectFailed
  <2>1. RingInv' /\ PeerInv' /\ SegmentInv' /\ NoOverflow'
    BY QuietStep DEF quiet
  <2>2. TypeOK' /\ CallInv' /\ FreshInv' /\ RcvInv'
    BY DEF IInv, TypeOK, States, CallInv, FreshInv, RcvInv, Arrived, Agreed,
           Synchronised
  <2>3. WindowInv'
    BY WindowAfterSend
  <2> QED
    BY <2>1, <2>2, <2>3 DEF IInv
<1> QED
  BY <1>1, <1>2, <1>3, <1>4, <1>5 DEF Connect

LEMMA UnaAfterType ==
  ASSUME IInv, NEW m \in toClient
  PROVE  /\ UnaAfter(m.ack) \in SeqNums /\ m.seq \in SeqNums
         /\ m.len \in 0 .. Mss /\ m.from \in 0 .. PeerLen + 1
  BY DEF UnaAfter, IInv, TypeOK, SegmentInv, PeerSegmentOK, PeerSegments

LEMMA RstStep ==
  ASSUME IInv, NEW m \in toClient, ReceiveRst(m)
  PROVE  IInv'
<1> USE DEF ReceiveRst, Delivered, caller, peer
<1>1. RingInv' /\ PeerInv' /\ SegmentInv' /\ NoOverflow'
  BY QuietStep DEF quiet
<1>2. TypeOK' /\ CallInv' /\ FreshInv' /\ RcvInv'
  BY DEF IInv, TypeOK, States, CallInv, FreshInv, RcvInv, Arrived, Agreed,
         Synchronised
<1>3. WindowInv'
  BY WindowAfterSend
<1> QED
  BY <1>1, <1>2, <1>3 DEF IInv

\* The handshake: rcv_nxt comes from the SYN, the ring is still empty.
LEMMA SynSentStep ==
  ASSUME IInv, NEW m \in toClient, ReceiveInSynSent(m)
  PROVE  IInv'
<1> USE DEF ReceiveInSynSent, Delivered, caller, peer
<1>1. RingInv' /\ PeerInv' /\ SegmentInv' /\ NoOverflow'
  BY QuietStep DEF quiet
<1>2. TypeOK'
  <2>1. snd_una' \in SeqNums
    BY UnaAfterType
  <2>2. SeqAdd(m.seq, 1) \in SeqNums
    BY UnaAfterType, SeqAddType
  <2>3. rcv_nxt' \in SeqNums /\ state' \in States
    BY <2>2 DEF IInv, TypeOK, States
  <2> QED
    BY <2>1, <2>3 DEF IInv, TypeOK
<1>3. CallInv' /\ FreshInv'
  BY DEF IInv, CallInv, FreshInv, Arrived
<1>4. SeqAdd(PeerIsn, 1) \in SeqNums /\ Offset(SeqAdd(PeerIsn, 1)) = 0
  BY OffsetOf, SeqAddType DEF SeqNums
<1>5. Arrived = 0 /\ rx_len = 0
  BY DEF IInv, FreshInv, TypeOK, Arrived
<1>6. CASE {"SYN", "ACK"} \subseteq m.flags /\ m.ack = snd_nxt
  <2>1. rcv_nxt' = SeqAdd(PeerIsn, 1)
    BY <1>6 DEF IInv, SegmentInv, PeerSegmentOK
  <2>2. RcvInv'
    BY <2>1, <1>4, <1>5 DEF RcvInv, Arrived, Offset
  <2>3. ClientSegmentOK(AckSegment(SeqAdd(PeerIsn, 1), 0))
    <3>1. AckSegment(SeqAdd(PeerIsn, 1), 0) \in ClientSegments
      BY <1>4 DEF IInv, TypeOK, AckSegment, Segment, ClientSegments, Flags
    <3>2. InWindow(0 + (RxCapacity - 0))
      BY DEF IInv, TypeOK, InWindow, Least
    <3> QED
      BY <3>1, <3>2, <1>4 DEF AckSegment, Segment, ClientSegmentOK
  <2>4. WindowInv'
    BY <1>6, <2>1, <2>3, <1>5, WindowAfterSend
  <2> QED
    BY <1>1, <1>2, <1>3, <2>2, <2>4 DEF IInv
<1>7. CASE ~({"SYN", "ACK"} \subseteq m.flags /\ m.ack = snd_nxt)
  <2>1. RcvInv'
    BY <1>7 DEF IInv, CallInv, RcvInv, Arrived, Agreed, Synchronised, Offset
  <2>2. WindowInv'
    BY <1>7, WindowAfterSend
  <2> QED
    BY <1>1, <1>2, <1>3, <2>1, <2>2 DEF IInv
<1> QED
  BY <1>6, <1>7

\* Where a segment with payload or a FIN lies in the peer's stream.
LEMMA SegmentPlace ==
  ASSUME IInv, NEW m \in toClient, m.len # 0 \/ "FIN" \in m.flags
  PROVE  /\ Offset(m.seq) = m.from
         /\ m.from + m.len <= PeerLen /\ m.from + m.len <= pSent
         /\ Offset(SeqAdd(m.seq, m.len)) = m.from + m.len
<1>1. m.from \in Nat /\ m.len \in Nat /\ m.seq \in SeqNums
  BY UnaAfterType
<1>2. m.seq = SeqAdd(PeerIsn, 1 + m.from)
  BY DEF IInv, SegmentInv, PeerSegmentOK
<1>3. pSent \in 0 .. PeerLen
  BY DEF IInv, TypeOK
<1>4. m.from + m.len <= PeerLen /\ m.from + m.len <= pSent
  BY <1>1, <1>3 DEF IInv, SegmentInv, PeerSegmentOK, PeerInv
<1>5. m.from \in 0 .. SeqMod - 2
  BY <1>1, <1>4
<1>6. Offset(m.seq) = m.from
  BY <1>2, <1>5, OffsetOf
<1>7. Offset(m.seq) + m.len < SeqMod
  BY <1>1, <1>4, <1>6
<1>8. Offset(SeqAdd(m.seq, m.len)) = m.from + m.len
  BY <1>1, <1>6, <1>7, OffsetAdd
<1> QED
  BY <1>4, <1>6, <1>8

\* A segment in order continues what the ring holds.
LEMMA InOrderPlace ==
  ASSUME IInv, Synchronised, NEW m \in toClient, InOrder(m)
  PROVE  Offset(rcv_nxt) = Arrived /\ m.from = Arrived
<1>1. m.len # 0 /\ m.len \in Nat /\ m.from \in Nat /\ m.seq = rcv_nxt
  BY UnaAfterType DEF InOrder
<1>2. Offset(rcv_nxt) = m.from /\ m.from + m.len <= PeerLen
  BY <1>1, SegmentPlace
<1>3. Arrived \in Nat
  BY DEF IInv, TypeOK, Arrived
<1> QED
  BY <1>1, <1>2, <1>3 DEF IInv, RcvInv, Agreed

LEMMA AcceptedType ==
  ASSUME IInv, NEW len \in Nat
  PROVE  /\ Accepted(len) \in 0 .. RxCapacity - rx_len
         /\ Accepted(len) <= len
         /\ len <= RxCapacity - rx_len => Accepted(len) = len
  BY DEF IInv, TypeOK, Accepted, Least

\* What tcp_handle_ipv4 makes of the payload: n bytes go into the ring.
LEMMA PayloadTaken ==
  ASSUME IInv, Synchronised, NEW m \in toClient, NEW n,
         n = IF InOrder(m) THEN Accepted(m.len) ELSE 0
  PROVE  /\ n \in 0 .. RxCapacity - rx_len /\ n <= m.len
         /\ n # 0 => m.from = Arrived /\ Arrived + n <= pSent
                     /\ Offset(rcv_nxt) = Arrived
         /\ SeqAdd(rcv_nxt, n) \in SeqNums
         /\ Offset(SeqAdd(rcv_nxt, n)) = Offset(rcv_nxt) + n
<1>1. /\ m.len \in Nat /\ rcv_nxt \in SeqNums /\ Arrived \in Nat
      /\ pSent \in 0 .. PeerLen /\ rx_len \in 0 .. RxCapacity
  BY UnaAfterType DEF IInv, TypeOK, Arrived
<1>2. n \in 0 .. RxCapacity - rx_len /\ n <= m.len /\ n \in Nat
  BY <1>1, AcceptedType
<1>3. ASSUME n # 0
      PROVE  m.from = Arrived /\ Arrived + n <= pSent /\ Offset(rcv_nxt) = Arrived
  <2>1. InOrder(m) /\ m.len # 0
    BY <1>3, <1>1 DEF InOrder
  <2>2. Offset(rcv_nxt) = Arrived /\ m.from = Arrived
    BY <2>1, InOrderPlace
  <2>3. m.from + m.len <= pSent
    BY <2>1, SegmentPlace
  <2> QED
    BY <1>1, <1>2, <2>2, <2>3
<1>4. Offset(rcv_nxt) \in 0 .. SeqMod - 1
  BY <1>1, OffsetType
<1>5. Offset(rcv_nxt) + n < SeqMod
  BY <1>1, <1>2, <1>3, <1>4
<1>6. SeqAdd(rcv_nxt, n) \in SeqNums
  BY <1>1, <1>2, SeqAddType
<1>7. Offset(SeqAdd(rcv_nxt, n)) = Offset(rcv_nxt) + n
  BY <1>1, <1>2, <1>5, OffsetAdd
<1> QED
  BY <1>2, <1>3, <1>6, <1>7

\* A FIN counts only if it follows the last byte received.
LEMMA FinTaken ==
  ASSUME IInv, Synchronised, NEW m \in toClient, NEW n,
         n = IF InOrder(m) THEN Accepted(m.len) ELSE 0,
         FinNext(m, SeqAdd(rcv_nxt, n))
  PROVE  /\ pFin /\ Arrived + n = PeerLen
         /\ Offset(SeqAdd(rcv_nxt, n)) = PeerLen
         /\ SeqAdd(SeqAdd(rcv_nxt, n), 1) \in SeqNums
         /\ Offset(SeqAdd(SeqAdd(rcv_nxt, n), 1)) = PeerLen + 1
<1> DEFINE after == SeqAdd(rcv_nxt, n)
<1>1. "FIN" \in m.flags /\ SeqAdd(m.seq, m.len) = after
  BY DEF FinNext
<1>2. pFin /\ m.from + m.len = PeerLen /\ Offset(SeqAdd(m.seq, m.len)) = m.from + m.len
  BY <1>1, SegmentPlace DEF IInv, SegmentInv, PeerSegmentOK
<1>3. Offset(after) = PeerLen
  BY <1>1, <1>2
<1>4. /\ after \in SeqNums /\ Offset(after) = Offset(rcv_nxt) + n
      /\ n \in Nat /\ Arrived \in Nat
      /\ n # 0 => Offset(rcv_nxt) = Arrived
  BY PayloadTaken DEF IInv, TypeOK, Arrived
<1>5. Offset(rcv_nxt) = Arrived \/ (Offset(rcv_nxt) = Arrived + 1 /\ Arrived = PeerLen)
  BY DEF IInv, RcvInv, Agreed
<1> HIDE DEF after
<1>6. Arrived + n = PeerLen
  BY <1>3, <1>4, <1>5
<1>7. 1 \in Nat /\ Offset(after) + 1 < SeqMod
  BY <1>3
<1>8. SeqAdd(after, 1) \in SeqNums /\ Offset(SeqAdd(after, 1)) = PeerLen + 1
  BY <1>3, <1>4, <1>7, SeqAddType, OffsetAdd
<1> QED
  BY <1>2, <1>3, <1>6, <1>8 DEF after

\* The ring after it.
LEMMA RingAfterAppend ==
  ASSUME IInv, NEW n \in 0 .. RxCapacity - rx_len, NEW from \in Nat,
         n # 0 => from = Arrived /\ Arrived + n <= pSent,
         rx' = rx_append(from, n), rx_len' = rx_len + n,
         UNCHANGED <<rx_start, got, pSent>>
  PROVE  /\ RingInv' /\ Arrived' = Arrived + n
         /\ rx' \in [0 .. RxCapacity - 1 -> 0 .. PeerLen]
         /\ rx_len' \in 0 .. RxCapacity
<1>1. /\ rx_start \in 0 .. RxCapacity - 1 /\ rx_len \in 0 .. RxCapacity
      /\ rx \in [0 .. RxCapacity - 1 -> 0 .. PeerLen]
      /\ Len(got) \in Nat /\ Arrived = Len(got) + rx_len
      /\ pSent \in 0 .. PeerLen
  BY DEF IInv, TypeOK, Arrived
<1>2. Arrived' = Arrived + n /\ rx_len' \in 0 .. RxCapacity
  BY <1>1 DEF Arrived
<1>3. rx' \in [0 .. RxCapacity - 1 -> 0 .. PeerLen]
  <2>1. n \in Nat /\ (n # 0 => from + n <= PeerLen)
    BY <1>1
  <2> QED
    BY <1>1, <2>1, AppendType
<1>4. ASSUME NEW i \in 0 .. rx_len' - 1
      PROVE  rx'[Slot(i)] = Len(got) + i + 1
  <2>1. i \in 0 .. rx_len + n - 1
    BY <1>1
  <2>2. rx'[Slot(i)] = IF i < rx_len THEN rx[Slot(i)] ELSE from + (i - rx_len) + 1
    BY <1>1, <2>1, AppendInRing
  <2>3. CASE i < rx_len
    <3>1. i \in 0 .. rx_len - 1
      BY <2>1, <2>3, <1>1
    <3> QED
      BY <2>2, <2>3, <3>1 DEF IInv, RingInv
  <2>4. CASE ~(i < rx_len)
    <3>1. n # 0
      BY <2>1, <2>4, <1>1
    <3> QED
      BY <1>1, <2>1, <2>2, <2>4, <3>1
  <2> QED
    BY <2>3, <2>4
<1>5. \A i \in 0 .. rx_len' - 1 : Slot(i)' = Slot(i)
  BY DEF Slot
<1>6. Arrived' <= pSent
  BY <1>1, <1>2 DEF IInv, RingInv
<1>7. RingInv'
  BY <1>4, <1>5, <1>6 DEF IInv, RingInv
<1> QED
  BY <1>2, <1>3, <1>7

LEMMA SegmentStep ==
  ASSUME IInv, NEW m \in toClient, ReceiveSegment(m)
  PROVE  IInv'
<1> DEFINE fin == "FIN" \in m.flags
           n == IF InOrder(m) THEN Accepted(m.len) ELSE 0
           after == SeqAdd(rcv_nxt, n)
           next == IF FinNext(m, after) THEN SeqAdd(after, 1) ELSE after
<1>1. /\ state \in {"ESTABLISHED", "CLOSE_WAIT"} /\ Synchronised
      /\ pc # "idle"
  BY DEF ReceiveSegment, Delivered, IInv, TypeOK, States, CallInv, Synchronised
<1>2. /\ snd_una' = UnaAfter(m.ack)
      /\ rx' = rx_append(m.from, n) /\ rx_len' = rx_len + n
      /\ overflowed' = (overflowed \/ (InOrder(m) /\ n < m.len))
      /\ rcv_nxt' = next
      /\ state' \in {"ESTABLISHED", "CLOSE_WAIT"}
      /\ toPeer' = toPeer
           \cup (IF m.len # 0 THEN {AckSegment(after, rx_len + n)} ELSE {})
           \cup (IF fin THEN {AckSegment(next, rx_len + n)} ELSE {})
      /\ UNCHANGED <<snd_nxt, rx_start, ackTimeout, handler, caller, toClient, peer>>
  BY <1>1 DEF ReceiveSegment, StateAfter, RcvAfter
<1>3. /\ n \in 0 .. RxCapacity - rx_len /\ n <= m.len
      /\ n # 0 => m.from = Arrived /\ Arrived + n <= pSent /\ Offset(rcv_nxt) = Arrived
      /\ after \in SeqNums /\ Offset(after) = Offset(rcv_nxt) + n
  <2> HIDE DEF n
  <2>1. n = IF InOrder(m) THEN Accepted(m.len) ELSE 0
    BY DEF n
  <2> QED
    BY <1>1, <2>1, PayloadTaken
<1>4. FinNext(m, after) => /\ pFin /\ Arrived + n = PeerLen
                           /\ SeqAdd(after, 1) \in SeqNums
                           /\ Offset(SeqAdd(after, 1)) = PeerLen + 1
  <2> HIDE DEF n
  <2>1. n = IF InOrder(m) THEN Accepted(m.len) ELSE 0
    BY DEF n
  <2> QED
    BY <1>1, <2>1, FinTaken
<1> HIDE DEF n, after
<1>5. /\ Arrived \in Nat /\ rx_len \in 0 .. RxCapacity /\ pSent \in 0 .. PeerLen
      /\ m.len \in 0 .. Mss /\ m.from \in Nat /\ Len(got) \in Nat
      /\ Arrived = Len(got) + rx_len
  BY UnaAfterType DEF IInv, TypeOK, Arrived
<1>6. /\ RingInv' /\ Arrived' = Arrived + n
      /\ rx' \in [0 .. RxCapacity - 1 -> 0 .. PeerLen]
      /\ rx_len' \in 0 .. RxCapacity
  <2>1. UNCHANGED <<rx_start, got, pSent>>
    BY <1>2 DEF caller, peer
  <2> QED
    BY <1>2, <1>3, <1>5, <2>1, RingAfterAppend
<1>7. next \in SeqNums
  BY <1>3, <1>4
<1>8. TypeOK'
  <2>1. snd_una' \in SeqNums
    BY <1>2, UnaAfterType
  <2>2. overflowed' \in BOOLEAN
    BY <1>2 DEF IInv, TypeOK
  <2> QED
    BY <1>2, <1>6, <1>7, <2>1, <2>2 DEF IInv, TypeOK, States, caller, peer
<1>9. CallInv' /\ FreshInv'
  BY <1>1, <1>2 DEF IInv, CallInv, FreshInv, caller
<1>10. PeerInv' /\ SegmentInv'
  BY <1>2 DEF IInv, PeerInv, SegmentInv, PeerSegmentOK, peer
\* where the acknowledgements of the segment stand
<1>11. /\ \/ Offset(after) = Arrived + n
          \/ Offset(after) = Arrived + n + 1 /\ pFin /\ Arrived + n = PeerLen
       /\ \/ Offset(next) = Arrived + n
          \/ Offset(next) = Arrived + n + 1 /\ pFin /\ Arrived + n = PeerLen
  <2>1. \/ Offset(rcv_nxt) = Arrived
        \/ Offset(rcv_nxt) = Arrived + 1 /\ pFin /\ Arrived = PeerLen
    BY <1>1 DEF IInv, RcvInv, Agreed
  <2>2. \/ Offset(after) = Arrived + n
        \/ Offset(after) = Arrived + n + 1 /\ pFin /\ Arrived + n = PeerLen
    BY <1>3, <1>5, <2>1
  <2> QED
    BY <1>4, <2>2
<1>12. RcvInv'
  <2>1. Offset(rcv_nxt)' = Offset(next)
    BY <1>2 DEF Offset
  <2> QED
    BY <1>2, <1>6, <1>11, <2>1 DEF RcvInv, peer
<1>13. WindowInv'
  <2>1. ASSUME NEW ack \in SeqNums,
               \/ Offset(ack) = Arrived + n
               \/ Offset(ack) = Arrived + n + 1 /\ Arrived + n = PeerLen
        PROVE  ClientSegmentOK(AckSegment(ack, rx_len + n))
    <3>1. AckSegment(ack, rx_len + n) \in ClientSegments
      BY <1>3, <1>5 DEF IInv, TypeOK, AckSegment, Segment, ClientSegments, Flags
    <3>2. Offset(ack) + (RxCapacity - (rx_len + n)) <= Len(got) + RxCapacity \/
          PeerLen <= Len(got) + RxCapacity
      BY <2>1, <1>3, <1>5
    <3>3. Offset(ack) + (RxCapacity - (rx_len + n)) \in Int
      BY <2>1, <1>3, <1>5
    <3>4. InWindow(Offset(ack) + (RxCapacity - (rx_len + n)))
      BY <3>2, <3>3, <1>5 DEF InWindow, Least
    <3> QED
      BY <3>1, <3>4 DEF AckSegment, Segment, ClientSegmentOK
  <2>2. \A s \in toPeer' : s \in toPeer \/ ClientSegmentOK(s)
    BY <1>2, <1>3, <1>7, <1>11, <2>1
  <2>3. UNCHANGED <<got, pEdge>>
    BY <1>2 DEF caller, peer
  <2> QED
    BY <2>2, <2>3, WindowAfterSend
<1>14. NoOverflow'
  <2>1. ASSUME Overshoot = 0, InOrder(m)
        PROVE  ~(n < m.len)
    <3>1. m.len # 0 /\ m.from = Arrived
      BY <1>1, <2>1, InOrderPlace DEF InOrder
    <3>2. m.from + m.len <= PeerLen /\ m.from + m.len <= pEdge + 0
      BY <2>1, <3>1, SegmentPlace DEF IInv, SegmentInv, PeerSegmentOK
    <3>3. m.from + m.len <= Len(got) + RxCapacity
      BY <3>2, <1>5 DEF IInv, TypeOK, WindowInv, InWindow, Least
    <3>4. m.len <= RxCapacity - rx_len
      BY <3>1, <3>3, <1>5
    <3> QED
      BY <2>1, <3>4, <1>5, AcceptedType DEF n
  <2> QED
    BY <1>2, <2>1, Zenon DEF IInv, NoOverflow
<1> QED
  BY <1>6, <1>8, <1>9, <1>10, <1>12, <1>13, <1>14 DEF IInv

LEMMA ReceiveStep ==
  ASSUME IInv, Receive
  PROVE  IInv'
  BY RstStep, SynSentStep, SegmentStep DEF Receive

LEMMA BufferedNext ==
  ASSUME IInv, NEW n \in 1 .. rx_len
  PROVE  got \o Buffered(n) = Iota(Len(got) + n)
<1>1. /\ got \in Seq(1 .. PeerLen) /\ Len(got) \in Nat /\ rx_len \in 0 .. RxCapacity
      /\ pSent \in 0 .. PeerLen /\ n \in Nat
  BY DEF IInv, TypeOK
<1>2. \A i \in 1 .. n : Buffered(n)[i] = Len(got) + i
  <2> TAKE i \in 1 .. n
  <2>1. i - 1 \in 0 .. rx_len - 1 /\ i \in Int
    BY <1>1
  <2>2. rx[Slot(i - 1)] = Len(got) + (i - 1) + 1
    BY <2>1 DEF IInv, RingInv
  <2> QED
    BY <2>1, <2>2, <1>1 DEF Buffered
<1>3. Buffered(n) \in Seq(Nat) /\ Len(Buffered(n)) = n
  <2>1. \A i \in 1 .. n : rx[Slot(i - 1)] \in Nat
    BY <1>1, <1>2 DEF Buffered
  <2> QED
    BY <2>1, <1>1 DEF Buffered
<1>4. got \in Seq(Nat)
  BY <1>1
<1>5. got = Iota(Len(got))
  BY DEF IInv, RingInv
<1>6. /\ got \o Buffered(n) \in Seq(Nat)
      /\ Len(got \o Buffered(n)) = Len(got) + n
      /\ \A i \in 1 .. Len(got) + n :
           (got \o Buffered(n))[i] =
             IF i <= Len(got) THEN got[i] ELSE Buffered(n)[i - Len(got)]
  BY <1>1, <1>3, <1>4, ConcatProperties
<1>7. \A i \in 1 .. Len(got) + n : (got \o Buffered(n))[i] = i
  <2> TAKE i \in 1 .. Len(got) + n
  <2>1. CASE i <= Len(got)
    BY <2>1, <1>1, <1>5, <1>6 DEF Iota
  <2>2. CASE ~(i <= Len(got))
    <3>1. i - Len(got) \in 1 .. n
      BY <2>2, <1>1
    <3> QED
      BY <2>2, <3>1, <1>1, <1>2, <1>6
  <2> QED
    BY <2>1, <2>2
<1>8. Iota(Len(got) + n) \in Seq(Nat) /\ Len(Iota(Len(got) + n)) = Len(got) + n
  BY <1>1 DEF Iota
<1> QED
  BY <1>1, <1>6, <1>7, <1>8, SeqEqual DEF Iota

LEMMA StreamFromInv ==
  ASSUME IInv
  PROVE  StreamInOrder
<1>1. CASE rx_len = 0
  BY <1>1 DEF IInv, TypeOK, RingInv, StreamInOrder, Buffered, Arrived
<1>2. CASE rx_len # 0
  BY <1>2, BufferedNext, SMTT(20) DEF IInv, TypeOK, StreamInOrder, Arrived
<1> QED
  BY <1>1, <1>2

\* More bytes read: every window stays inside the ring.
LEMMA SegmentStaysOK ==
  ASSUME NEW m, ClientSegmentOK(m),
         Len(got) \in Nat, Len(got)' \in Nat, Len(got)' >= Len(got)
  PROVE  ClientSegmentOK(m)'
<1>1. m \in ClientSegments /\ m.ack \in SeqNums /\ m.wnd \in Int
  BY DEF ClientSegmentOK, ClientSegments
<1>2. Offset(m.ack) + m.wnd \in Int
  BY <1>1, OffsetType
<1> QED
  BY <1>1, <1>2 DEF ClientSegmentOK, InWindow, Least

LEMMA TakeStep ==
  ASSUME IInv, NEW n, Take(n), pc = "idle" \/ pc = "read", phase = "open"
  PROVE  IInv'
<1> USE DEF Take
<1>1. /\ rx_start \in 0 .. RxCapacity - 1 /\ rx_len \in 0 .. RxCapacity
      /\ n \in 1 .. rx_len /\ got \in Seq(1 .. PeerLen) /\ Len(got) \in Nat
      /\ pSent \in 0 .. PeerLen /\ rcv_nxt \in SeqNums
  BY DEF IInv, TypeOK
<1>2. got' = Iota(Len(got) + n)
  BY <1>1, BufferedNext
<1>3. Len(got') = Len(got) + n /\ Arrived' = Arrived
  BY <1>1, <1>2 DEF Iota, Arrived
<1>4. Arrived <= PeerLen
  BY <1>1 DEF IInv, RingInv, Arrived
<1>5. got' \in Seq(1 .. PeerLen)
  <2>1. Len(got) + n \in Nat /\ \A i \in 1 .. Len(got) + n : i \in 1 .. PeerLen
    BY <1>1, <1>4 DEF Arrived
  <2> QED
    BY <1>2, <2>1 DEF Iota
<1>6. rx_start' \in 0 .. RxCapacity - 1 /\ rx_len' \in 0 .. RxCapacity
  BY <1>1, SlotType
<1>7. TypeOK'
  BY <1>5, <1>6 DEF IInv, TypeOK, caller, peer
<1>8. CallInv' /\ FreshInv'
  BY <1>3 DEF IInv, CallInv, FreshInv
<1>9. RingInv'
  <2>1. \A i \in 0 .. rx_len' - 1 : rx'[Slot(i)'] = Len(got') + i + 1
    <3> TAKE i \in 0 .. rx_len' - 1
    <3>1. n \in Nat /\ i \in Nat /\ n + i \in 0 .. rx_len - 1 /\ n + i \in 0 .. RxCapacity
      BY <1>1
    <3>2. Slot(i)' = Slot(n + i)
      BY <1>1, <3>1, SlotAfterTake
    <3>3. rx[Slot(n + i)] = Len(got) + (n + i) + 1
      BY <3>1 DEF IInv, RingInv
    <3> QED
      BY <1>1, <1>3, <3>1, <3>2, <3>3
  <2> QED
    BY <1>1, <1>2, <1>3, <2>1 DEF IInv, RingInv, peer
<1>10. RcvInv'
  BY <1>3 DEF IInv, RcvInv, Agreed, Synchronised, Offset, peer
<1>11. PeerInv' /\ SegmentInv' /\ NoOverflow'
  BY DEF IInv, PeerInv, SegmentInv, PeerSegmentOK, NoOverflow, peer
<1>12. WindowInv'
  <2>1. ASSUME NEW m \in toPeer', m \notin toPeer
        PROVE  m \in ClientSegments /\ m.from = 0 /\ m.len = 0 /\ m.flags = {"ACK"}
               /\ m.ack = rcv_nxt /\ m.wnd = RxCapacity - (rx_len - n)
    BY <2>1, <1>1 DEF WindowUpdate, AckSegment, Segment, ClientSegments, Flags, IInv, TypeOK
  <2>2. Agreed
    BY DEF Agreed
  <2>3. /\ Offset(rcv_nxt) \in Nat
        /\ Offset(rcv_nxt) # Arrived =>
             Offset(rcv_nxt) = Arrived + 1 /\ Arrived = PeerLen
    BY <1>1, <2>2, OffsetType DEF IInv, RcvInv
  <2>4. Least(PeerLen, Offset(rcv_nxt) + (RxCapacity - (rx_len - n)))
          <= Len(got)' + RxCapacity
    BY <1>1, <1>3, <2>3 DEF Least, Arrived
  <2>5. InWindow(pEdge)'
    BY <1>1, <1>3 DEF IInv, TypeOK, WindowInv, InWindow, Least, peer
  <2>6. ASSUME NEW m \in toPeer'
        PROVE  ClientSegmentOK(m)'
    <3>1. CASE m \in toPeer
      BY <1>1, <1>3, <3>1, SegmentStaysOK DEF IInv, WindowInv
    <3>2. CASE m \notin toPeer
      BY <2>1, <2>4, <3>2 DEF ClientSegmentOK, InWindow
    <3> QED
      BY <3>1, <3>2
  <2> QED
    BY <2>5, <2>6 DEF WindowInv
<1> QED
  BY <1>7, <1>8, <1>9, <1>10, <1>11, <1>12 DEF IInv

LEMMA ReadStep ==
  ASSUME IInv, Read
  PROVE  IInv'
<1>1. CASE \E n \in 1 .. RxCapacity : ReadNow(n) \/ ReadDone(n)
  <2>1. PICK n : Take(n) /\ (pc = "read" \/ (pc = "idle" /\ phase = "open"))
    BY <1>1 DEF ReadNow, ReadDone
  <2>2. phase = "open"
    BY <2>1 DEF IInv, CallInv
  <2> QED
    BY <2>1, <2>2, TakeStep
<1>2. CASE ReadWait
  <2> USE <1>2 DEF ReadWait, sock, peer
  <2>1. RingInv' /\ PeerInv' /\ SegmentInv' /\ NoOverflow'
    BY QuietStep DEF quiet
  <2>2. TypeOK' /\ CallInv' /\ FreshInv' /\ RcvInv'
    BY DEF IInv, TypeOK, CallInv, FreshInv, RcvInv, Arrived, Agreed, Synchronised
  <2>3. WindowInv'
    BY WindowAfterSend
  <2> QED
    BY <2>1, <2>2, <2>3 DEF IInv
<1>3. CASE ReadNothing
  <2> USE <1>3 DEF ReadNothing, sock, peer
  <2>1. RingInv' /\ PeerInv' /\ SegmentInv' /\ NoOverflow'
    BY QuietStep DEF quiet
  <2>2. TypeOK' /\ CallInv' /\ FreshInv' /\ RcvInv'
    BY DEF IInv, TypeOK, CallInv, FreshInv, RcvInv, Arrived, Agreed, Synchronised
  <2>3. WindowInv'
    BY WindowAfterSend
  <2> QED
    BY <2>1, <2>2, <2>3 DEF IInv
<1> QED
  BY <1>1, <1>2, <1>3 DEF Read

LEMMA PollStep ==
  ASSUME IInv, Poll
  PROVE  IInv'
<1>1. CASE \E noDeadline \in BOOLEAN : PollWait(noDeadline)
  <2> USE <1>1 DEF PollWait, sock, peer
  <2>1. RingInv' /\ PeerInv' /\ SegmentInv' /\ NoOverflow'
    BY QuietStep DEF quiet
  <2>2. TypeOK' /\ CallInv' /\ FreshInv' /\ RcvInv'
    BY DEF IInv, TypeOK, CallInv, FreshInv, RcvInv, Arrived, Agreed, Synchronised
  <2>3. WindowInv'
    BY WindowAfterSend
  <2> QED
    BY <2>1, <2>2, <2>3 DEF IInv
<1>2. CASE PollDone
  <2> USE <1>2 DEF PollDone, sock, peer
  <2>1. RingInv' /\ PeerInv' /\ SegmentInv' /\ NoOverflow'
    BY QuietStep DEF quiet
  <2>2. TypeOK' /\ CallInv' /\ FreshInv' /\ RcvInv'
    BY DEF IInv, TypeOK, CallInv, FreshInv, RcvInv, Arrived, Agreed, Synchronised
  <2>3. WindowInv'
    BY WindowAfterSend
  <2> QED
    BY <2>1, <2>2, <2>3 DEF IInv
<1> QED
  BY <1>1, <1>2 DEF Poll

LEMMA CloseStep ==
  ASSUME IInv, Close
  PROVE  IInv'
<1> USE DEF Close, peer
<1>1. RingInv' /\ PeerInv' /\ SegmentInv' /\ NoOverflow'
  BY QuietStep DEF quiet
<1>2. TypeOK'
  <2>1. SeqAdd(snd_nxt, 1) \in SeqNums
    BY SeqAddType DEF IInv, TypeOK
  <2> QED
    BY <2>1 DEF IInv, TypeOK, States
<1>3. CallInv' /\ FreshInv' /\ RcvInv'
  BY DEF IInv, CallInv, FreshInv, RcvInv, Arrived, Agreed, Synchronised
<1>4. WindowInv'
  <2>1. CASE state \in {"ESTABLISHED", "CLOSE_WAIT"}
    <3>1. {"ACK", "FIN"} \in SUBSET Flags /\ 0 \in Nat /\ 0 \in 0 .. Mss /\ 0 + 0 <= AppLen
      BY DEF Flags
    <3>2. Agreed /\ snd_nxt \in SeqNums
      BY <2>1 DEF IInv, TypeOK, Agreed, Synchronised
    <3>3. ClientSegmentOK(Segment({"ACK", "FIN"}, snd_nxt, 0, 0, rcv_nxt, rx_len))
      BY <3>1, <3>2, Sendable
    <3> QED
      BY <2>1, <3>3, WindowAfterSend
  <2>2. CASE state \notin {"ESTABLISHED", "CLOSE_WAIT"}
    BY <2>2, WindowAfterSend
  <2> QED
    BY <2>1, <2>2
<1> QED
  BY <1>1, <1>2, <1>3, <1>4 DEF IInv

LEMMA WriteReturnsStep ==
  ASSUME IInv, phase = "open", NEW n \in Nat, told + n <= AppLen,
         WriteReturns(n), WriteFrame, ackTimeout' \in BOOLEAN,
         UNCHANGED <<snd_nxt, toPeer>>
  PROVE  IInv'
<1> USE DEF WriteReturns, WriteFrame, peer
<1>1. RingInv' /\ PeerInv' /\ SegmentInv' /\ NoOverflow'
  BY QuietStep DEF quiet
<1>2. TypeOK'
  BY DEF IInv, TypeOK, NoWrite, SeqNums
<1>3. CallInv' /\ FreshInv' /\ RcvInv'
  BY DEF IInv, CallInv, FreshInv, RcvInv, Arrived, Agreed, Synchronised
<1>4. WindowInv'
  BY WindowAfterSend
<1> QED
  BY <1>1, <1>2, <1>3, <1>4 DEF IInv

LEMMA SendChunkStep ==
  ASSUME IInv, phase = "open", NEW count \in Nat, NEW sent \in Nat, sent < count,
         told + count <= AppLen, SendChunk(count, sent), WriteFrame,
         ackTimeout' \in BOOLEAN
  PROVE  IInv'
<1> DEFINE chunk == Least(count - sent, Mss)
<1>1. CASE WriteReturns(sent) /\ UNCHANGED <<snd_nxt, toPeer>>
  <2>1. told + sent <= AppLen
    BY DEF IInv, TypeOK
  <2> QED
    BY <1>1, <2>1, WriteReturnsStep
<1>2. CASE /\ toPeer' = toPeer \cup {DataSegment(snd_nxt, told + sent, chunk)}
           /\ snd_nxt' = SeqAdd(snd_nxt, chunk)
           /\ wr' = [count |-> count, sent |-> sent, chunk |-> chunk,
                      end_seq |-> SeqAdd(snd_nxt, chunk)]
           /\ pc' = "write" /\ UNCHANGED <<told, phase>>
  <2> USE <1>2 DEF WriteFrame, peer
  <2>1. RingInv' /\ PeerInv' /\ SegmentInv' /\ NoOverflow'
    BY QuietStep DEF quiet
  <2>2. /\ chunk \in 0 .. Mss /\ chunk \in Nat /\ sent + chunk <= count
        /\ count \in 0 .. AppLen /\ sent \in 0 .. AppLen
        /\ told + sent \in Nat /\ told + sent + chunk <= AppLen
        /\ snd_nxt \in SeqNums
    BY DEF IInv, TypeOK, Least
  <2> HIDE DEF chunk
  <2>3. SeqAdd(snd_nxt, chunk) \in SeqNums
    BY <2>2, SeqAddType
  <2>4. TypeOK'
    BY <2>2, <2>3 DEF IInv, TypeOK
  <2>5. CallInv' /\ FreshInv' /\ RcvInv'
    BY <2>2 DEF IInv, CallInv, FreshInv, RcvInv, Arrived, Agreed, Synchronised
  <2>6. WindowInv'
    <3>1. {"ACK", "PSH"} \in SUBSET Flags /\ Agreed
      BY DEF Flags, Agreed
    <3>2. ClientSegmentOK(DataSegment(snd_nxt, told + sent, chunk))
      BY <3>1, <2>2, Sendable DEF DataSegment
    <3> QED
      BY <3>2, WindowAfterSend
  <2> QED
    BY <2>1, <2>4, <2>5, <2>6 DEF IInv
<1> QED
  BY <1>1, <1>2 DEF SendChunk

LEMMA WriteStep ==
  ASSUME IInv, Write
  PROVE  IInv'
<1> USE DEF sock, caller, peer
<1>1. /\ told \in 0 .. AppLen /\ wr.count \in Nat /\ wr.sent \in Nat
      /\ wr.chunk \in 0 .. Mss /\ wr.end_seq \in SeqNums
      /\ ackTimeout \in BOOLEAN
  BY DEF IInv, TypeOK
<1>2. pc = "write" => /\ phase = "open" /\ told + wr.count <= AppLen
                      /\ wr.sent + wr.chunk <= wr.count
  BY DEF IInv, CallInv
<1>3. ASSUME NEW count \in 1 .. AppLen, WriteStart(count)
      PROVE  IInv'
  <2>1. count \in Nat /\ 0 \in Nat /\ 0 < count /\ told + count <= AppLen
    BY <1>1, <1>3 DEF WriteStart
  <2> QED
    BY <1>1, <1>3, <2>1, SendChunkStep DEF WriteStart
<1>4. CASE WriteRefused
  <2>1. 0 \in Nat /\ told + 0 <= AppLen
    BY <1>1
  <2> QED
    BY <1>1, <1>4, <2>1, WriteReturnsStep DEF WriteRefused
<1>5. CASE Resend
  <2> USE <1>5 DEF Resend
  <2>1. RingInv' /\ PeerInv' /\ SegmentInv' /\ NoOverflow'
    BY QuietStep DEF quiet
  <2>2. TypeOK' /\ CallInv' /\ FreshInv' /\ RcvInv'
    BY DEF IInv, TypeOK, CallInv, FreshInv, RcvInv, Arrived, Agreed, Synchronised
  <2>3. WindowInv'
    <3>1. ResendSeq \in SeqNums
      BY <1>1 DEF ResendSeq, SeqNums
    <3>2. {"ACK", "PSH"} \in SUBSET Flags /\ Agreed
      BY <1>2 DEF Flags, Agreed
    <3>3. told + wr.sent \in Nat /\ told + wr.sent + wr.chunk <= AppLen
      BY <1>1, <1>2
    <3>4. ClientSegmentOK(DataSegment(ResendSeq, told + wr.sent, wr.chunk))
      BY <1>1, <3>1, <3>2, <3>3, Sendable DEF DataSegment
    <3> QED
      BY <3>4, WindowAfterSend
  <2> QED
    BY <2>1, <2>2, <2>3 DEF IInv
<1>6. CASE WriteShort
  <2>1. told + wr.sent <= AppLen
    BY <1>1, <1>2, <1>6 DEF WriteShort
  <2> QED
    BY <1>1, <1>2, <1>6, <2>1, WriteReturnsStep DEF WriteShort
<1>7. CASE WriteAcked
  <2> DEFINE sent == wr.sent + wr.chunk
  <2>1. sent \in Nat /\ told + sent <= AppLen /\ phase = "open"
    BY <1>1, <1>2, <1>7 DEF WriteAcked
  <2>2. /\ \/ sent < wr.count /\ SendChunk(wr.count, sent)
           \/ sent = wr.count /\ WriteReturns(sent) /\ UNCHANGED <<snd_nxt, toPeer>>
        /\ WriteFrame /\ ackTimeout' \in BOOLEAN
        /\ told + wr.count <= AppLen
    BY <1>1, <1>2, <1>7 DEF WriteAcked
  <2> HIDE DEF sent
  <2> QED
    BY <1>1, <2>1, <2>2, SendChunkStep, WriteReturnsStep
<1> QED
  BY <1>3, <1>4, <1>5, <1>6, <1>7 DEF Write

\* What the peer has sent and may send only grows: its segments stay right.
LEMMA PeerSegmentStaysOK ==
  ASSUME NEW m, PeerSegmentOK(m), pSent \in Int, pEdge \in Int,
         pSent' \in Int, pEdge' \in Int,
         pSent' >= pSent, pEdge' >= pEdge, pFin => pFin'
  PROVE  PeerSegmentOK(m)'
<1>1. m.from \in Int /\ m.len \in Int
  BY DEF PeerSegmentOK, PeerSegments
<1> QED
  BY <1>1 DEF PeerSegmentOK

LEMMA PeerStepFrame ==
  ASSUME IInv, UNCHANGED <<sock, caller, toPeer>>,
         pState' \in {"LISTEN", "SYN_RCVD", "OPEN", "DEAD"},
         pSent' \in 0 .. PeerLen, pFin' \in BOOLEAN, pEdge' \in Nat,
         pGot' \in Seq(1 .. AppLen), pClosed' \in BOOLEAN,
         pState' = "LISTEN" => pEdge' = 0,
         pSent' >= pSent, pEdge' >= pEdge, pFin => pFin',
         pFin' => pSent' = PeerLen, InWindow(pEdge'),
         \A m \in toClient' : m \in toClient \/ PeerSegmentOK(m)'
  PROVE  IInv'
<1> USE DEF sock, caller
<1>1. TypeOK'
  BY DEF IInv, TypeOK
<1>2. CallInv' /\ FreshInv' /\ NoOverflow'
  BY DEF IInv, CallInv, FreshInv, Arrived, NoOverflow
<1>3. RingInv'
  BY DEF IInv, TypeOK, RingInv, Slot, Arrived
<1>4. RcvInv' /\ PeerInv'
  BY DEF IInv, RcvInv, Arrived, Agreed, Synchronised, Offset, PeerInv
<1>5. WindowInv'
  <2>1. InWindow(pEdge)'
    BY DEF InWindow
  <2>2. \A m \in toPeer' : ClientSegmentOK(m)'
    BY DEF IInv, WindowInv, ClientSegmentOK, InWindow
  <2> QED
    BY <2>1, <2>2 DEF WindowInv
<1>6. SegmentInv'
  <2>1. pSent \in Int /\ pEdge \in Int /\ pSent' \in Int /\ pEdge' \in Int
    BY DEF IInv, TypeOK
  <2>2. \A m \in toClient' : PeerSegmentOK(m)'
    BY <2>1, PeerSegmentStaysOK DEF IInv, SegmentInv
  <2> QED
    BY <2>2 DEF SegmentInv
<1> QED
  BY <1>1, <1>2, <1>3, <1>4, <1>5, <1>6 DEF IInv

LEMMA PeerSegmentFields ==
  ASSUME NEW flags \in SUBSET Flags, NEW from \in 0 .. PeerLen + 1,
         NEW len \in 0 .. Mss, NEW received \in Nat
  PROVE  /\ PeerSegment(flags, from, len, received) \in PeerSegments
         /\ PeerSegment(flags, from, len, received).flags = flags
         /\ PeerSegment(flags, from, len, received).from = from
         /\ PeerSegment(flags, from, len, received).len = len
         /\ PeerSegment(flags, from, len, received).seq = SeqAdd(PeerIsn, 1 + from)
<1>1. /\ Isn \in SeqNums /\ PeerIsn \in SeqNums
      /\ 1 + from \in Nat /\ 1 + received \in Nat
  BY DEF SeqNums
<1>2. SeqAdd(PeerIsn, 1 + from) \in SeqNums /\ SeqAdd(Isn, 1 + received) \in SeqNums
  BY <1>1, SeqAddType
<1> QED
  BY <1>2 DEF PeerSegment, PeerSegments

LEMMA PeerStep ==
  ASSUME IInv, Peer
  PROVE  IInv'
<1> USE DEF peer
<1>1. /\ pSent \in 0 .. PeerLen /\ pFin \in BOOLEAN /\ pEdge \in Nat
      /\ pGot \in Seq(1 .. AppLen) /\ Len(pGot) \in Nat /\ pClosed \in BOOLEAN
      /\ pState \in {"LISTEN", "SYN_RCVD", "OPEN", "DEAD"}
      /\ InWindow(pEdge) /\ (pFin => pSent = PeerLen)
      /\ (pState = "LISTEN" => pEdge = 0)
  BY DEF IInv, TypeOK, PeerInv, WindowInv
<1>2. ASSUME NEW m \in toPeer, PeerAccepts(m)
      PROVE  IInv'
  <2> USE <1>2 DEF PeerAccepts
  <2>1. /\ m.wnd \in Nat /\ m.seq \in SeqNums /\ InWindow(m.wnd)
    BY DEF IInv, WindowInv, ClientSegmentOK, ClientSegments
  <2>2. SeqAdd(m.seq, 1) \in SeqNums
    BY <2>1, SeqAddType
  <2> DEFINE s == [flags |-> {"SYN", "ACK"}, seq |-> PeerIsn, from |-> 0,
                   len |-> 0, ack |-> SeqAdd(m.seq, 1)]
  <2>3. s \in PeerSegments
    BY <2>2 DEF PeerSegments, Flags, SeqNums
  <2>4. ASSUME NEW t, t = s
        PROVE  PeerSegmentOK(t)'
    BY <2>3, <2>4 DEF PeerSegmentOK
  <2>5. \A t \in toClient' : t \in toClient \/ PeerSegmentOK(t)'
    BY <2>4
  <2> QED
    BY <1>1, <2>1, <2>5, PeerStepFrame
<1>3. ASSUME NEW m \in toPeer, PeerReceives(m)
      PROVE  IInv'
  <2> USE <1>3 DEF PeerReceives
  <2>1. /\ m.wnd \in Nat /\ m.ack \in SeqNums /\ m.from \in 0 .. AppLen
        /\ m.len \in 0 .. Mss /\ m.from + m.len <= AppLen
        /\ InWindow(Offset(m.ack) + m.wnd)
    BY DEF IInv, WindowInv, ClientSegmentOK, ClientSegments
  <2>2. Offset(m.ack) + m.wnd \in Nat
    BY <2>1, OffsetType
  <2>3. /\ pEdge' \in Nat /\ pEdge' >= pEdge /\ InWindow(pEdge')
    BY <1>1, <2>1, <2>2 DEF Most
  <2> DEFINE isNext == m.seq = SeqAdd(Isn, 1 + Len(pGot)) /\ ~pClosed
             data == IF isNext THEN [i \in 1 .. m.len |-> m.from + i] ELSE <<>>
             closed == pClosed \/ (isNext /\ "FIN" \in m.flags)
             received == Len(pGot) + Len(data) + (IF closed THEN 1 ELSE 0)
             from == pSent + (IF pFin THEN 1 ELSE 0)
             reply == PeerSegment({"ACK"}, from, 0, received)
  <2>4. data \in Seq(1 .. AppLen) /\ Len(data) \in Nat
    <3> HIDE DEF PeerReceives
    <3>1. m.len \in Nat /\ \A i \in 1 .. m.len : m.from + i \in 1 .. AppLen
      BY <2>1
    <3>2. CASE isNext
      BY <3>1, <3>2
    <3>3. CASE ~isNext
      <4>1. data = <<>>
        BY <3>3
      <4> QED
        BY <4>1, EmptySeq
    <3> QED
      BY <3>2, <3>3
  <2>5. closed \in BOOLEAN
    BY <1>1
  <2>6. /\ pGot' = pGot \o data /\ pClosed' = closed
        /\ pState' = "OPEN" /\ UNCHANGED <<sock, caller, toPeer, pSent, pFin>>
        /\ \A t \in toClient' : t \in toClient \/ t = reply
    OBVIOUS
  <2> HIDE DEF PeerReceives
  <2> HIDE DEF data, closed, isNext
  <2>7. received \in Nat /\ from \in 0 .. PeerLen + 1
    BY <1>1, <2>4
  <2> HIDE DEF received, from
  <2>8. pGot' \in Seq(1 .. AppLen) /\ pClosed' \in BOOLEAN
    BY <1>1, <2>4, <2>5, <2>6, ConcatProperties
  <2>9. ASSUME NEW t, t = reply
        PROVE  PeerSegmentOK(t)'
    <3>1. {"ACK"} \in SUBSET Flags /\ 0 \in 0 .. Mss
      BY DEF Flags
    <3> QED
      BY <3>1, <2>7, <2>9, PeerSegmentFields DEF PeerSegmentOK
  <2> QED
    BY <1>1, <2>3, <2>6, <2>8, <2>9, PeerStepFrame
<1>4. ASSUME NEW from \in 0 .. PeerLen, NEW len \in 0 .. Mss, NEW fin \in BOOLEAN,
             PeerSends(from, len, fin)
      PROVE  IInv'
  <2> USE <1>4 DEF PeerSends
  <2> DEFINE flags == IF fin THEN {"ACK", "FIN"} ELSE {"ACK"}
             received == Len(pGot) + (IF pClosed THEN 1 ELSE 0)
             s == PeerSegment(flags, from, len, received)
  <2>1. /\ from + len <= PeerLen /\ from + len <= pEdge + Overshoot
        /\ from <= pSent
    BY <1>1 DEF Least
  <2>2. /\ pSent' \in 0 .. PeerLen /\ pSent' >= pSent /\ from + len <= pSent'
        /\ (fin => from + len = PeerLen) /\ (pFin' => pSent' = PeerLen)
        /\ pFin' \in BOOLEAN /\ (pFin => pFin') /\ (fin => pFin')
    BY <1>1, <2>1 DEF Most
  <2>3. flags \in SUBSET Flags /\ received \in Nat /\ from \in 0 .. PeerLen + 1
    BY <1>1 DEF Flags
  <2>4. "SYN" \notin flags /\ ("FIN" \in flags => fin)
    OBVIOUS
  <2> HIDE DEF flags, received
  <2>5. /\ s \in PeerSegments /\ s.flags = flags /\ s.from = from /\ s.len = len
        /\ s.seq = SeqAdd(PeerIsn, 1 + from)
    BY <2>3, PeerSegmentFields
  <2>6. toClient' = toClient \cup {s}
    BY DEF flags, received
  <2> HIDE DEF s
  <2>7. ASSUME NEW t, t = s
        PROVE  PeerSegmentOK(t)'
    BY <2>1, <2>2, <2>4, <2>5, <2>7 DEF PeerSegmentOK
  <2> QED
    BY <1>1, <2>2, <2>6, <2>7, PeerStepFrame
<1>5. CASE PeerResets
  <2> USE <1>5 DEF PeerResets
  <2> DEFINE s == PeerSegment({"RST"}, pSent, 0, Len(pGot))
  <2>1. {"RST"} \in SUBSET Flags /\ 0 \in 0 .. Mss /\ pSent \in 0 .. PeerLen + 1
    BY <1>1 DEF Flags
  <2>2. ASSUME NEW t, t = s
        PROVE  PeerSegmentOK(t)'
    BY <1>1, <2>1, <2>2, PeerSegmentFields DEF PeerSegmentOK
  <2> HIDE DEF s
  <2>3. toClient' = toClient \cup {s}
    BY DEF s
  <2> QED
    BY <1>1, <2>2, <2>3, PeerStepFrame
<1> QED
  BY <1>2, <1>3, <1>4, <1>5 DEF Peer

-----------------------------------------------------------------------------
(* The theorems                                                             *)

LEMMA InitInv == Init => IInv
<1> SUFFICES ASSUME Init PROVE IInv
  OBVIOUS
<1> USE DEF Init
<1>1. TypeOK
  <2>1. got \in Seq(1 .. PeerLen) /\ pGot \in Seq(1 .. AppLen)
    BY EmptySeq
  <2>2. rx \in [0 .. RxCapacity - 1 -> 0 .. PeerLen]
    OBVIOUS
  <2>3. 0 \in SeqNums /\ 0 \in 0 .. RxCapacity - 1
    BY DEF SeqNums
  <2>4. wr \in [count : 0 .. AppLen, sent : 0 .. AppLen, chunk : 0 .. Mss,
                end_seq : SeqNums]
    BY <2>3 DEF NoWrite
  <2>5. /\ state \in States /\ pc \in {"idle", "connect", "read", "write", "poll"}
        /\ snd_una \in SeqNums /\ snd_nxt \in SeqNums /\ rcv_nxt \in SeqNums
        /\ rx_start \in 0 .. RxCapacity - 1 /\ rx_len \in 0 .. RxCapacity
        /\ attempt \in 0 .. Attempts /\ told \in 0 .. AppLen
        /\ pSent \in 0 .. PeerLen /\ pEdge \in Nat
    BY <2>3 DEF States
  <2>6. /\ overflowed \in BOOLEAN /\ ackTimeout \in BOOLEAN /\ handler \in BOOLEAN
        /\ forever \in BOOLEAN /\ pFin \in BOOLEAN /\ pClosed \in BOOLEAN
        /\ phase \in {"start", "open", "failed", "done"}
        /\ pState \in {"LISTEN", "SYN_RCVD", "OPEN", "DEAD"}
    OBVIOUS
  <2> HIDE DEF Init
  <2> QED
    BY <2>1, <2>2, <2>4, <2>5, <2>6 DEF TypeOK
<1>2. CallInv /\ FreshInv /\ RcvInv /\ PeerInv /\ NoOverflow /\ SegmentInv
  BY DEF CallInv, FreshInv, Arrived, RcvInv, Agreed, Synchronised, PeerInv,
         NoOverflow, SegmentInv
<1>3. RingInv
  <2>1. Len(got) = 0 /\ Iota(0) = <<>>
    BY DEF Iota
  <2> QED
    BY <2>1 DEF RingInv, Arrived
<1>4. WindowInv
  BY DEF WindowInv, InWindow, Least
<1> QED
  BY <1>1, <1>2, <1>3, <1>4 DEF IInv

LEMMA NextInv == IInv /\ [Next]_vars => IInv'
<1> SUFFICES ASSUME IInv, [Next]_vars PROVE IInv'
  OBVIOUS
<1>1. CASE Next
  BY <1>1, ConnectStep, ReceiveStep, ReadStep, WriteStep, PollStep, CloseStep,
     PeerStep DEF Next
<1>2. CASE UNCHANGED vars
  <2> USE <1>2 DEF vars, sock, caller, peer
  <2>1. RingInv' /\ PeerInv' /\ SegmentInv' /\ NoOverflow'
    BY QuietStep DEF quiet
  <2>2. TypeOK' /\ CallInv' /\ FreshInv' /\ RcvInv'
    BY DEF IInv, TypeOK, CallInv, FreshInv, RcvInv, Arrived, Agreed, Synchronised, Offset
  <2>3. WindowInv'
    BY WindowAfterSend
  <2> QED
    BY <2>1, <2>2, <2>3 DEF IInv
<1> QED
  BY <1>1, <1>2

\* The strengthening is an invariant.
THEOREM Invariance == Spec => []IInv
  BY InitInv, NextInv, PTL DEF Spec

\* Every variable, in particular the indices of g_tcp.rx, keeps to its range.
THEOREM TypeCorrect == Spec => []TypeOK
<1>1. IInv => TypeOK
  BY DEF IInv
<1> QED
  BY <1>1, Invariance, PTL

\* Bytes read and bytes buffered are a prefix of the peer's stream.
THEOREM StreamCorrect == Spec => []StreamInOrder
<1>1. IInv => StreamInOrder
  BY StreamFromInv
<1> QED
  BY <1>1, Invariance, PTL

\* A peer that keeps to the advertised windows loses no byte in rx_append.
THEOREM WindowRespected == Spec => []NoOverflow
<1>1. IInv => NoOverflow
  BY DEF IInv
<1> QED
  BY <1>1, Invariance, PTL

\* rcv_nxt passes the FIN only after the last byte.
THEOREM FinCorrect == Spec => []FinIsLast
<1>1. IInv => FinIsLast
  BY DEF IInv, RcvInv, Agreed, FinIsLast
<1> QED
  BY <1>1, Invariance, PTL

-----------------------------------------------------------------------------
(* Steps seen from the stream                                               *)

\* The only steps that move the stream, the ring's fill level or rcv_nxt.
LEMMA StreamSteps ==
  ASSUME Next
  PROVE  \/ UNCHANGED <<pSent, rx_len, got, rcv_nxt>>
         \/ state = "SYN_SENT" /\ UNCHANGED <<pSent, rx_len, got>>
         \/ \E m \in toClient : ReceiveSegment(m)
         \/ \E n \in Nat : Take(n)
         \/ \E from \in 0 .. PeerLen, len \in 0 .. Mss, fin \in BOOLEAN :
              PeerSends(from, len, fin)
<1> USE DEF sock, caller, peer
<1>1. CASE Connect
  BY <1>1 DEF Connect, ConnectUnreachable, ConnectStart, ConnectDone,
              ConnectAgain, ConnectFailed
<1>2. CASE Receive
  BY <1>2 DEF Receive, ReceiveRst, ReceiveInSynSent
<1>3. CASE Read
  <2>1. ASSUME NEW n \in 1 .. RxCapacity, ReadNow(n) \/ ReadDone(n)
        PROVE  n \in Nat /\ Take(n)
    BY <2>1 DEF ReadNow, ReadDone
  <2>2. CASE ReadWait \/ ReadNothing
    BY <2>2 DEF ReadWait, ReadNothing
  <2> QED
    BY <1>3, <2>1, <2>2 DEF Read
<1>4. CASE Write
  BY <1>4 DEF Write, WriteStart, WriteRefused, Resend, WriteShort, WriteAcked,
              WriteFrame
<1>5. CASE Poll \/ Close
  BY <1>5 DEF Poll, PollWait, PollDone, Close
<1>6. CASE Peer
  BY <1>6 DEF Peer, PeerAccepts, PeerReceives, PeerResets
<1> QED
  BY <1>1, <1>2, <1>3, <1>4, <1>5, <1>6 DEF Next

LEMMA ReceiveMoves ==
  ASSUME IInv, NEW m \in toClient, ReceiveSegment(m)
  PROVE  /\ UNCHANGED <<pSent, got>>
         /\ \E n \in 0 .. RxCapacity - rx_len :
              /\ rx_len' = rx_len + n
              /\ n # 0 => Arrived + n <= pSent
              /\ Offset(rcv_nxt') \in {Offset(rcv_nxt) + n, Offset(rcv_nxt) + n + 1}
<1> DEFINE n == IF InOrder(m) THEN Accepted(m.len) ELSE 0
           after == SeqAdd(rcv_nxt, n)
           next == IF FinNext(m, after) THEN SeqAdd(after, 1) ELSE after
<1>1. Synchronised
  BY DEF ReceiveSegment, Delivered, IInv, TypeOK, States, CallInv, Synchronised
<1>2. rx_len' = rx_len + n /\ rcv_nxt' = next /\ UNCHANGED <<pSent, got>>
  BY DEF ReceiveSegment, RcvAfter, caller, peer
<1> HIDE DEF n
<1>3. n = IF InOrder(m) THEN Accepted(m.len) ELSE 0
  BY DEF n
<1>4. /\ n \in 0 .. RxCapacity - rx_len /\ (n # 0 => Arrived + n <= pSent)
      /\ Offset(after) = Offset(rcv_nxt) + n
  BY <1>1, <1>3, PayloadTaken
<1>5. FinNext(m, after) =>
        Offset(after) = PeerLen /\ Offset(SeqAdd(after, 1)) = PeerLen + 1
  BY <1>1, <1>3, FinTaken
<1>6. Offset(next) \in {Offset(rcv_nxt) + n, Offset(rcv_nxt) + n + 1}
  BY <1>4, <1>5
<1> QED
  BY <1>2, <1>4, <1>6

LEMMA EdgeStep ==
  IInv /\ [Next]_vars =>
    [Synchronised /\ Synchronised' => RightEdge' >= RightEdge]_vars
<1> SUFFICES ASSUME IInv, Next, Synchronised
             PROVE  RightEdge' >= RightEdge
  OBVIOUS
<1>1. /\ rx_len \in 0 .. RxCapacity /\ rcv_nxt \in SeqNums
      /\ Offset(rcv_nxt) \in Nat
  BY OffsetType DEF IInv, TypeOK
<1>2. state # "SYN_SENT"
  BY DEF Synchronised
<1>3. ASSUME UNCHANGED <<rx_len, rcv_nxt>>
      PROVE  RightEdge' >= RightEdge
  BY <1>1, <1>3 DEF RightEdge, Offset
<1>4. ASSUME NEW m \in toClient, ReceiveSegment(m)
      PROVE  RightEdge' >= RightEdge
  <2>1. PICK n \in 0 .. RxCapacity - rx_len :
          /\ rx_len' = rx_len + n
          /\ Offset(rcv_nxt') \in {Offset(rcv_nxt) + n, Offset(rcv_nxt) + n + 1}
    BY <1>4, ReceiveMoves
  <2>2. Offset(rcv_nxt)' = Offset(rcv_nxt')
    BY DEF Offset
  <2> QED
    BY <1>1, <2>1, <2>2 DEF RightEdge
<1>5. ASSUME NEW n \in Nat, Take(n)
      PROVE  RightEdge' >= RightEdge
  <2>1. rx_len' = rx_len - n /\ Offset(rcv_nxt)' = Offset(rcv_nxt)
    BY <1>5 DEF Take, Offset
  <2> QED
    BY <1>1, <2>1 DEF RightEdge
<1>6. ASSUME NEW from \in 0 .. PeerLen, NEW len \in 0 .. Mss, NEW fin \in BOOLEAN,
             PeerSends(from, len, fin)
      PROVE  RightEdge' >= RightEdge
  BY <1>6, <1>3 DEF PeerSends, sock
<1> QED
  BY <1>2, <1>3, <1>4, <1>5, <1>6, StreamSteps

\* The window offered to the peer never shrinks.
THEOREM EdgeMonotone == Spec => WindowNeverShrinks
  BY EdgeStep, Invariance, PTL DEF Spec, WindowNeverShrinks

\* A step of the client is a step of the byte stream, or leaves it alone.
LEMMA StreamStep ==
  IInv /\ [Next]_vars => [InStream!Next]_(InStream!svars)
<1> SUFFICES ASSUME IInv, [Next]_vars
             PROVE  InStream!Next \/ UNCHANGED InStream!svars
  OBVIOUS
<1> USE DEF InStream!svars
<1>1. /\ rx_len \in 0 .. RxCapacity /\ Len(got) \in Nat /\ pSent \in 0 .. PeerLen
      /\ Arrived = Len(got) + rx_len
  BY DEF IInv, TypeOK, Arrived
<1>2. ASSUME UNCHANGED <<pSent, rx_len, got>>
      PROVE  UNCHANGED InStream!svars
  BY <1>2 DEF Arrived
<1>3. ASSUME NEW m \in toClient, ReceiveSegment(m)
      PROVE  InStream!Next \/ UNCHANGED InStream!svars
  <2>1. UNCHANGED <<pSent, got>>
    BY <1>3, ReceiveMoves
  <2>2. PICK n \in 0 .. RxCapacity - rx_len :
          rx_len' = rx_len + n /\ (n # 0 => Arrived + n <= pSent)
    BY <1>3, ReceiveMoves
  <2>3. Arrived' = Arrived + n
    BY <1>1, <2>1, <2>2 DEF Arrived
  <2>4. CASE n = 0
    BY <1>1, <2>1, <2>3, <2>4
  <2>5. CASE n # 0
    BY <1>1, <2>1, <2>2, <2>3, <2>5 DEF InStream!Next, InStream!Arrive
  <2> QED
    BY <2>4, <2>5
<1>4. ASSUME NEW n \in Nat, Take(n)
      PROVE  InStream!Next
  <2>1. n \in 1 .. rx_len /\ rx_len' = rx_len - n /\ pSent' = pSent
    BY <1>4 DEF Take, peer
  <2>2. got' = Iota(Len(got) + n)
    BY <1>4, <2>1, BufferedNext DEF Take
  <2>3. Arrived' = Arrived
    BY <1>1, <2>1, <2>2 DEF Arrived, Iota
  <2>4. n \in 1 .. Arrived - Len(got)
    BY <1>1, <2>1
  <2> QED
    BY <2>1, <2>2, <2>3, <2>4 DEF InStream!Next, InStream!Consume, Iota
<1>5. ASSUME NEW from \in 0 .. PeerLen, NEW len \in 0 .. Mss, NEW fin \in BOOLEAN,
             PeerSends(from, len, fin)
      PROVE  InStream!Next \/ UNCHANGED InStream!svars
  <2>1. UNCHANGED <<Arrived, got>>
    BY <1>5 DEF PeerSends, sock, caller, Arrived
  <2>2. pSent' = pSent \/ pSent' \in pSent + 1 .. PeerLen
    BY <1>1, <1>5 DEF PeerSends, Most, Least, IInv, TypeOK
  <2> QED
    BY <2>1, <2>2 DEF InStream!Next, InStream!Produce
<1> QED
  <2>1. CASE Next
    BY <2>1, <1>2, <1>3, <1>4, <1>5, StreamSteps
  <2>2. CASE UNCHANGED vars
    BY <2>2, <1>2 DEF vars, sock, caller, peer
  <2> QED
    BY <2>1, <2>2

\* The client implements a reliable byte stream with flow control.
THEOREM Refinement == Spec => ReceivesByteStream
<1>1. Init => InStream!Init
  BY DEF Init, InStream!Init, Arrived
<1> QED
  BY <1>1, StreamStep, Invariance, PTL
     DEF Spec, ReceivesByteStream, InStream!Spec

-----------------------------------------------------------------------------
(* The sending side                                                         *)

LEMMA SendTypes ==
  ASSUME IInv
  PROVE  /\ snd_nxt \in SeqNums /\ snd_una \in SeqNums /\ Used \in 0 .. SeqMod - 1
         /\ Place(snd_una) \in 0 .. SeqMod - 1
         /\ InUse \in 0 .. SeqMod - 2 /\ InUse <= Used
         /\ (Used <= SndSpan + 1 => InUse = Used)
         /\ pGot \in Seq(1 .. AppLen) /\ Len(pGot) \in Nat /\ Received \in Nat
         /\ Len(pGot) <= Received /\ (~pClosed => Received = Len(pGot))
         /\ told \in 0 .. AppLen
         /\ \A m \in toPeer : /\ m.seq \in SeqNums /\ m.len \in Nat
                              /\ m.from \in Nat /\ Place(m.seq) \in Nat
                              /\ Length(m) \in Nat
                              /\ Length(m) = m.len + (IF "FIN" \in m.flags THEN 1 ELSE 0)
         /\ \A m \in toClient : m.ack \in SeqNums /\ Place(m.ack) \in Nat
<1>1. /\ snd_nxt \in SeqNums /\ snd_una \in SeqNums
      /\ pGot \in Seq(1 .. AppLen) /\ told \in 0 .. AppLen /\ pClosed \in BOOLEAN
  BY DEF IInv, TypeOK
<1>2. /\ Len(pGot) \in Nat /\ Received \in Nat
      /\ Len(pGot) <= Received /\ (~pClosed => Received = Len(pGot))
  BY <1>1 DEF Received
<1>3. Used \in 0 .. SeqMod - 1 /\ Place(snd_una) \in 0 .. SeqMod - 1
  BY <1>1, PlaceType DEF Used
<1>6. /\ InUse \in 0 .. SeqMod - 2 /\ InUse <= Used
      /\ Used <= SndSpan + 1 => InUse = Used
  <2>1. Used = IF snd_nxt >= Isn + 1 THEN snd_nxt - Isn - 1
               ELSE snd_nxt - Isn - 1 + SeqMod
    BY <1>1, PlaceType DEF Used
  <2> QED
    BY <1>1, <1>3, <2>1 DEF InUse, SeqNums
<1>4. ASSUME NEW m \in toPeer
      PROVE  /\ m.seq \in SeqNums /\ m.len \in Nat /\ m.from \in Nat
             /\ Place(m.seq) \in Nat /\ Length(m) \in Nat
             /\ Length(m) = m.len + (IF "FIN" \in m.flags THEN 1 ELSE 0)
  <2>1. m.seq \in SeqNums /\ m.len \in Nat /\ m.from \in Nat
    BY DEF IInv, WindowInv, ClientSegmentOK, ClientSegments
  <2> QED
    BY <2>1, PlaceType DEF Length
<1>5. ASSUME NEW m \in toClient
      PROVE  m.ack \in SeqNums /\ Place(m.ack) \in Nat
  <2>1. m.ack \in SeqNums
    BY DEF IInv, SegmentInv, PeerSegmentOK, PeerSegments
  <2> QED
    BY <2>1, PlaceType
<1> QED
  BY <1>1, <1>2, <1>3, <1>4, <1>5, <1>6

\* The place of a segment does not change.
LEMMA PlacesKept ==
  \A m : /\ Place(m.seq)' = Place(m.seq) /\ Place(m.ack)' = Place(m.ack)
         /\ Length(m)' = Length(m)
  BY DEF Place, Length

\* An acknowledgement takes no number.
LEMMA AckSegmentFields ==
  ASSUME NEW next, NEW used
  PROVE  LET m == AckSegment(next, used)
         IN  m.flags = {"ACK"} /\ m.seq = snd_nxt /\ m.len = 0 /\ Length(m) = 0
  BY DEF AckSegment, Segment, Length

\* Steps that send nothing but acknowledgements and change no more than the
\* control state and, on an acknowledgement, snd_una.
OnlyAcks == \A m \in toPeer' :
  m \in toPeer \/ (/\ pc = "connect" \/ Opened
                   /\ \E next, used : m = AckSegment(next, used))
ControlMoves ==
  /\ pc' = "idle" /\ phase' = "start" =>
       pc = "idle" /\ phase = "start" /\ toPeer' = toPeer
  /\ phase' = "start" => phase = "start"
  /\ pc' = "connect" => pc = "connect"
  /\ Opened' => state' # "SYN_SENT" /\ (Opened \/ (pc = "connect" /\ phase = "start"))
  /\ state' = "SYN_SENT" => state = "SYN_SENT" /\ (pc' = "connect" \/ phase' = "done")
  /\ phase' # "done" => phase # "done"
  /\ pc' = "write" <=> pc = "write"
AckMoves ==
  /\ Agreed' => Place(snd_una') <= Received
  /\ state' = "SYN_SENT" => snd_una' = Isn \/ Place(snd_una') <= Received

LEMMA ControlStep ==
  ASSUME IInv, SendInv, OnlyAcks, ControlMoves, AckMoves,
         UNCHANGED <<snd_nxt, ackTimeout, wr, told, toClient, pGot, pClosed>>
  PROVE  SendInv'
<1>1. Used' = Used /\ InUse' = InUse /\ Received' = Received
  BY DEF Used, InUse, Place, Received
<1>2. \A m : /\ Place(m.seq)' = Place(m.seq) /\ Place(m.ack)' = Place(m.ack)
             /\ Length(m)' = Length(m)
  BY PlacesKept
<1>3. ASSUME NEW m \in toPeer', m \notin toPeer
      PROVE  /\ m.flags = {"ACK"} /\ Place(m.seq) = InUse /\ m.len = 0 /\ Length(m) = 0
  <2>1. PICK next, used : m = AckSegment(next, used)
    BY <1>3 DEF OnlyAcks
  <2>2. Used <= SndSpan + 1
    BY <1>3, SendTypes DEF OnlyAcks, SendInv, ConnectInv
  <2> QED
    BY <2>1, <2>2, AckSegmentFields, SendTypes DEF Used
<1>4. Used \in Nat /\ Received \in Nat /\ InUse \in Nat
  BY SendTypes
<1>5. ConnectInv'
  <2>1. Opened' => Used <= SndSpan
    BY DEF SendInv, ConnectInv, ControlMoves
  <2>2. phase' # "done" => ~pClosed /\ \A m \in toPeer' : "FIN" \notin m.flags
    BY <1>3 DEF SendInv, ConnectInv, ControlMoves
  <2> QED
    BY <1>1, <2>1, <2>2 DEF SendInv, ConnectInv, ControlMoves
<1>6. SentInv'
  BY <1>1, <1>2, <1>3, <1>4 DEF SendInv, SentInv
<1>7. AckInv'
  BY <1>1, <1>2 DEF SendInv, AckInv, AckMoves, Place
<1>8. WriteInv'
  BY <1>1 DEF SendInv, WriteInv, ControlMoves
<1>9. OnceInv'
  <2> SUFFICES ASSUME ~ackTimeout PROVE OnceInv'
    BY DEF OnceInv
  <2>1. pGot = Iota(Len(pGot))
    BY DEF SendInv, OnceInv
  <2>2. Opened' => Used = told + (IF pc = "write" THEN wr.sent + wr.chunk ELSE 0)
    BY DEF SendInv, OnceInv, ConnectInv, ControlMoves
  <2>3. \A m \in toPeer' : m.len # 0 => m.from = Place(m.seq)
    BY <1>3 DEF SendInv, OnceInv
  <2> QED
    BY <1>1, <1>2, <2>1, <2>2, <2>3 DEF OnceInv, ControlMoves, Iota
<1> QED
  BY <1>5, <1>6, <1>7, <1>8, <1>9 DEF SendInv

LEMMA SynNumbers ==
  /\ Isn \in SeqNums /\ SeqAdd(Isn, 1) \in SeqNums
  /\ Place(Isn) = SeqMod - 1 /\ Place(SeqAdd(Isn, 1)) = 0
<1>1. Isn \in SeqNums /\ SeqAdd(Isn, 1) \in SeqNums
  BY InitialNumbers, SeqAddType
<1>2. Place(Isn) = SeqMod - 1
  BY <1>1, PlaceType
<1>3. 0 \in 0 .. SeqMod - 2 /\ 1 + 0 = 1
  OBVIOUS
<1>4. Place(SeqAdd(Isn, 1)) = 0
  BY <1>3, PlaceOf
<1> QED
  BY <1>1, <1>2, <1>4

\* A SYN, or none because send_segment failed.
LEMMA SynStep ==
  ASSUME IInv, SendInv, phase = "start", pc \in {"idle", "connect"},
         SynSent \/ SynNotSent, state' = "SYN_SENT" \/ state' = state,
         snd_una' = snd_una \/ snd_una' = Isn,
         Agreed' => Agreed /\ snd_una' = snd_una,
         state' = "SYN_SENT" => snd_una' = Isn \/ state = "SYN_SENT",
         UNCHANGED <<ackTimeout, wr, told, toClient, pGot, pClosed>>
  PROVE  SendInv'
<1> USE DEF SynSent, SynNotSent
<1>1. Received' = Received /\ Received \in Nat /\ Used' = Place(snd_nxt')
  BY SendTypes DEF Used, Place, Received
<1>2. Received = 0
  BY SendTypes DEF SendInv, ConnectInv, SentInv
<1>3. InUse' = 0
  BY <1>1, SynNumbers DEF InUse
<1>4. \A m : /\ Place(m.seq)' = Place(m.seq) /\ Place(m.ack)' = Place(m.ack)
             /\ Length(m)' = Length(m)
  BY PlacesKept
<1>5. ASSUME NEW m \in toPeer', m \notin toPeer
      PROVE  m.flags = {"SYN"} /\ m.seq = Isn /\ m.len = 0
  BY <1>5 DEF Segment
<1>6. ConnectInv'
  <2>1. phase' # "done" => ~pClosed /\ \A m \in toPeer' : "FIN" \notin m.flags
    BY <1>5 DEF SendInv, ConnectInv
  <2>2. pc' = "connect" => Used' = 0
    BY <1>1, SynNumbers DEF SendInv, ConnectInv
  <2> QED
    BY <1>2, <2>1, <2>2 DEF SendInv, ConnectInv, Opened
<1>7. SentInv'
  <2>1. ASSUME NEW m \in toPeer', "ACK" \in m.flags
        PROVE  Place(m.seq) + Length(m) <= InUse'
    <3>1. m \in toPeer
      BY <2>1, <1>5
    <3>2. InUse = 0
      BY <3>1, SendTypes DEF SendInv, ConnectInv
    <3> QED
      BY <2>1, <3>1, <3>2, <1>3 DEF SendInv, SentInv
  <2> QED
    BY <1>1, <1>2, <1>3, <1>4, <1>5, <2>1 DEF SendInv, SentInv
<1>8. AckInv'
  BY <1>1, <1>4 DEF SendInv, AckInv, Place
<1>9. WriteInv'
  BY DEF SendInv, WriteInv
<1>10. OnceInv'
  BY <1>4, <1>5 DEF SendInv, OnceInv, Opened, Iota
<1> QED
  BY <1>6, <1>7, <1>8, <1>9, <1>10 DEF SendInv

\* Without a frame to send, the calls only move the control state.
LEMMA SilentStep ==
  ASSUME IInv, SendInv, ControlMoves, Agreed' => Agreed,
         UNCHANGED <<snd_una, snd_nxt, ackTimeout, wr, told, toPeer, toClient,
                     pGot, pClosed>>
  PROVE  SendInv'
<1>1. OnlyAcks
  BY DEF OnlyAcks
<1>2. AckMoves
  BY DEF AckMoves, SendInv, AckInv, ControlMoves
<1> QED
  BY <1>1, <1>2, ControlStep

LEMMA ConnectSends ==
  ASSUME IInv, SendInv, Connect
  PROVE  SendInv'
<1> USE DEF sock, caller, peer
<1>1. CASE ConnectUnreachable
  <2>1. ControlMoves /\ (Agreed' => Agreed)
    BY <1>1 DEF ConnectUnreachable, ControlMoves, Opened, Agreed, Synchronised
  <2> QED
    BY <1>1, <2>1, SilentStep DEF ConnectUnreachable
<1>2. CASE ConnectStart
  <2>1. /\ state' = "SYN_SENT" /\ snd_una' = Isn /\ ~Agreed'
        /\ UNCHANGED <<ackTimeout, wr, told, toClient, pGot, pClosed>>
    BY <1>2 DEF ConnectStart, SynSent, SynNotSent, Agreed, Synchronised
  <2> QED
    BY <1>2, <2>1, SynStep DEF ConnectStart
<1>3. CASE ConnectDone
  <2>1. ControlMoves /\ (Agreed' => Agreed)
    BY <1>3 DEF ConnectDone, ControlMoves, Opened, Agreed, Synchronised, IInv, CallInv
  <2> QED
    BY <1>3, <2>1, SilentStep DEF ConnectDone
<1>4. CASE ConnectAgain
  <2>1. /\ state' = state /\ snd_una' = snd_una /\ phase = "start" /\ pc = "connect"
        /\ (Agreed' => Agreed)
        /\ UNCHANGED <<ackTimeout, wr, told, toClient, pGot, pClosed>>
    BY <1>4 DEF ConnectAgain, SynSent, SynNotSent, Agreed, Synchronised, IInv, CallInv
  <2> QED
    BY <1>4, <2>1, SynStep DEF ConnectAgain
<1>5. CASE ConnectFailed
  <2>1. ControlMoves /\ (Agreed' => Agreed)
    BY <1>5 DEF ConnectFailed, ControlMoves, Opened, Agreed, Synchronised
  <2> QED
    BY <1>5, <2>1, SilentStep DEF ConnectFailed
<1> QED
  BY <1>1, <1>2, <1>3, <1>4, <1>5 DEF Connect

\* snd_una follows what the peer acknowledged.
LEMMA UnaStep ==
  ASSUME IInv, SendInv, NEW m \in toClient
  PROVE  /\ UnaAfter(m.ack) = snd_una \/ Place(UnaAfter(m.ack)) <= Received
         /\ Agreed => Place(UnaAfter(m.ack)) <= Received
  BY DEF UnaAfter, SendInv, AckInv

\* The SYN-ACK acknowledges the SYN.
LEMMA HandshakeAcks ==
  ASSUME IInv, SendInv, NEW m \in toClient, pc = "connect", state = "SYN_SENT",
         m.ack = snd_nxt
  PROVE  Place(UnaAfter(m.ack)) <= Received
<1>1. CASE snd_una = Isn
  <2>1. Used = 0
    BY DEF SendInv, ConnectInv
  <2>2. snd_nxt = SeqAdd(Isn, 1)
    <3>1. /\ SeqAdd(Isn, 1) \in SeqNums /\ Place(SeqAdd(Isn, 1)) = 0
          /\ snd_nxt \in SeqNums /\ Place(snd_nxt) = 0
      BY <2>1, SynNumbers, SendTypes DEF Used
    <3> DEFINE s == SeqAdd(Isn, 1)
    <3> HIDE DEF s
    <3>2. s \in SeqNums /\ Place(s) = 0
      BY <3>1 DEF s
    <3>3. s = snd_nxt
      BY <3>1, <3>2, PlaceType DEF SeqNums
    <3> QED
      BY <3>3 DEF s
  <2>3. (snd_nxt - Isn) % SeqMod <= SeqMod \div 2
    <3>1. snd_nxt = IF Isn + 1 = SeqMod THEN 0 ELSE Isn + 1
      <4>1. Isn + 1 \in 1 .. SeqMod
        OBVIOUS
      <4>2. (Isn + 1) % SeqMod = IF Isn + 1 = SeqMod THEN 0 ELSE Isn + 1
        BY <4>1
      <4> QED
        BY <2>2, <4>2 DEF SeqAdd
    <3>2. snd_nxt - Isn \in {1, 1 - SeqMod}
      BY <3>1
    <3>3. (snd_nxt - Isn) % SeqMod = 1
      BY <3>2
    <3> QED
      BY <3>3
  <2>4. (snd_nxt - snd_nxt) % SeqMod <= SeqMod \div 2
    <3>1. snd_nxt - snd_nxt = 0 /\ 0 % SeqMod = 0
      BY SendTypes DEF SeqNums
    <3> QED
      BY <3>1
  <2>5. UnaAfter(m.ack) = snd_nxt
    BY <1>1, <2>3, <2>4 DEF UnaAfter, seq_leq
  <2> QED
    BY <2>1, <2>5, SendTypes DEF Used
<1>2. CASE snd_una # Isn
  BY <1>2, UnaStep DEF SendInv, AckInv
<1> QED
  BY <1>1, <1>2

LEMMA ReceiveSends ==
  ASSUME IInv, SendInv, Receive
  PROVE  SendInv'
<1> USE DEF Delivered, caller, peer
<1>1. ASSUME NEW m \in toClient, ReceiveRst(m)
      PROVE  SendInv'
  <2>1. ControlMoves /\ (Agreed' => Agreed)
    BY <1>1 DEF ReceiveRst, ControlMoves, Opened, Agreed, Synchronised
  <2> QED
    BY <1>1, <2>1, SilentStep DEF ReceiveRst
<1>2. ASSUME NEW m \in toClient, ReceiveInSynSent(m)
      PROVE  SendInv'
  <2>1. pc = "connect" /\ phase = "start" /\ ~Agreed
    BY <1>2 DEF ReceiveInSynSent, IInv, CallInv, TypeOK, SendInv, ConnectInv, Opened,
       Agreed, Synchronised
  <2>2. OnlyAcks
    BY <1>2, <2>1 DEF ReceiveInSynSent, OnlyAcks
  <2>3. AckMoves
    <3>1. CASE {"SYN", "ACK"} \subseteq m.flags /\ m.ack = snd_nxt
      BY <1>2, <2>1, <3>1, HandshakeAcks DEF ReceiveInSynSent, AckMoves
    <3>2. CASE ~({"SYN", "ACK"} \subseteq m.flags /\ m.ack = snd_nxt)
      BY <1>2, <2>1, <3>2, UnaStep DEF ReceiveInSynSent, AckMoves, Agreed,
         Synchronised, SendInv, AckInv
    <3> QED
      BY <3>1, <3>2
  <2>4. ControlMoves
    BY <1>2, <2>1 DEF ReceiveInSynSent, ControlMoves, Opened
  <2> QED
    BY <1>2, <2>2, <2>3, <2>4, ControlStep DEF ReceiveInSynSent
<1>3. ASSUME NEW m \in toClient, ReceiveSegment(m)
      PROVE  SendInv'
  <2>1. state \in {"ESTABLISHED", "CLOSE_WAIT"}
    BY <1>3 DEF ReceiveSegment, IInv, CallInv, TypeOK, States
  <2>2. state' \in {"ESTABLISHED", "CLOSE_WAIT"} /\ snd_una' = UnaAfter(m.ack)
    BY <1>3, <2>1 DEF ReceiveSegment, StateAfter
  <2>3. OnlyAcks
    BY <1>3 DEF ReceiveSegment, OnlyAcks, IInv, CallInv, TypeOK, Opened
  <2>4. AckMoves
    BY <2>1, <2>2, UnaStep DEF AckMoves, Agreed, Synchronised
  <2>5. ControlMoves
    BY <1>3, <2>1, <2>2 DEF ReceiveSegment, ControlMoves, Opened
  <2> QED
    BY <1>3, <2>3, <2>4, <2>5, ControlStep DEF ReceiveSegment
<1> QED
  BY <1>1, <1>2, <1>3 DEF Receive

LEMMA ReadSends ==
  ASSUME IInv, SendInv, Read
  PROVE  SendInv'
<1> USE DEF sock, caller, peer
<1>1. CASE ReadWait \/ ReadNothing
  <2>1. ControlMoves /\ (Agreed' => Agreed)
    BY <1>1 DEF ReadWait, ReadNothing, ControlMoves, IInv, CallInv, Opened, Agreed,
       Synchronised, SendInv, ConnectInv
  <2> QED
    BY <1>1, <2>1, SilentStep DEF ReadWait, ReadNothing
<1>2. ASSUME NEW n \in 1 .. RxCapacity, ReadNow(n) \/ ReadDone(n)
      PROVE  SendInv'
  <2>1. phase = "open" /\ pc # "write" /\ Take(n)
    BY <1>2 DEF ReadNow, ReadDone, IInv, CallInv
  <2>2. /\ pc' = "idle"
        /\ UNCHANGED <<state, snd_una, snd_nxt, ackTimeout, wr, phase, told,
                       toClient, pGot, pClosed>>
    BY <2>1 DEF Take
  <2>3. OnlyAcks
    BY <2>1 DEF Take, WindowUpdate, OnlyAcks, Opened
  <2>4. AckMoves
    BY <2>2 DEF AckMoves, Agreed, Synchronised, SendInv, AckInv
  <2>5. ControlMoves
    BY <2>1, <2>2 DEF ControlMoves, Opened, SendInv, ConnectInv
  <2> QED
    BY <2>2, <2>3, <2>4, <2>5, ControlStep
<1> QED
  BY <1>1, <1>2 DEF Read

LEMMA PollSends ==
  ASSUME IInv, SendInv, Poll
  PROVE  SendInv'
<1> USE DEF sock, caller, peer
<1>1. ControlMoves /\ (Agreed' => Agreed)
  BY DEF Poll, PollWait, PollDone, ControlMoves, IInv, CallInv, Opened, Agreed,
     Synchronised, SendInv, ConnectInv
<1> QED
  BY <1>1, SilentStep DEF Poll, PollWait, PollDone

\* The FIN takes the number after the last byte.
LEMMA CloseSends ==
  ASSUME IInv, SendInv, Close
  PROVE  SendInv'
<1> USE DEF Close, peer
<1>1. Received' = Received /\ Received \in Nat /\ Used' = Place(snd_nxt')
  BY SendTypes DEF Used, Place, Received
<1>2. Opened /\ ~Opened' /\ ~Agreed' /\ state' = "CLOSED" /\ pc' = "idle" /\ phase' = "done"
  BY DEF Opened, Agreed, Synchronised
<1>3. Used \in Nat /\ Used <= SndSpan /\ Received <= Used /\ InUse = Used
  BY <1>2, SendTypes DEF SendInv, ConnectInv, SentInv
<1>4. Used' = Used \/ Used' = Used + 1
  <2>1. Place(SeqAdd(snd_nxt, 1)) = Used + 1
    BY <1>3, SendTypes, PlaceAdd DEF Used
  <2> QED
    BY <1>1, <2>1 DEF Used
<1>5. Used' \in Nat /\ InUse' = Used'
  <2>1. snd_nxt' \in SeqNums
    BY SendTypes, SeqAddType
  <2>2. snd_nxt' # Isn
    BY <1>1, <1>3, <1>4, SynNumbers
  <2> QED
    BY <1>1, <2>1, <2>2, PlaceType DEF InUse
<1>6. \A m : /\ Place(m.seq)' = Place(m.seq) /\ Place(m.ack)' = Place(m.ack)
             /\ Length(m)' = Length(m)
  BY PlacesKept
<1>7. ASSUME NEW m \in toPeer', m \notin toPeer
      PROVE  /\ m.flags = {"ACK", "FIN"} /\ Place(m.seq) = Used /\ m.len = 0
             /\ Used' = Used + 1 /\ Length(m) = 1
  <2>1. /\ m = Segment({"ACK", "FIN"}, snd_nxt, 0, 0, rcv_nxt, rx_len)
        /\ snd_nxt' = SeqAdd(snd_nxt, 1)
    BY <1>7
  <2>2. Place(SeqAdd(snd_nxt, 1)) = Used + 1
    BY <1>3, SendTypes, PlaceAdd DEF Used
  <2> QED
    BY <1>1, <2>1, <2>2 DEF Segment, Length, Used
<1>8. ConnectInv'
  BY <1>2 DEF ConnectInv, Opened
<1>9. SentInv'
  <2>1. ASSUME NEW m \in toPeer', "ACK" \in m.flags
        PROVE  Place(m.seq) + Length(m) <= InUse'
    <3>1. CASE m \in toPeer
      <4>1. Place(m.seq) + Length(m) <= Used
        BY <2>1, <3>1, <1>3 DEF SendInv, SentInv
      <4> QED
        BY <3>1, <4>1, <1>3, <1>4, <1>5, SendTypes
    <3>2. CASE m \notin toPeer
      BY <3>2, <1>3, <1>5, <1>7
    <3> QED
      BY <3>1, <3>2
  <2>2. ASSUME NEW m \in toPeer', "SYN" \in m.flags
        PROVE  m.seq = Isn
    BY <2>2, <1>7 DEF SendInv, SentInv
  <2>3. Received <= InUse'
    BY <1>1, <1>3, <1>4, <1>5
  <2> QED
    BY <1>1, <1>6, <2>1, <2>2, <2>3 DEF SentInv
<1>10. AckInv'
  BY <1>1, <1>2, <1>6 DEF SendInv, AckInv, Place
<1>11. WriteInv'
  BY <1>2 DEF SendInv, WriteInv
<1>12. OnceInv'
  BY <1>2, <1>6, <1>7 DEF SendInv, OnceInv, Iota
<1> QED
  BY <1>8, <1>9, <1>10, <1>11, <1>12 DEF SendInv

\* A write that returns n has been told no more than the peer has.
LEMMA WriteReturnsSends ==
  ASSUME IInv, SendInv, phase = "open", NEW n \in Nat, told + n <= Len(pGot),
         WriteReturns(n), WriteFrame, UNCHANGED <<snd_nxt, toPeer>>,
         ackTimeout' = TRUE \/ (ackTimeout' = ackTimeout /\ (~ackTimeout => Used = told + n))
  PROVE  SendInv'
<1> USE DEF WriteReturns, WriteFrame, peer
<1>1. Used' = Used /\ InUse' = InUse /\ Received' = Received
  BY DEF Used, InUse, Place, Received
<1>2. ConnectInv'
  BY <1>1 DEF SendInv, ConnectInv, Opened
<1>3. SentInv' /\ AckInv'
  BY <1>1, PlacesKept DEF SendInv, SentInv, AckInv, Agreed, Synchronised, Place
<1>4. WriteInv'
  BY DEF SendInv, WriteInv
<1>5. OnceInv'
  BY <1>1, PlacesKept, SendTypes DEF SendInv, OnceInv, Opened, Iota
<1> QED
  BY <1>2, <1>3, <1>4, <1>5 DEF SendInv

\* The next chunk goes out when the peer has everything before it.
LEMMA SendChunkSends ==
  ASSUME IInv, SendInv, phase = "open", NEW count \in Nat, NEW sent \in Nat, sent < count,
         told + sent <= Len(pGot), Used + count - sent <= SndSpan,
         ~ackTimeout => Used = told + sent,
         SendChunk(count, sent), WriteFrame, UNCHANGED ackTimeout
  PROVE  SendInv'
<1>1. CASE WriteReturns(sent) /\ UNCHANGED <<snd_nxt, toPeer>>
  BY <1>1, WriteReturnsSends
<1> DEFINE chunk == Least(count - sent, Mss)
           s == DataSegment(snd_nxt, told + sent, chunk)
<1>2. CASE /\ toPeer' = toPeer \cup {s}
           /\ snd_nxt' = SeqAdd(snd_nxt, chunk)
           /\ wr' = [count |-> count, sent |-> sent, chunk |-> chunk,
                      end_seq |-> SeqAdd(snd_nxt, chunk)]
           /\ pc' = "write" /\ UNCHANGED <<told, phase>>
  <2>1. chunk \in Nat /\ chunk # 0 /\ sent + chunk <= count
    BY DEF Least
  <2>2. s.flags = {"ACK", "PSH"} /\ s.seq = snd_nxt /\ s.from = told + sent /\ s.len = chunk
    BY DEF DataSegment, Segment
  <2> HIDE DEF chunk, s
  <2> USE <1>2 DEF WriteFrame, peer
  <2>3. /\ Received' = Received /\ Used \in Nat /\ told \in Nat /\ Len(pGot) \in Nat
        /\ Received \in Nat /\ Received <= Used /\ Len(pGot) <= Received
        /\ InUse = Used
    BY SendTypes DEF Received, SendInv, SentInv, ConnectInv, Opened
  <2>4. Used' = Used + chunk
    <3>1. Place(SeqAdd(snd_nxt, chunk)) = Place(snd_nxt) + chunk
      BY <2>1, <2>3, SendTypes, PlaceAdd DEF Used
    <3> QED
      BY <3>1 DEF Used, Place
  <2>11. InUse' = Used'
    <3>1. Used' <= SndSpan /\ snd_nxt' \in SeqNums /\ Used' = Place(snd_nxt')
      BY <2>1, <2>3, <2>4, SendTypes, SeqAddType, SMTT(20) DEF Used, Place
    <3>2. snd_nxt' # Isn
      BY <3>1, SynNumbers
    <3> QED
      BY <3>2 DEF InUse
  <2>5. Length(s) = chunk /\ Place(s.seq) = Used
    BY <2>1, <2>2 DEF Length, Used
  <2>6. ConnectInv'
    <3>1. Opened /\ Used' <= SndSpan
      BY <2>1, <2>3, <2>4 DEF Opened
    <3> QED
      BY <2>2, <3>1 DEF SendInv, ConnectInv, Opened
  <2>7. SentInv'
    <3>1. ASSUME NEW m \in toPeer', "ACK" \in m.flags
          PROVE  Place(m.seq) + Length(m) <= InUse'
      <4>1. CASE m \in toPeer
        BY <3>1, <4>1, <2>1, <2>3, <2>4, <2>11, SendTypes DEF SendInv, SentInv
      <4>2. CASE m = s
        BY <4>2, <2>3, <2>4, <2>5, <2>11
      <4> QED
        BY <4>1, <4>2
    <3>2. ASSUME NEW m \in toPeer', "SYN" \in m.flags
          PROVE  m.seq = Isn
      BY <3>2, <2>2 DEF SendInv, SentInv
    <3>3. Received <= InUse'
      BY <2>1, <2>3, <2>4, <2>11
    <3> QED
      BY <2>3, <3>1, <3>2, <3>3, PlacesKept DEF SentInv
  <2>8. AckInv'
    BY <2>3, PlacesKept DEF SendInv, AckInv, Agreed, Synchronised, Place
  <2>9. WriteInv'
    BY <2>1, <2>3, <2>4 DEF SendInv, WriteInv
  <2>10. OnceInv'
    <3> SUFFICES ASSUME ~ackTimeout PROVE OnceInv'
      BY DEF OnceInv
    <3>1. Used' = told + (sent + chunk)
      BY <2>1, <2>3, <2>4
    <3>2. \A m \in toPeer' : m.len # 0 => m.from = Place(m.seq)
      BY <2>2, <2>5 DEF SendInv, OnceInv
    <3> QED
      BY <3>1, <3>2, PlacesKept DEF SendInv, OnceInv, Iota
  <2> QED
    BY <2>6, <2>7, <2>8, <2>9, <2>10 DEF SendInv
<1> QED
  BY <1>1, <1>2 DEF SendChunk

\* The chunk again, under the numbers it had.
LEMMA ResendSends ==
  ASSUME IInv, SendInv, Resend
  PROVE  SendInv'
<1> USE DEF Resend, sock, caller, peer
<1> DEFINE s == DataSegment(ResendSeq, told + wr.sent, wr.chunk)
<1>1. /\ wr.chunk \in Nat /\ wr.sent \in Nat /\ wr.count \in Nat
      /\ told \in Nat /\ Used \in Nat /\ snd_nxt \in SeqNums
  BY SendTypes DEF IInv, TypeOK
<1>2. /\ wr.end_seq = snd_nxt /\ told + wr.sent + wr.chunk <= Used /\ pc = "write"
      /\ phase = "open"
  BY DEF SendInv, WriteInv, IInv, CallInv
<1>3. Place(ResendSeq) = Used - wr.chunk
  BY <1>1, <1>2, PlaceBack DEF ResendSeq, Used
<1>4. s.flags = {"ACK", "PSH"} /\ s.seq = ResendSeq /\ s.from = told + wr.sent /\ s.len = wr.chunk
  BY DEF DataSegment, Segment
<1>5. Length(s) = wr.chunk
  BY <1>1, <1>4 DEF Length
<1>6. toPeer' = toPeer \cup {s}
  OBVIOUS
<1> HIDE DEF s
<1>7. Used' = Used /\ InUse' = InUse /\ Received' = Received
  BY DEF Used, InUse, Place, Received
<1>8. ConnectInv'
  BY <1>2, <1>4, <1>6, <1>7 DEF SendInv, ConnectInv, Opened
<1>9. SentInv'
  <2>1. \A m \in toPeer' : "ACK" \in m.flags => Place(m.seq) + Length(m) <= InUse
    BY <1>1, <1>2, <1>3, <1>4, <1>5, <1>6, SendTypes
       DEF SendInv, SentInv, ConnectInv, Opened
  <2>2. \A m \in toPeer' : "SYN" \in m.flags => m.seq = Isn
    BY <1>4, <1>6 DEF SendInv, SentInv
  <2> QED
    BY <1>7, <2>1, <2>2, PlacesKept DEF SendInv, SentInv
<1>10. AckInv' /\ WriteInv'
  BY <1>7, PlacesKept DEF SendInv, AckInv, WriteInv, Agreed, Synchronised, Place
<1>11. OnceInv'
  <2> SUFFICES ASSUME ~ackTimeout PROVE OnceInv'
    BY DEF OnceInv
  <2>1. Used = told + (wr.sent + wr.chunk)
    BY <1>2 DEF SendInv, OnceInv, Opened
  <2>2. \A m \in toPeer' : m.len # 0 => m.from = Place(m.seq)
    BY <1>1, <1>3, <1>4, <1>6, <2>1 DEF SendInv, OnceInv
  <2> QED
    BY <1>7, <2>2, PlacesKept DEF SendInv, OnceInv, Opened, Iota
<1> QED
  BY <1>8, <1>9, <1>10, <1>11 DEF SendInv

LEMMA WriteSends ==
  ASSUME IInv, SendInv, Write
  PROVE  SendInv'
<1>1. /\ told \in Nat /\ wr.count \in Nat /\ wr.sent \in Nat /\ wr.chunk \in Nat
      /\ Used \in Nat /\ Len(pGot) \in Nat /\ wr.end_seq \in SeqNums
      /\ told <= Len(pGot) /\ Received <= Used /\ Received \in Nat
      /\ InUse \in Nat
  BY SendTypes, SMTT(20) DEF IInv, TypeOK, SendInv, WriteInv, SentInv
<1>2. pc = "write" =>
        /\ phase = "open" /\ wr.sent + wr.chunk <= wr.count
        /\ wr.end_seq = snd_nxt /\ told + wr.sent <= Len(pGot)
        /\ told + wr.sent + wr.chunk <= Used
        /\ Used + wr.count - wr.sent - wr.chunk <= SndSpan
  BY DEF IInv, CallInv, SendInv, WriteInv
<1>3. phase = "open" => Received = Len(pGot) /\ Agreed /\ Place(snd_una) <= Received
                        /\ Used <= SndSpan
  BY SendTypes DEF SendInv, ConnectInv, AckInv, Agreed, Opened
<1>4. ~ackTimeout /\ phase = "open" =>
        Used = told + (IF pc = "write" THEN wr.sent + wr.chunk ELSE 0)
  BY DEF SendInv, OnceInv, Opened
<1>5. ASSUME NEW count \in 1 .. AppLen, WriteStart(count)
      PROVE  SendInv'
  <2>1. Used = SndUsed
    BY DEF Used, Place, SndUsed
  <2>2. /\ Used + count <= SndSpan /\ SendChunk(count, 0) /\ WriteFrame
        /\ UNCHANGED ackTimeout /\ phase = "open" /\ pc = "idle"
    BY <1>5, <2>1 DEF WriteStart
  <2>3. count \in Nat /\ 0 < count /\ told + 0 <= Len(pGot) /\ Used + count - 0 <= SndSpan
    BY <1>1, <2>2
  <2>4. ~ackTimeout => Used = told + 0
    BY <1>1, <1>4, <2>2
  <2> QED
    BY <2>2, <2>3, <2>4, SendChunkSends
<1>6. CASE WriteRefused
  <2>1. told + 0 <= Len(pGot) /\ (~ackTimeout => Used = told + 0)
    BY <1>1, <1>4, <1>6 DEF WriteRefused
  <2> QED
    BY <1>6, <2>1, WriteReturnsSends DEF WriteRefused
<1>7. CASE Resend
  BY <1>7, ResendSends
<1>8. CASE WriteShort
  BY <1>1, <1>2, <1>8, WriteReturnsSends DEF WriteShort
<1>9. CASE WriteAcked
  <2>1. pc = "write" /\ phase = "open" /\ WriteFrame /\ UNCHANGED ackTimeout
    BY <1>2, <1>9 DEF WriteAcked
  <2>2. ~seq_leq(snd_una, (snd_nxt - 1) % SeqMod)
    BY <1>2, <1>9 DEF WriteAcked, Unacked
  <2>3. Place(snd_una) = Used
    BY <1>1, <1>3, <2>1, <2>2, SendTypes, AckedMeansAll DEF Used
  <2>4. Len(pGot) = Used
    BY <1>1, <1>3, <2>1, <2>3
  <2> DEFINE sent == wr.sent + wr.chunk
  <2>5. sent \in Nat /\ told + sent <= Len(pGot) /\ Used + wr.count - sent <= SndSpan
    BY <1>1, <1>2, <2>1, <2>4
  <2>6. ~ackTimeout => Used = told + sent
    BY <1>4, <2>1
  <2>7. \/ sent < wr.count /\ SendChunk(wr.count, sent)
        \/ sent = wr.count /\ WriteReturns(sent) /\ UNCHANGED <<snd_nxt, toPeer>>
    BY <1>9 DEF WriteAcked
  <2> HIDE DEF sent
  <2> QED
    BY <1>1, <2>1, <2>5, <2>6, <2>7, SendChunkSends, WriteReturnsSends
<1> QED
  BY <1>5, <1>6, <1>7, <1>8, <1>9 DEF Write

\* A segment of the peer acknowledges what its last argument says.
LEMMA PeerAcks ==
  ASSUME NEW flags, NEW from, NEW len, NEW received \in 0 .. SeqMod - 2
  PROVE  Place(PeerSegment(flags, from, len, received).ack) = received
  BY PlaceOf DEF PeerSegment

LEMMA ReceivedRange ==
  ASSUME IInv, SendInv
  PROVE  Received \in 0 .. SeqMod - 2 /\ Len(pGot) \in 0 .. SeqMod - 2
  BY SendTypes DEF SendInv, SentInv

\* Steps of the peer that take nothing in.
LEMMA PeerSpeaks ==
  ASSUME IInv, SendInv, UNCHANGED <<sock, caller, toPeer, pGot, pClosed>>,
         \A m \in toClient' : m \in toClient \/ Place(m.ack) <= Received
  PROVE  SendInv'
<1> USE DEF sock, caller
<1>1. Used' = Used /\ InUse' = InUse /\ Received' = Received
  BY DEF Used, InUse, Place, Received
<1>2. ConnectInv'
  BY <1>1 DEF SendInv, ConnectInv, Opened
<1>3. SentInv' /\ AckInv'
  BY <1>1, PlacesKept DEF SendInv, SentInv, AckInv, Agreed, Synchronised, Place
<1>4. WriteInv' /\ OnceInv'
  BY <1>1, PlacesKept DEF SendInv, WriteInv, OnceInv, Opened, Iota
<1> QED
  BY <1>2, <1>3, <1>4 DEF SendInv

\* A segment whose number is next extends what the peer has by its bytes.
LEMMA IotaNext ==
  ASSUME NEW s \in Seq(Nat), \A i \in 1 .. Len(s) : s[i] = i, NEW n \in Nat,
         NEW d \in Seq(Nat), Len(d) = n, \A i \in 1 .. n : d[i] = Len(s) + i
  PROVE  Len(s \o d) = Len(s) + n /\ s \o d = Iota(Len(s) + n)
<1>2. /\ s \o d \in Seq(Nat) /\ Len(s \o d) = Len(s) + n /\ Len(s) \in Nat
      /\ \A i \in 1 .. Len(s) + n :
           (s \o d)[i] = IF i <= Len(s) THEN s[i] ELSE d[i - Len(s)]
  BY ConcatProperties
<1>3. \A i \in 1 .. Len(s) + n : (s \o d)[i] = i
  <2> TAKE i \in 1 .. Len(s) + n
  <2>1. CASE i <= Len(s)
    BY <2>1, <1>2
  <2>2. CASE ~(i <= Len(s))
    <3>1. i - Len(s) \in 1 .. n
      BY <2>2, <1>2
    <3> QED
      BY <2>2, <3>1, <1>2
  <2> QED
    BY <2>1, <2>2
<1>4. Iota(Len(s) + n) \in Seq(Nat) /\ Len(Iota(Len(s) + n)) = Len(s) + n
  BY <1>2 DEF Iota
<1> QED
  BY <1>2, <1>3, <1>4, SeqEqual DEF Iota

\* The bytes of a segment, counted on from its first one.
LEMMA CountedRun ==
  ASSUME NEW n \in Nat, NEW k \in Nat
  PROVE  /\ [i \in 1 .. n |-> k + i] \in Seq(Nat)
         /\ Len([i \in 1 .. n |-> k + i]) = n
<1>1. \A i \in 1 .. n : k + i \in Nat
  OBVIOUS
<1> QED
  BY <1>1

LEMMA PeerTakes ==
  ASSUME IInv, SendInv, NEW m \in toPeer, PeerReceives(m)
  PROVE  SendInv'
<1> USE DEF PeerReceives, sock, caller
<1> DEFINE isNext == m.seq = SeqAdd(Isn, 1 + Len(pGot)) /\ ~pClosed
           data == IF isNext THEN [i \in 1 .. m.len |-> m.from + i] ELSE <<>>
           closed == pClosed \/ (isNext /\ "FIN" \in m.flags)
           received == Len(pGot) + Len(data) + (IF closed THEN 1 ELSE 0)
           from == pSent + (IF pFin THEN 1 ELSE 0)
           reply == PeerSegment({"ACK"}, from, 0, received)
<1>1. /\ pGot' = pGot \o data /\ pClosed' = closed /\ "ACK" \in m.flags
      /\ UNCHANGED <<sock, caller, toPeer>>
      /\ \A t \in toClient' : t \in toClient \/ t = reply
  OBVIOUS
<1>2. /\ m.len \in Nat /\ m.from \in Nat /\ pGot \in Seq(1 .. AppLen) /\ pGot \in Seq(Nat)
      /\ Len(pGot) \in 0 .. SeqMod - 2 /\ Received \in 0 .. SeqMod - 2
      /\ Length(m) = m.len + (IF "FIN" \in m.flags THEN 1 ELSE 0)
      /\ InUse \in 0 .. SeqMod - 2 /\ pClosed \in BOOLEAN
  <2>1. pGot \in Seq(1 .. AppLen) /\ pGot \in Seq(Nat) /\ pClosed \in BOOLEAN
    BY DEF IInv, TypeOK
  <2> HIDE DEF PeerReceives
  <2> QED
    BY <2>1, SendTypes, ReceivedRange
<1>3. isNext => Place(m.seq) = Len(pGot) /\ Len(pGot) + Length(m) <= InUse /\ ~pClosed
  BY <1>1, <1>2, PlaceOf DEF SendInv, SentInv
<1>4. /\ data \in Seq(Nat) /\ Len(data) \in Nat
      /\ Len(data) = IF isNext THEN m.len ELSE 0
      /\ pGot' \in Seq(Nat) /\ Len(pGot') = Len(pGot) + Len(data)
  <2> HIDE DEF PeerReceives
  <2>1. data \in Seq(Nat) /\ Len(data) = IF isNext THEN m.len ELSE 0
    <3>1. CASE isNext
      <4>1. data = [i \in 1 .. m.len |-> m.from + i]
        BY <3>1
      <4> HIDE DEF data, isNext
      <4>2. data \in Seq(Nat) /\ Len(data) = m.len
        BY <1>2, <4>1, CountedRun
      <4> QED
        BY <3>1, <4>2
    <3>2. CASE ~isNext
      <4>1. data = <<>>
        BY <3>2
      <4> QED
        BY <4>1, <3>2, EmptySeq
    <3> QED
      BY <3>1, <3>2
  <2> QED
    BY <1>1, <1>2, <2>1, ConcatProperties
<1>5. /\ Received' = received /\ received \in Nat
      /\ received >= Received /\ received <= InUse
  <2> HIDE DEF PeerReceives
  <2>1. Received' = Len(pGot') + (IF pClosed' THEN 1 ELSE 0)
    BY DEF Received
  <2>2. Received' = received /\ received \in Nat /\ received >= Received
    <3>1. closed \in BOOLEAN /\ (pClosed => closed) /\ pClosed' = closed
      BY <1>1, <1>2
    <3> HIDE DEF data, closed, isNext
    <3> QED
      BY <1>2, <1>4, <2>1, <3>1, SMTT(20) DEF Received
  <2>3. CASE isNext
    BY <1>2, <1>3, <1>4, <2>2, <2>3, SMTT(20)
  <2>4. CASE ~isNext
    <3>1. received = Received
      BY <1>2, <1>4, <2>4 DEF Received
    <3> QED
      BY <3>1, <2>2 DEF SendInv, SentInv
  <2> QED
    BY <2>2, <2>3, <2>4
<1>6. Used' = Used /\ InUse' = InUse
  BY DEF Used, InUse, Place
<1> HIDE DEF PeerReceives
<1>7. ~isNext => pGot' = pGot
  BY <1>1, <1>2, ConcatEmptySeq
<1>8. ConnectInv'
  <2>1. phase # "done" => ~pClosed'
    BY <1>1 DEF SendInv, ConnectInv
  <2>2. ~(pc = "idle" /\ phase = "start")
    BY DEF SendInv, ConnectInv
  <2> QED
    BY <1>1, <1>6, <2>1, <2>2 DEF SendInv, ConnectInv, Opened
<1>9. SentInv'
  BY <1>1, <1>5, <1>6, PlacesKept DEF SendInv, SentInv
<1>10. AckInv'
  <2>1. Place(reply.ack) = received
    <3>1. received \in 0 .. SeqMod - 2
      BY <1>2, <1>5
    <3> HIDE DEF received, from
    <3> QED
      BY <3>1, PeerAcks
  <2>2. ASSUME NEW t \in toClient'
        PROVE  Place(t.ack) <= received
    <3>1. CASE t \in toClient
      BY <3>1, <1>2, <1>5, SendTypes DEF SendInv, AckInv
    <3>2. CASE t = reply
      <4> HIDE DEF reply, received
      <4> QED
        BY <3>2, <2>1, <1>5
    <3> QED
      BY <1>1, <3>1, <3>2
  <2>3. Place(snd_una) \in Nat
    BY SendTypes
  <2>4. /\ Agreed' = Agreed /\ state' = state /\ snd_una' = snd_una
        /\ Place(snd_una)' = Place(snd_una)
    BY <1>1 DEF Agreed, Synchronised, Place
  <2> HIDE DEF received
  <2> QED
    BY <1>2, <1>5, <2>2, <2>3, <2>4, PlacesKept DEF SendInv, AckInv
<1>11. WriteInv'
  <2>1. Len(pGot') \in Nat /\ Len(pGot') >= Len(pGot)
    BY <1>2, <1>4
  <2>2. wr.sent \in Nat /\ told \in Nat
    BY DEF IInv, TypeOK
  <2> QED
    BY <1>1, <1>2, <1>6, <2>1, <2>2 DEF SendInv, WriteInv
<1>12. OnceInv'
  <2> SUFFICES ASSUME ~ackTimeout PROVE OnceInv'
    BY <1>1 DEF OnceInv
  <2>1. pGot = Iota(Len(pGot)) /\ (m.len # 0 => m.from = Place(m.seq))
    BY DEF SendInv, OnceInv
  <2>2. pGot' = Iota(Len(pGot'))
    <3>1. CASE isNext
      <4>1. data = [i \in 1 .. m.len |-> m.from + i] /\ (m.len # 0 => m.from = Len(pGot))
        BY <1>3, <2>1, <3>1
      <4> HIDE DEF data, isNext
      <4>2. ASSUME NEW i \in 1 .. m.len
            PROVE  data[i] = Len(pGot) + i
        <5>1. m.len # 0
          BY <1>2
        <5>2. data[i] = m.from + i
          BY <4>1
        <5> QED
          BY <4>1, <5>1, <5>2
      <4>3. \A i \in 1 .. Len(pGot) : pGot[i] = i
        BY <1>2, <2>1 DEF Iota
      <4>4. data \in Seq(Nat) /\ Len(data) = m.len
        BY <1>4, <3>1
      <4>5. /\ Len(pGot \o data) = Len(pGot) + m.len
            /\ pGot \o data = Iota(Len(pGot) + m.len)
        BY <1>2, <4>2, <4>3, <4>4, IotaNext
      <4> QED
        BY <1>1, <4>5
    <3>2. CASE ~isNext
      BY <1>7, <2>1, <3>2
    <3> QED
      BY <3>1, <3>2
  <2>3. (pGot = Iota(Len(pGot)))' <=> pGot' = Iota(Len(pGot'))
    BY DEF Iota
  <2> QED
    BY <1>1, <1>6, <2>2, <2>3, PlacesKept DEF SendInv, OnceInv, Opened
<1> QED
  BY <1>8, <1>9, <1>10, <1>11, <1>12 DEF SendInv

LEMMA PeerStepSends ==
  ASSUME IInv, SendInv, Peer
  PROVE  SendInv'
<1> USE DEF peer
<1>1. ASSUME NEW m \in toPeer, PeerAccepts(m)
      PROVE  SendInv'
  <2>1. m.seq = Isn
    BY <1>1 DEF PeerAccepts, SendInv, SentInv
  <2>2. Place(SeqAdd(m.seq, 1)) <= Received
    BY <2>1, SynNumbers, SendTypes
  <2> QED
    BY <1>1, <2>2, PeerSpeaks DEF PeerAccepts
<1>2. ASSUME NEW m \in toPeer, PeerReceives(m)
      PROVE  SendInv'
  BY <1>2, PeerTakes
<1>3. ASSUME NEW from \in 0 .. PeerLen, NEW len \in 0 .. Mss, NEW fin \in BOOLEAN,
             PeerSends(from, len, fin)
      PROVE  SendInv'
  <2> DEFINE flags == IF fin THEN {"ACK", "FIN"} ELSE {"ACK"}
  <2>1. Place(PeerSegment(flags, from, len, Received).ack) = Received
    BY ReceivedRange, PeerAcks
  <2>2. toClient' = toClient \cup {PeerSegment(flags, from, len, Received)}
    BY <1>3 DEF PeerSends, Received
  <2>3. Received \in Nat
    BY SendTypes
  <2> HIDE DEF flags
  <2> QED
    BY <1>3, <2>1, <2>2, <2>3, PeerSpeaks DEF PeerSends
<1>4. CASE PeerResets
  <2>1. Place(PeerSegment({"RST"}, pSent, 0, Len(pGot)).ack) <= Received
    BY ReceivedRange, SendTypes, PeerAcks
  <2> QED
    BY <1>4, <2>1, PeerSpeaks DEF PeerResets
<1> QED
  BY <1>1, <1>2, <1>3, <1>4 DEF Peer

LEMMA SendInit == Init => SendInv
<1> SUFFICES ASSUME Init PROVE SendInv
  OBVIOUS
<1> USE DEF Init
<1>1. Len(pGot) = 0 /\ Received = 0 /\ pGot = Iota(0)
  BY DEF Received, Iota
<1>2. InUse \in Nat
  <2>1. 0 \in SeqNums
    BY DEF SeqNums
  <2> QED
    BY <2>1, PlaceType DEF InUse, Used
<1> QED
  BY <1>1, <1>2 DEF SendInv, ConnectInv, SentInv, AckInv, WriteInv, OnceInv, Opened,
     Agreed, Synchronised

LEMMA SendNext == IInv /\ SendInv /\ [Next]_vars => SendInv'
<1> SUFFICES ASSUME IInv, SendInv, [Next]_vars PROVE SendInv'
  OBVIOUS
<1>1. CASE Next
  BY <1>1, ConnectSends, ReceiveSends, ReadSends, WriteSends, PollSends, CloseSends,
     PeerStepSends DEF Next
<1>2. CASE UNCHANGED vars
  BY <1>2, PeerSpeaks DEF vars, peer
<1> QED
  BY <1>1, <1>2

\* The strengthening for the sending side is an invariant too.
THEOREM SendInvariance == Spec => []SendInv
  BY SendInit, SendNext, Invariance, PTL DEF Spec

\* A byte that picow_tcp_write counted in its result is in the peer's hands,
\* whatever the network lost, doubled or reordered and however often the
\* sequence numbers wrapped.
THEOREM ReportsReceived == Spec => []ReportedWasReceived
<1>1. SendInv => ReportedWasReceived
  BY DEF SendInv, WriteInv, ReportedWasReceived
<1> QED
  BY <1>1, SendInvariance, PTL

\* Until a write gives up on an acknowledgement, the peer gets every byte of
\* the program once and in order.
THEOREM BytesWrittenOnce == Spec => []WrittenOnce
<1>1. SendInv => WrittenOnce
  BY DEF SendInv, OnceInv, WrittenOnce
<1> QED
  BY <1>1, SendInvariance, PTL
=============================================================================

----------------------------- MODULE ByteStream -----------------------------
(***************************************************************************)
(* What a TCP client promises for the stream it receives: the peer's bytes *)
(* 1, 2, ..., Length reach the program once each and in order, through a   *)
(* buffer of Window bytes, and never before the peer has sent them.        *)
(***************************************************************************)
EXTENDS Naturals, Sequences

CONSTANTS Length, Window
VARIABLES sent,      \* bytes the peer has sent
          arrived,   \* bytes that have entered the buffer
          read       \* bytes handed to the program

svars == <<sent, arrived, read>>

Init == sent = 0 /\ arrived = 0 /\ read = <<>>

Produce == /\ sent' \in sent + 1 .. Length
           /\ UNCHANGED <<arrived, read>>

Arrive == /\ arrived' \in arrived + 1 .. sent
          /\ arrived' - Len(read) <= Window
          /\ UNCHANGED <<sent, read>>

Consume == /\ \E n \in 1 .. arrived - Len(read) :
                read' = [i \in 1 .. Len(read) + n |-> i]
           /\ UNCHANGED <<sent, arrived>>

Next == Produce \/ Arrive \/ Consume
Spec == Init /\ [][Next]_svars
=============================================================================

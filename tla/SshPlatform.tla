----------------------------- MODULE SshPlatform -----------------------------
(***************************************************************************)
(* The calls src/ssh/picow_ssh_platform.c gives the SSH client, with the   *)
(* shell loop of the client (vendored) around them: it polls the socket    *)
(* and the keyboard, reads a packet or the keys, and writes.               *)
(*                                                                         *)
(* A frame that has reached the radio is looked at only when somebody      *)
(* calls picow_net_poll: a write that waits for its acknowledgement, a     *)
(* read of an empty ring, and a poll of the socket with time to wait do;   *)
(* a poll of the socket with no time to wait (poll_fd(fd, 0)) does not.    *)
(*                                                                         *)
(* A packet is one frame; the ring of the connection has room for all      *)
(* packets of an instance (PicowTcp is about its limits).                  *)
(***************************************************************************)
EXTENDS Integers, Sequences

CONSTANTS
  KeyCodes,     \* what the keyboard reports: 97, 10, 8, 212, 177...
  MaxKeys,      \* bound: keys pressed
  Packets,      \* bound: packets the server sends
  ReadMax,      \* sizeof(stdin_buffer)
  Window        \* bytes the server accepts at first, and by one adjustment

PlatformAssumption ==
  {MaxKeys, Packets, ReadMax, Window} \cup KeyCodes \subseteq Nat /\ ReadMax > 0

VARIABLES
  typed,        \* history: keys pressed
  keyboard,     \* keys the keyboard controller has not given away
  pending_stdin,\* g_pending_stdin, -1 if none
  radio,        \* frames received and not handled: "data", "adjust", "ack", "fin"
  offered,      \* packets the server has sent
  rx,           \* packets in the ring of the connection
  closing,      \* the connection is in CLOSE_WAIT
  at,           \* "socket", "stdin": poll_fds; "wait": poll_fd; "read", "keys", "ack", "over"
  buffer,       \* keys platform_read has read
  unacked,      \* written, and no acknowledgement sent yet
  eof_sent, remote_window, \* of the channel
  sent,         \* history: bytes written to the channel
  shown         \* data packets read

input == <<typed, keyboard, pending_stdin, buffer, sent, eof_sent>>
network == <<radio, offered, rx, closing, unacked>>
platVars == <<input, network, at, remote_window, shown>>

NoKey == -1
PlatInit ==
  /\ typed = <<>> /\ keyboard = <<>> /\ pending_stdin = NoKey /\ buffer = <<>>
  /\ radio = <<>> /\ offered = 0 /\ rx = <<>> /\ closing = FALSE /\ unacked = FALSE
  /\ at = "socket" /\ eof_sent = FALSE /\ remote_window = Window
  /\ sent = <<>> /\ shown = 0

platform_translate_key(key) ==
  CASE key = 10 -> 10 [] key \in {8, 212} -> 127 [] key = 177 -> 27 [] OTHER -> key

-----------------------------------------------------------------------------
(* The keyboard, the server and the radio                                   *)

Occurs(frame, frames) == \E i \in DOMAIN frames : frames[i] = frame

Press(key) ==
  /\ Len(typed) < MaxKeys
  /\ typed' = Append(typed, key) /\ keyboard' = Append(keyboard, key)
  /\ UNCHANGED <<pending_stdin, buffer, sent, eof_sent, network, at, remote_window, shown>>

ServerSends(packet) ==
  /\ offered < Packets /\ ~Occurs("fin", radio) /\ ~closing
  /\ offered' = offered + 1 /\ radio' = Append(radio, packet)
  /\ UNCHANGED <<input, rx, closing, unacked, at, remote_window, shown>>

ServerAcknowledges ==
  /\ unacked
  /\ unacked' = FALSE /\ radio' = Append(radio, "ack")
  /\ UNCHANGED <<input, offered, rx, closing, at, remote_window, shown>>

\* picow_net_poll: the next n frames are handled
Handled(n) ==
  LET now == SubSeq(radio, 1, n)
  IN /\ radio' = SubSeq(radio, n + 1, Len(radio))
     /\ rx' = rx \o SelectSeq(now, LAMBDA frame : frame \in {"data", "adjust"})
     /\ closing' = (closing \/ Occurs("fin", now))
     /\ UNCHANGED <<offered, unacked>>

-----------------------------------------------------------------------------
(* platform_poll_fds: the socket and the keyboard in turn, or the socket    *)
(* alone, which waits in picow_tcp_poll_fd                                  *)

Readable == rx # <<>> \/ closing
TwoSets == ~eof_sent /\ remote_window # 0

SocketReady_StdinOnly == Readable /\ ~TwoSets
SocketReady == Readable
PollSocket ==
  /\ at = "socket"
  /\ at' = IF SocketReady THEN "read" ELSE IF TwoSets THEN "stdin" ELSE "wait"
  /\ UNCHANGED <<input, network, remote_window, shown>>

platform_poll_stdin ==
  \/ /\ pending_stdin # NoKey \/ keyboard = <<>>
     /\ UNCHANGED <<pending_stdin, keyboard>>
  \/ /\ pending_stdin = NoKey /\ keyboard # <<>>
     /\ pending_stdin' = platform_translate_key(Head(keyboard))
     /\ keyboard' = Tail(keyboard)

PollStdin ==
  /\ at = "stdin" /\ platform_poll_stdin
  /\ at' = IF pending_stdin' # NoKey THEN "keys" ELSE "socket"
  /\ UNCHANGED <<typed, buffer, sent, eof_sent, network, remote_window, shown>>

\* once it waits, picow_tcp_poll_fd looks at the ring only: a FIN does not wake it
WaitSocket ==
  /\ at = "wait"
  /\ IF rx # <<>> THEN at' = "read" /\ UNCHANGED network
     ELSE UNCHANGED at /\ \E n \in DOMAIN radio : Handled(n)
  /\ UNCHANGED <<input, remote_window, shown>>

-----------------------------------------------------------------------------
(* platform_read of the keyboard, and the client's write of what it read    *)

ReadKey_Again ==
  /\ UNCHANGED pending_stdin
  /\ buffer' = Append(buffer, pending_stdin)
ReadKey ==
  /\ pending_stdin' = NoKey
  /\ buffer' = Append(buffer, pending_stdin)

Limit == IF ReadMax < remote_window THEN ReadMax ELSE remote_window
ReadKeys ==
  /\ at = "keys" /\ Len(buffer) < Limit
  /\ IF pending_stdin # NoKey THEN ReadKey /\ UNCHANGED keyboard
     ELSE keyboard # <<>> /\ platform_poll_stdin /\ UNCHANGED buffer
  /\ UNCHANGED <<typed, sent, eof_sent, network, at, remote_window, shown>>

KeysRead == Len(buffer) = Limit \/ (pending_stdin = NoKey /\ keyboard = <<>>)

\* nothing read is the end of the input for the client
KeysDone ==
  /\ at = "keys" /\ KeysRead
  /\ eof_sent' = (buffer = <<>>)
  /\ at' = IF buffer = <<>> THEN "socket" ELSE "ack"
  /\ unacked' = (buffer # <<>>)
  /\ sent' = sent \o buffer /\ buffer' = <<>>
  /\ remote_window' = remote_window - Len(buffer)
  /\ UNCHANGED <<typed, keyboard, pending_stdin, radio, offered, rx, closing, shown>>

\* picow_tcp_write waits for the acknowledgement; with the connection closing
\* it gives up, as after two seconds, and the session ends
WaitAck ==
  /\ at = "ack"
  /\ \E n \in DOMAIN radio :
       LET now == SubSeq(radio, 1, n)
       IN /\ Handled(n)
          /\ at' = IF Occurs("ack", now) THEN "socket"
                   ELSE IF Occurs("fin", now) THEN "over" ELSE "ack"
  /\ UNCHANGED <<input, remote_window, shown>>

WriteFails ==
  /\ at = "ack" /\ at' = "over"
  /\ UNCHANGED <<input, network, remote_window, shown>>

-----------------------------------------------------------------------------
(* platform_read of the socket: picow_tcp_read                               *)

ReadPacket ==
  /\ at = "read" /\ rx # <<>>
  /\ rx' = Tail(rx) /\ at' = "socket"
  /\ shown' = IF Head(rx) = "data" THEN shown + 1 ELSE shown
  /\ remote_window' = IF Head(rx) = "adjust" THEN remote_window + Window ELSE remote_window
  /\ UNCHANGED <<input, radio, offered, closing, unacked>>

\* a poll of a closing connection has said ready, and nothing comes in 30 s
ReadFails ==
  /\ at = "read" /\ rx = <<>> /\ at' = "over"
  /\ UNCHANGED <<input, network, remote_window, shown>>

Client == PollSocket \/ PollStdin \/ WaitSocket \/ ReadKeys \/ KeysDone
          \/ WaitAck \/ ReadPacket
PlatNext ==
  \/ \E key \in KeyCodes : Press(key)
  \/ \E packet \in {"data", "adjust", "fin"} : ServerSends(packet)
  \/ ServerAcknowledges
  \/ Client
  \/ WriteFails
  \/ ReadFails

PlatSpec == PlatInit /\ [][PlatNext]_platVars
\* The client runs on, and a write is acknowledged or fails after two seconds.
PlatFairness ==
  /\ WF_platVars(Client)
  /\ WF_platVars(WriteFails)
  /\ WF_platVars(ReadFails)
PlatFairSpec == PlatSpec /\ PlatFairness

-----------------------------------------------------------------------------
(* Properties                                                               *)

\* Every key pressed goes to the server once and in order: it is in what was
\* written, in what platform_read has read, in g_pending_stdin or still in the
\* keyboard.  A keyboard that was ready is never read as empty, which would end
\* the input.  Of platform_poll_stdin and platform_read.
KeysDelivered ==
  /\ sent \o buffer \o (IF pending_stdin = NoKey THEN <<>> ELSE <<pending_stdin>>)
       \o [i \in DOMAIN keyboard |-> platform_translate_key(keyboard[i])]
     = [i \in DOMAIN typed |-> platform_translate_key(typed[i])]
  /\ ~eof_sent

\* Output that has reached the radio is read although poll_fds asks with
\* poll_fd(fd, 0), which does not look at the radio, if a key is pressed after
\* it: the write of the key waits for its acknowledgement, which comes after
\* the output.  (Without a key it may stay there for ever.)
DataIn(q) == Len(SelectSeq(q, LAMBDA p : p = "data"))
KeyBringsOutput ==
  \A n \in 1 .. Packets :
    (shown + DataIn(rx) + DataIn(radio) >= n /\ (keyboard # <<>> \/ pending_stdin # NoKey))
      ~> (shown >= n \/ at = "over")
=============================================================================

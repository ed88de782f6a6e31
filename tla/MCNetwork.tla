------------------------------ MODULE MCNetwork ------------------------------
(***************************************************************************)
(* The programs of the network, one of them at a time: joins ("join"), ARP *)
(* and sending ("send"), the network diagnostic ("diagnostic"), the scan   *)
(* diagnostic ("scan") and the calls of the SSH client ("client").  The    *)
(* machine is chosen at the start; the variables of the others stay as     *)
(* they are then.                                                          *)
(*                                                                         *)
(* The three servers lease different addresses; the third names no router. *)
(* Each machine uses two of them, and bounds no larger than the constants. *)
(***************************************************************************)
EXTENDS PicowNet
CONSTANTS PingHost, NameServer, Near, Networks, Open, Hidden, MAX_APS,
          KeyCodes, MaxKeys, Packets, ReadMax, Window
VARIABLES machine,
  step, wait, ping_ip, dns_pointer, hop_pointer, tries, ping_reply, dns_reply,
  queries, heard, replied, verdict,
  aps, selected, open_count, list, scanning, at, target, joined, chosen,
  typed, keyboard, pending_stdin, radio, offered, rx, closing, clientAt,
  buffer, unacked, eof_sent, remote_window, sent, shown

MCAddress == [s \in {"s1", "s2", "s3"} |->
                CASE s = "s1" -> "a1" [] s = "s2" -> "a2" [] s = "s3" -> "a3"]
MCRouter == [s \in {"s1", "s2", "s3"} |->
               CASE s = "s1" -> "r1" [] s = "s2" -> "r2" [] s = "s3" -> "none"]
MCNameServer == [s \in {"s1", "s3"} |-> IF s = "s1" THEN "r1" ELSE "d3"]

D == INSTANCE PicowDhcp WITH Servers <- {"s1", "s3"}
S == INSTANCE PicowNet WITH Servers <- {"s1", "s2"}, Attempts <- 1, Joins <- 1
G == INSTANCE NetDiag WITH Servers <- {"s1", "s3"}, Attempts <- 1, Joins <- 1
W == INSTANCE WifiDiag
C == INSTANCE SshPlatform WITH at <- clientAt

ASSUME NetworkAssumption ==
  /\ G!DiagAssumption /\ W!WifiAssumption /\ C!PlatformAssumption

ownVars == <<cache, call, answers, out>>   \* of PicowNet, not of NetDiag
askVars == <<step, wait, ping_ip, dns_pointer, hop_pointer, tries, ping_reply, dns_reply,
             queries, heard, replied, verdict>>
scanVars == <<aps, selected, open_count, list, scanning, at, target, joined, chosen>>
clientVars == <<typed, keyboard, pending_stdin, radio, offered, rx, closing, clientAt,
                buffer, unacked, eof_sent, remote_window, sent, shown>>
otherVars == <<askVars, scanVars, clientVars>>
networkVars == <<machine, netVars, otherVars>>

Init == /\ machine \in {"join", "send", "diagnostic", "scan", "client"}
        /\ NetInit /\ G!DiagInit /\ W!WifiInit /\ C!PlatInit

Join == machine = "join" /\ D!DhcpNext /\ UNCHANGED <<arpVars, otherVars>>
Send == machine = "send" /\ S!NetNext /\ UNCHANGED otherVars
Diagnose == machine = "diagnostic" /\ G!DiagNext /\ UNCHANGED <<ownVars, scanVars, clientVars>>
Scan == machine = "scan" /\ W!WifiNext /\ UNCHANGED <<netVars, askVars, clientVars>>
Client == machine = "client" /\ C!PlatNext /\ UNCHANGED <<netVars, askVars, scanVars>>
Next == (Join \/ Send \/ Diagnose \/ Scan \/ Client) /\ UNCHANGED machine

\* The fairness of each machine's own specification, and joins end in "send"
\* too.  One machine at a time has steps, so one WF serves one action of each.
Spec ==
  /\ Init /\ [][Next]_networkVars
  /\ WF_networkVars(/\ UNCHANGED machine
                    /\ \/ machine = "join" /\ D!Waits /\ UNCHANGED <<arpVars, otherVars>>
                       \/ machine = "send" /\ S!Waits /\ UNCHANGED <<arpVars, otherVars>>
                       \/ machine = "diagnostic" /\ G!Main /\ UNCHANGED <<ownVars, scanVars, clientVars>>
                       \/ machine = "client" /\ C!Client /\ UNCHANGED <<netVars, askVars, scanVars>>)
  /\ WF_networkVars(/\ UNCHANGED machine
                    /\ \/ machine = "send" /\ (S!ResolveRetry \/ S!Resolved) /\ UNCHANGED otherVars
                       \/ machine = "client" /\ C!WriteFails /\ UNCHANGED <<netVars, askVars, scanVars>>)
  /\ WF_networkVars(/\ machine = "client" /\ C!ReadFails
                    /\ UNCHANGED <<machine, netVars, askVars, scanVars>>)

\* An echo request or DNS query goes to its host under the hardware address of
\* its next hop, and a reply on the screen answers it: NetDiag, which states it.
QueriesGoRight == G!QueriesGoRight

\* A join and a send return and the network diagnostic comes to a result,
\* whoever is silent: PicowDhcp, PicowNet, NetDiag.
Returns == JoinReturns /\ SendReturns /\ (machine = "diagnostic" => G!Concluded)

\* The screen shows the table of the scan diagnostic, which a result callback
\* changes at any poll, and only an open network that was marked is tried:
\* WifiDiag.
TableShown == W!TableShown /\ W!AttemptsMarked

\* Every key pressed goes to the SSH server once and in order: SshPlatform.
KeysDelivered == C!KeysDelivered

\* Output that has reached the radio is read after a key is pressed: SshPlatform.
KeyBringsOutput == machine = "client" => C!KeyBringsOutput
=============================================================================

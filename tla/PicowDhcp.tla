----------------------------- MODULE PicowDhcp -----------------------------
(***************************************************************************)
(* Joining a network and obtaining an address: picow_net_join_dhcp of      *)
(* src/picow_net/picow_net.c with the frame handler that runs inside its   *)
(* polls, and, outside the repository, the radio and the DHCP servers.     *)
(*                                                                         *)
(* A frame is handled at any poll, and the program goes on polling after   *)
(* the join: parse_dhcp has no state of its own that would stop it.  All   *)
(* exchanges use the one transaction number g_xid, so a reply to any       *)
(* earlier message is taken for a reply to the last one.                   *)
(*                                                                         *)
(* The network is two growing sets of messages: a message is received at   *)
(* any time, any number of times, in any order, or never.  What a server   *)
(* puts into a reply depends on the server and the type of the reply only, *)
(* so a mask or a name server is named by the server it came from.         *)
(***************************************************************************)
EXTENDS Naturals

CONSTANTS
  Servers,      \* the DHCP servers of the network
  Address,      \* Address[s]: what server s leases to this client
  Router,       \* Router[s]: the router s names, None if it names none
  None,         \* four zero bytes; no message
  Attempts,     \* rounds of DISCOVER and REQUEST before dhcp_obtain gives up
  Joins         \* bound: calls of picow_net_join_dhcp

ASSUME DhcpAssumption ==
  /\ None \notin Servers /\ None \notin {"OFFER", "ACK", "NAK"}
  /\ DOMAIN Address = Servers /\ DOMAIN Router = Servers
  /\ \A s \in Servers : Address[s] # None
  /\ Attempts \in Nat \ {0} /\ Joins \in Nat

VARIABLES
  link,         \* g_sta_link_ready
  info,         \* g_info: ip, mask, gateway, dns, dhcp_server
  offer_ip,     \* g_offer_ip
  dhcp_msg,     \* g_dhcp_msg: "OFFER", "ACK" or None
  pc,           \* wait loop in progress: "join", "offer", "ack", or "idle"
  attempt,      \* of dhcp_obtain
  phase,        \* "down", "up" (the last join succeeded) or "failed"
  joins,        \* calls of join so far
  requests,     \* messages of the client to the servers
  replies,      \* messages of the servers to the client
  leased,       \* servers that have granted their address
  refused       \* the last reply handled was a NAK

client == <<link, info, offer_ip, dhcp_msg, pc, attempt, phase, joins, refused>>
dhcpVars == <<client, requests, replies, leased>>

Types == {"OFFER", "ACK", "NAK"}
Reply(type, s) == [type |-> type, server |-> s]
Discover == [type |-> "DISCOVER", ip |-> None, server |-> None]
Request == [type |-> "REQUEST", ip |-> offer_ip, server |-> info.dhcp_server]
NoInfo == [ip |-> None, mask |-> None, gateway |-> None, dns |-> None,
           dhcp_server |-> None]

DhcpInit ==
  /\ link = FALSE /\ info = NoInfo /\ offer_ip = None /\ dhcp_msg = None
  /\ pc = "idle" /\ attempt = 0 /\ phase = "down" /\ joins = 0
  /\ requests = {} /\ replies = {} /\ leased = {} /\ refused = FALSE

-----------------------------------------------------------------------------
(* picow_net_join_dhcp                                                      *)

JoinStart ==
  /\ pc = "idle" /\ joins < Joins
  /\ joins' = joins + 1 /\ pc' = "join" /\ phase' = "down"
  /\ info' = NoInfo /\ link' = FALSE /\ refused' = FALSE
  /\ UNCHANGED <<offer_ip, dhcp_msg, attempt, requests, replies, leased>>

\* The radio refuses, reports a failure, or the deadline of 20 s passes.
JoinFails ==
  /\ pc = "join" /\ ~link
  /\ pc' = "idle" /\ phase' = "failed"
  /\ UNCHANGED <<link, info, offer_ip, dhcp_msg, attempt, joins, refused,
                 requests, replies, leased>>

Discovers ==
  /\ dhcp_msg' = None /\ requests' = requests \cup {Discover} /\ pc' = "offer"

Joined ==
  /\ pc = "join" /\ link
  /\ info' = NoInfo /\ attempt' = 1
  /\ Discovers
  /\ UNCHANGED <<link, offer_ip, phase, joins, refused, replies, leased>>

\* The offer or the acknowledgement did not come in 2.5 s.
Retry_Uncounted == Discovers /\ UNCHANGED <<attempt, phase>>
Retry ==
  \/ attempt < Attempts /\ attempt' = attempt + 1 /\ phase' = phase /\ Discovers
  \/ attempt = Attempts /\ pc' = "idle" /\ phase' = "failed"
     /\ UNCHANGED <<dhcp_msg, attempt, requests>>

OfferSeen ==
  /\ pc = "offer" /\ dhcp_msg = "OFFER"
  /\ dhcp_msg' = None /\ requests' = requests \cup {Request} /\ pc' = "ack"
  /\ UNCHANGED <<link, info, offer_ip, attempt, phase, joins, refused, replies,
                 leased>>

OfferTimeout ==
  /\ pc = "offer" /\ dhcp_msg # "OFFER"
  /\ Retry
  /\ UNCHANGED <<link, info, offer_ip, joins, refused, replies, leased>>

AckSeen ==
  /\ pc = "ack" /\ dhcp_msg = "ACK"
  /\ pc' = "idle" /\ phase' = "up"
  /\ UNCHANGED <<link, info, offer_ip, dhcp_msg, attempt, joins, refused,
                 requests, replies, leased>>

AckTimeout ==
  /\ pc = "ack" /\ dhcp_msg # "ACK"
  /\ Retry
  /\ UNCHANGED <<link, info, offer_ip, joins, refused, replies, leased>>

-----------------------------------------------------------------------------
(* Callbacks of the radio, run inside cyw43_arch_poll.                      *)

Polling == pc # "idle" \/ phase = "up"

LinkUp == /\ Polling /\ link' = TRUE
          /\ UNCHANGED <<info, offer_ip, dhcp_msg, pc, attempt, phase, joins,
                         refused, requests, replies, leased>>
LinkDown == /\ Polling /\ link' = FALSE
            /\ UNCHANGED <<info, offer_ip, dhcp_msg, pc, attempt, phase, joins,
                           refused, requests, replies, leased>>

\* The address is taken from an ACK, every other option from any reply that
\* has it; a NAK has only the server's own address.
IpAfter_FromOffer(r) == IF r.type # "NAK" THEN Address[r.server] ELSE info.ip
IpAfter_KeepFirst(r) ==
  IF r.type = "ACK" /\ info.ip = None THEN Address[r.server] ELSE info.ip
IpAfter(r) == IF r.type = "ACK" THEN Address[r.server] ELSE info.ip
GatewayAfter(r) ==
  IF r.type # "NAK" /\ Router[r.server] # None THEN Router[r.server]
  ELSE info.gateway
OfferAfter_KeepFirst(r) ==
  IF r.type # "NAK" /\ offer_ip = None THEN Address[r.server] ELSE offer_ip
OfferAfter(r) == IF r.type # "NAK" THEN Address[r.server] ELSE offer_ip

parse_dhcp(r) ==
  /\ Polling /\ r \in replies
  /\ info' = [ip |-> IpAfter(r),
              mask |-> IF r.type # "NAK" THEN r.server ELSE info.mask,
              gateway |-> GatewayAfter(r),
              dns |-> IF r.type # "NAK" THEN r.server ELSE info.dns,
              dhcp_server |-> r.server]
  /\ offer_ip' = OfferAfter(r)
  /\ dhcp_msg' = IF r.type # "NAK" THEN r.type ELSE dhcp_msg
  /\ refused' = (r.type = "NAK")
  /\ UNCHANGED <<link, pc, attempt, phase, joins, requests, replies, leased>>

-----------------------------------------------------------------------------
(* The servers, outside the repository: an acknowledgement is given only to *)
(* the request that names the server and its address.                       *)

Offers(s) ==
  /\ Discover \in requests
  /\ replies' = replies \cup {Reply("OFFER", s)}
  /\ UNCHANGED <<client, requests, leased>>

Acknowledges(s) ==
  /\ [type |-> "REQUEST", ip |-> Address[s], server |-> s] \in requests
  /\ replies' = replies \cup {Reply("ACK", s)}
  /\ leased' = leased \cup {s}
  /\ UNCHANGED <<client, requests>>

Refuses(s) ==
  /\ \E q \in requests : q.type = "REQUEST" /\ q.server = s
  /\ s \notin leased
  /\ replies' = replies \cup {Reply("NAK", s)}
  /\ UNCHANGED <<client, requests, leased>>

-----------------------------------------------------------------------------
Waits == \/ JoinFails \/ Joined
         \/ OfferSeen \/ OfferTimeout \/ AckSeen \/ AckTimeout
DhcpNext == \/ JoinStart \/ Waits \/ LinkUp \/ LinkDown
            \/ \E r \in replies : parse_dhcp(r)
            \/ \E s \in Servers : Offers(s) \/ Acknowledges(s) \/ Refuses(s)

DhcpSpec == DhcpInit /\ [][DhcpNext]_dhcpVars
\* The thread runs and time passes: a wait loop is left sooner or later.
DhcpFairSpec == DhcpSpec /\ WF_dhcpVars(Waits)

-----------------------------------------------------------------------------
(* Properties                                                               *)

Addresses == {Address[s] : s \in Servers}
DhcpTypeOK ==
  /\ link \in BOOLEAN /\ refused \in BOOLEAN
  /\ info \in [ip : Addresses \cup {None}, mask : Servers \cup {None},
               gateway : {Router[s] : s \in Servers} \cup {None},
               dns : Servers \cup {None}, dhcp_server : Servers \cup {None}]
  /\ offer_ip \in Addresses \cup {None}
  /\ dhcp_msg \in {"OFFER", "ACK", None}
  /\ pc \in {"idle", "join", "offer", "ack"}
  /\ attempt \in 0 .. Attempts /\ joins \in 0 .. Joins
  /\ phase \in {"down", "up", "failed"}
  /\ requests \subseteq [type : {"DISCOVER", "REQUEST"},
                         ip : Addresses \cup {None}, server : Servers \cup {None}]
  /\ replies \subseteq [type : Types, server : Servers]
  /\ leased \subseteq Servers

\* The address in use was granted: whatever replies to earlier messages, to
\* earlier joins or from other servers come in, and in which order, the
\* client never takes an address that a server has merely offered.
LeasedAddress ==
  /\ info.ip # None => \E s \in leased : info.ip = Address[s]
  /\ phase = "up" => info.ip # None

\* Unless a refusal has just come in, a REQUEST asks a server for the address
\* that this server offered: g_offer_ip and g_info.dhcp_server come from one
\* reply even when several servers answer between two looks at g_dhcp_msg, or
\* answer a message of an earlier attempt or join.
RequestMatches == refused \/ \E s \in Servers :
                               /\ Request.ip = Address[s]
                               /\ Request.server = s
                               /\ Reply("OFFER", s) \in replies
RequestsWhatWasOffered == [][OfferSeen => RequestMatches]_dhcpVars

\* What a join hands to its caller is one server's configuration: address,
\* mask and name server come from one acknowledgement, although each reply
\* handled before it has overwritten them, and so does the router if that
\* server names one.
ConfigOf(s) == /\ info.ip = Address[s] /\ info.mask = s /\ info.dns = s
               /\ Router[s] # None => info.gateway = Router[s]
               /\ ~refused => info.dhcp_server = s
OneConfiguration == \E s \in leased : ConfigOf(s)
JoinsWithOneConfiguration == [][AckSeen => OneConfiguration]_dhcpVars

\* Joining ends, with or without an address.
JoinReturns == pc # "idle" ~> pc = "idle"
=============================================================================

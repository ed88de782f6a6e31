----------------------------- MODULE PicowNet ------------------------------
(***************************************************************************)
(* Finding the next hop: picow_net_arp_resolve, the next-hop cache of      *)
(* picow_net_send_udp and the resolving part of picow_tcp_connect, in a    *)
(* client that goes on handling DHCP replies while it waits for ARP.       *)
(*                                                                         *)
(* picow_net_next_hop_for returns a pointer, to the destination or to      *)
(* g_info.gateway itself.  The callers keep the pointer across the wait,   *)
(* so what it points at may change under them: `call.via' says that it     *)
(* points at the gateway, and Hop is what it points at now.                *)
(*                                                                         *)
(* The hardware address of a host is written as the host's IP address.     *)
(***************************************************************************)
EXTENDS PicowDhcp

CONSTANTS
  Dests,        \* addresses the programs send to
  Local,        \* those of them on the subnet of every mask in use
  Tries         \* ARP requests before arp_resolve gives up

ASSUME NetAssumption ==
  None \notin Dests /\ Local \subseteq Dests /\ Tries \in Nat \ {0}

VARIABLES
  arp_target, arp_mac, arp_ready,   \* g_arp_target, g_arp_mac, g_arp_ready
  cache,        \* g_udp_cache_valid, g_udp_cache_ip, g_udp_cache_mac
  call,         \* the send_udp or connect that waits for ARP, or NoCall
  asked,        \* ARP requests on the network: the addresses asked for
  answers,      \* ARP replies on the network: the hosts that answered
  out,          \* last unicast frame: next hop chosen, hardware address used
  moved         \* since the join, the gateway changed while it was resolved

arpVars == <<arp_target, arp_mac, arp_ready, cache, call, asked, answers, out,
             moved>>
netVars == <<dhcpVars, arpVars>>

NoCall == [kind |-> "none", dst |-> None, via |-> FALSE, hop |-> None,
           tries |-> 0]
NoFrame == [hop |-> None, mac |-> None]
NoCache == [valid |-> FALSE, ip |-> None, mac |-> None]

\* A zero mask puts every address on the subnet.
same_subnet(dst) == info.mask = None \/ dst \in Local
ViaGateway(dst) == info.gateway # None /\ ~same_subnet(dst)
HopFor(via, dst) == IF via THEN info.gateway ELSE dst
\* What the pointer held by the waiting call points at.
Hop == HopFor(call.via, call.dst)

NetInit ==
  /\ DhcpInit
  /\ arp_target = None /\ arp_mac = None /\ arp_ready = FALSE
  /\ cache = NoCache /\ call = NoCall /\ asked = {} /\ answers = {}
  /\ out = NoFrame /\ moved = FALSE

-----------------------------------------------------------------------------
(* picow_net_send_udp and picow_tcp_connect, up to the unicast frame        *)

Idle == pc = "idle" /\ phase = "up" /\ call.kind = "none"

\* Only send_udp has a cache, of one entry.
Cached_AnyHop(kind, hop) == kind = "udp" /\ cache.valid
Cached(kind, hop) == kind = "udp" /\ cache.valid /\ cache.ip = hop

SendCached(dst) ==
  LET hop == HopFor(ViaGateway(dst), dst)
  IN  /\ Idle /\ Cached("udp", hop)
      /\ out' = [hop |-> hop, mac |-> cache.mac]
      /\ UNCHANGED <<dhcpVars, arp_target, arp_mac, arp_ready, cache, call,
                     asked, answers, moved>>

ResolveStart(kind, dst) ==
  LET hop == HopFor(ViaGateway(dst), dst)
  IN  /\ Idle /\ ~Cached(kind, hop)
      /\ arp_target' = hop /\ arp_ready' = FALSE
      /\ asked' = asked \cup {hop}
      /\ call' = [kind |-> kind, dst |-> dst, via |-> ViaGateway(dst),
                  hop |-> hop, tries |-> 1]
      /\ UNCHANGED <<dhcpVars, arp_mac, cache, answers, out, moved>>

\* 500 ms without an answer: ask again, through the pointer, or give up.
ResolveRetry ==
  /\ call.kind # "none" /\ ~arp_ready
  /\ \/ call.tries < Tries /\ call' = [call EXCEPT !.tries = @ + 1]
        /\ asked' = asked \cup {Hop}
     \/ call.tries = Tries /\ call' = NoCall /\ asked' = asked
  /\ UNCHANGED <<dhcpVars, arp_target, arp_mac, arp_ready, cache, answers, out,
                 moved>>

\* send_udp reads the pointer again for its cache; connect keeps the address.
Resolved ==
  /\ call.kind # "none" /\ arp_ready
  /\ out' = [hop |-> call.hop, mac |-> arp_mac]
  /\ cache' = IF call.kind = "udp"
              THEN [valid |-> TRUE, ip |-> Hop, mac |-> arp_mac] ELSE cache
  /\ call' = NoCall
  /\ UNCHANGED <<dhcpVars, arp_target, arp_mac, arp_ready, asked, answers, moved>>

-----------------------------------------------------------------------------
(* Frames handled in a poll, and the hosts of the network.                  *)

ForTarget_Any(h) == TRUE
ForTarget(h) == h = arp_target
parse_arp(h) ==
  /\ Polling /\ h \in answers
  /\ IF ForTarget(h) THEN arp_mac' = h /\ arp_ready' = TRUE
     ELSE UNCHANGED <<arp_mac, arp_ready>>
  /\ UNCHANGED <<dhcpVars, arp_target, cache, call, asked, answers, out, moved>>

Answers(h) ==
  /\ h \in asked \ {None}
  /\ answers' = answers \cup {h}
  /\ UNCHANGED <<dhcpVars, arp_target, arp_mac, arp_ready, cache, call, asked,
                 out, moved>>

\* The actions of PicowDhcp.  A join is started by the program, when no call is
\* in progress, and empties the cache.
NetJoin ==
  /\ JoinStart /\ call.kind = "none"
  /\ cache' = [cache EXCEPT !.valid = FALSE]
  /\ out' = NoFrame /\ moved' = FALSE
  /\ UNCHANGED <<arp_target, arp_mac, arp_ready, call, asked, answers>>

Moves(r) == call.kind # "none" /\ call.via /\ GatewayAfter(r) # info.gateway
NetDhcpReply(r) ==
  /\ parse_dhcp(r)
  /\ moved' = (moved \/ Moves(r))
  /\ UNCHANGED <<arp_target, arp_mac, arp_ready, cache, call, asked, answers, out>>

NetDhcpOther ==
  /\ \/ Waits \/ LinkUp \/ LinkDown
     \/ \E s \in Servers : Offers(s) \/ Acknowledges(s) \/ Refuses(s)
  /\ UNCHANGED arpVars

-----------------------------------------------------------------------------
Hosts == Dests \cup {Router[s] : s \in Servers}
NetNext ==
  \/ NetJoin \/ NetDhcpOther \/ \E r \in replies : NetDhcpReply(r)
  \/ \E dst \in Dests : SendCached(dst)
  \/ \E kind \in {"udp", "tcp"}, dst \in Dests : ResolveStart(kind, dst)
  \/ ResolveRetry \/ Resolved
  \/ \E h \in Hosts : parse_arp(h) \/ Answers(h)

NetSpec == NetInit /\ [][NetNext]_netVars
\* The thread runs and time passes: the wait for ARP is left sooner or later.
NetFairSpec == NetSpec /\ WF_netVars(ResolveRetry \/ Resolved)

-----------------------------------------------------------------------------
(* Properties                                                               *)

NetTypeOK ==
  /\ DhcpTypeOK
  /\ arp_target \in Hosts \cup {None} /\ arp_mac \in Hosts \cup {None}
  /\ arp_ready \in BOOLEAN /\ moved \in BOOLEAN
  /\ cache \in [valid : BOOLEAN, ip : Hosts \cup {None}, mac : Hosts \cup {None}]
  /\ call \in [kind : {"none", "udp", "tcp"}, dst : Dests \cup {None},
               via : BOOLEAN, hop : Hosts \cup {None}, tries : 0 .. Tries]
  /\ out \in [hop : Hosts \cup {None}, mac : Hosts \cup {None}]
  /\ asked \subseteq Hosts \cup {None} /\ answers \subseteq Hosts

\* A datagram or a segment goes to the hardware address of its next hop, from
\* the cache or from an answer, however late, repeated or unasked the answers
\* are: unless, since the join, a DHCP reply replaced the gateway while that
\* gateway was being resolved.
RightHop == moved \/ out.mac = out.hop

\* With the same exception the cache pairs an address with its own hardware
\* address.  (The exception is real: the entry made after the wait has the new
\* gateway's address and the old one's hardware address.)
CacheHonest == cache.valid => moved \/ cache.mac = cache.ip

\* Sending ends, with or without an answer to the ARP requests.
SendReturns == call.kind # "none" ~> call.kind = "none"
=============================================================================

------------------------------- MODULE NetDiag -------------------------------
(***************************************************************************)
(* The network diagnostic: main of src/picocalc/sdk/picow_net_diag.c joins *)
(* a network, obtains an address, pings a host and asks a name server.     *)
(* Join and DHCP repeat the code of picow_net.c statement for statement,   *)
(* so they are PicowDhcp here, with four attempts; the program stops       *)
(* polling when one of them has failed.                                    *)
(*                                                                         *)
(* A hardware address is named by the IP address of its host.  Frames are  *)
(* growing sets: one is received at any poll, any number of times, or      *)
(* never.                                                                  *)
(***************************************************************************)
EXTENDS PicowDhcp

CONSTANTS
  PingHost,     \* PICOW_NET_PING_HOST, or None: then the gateway is pinged
  NameServer,   \* NameServer[s]: the name server that DHCP server s names
  Near,         \* addresses on the subnet of every mask in use
  Tries         \* ARP requests before arp_resolve gives up

DiagAssumption == DOMAIN NameServer = Servers /\ Tries \in Nat \ {0}

VARIABLES
  step,         \* "net" (join and DHCP), "ping", "dns", then "idle"; "off"
  wait,         \* within ping and dns: "arp" or "reply"; "none" before
  ping_ip,      \* the copy main makes
  dns_pointer,  \* what dns_ip points at: "gateway", "dns"
  hop_pointer,  \* what hop points at: "gateway", or "target" (ping_ip, dns_ip)
  arp_target, arp_mac, arp_ready, \* g_arp_target, g_arp_mac, g_arp_ready
  tries,        \* of arp_resolve
  ping_reply, dns_reply, \* g_ping_reply, g_dns_reply
  queries,      \* echo requests and DNS queries: [kind, to, mac]
  asked, heard, \* ARP requests and answers, and
  replied,      \* queries answered
  verdict,      \* what the screen says of ping and dns
  moved         \* a DHCP reply has changed gateway or name server in a wait for ARP

arp == <<arp_target, arp_mac, arp_ready, tries, hop_pointer, dns_pointer>>
frames == <<queries, asked, heard, replied>>
diagVars == <<dhcpVars, step, wait, ping_ip, arp, ping_reply, dns_reply, frames, verdict, moved>>

Dns == IF info.dns = None THEN None ELSE NameServer[info.dns]
DnsIp(pointer) == IF pointer = "gateway" THEN info.gateway ELSE Dns
To == IF step = "ping" THEN ping_ip ELSE DnsIp(dns_pointer)

same_subnet(ip) == info.mask = None \/ ip \in Near
next_hop_for(ip) == IF info.gateway # None /\ ~same_subnet(ip) THEN "gateway" ELSE "target"
Hop == IF hop_pointer = "gateway" THEN info.gateway ELSE To

DiagInit ==
  /\ DhcpInit
  /\ step = "net" /\ wait = "none" /\ ping_ip = None
  /\ dns_pointer = "dns" /\ hop_pointer = "target"
  /\ arp_target = None /\ arp_mac = None /\ arp_ready = FALSE /\ tries = 0
  /\ ping_reply = FALSE /\ dns_reply = FALSE
  /\ queries = {} /\ asked = {} /\ heard = {} /\ replied = {}
  /\ verdict = [ping |-> "none", dns |-> "none"] /\ moved = FALSE

-----------------------------------------------------------------------------
(* cyw43_wifi_join, wait_for_join and dhcp_obtain                           *)

Obtains ==
  /\ step = "net" /\ (JoinStart \/ Waits)
  /\ IF phase' = "failed" /\ phase # "failed" THEN step' = "off"
     ELSE IF phase' = "up" /\ phase # "up" THEN step' = "ping"
     ELSE UNCHANGED step
  /\ ping_ip' = IF step' # "ping" THEN ping_ip
                ELSE IF PingHost # None THEN PingHost ELSE info.gateway
  /\ UNCHANGED <<wait, arp, ping_reply, dns_reply, frames, verdict, moved>>

-----------------------------------------------------------------------------
(* ping_host and dns_query                                                  *)

arp_resolve(hop) ==
  /\ arp_target' = hop /\ arp_ready' = FALSE /\ tries' = 1
  /\ asked' = asked \cup {hop} /\ wait' = "arp"
  /\ UNCHANGED <<arp_mac, queries, heard, replied>>

ping_host ==
  /\ step = "ping" /\ wait = "none"
  /\ hop_pointer' = next_hop_for(ping_ip)
  /\ arp_resolve(IF hop_pointer' = "gateway" THEN info.gateway ELSE ping_ip)
  /\ UNCHANGED <<dhcpVars, step, ping_ip, dns_pointer, ping_reply, dns_reply, verdict, moved>>

dns_query ==
  /\ step = "dns" /\ wait = "none"
  /\ dns_pointer' = IF Dns = None THEN "gateway" ELSE "dns"
  /\ LET ip == DnsIp(dns_pointer')
     IN /\ hop_pointer' = next_hop_for(ip)
        /\ IF ip = None
           THEN /\ step' = "idle" /\ verdict' = [verdict EXCEPT !.dns = "failed"]
                /\ UNCHANGED <<arp_target, arp_mac, arp_ready, tries, wait, frames>>
           ELSE /\ arp_resolve(IF hop_pointer' = "gateway" THEN info.gateway ELSE ip)
                /\ UNCHANGED <<step, verdict>>
  /\ UNCHANGED <<dhcpVars, ping_ip, ping_reply, dns_reply, moved>>

Concludes(result) ==
  /\ verdict' = [verdict EXCEPT ![step] = result]
  /\ step' = IF step = "ping" THEN "dns" ELSE "idle"
  /\ wait' = "none"

\* half a second without an answer: the next request, through the pointer
ArpTimeout ==
  /\ wait = "arp" /\ ~arp_ready
  /\ IF tries < Tries
     THEN tries' = tries + 1 /\ asked' = asked \cup {Hop} /\ UNCHANGED <<step, wait, verdict>>
     ELSE Concludes("failed") /\ UNCHANGED <<tries, asked>>
ArpRetry ==
  /\ ArpTimeout
  /\ UNCHANGED <<dhcpVars, ping_ip, dns_pointer, hop_pointer, arp_target, arp_mac, arp_ready,
                 ping_reply, dns_reply, queries, heard, replied, moved>>

\* send_icmp_echo or send_dns_query, whose address is read again here
Resolved ==
  /\ wait = "arp" /\ arp_ready
  /\ wait' = "reply"
  /\ queries' = queries \cup {[kind |-> step, to |-> To, mac |-> arp_mac]}
  /\ ping_reply' = (step # "ping" /\ ping_reply)
  /\ dns_reply' = (step # "dns" /\ dns_reply)
  /\ UNCHANGED <<dhcpVars, step, ping_ip, arp, asked, heard, replied, verdict, moved>>

Reply_Expected == IF step = "ping" THEN ping_reply ELSE dns_reply
ReplySeen ==
  /\ wait = "reply" /\ Reply_Expected /\ Concludes("reply")
  /\ UNCHANGED <<dhcpVars, ping_ip, arp, ping_reply, dns_reply, frames, moved>>
ReplyTimeout ==
  /\ wait = "reply" /\ ~Reply_Expected /\ Concludes("failed")
  /\ UNCHANGED <<dhcpVars, ping_ip, arp, ping_reply, dns_reply, frames, moved>>

\* q: the radio is switched off
Quit ==
  /\ step = "idle" /\ step' = "off"
  /\ UNCHANGED <<dhcpVars, wait, ping_ip, arp, ping_reply, dns_reply, frames, verdict, moved>>

-----------------------------------------------------------------------------
(* Frames handled in a poll                                                 *)

Polled == step # "off"

DhcpFrame(r) ==
  /\ Polled /\ parse_dhcp(r)
  /\ moved' = (moved \/ (wait = "arp" /\ (GatewayAfter(r) # info.gateway \/ info'.dns # info.dns)))
  /\ UNCHANGED <<step, wait, ping_ip, arp, ping_reply, dns_reply, frames, verdict>>

ForTarget_Any(host) == TRUE
ForTarget(host) == host = arp_target
parse_arp(host) ==
  /\ Polled /\ host \in heard
  /\ IF ForTarget(host) THEN arp_mac' = host /\ arp_ready' = TRUE
     ELSE UNCHANGED <<arp_mac, arp_ready>>
  /\ UNCHANGED <<dhcpVars, step, wait, ping_ip, arp_target, tries, hop_pointer, dns_pointer,
                 ping_reply, dns_reply, frames, verdict, moved>>

\* an echo reply, whoever sends it; or an answer of a name server
parse_ipv4_frame(query) ==
  /\ Polled /\ query \in replied
  /\ ping_reply' = (query.kind = "ping" \/ ping_reply)
  /\ dns_reply' = (query.kind = "dns" \/ dns_reply)
  /\ UNCHANGED <<dhcpVars, step, wait, ping_ip, arp, frames, verdict, moved>>

\* The network.  A query reaches its host directly or through a router.
Hosts == {PingHost} \cup {Router[s] : s \in Servers} \cup {NameServer[s] : s \in Servers}
HostAnswers(host) ==
  /\ host \in asked \ {None} /\ heard' = heard \cup {host}
  /\ UNCHANGED <<dhcpVars, step, wait, ping_ip, arp, ping_reply, dns_reply,
                 queries, asked, replied, verdict, moved>>
QueryAnswered(query) ==
  /\ query.mac = query.to \/ \E s \in Servers : query.mac = Router[s]
  /\ replied' = replied \cup {query}
  /\ UNCHANGED <<dhcpVars, step, wait, ping_ip, arp, ping_reply, dns_reply,
                 queries, asked, heard, verdict, moved>>

DhcpWorld ==
  /\ \/ Polled /\ (LinkUp \/ LinkDown)
     \/ \E s \in Servers : Offers(s) \/ Acknowledges(s) \/ Refuses(s)
  /\ UNCHANGED <<step, wait, ping_ip, arp, ping_reply, dns_reply, frames, verdict, moved>>

Main == Obtains \/ ping_host \/ dns_query \/ ArpRetry \/ Resolved \/ ReplySeen \/ ReplyTimeout
DiagNext ==
  \/ Main \/ Quit
  \/ \E r \in replies : DhcpFrame(r)
  \/ \E host \in Hosts : parse_arp(host) \/ HostAnswers(host)
  \/ \E query \in queries : parse_ipv4_frame(query) \/ QueryAnswered(query)
  \/ DhcpWorld
DiagSpec == DiagInit /\ [][DiagNext]_diagVars
\* The program runs and time passes: a wait loop is left sooner or later.
DiagFairSpec == DiagSpec /\ WF_diagVars(Main)

-----------------------------------------------------------------------------
(* Properties                                                               *)

\* The echo request goes to the ping host and the DNS query to a name server,
\* each under the hardware address of its next hop, however late and repeated
\* the answers to either ARP request are: unless a DHCP reply has changed the
\* gateway or the name server that ping_host and dns_query point at meanwhile.
\* A reply on the screen is an answer to the query sent.
QueriesGoRight ==
  /\ \A query \in queries :
       \/ moved
       \/ /\ query.mac \in {query.to} \cup {Router[s] : s \in Servers}
          /\ query.to \in Near => query.mac = query.to
  /\ \A kind \in {"ping", "dns"} :
       verdict[kind] = "reply" => \E query \in replied : query.kind = kind

\* The program comes to a result, and then waits for q only: with a host, a name
\* server or a DHCP server that is silent too.
Concluded == <>(step \in {"idle", "off"})
=============================================================================

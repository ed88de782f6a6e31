------------------------------ MODULE WifiDiag ------------------------------
(***************************************************************************)
(* The scan diagnostic: src/picocalc/sdk/picow_wifi_diag.c with the radio, *)
(* whose scan results come in callbacks inside any cyw43_arch_poll, also   *)
(* after the scan was declared finished by its deadline.                   *)
(*                                                                         *)
(* The screen is what draw_scan_list has drawn last (list), the address    *)
(* draw_bssid has drawn last is left out with the texts.                   *)
(***************************************************************************)
EXTENDS Integers, Sequences, SequencesExt, FiniteSetsExt

CONSTANTS
  Networks,     \* access points in reach, named by their BSSID
  Open,         \* those without encryption
  Hidden,       \* those that do not tell their name (ssid_len = 0)
  MAX_APS

WifiAssumption ==
  Open \subseteq Networks /\ Hidden \subseteq Networks /\ MAX_APS \in Nat \ {0}

VARIABLES
  aps,          \* g_aps, the first g_ap_count entries: BSSIDs
  selected,     \* g_selected, from 0
  open_count,   \* g_open_count
  list,         \* the list on the screen, with its counts and the mark
  scanning,     \* cyw43_wifi_scan_active
  at,           \* "main", "scan" (start_scan), "connect", "off"
  target,       \* what ap points at in connect_selected_open: an index
  joined,       \* history: what cyw43_wifi_join was last asked for, as a set
  chosen        \* history: what was marked on the screen when Enter was read

radio == <<scanning, joined, chosen>>
wifiVars == <<aps, selected, open_count, list, at, target, radio>>

draw_scan_list(entries, opens, mark) == [entries |-> entries, open |-> opens, mark |-> mark]
Entry(index) == aps[index + 1]

WifiInit ==
  /\ aps = <<>> /\ selected = 0 /\ open_count = 0
  /\ list = draw_scan_list(<<>>, 0, 0)
  /\ scanning = FALSE /\ at = "main" /\ target = 0 /\ joined = {} /\ chosen = {}

-----------------------------------------------------------------------------
(* A poll: the next result, or the end of the scan                          *)

Known(bssid) == Contains(aps, bssid)
Listed(bssid) == bssid \notin Hidden /\ ~Known(bssid) /\ Len(aps) < MAX_APS

scan_result(bssid) ==
  /\ scanning
  /\ IF Listed(bssid)
     THEN /\ aps' = Append(aps, bssid)
          /\ open_count' = IF bssid \in Open THEN open_count + 1 ELSE open_count
          /\ list' = draw_scan_list(aps', open_count', selected)
     ELSE UNCHANGED <<aps, open_count, list>>
  /\ UNCHANGED <<selected, at, target, radio>>

ScanEnds ==
  /\ scanning /\ scanning' = FALSE
  /\ UNCHANGED <<aps, selected, open_count, list, at, target, joined, chosen>>

-----------------------------------------------------------------------------
(* start_scan, at the start and for the key r                               *)

ClearTable_KeepsMark ==
  /\ aps' = <<>> /\ open_count' = 0 /\ selected' = selected
  /\ list' = draw_scan_list(<<>>, 0, selected)
ClearTable ==
  /\ aps' = <<>> /\ open_count' = 0 /\ selected' = 0
  /\ list' = draw_scan_list(<<>>, 0, 0)

start_scan ==
  /\ at = "main" /\ ClearTable
  /\ \/ at' = "scan" /\ scanning' = TRUE
     \/ UNCHANGED <<at, scanning>>          \* cyw43_wifi_scan has failed
  /\ UNCHANGED <<target, joined, chosen>>

\* the scan has ended, or twelve seconds have passed
ScanReturns ==
  /\ at = "scan" /\ at' = "main"
  /\ list' = draw_scan_list(aps, open_count, selected)
  /\ UNCHANGED <<aps, selected, open_count, target, radio>>

-----------------------------------------------------------------------------
(* connect_selected_open: the table entry is pointed at during the wait     *)

connect_selected_open ==
  /\ at = "main" /\ aps # <<>>
  /\ chosen' = {list.entries[list.mark + 1]}
  /\ IF Entry(selected) \in Open
     THEN at' = "connect" /\ target' = selected /\ joined' = {Entry(selected)}
     ELSE joined' = {} /\ UNCHANGED <<at, target>>
  /\ UNCHANGED <<aps, selected, open_count, list, scanning>>

\* the link has come up or failed, or fifteen seconds have passed
ConnectReturns ==
  /\ at = "connect" /\ at' = "main"
  /\ UNCHANGED <<aps, selected, open_count, list, target, radio>>

move_selection(delta) ==
  /\ at = "main" /\ aps # <<>>
  /\ selected' = (IF selected + delta < 0 THEN Len(aps) - 1
                  ELSE IF selected + delta >= Len(aps) THEN 0 ELSE selected + delta)
  /\ list' = draw_scan_list(aps, open_count, selected')
  /\ UNCHANGED <<aps, open_count, at, target, radio>>

\* the key q: the radio is switched off
Quit ==
  /\ at = "main" /\ at' = "off" /\ scanning' = FALSE
  /\ UNCHANGED <<aps, selected, open_count, list, target, joined, chosen>>

WifiNext ==
  \/ \E bssid \in Networks : scan_result(bssid)
  \/ ScanEnds
  \/ start_scan \/ ScanReturns
  \/ connect_selected_open \/ ConnectReturns
  \/ \E delta \in {-1, 1} : move_selection(delta)
  \/ Quit
WifiSpec == WifiInit /\ [][WifiNext]_wifiVars

-----------------------------------------------------------------------------
(* Properties                                                               *)

\* At any poll the screen shows the table: every network once, the count of
\* open ones, and the mark on an entry that exists as soon as there is one.
\* While the program connects, the entry it points at is still the one it asked
\* the radio for.  Of scan_result, which may run at any poll, against the rest.
TableShown ==
  /\ list = draw_scan_list(aps, open_count, selected)
  /\ IsInjective(aps) /\ ToSet(aps) \cap Hidden = {}
  /\ open_count = Cardinality(ToSet(aps) \cap Open)
  /\ selected < Len(aps) \/ selected = 0
  /\ at = "connect" => {Entry(target)} = joined

\* "Only open APs are attempted" (picow_wifi_diag.c:129), and only the one that
\* was marked on the screen when Enter was read.
AttemptsMarked == joined \subseteq chosen \cap Open
=============================================================================

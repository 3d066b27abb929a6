---------------------------- MODULE CompareLists ----------------------------
(***************************************************************************)
(* The result of a comparison: what the server says of the two captures    *)
(* (backend/routers/compare.py and pcap_comparator.py) and what the panel  *)
(* makes of the two lists of sessions it is sent, which are cut at         *)
(* MaxSessions (frontend/src/panels/ComparePanel.tsx).                     *)
(*                                                                         *)
(* Addresses are numbers, in the order of their spelling; the lists are in *)
(* the order of their start, and what is filtered keeps its place.         *)
(***************************************************************************)
EXTENDS Integers, Sequences, FiniteSets, SequencesExt

CONSTANT MaxSessions

Serve(sessions) == SubSeq(sessions, 1, IF Len(sessions) < MaxSessions THEN Len(sessions) ELSE MaxSessions)

Ips(sessions)   == UNION {{s.src_ip, s.dst_ip} : s \in ToSet(sessions)}
Ports(sessions) == {s.dst_port : s \in ToSet(sessions)}

ProtocolCount(sessions, p) == Cardinality({i \in DOMAIN sessions : sessions[i].protocol = p})

ProtocolDiff(base, current) ==
  [p \in {s.protocol : s \in ToSet(base) \cup ToSet(current)} |->
     [a |-> ProtocolCount(base, p), b |-> ProtocolCount(current, p)]]

Bytes(s) == s.bytes_sent + s.bytes_recv

Traffic(sessions) == SumFunction([i \in DOMAIN sessions |-> Bytes(sessions[i])])

(* The addresses and counts are of the whole captures; only the lists of
   sessions are cut. *)
Compared(base, current) ==
  [new_ips               |-> Ips(current) \ Ips(base),
   removed_ips           |-> Ips(base) \ Ips(current),
   common_ips            |-> Ips(base) \cap Ips(current),
   new_ports             |-> Ports(current) \ Ports(base),
   protocol_diff         |-> ProtocolDiff(base, current),
   byte_ratio            |-> [a_total |-> Traffic(base), b_total |-> Traffic(current)],
   base_sessions         |-> Serve(base),
   compare_sessions      |-> Serve(current),
   base_session_total    |-> Len(base),
   compare_session_total |-> Len(current)]

(* sessionKey, had it been made of the ports alone. *)
PortKey(s) == <<s.dst_port, s.protocol>>

sessionKey(s) ==
  <<IF s.src_ip < s.dst_ip THEN <<s.src_ip, s.dst_ip>> ELSE <<s.dst_ip, s.src_ip>>,
    s.dst_port, s.protocol>>

Keys(sessions) == {sessionKey(s) : s \in ToSet(sessions)}

(* The badge of a session in the left column, and in the right one. *)
BaseStatus(result, s) ==
  IF sessionKey(s) \in Keys(result.compare_sessions) THEN "common" ELSE "removed"

CompareStatus(result, s) ==
  IF sessionKey(s) \in Keys(result.base_sessions) THEN "common" ELSE "new"

SessionFilters == {"all", "new", "removed", "common"}

FilteredBase(result, filter) ==
  RestrictValues(result.base_sessions, LAMBDA s : filter \in {"all", BaseStatus(result, s)})

FilteredCompare(result, filter) ==
  RestrictValues(result.compare_sessions, LAMBDA s : filter \in {"all", CompareStatus(result, s)})

(* The sessions in the box behind each count. *)
NewIpSessions(result) ==
  RestrictValues(result.compare_sessions, LAMBDA s : {s.src_ip, s.dst_ip} \cap result.new_ips # {})

RemovedIpSessions(result) ==
  RestrictValues(result.base_sessions, LAMBDA s : {s.src_ip, s.dst_ip} \cap result.removed_ips # {})

NewPortSessions(result) ==
  RestrictValues(result.compare_sessions, LAMBDA s : s.dst_port \in result.new_ports)

(* The columns under a filter, each with its count, and the notice below
   them when they are not everything. *)
Columns(result, filter) ==
  LET base    == FilteredBase(result, filter)
      compare == FilteredCompare(result, filter)
  IN [base    |-> base,    baseCount    |-> Cardinality(DOMAIN base),
      compare |-> compare, compareCount |-> Cardinality(DOMAIN compare)]

Truncated(result) ==
  result.base_session_total > MaxSessions \/ result.compare_session_total > MaxSessions

(* A row of a column, and what a click on it opens. *)
SessionRow(s, status) ==
  [badge  |-> status,
   pair   |-> <<s.src_ip, s.src_port, s.dst_ip, s.dst_port>>,
   bytes  |-> Bytes(s),
   detail |-> [packets |-> s.packet_count, sent |-> s.bytes_sent, received |-> s.bytes_recv]]

BaseRows(result, filter) ==
  LET list == FilteredBase(result, filter)
  IN [k \in DOMAIN list |-> SessionRow(list[k], BaseStatus(result, list[k]))]

CompareRows(result, filter) ==
  LET list == FilteredCompare(result, filter)
  IN [k \in DOMAIN list |-> SessionRow(list[k], CompareStatus(result, list[k]))]

(* The numbers above the tabs. *)
Metrics(result) ==
  [base |-> result.byte_ratio.a_total, compare |-> result.byte_ratio.b_total,
   newIps |-> Cardinality(result.new_ips), removedIps |-> Cardinality(result.removed_ips),
   newPorts |-> Cardinality(result.new_ports)]

(* The cards of the address tab; a card that is not empty offers its box,
   when it has one. *)
IpCards(result) ==
  [new     |-> [ips |-> result.new_ips,     box |-> NewIpSessions(result)],
   removed |-> [ips |-> result.removed_ips, box |-> RemovedIpSessions(result)],
   common  |-> [ips |-> result.common_ips,  box |-> <<>>]]

ClickableIpList(card, hasBox) == [ips |-> card.ips, opens |-> hasBox /\ card.ips # {}]

(* The rows of the protocol tab. *)
ProtocolTable(result) ==
  LET row(diff) == [base |-> diff.a, compare |-> diff.b, delta |-> diff.b - diff.a]
  IN [p \in DOMAIN result.protocol_diff |-> row(result.protocol_diff[p])]
=============================================================================

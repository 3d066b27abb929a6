----------------------------- MODULE PcapImport -----------------------------
(***************************************************************************)
(* POST /api/upload of a pcap or pcapng file: PcapParser reads the file    *)
(* with dpkt, starts over with scapy if dpkt fails and with its own struct *)
(* parser if scapy fails too (backend/services/parser/pcap_parser.py); the *)
(* flows become sessions, are normalised, and are stored if there are any  *)
(* (backend/routers/upload.py).  A step reads one packet.                  *)
(*                                                                         *)
(* A file is the sequence of its complete packets.  What dpkt and scapy    *)
(* make of them is theirs: any of the three parsers may fail on any packet *)
(* and goes on with the next one; dpkt may fail as a whole at any packet,  *)
(* scapy only before the first, since it loads the file in one go.         *)
(***************************************************************************)
EXTENDS Normalizer

CONSTANTS
  Hosts,        (* addresses                                               *)
  Files,        (* files that may be uploaded: sequences of packets        *)
  MaxFlows,     (* _MAX_FLOW_COUNT                                         *)
  MaxPackets,   (* _MAX_PKTS_PER_FLOW                                      *)
  MaxWarnings   (* _MAX_PARSE_WARNINGS                                     *)

Endpoints == [host : Hosts, port : Nat]

(* protocol is "other" for what the parsers skip; icmp_error marks an ICMP
   message of type 3 or 11 that embeds an IP header. *)
Packets ==
  [ src : Endpoints, dst : Endpoints, protocol : {"TCP", "UDP", "ICMP", "other"},
    ts : Nat, length : Nat, rst : BOOLEAN, icmp_error : BOOLEAN ]

ASSUME PcapAssumption ==
  /\ Files \subseteq Seq(Packets)
  /\ MaxFlows \in Nat \ {0}
  /\ MaxPackets \in Nat \ {0}
  /\ MaxWarnings \in Nat

VARIABLES
  file,          (* the packets of the uploaded file                       *)
  format,        (* "pcap", "pcapng" or "short": no global header          *)
  stage,         (* the parser at work, or how the upload ended            *)
  pos,           (* packets of the file that the parser has read           *)
  flow_map,
  pkt_map,
  icmp_events,   (* the packets, as positions in file, of _icmp_events     *)
  warnings,      (* length of parse_warnings                               *)
  capture,       (* the sessions stored                                    *)
  decoded        (* a record, not in the code: packets the parser decoded  *)

tables == <<flow_map, pkt_map>>
vars == <<file, format, stage, pos, tables, icmp_events, warnings, capture, decoded>>

Parsers == {"dpkt", "scapy", "struct"}

TypeOK ==
  /\ file \in Files
  /\ format \in {"pcap", "pcapng", "short"}
  /\ stage \in Parsers \cup {"received", "stored", "rejected"}
  /\ pos \in 0 .. Len(file)
  /\ icmp_events \in Seq(DOMAIN file)
  /\ warnings \in 0 .. MaxWarnings + 3
  /\ decoded \in SUBSET (1 .. pos)

Init ==
  /\ file \in Files
  /\ format \in {"pcap", "pcapng", "short"}
  /\ stage = "received"
  /\ pos = 0
  /\ flow_map = <<>>
  /\ pkt_map = <<>>
  /\ icmp_events = <<>>
  /\ warnings = 0
  /\ capture = {}
  /\ decoded = {}

-----------------------------------------------------------------------------
(* The flow table.                                                         *)

Key(p)      == [src |-> p.src, dst |-> p.dst, protocol |-> p.protocol]
Opposite(k) == [src |-> k.dst, dst |-> k.src, protocol |-> k.protocol]

(* The key under which p is counted: its own, the one of the opposite
   direction if only that is there, and its own for the first of a flow. *)
OneWay(table, p) == Key(p)
Canonical(table, p) ==
  IF Key(p) \in DOMAIN table \/ Opposite(Key(p)) \notin DOMAIN table
  THEN Key(p) ELSE Opposite(Key(p))

Direction(table, p) == IF Canonical(table, p) = Key(p) THEN "fwd" ELSE "rev"

OneTooFew(table, p) ==
  Canonical(table, p) \in DOMAIN table \/ Cardinality(DOMAIN table) + 1 < MaxFlows
CutOff(table, p) == Cardinality(DOMAIN table) < MaxFlows
Admitted(table, p) ==
  Canonical(table, p) \in DOMAIN table \/ Cardinality(DOMAIN table) < MaxFlows

NewFlow(p) ==
  [ start_ts |-> p.ts, end_ts |-> p.ts, bytes_sent |-> p.length, bytes_recv |-> 0,
    packet_count |-> 1, rst |-> p.rst ]

AddedTo(f, p, direction) ==
  [ start_ts     |-> f.start_ts,
    end_ts       |-> IF p.ts > f.end_ts THEN p.ts ELSE f.end_ts,
    bytes_sent   |-> f.bytes_sent + (IF direction = "fwd" THEN p.length ELSE 0),
    bytes_recv   |-> f.bytes_recv + (IF direction = "rev" THEN p.length ELSE 0),
    packet_count |-> f.packet_count + 1,
    rst          |-> f.rst \/ p.rst ]

(* table with key k bound to value. *)
Bind(table, k, value) ==
  [j \in DOMAIN table \cup {k} |-> IF j = k THEN value ELSE table[j]]

UpdateFlow(table, p) ==
  LET k == Canonical(table, p) IN
  Bind(table, k, IF k \in DOMAIN table THEN AddedTo(table[k], p, Direction(table, p))
                                       ELSE NewFlow(p))

(* The packet is kept with its flow unless the flow has enough of them. *)
LatestPackets(lists, k, record) ==
  LET sofar == IF k \in DOMAIN lists THEN lists[k] ELSE <<>>
      all   == Append(sofar, record)
  IN  Bind(lists, k, IF Len(all) <= MaxPackets THEN all ELSE Tail(all))
RecordPacket(lists, k, record) ==
  LET sofar == IF k \in DOMAIN lists THEN lists[k] ELSE <<>> IN
  Bind(lists, k, IF Len(sofar) < MaxPackets THEN Append(sofar, record) ELSE sofar)

PacketRecord(table, p) ==
  [ts |-> p.ts, direction |-> Direction(table, p), length |-> p.length]

-----------------------------------------------------------------------------
(* Parsing.                                                                *)

(* A file without a global header is refused by parse. *)
Refuse ==
  /\ stage = "received" /\ format = "short"
  /\ stage' = "rejected"
  /\ warnings' = warnings + 1
  /\ UNCHANGED <<file, format, pos, tables, icmp_events, capture, decoded>>

Open ==
  /\ stage = "received" /\ format # "short"
  /\ stage' = "dpkt"
  /\ UNCHANGED <<file, format, pos, tables, icmp_events, warnings, capture, decoded>>

Readable == stage \in Parsers /\ (stage = "struct" => format = "pcap")

Stuck ==
  /\ Readable /\ pos < Len(file)
  /\ pos' = IF file[pos + 1].protocol = "other" THEN pos ELSE pos + 1
NextPacket == Readable /\ pos < Len(file) /\ pos' = pos + 1

(* Not a packet over IPv4, or not one of the three protocols. *)
SkipPacket ==
  /\ NextPacket
  /\ file[pos + 1].protocol = "other"
  /\ UNCHANGED <<file, format, stage, tables, icmp_events, warnings, capture, decoded>>

(* The packet cannot be decoded. *)
WarnAlways ==
  /\ NextPacket
  /\ warnings' = warnings + 1
  /\ UNCHANGED <<file, format, stage, tables, icmp_events, capture, decoded>>
WarnPacket ==
  /\ NextPacket
  /\ warnings' = IF warnings < MaxWarnings THEN warnings + 1 ELSE warnings
  /\ UNCHANGED <<file, format, stage, tables, icmp_events, capture, decoded>>

(* An ICMP error is reported even if there is no room for its flow. *)
ReportTracked(p) ==
  icmp_events' = IF p.icmp_error /\ Admitted(flow_map, p)
                 THEN Append(icmp_events, pos + 1) ELSE icmp_events
Report(p) ==
  icmp_events' = IF p.icmp_error THEN Append(icmp_events, pos + 1) ELSE icmp_events

CountPacket ==
  LET p == file[pos + 1] IN
  /\ NextPacket
  /\ p.protocol # "other"
  /\ Report(p)
  /\ IF Admitted(flow_map, p)
     THEN /\ flow_map' = UpdateFlow(flow_map, p)
          /\ pkt_map' = RecordPacket(pkt_map, Canonical(flow_map, p), PacketRecord(flow_map, p))
     ELSE UNCHANGED tables
  /\ decoded' = decoded \cup {pos + 1}
  /\ UNCHANGED <<file, format, stage, warnings, capture>>

(* The whole parser fails and the next one starts over, with tables of its
   own but with the ICMP events collected so far. *)
StartOver(next) ==
  /\ stage' = next
  /\ pos' = 0
  /\ flow_map' = <<>>
  /\ pkt_map' = <<>>
  /\ decoded' = {}
  /\ warnings' = warnings + 1
  /\ UNCHANGED <<file, format, icmp_events, capture>>

DpktFails  == stage = "dpkt" /\ StartOver("scapy")
ScapyFails == stage = "scapy" /\ pos = 0 /\ StartOver("struct")

-----------------------------------------------------------------------------
(* The end of the upload.                                                  *)

Session(k, id) ==
  [ session_id   |-> id,
    src          |-> k.src,
    dst          |-> k.dst,
    protocol     |-> k.protocol,
    start_ts     |-> flow_map[k].start_ts,
    end_ts       |-> flow_map[k].end_ts,
    bytes_sent   |-> flow_map[k].bytes_sent,
    bytes_recv   |-> flow_map[k].bytes_recv,
    packet_count |-> flow_map[k].packet_count,
    rst          |-> flow_map[k].rst,
    confidence   |-> "normal",
    packets      |-> pkt_map[k] ]

(* uuid4: an id that no other session has. *)
ToSessions == LET keys == SetToSeq(DOMAIN flow_map) IN
              [i \in DOMAIN keys |-> Session(keys[i], i)]

(* A capture without sessions is refused, any other is put into the store. *)
Conclude(sessions) ==
  /\ capture' = Normalize(sessions)
  /\ stage' = IF sessions = <<>> THEN "rejected" ELSE "stored"
  /\ UNCHANGED <<file, format, pos, tables, icmp_events, decoded>>

EndOfFile ==
  /\ Readable /\ pos = Len(file)
  /\ \E sessions \in {ToSessions} : Conclude(sessions)
  /\ UNCHANGED warnings

(* The struct parser does not read pcapng. *)
WrongFormat ==
  /\ stage = "struct" /\ format = "pcapng"
  /\ Conclude(<<>>)
  /\ warnings' = warnings + 1

Next ==
  \/ Refuse \/ Open
  \/ SkipPacket \/ WarnPacket \/ CountPacket
  \/ DpktFails \/ ScapyFails
  \/ EndOfFile \/ WrongFormat

(* The parsers run on, in the handler of the request. *)
Spec == Init /\ [][Next]_vars /\ WF_vars(Next)

-----------------------------------------------------------------------------
(* What a reader of the file expects of the tables.                        *)

SameConversation(k, p) == Key(p) \in {k, Opposite(k)}

Of(k) == {i \in decoded : SameConversation(k, file[i])}

Sent(k)     == {i \in Of(k) : Key(file[i]) = k}
Received(k) == Of(k) \ Sent(k)

Volume(S) == SumFunctionOnSet([i \in DOMAIN file |-> file[i].length], S)

(* The table is one that SessionModel accepts and the panels rely on:      *)
(* within its limit, both directions of a conversation in one flow, no     *)
(* flow that ends before it starts, and with each flow some of its packets *)
(* (pcap_parser.py, _update_flow and _record_packet).                      *)
FlowTableSound ==
  /\ Cardinality(DOMAIN flow_map) <= MaxFlows
  /\ \A k \in DOMAIN flow_map : Opposite(k) \in DOMAIN flow_map => Opposite(k) = k
  /\ \A k \in DOMAIN flow_map : flow_map[k].start_ts <= flow_map[k].end_ts
  /\ DOMAIN pkt_map = DOMAIN flow_map
  /\ \A k \in DOMAIN pkt_map :
       Len(pkt_map[k]) \in 1 .. MaxPackets /\ Len(pkt_map[k]) <= flow_map[k].packet_count

(* A flow in the table is counted in full: the limit on flows and the      *)
(* parsers that failed before never make it miss a packet, count one twice *)
(* or in the wrong direction.  It starts with its first packet, even when  *)
(* a later one carries an earlier time (pcap_parser.py, _update_flow).     *)
CountedInFull ==
  \A k \in DOMAIN flow_map :
    /\ flow_map[k].packet_count = Cardinality(Of(k))
    /\ flow_map[k].bytes_sent = Volume(Sent(k))
    /\ flow_map[k].bytes_recv = Volume(Received(k))
    /\ flow_map[k].rst <=> \E i \in Of(k) : file[i].rst
    /\ flow_map[k].end_ts = Max({file[i].ts : i \in Of(k)})
    /\ flow_map[k].start_ts = file[Min(Of(k))].ts
    /\ Min(Of(k)) \in Sent(k)

(* Only the limit keeps a conversation out of the table, and then the ones *)
(* that fill it all began earlier in the file (pcap_parser.py,             *)
(* _MAX_FLOW_COUNT).                                                       *)
FirstComeFirstKept ==
  \A i \in decoded :
    \/ \E k \in DOMAIN flow_map : SameConversation(k, file[i])
    \/ /\ Cardinality(DOMAIN flow_map) = MaxFlows
       /\ \A k \in DOMAIN flow_map : \E j \in Of(k) : j < i

(* The packets kept with a flow are its first ones, in the order of the    *)
(* file, each with the direction it is counted in (pcap_parser.py,         *)
(* _record_packet).                                                        *)
PacketsFollowFlow ==
  \A k \in DOMAIN flow_map :
    /\ Len(pkt_map[k]) = Min({MaxPackets, Cardinality(Of(k))})
    /\ \A i \in Of(k) :
         LET n == Cardinality({j \in Of(k) : j <= i}) IN
         n <= MaxPackets =>
           pkt_map[k][n] = [ ts        |-> file[i].ts,
                             direction |-> IF i \in Sent(k) THEN "fwd" ELSE "rev",
                             length    |-> file[i].length ]

(* The list holds the ICMP errors of the parser at work from here on, once *)
(* each and in the order of the file.                                      *)
ErrorsAfter(before) ==
  LET reported == before + 1 .. Len(icmp_events) IN
  /\ {icmp_events[n] : n \in reported} = {i \in decoded : file[i].icmp_error}
  /\ \A m, n \in reported : m < n => icmp_events[m] < icmp_events[n]

(* Every ICMP error that the parser at work has decoded is reported, with  *)
(* room for its flow or not; what the list holds before that are errors    *)
(* too, and none of them twice: they are from a parser that failed         *)
(* (pcap_parser.py, _icmp_events outlives it).                             *)
ErrorsReported ==
  \E before \in 0 .. Len(icmp_events) :
    /\ ErrorsAfter(before)
    /\ \A n \in 1 .. before : file[icmp_events[n]].icmp_error
    /\ \A m, n \in 1 .. before : icmp_events[m] = icmp_events[n] => m = n

(* What is stored is what was read: one session per flow with its totals,  *)
(* its packets in the order of time and not of the file; and a capture     *)
(* that is stored has sessions (normalizer.py, upload.py).                 *)
StoredAsRead ==
  stage = "stored" =>
    /\ capture # {}
    /\ Cardinality(capture) = Cardinality(DOMAIN flow_map)
    /\ \A s \in capture :
         LET k == [src |-> s.src, dst |-> s.dst, protocol |-> s.protocol] IN
         /\ k \in DOMAIN flow_map
         /\ s.bytes_sent + s.bytes_recv = Volume(Of(k))
         /\ s.packet_count = Cardinality(Of(k))
         /\ \A m, n \in DOMAIN s.packets : m < n => s.packets[m].ts <= s.packets[n].ts
         /\ \A r \in ToSet(pkt_map[k]) :
              Cardinality({n \in DOMAIN s.packets : s.packets[n] = r}) =
              Cardinality({n \in DOMAIN pkt_map[k] : pkt_map[k][n] = r})

(* Every upload ends, whichever parsers fail: each of them starts over at  *)
(* most once (pcap_parser.py, parse).                                      *)
UploadEnds == <>(stage \in {"stored", "rejected"})
=============================================================================

-------------------------- MODULE PcapImportProofs --------------------------
(***************************************************************************)
(* The flow table of the pcap parser is sound, its flows are counted in    *)
(* full, the first packets of each are kept, the ICMP errors reported, and *)
(* what is stored is what was read, for every file, whatever the limits on *)
(* flows and packets and whichever parser fails.                           *)
(***************************************************************************)
EXTENDS PcapImport, FiniteSetTheorems, SequenceTheorems, TLAPS

Flows ==
  [ start_ts : Nat, end_ts : Nat, bytes_sent : Nat, bytes_recv : Nat,
    packet_count : Nat, rst : BOOLEAN ]

Keys == [src : Endpoints, dst : Endpoints, protocol : {"TCP", "UDP", "ICMP", "other"}]

(* The names of two directions of a conversation are not both in use. *)
OneWayEach(S) == \A k \in S : Opposite(k) \in S => Opposite(k) = k

(* A flow and the packets kept with it. *)
FlowSound(f, packets) ==
  /\ f \in Flows
  /\ f.start_ts <= f.end_ts
  /\ packets \in Seq([ts : Nat, direction : {"fwd", "rev"}, length : Nat])
  /\ Len(packets) \in 1 .. MaxPackets
  /\ Len(packets) <= f.packet_count

TablesSound ==
  /\ DOMAIN flow_map \subseteq Keys
  /\ IsFiniteSet(DOMAIN flow_map)
  /\ Cardinality(DOMAIN flow_map) <= MaxFlows
  /\ OneWayEach(DOMAIN flow_map)
  /\ DOMAIN pkt_map = DOMAIN flow_map
  /\ \A k \in DOMAIN flow_map : FlowSound(flow_map[k], pkt_map[k])

Inv ==
  /\ file \in Files
  /\ pos \in Nat
  /\ TablesSound

(* Opposite takes a key to a key, and back to itself when applied twice    *)
(* (pcap_parser.py, rev).                                                  *)
LEMMA OppositeTwice ==
  ASSUME NEW k \in Keys
  PROVE  Opposite(k) \in Keys /\ Opposite(Opposite(k)) = k
BY DEF Opposite, Keys

(* A packet is counted under a key (pcap_parser.py, _update_flow).         *)
LEMMA CanonicalIsKey ==
  ASSUME NEW table, NEW p \in Packets
  PROVE  Key(p) \in Keys /\ Canonical(table, p) \in Keys
BY OppositeTwice DEF Canonical, Key, Keys, Packets

(* The empty tables that each parser starts with are sound.                *)
LEMMA EmptyTablesSound ==
  ASSUME flow_map = <<>>, pkt_map = <<>>
  PROVE  TablesSound
<1>1. DOMAIN flow_map = {} /\ DOMAIN pkt_map = {}
  OBVIOUS
<1>2. IsFiniteSet({}) /\ Cardinality({}) = 0
  BY FS_EmptySet
<1>. QED
  BY <1>1, <1>2, PcapAssumption DEF TablesSound, OneWayEach

(* Adding the canonical key of a packet never brings in the second name of *)
(* a conversation (pcap_parser.py, _update_flow).                          *)
LEMMA CanonicalKeepsOneWay ==
  ASSUME NEW table, DOMAIN table \subseteq Keys, OneWayEach(DOMAIN table), NEW p \in Packets
  PROVE  OneWayEach(DOMAIN table \cup {Canonical(table, p)})
<1>. DEFINE k == Canonical(table, p)
<1>1. CASE k \in DOMAIN table
  BY <1>1 DEF OneWayEach
<1>2. CASE k \notin DOMAIN table
  <2>1. k = Key(p) /\ Opposite(Key(p)) \notin DOMAIN table
    <3>1. CASE Opposite(Key(p)) \in DOMAIN table
      BY <3>1, <1>2 DEF Canonical
    <3>. QED
      BY <3>1 DEF Canonical
  <2>2. ASSUME NEW j \in DOMAIN table, Opposite(j) = k
        PROVE  FALSE
    BY <2>1, <2>2, OppositeTwice
  <2>. QED
    BY <2>1, <2>2 DEF OneWayEach
<1>. QED
  BY <1>1, <1>2

(* Counting a packet, and keeping it if there is room, leaves its flow     *)
(* sound (pcap_parser.py, _update_flow and _record_packet).                *)
LEMMA CountedFlowSound ==
  ASSUME NEW f, NEW packets, FlowSound(f, packets), NEW p \in Packets,
         NEW d \in {"fwd", "rev"},
         NEW record \in [ts : Nat, direction : {"fwd", "rev"}, length : Nat]
  PROVE  FlowSound(AddedTo(f, p, d),
                   IF Len(packets) < MaxPackets THEN Append(packets, record) ELSE packets)
<1>1. AddedTo(f, p, d) \in Flows
  <2>1. f \in Flows /\ p.ts \in Nat /\ p.length \in Nat
    BY DEF FlowSound, Packets
  <2>2. (f.rst \/ p.rst) \in BOOLEAN
    OBVIOUS
  <2>. QED
    BY <2>1, <2>2 DEF Flows, AddedTo
<1>2. AddedTo(f, p, d).start_ts <= AddedTo(f, p, d).end_ts
  BY DEF FlowSound, Flows, AddedTo, Packets
<1>3. AddedTo(f, p, d).packet_count = f.packet_count + 1
  BY DEF AddedTo
<1>. DEFINE Records == [ts : Nat, direction : {"fwd", "rev"}, length : Nat]
<1>4. packets \in Seq(Records) /\ Len(packets) \in 1 .. MaxPackets /\ Len(packets) <= f.packet_count
  BY DEF FlowSound
<1>5. Append(packets, record) \in Seq(Records) /\ Len(Append(packets, record)) = Len(packets) + 1
  BY <1>4, AppendProperties
<1>6. f.packet_count \in Nat /\ MaxPackets \in Nat
  BY PcapAssumption DEF FlowSound, Flows
<1>. QED
  BY <1>1, <1>2, <1>3, <1>4, <1>5, <1>6 DEF FlowSound

(* The first packet of a flow is always kept.                              *)
LEMMA NewFlowSound ==
  ASSUME NEW p \in Packets,
         NEW record \in [ts : Nat, direction : {"fwd", "rev"}, length : Nat]
  PROVE  FlowSound(NewFlow(p), <<record>>)
BY PcapAssumption DEF FlowSound, NewFlow, Flows, Packets

(* Counting one packet of the file keeps the tables sound.                 *)
LEMMA CountKeepsTablesSound ==
  ASSUME Inv, CountPacket
  PROVE  TablesSound'
<1>. DEFINE p == file[pos + 1]
            k == Canonical(flow_map, p)
            record == PacketRecord(flow_map, p)
<1>1. p \in Packets
  <2>1. file \in Seq(Packets) /\ pos + 1 \in 1 .. Len(file)
    BY PcapAssumption DEF Inv, CountPacket, NextPacket
  <2>. QED
    BY <2>1
<1>2. CASE ~Admitted(flow_map, p)
  BY <1>2 DEF CountPacket, tables, TablesSound, Inv
<1>3. CASE Admitted(flow_map, p)
  <2>1. flow_map' = UpdateFlow(flow_map, p) /\ pkt_map' = RecordPacket(pkt_map, k, record)
    BY <1>3 DEF CountPacket
  <2>2. /\ DOMAIN flow_map' = DOMAIN flow_map \cup {k}
        /\ DOMAIN pkt_map' = DOMAIN pkt_map \cup {k}
    BY <2>1 DEF UpdateFlow, RecordPacket, Bind
  <2>3. k \in Keys
    BY <1>1, CanonicalIsKey
  <2>4. DOMAIN flow_map' \subseteq Keys /\ DOMAIN pkt_map' = DOMAIN flow_map'
    BY <2>2, <2>3 DEF Inv, TablesSound
  <2>5. OneWayEach(DOMAIN flow_map')
    BY <1>1, <2>2, CanonicalKeepsOneWay DEF Inv, TablesSound
  <2>6. IsFiniteSet(DOMAIN flow_map') /\ Cardinality(DOMAIN flow_map') <= MaxFlows
    <3>1. /\ IsFiniteSet(DOMAIN flow_map)
          /\ Cardinality(DOMAIN flow_map) \in Nat
          /\ Cardinality(DOMAIN flow_map) <= MaxFlows
      BY FS_CardinalityType DEF Inv, TablesSound
    <3>2. CASE k \in DOMAIN flow_map
      <4>1. DOMAIN flow_map' = DOMAIN flow_map
        BY <2>2, <3>2
      <4>. QED
        BY <4>1, <3>1
    <3>3. CASE k \notin DOMAIN flow_map
      <4>1. Cardinality(DOMAIN flow_map) < MaxFlows
        BY <1>3, <3>3 DEF Admitted
      <4>2. /\ IsFiniteSet(DOMAIN flow_map \cup {k})
            /\ Cardinality(DOMAIN flow_map \cup {k}) = Cardinality(DOMAIN flow_map) + 1
        BY <3>1, <3>3, FS_AddElement
      <4>. QED
        BY <2>2, <3>1, <4>1, <4>2, PcapAssumption
    <3>. QED
      BY <3>2, <3>3
  <2>7. record \in [ts : Nat, direction : {"fwd", "rev"}, length : Nat]
    BY <1>1 DEF PacketRecord, Direction, Packets
  <2>8. FlowSound(flow_map'[k], pkt_map'[k])
    <3>1. CASE k \in DOMAIN flow_map
      <4>1. k \in DOMAIN pkt_map /\ FlowSound(flow_map[k], pkt_map[k])
        BY <3>1 DEF Inv, TablesSound
      <4>2. flow_map'[k] = AddedTo(flow_map[k], p, Direction(flow_map, p))
        BY <2>1, <3>1 DEF UpdateFlow, Bind
      <4>3. pkt_map'[k] = IF Len(pkt_map[k]) < MaxPackets
                          THEN Append(pkt_map[k], record) ELSE pkt_map[k]
        BY <2>1, <4>1 DEF RecordPacket, Bind
      <4>4. Direction(flow_map, p) \in {"fwd", "rev"}
        BY DEF Direction
      <4>. QED
        BY <1>1, <2>7, <4>1, <4>2, <4>3, <4>4, CountedFlowSound
    <3>2. CASE k \notin DOMAIN flow_map
      <4>1. k \notin DOMAIN pkt_map
        BY <3>2 DEF Inv, TablesSound
      <4>2. flow_map'[k] = NewFlow(p)
        BY <2>1, <3>2 DEF UpdateFlow, Bind
      <4>3. pkt_map'[k] = IF Len(<<>>) < MaxPackets THEN Append(<<>>, record) ELSE <<>>
        BY <2>1, <4>1 DEF RecordPacket, Bind
      <4>4. pkt_map'[k] = <<record>>
        BY <4>3, PcapAssumption
      <4>. QED
        BY <1>1, <2>7, <4>2, <4>4, NewFlowSound
    <3>. QED
      BY <3>1, <3>2
  <2>9. ASSUME NEW j \in DOMAIN flow_map', j # k
        PROVE  FlowSound(flow_map'[j], pkt_map'[j])
    <3>1. j \in DOMAIN flow_map /\ j \in DOMAIN pkt_map
      BY <2>2, <2>9 DEF Inv, TablesSound
    <3>2. flow_map'[j] = flow_map[j] /\ pkt_map'[j] = pkt_map[j]
      BY <2>1, <2>9, <3>1 DEF UpdateFlow, RecordPacket, Bind
    <3>. QED
      BY <3>1, <3>2 DEF Inv, TablesSound
  <2>10. \A j \in DOMAIN flow_map' : FlowSound(flow_map'[j], pkt_map'[j])
    BY <2>8, <2>9
  <2>. QED
    BY <2>4, <2>5, <2>6, <2>10 DEF TablesSound
<1>. QED
  BY <1>2, <1>3

(* Every step of the upload keeps the invariant.                           *)
LEMMA NextInv == Inv /\ [Next]_vars => Inv'
<1>. SUFFICES ASSUME Inv, [Next]_vars PROVE Inv'
  OBVIOUS
<1>1. ASSUME UNCHANGED tables
      PROVE  TablesSound'
  BY <1>1 DEF Inv, TablesSound, tables
<1>2. file' = file /\ pos' \in Nat
  BY DEF Inv, Next, vars, Refuse, Open, SkipPacket, WarnPacket, CountPacket, NextPacket,
         DpktFails, ScapyFails, StartOver, EndOfFile, WrongFormat, Conclude
<1>3. CASE CountPacket
  BY <1>2, <1>3, CountKeepsTablesSound DEF Inv
<1>4. CASE DpktFails \/ ScapyFails
  <2>1. flow_map' = <<>> /\ pkt_map' = <<>>
    BY <1>4 DEF DpktFails, ScapyFails, StartOver
  <2>2. TablesSound'
    <3>1. DOMAIN flow_map' = {} /\ DOMAIN pkt_map' = {}
      BY <2>1
    <3>2. IsFiniteSet({}) /\ Cardinality({}) = 0
      BY FS_EmptySet
    <3>. QED
      BY <3>1, <3>2, PcapAssumption DEF TablesSound, OneWayEach
  <2>. QED
    BY <1>2, <2>2 DEF Inv
<1>5. CASE \/ Refuse \/ Open \/ SkipPacket \/ WarnPacket \/ EndOfFile \/ WrongFormat
           \/ UNCHANGED vars
  <2>1. UNCHANGED tables
    BY <1>5 DEF Refuse, Open, SkipPacket, WarnPacket, EndOfFile, WrongFormat, Conclude, vars, tables
  <2>. QED
    BY <1>1, <1>2, <2>1 DEF Inv
<1>. QED
  BY <1>3, <1>4, <1>5 DEF Next

(* The flow table of every upload is sound at every packet (pcap_parser.py,*)
(* _update_flow, _record_packet).                                          *)
THEOREM FlowTableCorrect == Spec => []FlowTableSound
<1>1. Init => Inv
  BY EmptyTablesSound DEF Init, Inv
<1>2. Inv => FlowTableSound
  BY DEF Inv, TablesSound, FlowSound, OneWayEach, FlowTableSound
<1>. QED
  BY <1>1, <1>2, NextInv, PTL DEF Spec

-----------------------------------------------------------------------------
(* Where the parser at work may be, and how many warnings that takes: one
   for each parser that gave up, and one for the file. *)
GivenUp == CASE stage = "dpkt" -> 0 [] stage = "scapy" -> 1 [] stage = "struct" -> 2
             [] stage \in {"received", "stored", "rejected"} -> 3

PlaceInFile ==
  /\ file \in Files
  /\ format \in {"pcap", "pcapng", "short"}
  /\ stage \in Parsers \cup {"received", "stored", "rejected"}
  /\ pos \in 0 .. Len(file)
  /\ icmp_events \in Seq(DOMAIN file)
  /\ warnings \in 0 .. MaxWarnings + GivenUp
  /\ stage = "received" => warnings = 0
  /\ decoded \in SUBSET (1 .. pos)

LEMMA FilesAreSequences ==
  ASSUME file \in Files
  PROVE  file \in Seq(Packets) /\ Len(file) \in Nat /\ DOMAIN file = 1 .. Len(file)
BY PcapAssumption

LEMMA PlaceStarts ==
  ASSUME Init
  PROVE  PlaceInFile
<1>1. file \in Files /\ Len(file) \in Nat
  BY FilesAreSequences DEF Init
<1> QED BY <1>1, PcapAssumption DEF Init, PlaceInFile, GivenUp, Parsers

(* A step that reads one packet. *)
LEMMA ReadOneMore ==
  ASSUME PlaceInFile, NextPacket, UNCHANGED <<file, format, stage>>,
         icmp_events' \in {icmp_events, Append(icmp_events, pos + 1)},
         warnings' \in {warnings, IF warnings < MaxWarnings THEN warnings + 1 ELSE warnings},
         decoded' \in {decoded, decoded \cup {pos + 1}}
  PROVE  PlaceInFile'
<1> USE PcapAssumption DEF PlaceInFile
<1>1. pos \in Nat /\ Len(file) \in Nat /\ DOMAIN file = 1 .. Len(file) /\ pos + 1 <= Len(file)
      /\ pos' = pos + 1
  BY FilesAreSequences DEF NextPacket
<1>2. icmp_events' \in Seq(DOMAIN file)
  <2>1. pos + 1 \in DOMAIN file
    BY <1>1
  <2>2. Append(icmp_events, pos + 1) \in Seq(DOMAIN file)
    BY <2>1, AppendProperties
  <2> QED BY <2>2
<1>3. decoded' \in SUBSET (1 .. pos')
  BY <1>1
<1>4. GivenUp \in {0, 1, 2} /\ GivenUp' = GivenUp /\ stage # "received"
  BY DEF GivenUp, NextPacket, Readable, Parsers
<1>5. warnings' \in 0 .. MaxWarnings + GivenUp
  BY <1>4
<1> QED BY <1>1, <1>2, <1>3, <1>4, <1>5

LEMMA PlaceStep ==
  ASSUME PlaceInFile, [Next]_vars
  PROVE  PlaceInFile'
<1> USE PcapAssumption
<1>0. Len(file) \in Nat /\ pos \in Nat /\ warnings \in Nat
  <2>1. GivenUp \in 0 .. 3
    BY DEF PlaceInFile, GivenUp, Parsers
  <2> QED BY <2>1, FilesAreSequences DEF PlaceInFile
<1>1. CASE UNCHANGED vars
  BY <1>1 DEF vars, PlaceInFile, GivenUp
<1>2. CASE Refuse \/ Open
  BY <1>0, <1>2 DEF Refuse, Open, PlaceInFile, GivenUp, Parsers
<1>3. CASE SkipPacket \/ WarnPacket \/ CountPacket
  BY <1>3, ReadOneMore DEF SkipPacket, WarnPacket, CountPacket, Report
<1>4. CASE DpktFails
  BY <1>0, <1>4 DEF DpktFails, StartOver, PlaceInFile, GivenUp, Parsers
<1>5. CASE ScapyFails
  BY <1>0, <1>5 DEF ScapyFails, StartOver, PlaceInFile, GivenUp, Parsers
<1>6. CASE EndOfFile
  BY <1>0, <1>6 DEF EndOfFile, Conclude, Readable, PlaceInFile, GivenUp, Parsers
<1>7. CASE WrongFormat
  BY <1>0, <1>7 DEF WrongFormat, Conclude, PlaceInFile, GivenUp, Parsers
<1> QED BY <1>1, <1>2, <1>3, <1>4, <1>5, <1>6, <1>7 DEF Next

(* The import keeps its type, the limit on warnings included: whichever    *)
(* parsers give up, the list stays three entries above it at most          *)
(* (pcap_parser.py, _MAX_PARSE_WARNINGS).                                  *)
THEOREM ImportKeepsType == Spec => []TypeOK
<1>1. PlaceInFile => TypeOK
  <2> SUFFICES ASSUME PlaceInFile PROVE TypeOK
    OBVIOUS
  <2>1. GivenUp \in 0 .. 3
    BY DEF PlaceInFile, GivenUp, Parsers
  <2> QED BY <2>1, PcapAssumption DEF PlaceInFile, TypeOK
<1> QED BY <1>1, PlaceStarts, PlaceStep, PTL DEF Spec
-----------------------------------------------------------------------------
(* Every flow has a packet that was decoded, and the promise itself. *)
EveryFlowBegun ==
  /\ \A k \in DOMAIN flow_map : \E j \in decoded : SameConversation(k, file[j])
  /\ FirstComeFirstKept

LEMMA CountKeepsOrder ==
  ASSUME Inv, PlaceInFile, EveryFlowBegun, CountPacket
  PROVE  EveryFlowBegun'
<1> USE PcapAssumption
<1> DEFINE p == file[pos + 1]
           k == Canonical(flow_map, p)
<1>0. file' = file /\ decoded' = decoded \cup {pos + 1} /\ pos \in Nat
      /\ \A j \in decoded : j \in 1 .. pos
  BY FilesAreSequences DEF CountPacket, PlaceInFile
<1>1. p \in Packets
  <2>1. file \in Seq(Packets) /\ pos + 1 \in 1 .. Len(file)
    BY PcapAssumption DEF Inv, CountPacket, NextPacket
  <2> QED BY <2>1
<1>2. SameConversation(k, p)
  BY <1>1, OppositeTwice, CanonicalIsKey DEF SameConversation, Canonical
<1>3. ASSUME NEW j, NEW i \in decoded
      PROVE  SameConversation(j, file[i])' <=> SameConversation(j, file[i])
  BY <1>0 DEF SameConversation
<1>4. CASE Admitted(flow_map, p)
  <2>1. DOMAIN flow_map' = DOMAIN flow_map \cup {k}
    BY <1>4 DEF CountPacket, UpdateFlow, Bind
  <2>2. \A j \in DOMAIN flow_map' : \E i \in decoded' : SameConversation(j, file[i])
    BY <1>0, <1>2, <2>1 DEF EveryFlowBegun
  <2>3. ASSUME NEW i \in decoded'
        PROVE  \/ \E j \in DOMAIN flow_map' : SameConversation(j, file[i])
               \/ /\ Cardinality(DOMAIN flow_map') = MaxFlows
                  /\ \A j \in DOMAIN flow_map' : \E n \in Of(j)' : n < i
    <3>1. CASE i = pos + 1
      BY <1>2, <2>1, <3>1
    <3>2. CASE i \in decoded /\ \E j \in DOMAIN flow_map : SameConversation(j, file[i])
      BY <2>1, <3>2
    <3>3. CASE /\ i \in decoded
               /\ Cardinality(DOMAIN flow_map) = MaxFlows
               /\ \A j \in DOMAIN flow_map : \E n \in Of(j) : n < i
      <4>1. DOMAIN flow_map' = DOMAIN flow_map
        <5>1. ~(Cardinality(DOMAIN flow_map) < MaxFlows)
          BY <3>3
        <5>2. k \in DOMAIN flow_map
          BY <1>4, <5>1 DEF Admitted
        <5> QED BY <2>1, <5>2
      <4>2. ASSUME NEW j PROVE Of(j) \subseteq Of(j)'
        <5>1. \A n \in Of(j) : n \in decoded' /\ SameConversation(j, file'[n])
          BY <1>0 DEF Of, SameConversation
        <5> QED BY <5>1 DEF Of, SameConversation
      <4> QED BY <3>3, <4>1, <4>2
    <3> QED BY <1>0, <3>1, <3>2, <3>3 DEF EveryFlowBegun, FirstComeFirstKept
  <2> QED BY <1>0, <2>2, <2>3 DEF EveryFlowBegun, FirstComeFirstKept, SameConversation
<1>5. CASE ~Admitted(flow_map, p)
  <2>1. flow_map' = flow_map
    BY <1>5 DEF CountPacket, tables
  <2>2. Cardinality(DOMAIN flow_map) = MaxFlows
    BY <1>5, FS_CardinalityType DEF Admitted, Inv, TablesSound
  <2>3. ASSUME NEW j PROVE Of(j) \subseteq Of(j)'
    BY <1>0 DEF Of, SameConversation
  <2>4. \A j \in DOMAIN flow_map : \E n \in Of(j)' : n < pos + 1
    <3>1. \A j \in DOMAIN flow_map : \E n \in Of(j) : n < pos + 1
      BY <1>0 DEF EveryFlowBegun, Of
    <3> QED BY <2>3, <3>1
  <2>5. ASSUME NEW i \in decoded'
        PROVE  \/ \E j \in DOMAIN flow_map : SameConversation(j, file[i])
               \/ /\ Cardinality(DOMAIN flow_map) = MaxFlows
                  /\ \A j \in DOMAIN flow_map : \E n \in Of(j)' : n < i
    <3>1. CASE i = pos + 1
      BY <2>2, <2>4, <3>1
    <3>2. CASE i \in decoded
      BY <2>3, <3>2 DEF EveryFlowBegun, FirstComeFirstKept
    <3> QED BY <1>0, <3>1, <3>2
  <2> QED BY <1>0, <2>1, <2>5 DEF EveryFlowBegun, FirstComeFirstKept, SameConversation
<1> QED BY <1>4, <1>5

LEMMA OrderStep ==
  ASSUME Inv, PlaceInFile, EveryFlowBegun, [Next]_vars
  PROVE  EveryFlowBegun'
<1>1. CASE CountPacket
  BY <1>1, CountKeepsOrder
<1>2. CASE DpktFails \/ ScapyFails
  <2>1. flow_map' = <<>> /\ decoded' = {}
    BY <1>2 DEF DpktFails, ScapyFails, StartOver
  <2>2. DOMAIN flow_map' = {}
    BY <2>1
  <2> QED BY <2>1, <2>2 DEF EveryFlowBegun, FirstComeFirstKept
<1>3. CASE \/ Refuse \/ Open \/ SkipPacket \/ WarnPacket \/ EndOfFile \/ WrongFormat
           \/ UNCHANGED vars
  <2>1. UNCHANGED <<file, flow_map, decoded>>
    BY <1>3 DEF Refuse, Open, SkipPacket, WarnPacket, EndOfFile, WrongFormat, Conclude, vars, tables
  <2> QED BY <2>1 DEF EveryFlowBegun, FirstComeFirstKept, SameConversation, Of
<1> QED BY <1>1, <1>2, <1>3 DEF Next

(* Only the limit keeps a conversation out of the table, and those in it   *)
(* began earlier in the file, for every limit and every file               *)
(* (pcap_parser.py, _MAX_FLOW_COUNT).                                      *)
THEOREM FirstComeFirstServed == Spec => []FirstComeFirstKept
<1>1. Init => Inv /\ PlaceInFile /\ EveryFlowBegun
  <2> SUFFICES ASSUME Init PROVE Inv /\ PlaceInFile /\ EveryFlowBegun
    OBVIOUS
  <2>1. Inv
    BY EmptyTablesSound DEF Init, Inv
  <2>2. DOMAIN flow_map = {} /\ decoded = {}
    BY DEF Init
  <2> QED BY <2>1, <2>2, PlaceStarts DEF EveryFlowBegun, FirstComeFirstKept
<1>2. EveryFlowBegun => FirstComeFirstKept
  BY DEF EveryFlowBegun
<1>3. Inv /\ PlaceInFile /\ EveryFlowBegun /\ [Next]_vars
        => Inv' /\ PlaceInFile' /\ EveryFlowBegun'
  BY NextInv, PlaceStep, OrderStep
<1> QED BY <1>1, <1>2, <1>3, PTL DEF Spec

-----------------------------------------------------------------------------
(* Sums of the lengths of packets. *)

PacketRecords == [ts : Nat, direction : {"fwd", "rev"}, length : Nat]

(* What is known of the normalizer, and of sums, for the sessions that the
   flows become. *)
N == INSTANCE NormalizerProofs WITH
       sessions    <- ToSessions,
       Protocols   <- {"TCP", "UDP", "ICMP", "other"},
       Captured    <- PacketRecords,
       Parsed      <- {},
       MaxSessions <- 0

LEMMA NormalizerApplies == N!ParsedAssumption
BY DEF N!ParsedAssumption, PacketRecords

LEMMA SameSets ==
  /\ \A S : N!IsFiniteSet(S) <=> IsFiniteSet(S)
  /\ \A S : N!Cardinality(S) = Cardinality(S)
BY DEF N!IsFiniteSet, IsFiniteSet, N!Cardinality, Cardinality

LengthSum(q, S) == N!Sum([i \in S |-> q[i].length], S)

(* What the model sums up is this sum.                                     *)
LEMMA VolumeIsSum ==
  ASSUME NEW S \in SUBSET DOMAIN file, IsFiniteSet(S), \A i \in S : file[i].length \in Nat
  PROVE  Volume(S) = LengthSum(file, S)
<1>1. PICK v : v = [i \in DOMAIN file |-> file[i].length]
  OBVIOUS
<1>2. PICK w : w = [i \in S |-> file[i].length]
  OBVIOUS
<1>3. Volume(S) = N!Sum(v, S)
  BY <1>1 DEF Volume, SumFunctionOnSet, FoldFunctionOnSet, MapThenFoldSet,
              N!Sum, N!IsSum, N!Term, N!AnyOf
<1>4. \A i \in S : v[i] \in Nat /\ v[i] = w[i]
  BY <1>1, <1>2
<1>5. N!Sum(v, S) = N!Sum(w, S)
  BY <1>4, NormalizerApplies, SameSets, N!SumSame
<1> QED BY <1>2, <1>3, <1>5 DEF LengthSum

(* One packet more adds its length.                                        *)
LEMMA LengthSumAdds ==
  ASSUME NEW q, NEW S, IsFiniteSet(S), NEW a, a \notin S,
         \A x \in S \cup {a} : q[x].length \in Nat
  PROVE  /\ LengthSum(q, S) \in Nat
         /\ LengthSum(q, S \cup {a}) = LengthSum(q, S) + q[a].length
<1>1. PICK T : T = S \cup {a}
  OBVIOUS
<1>2. PICK v : v = [i \in S |-> q[i].length]
  OBVIOUS
<1>3. PICK w : w = [i \in T |-> q[i].length]
  OBVIOUS
<1>4. \A i \in S : v[i] \in Nat /\ v[i] = w[i]
  BY <1>1, <1>2, <1>3
<1>5. N!Sum(v, S) = N!Sum(w, S)
  BY <1>4, NormalizerApplies, SameSets, N!SumSame
<1>6. \A i \in S \cup {a} : w[i] \in Nat
  BY <1>1, <1>3
<1>7. N!Sum(w, S) \in Nat /\ N!Sum(w, S \cup {a}) = N!Sum(w, S) + w[a]
  BY <1>6, NormalizerApplies, SameSets, N!SumAdds
<1>8. LengthSum(q, S) = N!Sum(v, S) /\ LengthSum(q, T) = N!Sum(w, T) /\ w[a] = q[a].length
  BY <1>1, <1>2, <1>3 DEF LengthSum
<1>9. LengthSum(q, T) = LengthSum(q, S) + q[a].length /\ LengthSum(q, S) \in Nat
  BY <1>1, <1>5, <1>7, <1>8
<1> QED BY <1>1, <1>9

LEMMA LengthSumOfNone == \A q : LengthSum(q, {}) = 0
BY NormalizerApplies, N!SumOfNone DEF LengthSum

-----------------------------------------------------------------------------
(* Each flow in full, and the packets kept with it. *)

(* What the table promises of a flow f that counts the packets O of q, of
   which S go forth; start and end name the packets they come from. *)
Counted(q, f, O, S) ==
  /\ f.packet_count = Cardinality(O)
  /\ f.bytes_sent = LengthSum(q, S)
  /\ f.bytes_recv = LengthSum(q, O \ S)
  /\ f.rst <=> \E i \in O : q[i].rst
  /\ \E i \in O : q[i].ts = f.end_ts
  /\ \A i \in O : q[i].ts <= f.end_ts
  /\ \E m \in S : f.start_ts = q[m].ts /\ \A i \in O : m <= i

FlowsCounted ==
  \A k \in DOMAIN flow_map : Counted(file, flow_map[k], Of(k), Sent(k))

LEMMA MaxIs ==
  ASSUME NEW T \in SUBSET Nat, NEW m \in T, \A x \in T : x <= m
  PROVE  Max(T) = m
<1>1. \A y \in T : (\A x \in T : y >= x) => y = m
  OBVIOUS
<1>2. m \in T /\ \A x \in T : m >= x
  OBVIOUS
<1> QED BY <1>1, <1>2 DEF Max

LEMMA MinIs ==
  ASSUME NEW T \in SUBSET Nat, NEW m \in T, \A x \in T : m <= x
  PROVE  Min(T) = m
<1>1. \A y \in T : (\A x \in T : y <= x) => y = m
  OBVIOUS
<1>2. m \in T /\ \A x \in T : m <= x
  OBVIOUS
<1> QED BY <1>1, <1>2 DEF Min

(* A flow stays counted in full when its next packet is added              *)
(* (pcap_parser.py, _update_flow).                                         *)
LEMMA CountedAgain ==
  ASSUME NEW q, NEW f \in Flows, NEW O \in SUBSET Nat, IsFiniteSet(O), NEW S \in SUBSET O,
         Counted(q, f, O, S),
         NEW n \in Nat, \A i \in O : i < n, \A i \in O \cup {n} : q[i] \in Packets,
         NEW d \in {"fwd", "rev"}
  PROVE  Counted(q, AddedTo(f, q[n], d), O \cup {n}, IF d = "fwd" THEN S \cup {n} ELSE S)
<1> DEFINE g == AddedTo(f, q[n], d)
           O2 == O \cup {n}
           S2 == IF d = "fwd" THEN S \cup {n} ELSE S
<1>1. n \notin O /\ q[n] \in Packets
  OBVIOUS
<1>2. g.packet_count = Cardinality(O2)
  BY <1>1, FS_AddElement DEF AddedTo, Counted
<1>3. g.bytes_sent = LengthSum(q, S2) /\ g.bytes_recv = LengthSum(q, O2 \ S2)
  <2>1. IsFiniteSet(S) /\ IsFiniteSet(O \ S) /\ n \notin S /\ n \notin O \ S
    BY <1>1, FS_Subset
  <2>2. \A i \in O \cup {n} : q[i].length \in Nat
    BY DEF Packets
  <2>3. /\ LengthSum(q, S) \in Nat
        /\ LengthSum(q, S \cup {n}) = LengthSum(q, S) + q[n].length
    BY <2>1, <2>2, LengthSumAdds
  <2>4. /\ LengthSum(q, O \ S) \in Nat
        /\ LengthSum(q, (O \ S) \cup {n}) = LengthSum(q, O \ S) + q[n].length
    BY <2>1, <2>2, LengthSumAdds
  <2>5. f.bytes_sent = LengthSum(q, S) /\ f.bytes_recv = LengthSum(q, O \ S)
    BY DEF Counted
  <2>6. CASE d = "fwd"
    <3>1. S2 = S \cup {n} /\ O2 \ S2 = O \ S
      BY <1>1, <2>6
    <3>2. g.bytes_sent = f.bytes_sent + q[n].length /\ g.bytes_recv = f.bytes_recv + 0
      BY <2>6 DEF AddedTo
    <3>3. g.bytes_recv = f.bytes_recv
      BY <2>4, <2>5, <3>2
    <3> HIDE DEF S2, O2, g
    <3> QED BY <2>3, <2>5, <3>1, <3>2, <3>3
  <2>7. CASE d = "rev"
    <3>1. S2 = S /\ O2 \ S2 = (O \ S) \cup {n}
      BY <1>1, <2>7
    <3>2. g.bytes_sent = f.bytes_sent + 0 /\ g.bytes_recv = f.bytes_recv + q[n].length
      BY <2>7 DEF AddedTo
    <3>3. g.bytes_sent = f.bytes_sent
      BY <2>3, <2>5, <3>2
    <3> HIDE DEF S2, O2, g
    <3> QED BY <2>4, <2>5, <3>1, <3>2, <3>3
  <2> QED BY <2>6, <2>7
<1>4. g.rst <=> \E i \in O2 : q[i].rst
  BY DEF AddedTo, Counted
<1>5. (\E i \in O2 : q[i].ts = g.end_ts) /\ (\A i \in O2 : q[i].ts <= g.end_ts)
  <2>1. /\ f.end_ts \in Nat
        /\ \A i \in O2 : q[i].ts \in Nat
        /\ \E i \in O : q[i].ts = f.end_ts
        /\ \A i \in O : q[i].ts <= f.end_ts
    BY DEF Counted, Packets, Flows
  <2>2. g.end_ts = IF q[n].ts > f.end_ts THEN q[n].ts ELSE f.end_ts
    BY DEF AddedTo
  <2> HIDE DEF g
  <2> QED BY <2>1, <2>2
<1>6. \E m \in S2 : g.start_ts = q[m].ts /\ \A i \in O2 : m <= i
  <2>1. PICK m \in S : f.start_ts = q[m].ts /\ \A i \in O : m <= i
    BY DEF Counted
  <2>2. g.start_ts = q[m].ts /\ m \in S2 /\ m < n
    BY <2>1 DEF AddedTo
  <2>3. \A i \in O2 : m <= i
    BY <2>1, <2>2
  <2> QED BY <2>2, <2>3
<1> QED BY <1>2, <1>3, <1>4, <1>5, <1>6 DEF Counted

(* A new flow is counted in full (pcap_parser.py, _update_flow).           *)
LEMMA CountedFirst ==
  ASSUME NEW q, NEW n \in Nat, q[n] \in Packets
  PROVE  Counted(q, NewFlow(q[n]), {n}, {n})
<1>1. NewFlow(q[n]).packet_count = Cardinality({n})
  BY FS_Singleton DEF NewFlow
<1>2. LengthSum(q, {n}) = q[n].length /\ LengthSum(q, {n} \ {n}) = 0
  <2>1. LengthSum(q, {} \cup {n}) = LengthSum(q, {}) + q[n].length
    BY FS_EmptySet, LengthSumAdds DEF Packets
  <2>2. q[n].length \in Nat /\ {} \cup {n} = {n} /\ {n} \ {n} = {}
    BY DEF Packets
  <2> QED BY <2>1, <2>2, LengthSumOfNone
<1>3. NewFlow(q[n]).bytes_sent = q[n].length /\ NewFlow(q[n]).bytes_recv = 0
      /\ (NewFlow(q[n]).rst <=> q[n].rst)
      /\ NewFlow(q[n]).start_ts = q[n].ts /\ NewFlow(q[n]).end_ts = q[n].ts
  BY DEF NewFlow
<1>4. q[n].ts \in Nat
  BY DEF Packets
<1> QED BY <1>1, <1>2, <1>3, <1>4 DEF Counted

Rank(O, i) == Cardinality({j \in O : j <= i})

(* ... and of the packets kept with it. *)
Kept(q, packets, O, S) ==
  /\ Len(packets) = IF Cardinality(O) <= MaxPackets THEN Cardinality(O) ELSE MaxPackets
  /\ \A i \in O :
       Rank(O, i) <= MaxPackets =>
         packets[Rank(O, i)] = [ ts        |-> q[i].ts,
                                 direction |-> IF i \in S THEN "fwd" ELSE "rev",
                                 length    |-> q[i].length ]

(* A packet after all others takes the last place and leaves theirs.       *)
LEMMA RankOfLast ==
  ASSUME NEW O \in SUBSET Nat, IsFiniteSet(O), NEW n \in Nat, \A i \in O : i < n
  PROVE  /\ Rank(O \cup {n}, n) = Cardinality(O) + 1
         /\ \A i \in O : /\ Rank(O \cup {n}, i) = Rank(O, i)
                         /\ Rank(O, i) \in 1 .. Cardinality(O)
<1>1. {j \in O \cup {n} : j <= n} = O \cup {n}
  <2>1. \A j \in O \cup {n} : j <= n
    OBVIOUS
  <2> QED BY <2>1
<1>2. ASSUME NEW i \in O
      PROVE  Rank(O \cup {n}, i) = Rank(O, i) /\ Rank(O, i) \in 1 .. Cardinality(O)
  <2>1. {j \in O \cup {n} : j <= i} = {j \in O : j <= i}
    OBVIOUS
  <2>2. PICK L \in SUBSET O : L = {j \in O : j <= i}
    OBVIOUS
  <2>3. i \in L
    BY <2>2
  <2>4. IsFiniteSet(L) /\ Cardinality(L) \in Nat /\ Cardinality(L) <= Cardinality(O)
    BY FS_Subset, FS_CardinalityType
  <2>5. Cardinality(L) # 0 /\ Cardinality(O) \in Nat
    BY <2>3, <2>4, FS_EmptySet, FS_CardinalityType
  <2> QED BY <2>1, <2>2, <2>4, <2>5 DEF Rank
<1>3. Cardinality(O \cup {n}) = Cardinality(O) + 1
  BY FS_AddElement
<1> QED BY <1>1, <1>2, <1>3 DEF Rank

(* The next packet of a flow is kept if there is room (pcap_parser.py,     *)
(* _record_packet).                                                        *)
LEMMA KeptAgain ==
  ASSUME NEW q, NEW packets \in Seq([ts : Nat, direction : {"fwd", "rev"}, length : Nat]),
         NEW O \in SUBSET Nat, IsFiniteSet(O), NEW S \in SUBSET O,
         Kept(q, packets, O, S),
         NEW n \in Nat, \A i \in O : i < n, q[n] \in Packets,
         NEW d \in {"fwd", "rev"}, NEW record,
         record = [ts |-> q[n].ts, direction |-> d, length |-> q[n].length]
  PROVE  Kept(q, IF Len(packets) < MaxPackets THEN Append(packets, record) ELSE packets,
              O \cup {n}, IF d = "fwd" THEN S \cup {n} ELSE S)
<1> DEFINE O2 == O \cup {n}
           S2 == IF d = "fwd" THEN S \cup {n} ELSE S
           later == IF Len(packets) < MaxPackets THEN Append(packets, record) ELSE packets
           Records == [ts : Nat, direction : {"fwd", "rev"}, length : Nat]
<1>0. Cardinality(O) \in Nat /\ Cardinality(O2) = Cardinality(O) + 1 /\ MaxPackets \in Nat
  <2>1. n \notin O
    OBVIOUS
  <2> QED BY <2>1, FS_AddElement, FS_CardinalityType, PcapAssumption
<1>1. Len(packets) = IF Cardinality(O) <= MaxPackets THEN Cardinality(O) ELSE MaxPackets
  BY DEF Kept
<1>2. record \in Records
  BY DEF Packets
<1>3. /\ Len(Append(packets, record)) = Len(packets) + 1
      /\ \A r \in 1 .. Len(packets) : Append(packets, record)[r] = packets[r]
      /\ Append(packets, record)[Len(packets) + 1] = record
  BY <1>2, AppendProperties
<1>4. Len(later) = IF Cardinality(O2) <= MaxPackets THEN Cardinality(O2) ELSE MaxPackets
  BY <1>0, <1>1, <1>3
<1>5. ASSUME NEW i \in O, Rank(O2, i) <= MaxPackets
      PROVE  later[Rank(O2, i)] = [ ts        |-> q[i].ts,
                                    direction |-> IF i \in S2 THEN "fwd" ELSE "rev",
                                    length    |-> q[i].length ]
  <2>1. PICK r : r = Rank(O, i)
    OBVIOUS
  <2>2. r = Rank(O2, i) /\ r \in 1 .. Cardinality(O) /\ r <= MaxPackets
    <3>1. Rank(O2, i) = Rank(O, i) /\ Rank(O, i) \in 1 .. Cardinality(O)
      BY RankOfLast
    <3> HIDE DEF O2
    <3> QED BY <1>5, <2>1, <3>1
  <2>3. r \in 1 .. Len(packets)
    BY <1>0, <1>1, <2>2
  <2>4. later[r] = packets[r]
    BY <1>3, <2>3
  <2>5. i \in S2 <=> i \in S
    OBVIOUS
  <2>6. packets[r] = [ ts        |-> q[i].ts,
                       direction |-> IF i \in S THEN "fwd" ELSE "rev",
                       length    |-> q[i].length ]
    BY <2>1, <2>2 DEF Kept
  <2> QED BY <2>2, <2>4, <2>5, <2>6
<1>6. ASSUME Rank(O2, n) <= MaxPackets
      PROVE  later[Rank(O2, n)] = [ ts        |-> q[n].ts,
                                    direction |-> IF n \in S2 THEN "fwd" ELSE "rev",
                                    length    |-> q[n].length ]
  <2>1. Rank(O2, n) = Cardinality(O) + 1
    BY RankOfLast
  <2>2. Len(packets) = Cardinality(O) /\ Len(packets) < MaxPackets
    BY <1>0, <1>1, <1>6, <2>1
  <2>3. later[Rank(O2, n)] = record
    BY <1>3, <2>1, <2>2
  <2>4. (IF n \in S2 THEN "fwd" ELSE "rev") = d
    OBVIOUS
  <2> QED BY <2>3, <2>4
<1> QED BY <1>4, <1>5, <1>6 DEF Kept

(* The first packet of a flow is kept (pcap_parser.py, _record_packet).    *)
LEMMA KeptFirst ==
  ASSUME NEW q, NEW n \in Nat,
         NEW record, record = [ts |-> q[n].ts, direction |-> "fwd", length |-> q[n].length]
  PROVE  Kept(q, <<record>>, {n}, {n})
<1>1. {j \in {n} : j <= n} = {n}
  <2>1. \A j \in {n} : j <= n
    OBVIOUS
  <2> QED BY <2>1
<1>2. Rank({n}, n) = 1
  BY <1>1, FS_Singleton DEF Rank
<1>3. Len(<<record>>) = 1 /\ <<record>>[1] = record /\ 1 <= MaxPackets /\ Cardinality({n}) = 1
  <2>1. Cardinality({n}) = 1
    BY FS_Singleton
  <2> QED BY <2>1, PcapAssumption
<1>4. Rank({n}, n) <= MaxPackets => <<record>>[Rank({n}, n)] = record
  BY <1>2, <1>3
<1> QED BY <1>3, <1>4 DEF Kept

(* Every flow is counted in full, and its packets are kept. *)
FlowsTrue ==
  \A k \in DOMAIN flow_map :
    /\ Counted(file, flow_map[k], Of(k), Sent(k))
    /\ Kept(file, pkt_map[k], Of(k), Sent(k))

(* What counting one more packet does to the packets of a key. *)
LEMMA OfGrows ==
  ASSUME PlaceInFile, CountPacket, NEW j
  PROVE  LET n == pos + 1
             p == file[n]
         IN  /\ Of(j)' = IF SameConversation(j, p) THEN Of(j) \cup {n} ELSE Of(j)
             /\ Sent(j)' = IF Key(p) = j THEN Sent(j) \cup {n} ELSE Sent(j)
             /\ n \in Nat /\ n \notin Of(j)
             /\ Of(j) \in SUBSET Nat /\ IsFiniteSet(Of(j))
             /\ Sent(j) \in SUBSET Of(j)
             /\ \A i \in Of(j) : i < n
             /\ \A i \in Of(j) \cup {n} : file[i] \in Packets
<1> DEFINE n == pos + 1
           p == file[n]
<1>1. file \in Seq(Packets) /\ pos \in Nat /\ n \in 1 .. Len(file) /\ decoded \in SUBSET (1 .. pos)
  BY FilesAreSequences DEF PlaceInFile, CountPacket, NextPacket
<1>2. file' = file /\ decoded' = decoded \cup {n}
  BY DEF CountPacket
<1>3. Of(j)' = {i \in decoded' : SameConversation(j, file[i])}
  BY <1>2 DEF Of, SameConversation
<1>4. Of(j)' = IF SameConversation(j, p) THEN Of(j) \cup {n} ELSE Of(j)
  <2> HIDE DEF n
  <2> QED BY <1>2, <1>3 DEF Of
<1>5. Sent(j)' = {i \in Of(j)' : Key(file[i]) = j}
  BY <1>2 DEF Sent
<1>6. Key(p) = j => SameConversation(j, p)
  BY DEF SameConversation
<1>7. Sent(j)' = IF Key(p) = j THEN Sent(j) \cup {n} ELSE Sent(j)
  <2> HIDE DEF n
  <2> QED BY <1>4, <1>5, <1>6 DEF Sent
<1>8. Of(j) \in SUBSET (1 .. pos) /\ Sent(j) \in SUBSET Of(j)
  BY <1>1 DEF Of, Sent
<1>9. IsFiniteSet(Of(j))
  <2>1. IsFiniteSet(1 .. pos)
    BY <1>1, FS_Interval
  <2> QED BY <1>8, <2>1, FS_Subset
<1>10. \A i \in Of(j) \cup {n} : file[i] \in Packets
  BY <1>1, <1>8
<1> QED BY <1>1, <1>4, <1>7, <1>8, <1>9, <1>10

(* The one flow of the table that a packet belongs to. *)
LEMMA OneFlow ==
  ASSUME NEW D \in SUBSET Keys, OneWayEach(D), NEW p \in Packets,
         NEW k \in D, SameConversation(k, p), NEW j \in D, SameConversation(j, p)
  PROVE  j = k
<1>1. Key(p) \in Keys /\ Opposite(Opposite(j)) = j /\ Opposite(Opposite(k)) = k
  BY CanonicalIsKey, OppositeTwice
<1>2. j = Key(p) \/ j = Opposite(Key(p))
  BY <1>1 DEF SameConversation
<1>3. k = Key(p) \/ k = Opposite(Key(p))
  BY <1>1 DEF SameConversation
<1> QED BY <1>1, <1>2, <1>3 DEF OneWayEach

LEMMA CanonicalIsSame ==
  ASSUME NEW table, NEW p \in Packets
  PROVE  SameConversation(Canonical(table, p), p)
BY OppositeTwice, CanonicalIsKey DEF SameConversation, Canonical

(* A conversation that may begin a flow has no packets so far. *)
LEMMA NewFlowIsNew ==
  ASSUME Inv, FirstComeFirstKept, NEW p \in Packets,
         Admitted(flow_map, p), Canonical(flow_map, p) \notin DOMAIN flow_map
  PROVE  Of(Canonical(flow_map, p)) = {} /\ Canonical(flow_map, p) = Key(p)
<1> DEFINE k == Canonical(flow_map, p)
<1>1. k = Key(p) /\ Opposite(Key(p)) \notin DOMAIN flow_map
  BY DEF Canonical
<1>2. Cardinality(DOMAIN flow_map) # MaxFlows
  BY FS_CardinalityType, PcapAssumption DEF Admitted, Inv, TablesSound
<1>3. ASSUME NEW i \in Of(k)
      PROVE  FALSE
  <2>1. i \in decoded /\ SameConversation(k, file[i])
    BY DEF Of
  <2>2. PICK j \in DOMAIN flow_map : SameConversation(j, file[i])
    BY <1>2, <2>1 DEF FirstComeFirstKept
  <2>3. j \in Keys /\ k \in Keys
    BY CanonicalIsKey DEF Inv, TablesSound
  <2>4. j = k \/ j = Opposite(k)
    BY <2>1, <2>2, <2>3, OppositeTwice DEF SameConversation
  <2> QED BY <1>1, <2>4
<1> QED BY <1>1, <1>3

(* Counting a packet keeps every flow true, its own and the others.        *)
LEMMA CountKeepsFlowsTrue ==
  ASSUME Inv, PlaceInFile, EveryFlowBegun, FlowsTrue, CountPacket
  PROVE  FlowsTrue'
<1> DEFINE n == pos + 1
           p == file[n]
           record == PacketRecord(flow_map, p)
           d == Direction(flow_map, p)
<1>0. file' = file /\ n \in Nat /\ p \in Packets
  <2>1. file' = file
    BY DEF CountPacket
  <2> QED BY <2>1, OfGrows
<1>1. PICK k \in Keys : k = Canonical(flow_map, p) /\ SameConversation(k, p)
  BY <1>0, CanonicalIsSame, CanonicalIsKey
<1>5. ASSUME NEW j
      PROVE  /\ SameConversation(j, p) => Of(j)' = Of(j) \cup {n}
             /\ Sent(j)' = IF Key(p) = j THEN Sent(j) \cup {n} ELSE Sent(j)
  BY OfGrows
<1>2. ASSUME NEW j \in DOMAIN flow_map, j # k, OneWayEach(DOMAIN flow_map \cup {k})
      PROVE  Of(j)' = Of(j) /\ Sent(j)' = Sent(j)
  <2>1. DOMAIN flow_map \cup {k} \in SUBSET Keys
    BY <1>1 DEF Inv, TablesSound
  <2>2. ~SameConversation(j, p)
    BY <1>0, <1>1, <1>2, <2>1, OneFlow
  <2>3. Key(p) # j
    BY <2>2 DEF SameConversation
  <2> QED BY <2>2, <2>3, OfGrows
<1>3. CASE ~Admitted(flow_map, p)
  <2>1. flow_map' = flow_map /\ pkt_map' = pkt_map
    BY <1>3 DEF CountPacket, tables
  <2>2. OneWayEach(DOMAIN flow_map \cup {k})
    BY <1>1, <1>0, CanonicalKeepsOneWay DEF Inv, TablesSound
  <2>3. k \notin DOMAIN flow_map
    BY <1>1, <1>3 DEF Admitted
  <2>4. ASSUME NEW j \in DOMAIN flow_map
        PROVE  Counted(file, flow_map[j], Of(j)', Sent(j)') /\ Kept(file, pkt_map[j], Of(j)', Sent(j)')
    BY <1>2, <2>2, <2>3 DEF FlowsTrue
  <2> QED BY <1>0, <2>1, <2>4 DEF FlowsTrue
<1>4. CASE Admitted(flow_map, p)
  <2>1. flow_map' = UpdateFlow(flow_map, p) /\ pkt_map' = RecordPacket(pkt_map, k, record)
    BY <1>1, <1>4 DEF CountPacket
  <2>2. DOMAIN flow_map' = DOMAIN flow_map \cup {k}
    BY <1>1, <2>1 DEF UpdateFlow, Bind
  <2>3. OneWayEach(DOMAIN flow_map \cup {k})
    BY <1>1, <1>0, CanonicalKeepsOneWay DEF Inv, TablesSound
  <2>4. ASSUME NEW j \in DOMAIN flow_map, j # k
        PROVE  Counted(file, flow_map'[j], Of(j)', Sent(j)') /\ Kept(file, pkt_map'[j], Of(j)', Sent(j)')
    <3>1. j \in DOMAIN pkt_map
      BY DEF Inv, TablesSound
    <3>2. flow_map'[j] = flow_map[j] /\ pkt_map'[j] = pkt_map[j]
      BY <1>1, <2>1, <2>4, <3>1 DEF UpdateFlow, RecordPacket, Bind
    <3>3. Of(j)' = Of(j) /\ Sent(j)' = Sent(j)
      BY <1>2, <2>3, <2>4
    <3> QED BY <3>2, <3>3 DEF FlowsTrue
  <2>5. Counted(file, flow_map'[k], Of(k)', Sent(k)') /\ Kept(file, pkt_map'[k], Of(k)', Sent(k)')
    <3>1. PICK O, S : O = Of(k) /\ S = Sent(k)
      OBVIOUS
    <3>2. /\ O \in SUBSET Nat /\ IsFiniteSet(O) /\ S \in SUBSET O
          /\ \A i \in O : i < n
          /\ \A i \in O \cup {n} : file[i] \in Packets
      BY <3>1, OfGrows
    <3>3. Of(k)' = O \cup {n} /\ Sent(k)' = IF d = "fwd" THEN S \cup {n} ELSE S
      <4>1. d = "fwd" <=> Key(p) = k
        BY <1>1 DEF Direction
      <4>2. Of(k)' = Of(k) \cup {n} /\ Sent(k)' = IF Key(p) = k THEN Sent(k) \cup {n} ELSE Sent(k)
        <5> HIDE DEF n, p
        <5> QED BY <1>1, <1>5
      <4> HIDE DEF n, p, d
      <4> QED BY <3>1, <4>1, <4>2
    <3>4. /\ d \in {"fwd", "rev"}
          /\ record = [ts |-> file[n].ts, direction |-> d, length |-> file[n].length]
      BY <1>1 DEF Direction, PacketRecord
    <3>5. CASE k \in DOMAIN flow_map
      <4>1. /\ k \in DOMAIN pkt_map
            /\ flow_map[k] \in Flows
            /\ pkt_map[k] \in Seq([ts : Nat, direction : {"fwd", "rev"}, length : Nat])
        BY <3>5 DEF Inv, TablesSound, FlowSound
      <4>2. /\ flow_map'[k] = AddedTo(flow_map[k], file[n], d)
            /\ pkt_map'[k] = IF Len(pkt_map[k]) < MaxPackets
                             THEN Append(pkt_map[k], record) ELSE pkt_map[k]
        BY <1>1, <2>1, <3>5, <4>1 DEF UpdateFlow, RecordPacket, Bind
      <4>3. Counted(file, flow_map[k], O, S) /\ Kept(file, pkt_map[k], O, S)
        BY <3>1, <3>5 DEF FlowsTrue
      <4> HIDE DEF n, p, d, record
      <4>4. Counted(file, AddedTo(flow_map[k], file[n], d), O \cup {n},
                    IF d = "fwd" THEN S \cup {n} ELSE S)
        BY <1>0, <3>2, <3>4, <4>1, <4>3, CountedAgain
      <4>5. file[n] \in Packets
        BY <3>2
      <4>6. Kept(file, IF Len(pkt_map[k]) < MaxPackets THEN Append(pkt_map[k], record) ELSE pkt_map[k],
                 O \cup {n}, IF d = "fwd" THEN S \cup {n} ELSE S)
        BY <1>0, <3>2, <3>4, <4>1, <4>3, <4>5, KeptAgain
      <4> QED BY <3>3, <4>2, <4>4, <4>6
    <3>6. CASE k \notin DOMAIN flow_map
      <4>1. k \notin DOMAIN pkt_map
        BY <3>6 DEF Inv, TablesSound
      <4>2. O = {} /\ k = Key(p)
        BY <1>1, <1>0, <1>4, <3>1, <3>6, NewFlowIsNew DEF EveryFlowBegun
      <4>3. d = "fwd" /\ S = {}
        BY <1>1, <3>2, <4>2 DEF Direction
      <4>4. Of(k)' = {n} /\ Sent(k)' = {n}
        BY <3>3, <4>2, <4>3
      <4>5. flow_map'[k] = NewFlow(file[n])
        BY <1>1, <2>1, <3>6 DEF UpdateFlow, Bind
      <4>6. pkt_map'[k] = IF Len(<<>>) < MaxPackets THEN Append(<<>>, record) ELSE <<>>
        BY <1>1, <2>1, <4>1 DEF RecordPacket, Bind
      <4>7. pkt_map'[k] = <<record>>
        BY <4>6, PcapAssumption
      <4>8. Counted(file, NewFlow(file[n]), {n}, {n})
        BY <1>0, CountedFirst
      <4>9. Kept(file, <<record>>, {n}, {n})
        BY <1>0, <3>4, <4>3, KeptFirst
      <4> QED BY <4>4, <4>5, <4>7, <4>8, <4>9
    <3> QED BY <3>5, <3>6
  <2>6. \A j \in DOMAIN flow_map' :
          Counted(file, flow_map'[j], Of(j)', Sent(j)') /\ Kept(file, pkt_map'[j], Of(j)', Sent(j)')
    <3> SUFFICES ASSUME NEW j \in DOMAIN flow_map'
                 PROVE  /\ Counted(file, flow_map'[j], Of(j)', Sent(j)')
                        /\ Kept(file, pkt_map'[j], Of(j)', Sent(j)')
      OBVIOUS
    <3>1. CASE j = k
      BY <2>5, <3>1
    <3>2. CASE j # k
      BY <2>2, <2>4, <3>2
    <3> QED BY <3>1, <3>2
  <2> QED BY <1>0, <2>6 DEF FlowsTrue
<1> QED BY <1>3, <1>4

(* So does every other step: a parser that starts over empties the table.  *)
LEMMA FlowsStayTrue ==
  ASSUME Inv, PlaceInFile, EveryFlowBegun, FlowsTrue, [Next]_vars
  PROVE  FlowsTrue'
<1>1. CASE CountPacket
  BY <1>1, CountKeepsFlowsTrue
<1>2. CASE DpktFails \/ ScapyFails
  <2>1. flow_map' = <<>>
    BY <1>2 DEF DpktFails, ScapyFails, StartOver
  <2>2. DOMAIN flow_map' = {}
    BY <2>1
  <2> QED BY <2>2 DEF FlowsTrue
<1>3. CASE \/ Refuse \/ Open \/ SkipPacket \/ WarnPacket \/ EndOfFile \/ WrongFormat
           \/ UNCHANGED vars
  <2>1. UNCHANGED <<file, flow_map, pkt_map, decoded>>
    BY <1>3 DEF Refuse, Open, SkipPacket, WarnPacket, EndOfFile, WrongFormat, Conclude, vars, tables
  <2> QED BY <2>1 DEF FlowsTrue, SameConversation, Of, Sent
<1> QED BY <1>1, <1>2, <1>3 DEF Next

(* What is kept by every step says what the two properties say.            *)
LEMMA FlowsTrueMeans ==
  ASSUME Inv, PlaceInFile, FlowsTrue
  PROVE  CountedInFull /\ PacketsFollowFlow
<1> SUFFICES ASSUME NEW k \in DOMAIN flow_map
             PROVE  /\ flow_map[k].packet_count = Cardinality(Of(k))
                    /\ flow_map[k].bytes_sent = Volume(Sent(k))
                    /\ flow_map[k].bytes_recv = Volume(Received(k))
                    /\ flow_map[k].rst <=> \E i \in Of(k) : file[i].rst
                    /\ flow_map[k].end_ts = Max({file[i].ts : i \in Of(k)})
                    /\ flow_map[k].start_ts = file[Min(Of(k))].ts
                    /\ Min(Of(k)) \in Sent(k)
                    /\ Len(pkt_map[k]) = Min({MaxPackets, Cardinality(Of(k))})
                    /\ \A i \in Of(k) :
                         LET n == Cardinality({j \in Of(k) : j <= i}) IN
                         n <= MaxPackets =>
                           pkt_map[k][n] = [ ts        |-> file[i].ts,
                                             direction |-> IF i \in Sent(k) THEN "fwd" ELSE "rev",
                                             length    |-> file[i].length ]
  BY DEF CountedInFull, PacketsFollowFlow
<1>1. Counted(file, flow_map[k], Of(k), Sent(k)) /\ Kept(file, pkt_map[k], Of(k), Sent(k))
  BY DEF FlowsTrue
<1>2. file \in Seq(Packets) /\ decoded \in SUBSET (1 .. pos) /\ pos \in 0 .. Len(file)
  BY FilesAreSequences DEF PlaceInFile
<1>3. /\ Of(k) \in SUBSET (1 .. pos) /\ Of(k) \in SUBSET Nat
      /\ Sent(k) \in SUBSET Of(k)
      /\ \A i \in Of(k) : file[i] \in Packets
  <2>1. Of(k) \in SUBSET (1 .. pos) /\ Sent(k) \in SUBSET Of(k)
    BY <1>2 DEF Of, Sent
  <2>2. \A i \in Of(k) : i \in 1 .. Len(file)
    BY <1>2, <2>1
  <2> QED BY <1>2, <2>1, <2>2
<1>4. Volume(Sent(k)) = LengthSum(file, Sent(k)) /\ Volume(Received(k)) = LengthSum(file, Of(k) \ Sent(k))
  <2>1. IsFiniteSet(Of(k))
    <3>1. IsFiniteSet(1 .. pos)
      BY <1>2, FS_Interval
    <3> QED BY <1>3, <3>1, FS_Subset
  <2>2. /\ Sent(k) \in SUBSET DOMAIN file /\ Of(k) \ Sent(k) \in SUBSET DOMAIN file
        /\ \A i \in Of(k) : file[i].length \in Nat
    BY <1>2, <1>3 DEF Packets
  <2>3. Received(k) = Of(k) \ Sent(k)
    BY DEF Received
  <2>4. IsFiniteSet(Sent(k)) /\ IsFiniteSet(Of(k) \ Sent(k))
    BY <1>3, <2>1, FS_Subset
  <2> QED BY <1>3, <2>2, <2>3, <2>4, VolumeIsSum
<1>5. flow_map[k].end_ts = Max({file[i].ts : i \in Of(k)})
  <2>1. PICK T : T = {file[i].ts : i \in Of(k)}
    OBVIOUS
  <2>2. T \in SUBSET Nat
    BY <1>3, <2>1 DEF Packets
  <2>3. flow_map[k].end_ts \in T /\ \A x \in T : x <= flow_map[k].end_ts
    BY <1>1, <2>1 DEF Counted
  <2> QED BY <2>1, <2>2, <2>3, MaxIs
<1>6. flow_map[k].start_ts = file[Min(Of(k))].ts /\ Min(Of(k)) \in Sent(k)
  <2>1. PICK m \in Sent(k) : flow_map[k].start_ts = file[m].ts /\ \A i \in Of(k) : m <= i
    BY <1>1 DEF Counted
  <2>2. Min(Of(k)) = m
    BY <1>3, <2>1, MinIs
  <2> QED BY <2>1, <2>2
<1>7. Len(pkt_map[k]) = Min({MaxPackets, Cardinality(Of(k))})
  <2>1. IsFiniteSet(Of(k))
    <3>1. IsFiniteSet(1 .. pos)
      BY <1>2, FS_Interval
    <3> QED BY <1>3, <3>1, FS_Subset
  <2>2. PICK c \in Nat : c = Cardinality(Of(k))
    BY <2>1, FS_CardinalityType
  <2>3. MaxPackets \in Nat
    BY PcapAssumption
  <2>4. Min({MaxPackets, c}) = IF c <= MaxPackets THEN c ELSE MaxPackets
    <3>1. CASE c <= MaxPackets
      <4>1. c \in {MaxPackets, c} /\ \A x \in {MaxPackets, c} : c <= x
        BY <2>2, <2>3, <3>1
      <4> QED BY <2>2, <2>3, <3>1, <4>1, MinIs
    <3>2. CASE ~(c <= MaxPackets)
      <4>1. MaxPackets \in {MaxPackets, c} /\ \A x \in {MaxPackets, c} : MaxPackets <= x
        BY <2>2, <2>3, <3>2
      <4> QED BY <2>2, <2>3, <3>2, <4>1, MinIs
    <3> QED BY <3>1, <3>2
  <2> QED BY <1>1, <2>2, <2>4 DEF Kept
<1> QED BY <1>1, <1>4, <1>5, <1>6, <1>7 DEF Counted, Kept, Rank

(* The list of ICMP errors; it is the parser's own until the first one fails. *)
EventsSound ==
  /\ ErrorsReported
  /\ stage \in {"received", "dpkt"} => ErrorsAfter(0)

(* A decoded ICMP error goes to the end of the list (pcap_parser.py,       *)
(* _icmp_events).                                                          *)
LEMMA OneMoreError ==
  ASSUME PlaceInFile, CountPacket, NEW before \in 0 .. Len(icmp_events), ErrorsAfter(before)
  PROVE  /\ ErrorsAfter(before)'
         /\ before \in 0 .. Len(icmp_events')
         /\ \A n \in 1 .. before : icmp_events'[n] = icmp_events[n]
<1> DEFINE n == pos + 1
           p == file[n]
           E == {i \in decoded : file[i].icmp_error}
           L == Len(icmp_events)
<1>1. /\ pos \in Nat /\ decoded \in SUBSET (1 .. pos) /\ n \in DOMAIN file
      /\ icmp_events \in Seq(DOMAIN file) /\ L \in Nat
      /\ \A i \in DOMAIN file : i \in Nat
  BY FilesAreSequences DEF PlaceInFile, CountPacket, NextPacket
<1>2. file' = file /\ decoded' = decoded \cup {n}
  BY DEF CountPacket
<1>3. {icmp_events[i] : i \in before + 1 .. L} = E
  BY DEF ErrorsAfter
<1>4. \A i \in 1 .. L : icmp_events[i] \in Nat
  BY <1>1
<1>5. \A i \in before + 1 .. L : icmp_events[i] < n
  <2>1. \A i \in E : i < n
    BY <1>1
  <2> QED BY <1>3, <2>1
<1>6. CASE ~p.icmp_error
  <2>1. icmp_events' = icmp_events
    BY <1>6 DEF CountPacket, Report
  <2>2. {i \in decoded' : file[i].icmp_error} = E
    BY <1>2, <1>6
  <2> QED BY <1>2, <2>1, <2>2 DEF ErrorsAfter
<1>7. CASE p.icmp_error
  <2>1. icmp_events' = Append(icmp_events, n)
    BY <1>7 DEF CountPacket, Report
  <2>2. /\ Len(icmp_events') = L + 1
        /\ \A i \in 1 .. L : icmp_events'[i] = icmp_events[i]
        /\ icmp_events'[L + 1] = n
    BY <1>1, <2>1, AppendProperties
  <2>3. {i \in decoded' : file[i].icmp_error} = E \cup {n}
    BY <1>2, <1>7
  <2>4. {icmp_events'[i] : i \in before + 1 .. L + 1} = E \cup {n}
    <3>1. before + 1 .. L + 1 = (before + 1 .. L) \cup {L + 1}
      BY <1>1
    <3>2. \A i \in before + 1 .. L : icmp_events'[i] = icmp_events[i]
      BY <1>1, <2>2
    <3> HIDE DEF E, L, n
    <3> QED BY <1>3, <2>2, <3>1, <3>2
  <2>5. ASSUME NEW i \in before + 1 .. L + 1, NEW j \in before + 1 .. L + 1, i < j
        PROVE  icmp_events'[i] < icmp_events'[j]
    <3>1. i \in before + 1 .. L /\ i \in 1 .. L
      BY <1>1, <2>5
    <3>2. CASE j = L + 1
      BY <1>5, <2>2, <3>1, <3>2
    <3>3. CASE j # L + 1
      <4>1. j \in before + 1 .. L /\ j \in 1 .. L
        BY <1>1, <3>3
      <4> QED BY <2>2, <2>5, <3>1, <4>1 DEF ErrorsAfter
    <3> QED BY <3>2, <3>3
  <2>6. before \in 0 .. L + 1 /\ \A i \in 1 .. before : icmp_events'[i] = icmp_events[i]
    BY <1>1, <2>2
  <2> QED BY <1>2, <2>2, <2>3, <2>4, <2>5, <2>6 DEF ErrorsAfter
<1> QED BY <1>6, <1>7

LEMMA CountKeepsEvents ==
  ASSUME PlaceInFile, EventsSound, CountPacket
  PROVE  EventsSound'
<1>1. file' = file /\ stage' = stage
  BY DEF CountPacket
<1>2. PICK before \in 0 .. Len(icmp_events) :
         /\ ErrorsAfter(before)
         /\ \A n \in 1 .. before : file[icmp_events[n]].icmp_error
         /\ \A m, n \in 1 .. before : icmp_events[m] = icmp_events[n] => m = n
  BY DEF EventsSound, ErrorsReported
<1>3. /\ ErrorsAfter(before)'
      /\ before \in 0 .. Len(icmp_events')
      /\ \A n \in 1 .. before : icmp_events'[n] = icmp_events[n]
  BY <1>2, OneMoreError
<1>4. ErrorsReported'
  BY <1>1, <1>2, <1>3 DEF ErrorsReported
<1>5. stage \in {"received", "dpkt"} => ErrorsAfter(0)'
  <2>1. 0 \in 0 .. Len(icmp_events)
    BY DEF PlaceInFile
  <2> QED BY <2>1, OneMoreError DEF EventsSound
<1> QED BY <1>1, <1>4, <1>5 DEF EventsSound

(* A parser that fails leaves errors that are all different                *)
(* (pcap_parser.py, parse).                                                *)
LEMMA FailureKeepsEvents ==
  ASSUME PlaceInFile, EventsSound, DpktFails \/ ScapyFails
  PROVE  EventsSound'
<1> DEFINE L == Len(icmp_events)
<1>1. /\ file' = file /\ icmp_events' = icmp_events /\ decoded' = {}
      /\ stage' \notin {"received", "dpkt"}
  BY DEF DpktFails, ScapyFails, StartOver
<1>2. L \in Nat /\ \A i \in 1 .. L : icmp_events[i] \in Nat
  <2>1. icmp_events \in Seq(DOMAIN file) /\ DOMAIN file = 1 .. Len(file)
    BY FilesAreSequences DEF PlaceInFile
  <2> QED BY <2>1
<1>3. L + 1 .. L = {}
  BY <1>2
<1>4. ErrorsAfter(L)'
  BY <1>1, <1>3 DEF ErrorsAfter
<1>5. /\ \A n \in 1 .. L : file[icmp_events[n]].icmp_error
      /\ \A m, n \in 1 .. L : icmp_events[m] = icmp_events[n] => m = n
  <2>1. CASE DpktFails
    <3>1. ErrorsAfter(0)
      BY <2>1 DEF EventsSound, DpktFails
    <3>2. {icmp_events[n] : n \in 1 .. L} = {i \in decoded : file[i].icmp_error}
      BY <3>1 DEF ErrorsAfter
    <3>3. \A m, n \in 1 .. L : m < n => icmp_events[m] < icmp_events[n]
      BY <3>1 DEF ErrorsAfter
    <3>4. \A n \in 1 .. L : file[icmp_events[n]].icmp_error
      BY <3>2
    <3>5. \A m, n \in 1 .. L : m < n => icmp_events[m] # icmp_events[n]
      BY <1>2, <3>3
    <3>6. \A m, n \in 1 .. L : m # n => m < n \/ n < m
      BY <1>2
    <3> QED BY <3>4, <3>5, <3>6
  <2>2. CASE ScapyFails
    <3>1. decoded = {}
      BY <2>2 DEF ScapyFails, PlaceInFile
    <3>2. PICK before \in 0 .. L :
             /\ ErrorsAfter(before)
             /\ \A n \in 1 .. before : file[icmp_events[n]].icmp_error
             /\ \A m, n \in 1 .. before : icmp_events[m] = icmp_events[n] => m = n
      BY DEF EventsSound, ErrorsReported
    <3>3. {icmp_events[n] : n \in before + 1 .. L} = {}
      BY <3>1, <3>2 DEF ErrorsAfter
    <3>4. before = L
      <4>1. L \notin before + 1 .. L
        BY <3>3
      <4> QED BY <1>2, <4>1
    <3> QED BY <3>2, <3>4
  <2> QED BY <2>1, <2>2
<1>6. ErrorsReported'
  BY <1>1, <1>2, <1>4, <1>5 DEF ErrorsReported
<1> QED BY <1>1, <1>6 DEF EventsSound

LEMMA EventsStep ==
  ASSUME PlaceInFile, EventsSound, [Next]_vars
  PROVE  EventsSound'
<1>1. CASE CountPacket
  BY <1>1, CountKeepsEvents
<1>2. CASE DpktFails \/ ScapyFails
  BY <1>2, FailureKeepsEvents
<1>3. CASE \/ Refuse \/ Open \/ SkipPacket \/ WarnPacket \/ EndOfFile \/ WrongFormat
           \/ UNCHANGED vars
  <2>1. UNCHANGED <<file, icmp_events, decoded>>
    BY <1>3 DEF Refuse, Open, SkipPacket, WarnPacket, EndOfFile, WrongFormat, Conclude, vars, tables
  <2>2. stage' \in {"received", "dpkt"} => stage \in {"received", "dpkt"}
    BY <1>3 DEF Refuse, Open, SkipPacket, WarnPacket, EndOfFile, WrongFormat, Conclude, vars
  <2>3. \A before : ErrorsAfter(before)' <=> ErrorsAfter(before)
    BY <2>1 DEF ErrorsAfter
  <2>4. ErrorsReported'
    BY <2>1, <2>3 DEF EventsSound, ErrorsReported
  <2> QED BY <2>2, <2>3, <2>4 DEF EventsSound
<1> QED BY <1>1, <1>2, <1>3 DEF Next

(* Every ICMP error the parser at work has decoded is in the list, in the  *)
(* order of the file, and what stands before it are the errors of a parser *)
(* that failed, for every file (pcap_parser.py, _icmp_events).             *)
THEOREM ErrorsCorrect == Spec => []ErrorsReported
<1>1. Init => PlaceInFile /\ EventsSound
  <2> SUFFICES ASSUME Init PROVE EventsSound
    BY PlaceStarts
  <2>1. Len(icmp_events) = 0 /\ decoded = {} /\ 0 + 1 .. 0 = {} /\ 1 .. 0 = {} /\ 0 \in 0 .. 0
    BY DEF Init
  <2>2. ErrorsAfter(0)
    BY <2>1 DEF ErrorsAfter
  <2>3. ErrorsReported
    BY <2>1, <2>2 DEF ErrorsReported
  <2> QED BY <2>2, <2>3 DEF EventsSound
<1>2. EventsSound => ErrorsReported
  BY DEF EventsSound
<1>3. PlaceInFile /\ EventsSound /\ [Next]_vars => PlaceInFile' /\ EventsSound'
  BY PlaceStep, EventsStep
<1> QED BY <1>1, <1>2, <1>3, PTL DEF Spec

LEMMA FlowsStartTrue ==
  ASSUME Init
  PROVE  Inv /\ PlaceInFile /\ EveryFlowBegun /\ FlowsTrue
<1>1. Inv
  BY EmptyTablesSound DEF Init, Inv
<1>2. DOMAIN flow_map = {} /\ decoded = {}
  BY DEF Init
<1> QED BY <1>1, <1>2, PlaceStarts DEF EveryFlowBegun, FirstComeFirstKept, FlowsTrue

(* A flow in the table is counted in full and in the right direction,      *)
(* whatever the limits, the file and the parsers that failed before        *)
(* (pcap_parser.py, _update_flow).                                         *)
THEOREM FlowsCountedInFull == Spec => []CountedInFull
<1>1. Inv /\ PlaceInFile /\ EveryFlowBegun /\ FlowsTrue /\ [Next]_vars
        => Inv' /\ PlaceInFile' /\ EveryFlowBegun' /\ FlowsTrue'
  BY NextInv, PlaceStep, OrderStep, FlowsStayTrue
<1>2. Inv /\ PlaceInFile /\ FlowsTrue => CountedInFull
  BY FlowsTrueMeans
<1> QED BY <1>1, <1>2, FlowsStartTrue, PTL DEF Spec

(* The packets kept with a flow are its first ones, up to the limit, in    *)
(* the order of the file and with their directions (pcap_parser.py,        *)
(* _record_packet).                                                        *)
THEOREM FirstPacketsKept == Spec => []PacketsFollowFlow
<1>1. Inv /\ PlaceInFile /\ EveryFlowBegun /\ FlowsTrue /\ [Next]_vars
        => Inv' /\ PlaceInFile' /\ EveryFlowBegun' /\ FlowsTrue'
  BY NextInv, PlaceStep, OrderStep, FlowsStayTrue
<1>2. Inv /\ PlaceInFile /\ FlowsTrue => PacketsFollowFlow
  BY FlowsTrueMeans
<1> QED BY <1>1, <1>2, FlowsStartTrue, PTL DEF Spec
-----------------------------------------------------------------------------
(* What is stored. *)

(* The flows become sessions, one each (pcap_parser.py, _to_sessions).     *)
LEMMA SessionsOfFlows ==
  ASSUME Inv
  PROVE  \E keys :
           /\ keys \in [1 .. Cardinality(DOMAIN flow_map) -> DOMAIN flow_map]
           /\ Cardinality(DOMAIN flow_map) \in Nat
           /\ \A i, j \in DOMAIN keys : keys[i] = keys[j] => i = j
           /\ \A k \in DOMAIN flow_map : \E i \in DOMAIN keys : keys[i] = k
           /\ ToSessions = [i \in DOMAIN keys |-> Session(keys[i], i)]
<1>1. PICK S : S = DOMAIN flow_map
  OBVIOUS
<1>2. IsFiniteSet(S)
  BY <1>1 DEF Inv, TablesSound
<1>3. PICK n \in Nat : n = Cardinality(S)
  BY <1>2, FS_CardinalityType
<1>4. PICK keys : keys = SetToSeq(S)
  OBVIOUS
<1>5. keys \in [1 .. n -> S] /\ IsInjective(keys)
  <2>1. \E f \in [1 .. n -> S] : IsInjective(f)
    BY <1>2, <1>3, FS_CardinalityType DEF ExistsBijection, Bijection, Injection
  <2> QED BY <1>3, <1>4, <2>1 DEF SetToSeq
<1>6. keys \in Injection(1 .. n, S)
  BY <1>5 DEF Injection
<1>7. keys \in Surjection(1 .. n, S)
  <2>1. Cardinality(1 .. n) = n
    BY FS_Interval
  <2> QED BY <1>2, <1>3, <1>6, <2>1, FS_Injection
<1>8. \A k \in S : \E i \in DOMAIN keys : keys[i] = k
  BY <1>5, <1>7 DEF Surjection
<1>9. ToSessions = [i \in DOMAIN keys |-> Session(keys[i], i)]
  BY <1>1, <1>4 DEF ToSessions
<1>10. \A i, j \in DOMAIN keys : keys[i] = keys[j] => i = j
  BY <1>5 DEF IsInjective
<1> QED BY <1>1, <1>3, <1>5, <1>8, <1>9, <1>10

LEMMA FlowMakesSession ==
  ASSUME Inv, NEW k \in DOMAIN flow_map, NEW i \in Nat
  PROVE  /\ Session(k, i) \in N!Sessions
         /\ [src |-> k.src, dst |-> k.dst, protocol |-> k.protocol] = k
<1>1. FlowSound(flow_map[k], pkt_map[k]) /\ k \in Keys
  BY DEF Inv, TablesSound
<1>2. k.src \in N!Endpoints /\ k.dst \in N!Endpoints /\ k.protocol \in {"TCP", "UDP", "ICMP", "other"}
  BY <1>1 DEF Keys, Endpoints, N!Endpoints
<1>3. pkt_map[k] \in Seq(PacketRecords)
  BY <1>1 DEF FlowSound, PacketRecords
<1>4. PICK f : f = flow_map[k] /\ f \in Flows
  BY <1>1 DEF FlowSound
<1>5. Session(k, i) \in N!Sessions
  BY <1>2, <1>3, <1>4 DEF Session, N!Sessions, Flows
<1>6. [src |-> k.src, dst |-> k.dst, protocol |-> k.protocol] = k
  BY <1>1 DEF Keys
<1> QED BY <1>5, <1>6

(* The model and the proofs about it speak of one normalizer.              *)
LEMMA SameNormalizer == N!Left = Normalize(ToSessions)
BY DEF N!Left, N!Normalize, Normalize, N!Merged, Merged, N!GroupOf, GroupOf,
       N!SameGroup, SameGroup, N!HasNoPorts, HasNoPorts, N!Span, Span, N!Min, Min, N!Max, Max,
       N!PacketsOf, PacketsOf, N!PacketAt, PacketAt, N!Nth, Nth, N!Places, Places,
       N!Sooner, Sooner, N!AsExtended, AsExtended, N!SumFunction, SumFunction,
       N!SumFunctionOnSet, SumFunctionOnSet, N!FoldFunctionOnSet, FoldFunctionOnSet,
       N!MapThenFoldSet, MapThenFoldSet, N!Cardinality, Cardinality

(* Each flow is stored as the one session it became, with its packets      *)
(* sorted: no two of them belong together.                                 *)
LEMMA FlowsStoredAlone ==
  ASSUME Inv, NEW keys, ToSessions = [i \in DOMAIN keys |-> Session(keys[i], i)],
         NEW n \in Nat, keys \in [1 .. n -> DOMAIN flow_map],
         \A i, j \in DOMAIN keys : keys[i] = keys[j] => i = j
  PROVE  /\ N!Given
         /\ Normalize(ToSessions) = {N!Merged(ToSessions, {i}) : i \in DOMAIN keys}
<1>1. DOMAIN keys = 1 .. n /\ DOMAIN ToSessions = 1 .. n
  OBVIOUS
<1>2. \A i \in 1 .. n : keys[i] \in DOMAIN flow_map /\ i \in Nat /\ ToSessions[i] = Session(keys[i], i)
  OBVIOUS
<1>3. \A i \in 1 .. n : ToSessions[i] \in N!Sessions
  BY <1>2, FlowMakesSession
<1>4. ToSessions \in [1 .. n -> N!Sessions]
  BY <1>1, <1>3
<1>5. N!Given
  BY <1>4 DEF N!Given
<1>6. ASSUME NEW i \in 1 .. n, NEW j \in 1 .. n, N!SameGroup(ToSessions[i], ToSessions[j])
      PROVE  i = j
  <2>1. /\ ToSessions[i].src = keys[i].src /\ ToSessions[i].dst = keys[i].dst
        /\ ToSessions[i].protocol = keys[i].protocol
        /\ ToSessions[j].src = keys[j].src /\ ToSessions[j].dst = keys[j].dst
        /\ ToSessions[j].protocol = keys[j].protocol
    BY <1>2 DEF Session
  <2>2. keys[i].src = keys[j].src /\ keys[i].dst = keys[j].dst /\ keys[i].protocol = keys[j].protocol
    BY <1>6, <2>1 DEF N!SameGroup
  <2>3. /\ [src |-> keys[i].src, dst |-> keys[i].dst, protocol |-> keys[i].protocol] = keys[i]
        /\ [src |-> keys[j].src, dst |-> keys[j].dst, protocol |-> keys[j].protocol] = keys[j]
    BY <1>2, FlowMakesSession
  <2>4. keys[i] = keys[j]
    BY <2>2, <2>3
  <2> QED BY <1>1, <2>4
<1>7. N!Left = {N!Merged(ToSessions, {i}) : i \in DOMAIN ToSessions}
  BY <1>1, <1>5, <1>6, NormalizerApplies, N!AllAlone
<1> QED BY <1>1, <1>5, <1>7, SameNormalizer

(* One of the stored sessions.                                             *)
LEMMA StoredSession ==
  ASSUME Inv, N!Given, NEW i \in DOMAIN ToSessions, NEW k \in DOMAIN flow_map, i \in Nat,
         ToSessions[i] = Session(k, i), NEW t, t = N!Merged(ToSessions, {i})
  PROVE  /\ [src |-> t.src, dst |-> t.dst, protocol |-> t.protocol] = k
         /\ t.bytes_sent = flow_map[k].bytes_sent /\ t.bytes_recv = flow_map[k].bytes_recv
         /\ t.packet_count = flow_map[k].packet_count
         /\ \A m, n \in DOMAIN t.packets : m < n => t.packets[m].ts <= t.packets[n].ts
<1>1. PICK s : s = ToSessions[i]
  OBVIOUS
<1>2. /\ s.src = k.src /\ s.dst = k.dst /\ s.protocol = k.protocol
      /\ s.bytes_sent = flow_map[k].bytes_sent /\ s.bytes_recv = flow_map[k].bytes_recv
      /\ s.packet_count = flow_map[k].packet_count /\ s.packets = pkt_map[k]
  BY <1>1 DEF Session
<1>3. /\ t.src = s.src /\ t.dst = s.dst /\ t.protocol = s.protocol
      /\ t.bytes_sent = s.bytes_sent /\ t.bytes_recv = s.bytes_recv
      /\ t.packet_count = s.packet_count
  BY <1>1, NormalizerApplies, N!MergedAlone
<1>4. [src |-> t.src, dst |-> t.dst, protocol |-> t.protocol] = k
  BY <1>2, <1>3, FlowMakesSession
<1>5. \A m, n \in DOMAIN t.packets : m < n => t.packets[m].ts <= t.packets[n].ts
  BY NormalizerApplies, N!SortedAlone
<1> QED BY <1>2, <1>3, <1>4, <1>5

LEMMA StoredPackets ==
  ASSUME N!Given, NEW i \in DOMAIN ToSessions, NEW k \in DOMAIN flow_map,
         ToSessions[i] = Session(k, i), NEW r
  PROVE  N!Times(N!Merged(ToSessions, {i}).packets, r) = N!Times(pkt_map[k], r)
<1>1. N!Times(N!Merged(ToSessions, {i}).packets, r) = N!Times(ToSessions[i].packets, r)
  BY NormalizerApplies, N!SortedAlone
<1>2. ToSessions[i].packets = pkt_map[k]
  BY DEF Session
<1> QED BY <1>1, <1>2

(* The bytes of both directions are the bytes of the flow.                 *)
LEMMA BothDirections ==
  ASSUME Inv, PlaceInFile, FlowsTrue, NEW k \in DOMAIN flow_map
  PROVE  flow_map[k].bytes_sent + flow_map[k].bytes_recv = Volume(Of(k))
<1>1. file \in Seq(Packets) /\ decoded \in SUBSET (1 .. pos) /\ pos \in 0 .. Len(file)
  BY FilesAreSequences DEF PlaceInFile
<1>0. /\ DOMAIN file = 1 .. Len(file) /\ 1 .. pos \in SUBSET DOMAIN file
      /\ \A i \in DOMAIN file : file[i] \in Packets
  <2>1. PICK n \in Nat : n = Len(file) /\ file \in [1 .. n -> Packets]
    BY <1>1
  <2> QED BY <1>1, <2>1
<1>2. Of(k) \in SUBSET (1 .. pos) /\ Of(k) \in SUBSET DOMAIN file
  BY <1>0, <1>1 DEF Of
<1>3. IsFiniteSet(Of(k))
  BY <1>1, <1>2, FS_Interval, FS_Subset
<1>4. PICK S, R : S = Sent(k) /\ R = Received(k)
  OBVIOUS
<1>5. S \cup R = Of(k) /\ S \cap R = {} /\ S \in SUBSET DOMAIN file /\ R \in SUBSET DOMAIN file
  BY <1>2, <1>4 DEF Sent, Received
<1>6. IsFiniteSet(S) /\ IsFiniteSet(R)
  BY <1>3, <1>5, FS_Subset
<1>7. \A i \in DOMAIN file : file[i].length \in Nat
  BY <1>0 DEF Packets
<1>8. PICK v : v = [i \in Of(k) |-> file[i].length]
  OBVIOUS
<1>9. \A T \in SUBSET Of(k) : IsFiniteSet(T) => Volume(T) = N!Sum(v, T)
  <2> SUFFICES ASSUME NEW T \in SUBSET Of(k), IsFiniteSet(T)
               PROVE  Volume(T) = N!Sum(v, T)
    OBVIOUS
  <2>1. PICK w : w = [i \in T |-> file[i].length]
    OBVIOUS
  <2>2. \A i \in T : w[i] \in Nat /\ w[i] = v[i]
    BY <1>2, <1>7, <1>8, <2>1
  <2>3. N!Sum(w, T) = N!Sum(v, T)
    BY <2>2, NormalizerApplies, SameSets, N!SumSame
  <2>4. Volume(T) = N!Sum(w, T)
    BY <1>2, <1>7, <2>1, VolumeIsSum DEF LengthSum
  <2> QED BY <2>3, <2>4
<1>10. \A i \in S \cup R : v[i] \in Nat
  BY <1>2, <1>5, <1>7, <1>8
<1>11. N!Sum(v, S \cup R) = N!Sum(v, S) + N!Sum(v, R)
  BY <1>5, <1>6, <1>10, NormalizerApplies, SameSets, N!SumOfTwo
<1>12. Volume(Of(k)) = Volume(S) + Volume(R)
  BY <1>3, <1>5, <1>6, <1>9, <1>11
<1>13. flow_map[k].bytes_sent = Volume(S) /\ flow_map[k].bytes_recv = Volume(R)
  BY <1>4, FlowsTrueMeans DEF CountedInFull
<1> QED BY <1>12, <1>13

(* Once stored, the capture is what the normalizer made of the flows.      *)
Stored ==
  stage = "stored" => capture = Normalize(ToSessions) /\ ToSessions # <<>>

LEMMA StoredStep == Stored /\ [Next]_vars => Stored'
<1> SUFFICES ASSUME Stored, [Next]_vars, stage' = "stored"
             PROVE  (capture = Normalize(ToSessions) /\ ToSessions # <<>>)'
  BY DEF Stored
<1>1. CASE EndOfFile
  <2>1. UNCHANGED <<flow_map, pkt_map>>
    BY <1>1 DEF EndOfFile, Conclude, tables
  <2>2. ToSessions' = ToSessions
    BY <2>1 DEF ToSessions, Session
  <2>3. capture' = Normalize(ToSessions) /\ ToSessions # <<>>
    BY <1>1 DEF EndOfFile, Conclude
  <2>4. Normalize(ToSessions)' = Normalize(ToSessions')
    OBVIOUS
  <2> QED BY <2>2, <2>3
<1>2. CASE UNCHANGED vars
  <2>1. UNCHANGED <<flow_map, pkt_map, capture, stage>>
    BY <1>2 DEF vars, tables
  <2>2. ToSessions' = ToSessions
    BY <2>1 DEF ToSessions, Session
  <2> QED BY <2>1, <2>2 DEF Stored
<1>3. CASE SkipPacket \/ WarnPacket \/ CountPacket
  BY <1>3 DEF SkipPacket, WarnPacket, CountPacket, NextPacket, Readable, Parsers
<1>4. CASE Refuse \/ Open \/ DpktFails \/ ScapyFails
  BY <1>4 DEF Refuse, Open, DpktFails, ScapyFails, StartOver
<1>5. CASE WrongFormat
  BY <1>5 DEF WrongFormat, Conclude
<1> QED BY <1>1, <1>2, <1>3, <1>4, <1>5 DEF Next

LEMMA StoredMeans ==
  ASSUME Inv, PlaceInFile, FlowsTrue, Stored
  PROVE  StoredAsRead
<1> SUFFICES ASSUME stage = "stored" PROVE StoredAsRead
  BY DEF StoredAsRead
<1>1. PICK keys :
        /\ keys \in [1 .. Cardinality(DOMAIN flow_map) -> DOMAIN flow_map]
        /\ Cardinality(DOMAIN flow_map) \in Nat
        /\ \A i, j \in DOMAIN keys : keys[i] = keys[j] => i = j
        /\ \A k \in DOMAIN flow_map : \E i \in DOMAIN keys : keys[i] = k
        /\ ToSessions = [i \in DOMAIN keys |-> Session(keys[i], i)]
  BY SessionsOfFlows
<1>2. PICK c \in Nat : c = Cardinality(DOMAIN flow_map)
  BY <1>1
<1>3. DOMAIN keys = 1 .. c /\ DOMAIN ToSessions = 1 .. c
  BY <1>1, <1>2
<1>4. PICK made : made = [i \in 1 .. c |-> N!Merged(ToSessions, {i})]
  OBVIOUS
<1>5. N!Given /\ capture = {N!Merged(ToSessions, {i}) : i \in DOMAIN keys}
  <2>1. N!Given /\ Normalize(ToSessions) = {N!Merged(ToSessions, {i}) : i \in DOMAIN keys}
    BY <1>1, FlowsStoredAlone
  <2> QED BY <2>1 DEF Stored
<1>6. capture = {made[i] : i \in 1 .. c}
  BY <1>3, <1>4, <1>5
<1>7. ASSUME NEW i \in 1 .. c
      PROVE  LET s == made[i] IN
             /\ keys[i] \in DOMAIN flow_map
             /\ [src |-> s.src, dst |-> s.dst, protocol |-> s.protocol] = keys[i]
             /\ s.bytes_sent + s.bytes_recv = Volume(Of(keys[i]))
             /\ s.packet_count = Cardinality(Of(keys[i]))
             /\ \A m, n \in DOMAIN s.packets : m < n => s.packets[m].ts <= s.packets[n].ts
             /\ \A r : N!Times(s.packets, r) = N!Times(pkt_map[keys[i]], r)
  <2>1. PICK k \in DOMAIN flow_map : k = keys[i]
    BY <1>1, <1>2
  <2>2. PICK s : s = N!Merged(ToSessions, {i}) /\ s = made[i]
    BY <1>4
  <2>3. i \in Nat /\ i \in DOMAIN ToSessions /\ ToSessions[i] = Session(k, i)
    BY <1>1, <1>3, <2>1
  <2>4. /\ [src |-> s.src, dst |-> s.dst, protocol |-> s.protocol] = k
        /\ s.bytes_sent = flow_map[k].bytes_sent /\ s.bytes_recv = flow_map[k].bytes_recv
        /\ s.packet_count = flow_map[k].packet_count
    BY <1>5, <2>2, <2>3, StoredSession
  <2>5. \A m, n \in DOMAIN s.packets : m < n => s.packets[m].ts <= s.packets[n].ts
    BY <1>5, <2>2, <2>3, StoredSession
  <2>6. ASSUME NEW r
        PROVE  N!Times(s.packets, r) = N!Times(pkt_map[k], r)
    <3>1. N!Given /\ s = N!Merged(ToSessions, {i})
      BY <1>5, <2>2
    <3>2. N!Times(N!Merged(ToSessions, {i}).packets, r) = N!Times(pkt_map[k], r)
      BY <2>3, <3>1, StoredPackets
    <3> QED BY <3>1, <3>2
  <2>7. flow_map[k].packet_count = Cardinality(Of(k))
    BY FlowsTrueMeans DEF CountedInFull
  <2>8. flow_map[k].bytes_sent + flow_map[k].bytes_recv = Volume(Of(k))
    BY BothDirections
  <2>9. s.bytes_sent + s.bytes_recv = Volume(Of(k)) /\ s.packet_count = Cardinality(Of(k))
    BY <2>4, <2>7, <2>8
  <2> QED BY <2>1, <2>2, <2>4, <2>5, <2>6, <2>9
<1>8. c # 0
  <2>1. CASE c = 0
    <3>1. ToSessions = [i \in 1 .. 0 |-> Session(keys[i], i)]
      BY <1>1, <1>3, <2>1
    <3>2. 1 .. 0 = {}
      OBVIOUS
    <3>3. ToSessions = <<>>
      BY <3>1, <3>2
    <3> QED BY <3>3 DEF Stored
  <2> QED BY <2>1
<1>9. capture # {}
  <2>1. 1 \in 1 .. c
    BY <1>8
  <2> QED BY <1>6, <2>1
<1>10. Cardinality(capture) = Cardinality(DOMAIN flow_map)
  <2>1. made \in [1 .. c -> capture]
    BY <1>4, <1>6
  <2>2. \A i, j \in 1 .. c : made[i] = made[j] => i = j
    <3>1. ASSUME NEW i \in 1 .. c, NEW j \in 1 .. c, made[i] = made[j]
          PROVE  keys[i] = keys[j]
      <4>1. PICK s : s = made[i] /\ s = made[j]
        BY <3>1
      <4>2. [src |-> s.src, dst |-> s.dst, protocol |-> s.protocol] = keys[i]
        BY <1>7, <4>1
      <4>3. [src |-> s.src, dst |-> s.dst, protocol |-> s.protocol] = keys[j]
        BY <1>7, <4>1
      <4> QED BY <4>2, <4>3
    <3> QED BY <1>1, <1>3, <3>1
  <2>3. made \in Injection(1 .. c, capture)
    BY <1>4, <2>1, <2>2 DEF Injection, IsInjective
  <2>4. made \in Surjection(1 .. c, capture)
    BY <1>6, <2>1 DEF Surjection
  <2>5. IsFiniteSet(1 .. c) /\ Cardinality(1 .. c) = c
    BY FS_Interval
  <2>6. Cardinality(1 .. c) = Cardinality(capture)
    BY <2>3, <2>4, <2>5, FS_Surjection
  <2> QED BY <1>2, <2>5, <2>6
<1>11. ASSUME NEW s \in capture
       PROVE  LET k == [src |-> s.src, dst |-> s.dst, protocol |-> s.protocol] IN
              /\ k \in DOMAIN flow_map
              /\ s.bytes_sent + s.bytes_recv = Volume(Of(k))
              /\ s.packet_count = Cardinality(Of(k))
              /\ \A m, n \in DOMAIN s.packets : m < n => s.packets[m].ts <= s.packets[n].ts
              /\ \A r \in ToSet(pkt_map[k]) :
                   Cardinality({n \in DOMAIN s.packets : s.packets[n] = r}) =
                   Cardinality({n \in DOMAIN pkt_map[k] : pkt_map[k][n] = r})
  <2>1. PICK i \in 1 .. c : s = made[i]
    BY <1>6
  <2>2. PICK k : k = keys[i]
    OBVIOUS
  <2>3. k = [src |-> s.src, dst |-> s.dst, protocol |-> s.protocol] /\ k \in DOMAIN flow_map
    BY <1>7, <2>1, <2>2
  <2>4. s.bytes_sent + s.bytes_recv = Volume(Of(k)) /\ s.packet_count = Cardinality(Of(k))
    BY <1>7, <2>1, <2>2
  <2>5. \A m, n \in DOMAIN s.packets : m < n => s.packets[m].ts <= s.packets[n].ts
    BY <1>7, <2>1
  <2>6. \A r : N!Times(s.packets, r) = N!Times(pkt_map[k], r)
    BY <1>7, <2>1, <2>2
  <2>7. ASSUME NEW r
        PROVE  Cardinality({n \in DOMAIN s.packets : s.packets[n] = r}) =
               Cardinality({n \in DOMAIN pkt_map[k] : pkt_map[k][n] = r})
    BY <2>6, SameSets DEF N!Times
  <2> QED BY <2>3, <2>4, <2>5, <2>7
<1> QED BY <1>9, <1>10, <1>11 DEF StoredAsRead

(* What is stored is what was read, for every file: one session per flow,  *)
(* with the totals of its packets, and the packets kept with it sorted by  *)
(* time, none lost and none doubled (pcap_parser.py, _to_sessions;         *)
(* normalizer.py; upload.py).                                              *)
THEOREM StoredIsWhatWasRead == Spec => []StoredAsRead
<1>1. Init => Stored
  BY DEF Init, Stored
<1>2. Inv /\ PlaceInFile /\ EveryFlowBegun /\ FlowsTrue /\ Stored /\ [Next]_vars
        => Inv' /\ PlaceInFile' /\ EveryFlowBegun' /\ FlowsTrue' /\ Stored'
  BY NextInv, PlaceStep, OrderStep, FlowsStayTrue, StoredStep
<1>3. Inv /\ PlaceInFile /\ FlowsTrue /\ Stored => StoredAsRead
  BY StoredMeans
<1> QED BY <1>1, <1>2, <1>3, FlowsStartTrue, PTL DEF Spec
=============================================================================

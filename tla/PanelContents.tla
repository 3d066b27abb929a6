---------------------------- MODULE PanelContents ---------------------------
(***************************************************************************)
(* What panels and server work out, side by side: of a TCP session that    *)
(* grows packet by packet, or of two captures that grow one session at a   *)
(* time.                                                                   *)
(***************************************************************************)
EXTENDS Integers, Sequences, SequencesExt

CONSTANTS
  Openings,     (* the packets a session may begin with                    *)
  Arrivals,     (* the ones that may follow, timed from the one before     *)
  Beyond,       (* bytes, both ways, of packets not kept with a session    *)
  MaxPackets,   (* bound: how often packets follow                         *)
  Served,       (* _PARSER_MAX, the packets the viewer is sent             *)
  TiesDownOnServer, TiesDownInBrowser,   (* see NetworkHealth              *)
  Addresses,    (* in the order of their spelling                          *)
  Sessions,     (* the sessions a capture may have                         *)
  MaxListed,    (* bound: sessions of both captures together               *)
  Attackers,    (* hosts that attack, by attack                            *)
  MaxSessions, MaxRows, MaxDrill, MaxEntries, MaxCountries,
  Country, External

VARIABLES
  steps, packets,   (* a session                                           *)
  base, current     (* two captures                                        *)

vars == <<steps, packets, base, current>>

Packets ==
  [direction : {"fwd", "rev"}, flags : SUBSET STRING, seq : Nat, ack : Nat,
   payload : BOOLEAN, ts : Int]

SessionFields ==
  [src_ip : Addresses, dst_ip : Addresses, src_port : Nat, dst_port : Nat, protocol : STRING,
   packet_count : Nat, bytes_sent : Nat, bytes_recv : Nat]

ASSUME PanelContentsAssumption ==
  /\ Openings \subseteq Seq(Packets) /\ Arrivals \subseteq Seq(Packets)
  /\ Beyond \subseteq Nat \X Nat
  /\ Addresses \subseteq Nat /\ Sessions \subseteq SessionFields
  /\ Attackers \subseteq Seq(Addresses)
  /\ {MaxSessions, MaxRows, MaxDrill, MaxEntries, MaxCountries} \subseteq Nat

Client == INSTANCE FlowAnalysis
Server == INSTANCE NetworkHealth
Screens == INSTANCE HealthScreens
Labels == INSTANCE PacketLabels
Lists  == INSTANCE CompareLists
Drill  == INSTANCE DrillLists

Now == IF packets = <<>> THEN 0 ELSE packets[Len(packets)].ts

Init ==
  /\ steps = 0 /\ packets \in Openings
  /\ base = <<>> /\ current = <<>>

Grow ==
  /\ base = <<>> /\ current = <<>>
  /\ steps < MaxPackets /\ steps' = steps + 1
  /\ \E arrival \in Arrivals :
       packets' = packets \o [n \in DOMAIN arrival |-> [arrival[n] EXCEPT !.ts = Now + @]]
  /\ UNCHANGED <<base, current>>

List ==
  /\ packets = <<>>
  /\ Len(base) + Len(current) < MaxListed
  /\ \E s \in Sessions :
       \/ base' = Append(base, s) /\ UNCHANGED current
       \/ current' = Append(current, s) /\ UNCHANGED base
  /\ UNCHANGED <<steps, packets>>

Next == Grow \/ List

Spec == Init /\ [][Next]_vars

-----------------------------------------------------------------------------
(* The bytes of a session count its packets, and those beyond the ones kept,
   in each direction. *)
Count(way) == Cardinality({i \in DOMAIN packets : packets[i].direction = way})

Diagnosed ==
  {[bytes_sent |-> Count("fwd") + more[1], bytes_recv |-> Count("rev") + more[2], rst |-> rst] :
     more \in Beyond, rst \in {FALSE, packets = <<>>}}

(* The server takes a SYN with RST for no SYN at all, the browser for one. *)
NoSynWithRst == \A i \in DOMAIN packets : ~({"SYN", "RST"} \subseteq packets[i].flags)

VerdictsAgree ==
  /\ Client!Handshake(packets) = Server!HandshakeOf(packets)
  /\ Cardinality(Client!Retransmits(packets)) = Server!RetransmitCount(packets)
  /\ Client!CloseType(packets) = Server!CloseTypeOf(packets)
  /\ {e.pktIdx : e \in {x \in Client!ExpertEvents(packets) : x.msg = "data_again"}}
       = Client!Retransmits(packets)

(* On the row of the session, on the two details and in the viewer. *)
Opposite(c, d) == {c, d} = {"green", "red"}

ColourOf == [ok |-> "green", warning |-> "amber", critical |-> "red"]

ColoursAgree(h) ==
  LET viewer == Client!ConnAnalysis(packets)
      detail == Screens!ExplorerDetail(h)
  IN /\ viewer.handshake = detail.handshake
     /\ viewer.retransmits = detail.retransmits
     /\ (viewer.close = "red") = (detail.close = "red")
     /\ viewer.rtt = "amber" => detail.rtt = "amber"
     /\ detail.rtt = "amber" => viewer.rtt = "amber" \/ h.rtt_ms <= 15005
     /\ ~Opposite(viewer.circle, detail.circle)
     /\ viewer.calm => h.issues \subseteq {"rtt_high", "no_data", "no_answer"}

OneColour(h) ==
  /\ ColourOf[Screens!ExplorerRow(h).chip] = Screens!ExplorerRow(h).dot
  /\ ColourOf[Screens!HealthRow(h).badge] = Screens!HealthRow(h).pill
  /\ Screens!ExplorerDetail(h).circle = Screens!HealthDetail(h).circle
  /\ Screens!ExplorerDetail(h).calm => ~Screens!HealthDetail(h).path

(* The numbers above a list of verdicts count the rows below them. *)
CountsMatchRows(healths) ==
  LET none == [events |-> 0, rsts |-> 0, retransmits |-> 0]
      bars == Screens!StatsRow(none, Server!Counts(healths)).bars
  IN /\ \A status \in DOMAIN bars : bars[status] = Cardinality(DOMAIN Screens!Visible(healths, status))
     /\ bars.warning + bars.critical = Cardinality(DOMAIN Screens!CriticalOnly(healths))

(* The flags of the last packet, with every payload, and packets of other
   protocols: the flags of an ICMP packet are its type and code. *)
Pictured ==
  LET Pictures(proto, flags, dns) ==
        [proto : {proto}, flags : {flags}, payload : Labels!Payloads, dns : dns]
  IN Pictures("TCP", packets[Len(packets)].flags, {FALSE}) \cup Pictures("UDP", {}, BOOLEAN)
       \cup Pictures("ICMP", {"8/0"}, {FALSE})

(* What the two names tell apart. *)
Short(name) ==
  CASE name = "HTTP response in full" -> "HTTP response"
    [] name = "DNS" -> "UDP"
    [] name \in {"RST+data", "FIN+data", "ICMP"} -> "data"
    [] OTHER -> name

Legend == [rst |-> "RST", synack |-> "SYN+ACK", syn |-> "SYN", fin |-> "FIN"]

Http == {"HTTP request", "HTTP response"}

(* A row is named like a packet without payload just when it has none; the
   names differ only where one side finds HTTP and the other does not, because
   of a CR, LF or TAB; what the table calls HTTP opens as text, but for a
   CONNECT; and what either calls HTTP, or opens as text, is replayed. *)
LabelledAlike(p) ==
  LET badge  == Labels!FlagBadge(p)
      bare   == IF badge \in DOMAIN Legend THEN Legend[badge] ELSE "ACK"
      table  == Short(Labels!decodePacketInfo(p))
      viewer == Short(Labels!decodeInfo(p))
      row    == Labels!ExpandedRow(p)
  IN /\ Labels!flagClass(p) = badge
     /\ Labels!ladderColor(p) \in IF badge \in DOMAIN Legend THEN {bare} ELSE {"data", "ACK"}
     /\ \A name \in {table, viewer} :
          /\ ~Labels!hasHex(p) => name = bare
          /\ Labels!hasHex(p) => name \in Http \cup {"UDP", "data"}
     /\ table # viewer => p.payload.breaks # {} /\ {table, viewer} \cap Http # {}
     /\ (row = "no_payload") = ~Labels!hasHex(p)
     /\ table \in Http => row = "text" \/ p.payload.content = "connect"
     /\ table \in Http \/ viewer \in Http \/ row = "text" => Labels!Replayed(p)
     /\ Labels!Replayed(p) => Labels!hasHex(p)

(* The browser and the server diagnose a session the viewer has been sent  *)
(* all of: they agree on the handshake, the retransmissions and the way it *)
(* ended, the events below the verdict count the same retransmissions, the *)
(* viewer and the explorer colour them alike, and neither calls healthy    *)
(* what the other calls broken - although they round differently and take  *)
(* off different amounts, provided no packet has SYN and RST set at once   *)
(* (FlowViewer.tsx:71 and 337, network_health.py:79, SessionExplorer.tsx:  *)
(* 134).  The two panels that list the verdict give it one colour, after   *)
(* a router's complaint too, and for a session without packets, and the    *)
(* numbers above the rows count them.                                      *)
(* The copies do differ where they round: a round trip just above 150 ms,  *)
(* of up to 150.05 ms, is amber in the explorer and may be green in the    *)
(* viewer (FlowViewer.tsx:80, network_health.py:91).                       *)
(* A packet has the same badge in the page table and in the viewer, its    *)
(* arrow the colour of the badge (PacketList.tsx:14, FlowViewer.tsx:131    *)
(* and 179), and as far as both tell them apart the same name; but CR, LF  *)
(* or TAB in a first line may make it HTTP in one of them and data in the  *)
(* other (PacketList.tsx:26, FlowViewer.tsx:31).  What the table calls     *)
(* HTTP opens there as text, except a CONNECT (PacketList.tsx:59 and 74);  *)
(* what either calls HTTP, or opens as text, is replayed, since only       *)
(* blanks are left out of the replay (FlowViewer.tsx:273).                 *)
DiagnosesAgree ==
  LET sent == packets # <<>> /\ Len(packets) <= Served /\ NoSynWithRst
  IN /\ sent => VerdictsAgree
     /\ \A h \in {Server!Analyze(session, packets) : session \in Diagnosed} :
          /\ sent => ColoursAgree(h)
          /\ OneColour(h) /\ OneColour(Server!WithIcmp(h))
          /\ CountsMatchRows(<<h, Server!WithIcmp(h), h>>)
     /\ sent => \A p \in Pictured : LabelledAlike(p)

Same(s, t) ==
  /\ {s.src_ip, s.dst_ip} = {t.src_ip, t.dst_ip}
  /\ s.dst_port = t.dst_port /\ s.protocol = t.protocol

Every(list, Is(_)) == \A i \in DOMAIN list : Is(list[i])

BoxesMatchBadges(result) ==
  /\ Every(Lists!NewIpSessions(result), LAMBDA s : Lists!CompareStatus(result, s) = "new")
  /\ Every(Lists!NewPortSessions(result), LAMBDA s : Lists!CompareStatus(result, s) = "new")
  /\ Every(Lists!RemovedIpSessions(result), LAMBDA s : Lists!BaseStatus(result, s) = "removed")

FiltersPartition(result) ==
  LET at(f) == Lists!Columns(result, f)
  IN /\ at("all").baseCount = at("removed").baseCount + at("common").baseCount
     /\ at("all").compareCount = at("new").compareCount + at("common").compareCount
     /\ at("new").baseCount = 0 /\ at("removed").compareCount = 0

(* Every address is on one card of the address tab. *)
CardsPartition(result) ==
  LET cards == Lists!IpCards(result)
  IN /\ UNION {cards[c].ips : c \in DOMAIN cards} = Lists!Ips(base) \cup Lists!Ips(current)
     /\ \A c, d \in DOMAIN cards : c # d => cards[c].ips \cap cards[d].ips = {}

ProtocolsAddUp(result) ==
  LET rows == Lists!ProtocolTable(result)
  IN /\ Drill!Total(rows, LAMBDA r : r.base) = Len(base)
     /\ Drill!Total(rows, LAMBDA r : r.compare) = Len(current)

BadgesTrue(result) ==
  /\ Every(base, LAMBDA s : (Lists!BaseStatus(result, s) = "common") =
                            (\E i \in DOMAIN current : Same(s, current[i])))
  /\ Every(current, LAMBDA s : (Lists!CompareStatus(result, s) = "common") =
                               (\E i \in DOMAIN base : Same(s, base[i])))

(* A number above the tabs is what the rows below it add up to, and behind a
   card there is a session of each of its addresses. *)
Behind(card) ==
  Lists!ClickableIpList(card, TRUE).opens =>
    \A ip \in card.ips : \E i \in DOMAIN card.box : ip \in {card.box[i].src_ip, card.box[i].dst_ip}

MetricsTrue(result) ==
  LET RowBytes(rows) == Drill!Total(rows, LAMBDA r : r.bytes)
  IN /\ Lists!Metrics(result).base = RowBytes(Lists!BaseRows(result, "all"))
     /\ Lists!Metrics(result).compare = RowBytes(Lists!CompareRows(result, "all"))
     /\ Behind(Lists!IpCards(result).new) /\ Behind(Lists!IpCards(result).removed)

Found(ip) == Drill!Drilldown(base, ip)

ListedAreLargest(ip) ==
  LET found == Found(ip)
      matched == {i \in DOMAIN base : ip \in {base[i].src_ip, base[i].dst_ip}}
      larger(n) == {i \in matched : Drill!Bytes(base[i]) > n}
  IN /\ found.session_count = Cardinality(matched)
     /\ Cardinality(DOMAIN found.sessions) = Min({MaxDrill, Cardinality(matched)})
     /\ Every(found.sessions, LAMBDA s : Cardinality(larger(Drill!Bytes(s))) < MaxDrill)

(* Of the rows behind an address, those at which it is the client count for
   what it asked, and those at which it is the server for what it answered. *)
RankingAddsUp(ip, bytes) ==
  LET found    == Found(ip)
      asked    == RestrictValues(Drill!IpDrill(found), LAMBDA r : r.session.src_ip = ip)
      answered == RestrictValues(Drill!IpDrill(found), LAMBDA r : r.session.dst_ip = ip)
  IN ~found.truncated =>
       bytes = Drill!Total(asked, LAMBDA r : r.session.bytes_sent)
               + Drill!Total(answered, LAMBDA r : r.session.bytes_recv)

ConversationAddsUp(pair, row) ==
  LET found   == Found(pair[1])
      listed  == Drill!ConversationDrill(found, pair[2])
      thisWay == RestrictValues(listed, LAMBDA r : r.session.src_ip = pair[1])
  IN ~found.truncated =>
       /\ row.packets = Drill!Total(thisWay, LAMBDA r : r.session.packet_count)
       /\ row.bytes = Drill!Total(thisWay, LAMBDA r : Drill!Bytes(r.session))

CountriesTrue(attackers) ==
  LET entries   == Drill!GeoEntries(attackers, base)
      countries == Drill!Countries(entries)
      table     == Drill!CountryTable(entries)
      chips     == Drill!AttackerChips(entries)
      located   == ToSet(attackers) \cup ({s.dst_ip : s \in ToSet(base)} \cap External)
  IN /\ Drill!Total(countries, LAMBDA c : c.count) = Cardinality(DOMAIN entries)
     /\ \A name \in DOMAIN countries :
          /\ countries[name].attacker <=> (\E ip \in DOMAIN chips : chips[ip].country = name)
          /\ (\E shown \in DOMAIN table : table[shown].count < countries[name].count) =>
               name \in DOMAIN table
     /\ DOMAIN entries \subseteq located
     /\ Cardinality(DOMAIN entries) = Min({MaxEntries, Cardinality(located)})

RowsTrue ==
  LET ranking       == Drill!IpRanking(base)
      conversations == Drill!Conversations(base)
      hosts         == Drill!UniqueIps(base)
  IN /\ hosts < MaxRows => hosts = Cardinality(Lists!Ips(base))
     /\ \A ip \in Addresses : ListedAreLargest(ip)
     /\ \A ip \in DOMAIN ranking : RankingAddsUp(ip, ranking[ip])
     /\ \A pair \in DOMAIN conversations : ConversationAddsUp(pair, conversations[pair])

(* The boxes behind the counts of the server hold sessions with the badge  *)
(* of their box, whether or not the lists are cut; every session listed is *)
(* under one filter besides "all", every address on one card, and the rows *)
(* of the protocol tab account for every session.  As long as the panel    *)
(* does not say that the lists are cut, a session is called common just    *)
(* when the other capture has one between the same two addresses, on the   *)
(* same port, the rows add up to the traffic above them, and behind a card *)
(* there is a session of each of its addresses (ComparePanel.tsx:100-138,  *)
(* 210-215, 319-338 and 388-497, compare.py:86-112).                       *)
(* What the ranking of addresses counts is what the sessions behind a row  *)
(* add up to; what the conversations count, the ones opened in the row's   *)
(* direction add up to, although the list behind the row has those of the  *)
(* other direction too (Panel9Conversations.tsx:30-32) - both as long as   *)
(* the address has no more sessions than are listed.  A cut list holds the *)
(* largest ones and says how many there are, and the number of addresses   *)
(* is right unless the ranking is full (panels.py:66-95, drilldown.py:32-  *)
(* 58, SessionExplorer.tsx:268).  The countries count every address listed *)
(* once, and one is marked just when the address of an attacker in it is   *)
(* shown below (geoip_analyzer.py:93-131, GeoIpPanel.tsx:34-84).           *)
LabelsTrue ==
  LET result == Lists!Compared(base, current)
  IN /\ BoxesMatchBadges(result)
     /\ FiltersPartition(result) /\ CardsPartition(result)
     /\ ProtocolsAddUp(result)
     /\ ~Lists!Truncated(result) => BadgesTrue(result) /\ MetricsTrue(result)
     /\ current = <<>> => RowsTrue /\ \A attackers \in Attackers : CountriesTrue(attackers)
=============================================================================

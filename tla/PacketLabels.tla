---------------------------- MODULE PacketLabels ----------------------------
(***************************************************************************)
(* How a packet is named and coloured: in the page table                   *)
(* (frontend/src/panels/PacketList.tsx), and in the ladder, the table and  *)
(* the replay of the viewer (frontend/src/panels/FlowViewer.tsx), which    *)
(* has its own copy of the rules.                                          *)
(*                                                                         *)
(* A packet has a protocol, a set of flags, whether it is to or from port  *)
(* 53, and a payload, of which the first 128 bytes are kept:               *)
(* content   what they are: nothing, blanks and line ends only, the first  *)
(*           line of an HTTP request, of a CONNECT or of a response, text  *)
(*           that only begins like a request or a response, or others;     *)
(* breaks    where CR, LF or TAB stand in a first line: before it; between *)
(*           words where the table needs a blank; or within a word, which  *)
(*           then ends too early for the viewer.                           *)
(***************************************************************************)
Places == {"before", "between", "within"}

Payloads ==
  [content : {"nothing", "blank", "other"}, breaks : {{}}]
    \cup [content : {"request", "connect", "response", "like_http"}, breaks : SUBSET Places]

(* The table turns CR, LF and TAB into dots, which neither part words nor are
   taken off in front of them; the viewer keeps them, and they do both. *)
InTable(p)  == p.payload.breaks \cap {"before", "between"} = {}
InViewer(p) == "within" \notin p.payload.breaks

Has(p, flag) == flag \in p.flags

(* The names of a packet without payload, which both share. *)
BareInfo(p) ==
  IF Has(p, "SYN") THEN IF Has(p, "ACK") THEN "SYN+ACK" ELSE "SYN"
  ELSE IF Has(p, "RST") THEN "RST"
  ELSE IF Has(p, "FIN") THEN "FIN" ELSE "ACK"

(* A response is named by all that follows its status in the table, headers
   and body too. *)
decodePacketInfo(p) ==
  CASE p.payload.content = "nothing" -> BareInfo(p)
    [] p.payload.content \in {"request", "connect"} /\ InTable(p) -> "HTTP request"
    [] p.payload.content = "response" /\ InTable(p) -> "HTTP response in full"
    [] OTHER -> IF p.proto = "UDP" THEN IF p.dns THEN "DNS" ELSE "UDP"
                ELSE IF p.proto = "ICMP" THEN "ICMP" ELSE "data"

decodeInfo(p) ==
  CASE p.payload.content = "nothing" -> BareInfo(p)
    [] p.payload.content \in {"request", "connect"} /\ InViewer(p) -> "HTTP request"
    [] p.payload.content = "response" /\ InViewer(p) -> "HTTP response"
    [] OTHER -> IF p.proto = "UDP" THEN "UDP"
                ELSE IF Has(p, "RST") THEN "RST+data"
                ELSE IF Has(p, "FIN") THEN "FIN+data" ELSE "data"

(* The badge on a packet's flags, of the table and of the viewer. *)
flagClass(p) ==
  IF p.flags = {} THEN "none"
  ELSE IF Has(p, "RST") THEN "rst"
  ELSE IF Has(p, "SYN") THEN IF Has(p, "ACK") THEN "synack" ELSE "syn"
  ELSE IF Has(p, "FIN") THEN "fin"
  ELSE IF Has(p, "PSH") THEN "psh" ELSE "ack"

FlagBadge(p) ==
  IF p.flags = {} THEN "none"
  ELSE IF Has(p, "RST") THEN "rst"
  ELSE IF {"SYN", "ACK"} \subseteq p.flags THEN "synack"
  ELSE IF Has(p, "SYN") THEN "syn"
  ELSE IF Has(p, "FIN") THEN "fin"
  ELSE IF Has(p, "PSH") THEN "psh" ELSE "ack"

(* The colour of a packet's arrow, by the entry of the legend it has. *)
ladderColor(p) ==
  IF Has(p, "RST") THEN "RST"
  ELSE IF {"SYN", "ACK"} \subseteq p.flags THEN "SYN+ACK"
  ELSE IF Has(p, "SYN") THEN "SYN"
  ELSE IF Has(p, "FIN") THEN "FIN"
  ELSE IF p.payload.content # "nothing" THEN "data" ELSE "ACK"

(* A click opens the bytes of a packet that has some. *)
hasHex(p) == p.payload.content # "nothing"

(* What the opened row of the table shows: the test for text knows the words
   that begin a first line, CONNECT excepted. *)
ExpandedRow(p) ==
  CASE p.payload.content = "nothing" -> "no_payload"
    [] p.payload.content \in {"request", "response", "like_http"} /\ "before" \notin p.payload.breaks -> "text"
    [] OTHER -> "hex_dump"

(* A packet is replayed with its name when more than blanks is left of its
   payload: bytes that are no text show as dots. *)
Replayed(p) == p.payload.content \notin {"nothing", "blank"}
=============================================================================

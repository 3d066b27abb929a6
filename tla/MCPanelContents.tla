--------------------------- MODULE MCPanelContents --------------------------
(***************************************************************************)
(* PanelContents for TLC: handshakes answered in time, late, or not at     *)
(* all, then data that is fresh or sent again, resets and refusals; and    *)
(* sessions between three hosts on two ports, one of them in two           *)
(* protocols.                                                              *)
(***************************************************************************)
EXTENDS PanelContents

CONSTANTS
  Waits,       (* how long a SYN+ACK may take, in microseconds             *)
  Burst,       (* fresh data sent in one go                                *)
  Clients      (* the addresses that open sessions                         *)

Packet(way, flags, seq, payload, ts) ==
  [direction |-> way, flags |-> flags, seq |-> seq, ack |-> IF "ACK" \in flags THEN 1 ELSE 0,
   payload |-> payload, ts |-> ts]

(* A session begins with a SYN that is answered, or with what follows. *)
Syn == Packet("fwd", {"SYN"}, 0, FALSE, 0)

MCOpenings ==
  { <<>>, <<Syn, Packet("rev", {"ACK"}, 0, FALSE, 1)>> }
    \cup { <<Syn, Packet("rev", {"SYN", "ACK"}, 0, FALSE, w)>> : w \in Waits }

Data ==
  { Packet("fwd", {"ACK"}, n, TRUE, 1) : n \in {0, Burst} } \cup { Packet("rev", {"ACK"}, 0, TRUE, 1) }

(* Only a refusal tells the directions apart; the client's reset comes at the
   time of the packet before it, the server's later. *)
Resets == { Packet("fwd", {"RST"}, 0, FALSE, 0), Packet("rev", {"RST"}, 0, FALSE, 1) }

Others ==
  { Packet("fwd", {"FIN", "ACK"}, 0, FALSE, 1), Packet("fwd", {"SYN"}, 0, FALSE, 1),
    Packet("fwd", {"SYN", "RST"}, 0, FALSE, 1) }

FreshData == [n \in 1 .. Burst |-> Packet("fwd", {"ACK"}, n, TRUE, n)]

MCArrivals == {<<p>> : p \in Data \cup Resets \cup Others} \cup {FreshData}

(* Packets that were not kept. *)
MCBeyond == { <<0, 0>>, <<0, 1>>, <<1, 0>> }

(* Ports with their protocols. *)
Services == { <<1, "TCP">>, <<1, "UDP">>, <<2, "TCP">> }

(* A session of port 1 is the larger one, most of it sent back. *)
Session(src, dst, service) ==
  LET port == service[1]
  IN [src_ip |-> src, dst_ip |-> dst, src_port |-> 1000 + port, dst_port |-> port,
      protocol |-> service[2], packet_count |-> 3 - port,
      bytes_sent |-> port, bytes_recv |-> 5 - 2 * port]

(* One of the clients talks UDP, to another. *)
MCSessions ==
  {s \in {Session(src, dst, service) : src \in Clients, dst \in Addresses, service \in Services} :
     s.src_ip # s.dst_ip /\ (s.protocol = "UDP" => s.src_ip = 1 /\ s.dst_ip \in Clients)}

(* Of the hosts that open sessions, those that attack. *)
MCAttackers == {<<>>, <<1, 2>>, <<2, 2>>}

(* The first address is of another country than the others. *)
MCCountry == [ip \in Addresses |-> IF ip = 1 THEN "here" ELSE "there"]
=============================================================================

----------------------------- MODULE MCPcapImport ---------------------------
(* PcapImport for TLC: files of a few packets out of three conversations,  *)
(* with times out of order, a reset and an ICMP error.                     *)
EXTENDS PcapImport

CONSTANTS a, b, MaxLength

Port(h, p) == [host |-> h, port |-> p]

Packet(src, dst, protocol, ts, length, flag) ==
  [ src |-> src, dst |-> dst, protocol |-> protocol, ts |-> ts, length |-> length,
    rst |-> flag /\ protocol = "TCP", icmp_error |-> flag /\ protocol = "ICMP" ]

Forth  == Packet(Port(a, 1), Port(b, 2), "TCP", 2, 1, FALSE)
Back   == Packet(Port(b, 2), Port(a, 1), "TCP", 1, 2, TRUE)
ToSelf == Packet(Port(a, 1), Port(a, 1), "UDP", 1, 1, FALSE)
Error  == Packet(Port(b, 0), Port(a, 0), "ICMP", 2, 1, TRUE)
Other  == Packet(Port(a, 0), Port(b, 0), "other", 1, 1, FALSE)

(* All short files, and longer ones in which the third conversation finds
   the table full and the first two go on. *)
MCFiles ==
  BoundedSeq({Forth, Back, ToSelf, Error, Other}, MaxLength)
    \cup {<<Back, ToSelf, Error, p>> : p \in {Forth, Back, ToSelf, Error}}
    \cup {<<Error, Error, Forth, Back, ToSelf>>, <<Forth, Back, Forth, Error, Forth>>}
=============================================================================

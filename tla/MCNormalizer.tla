----------------------------- MODULE MCNormalizer ---------------------------
(***************************************************************************)
(* ParsedSessions for TLC: four routes, of which the second is the first   *)
(* one backwards and only the third has no ports; times out of order, and  *)
(* some sessions have packets, the later of them first.                    *)
(***************************************************************************)
EXTENDS ParsedSessions

CONSTANTS a, b

Port(h, p) == [host |-> h, port |-> p]

Routes ==
  { <<Port(a, 1), Port(b, 1)>>, <<Port(b, 1), Port(a, 1)>>,
    <<Port(a, 0), Port(b, 0)>>, <<Port(a, 0), Port(b, 1)>> }

MCCaptured == [ts : 1 .. 3, bytes : 0 .. 2]

Line(route, ts, bytes, flag) ==
  [ session_id   |-> 0,
    src          |-> route[1],
    dst          |-> route[2],
    protocol     |-> "TCP",
    start_ts     |-> ts,
    end_ts       |-> ts + bytes,
    bytes_sent   |-> bytes,
    bytes_recv   |-> 2 * bytes,
    packet_count |-> bytes,
    rst          |-> flag,
    confidence   |-> IF flag THEN "low" ELSE "normal",
    packets      |-> [n \in 1 .. bytes |-> [ts |-> ts + bytes - n, bytes |-> n]] ]

MCParsed == {Line(route, ts, bytes, flag) :
               route \in Routes, ts \in 1 .. 2, bytes \in 0 .. 2, flag \in BOOLEAN}
=============================================================================

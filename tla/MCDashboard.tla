---------------------------- MODULE MCDashboard -----------------------------
(* Dashboard for TLC: two captures one after the other, and contents small *)
(* enough to be combined.                                                  *)
EXTENDS Dashboard

CONSTANTS f1, f2, other, all, tcp, s1, s2

(* Two pages of all packets, one of one protocol. *)
MCMatching == [f \in Filters |-> IF f = all THEN 2 ELSE 1]

MCWithIp == [f \in IpFilters |-> IF f = NoIp THEN Sessions ELSE {s1}]

MCStatus == [s \in Sessions |-> IF s = s1 THEN "ok" ELSE "critical"]
=============================================================================

---------------------------- MODULE NetworkHealth ---------------------------
(***************************************************************************)
(* The server's verdict on a session (backend/services/analytics/          *)
(* network_health.py), which the session explorer and the health panel     *)
(* list: of a TCP session with packets, and of one without packets.        *)
(*                                                                         *)
(* Packets are those of FlowAnalysis; a session has bytes_sent, bytes_recv *)
(* and rst.                                                                *)
(***************************************************************************)
EXTENDS Integers, Sequences, FiniteSetsExt, Functions

CONSTANT
  TiesDownOnServer   (* times halfway between two roundings that floating  *)
                     (* point takes down                                   *)

NoRtt == -1

IsSynOnly(p) == "SYN" \in p.flags /\ "ACK" \notin p.flags /\ "RST" \notin p.flags
IsSynAck(p)  == {"SYN", "ACK"} \subseteq p.flags
IsRst(p)     == "RST" \in p.flags
IsFin(p)     == "FIN" \in p.flags

In(packets, way, Is(_)) == {i \in DOMAIN packets : packets[i].direction = way /\ Is(packets[i])}
AnyWay(packets, Is(_))  == {i \in DOMAIN packets : Is(packets[i])}

(* round(.., 2): from microseconds to hundredths of a millisecond. *)
Hundredths(rtt) == (rtt + IF rtt \in TiesDownOnServer THEN 4 ELSE 5) \div 10

RttMs(packets) ==
  LET syn    == In(packets, "fwd", IsSynOnly)
      synack == In(packets, "rev", IsSynAck)
  IN IF syn # {} /\ synack # {} /\ packets[Min(synack)].ts > packets[Min(syn)].ts
     THEN Hundredths(packets[Min(synack)].ts - packets[Min(syn)].ts)
     ELSE NoRtt

HandshakeOf(packets) ==
  IF In(packets, "fwd", IsSynOnly) = {} THEN "N/A"
  ELSE IF In(packets, "rev", IsSynAck) # {} THEN "COMPLETE"
  ELSE IF In(packets, "rev", IsRst) # {} THEN "REFUSED"
  ELSE IF In(packets, "rev", LAMBDA p : TRUE) = {} THEN "TIMEOUT"
  ELSE "HALF_OPEN"

(* A packet of data is new if none before it has its direction and number. *)
DataPktsOf(packets) == AnyWay(packets, LAMBDA p : p.payload)

NewData(packets) ==
  {i \in DataPktsOf(packets) :
     \A j \in DataPktsOf(packets) :
       j < i => <<packets[j].direction, packets[j].seq>> # <<packets[i].direction, packets[i].seq>>}

RetransmitCount(packets) == Cardinality(DataPktsOf(packets)) - Cardinality(NewData(packets))

(* A reset is late when data was seen before the first one, by the clock. *)
RstType(packets) ==
  LET rsts == AnyWay(packets, IsRst)
  IN IF rsts = {} THEN "NONE"
     ELSE IF \E i \in DataPktsOf(packets) : packets[i].ts < packets[Min(rsts)].ts
     THEN "LATE" ELSE "EARLY"

CloseTypeOf(packets) ==
  IF RstType(packets) # "NONE" THEN "RESET"
  ELSE IF AnyWay(packets, IsFin) # {} THEN "NORMAL" ELSE "TIMEOUT"

(* What is wrong with a TCP session, and what the score loses for it. *)
TcpIssues(session, packets) ==
  LET handshake == HandshakeOf(packets)
      again     == 100 * RetransmitCount(packets)
      data      == Max({1, Cardinality(DataPktsOf(packets))})
      silent    == session.bytes_recv = 0
  IN {i \in {"REFUSED", "TIMEOUT", "HALF_OPEN"} : i = handshake}
     \cup {i \in {"rtt_severe"} : RttMs(packets) > 50000}
     \cup {i \in {"rtt_high"} : RttMs(packets) > 15000 /\ RttMs(packets) <= 50000}
     \cup {i \in {"lossy"} : again > 20 * data}
     \cup {i \in {"some_loss"} : again > 5 * data /\ again <= 20 * data}
     \cup {i \in {"late_reset"} : RstType(packets) = "LATE"}
     \cup {i \in {"no_data"} : silent /\ session.bytes_sent = 0}
     \cup {i \in {"no_answer"} : silent /\ session.bytes_sent > 0 /\ handshake = "COMPLETE"}

(* A session whose packets are not known: of a HAR file or a log. *)
NoPacketsIssues(session) ==
  LET silent == session.bytes_recv = 0
  IN {i \in {"rst"} : session.rst}
     \cup {i \in {"nothing_moved"} : silent /\ session.bytes_sent = 0}
     \cup {i \in {"no_answer"} : silent /\ session.bytes_sent > 0}

Loss == [REFUSED |-> 40, TIMEOUT |-> 35, HALF_OPEN |-> 25, rtt_severe |-> 20, rtt_high |-> 10,
         lossy |-> 30, some_loss |-> 15, late_reset |-> 20, no_data |-> 15, no_answer |-> 15,
         rst |-> 25, nothing_moved |-> 20]

ScoreFor(issues) == Max({0, 100 - SumFunctionOnSet(Loss, issues)})

Status(score) == IF score >= 80 THEN "ok" ELSE IF score >= 50 THEN "warning" ELSE "critical"

FailureType(packets) ==
  IF HandshakeOf(packets) = "REFUSED" THEN "connection_refused"
  ELSE IF HandshakeOf(packets) \in {"TIMEOUT", "HALF_OPEN"} THEN "no_response"
  ELSE IF RttMs(packets) > 100000 THEN "slow_response" ELSE "none"

Verdict(issues, handshake, rtt, again, rst, close, failure) ==
  LET score == ScoreFor(issues)
  IN [score |-> score, status |-> Status(score), issues |-> issues,
      handshake |-> handshake, rtt_ms |-> rtt, retransmit_count |-> again,
      rst_type |-> rst, close_type |-> close, failure_type |-> failure]

AnalyzeTcp(session, packets) ==
  Verdict(TcpIssues(session, packets), HandshakeOf(packets), RttMs(packets),
          RetransmitCount(packets), RstType(packets), CloseTypeOf(packets), FailureType(packets))

AnalyzeNoPackets(session) ==
  Verdict(NoPacketsIssues(session), "N/A", NoRtt, 0, IF session.rst THEN "EARLY" ELSE "NONE",
          "N/A", IF session.rst THEN "connection_refused" ELSE "none")

Analyze(session, packets) ==
  IF packets = <<>> THEN AnalyzeNoPackets(session) ELSE AnalyzeTcp(session, packets)

(* A router's complaint about the host and port that were asked for. *)
WithIcmp(h) ==
  IF h.failure_type \notin {"none", "no_response"} THEN h
  ELSE LET score == Max({0, h.score - 30})
       IN [h EXCEPT !.failure_type = "path_issue", !.issues = @ \cup {"path"},
                    !.score = score, !.status = Status(score)]

(* The summary of the list of verdicts. *)
Counts(healths) ==
  LET Number(Is(_)) == Cardinality({i \in DOMAIN healths : Is(healths[i])})
  IN [healthy  |-> Number(LAMBDA h : h.score >= 80),
      warning  |-> Number(LAMBDA h : h.score >= 50 /\ h.score < 80),
      critical |-> Number(LAMBDA h : h.score < 50)]
=============================================================================

---------------------------- MODULE FlowAnalysis ----------------------------
(***************************************************************************)
(* What the viewer's analysis tab says of a TCP session, worked out in the *)
(* browser from the packets it was sent (frontend/src/panels/              *)
(* FlowViewer.tsx, computeFlowAnalysis and buildExpertEvents).             *)
(*                                                                         *)
(* A packet has a direction, a set of flags, two numbers (seq and ack),    *)
(* whether it has payload, and a time in microseconds.                     *)
(***************************************************************************)
EXTENDS Integers, Sequences, FiniteSetsExt

CONSTANT
  TiesDownInBrowser   (* as TiesDownOnServer in NetworkHealth              *)

NoRtt == -1

(* The packets with a property, by their places. *)
Those(packets, Is(_)) == {i \in DOMAIN packets : Is(packets[i])}

Fwd(p) == p.direction = "fwd"
Rev(p) == p.direction = "rev"
Rst(p) == "RST" \in p.flags
Fin(p) == "FIN" \in p.flags

SynPkts(packets) ==
  Those(packets, LAMBDA p : Fwd(p) /\ "SYN" \in p.flags /\ "ACK" \notin p.flags)

SynAckPkts(packets) ==
  Those(packets, LAMBDA p : Rev(p) /\ {"SYN", "ACK"} \subseteq p.flags)

(* Math.round: from microseconds to tenths of a millisecond. *)
Tenths(rtt) == (rtt + IF rtt \in TiesDownInBrowser THEN 49 ELSE 50) \div 100

(* From the first SYN to the first SYN+ACK. *)
RttTenths(packets) ==
  IF SynPkts(packets) = {} \/ SynAckPkts(packets) = {} THEN NoRtt
  ELSE LET rtt == packets[Min(SynAckPkts(packets))].ts - packets[Min(SynPkts(packets))].ts
       IN IF rtt > 0 THEN Tenths(rtt) ELSE NoRtt

(* Handshake, had a refusal been looked for before an answer. *)
HandshakeRefusedFirst(packets) ==
  IF SynPkts(packets) = {} THEN "N/A"
  ELSE IF Those(packets, LAMBDA p : Rst(p) /\ Rev(p)) # {} THEN "REFUSED"
  ELSE IF SynAckPkts(packets) # {} THEN "COMPLETE"
  ELSE IF Those(packets, Rev) = {} THEN "TIMEOUT" ELSE "HALF_OPEN"

Handshake(packets) ==
  IF SynPkts(packets) = {} THEN "N/A"
  ELSE IF SynAckPkts(packets) # {} THEN "COMPLETE"
  ELSE IF Those(packets, LAMBDA p : Rst(p) /\ Rev(p)) # {} THEN "REFUSED"
  ELSE IF Those(packets, Rev) = {} THEN "TIMEOUT"
  ELSE "HALF_OPEN"

DataPkts(packets) == Those(packets, LAMBDA p : p.payload)

(* Data whose direction and sequence number an earlier packet had. *)
Retransmits(packets) ==
  {i \in DataPkts(packets) :
     \E j \in DataPkts(packets) :
       j < i /\ packets[j].direction = packets[i].direction /\ packets[j].seq = packets[i].seq}

CloseType(packets) ==
  IF Those(packets, Rst) # {} THEN "RESET"
  ELSE IF Those(packets, Fin) # {} THEN "NORMAL" ELSE "TIMEOUT"

HandshakeLoss == [COMPLETE |-> 0, REFUSED |-> 40, TIMEOUT |-> 35, HALF_OPEN |-> 25]

RttLoss(packets) ==
  IF RttTenths(packets) > 5000 THEN 20 ELSE IF RttTenths(packets) > 1500 THEN 10 ELSE 0

RetransmitLoss(packets) ==
  LET lost == Cardinality(Retransmits(packets))
      data == Cardinality(DataPkts(packets))
  IN IF 100 * lost > 20 * data THEN 30 ELSE IF 100 * lost > 5 * data THEN 15 ELSE 0

Score(packets) ==
  LET left == 100
              - (IF Handshake(packets) = "N/A" THEN 0 ELSE HandshakeLoss[Handshake(packets)])
              - RttLoss(packets)
              - RetransmitLoss(packets)
              - (IF CloseType(packets) = "RESET" THEN 10 ELSE 0)
  IN Max({0, left})

StatusOf(score) == IF score >= 80 THEN "ok" ELSE IF score >= 50 THEN "warning" ELSE "critical"

Issues(packets) ==
  {i \in {"REFUSED", "TIMEOUT", "HALF_OPEN"} : i = Handshake(packets)}
    \cup {i \in {"rtt_high"} : RttLoss(packets) > 0}
    \cup {i \in {"some_loss"} : RetransmitLoss(packets) > 0}
    \cup {i \in {"reset"} : CloseType(packets) = "RESET"}

(* The colours of the verdict and of the metrics beside it, and whether the
   tab says that nothing is wrong. *)
HandshakeColour ==
  [COMPLETE |-> "green", REFUSED |-> "red", TIMEOUT |-> "red", HALF_OPEN |-> "amber"]

ConnAnalysis(packets) ==
  LET score == Score(packets)
  IN [circle      |-> IF score >= 80 THEN "green" ELSE IF score >= 50 THEN "amber" ELSE "red",
      label       |-> StatusOf(score),
      handshake   |-> IF Handshake(packets) = "N/A" THEN "plain"
                      ELSE HandshakeColour[Handshake(packets)],
      rtt         |-> IF RttTenths(packets) > 1500 THEN "amber" ELSE "green",
      retransmits |-> IF Retransmits(packets) # {} THEN "amber" ELSE "green",
      close       |-> CASE CloseType(packets) = "NORMAL" -> "green"
                        [] CloseType(packets) = "RESET" -> "red"
                        [] OTHER -> "amber",
      calm        |-> Issues(packets) = {}]

(* The events listed below the verdict. *)
ExpertEvents(packets) ==
  LET event(i, severity, msg) == [pktIdx |-> i, severity |-> severity, msg |-> msg]
  IN {event(i, "warn", "syn_again") :
        i \in Those(packets, LAMBDA p : "SYN" \in p.flags /\ "ACK" \notin p.flags) \ {1}}
     \cup {event(i, "warn", "data_again") : i \in Retransmits(packets)}
     \cup {event(i, "error", "rst_after_data") :
             i \in {r \in Those(packets, Rst) : \E j \in DataPkts(packets) : j < r}}
     \cup {event(i, "warn", "rst_before_data") :
             i \in {r \in Those(packets, Rst) : \A j \in DataPkts(packets) : j >= r}}
     \cup {event(i, "note", "unnumbered") :
             i \in Those(packets, LAMBDA p : /\ p.seq = 0 /\ p.ack = 0 /\ ~p.payload
                                            /\ "SYN" \notin p.flags)}
=============================================================================

------------------------- MODULE PanelContentsProofs ------------------------
(***************************************************************************)
(* Server and panels agree, whatever a session carried and whatever the    *)
(* captures hold.                                                          *)
(***************************************************************************)
EXTENDS PanelContents, FiniteSetTheorems, SequenceTheorems, TLAPS

(* A session has packets, a capture has sessions. *)
TypeOK ==
  /\ steps \in Nat
  /\ packets \in Seq(Packets)
  /\ base \in Seq(Sessions) /\ current \in Seq(Sessions)

LEMMA Arrives ==
  ASSUME TypeOK, NEW arrival \in Arrivals
  PROVE  packets \o [n \in DOMAIN arrival |-> [arrival[n] EXCEPT !.ts = Now + @]] \in Seq(Packets)
<1>1. arrival \in Seq(Packets)
  BY PanelContentsAssumption
<1>2. Now \in Int
  <2>1. packets # <<>> => packets[Len(packets)] \in Packets
    BY DEF TypeOK
  <2> QED BY <2>1 DEF Now, Packets
<1>3. ASSUME NEW n \in DOMAIN arrival PROVE [arrival[n] EXCEPT !.ts = Now + @] \in Packets
  <2>1. arrival[n] \in Packets
    BY <1>1
  <2> QED BY <1>2, <2>1 DEF Packets
<1>4. [n \in DOMAIN arrival |-> [arrival[n] EXCEPT !.ts = Now + @]] \in Seq(Packets)
  <2>1. Len(arrival) \in Nat /\ DOMAIN arrival = 1 .. Len(arrival)
    BY <1>1
  <2> QED BY <1>3, <2>1
<1> QED BY <1>4 DEF TypeOK

THEOREM Typing == Spec => []TypeOK
<1>1. Init => TypeOK
  BY PanelContentsAssumption DEF Init, TypeOK
<1>2. ASSUME TypeOK, [Next]_vars PROVE TypeOK'
  <2>1. CASE Grow
    BY <1>2, <2>1, Arrives DEF Grow, TypeOK
  <2>2. CASE List
    <3>1. PICK s \in Sessions : \/ base' = Append(base, s) /\ UNCHANGED current
                                \/ current' = Append(current, s) /\ UNCHANGED base
      BY <2>2 DEF List
    <3>2. base' \in Seq(Sessions) /\ current' \in Seq(Sessions)
      <4>1. Append(base, s) \in Seq(Sessions) /\ Append(current, s) \in Seq(Sessions)
        BY <1>2 DEF TypeOK
      <4> QED BY <1>2, <3>1, <4>1 DEF TypeOK
    <3> QED BY <1>2, <2>2, <3>2 DEF List, TypeOK
  <2>3. CASE UNCHANGED vars
    BY <1>2, <2>3 DEF vars, TypeOK
  <2> QED BY <1>2, <2>1, <2>2, <2>3 DEF Next
<1> QED BY <1>1, <1>2, PTL DEF Spec

-----------------------------------------------------------------------------
(* What both sides see of the packets. *)
Syns    == {i \in DOMAIN packets : /\ packets[i].direction = "fwd"
                                   /\ "SYN" \in packets[i].flags /\ "ACK" \notin packets[i].flags}
SynAcks == {i \in DOMAIN packets : /\ packets[i].direction = "rev"
                                   /\ {"SYN", "ACK"} \subseteq packets[i].flags}
Backs   == {i \in DOMAIN packets : packets[i].direction = "rev"}
Resets  == {i \in DOMAIN packets : "RST" \in packets[i].flags}
Fins    == {i \in DOMAIN packets : "FIN" \in packets[i].flags}
DataAt  == {i \in DOMAIN packets : packets[i].payload}

HandshakeSeen ==
  IF Syns = {} THEN "N/A"
  ELSE IF SynAcks # {} THEN "COMPLETE"
  ELSE IF Resets \cap Backs # {} THEN "REFUSED"
  ELSE IF Backs = {} THEN "TIMEOUT" ELSE "HALF_OPEN"

CloseSeen == IF Resets # {} THEN "RESET" ELSE IF Fins # {} THEN "NORMAL" ELSE "TIMEOUT"

LEMMA ClientSees ==
  /\ Client!SynPkts(packets) = Syns /\ Client!SynAckPkts(packets) = SynAcks
  /\ Client!DataPkts(packets) = DataAt
  /\ Client!Handshake(packets) = HandshakeSeen
  /\ Client!CloseType(packets) = CloseSeen
<1>1. Client!SynPkts(packets) = Syns /\ Client!SynAckPkts(packets) = SynAcks
  BY DEF Client!SynPkts, Client!SynAckPkts, Client!Those, Client!Fwd, Client!Rev, Syns, SynAcks
<1>2. Client!DataPkts(packets) = DataAt
  BY DEF Client!DataPkts, Client!Those, DataAt
<1>3. Client!Those(packets, LAMBDA p : Client!Rst(p) /\ Client!Rev(p)) = Resets \cap Backs
      /\ Client!Those(packets, Client!Rev) = Backs
  BY DEF Client!Those, Client!Rst, Client!Rev, Resets, Backs
<1>4. Client!Those(packets, Client!Rst) = Resets /\ Client!Those(packets, Client!Fin) = Fins
  BY DEF Client!Those, Client!Rst, Client!Fin, Resets, Fins
<1>5. Client!Handshake(packets) = HandshakeSeen
  BY <1>1, <1>3 DEF Client!Handshake, HandshakeSeen
<1>6. Client!CloseType(packets) = CloseSeen
  BY <1>4 DEF Client!CloseType, CloseSeen
<1> QED BY <1>1, <1>2, <1>5, <1>6

LEMMA ServerSees ==
  ASSUME NoSynWithRst
  PROVE  /\ Server!DataPktsOf(packets) = DataAt
         /\ Server!HandshakeOf(packets) = HandshakeSeen
         /\ Server!CloseTypeOf(packets) = CloseSeen
         /\ (Server!RstType(packets) # "NONE") <=> (Resets # {})
<1>1. Server!In(packets, "fwd", Server!IsSynOnly) = Syns
  BY DEF Server!In, Server!IsSynOnly, Syns, NoSynWithRst
<1>2. Server!In(packets, "rev", Server!IsSynAck) = SynAcks
      /\ Server!In(packets, "rev", Server!IsRst) = Resets \cap Backs
      /\ Server!In(packets, "rev", LAMBDA p : TRUE) = Backs
  BY DEF Server!In, Server!IsSynAck, Server!IsRst, SynAcks, Resets, Backs
<1>3. Server!AnyWay(packets, Server!IsRst) = Resets /\ Server!AnyWay(packets, Server!IsFin) = Fins
      /\ Server!AnyWay(packets, LAMBDA p : p.payload) = DataAt
  BY DEF Server!AnyWay, Server!IsRst, Server!IsFin, Resets, Fins, DataAt
<1>4. Server!HandshakeOf(packets) = HandshakeSeen
  BY <1>1, <1>2 DEF Server!HandshakeOf, HandshakeSeen
<1>5. (Server!RstType(packets) # "NONE") <=> (Resets # {})
  BY <1>3 DEF Server!RstType
<1>6. Server!CloseTypeOf(packets) = CloseSeen
  BY <1>3, <1>5 DEF Server!CloseTypeOf, CloseSeen
<1>7. Server!DataPktsOf(packets) = DataAt
  BY <1>3 DEF Server!DataPktsOf
<1> QED BY <1>4, <1>5, <1>6, <1>7

(* From the first SYN to the first answer. *)
RttSeen ==
  LET rtt == packets[Min(SynAcks)].ts - packets[Min(Syns)].ts
  IN IF Syns # {} /\ SynAcks # {} /\ rtt > 0 THEN rtt ELSE -1

N == INSTANCE NormalizerProofs WITH
       sessions    <- <<>>,
       Hosts       <- {},
       Protocols   <- {},
       Captured    <- {},
       Parsed      <- {},
       MaxSessions <- 0

LEMMA NormalizerApplies == N!ParsedAssumption
BY DEF N!ParsedAssumption

LEMMA SameSets ==
  /\ \A S : N!IsFiniteSet(S) <=> IsFiniteSet(S)
  /\ \A S : N!Cardinality(S) = Cardinality(S)
BY DEF N!IsFiniteSet, IsFiniteSet, N!Cardinality, Cardinality

LEMMA FirstPlaceOf ==
  ASSUME NEW S \in SUBSET Nat, S # {}
  PROVE  Min(S) \in S /\ \A k \in S : Min(S) <= k
<1>1. \E m \in S : \A k \in S : m <= k
  BY NormalizerApplies, N!LeastNumber
<1> QED BY <1>1 DEF Min

LEMMA SameMins ==
  /\ \A S : Client!Min(S) = Min(S)
  /\ \A S : Server!Min(S) = Min(S)
BY DEF Client!Min, Server!Min, Min

LEMMA PlacesOfPackets ==
  ASSUME TypeOK
  PROVE  /\ DOMAIN packets \in SUBSET Nat /\ IsFiniteSet(DOMAIN packets)
         /\ \A i \in DOMAIN packets : packets[i] \in Packets
<1>1. Len(packets) \in Nat /\ DOMAIN packets = 1 .. Len(packets)
  BY DEF TypeOK
<1>2. IsFiniteSet(1 .. Len(packets))
  BY <1>1, FS_Interval
<1>3. \A i \in DOMAIN packets : packets[i] \in Packets
  BY <1>1 DEF TypeOK
<1> QED BY <1>1, <1>2, <1>3

(* The round trip as the two sides round it. *)
RttOnServer  == IF RttSeen > 0 THEN Server!Hundredths(RttSeen) ELSE -1
RttInBrowser == IF RttSeen > 0 THEN Client!Tenths(RttSeen) ELSE -1

(* Whatever becomes of the ties, the browser never sees a delay the server
   does not see, and what it misses is at most one step of the score. *)
LEMMA RoundingsAgree ==
  ASSUME NEW rtt \in Int, rtt > 0, NEW a, a = Server!Hundredths(rtt), NEW b, b = Client!Tenths(rtt)
  PROVE  /\ a \in Nat /\ b \in Nat
         /\ b > 1500 => a > 15000
         /\ b > 5000 => a > 50000
         /\ a > 15005 => b > 1500
<1>1. PICK m \in {4, 5} : a = (rtt + m) \div 10
  BY DEF Server!Hundredths
<1>2. PICK n \in {49, 50} : b = (rtt + n) \div 100
  BY DEF Client!Tenths
<1>3. a \in Int /\ 10 * a <= rtt + m /\ rtt + m < 10 * a + 10
  BY <1>1
<1>4. b \in Int /\ 100 * b <= rtt + n /\ rtt + n < 100 * b + 100
  BY <1>2
<1> QED BY <1>3, <1>4

LEMMA RttsSeen ==
  ASSUME TypeOK, NoSynWithRst
  PROVE  /\ RttOnServer \in Int /\ RttInBrowser \in Int
         /\ RttOnServer > 0 => Backs # {}
         /\ Server!RttMs(packets) = RttOnServer
         /\ Client!RttTenths(packets) = RttInBrowser
         /\ RttInBrowser > 1500 => RttOnServer > 15000
         /\ RttInBrowser > 5000 => RttOnServer > 50000
         /\ RttOnServer > 15005 => RttInBrowser > 1500
<1>1. Syns \in SUBSET Nat /\ SynAcks \in SUBSET Nat
      /\ Syns \subseteq DOMAIN packets /\ SynAcks \subseteq DOMAIN packets
  BY PlacesOfPackets DEF Syns, SynAcks
<1>2. ASSUME Syns # {}, SynAcks # {}
      PROVE  packets[Min(Syns)].ts \in Int /\ packets[Min(SynAcks)].ts \in Int
  <2>1. Min(Syns) \in DOMAIN packets /\ Min(SynAcks) \in DOMAIN packets
    BY <1>1, <1>2, FirstPlaceOf
  <2> QED BY <2>1, PlacesOfPackets DEF Packets
<1>3. RttSeen \in Int /\ (RttSeen = -1 \/ RttSeen > 0)
  BY <1>2 DEF RttSeen
<1>4. RttSeen > 0 => Backs # {}
  BY DEF RttSeen, SynAcks, Backs
<1>5. Server!RttMs(packets) = RttOnServer
  <2>1. Server!In(packets, "fwd", Server!IsSynOnly) = Syns
    BY DEF Server!In, Server!IsSynOnly, Syns, NoSynWithRst
  <2>2. Server!In(packets, "rev", Server!IsSynAck) = SynAcks
    BY DEF Server!In, Server!IsSynAck, SynAcks
  <2>3. ASSUME Syns # {}, SynAcks # {}
        PROVE  (packets[Min(SynAcks)].ts > packets[Min(Syns)].ts)
                 <=> (packets[Min(SynAcks)].ts - packets[Min(Syns)].ts > 0)
    BY <1>2, <2>3
  <2> QED BY <2>1, <2>2, <2>3, SameMins DEF Server!RttMs, Server!NoRtt, RttSeen, RttOnServer
<1>6. Client!RttTenths(packets) = RttInBrowser
  BY <1>2, ClientSees, SameMins DEF Client!RttTenths, Client!NoRtt, RttSeen, RttInBrowser
<1>7. CASE RttSeen > 0
  <2>1. RttOnServer = Server!Hundredths(RttSeen) /\ RttInBrowser = Client!Tenths(RttSeen)
    BY <1>7 DEF RttOnServer, RttInBrowser
  <2> QED BY <1>3, <1>4, <1>5, <1>6, <1>7, <2>1, RoundingsAgree
<1>8. CASE ~(RttSeen > 0)
  <2>1. RttOnServer = -1 /\ RttInBrowser = -1
    BY <1>8 DEF RttOnServer, RttInBrowser
  <2> QED BY <1>5, <1>6, <2>1
<1> QED BY <1>7, <1>8

(* The client looks for the packets with a predecessor, the server counts  *)
(* those without.                                                          *)
LEMMA RetransmitsSeen ==
  ASSUME TypeOK
  PROVE  /\ IsFiniteSet(DataAt) /\ Client!Retransmits(packets) \in SUBSET DataAt
         /\ Cardinality(Client!Retransmits(packets)) \in Nat /\ Cardinality(DataAt) \in Nat
         /\ Cardinality(Client!Retransmits(packets)) <= Cardinality(DataAt)
         /\ Server!RetransmitCount(packets) = Cardinality(Client!Retransmits(packets))
<1>1. IsFiniteSet(DataAt)
  BY PlacesOfPackets, FS_Subset DEF DataAt
<1>2. Client!DataPkts(packets) = DataAt /\ Server!DataPktsOf(packets) = DataAt
  BY ClientSees DEF Server!DataPktsOf, Server!AnyWay, DataAt
<1>3. Client!Retransmits(packets) = DataAt \ Server!NewData(packets)
  BY <1>2 DEF Client!Retransmits, Server!NewData
<1>4. Server!NewData(packets) \in SUBSET DataAt
  BY <1>2 DEF Server!NewData
<1>5. PICK A : A = Client!Retransmits(packets)
  OBVIOUS
<1>6. PICK B : B = Server!NewData(packets)
  OBVIOUS
<1>7. IsFiniteSet(A) /\ IsFiniteSet(B) /\ A \cup B = DataAt /\ A \cap B = {}
  BY <1>1, <1>3, <1>4, <1>5, <1>6, FS_Subset
<1>8. Cardinality(DataAt) = Cardinality(A) + Cardinality(B)
      /\ Cardinality(A) \in Nat /\ Cardinality(B) \in Nat
  <2>1. Cardinality(A \cup B) = Cardinality(A) + Cardinality(B) - Cardinality(A \cap B)
    BY <1>7, FS_Union
  <2>2. Cardinality(A \cap B) = 0
    BY <1>7, FS_EmptySet
  <2>3. Cardinality(A) \in Nat /\ Cardinality(B) \in Nat
    BY <1>7, FS_CardinalityType
  <2> QED BY <1>7, <2>1, <2>2, <2>3
<1>9. Server!RetransmitCount(packets) = Cardinality(DataAt) - Cardinality(B)
  BY <1>2, <1>6 DEF Server!RetransmitCount, Server!Cardinality, Cardinality
<1> QED BY <1>1, <1>3, <1>5, <1>8, <1>9

LEMMA VerdictsOnTheSame ==
  ASSUME TypeOK, NoSynWithRst
  PROVE  VerdictsAgree
<1>1. Client!Handshake(packets) = Server!HandshakeOf(packets)
      /\ Client!CloseType(packets) = Server!CloseTypeOf(packets)
  BY ClientSees, ServerSees
<1>2. Cardinality(Client!Retransmits(packets)) = Server!RetransmitCount(packets)
  BY RetransmitsSeen
<1>3. {e.pktIdx : e \in {x \in Client!ExpertEvents(packets) : x.msg = "data_again"}}
        = Client!Retransmits(packets)
  <2>1. PICK R : R = Client!Retransmits(packets)
    OBVIOUS
  <2>2. PICK E : E = Client!ExpertEvents(packets)
    OBVIOUS
  <2>3. PICK syns, late, early, bare :
          E = {[pktIdx |-> i, severity |-> "warn", msg |-> "syn_again"] : i \in syns}
              \cup {[pktIdx |-> i, severity |-> "warn", msg |-> "data_again"] : i \in R}
              \cup {[pktIdx |-> i, severity |-> "error", msg |-> "rst_after_data"] : i \in late}
              \cup {[pktIdx |-> i, severity |-> "warn", msg |-> "rst_before_data"] : i \in early}
              \cup {[pktIdx |-> i, severity |-> "note", msg |-> "unnumbered"] : i \in bare}
    BY <2>1, <2>2 DEF Client!ExpertEvents
  <2>4. ASSUME NEW i \in R
        PROVE  \E e \in E : e.msg = "data_again" /\ e.pktIdx = i
    <3>1. PICK e : e = [pktIdx |-> i, severity |-> "warn", msg |-> "data_again"]
      OBVIOUS
    <3> QED BY <2>3, <3>1
  <2>5. ASSUME NEW e \in E, e.msg = "data_again"
        PROVE  e.pktIdx \in R
    BY <2>3, <2>5
  <2> QED BY <2>1, <2>2, <2>4, <2>5
<1> QED BY <1>1, <1>2, <1>3 DEF VerdictsAgree

-----------------------------------------------------------------------------
(* Scores. *)
LEMMA NotBelowZero ==
  ASSUME NEW x \in Int
  PROVE  /\ Client!Max({0, x}) = IF x > 0 THEN x ELSE 0
         /\ Server!Max({0, x}) = IF x > 0 THEN x ELSE 0
<1>1. \E m \in {0, x} : \A k \in {0, x} : m >= k
  OBVIOUS
<1> QED BY <1>1 DEF Client!Max, Server!Max

LossIn(S) == N!Sum(Server!Loss, S)

Issue(S, i) == IF i \in S THEN Server!Loss[i] ELSE 0

TcpNames == {"REFUSED", "TIMEOUT", "HALF_OPEN", "rtt_severe", "rtt_high", "lossy", "some_loss",
             "late_reset", "no_data", "no_answer"}

LEMMA NamesAreFinite == IsFiniteSet(TcpNames)
<1>1. ASSUME NEW a, NEW b, NEW c, NEW d, NEW e
      PROVE  IsFiniteSet({a, b, c, d, e})
  <2>1. IsFiniteSet({a, b} \cup {c, d})
    <3>1. IsFiniteSet({a} \cup {b}) /\ IsFiniteSet({c} \cup {d})
      BY FS_Singleton, FS_Union
    <3>2. {a} \cup {b} = {a, b} /\ {c} \cup {d} = {c, d}
      OBVIOUS
    <3> QED BY <3>1, <3>2, FS_Union
  <2>2. IsFiniteSet(({a, b} \cup {c, d}) \cup {e})
    BY <2>1, FS_AddElement
  <2>3. ({a, b} \cup {c, d}) \cup {e} = {a, b, c, d, e}
    OBVIOUS
  <2> QED BY <2>2, <2>3
<1>2. PICK A : A = {"REFUSED", "TIMEOUT", "HALF_OPEN", "rtt_severe", "rtt_high"} /\ IsFiniteSet(A)
  BY <1>1
<1>3. PICK B : B = {"lossy", "some_loss", "late_reset", "no_data", "no_answer"} /\ IsFiniteSet(B)
  BY <1>1
<1>4. TcpNames = A \cup B
  BY <1>2, <1>3 DEF TcpNames
<1> QED BY <1>2, <1>3, <1>4, FS_Union

(* An issue takes its loss off, whatever is taken off for others. *)
LEMMA IssueLoss ==
  ASSUME NEW S \in SUBSET TcpNames, NEW D, NEW i \in TcpNames \ D, NEW E, E = D \cup {i}
  PROVE  /\ LossIn(S \ E) \in Nat
         /\ LossIn(S \ D) = LossIn(S \ E) + Issue(S, i)
<1>0. IsFiniteSet(TcpNames)
  BY NamesAreFinite
<1>1. \A x \in TcpNames : Server!Loss[x] \in Nat
  BY DEF Server!Loss, TcpNames
<1>2. PICK T : T = S \ E
  OBVIOUS
<1>3. PICK v : v = Server!Loss
  OBVIOUS
<1>4. IsFiniteSet(T) /\ T \in SUBSET TcpNames /\ i \notin T
  BY <1>0, <1>2, FS_Subset
<1>5. \A x \in T \cup {i} : v[x] \in Nat
  BY <1>1, <1>3, <1>4
<1>6. N!Sum(v, T) \in Nat /\ N!Sum(v, T \cup {i}) = N!Sum(v, T) + v[i]
  BY <1>4, <1>5, NormalizerApplies, SameSets, N!SumAdds
<1>7. S \ D = IF i \in S THEN T \cup {i} ELSE T
  BY <1>2
<1> QED BY <1>2, <1>3, <1>6, <1>7 DEF LossIn, Issue

LEMMA ScoreOfIssues ==
  ASSUME NEW S \in SUBSET TcpNames
  PROVE  LET left == 100 - (Issue(S, "REFUSED") + Issue(S, "TIMEOUT") + Issue(S, "HALF_OPEN"))
                         - (Issue(S, "rtt_severe") + Issue(S, "rtt_high"))
                         - (Issue(S, "lossy") + Issue(S, "some_loss"))
                         - Issue(S, "late_reset")
                         - (Issue(S, "no_data") + Issue(S, "no_answer"))
         IN Server!ScoreFor(S) = IF left > 0 THEN left ELSE 0
<1>1. PICK D0 : D0 = {}
  OBVIOUS
<1>2. PICK D1 : D1 = D0 \cup {"REFUSED"}
  OBVIOUS
<1>3. PICK D2 : D2 = D1 \cup {"TIMEOUT"}
  OBVIOUS
<1>4. PICK D3 : D3 = D2 \cup {"HALF_OPEN"}
  OBVIOUS
<1>5. PICK D4 : D4 = D3 \cup {"rtt_severe"}
  OBVIOUS
<1>6. PICK D5 : D5 = D4 \cup {"rtt_high"}
  OBVIOUS
<1>7. PICK D6 : D6 = D5 \cup {"lossy"}
  OBVIOUS
<1>8. PICK D7 : D7 = D6 \cup {"some_loss"}
  OBVIOUS
<1>9. PICK D8 : D8 = D7 \cup {"late_reset"}
  OBVIOUS
<1>10. PICK D9 : D9 = D8 \cup {"no_data"}
  OBVIOUS
<1>11. PICK D10 : D10 = D9 \cup {"no_answer"}
  OBVIOUS
<1>20. LossIn(S \ D0) = LossIn(S \ D1) + Issue(S, "REFUSED") /\ LossIn(S \ D1) \in Nat
  <2>1. "REFUSED" \in TcpNames \ D0
    BY <1>1 DEF TcpNames
  <2> QED BY <1>2, <2>1, IssueLoss
<1>21. LossIn(S \ D1) = LossIn(S \ D2) + Issue(S, "TIMEOUT") /\ LossIn(S \ D2) \in Nat
  <2>1. "TIMEOUT" \in TcpNames \ D1
    BY <1>1, <1>2 DEF TcpNames
  <2> QED BY <1>3, <2>1, IssueLoss
<1>22. LossIn(S \ D2) = LossIn(S \ D3) + Issue(S, "HALF_OPEN") /\ LossIn(S \ D3) \in Nat
  <2>1. "HALF_OPEN" \in TcpNames \ D2
    BY <1>1, <1>2, <1>3 DEF TcpNames
  <2> QED BY <1>4, <2>1, IssueLoss
<1>23. LossIn(S \ D3) = LossIn(S \ D4) + Issue(S, "rtt_severe") /\ LossIn(S \ D4) \in Nat
  <2>1. "rtt_severe" \in TcpNames \ D3
    BY <1>1, <1>2, <1>3, <1>4 DEF TcpNames
  <2> QED BY <1>5, <2>1, IssueLoss
<1>24. LossIn(S \ D4) = LossIn(S \ D5) + Issue(S, "rtt_high") /\ LossIn(S \ D5) \in Nat
  <2>1. "rtt_high" \in TcpNames \ D4
    BY <1>1, <1>2, <1>3, <1>4, <1>5 DEF TcpNames
  <2> QED BY <1>6, <2>1, IssueLoss
<1>25. LossIn(S \ D5) = LossIn(S \ D6) + Issue(S, "lossy") /\ LossIn(S \ D6) \in Nat
  <2>1. "lossy" \in TcpNames \ D5
    BY <1>1, <1>2, <1>3, <1>4, <1>5, <1>6 DEF TcpNames
  <2> QED BY <1>7, <2>1, IssueLoss
<1>26. LossIn(S \ D6) = LossIn(S \ D7) + Issue(S, "some_loss") /\ LossIn(S \ D7) \in Nat
  <2>1. "some_loss" \in TcpNames \ D6
    BY <1>1, <1>2, <1>3, <1>4, <1>5, <1>6, <1>7 DEF TcpNames
  <2> QED BY <1>8, <2>1, IssueLoss
<1>27. LossIn(S \ D7) = LossIn(S \ D8) + Issue(S, "late_reset") /\ LossIn(S \ D8) \in Nat
  <2>1. "late_reset" \in TcpNames \ D7
    BY <1>1, <1>2, <1>3, <1>4, <1>5, <1>6, <1>7, <1>8 DEF TcpNames
  <2> QED BY <1>9, <2>1, IssueLoss
<1>28. LossIn(S \ D8) = LossIn(S \ D9) + Issue(S, "no_data") /\ LossIn(S \ D9) \in Nat
  <2>1. "no_data" \in TcpNames \ D8
    BY <1>1, <1>2, <1>3, <1>4, <1>5, <1>6, <1>7, <1>8, <1>9 DEF TcpNames
  <2> QED BY <1>10, <2>1, IssueLoss
<1>29. LossIn(S \ D9) = LossIn(S \ D10) + Issue(S, "no_answer") /\ LossIn(S \ D10) \in Nat
  <2>1. "no_answer" \in TcpNames \ D9
    BY <1>1, <1>2, <1>3, <1>4, <1>5, <1>6, <1>7, <1>8, <1>9, <1>10 DEF TcpNames
  <2> QED BY <1>11, <2>1, IssueLoss
<1>30. S \ D0 = S /\ S \ D10 = {}
  BY <1>1, <1>2, <1>3, <1>4, <1>5, <1>6, <1>7, <1>8, <1>9, <1>10, <1>11 DEF TcpNames
<1>31. LossIn(S \ D10) = 0
  BY <1>30, NormalizerApplies, N!SumOfNone DEF LossIn
<1>32. \A i \in TcpNames : Issue(S, i) \in Nat
  BY DEF Issue, Server!Loss, TcpNames
<1>33. /\ Issue(S, "REFUSED") \in Nat /\ Issue(S, "TIMEOUT") \in Nat /\ Issue(S, "HALF_OPEN") \in Nat
       /\ Issue(S, "rtt_severe") \in Nat /\ Issue(S, "rtt_high") \in Nat
       /\ Issue(S, "lossy") \in Nat /\ Issue(S, "some_loss") \in Nat
       /\ Issue(S, "late_reset") \in Nat
       /\ Issue(S, "no_data") \in Nat /\ Issue(S, "no_answer") \in Nat
  BY <1>32 DEF TcpNames
<1>34. 100 - LossIn(S) =
         100 - (Issue(S, "REFUSED") + Issue(S, "TIMEOUT") + Issue(S, "HALF_OPEN"))
             - (Issue(S, "rtt_severe") + Issue(S, "rtt_high"))
             - (Issue(S, "lossy") + Issue(S, "some_loss"))
             - Issue(S, "late_reset")
             - (Issue(S, "no_data") + Issue(S, "no_answer"))
  <2>1. LossIn(S \ D7) = Issue(S, "late_reset") + (Issue(S, "no_data") + Issue(S, "no_answer"))
    BY <1>27, <1>28, <1>29, <1>31, <1>33
  <2>2. LossIn(S \ D3) = LossIn(S \ D7) + (Issue(S, "rtt_severe") + Issue(S, "rtt_high"))
                          + (Issue(S, "lossy") + Issue(S, "some_loss"))
    BY <1>23, <1>24, <1>25, <1>26, <1>33
  <2>3. LossIn(S \ D0) = LossIn(S \ D3)
                          + (Issue(S, "REFUSED") + Issue(S, "TIMEOUT") + Issue(S, "HALF_OPEN"))
    BY <1>20, <1>21, <1>22, <1>33
  <2>4. PICK u : u = Issue(S, "REFUSED") + Issue(S, "TIMEOUT") + Issue(S, "HALF_OPEN") /\ u \in Nat
    BY <1>33
  <2>5. PICK v : v = Issue(S, "rtt_severe") + Issue(S, "rtt_high") /\ v \in Nat
    BY <1>33
  <2>6. PICK w : w = Issue(S, "lossy") + Issue(S, "some_loss") /\ w \in Nat
    BY <1>33
  <2>7. PICK x : x = Issue(S, "late_reset") /\ x \in Nat
    BY <1>33
  <2>8. PICK y : y = Issue(S, "no_data") + Issue(S, "no_answer") /\ y \in Nat
    BY <1>33
  <2>9. LossIn(S) = ((x + y) + v + w) + u
    BY <1>30, <2>1, <2>2, <2>3, <2>4, <2>5, <2>6, <2>7, <2>8
  <2>10. 100 - LossIn(S) = 100 - u - v - w - x - y
    BY <2>4, <2>5, <2>6, <2>7, <2>8, <2>9
  <2> QED BY <2>4, <2>5, <2>6, <2>7, <2>8, <2>10
<1>35. 100 - LossIn(S) \in Int
  BY <1>33, <1>34
<1>36. Server!ScoreFor(S) = Server!Max({0, 100 - LossIn(S)})
  BY DEF Server!ScoreFor, LossIn, Server!SumFunctionOnSet, Server!FoldFunctionOnSet,
         Server!MapThenFoldSet, N!Sum, N!IsSum, N!Term, N!AnyOf
<1> QED BY <1>34, <1>35, <1>36, NotBelowZero

-----------------------------------------------------------------------------
(* What the server takes off, beside what the browser takes off. *)
LEMMA LossesSeen ==
  ASSUME TypeOK
  PROVE  LET again == 100 * Server!RetransmitCount(packets)
             data  == Server!Max({1, Cardinality(DataAt)})
         IN Client!RetransmitLoss(packets) = IF again > 20 * data THEN 30
                                             ELSE IF again > 5 * data THEN 15 ELSE 0
<1>1. PICK lost \in Nat : lost = Cardinality(Client!Retransmits(packets))
  BY RetransmitsSeen
<1>2. PICK n \in Nat : n = Cardinality(DataAt)
  BY RetransmitsSeen
<1>3. lost <= n /\ Server!RetransmitCount(packets) = lost
  BY <1>1, <1>2, RetransmitsSeen
<1>4. PICK d : d = Server!Max({1, n})
  OBVIOUS
<1>5. d = IF n > 1 THEN n ELSE 1
  <2>1. \E m \in {1, n} : \A k \in {1, n} : m >= k
    OBVIOUS
  <2> QED BY <1>4, <2>1 DEF Server!Max
<1>6. (100 * lost > 20 * d <=> 100 * lost > 20 * n) /\ (100 * lost > 5 * d <=> 100 * lost > 5 * n)
  BY <1>3, <1>5
<1>7. Client!RetransmitLoss(packets) = IF 100 * lost > 20 * n THEN 30
                                       ELSE IF 100 * lost > 5 * n THEN 15 ELSE 0
  BY <1>1, <1>2, ClientSees DEF Client!RetransmitLoss, Client!Cardinality, Cardinality
<1> QED BY <1>2, <1>3, <1>4, <1>6, <1>7

LEMMA IssuesSeen ==
  ASSUME TypeOK, NoSynWithRst, NEW session, NEW S, S = Server!TcpIssues(session, packets)
  PROVE  /\ S \in SUBSET TcpNames
         /\ "REFUSED" \in S <=> HandshakeSeen = "REFUSED"
         /\ "TIMEOUT" \in S <=> HandshakeSeen = "TIMEOUT"
         /\ "HALF_OPEN" \in S <=> HandshakeSeen = "HALF_OPEN"
         /\ "rtt_severe" \in S <=> RttOnServer > 50000
         /\ "rtt_high" \in S <=> RttOnServer > 15000 /\ RttOnServer <= 50000
         /\ Issue(S, "lossy") + Issue(S, "some_loss") = Client!RetransmitLoss(packets)
         /\ Client!RetransmitLoss(packets) = 0 => {"lossy", "some_loss"} \cap S = {}
         /\ "late_reset" \in S => Resets # {}
         /\ "no_data" \in S => session.bytes_recv = 0
         /\ "no_answer" \in S => session.bytes_recv = 0
         /\ ~({"no_data", "no_answer"} \subseteq S /\ session.bytes_sent \in Nat)
<1>1. PICK again : again = 100 * Server!RetransmitCount(packets)
  OBVIOUS
<1>2. PICK data : data = Server!Max({1, Server!Cardinality(Server!DataPktsOf(packets))})
  OBVIOUS
<1>3. S = {i \in {"REFUSED", "TIMEOUT", "HALF_OPEN"} : i = HandshakeSeen}
             \cup {i \in {"rtt_severe"} : RttOnServer > 50000}
             \cup {i \in {"rtt_high"} : RttOnServer > 15000 /\ RttOnServer <= 50000}
             \cup {i \in {"lossy"} : again > 20 * data}
             \cup {i \in {"some_loss"} : again > 5 * data /\ again <= 20 * data}
             \cup {i \in {"late_reset"} : Server!RstType(packets) = "LATE"}
             \cup {i \in {"no_data"} : session.bytes_recv = 0 /\ session.bytes_sent = 0}
             \cup {i \in {"no_answer"} : session.bytes_recv = 0 /\ session.bytes_sent > 0
                                           /\ HandshakeSeen = "COMPLETE"}
  BY <1>1, <1>2, ServerSees, RttsSeen DEF Server!TcpIssues
<1>4. "lossy" \in S <=> again > 20 * data
  BY <1>3
<1>5. "some_loss" \in S <=> again > 5 * data /\ again <= 20 * data
  BY <1>3
<1>6. Client!RetransmitLoss(packets) = IF again > 20 * data THEN 30
                                       ELSE IF again > 5 * data THEN 15 ELSE 0
  BY <1>1, <1>2, LossesSeen, ServerSees DEF Server!Cardinality, Cardinality
<1>7. again \in Int /\ data \in Int
  <2>1. Cardinality(DataAt) \in Nat /\ Server!RetransmitCount(packets) \in Nat
    BY RetransmitsSeen
  <2>2. data = Server!Max({1, Cardinality(DataAt)})
    BY <1>2, ServerSees DEF Server!Cardinality, Cardinality
  <2>3. \E m \in {1, Cardinality(DataAt)} : \A k \in {1, Cardinality(DataAt)} : m >= k
    BY <2>1
  <2>4. data \in {1, Cardinality(DataAt)}
    BY <2>2, <2>3 DEF Server!Max
  <2> QED BY <1>1, <2>1, <2>4
<1>8. S \in SUBSET TcpNames
  BY <1>3 DEF TcpNames
<1>9. Issue(S, "lossy") + Issue(S, "some_loss") = Client!RetransmitLoss(packets)
      /\ (Client!RetransmitLoss(packets) = 0 => {"lossy", "some_loss"} \cap S = {})
  <2>1. Server!Loss["lossy"] = 30 /\ Server!Loss["some_loss"] = 15
    BY DEF Server!Loss
  <2>2. again <= 20 * data <=> ~(again > 20 * data)
    BY <1>7
  <2> QED BY <1>4, <1>5, <1>6, <2>1, <2>2 DEF Issue
<1>10. /\ "REFUSED" \in S <=> HandshakeSeen = "REFUSED"
       /\ "TIMEOUT" \in S <=> HandshakeSeen = "TIMEOUT"
       /\ "HALF_OPEN" \in S <=> HandshakeSeen = "HALF_OPEN"
       /\ "rtt_severe" \in S <=> RttOnServer > 50000
       /\ "rtt_high" \in S <=> RttOnServer > 15000 /\ RttOnServer <= 50000
  BY <1>3
<1>11. "late_reset" \in S => Resets # {}
  <2>1. "late_reset" \in S => Server!RstType(packets) = "LATE"
    BY <1>3
  <2> QED BY <2>1, ServerSees
<1>12. /\ "no_data" \in S => session.bytes_recv = 0 /\ session.bytes_sent = 0
       /\ "no_answer" \in S => session.bytes_recv = 0 /\ session.bytes_sent > 0
  BY <1>3
<1> QED BY <1>8, <1>9, <1>10, <1>11, <1>12

(* The browser takes off 10 for a reset, the server 20 for a late one and
   nothing for others; the server takes off 15 for silence, which rules out a
   round trip; and where the browser's rounding hides a delay, the server's
   is one step higher. *)
LEMMA NeverOpposite ==
  ASSUME NEW hs \in {0, 25, 35, 40}, NEW rtt \in Int, NEW loss \in {0, 15, 30},
         NEW reset \in {0, 10}, NEW late \in {0, 20}, NEW silent \in {0, 15},
         late = 20 => reset = 10, rtt > 0 => silent = 0,
         NEW seen \in Int,
         seen > 1500 => rtt > 15000, seen > 5000 => rtt > 50000, rtt > 15005 => seen > 1500,
         NEW c, c = 100 - hs - (IF seen > 5000 THEN 20 ELSE IF seen > 1500 THEN 10 ELSE 0)
                        - loss - reset,
         NEW s, s = 100 - hs - (IF rtt > 50000 THEN 20 ELSE IF rtt > 15000 THEN 10 ELSE 0)
                        - loss - late - silent
  PROVE  /\ c >= 80 => s >= 50
         /\ s >= 80 => c >= 50
<1>1. PICK x \in {0, 10, 20} : x = IF seen > 5000 THEN 20 ELSE IF seen > 1500 THEN 10 ELSE 0
  OBVIOUS
<1>2. PICK y \in {0, 10, 20} : y = IF rtt > 50000 THEN 20 ELSE IF rtt > 15000 THEN 10 ELSE 0
  OBVIOUS
<1>3. x <= y /\ y <= x + 10
  BY <1>1, <1>2
<1>4. y > 0 => silent = 0
  BY <1>2
<1>5. c = 100 - hs - x - loss - reset /\ s = 100 - hs - y - loss - late - silent
  BY <1>1, <1>2
<1> QED BY <1>3, <1>4, <1>5

LEMMA ServerScore ==
  ASSUME TypeOK, NoSynWithRst, NEW session, session.bytes_sent \in Nat,
         NEW S, S = Server!TcpIssues(session, packets)
  PROVE  \E late \in {0, 20}, silent \in {0, 15} :
           /\ late = 20 => Resets # {}
           /\ silent = 15 => session.bytes_recv = 0
           /\ LET left == 100 - (IF HandshakeSeen = "N/A" THEN 0 ELSE Client!HandshakeLoss[HandshakeSeen])
                          - (IF RttOnServer > 50000 THEN 20 ELSE IF RttOnServer > 15000 THEN 10 ELSE 0)
                          - Client!RetransmitLoss(packets) - late - silent
              IN Server!ScoreFor(S) = IF left > 0 THEN left ELSE 0
<1>1. PICK late \in {0, 20} : late = Issue(S, "late_reset")
  BY DEF Issue, Server!Loss
<1>2. PICK silent \in {0, 15} : silent = Issue(S, "no_data") + Issue(S, "no_answer")
  BY IssuesSeen DEF Issue, Server!Loss
<1>3. late = 20 => Resets # {}
  BY <1>1, IssuesSeen DEF Issue
<1>4. silent = 15 => session.bytes_recv = 0
  BY <1>2, IssuesSeen DEF Issue
<1>5. Issue(S, "REFUSED") + Issue(S, "TIMEOUT") + Issue(S, "HALF_OPEN")
        = IF HandshakeSeen = "N/A" THEN 0 ELSE Client!HandshakeLoss[HandshakeSeen]
  BY IssuesSeen DEF Issue, Server!Loss, Client!HandshakeLoss, HandshakeSeen
<1>6. Issue(S, "rtt_severe") + Issue(S, "rtt_high")
        = IF RttOnServer > 50000 THEN 20 ELSE IF RttOnServer > 15000 THEN 10 ELSE 0
  BY IssuesSeen, RttsSeen DEF Issue, Server!Loss
<1>7. Issue(S, "lossy") + Issue(S, "some_loss") = Client!RetransmitLoss(packets)
      /\ S \in SUBSET TcpNames
  BY IssuesSeen
<1> QED BY <1>1, <1>2, <1>3, <1>4, <1>5, <1>6, <1>7, ScoreOfIssues

LEMMA CirclesNeverOpposite ==
  ASSUME TypeOK, NoSynWithRst, NEW session, session.bytes_sent \in Nat,
         session.bytes_recv = 0 => Backs = {},
         NEW score, score = Server!ScoreFor(Server!TcpIssues(session, packets))
  PROVE  /\ Client!Score(packets) \in Nat /\ score \in Nat
         /\ Client!Score(packets) >= 80 => score >= 50
         /\ score >= 80 => Client!Score(packets) >= 50
<1>1. PICK late \in {0, 20}, silent \in {0, 15} :
           /\ late = 20 => Resets # {}
           /\ silent = 15 => session.bytes_recv = 0
           /\ LET left == 100 - (IF HandshakeSeen = "N/A" THEN 0 ELSE Client!HandshakeLoss[HandshakeSeen])
                          - (IF RttOnServer > 50000 THEN 20 ELSE IF RttOnServer > 15000 THEN 10 ELSE 0)
                          - Client!RetransmitLoss(packets) - late - silent
              IN score = IF left > 0 THEN left ELSE 0
  BY ServerScore
<1>2. PICK hs \in {0, 25, 35, 40} :
        hs = IF HandshakeSeen = "N/A" THEN 0 ELSE Client!HandshakeLoss[HandshakeSeen]
  BY DEF HandshakeSeen, Client!HandshakeLoss
<1>3. PICK loss \in {0, 15, 30} : loss = Client!RetransmitLoss(packets)
  BY DEF Client!RetransmitLoss
<1>4. PICK reset \in {0, 10} : reset = IF CloseSeen = "RESET" THEN 10 ELSE 0
  OBVIOUS
<1>5. PICK seen \in Int : seen = RttInBrowser
  BY RttsSeen
<1>6. PICK c : c = 100 - hs - (IF seen > 5000 THEN 20 ELSE IF seen > 1500 THEN 10 ELSE 0)
                       - loss - reset
  OBVIOUS
<1>7. PICK s : s = 100 - hs - (IF RttOnServer > 50000 THEN 20 ELSE IF RttOnServer > 15000 THEN 10 ELSE 0)
                       - loss - late - silent
  OBVIOUS
<1>8. late = 20 => reset = 10
  BY <1>1, <1>4 DEF CloseSeen
<1>9. /\ RttOnServer \in Int /\ (RttOnServer > 0 => silent = 0)
      /\ seen > 1500 => RttOnServer > 15000
      /\ seen > 5000 => RttOnServer > 50000
      /\ RttOnServer > 15005 => seen > 1500
  BY <1>1, <1>5, RttsSeen
<1>10. (c >= 80 => s >= 50) /\ (s >= 80 => c >= 50)
  BY <1>5, <1>6, <1>7, <1>8, <1>9, NeverOpposite
<1>11. c \in Int /\ s \in Int
  BY <1>6, <1>7
<1>12. Client!Score(packets) = IF c > 0 THEN c ELSE 0
  <2>1. Client!RttTenths(packets) = seen
    BY <1>5, RttsSeen
  <2>2. Client!Score(packets) = Client!Max({0, c})
    BY <1>2, <1>3, <1>4, <1>6, <2>1, ClientSees DEF Client!Score, Client!RttLoss
  <2> QED BY <1>11, <2>2, NotBelowZero
<1>13. score = IF s > 0 THEN s ELSE 0
  BY <1>1, <1>2, <1>3, <1>7
<1> QED BY <1>10, <1>11, <1>12, <1>13

LEMMA ColoursOfTheSame ==
  ASSUME TypeOK, NoSynWithRst, packets # <<>>, NEW session \in Diagnosed,
         NEW h, h = Server!Analyze(session, packets)
  PROVE  ColoursAgree(h)
<1>1. PICK S : S = Server!TcpIssues(session, packets)
  OBVIOUS
<1>2. /\ h.score = Server!ScoreFor(S) /\ h.issues = S
      /\ h.handshake = HandshakeSeen /\ h.rtt_ms = RttOnServer
      /\ h.retransmit_count = Cardinality(Client!Retransmits(packets))
      /\ h.close_type = CloseSeen
  BY <1>1, ServerSees, RttsSeen, RetransmitsSeen
  DEF Server!Analyze, Server!AnalyzeTcp, Server!Verdict
<1>3. session.bytes_sent \in Nat /\ (session.bytes_recv = 0 => Backs = {})
  <2>1. PICK more \in Beyond : session.bytes_sent = Count("fwd") + more[1]
                               /\ session.bytes_recv = Count("rev") + more[2]
    BY DEF Diagnosed
  <2>2. more[1] \in Nat /\ more[2] \in Nat
    BY PanelContentsAssumption
  <2>3. Count("rev") = Cardinality(Backs) /\ IsFiniteSet(Backs)
    BY PlacesOfPackets, FS_Subset DEF Count, Backs
  <2>4. Count("fwd") \in Nat
    <3>1. IsFiniteSet({i \in DOMAIN packets : packets[i].direction = "fwd"})
      BY PlacesOfPackets, FS_Subset
    <3> QED BY <3>1, FS_CardinalityType DEF Count
  <2>5. Cardinality(Backs) \in Nat /\ (Cardinality(Backs) = 0 => Backs = {})
    BY <2>3, FS_CardinalityType, FS_EmptySet
  <2> QED BY <2>1, <2>2, <2>3, <2>4, <2>5
<1>4. PICK v : v = Client!ConnAnalysis(packets)
  OBVIOUS
<1>5. PICK d : d = Screens!ExplorerDetail(h)
  OBVIOUS
<1>6. v.handshake = d.handshake
  BY <1>2, <1>4, <1>5, ClientSees
  DEF Client!ConnAnalysis, Screens!ExplorerDetail, Screens!Colour, Screens!HS_COLOR,
      Client!HandshakeColour
<1>7. v.retransmits = d.retransmits
  <2>1. PICK R : R = Client!Retransmits(packets)
    OBVIOUS
  <2>2. IsFiniteSet(R) /\ Cardinality(R) \in Nat
    BY <2>1, RetransmitsSeen, FS_Subset
  <2>3. Cardinality(R) > 0 <=> R # {}
    BY <2>2, FS_EmptySet
  <2> QED BY <1>2, <1>4, <1>5, <2>1, <2>3 DEF Client!ConnAnalysis, Screens!ExplorerDetail
<1>8. (v.close = "red") = (d.close = "red")
  BY <1>2, <1>4, <1>5, ClientSees
  DEF Client!ConnAnalysis, Screens!ExplorerDetail, CloseSeen
<1>9. /\ v.rtt = "amber" => d.rtt = "amber"
      /\ d.rtt = "amber" => v.rtt = "amber" \/ h.rtt_ms <= 15005
  BY <1>2, <1>4, <1>5, RttsSeen
  DEF Client!ConnAnalysis, Screens!ExplorerDetail, Screens!SlowColour
<1>10. ~Opposite(v.circle, d.circle)
  <2>1. PICK c \in Nat : c = Client!Score(packets)
    BY <1>3, CirclesNeverOpposite
  <2>2. PICK s \in Nat : s = h.score
    BY <1>1, <1>2, <1>3, CirclesNeverOpposite
  <2>3. (c >= 80 => s >= 50) /\ (s >= 80 => c >= 50)
    BY <1>1, <1>2, <1>3, <2>1, <2>2, CirclesNeverOpposite
  <2>4. v.circle = IF c >= 80 THEN "green" ELSE IF c >= 50 THEN "amber" ELSE "red"
    BY <1>4, <2>1 DEF Client!ConnAnalysis
  <2>5. d.circle = IF s >= 80 THEN "green" ELSE IF s >= 50 THEN "amber" ELSE "red"
    BY <1>5, <2>2 DEF Screens!ExplorerDetail, Screens!scoreColor
  <2> QED BY <2>3, <2>4, <2>5 DEF Opposite
<1>11. v.calm => h.issues \subseteq {"rtt_high", "no_data", "no_answer"}
  <2>1. SUFFICES ASSUME Client!Issues(packets) = {}
                 PROVE  S \subseteq {"rtt_high", "no_data", "no_answer"}
    BY <1>2, <1>4 DEF Client!ConnAnalysis
  <2>2. HandshakeSeen \notin {"REFUSED", "TIMEOUT", "HALF_OPEN"}
    BY <2>1, ClientSees DEF Client!Issues
  <2>3. ~(Client!RttLoss(packets) > 0) /\ ~(Client!RetransmitLoss(packets) > 0) /\ Resets = {}
    BY <2>1, ClientSees DEF Client!Issues, CloseSeen
  <2>4. Client!RetransmitLoss(packets) = 0
    BY <2>3 DEF Client!RetransmitLoss
  <2>5. ~(RttOnServer > 50000)
    BY <2>3, RttsSeen DEF Client!RttLoss
  <2> QED BY <1>1, <2>2, <2>3, <2>4, <2>5, IssuesSeen DEF TcpNames
<1> QED BY <1>4, <1>5, <1>6, <1>7, <1>8, <1>9, <1>10, <1>11 DEF ColoursAgree

-----------------------------------------------------------------------------
(* What the lists make of a verdict: its status is that of its score, and it
   speaks of the path only with an issue. *)
Coherent(h) ==
  /\ h.score \in Int /\ h.status = Server!Status(h.score)
  /\ h.failure_type = "path_issue" => h.issues # {}

LEMMA ScoreIsNumber ==
  ASSUME NEW S \in SUBSET (TcpNames \cup {"rst", "nothing_moved"})
  PROVE  Server!ScoreFor(S) \in Int
<1>1. IsFiniteSet(S)
  <2>1. IsFiniteSet({"rst"} \cup {"nothing_moved"})
    BY FS_Singleton, FS_Union
  <2>2. IsFiniteSet(TcpNames \cup ({"rst"} \cup {"nothing_moved"}))
    BY <2>1, NamesAreFinite, FS_Union
  <2> QED BY <2>2, FS_Subset
<1>2. \A x \in S : Server!Loss[x] \in Nat
  BY DEF Server!Loss, TcpNames
<1>3. LossIn(S) \in Nat
  BY <1>1, <1>2, NormalizerApplies, SameSets, N!SumIsNumber DEF LossIn
<1>4. Server!ScoreFor(S) = Server!Max({0, 100 - LossIn(S)})
  BY DEF Server!ScoreFor, LossIn, Server!SumFunctionOnSet, Server!FoldFunctionOnSet,
         Server!MapThenFoldSet, N!Sum, N!IsSum, N!Term, N!AnyOf
<1> QED BY <1>3, <1>4, NotBelowZero

LEMMA VerdictsAreCoherent ==
  ASSUME NEW session, NEW h, h = Server!Analyze(session, packets)
  PROVE  Coherent(h) /\ Coherent(Server!WithIcmp(h))
<1>0. h.score \in Int
  <2>1. Server!TcpIssues(session, packets) \in SUBSET TcpNames
    BY DEF Server!TcpIssues, TcpNames
  <2>2. Server!NoPacketsIssues(session) \in SUBSET (TcpNames \cup {"rst", "nothing_moved"})
    BY DEF Server!NoPacketsIssues, TcpNames
  <2>3. h.score \in {Server!ScoreFor(Server!TcpIssues(session, packets)),
                     Server!ScoreFor(Server!NoPacketsIssues(session))}
    BY DEF Server!Analyze, Server!AnalyzeTcp, Server!AnalyzeNoPackets, Server!Verdict
  <2> QED BY <2>1, <2>2, <2>3, ScoreIsNumber
<1>1. h.status = Server!Status(h.score)
  BY DEF Server!Analyze, Server!AnalyzeTcp, Server!AnalyzeNoPackets, Server!Verdict
<1>2. h.failure_type # "path_issue"
  BY DEF Server!Analyze, Server!AnalyzeTcp, Server!AnalyzeNoPackets, Server!Verdict, Server!FailureType
<1>3. PICK score \in Int : score = Server!Max({0, h.score - 30})
  BY <1>0, NotBelowZero
<1>4. DOMAIN h = {"score", "status", "issues", "handshake", "rtt_ms", "retransmit_count",
                  "rst_type", "close_type", "failure_type"}
  BY DEF Server!Analyze, Server!AnalyzeTcp, Server!AnalyzeNoPackets, Server!Verdict
<1>5. PICK g : g = [h EXCEPT !.failure_type = "path_issue", !.issues = @ \cup {"path"},
                             !.score = score, !.status = Server!Status(score)]
  OBVIOUS
<1>6. g.score \in Int /\ g.status = Server!Status(g.score) /\ "path" \in g.issues
  BY <1>4, <1>5
<1>7. Server!WithIcmp(h) = h \/ Server!WithIcmp(h) = g
  BY <1>3, <1>5 DEF Server!WithIcmp
<1> QED BY <1>0, <1>1, <1>2, <1>6, <1>7 DEF Coherent

LEMMA CoherentColours ==
  ASSUME NEW h, Coherent(h)
  PROVE  OneColour(h)
<1>1. ColourOf[h.status] = Screens!scoreColor(h.score)
  BY DEF Coherent, Server!Status, Screens!scoreColor, ColourOf
<1> QED BY <1>1 DEF OneColour, Coherent, Screens!ExplorerRow, Screens!HealthRow,
                    Screens!ExplorerDetail, Screens!HealthDetail

LEMMA CoherentCounts ==
  ASSUME NEW healths, IsFiniteSet(DOMAIN healths), \A i \in DOMAIN healths : Coherent(healths[i])
  PROVE  CountsMatchRows(healths)
<1>1. PICK ok : ok = {i \in DOMAIN healths : healths[i].status = "ok"}
  OBVIOUS
<1>2. PICK warning : warning = {i \in DOMAIN healths : healths[i].status = "warning"}
  OBVIOUS
<1>3. PICK critical : critical = {i \in DOMAIN healths : healths[i].status = "critical"}
  OBVIOUS
<1>4. ASSUME NEW i \in DOMAIN healths
      PROVE  /\ healths[i].status \in {"ok", "warning", "critical"}
             /\ healths[i].status = "ok" <=> healths[i].score >= 80
             /\ healths[i].status = "warning" <=> healths[i].score >= 50 /\ healths[i].score < 80
             /\ healths[i].status = "critical" <=> healths[i].score < 50
  <2>1. PICK n \in Int : n = healths[i].score
    BY DEF Coherent
  <2> QED BY <2>1 DEF Coherent, Server!Status
<1>5. Server!Counts(healths) =
        [healthy |-> Cardinality(ok), warning |-> Cardinality(warning),
         critical |-> Cardinality(critical)]
  <2>1. {i \in DOMAIN healths : healths[i].score >= 80} = ok
    BY <1>1, <1>4
  <2>2. {i \in DOMAIN healths : healths[i].score >= 50 /\ healths[i].score < 80} = warning
    BY <1>2, <1>4
  <2>3. {i \in DOMAIN healths : healths[i].score < 50} = critical
    BY <1>3, <1>4
  <2> QED BY <2>1, <2>2, <2>3 DEF Server!Counts, Server!Cardinality, Cardinality
<1>6. PICK bars : bars = [ok |-> Cardinality(ok), warning |-> Cardinality(warning),
                          critical |-> Cardinality(critical)]
  OBVIOUS
<1>7. Screens!StatsRow([events |-> 0, rsts |-> 0, retransmits |-> 0], Server!Counts(healths)).bars = bars
  BY <1>5, <1>6 DEF Screens!StatsRow
<1>8. ASSUME NEW status \in {"ok", "warning", "critical"}
      PROVE  bars[status] = Cardinality(DOMAIN Screens!Visible(healths, status))
  <2>1. DOMAIN Screens!Visible(healths, status) = {i \in DOMAIN healths : healths[i].status = status}
    BY <1>4 DEF Screens!Visible, Screens!RestrictValues, Screens!Restrict
  <2>2. CASE status = "ok"
    BY <1>1, <1>6, <2>1, <2>2
  <2>3. CASE status = "warning"
    BY <1>2, <1>6, <2>1, <2>3
  <2>4. CASE status = "critical"
    BY <1>3, <1>6, <2>1, <2>4
  <2> QED BY <2>2, <2>3, <2>4
<1>9. DOMAIN Screens!CriticalOnly(healths) = warning \cup critical
  BY <1>2, <1>3, <1>4 DEF Screens!CriticalOnly, Screens!RestrictValues, Screens!Restrict
<1>10. Cardinality(warning \cup critical) = Cardinality(warning) + Cardinality(critical)
  <2>1. IsFiniteSet(warning) /\ IsFiniteSet(critical) /\ warning \cap critical = {}
    BY <1>2, <1>3, FS_Subset
  <2>2. Cardinality(warning) \in Nat /\ Cardinality(critical) \in Nat
        /\ Cardinality(warning \cap critical) = 0
    BY <2>1, FS_CardinalityType, FS_EmptySet
  <2>3. Cardinality(warning \cup critical)
          = Cardinality(warning) + Cardinality(critical) - Cardinality(warning \cap critical)
    BY <2>1, FS_Union
  <2> QED BY <2>1, <2>2, <2>3
<1> QED BY <1>6, <1>7, <1>8, <1>9, <1>10 DEF CountsMatchRows

-----------------------------------------------------------------------------
(* A packet in the table and in the viewer. *)
LEMMA LabelledTheSame ==
  ASSUME NEW p, p.proto \in {"TCP", "UDP", "ICMP"}, p.payload \in Labels!Payloads,
         p.proto # "TCP" => p.flags \in {{}, {"8/0"}}, ~({"SYN", "RST"} \subseteq p.flags)
  PROVE  LabelledAlike(p)
<1>1. PICK badge : badge = Labels!FlagBadge(p)
  OBVIOUS
<1>2. PICK bare : bare = IF badge \in DOMAIN Legend THEN Legend[badge] ELSE "ACK"
  OBVIOUS
<1>3. PICK table : table = Short(Labels!decodePacketInfo(p))
  OBVIOUS
<1>4. PICK viewer : viewer = Short(Labels!decodeInfo(p))
  OBVIOUS
<1>5. PICK row : row = Labels!ExpandedRow(p)
  OBVIOUS
<1>6. PICK content : content = p.payload.content
  OBVIOUS
<1>7. /\ content \in {"nothing", "blank", "request", "connect", "response", "like_http", "other"}
      /\ p.payload.breaks # {} => content \in {"request", "connect", "response", "like_http"}
  BY <1>6 DEF Labels!Payloads
<1>8. /\ Labels!flagClass(p) = badge
      /\ Labels!ladderColor(p) \in IF badge \in DOMAIN Legend THEN {bare} ELSE {"data", "ACK"}
  BY <1>1, <1>2 DEF Labels!flagClass, Labels!ladderColor, Labels!FlagBadge, Labels!Has, Legend
<1>9. Labels!hasHex(p) <=> content # "nothing"
  BY <1>6 DEF Labels!hasHex
<1>10. CASE content = "nothing"
  <2>1. Labels!BareInfo(p) = bare
    BY <1>1, <1>2 DEF Labels!BareInfo, Labels!FlagBadge, Labels!Has, Legend
  <2>2. bare \in {"SYN", "SYN+ACK", "RST", "FIN", "ACK"}
    BY <2>1 DEF Labels!BareInfo
  <2>3. table = bare /\ viewer = bare
    BY <1>3, <1>4, <1>6, <1>10, <2>1, <2>2 DEF Labels!decodePacketInfo, Labels!decodeInfo, Short
  <2>4. row = "no_payload" /\ ~Labels!Replayed(p)
    BY <1>5, <1>6, <1>10 DEF Labels!ExpandedRow, Labels!Replayed
  <2> QED BY <1>1, <1>2, <1>3, <1>4, <1>5, <1>8, <1>9, <1>10, <2>2, <2>3, <2>4
          DEF LabelledAlike, Http
<1>11. CASE content # "nothing"
  <2>1. table = IF content \in {"request", "connect"} /\ Labels!InTable(p) THEN "HTTP request"
                ELSE IF content = "response" /\ Labels!InTable(p) THEN "HTTP response"
                ELSE IF p.proto = "UDP" THEN "UDP" ELSE "data"
    BY <1>3, <1>6, <1>11 DEF Labels!decodePacketInfo, Short
  <2>2. viewer = IF content \in {"request", "connect"} /\ Labels!InViewer(p) THEN "HTTP request"
                 ELSE IF content = "response" /\ Labels!InViewer(p) THEN "HTTP response"
                 ELSE IF p.proto = "UDP" THEN "UDP" ELSE "data"
    BY <1>4, <1>6, <1>11 DEF Labels!decodeInfo, Short
  <2>3. row = IF content \in {"request", "response", "like_http"} /\ "before" \notin p.payload.breaks
              THEN "text" ELSE "hex_dump"
    BY <1>5, <1>6, <1>11 DEF Labels!ExpandedRow
  <2>4. Labels!Replayed(p) <=> content # "blank"
    BY <1>6, <1>11 DEF Labels!Replayed
  <2>5. Labels!InTable(p) => "before" \notin p.payload.breaks
    BY DEF Labels!InTable
  <2>6. p.payload.breaks = {} => Labels!InTable(p) /\ Labels!InViewer(p)
    BY DEF Labels!InTable, Labels!InViewer
  <2>7. \A name \in {table, viewer} : name \in Http \cup {"UDP", "data"}
    BY <2>1, <2>2 DEF Http
  <2>8. table # viewer => p.payload.breaks # {} /\ {table, viewer} \cap Http # {}
    BY <2>1, <2>2, <2>6 DEF Http
  <2>9. /\ table \in Http => row = "text" \/ content = "connect"
        /\ table \in Http \/ viewer \in Http \/ row = "text" => Labels!Replayed(p)
    BY <2>1, <2>2, <2>3, <2>4, <2>5 DEF Http
  <2> QED BY <1>1, <1>2, <1>3, <1>4, <1>5, <1>6, <1>8, <1>9, <1>11, <2>3, <2>7, <2>8, <2>9
          DEF LabelledAlike
<1> QED BY <1>10, <1>11

LEMMA PicturesTheSame ==
  ASSUME TypeOK, NoSynWithRst, packets # <<>>, NEW p \in Pictured
  PROVE  LabelledAlike(p)
<1>1. Len(packets) \in DOMAIN packets
  BY DEF TypeOK
<1>2. PICK flags : flags = packets[Len(packets)].flags /\ ~({"SYN", "RST"} \subseteq flags)
  BY <1>1 DEF NoSynWithRst
<1>3. \/ p \in [proto : {"TCP"}, flags : {flags}, payload : Labels!Payloads, dns : {FALSE}]
      \/ p \in [proto : {"UDP"}, flags : {{}}, payload : Labels!Payloads, dns : BOOLEAN]
      \/ p \in [proto : {"ICMP"}, flags : {{"8/0"}}, payload : Labels!Payloads, dns : {FALSE}]
  BY <1>2 DEF Pictured
<1>4. /\ p.proto \in {"TCP", "UDP", "ICMP"} /\ p.payload \in Labels!Payloads
      /\ p.proto # "TCP" => p.flags \in {{}, {"8/0"}}
      /\ p.flags \in {flags, {}, {"8/0"}}
  BY <1>3
<1> QED BY <1>2, <1>4, LabelledTheSame

(* The server's diagnosis and the browser's, whatever the packets and      *)
(* however many (network_health.py, FlowViewer.tsx), agree on what both    *)
(* say; their circles are never green and red, although they round and     *)
(* weigh differently, whichever way each rounds a tie; every list gives a  *)
(* verdict one colour, the counts are those of the rows below, a packet    *)
(* has one colour, and names that differ only by line ends and tabs.       *)
THEOREM BothDiagnoseAlike == Spec => []DiagnosesAgree
<1>1. ASSUME TypeOK PROVE DiagnosesAgree
  <2>1. ASSUME packets # <<>>, NoSynWithRst
        PROVE  VerdictsAgree /\ \A p \in Pictured : LabelledAlike(p)
    BY <1>1, <2>1, VerdictsOnTheSame, PicturesTheSame
  <2>2. ASSUME NEW session \in Diagnosed, NEW h, h = Server!Analyze(session, packets)
        PROVE  /\ packets # <<>> /\ NoSynWithRst => ColoursAgree(h)
               /\ OneColour(h) /\ OneColour(Server!WithIcmp(h))
               /\ CountsMatchRows(<<h, Server!WithIcmp(h), h>>)
    <3>1. packets # <<>> /\ NoSynWithRst => ColoursAgree(h)
      BY <1>1, <2>2, ColoursOfTheSame
    <3>2. Coherent(h) /\ Coherent(Server!WithIcmp(h))
      BY <2>2, VerdictsAreCoherent
    <3>3. OneColour(h) /\ OneColour(Server!WithIcmp(h))
      BY <3>2, CoherentColours
    <3>4. PICK list : list = <<h, Server!WithIcmp(h), h>>
      OBVIOUS
    <3>5. DOMAIN list = 1 .. 3 /\ \A i \in DOMAIN list : Coherent(list[i])
      BY <3>2, <3>4
    <3>6. CountsMatchRows(list)
      <4>1. 1 \in Int /\ 3 \in Int
        OBVIOUS
      <4>2. IsFiniteSet(1 .. 3)
        BY <4>1, FS_Interval
      <4> QED BY <3>5, <4>2, CoherentCounts
    <3> QED BY <3>1, <3>3, <3>4, <3>6
  <2> QED BY <2>1, <2>2 DEF DiagnosesAgree
<1> QED BY <1>1, Typing, PTL

-----------------------------------------------------------------------------
(* Sums over a part of a list. *)
LEMMA SumsOfLists ==
  /\ \A v : Drill!SumFunction(v) = N!Sum(v, DOMAIN v)
  /\ \A v : Lists!SumFunction(v) = N!Sum(v, DOMAIN v)
BY DEF Drill!SumFunction, Drill!SumFunctionOnSet, Drill!FoldFunctionOnSet, Drill!MapThenFoldSet,
       Lists!SumFunction, Lists!SumFunctionOnSet, Lists!FoldFunctionOnSet, Lists!MapThenFoldSet,
       N!Sum, N!IsSum, N!Term, N!AnyOf

(* What is counted twice may be counted apart. *)
LEMMA SumOfBoth ==
  ASSUME NEW S, IsFiniteSet(S), NEW u, NEW v, NEW w,
         \A x \in S : v[x] \in Nat /\ w[x] \in Nat /\ u[x] = v[x] + w[x]
  PROVE  N!Sum(u, S) = N!Sum(v, S) + N!Sum(w, S)
<1> DEFINE F == {s \in SUBSET S : N!Sum(u, s) = N!Sum(v, s) + N!Sum(w, s)}
<1>1. {} \in F
  <2>1. N!Sum(u, {}) = 0 /\ N!Sum(v, {}) = 0 /\ N!Sum(w, {}) = 0
    BY NormalizerApplies, N!SumOfNone
  <2> QED BY <2>1
<1>2. ASSUME NEW s \in SUBSET S, s \in F, NEW x \in S \ s
      PROVE  s \cup {x} \in F
  <2>1. IsFiniteSet(s) /\ x \notin s
    BY FS_Subset
  <2>2. \A y \in s \cup {x} : u[y] \in Nat /\ v[y] \in Nat /\ w[y] \in Nat
    OBVIOUS
  <2>3. N!Sum(u, s) \in Nat /\ N!Sum(u, s \cup {x}) = N!Sum(u, s) + u[x]
    BY <2>1, <2>2, NormalizerApplies, SameSets, N!SumAdds
  <2>4. N!Sum(v, s) \in Nat /\ N!Sum(v, s \cup {x}) = N!Sum(v, s) + v[x]
    BY <2>1, <2>2, NormalizerApplies, SameSets, N!SumAdds
  <2>5. N!Sum(w, s) \in Nat /\ N!Sum(w, s \cup {x}) = N!Sum(w, s) + w[x]
    BY <2>1, <2>2, NormalizerApplies, SameSets, N!SumAdds
  <2>6. N!Sum(u, s) = N!Sum(v, s) + N!Sum(w, s)
    BY <1>2
  <2>7. u[x] = v[x] + w[x] /\ v[x] \in Nat /\ w[x] \in Nat
    OBVIOUS
  <2>8. N!Sum(u, s \cup {x}) = N!Sum(v, s \cup {x}) + N!Sum(w, s \cup {x})
    BY <2>3, <2>4, <2>5, <2>6, <2>7
  <2> QED BY <2>8
<1>3. \A s \in SUBSET S : s \in F
  <2> HIDE DEF F
  <2> QED BY <1>1, <1>2, NormalizerApplies, SameSets, N!EverySubset
<1> QED BY <1>3

LEMMA SumOfZeros ==
  ASSUME NEW S, IsFiniteSet(S), NEW v, \A x \in S : v[x] = 0
  PROVE  N!Sum(v, S) = 0
<1> DEFINE F == {s \in SUBSET S : N!Sum(v, s) = 0}
<1>1. {} \in F
  BY NormalizerApplies, N!SumOfNone
<1>2. ASSUME NEW s \in SUBSET S, s \in F, NEW x \in S \ s
      PROVE  s \cup {x} \in F
  <2>1. IsFiniteSet(s) /\ x \notin s /\ \A y \in s \cup {x} : v[y] \in Nat
    BY FS_Subset
  <2>2. N!Sum(v, s \cup {x}) = N!Sum(v, s) + v[x]
    BY <2>1, NormalizerApplies, SameSets, N!SumAdds
  <2> QED BY <1>2, <2>2
<1>3. \A s \in SUBSET S : s \in F
  <2> HIDE DEF F
  <2> QED BY <1>1, <1>2, NormalizerApplies, SameSets, N!EverySubset
<1> QED BY <1>3

LEMMA SumOfOnes ==
  ASSUME NEW S, IsFiniteSet(S), NEW v, \A x \in S : v[x] = 1
  PROVE  N!Sum(v, S) = Cardinality(S)
<1> DEFINE F == {s \in SUBSET S : N!Sum(v, s) = Cardinality(s)}
<1>1. {} \in F
  BY NormalizerApplies, N!SumOfNone, FS_EmptySet
<1>2. ASSUME NEW s \in SUBSET S, s \in F, NEW x \in S \ s
      PROVE  s \cup {x} \in F
  <2>1. IsFiniteSet(s) /\ x \notin s /\ \A y \in s \cup {x} : v[y] \in Nat
    BY FS_Subset
  <2>2. N!Sum(v, s \cup {x}) = N!Sum(v, s) + v[x]
    BY <2>1, NormalizerApplies, SameSets, N!SumAdds
  <2>3. Cardinality(s \cup {x}) = Cardinality(s) + 1
    BY <2>1, FS_AddElement
  <2> QED BY <1>2, <2>2, <2>3
<1>3. \A s \in SUBSET S : s \in F
  <2> HIDE DEF F
  <2> QED BY <1>1, <1>2, NormalizerApplies, SameSets, N!EverySubset
<1> QED BY <1>3

(* Where there is nothing to count, nothing is missed. *)
LEMMA SumWhere ==
  ASSUME NEW S, IsFiniteSet(S), NEW T \in SUBSET S, NEW v, NEW w,
         \A x \in T : v[x] \in Nat /\ w[x] = v[x], \A x \in S \ T : v[x] = 0
  PROVE  N!Sum(v, S) = N!Sum(w, T)
<1>1. PICK R : R = S \ T
  OBVIOUS
<1>2. IsFiniteSet(T) /\ IsFiniteSet(R) /\ T \cap R = {} /\ S = T \cup R
  BY <1>1, FS_Subset
<1>3. \A x \in T \cup R : v[x] \in Nat
  BY <1>1
<1>4. N!Sum(v, T \cup R) = N!Sum(v, T) + N!Sum(v, R)
  BY <1>2, <1>3, NormalizerApplies, SameSets, N!SumOfTwo
<1>5. N!Sum(v, R) = 0
  BY <1>1, <1>2, SumOfZeros
<1>6. N!Sum(v, T) \in Nat
  BY <1>2, <1>3, NormalizerApplies, SameSets, N!SumIsNumber
<1>7. N!Sum(v, T) = N!Sum(w, T)
  BY <1>2, NormalizerApplies, SameSets, N!SumSame
<1> QED BY <1>2, <1>4, <1>5, <1>6, <1>7

(* The sizes of parts that do not overlap add up. *)
LEMMA CountsOfParts ==
  ASSUME NEW T, IsFiniteSet(T), NEW part, DOMAIN part = T, NEW w,
         NEW all, IsFiniteSet(all), \A x : x \in all <=> \E t \in T : x \in part[t],
         \A t \in T : w[t] = Cardinality(part[t]),
         \A t, u \in T : t # u => part[t] \cap part[u] = {}
  PROVE  N!Sum(w, T) = Cardinality(all)
<1>1. PICK v : v = [x \in all |-> 1]
  OBVIOUS
<1>2. \A t \in T : IsFiniteSet(part[t]) /\ part[t] \subseteq all
  <2> TAKE t \in T
  <2>1. part[t] \in SUBSET all
    OBVIOUS
  <2> QED BY <2>1, FS_Subset
<1>3. \A t \in T : w[t] = N!Sum(v, part[t])
  <2> TAKE t \in T
  <2>1. \A x \in part[t] : v[x] = 1
    BY <1>1, <1>2
  <2> QED BY <1>2, <2>1, SumOfOnes
<1>4. \A t \in T : \A x \in part[t] : v[x] \in Nat
  BY <1>1, <1>2
<1>5. N!Sum(w, T) = N!Sum(v, all)
  BY <1>2, <1>3, <1>4, NormalizerApplies, SameSets, N!SumOfParts
<1>6. N!Sum(v, all) = Cardinality(all)
  BY <1>1, SumOfOnes
<1> QED BY <1>5, <1>6

-----------------------------------------------------------------------------
(* A sorted list that is cut. *)
Ahead(S, size, place, x) ==
  {y \in S : size[y] > size[x] \/ (size[y] = size[x] /\ place[y] < place[x])}

LEMMA LargestAreFew ==
  \A S, size, place, n :
    Drill!Largest(S, size, place, n) = {x \in S : Cardinality(Ahead(S, size, place, x)) < n}
BY DEF Drill!Largest, Drill!Cardinality, Cardinality, Ahead

LEMMA AheadIsTotal ==
  ASSUME NEW S, IsFiniteSet(S), NEW size, NEW place,
         \A x \in S : size[x] \in Int /\ place[x] \in Int,
         \A x, y \in S : place[x] = place[y] => x = y
  PROVE  /\ \A x \in S : /\ IsFiniteSet(Ahead(S, size, place, x))
                         /\ Cardinality(Ahead(S, size, place, x)) \in Nat
         /\ \A x \in S : \A y \in Ahead(S, size, place, x) :
              /\ Ahead(S, size, place, y) \cup {y} \subseteq Ahead(S, size, place, x)
              /\ Cardinality(Ahead(S, size, place, y)) < Cardinality(Ahead(S, size, place, x))
         /\ \A x, y \in S : \/ x = y
                            \/ x \in Ahead(S, size, place, y) \/ y \in Ahead(S, size, place, x)
<1>1. \A x \in S : Ahead(S, size, place, x) \in SUBSET S
  BY DEF Ahead
<1>2. \A x \in S : IsFiniteSet(Ahead(S, size, place, x))
                   /\ Cardinality(Ahead(S, size, place, x)) \in Nat
  <2> TAKE x \in S
  <2>1. IsFiniteSet(Ahead(S, size, place, x))
    BY <1>1, FS_Subset
  <2> QED BY <2>1, FS_CardinalityType
<1>3. ASSUME NEW x \in S, NEW y \in Ahead(S, size, place, x)
      PROVE  /\ Ahead(S, size, place, y) \cup {y} \subseteq Ahead(S, size, place, x)
             /\ Cardinality(Ahead(S, size, place, y)) < Cardinality(Ahead(S, size, place, x))
  <2>1. y \in S /\ y \notin Ahead(S, size, place, y)
    BY DEF Ahead
  <2>2. ASSUME NEW z \in Ahead(S, size, place, y) PROVE z \in Ahead(S, size, place, x)
    <3>1. z \in S
      BY DEF Ahead
    <3>2. PICK a, b, c, d, e, f : /\ a = size[x] /\ b = size[y] /\ c = size[z]
                                  /\ d = place[x] /\ e = place[y] /\ f = place[z]
      OBVIOUS
    <3>3. {a, b, c, d, e, f} \subseteq Int
      BY <2>1, <3>1, <3>2
    <3>4. b > a \/ (b = a /\ e < d)
      BY <3>2 DEF Ahead
    <3>5. c > b \/ (c = b /\ f < e)
      BY <3>2 DEF Ahead
    <3>6. c > a \/ (c = a /\ f < d)
      BY <3>3, <3>4, <3>5
    <3> QED BY <3>1, <3>2, <3>6 DEF Ahead
  <2>3. PICK A : A = Ahead(S, size, place, y) /\ IsFiniteSet(A) /\ Cardinality(A) \in Nat
    BY <1>2, <2>1
  <2>4. PICK B : B = Ahead(S, size, place, x) /\ IsFiniteSet(B) /\ Cardinality(B) \in Nat
    BY <1>2
  <2>5. A \cup {y} \in SUBSET B
    BY <2>2, <2>3, <2>4
  <2>6. Cardinality(A \cup {y}) = Cardinality(A) + 1
    BY <2>1, <2>3, FS_AddElement
  <2>7. Cardinality(A \cup {y}) <= Cardinality(B)
    BY <2>4, <2>5, FS_Subset
  <2>8. Cardinality(A) < Cardinality(B)
    BY <2>3, <2>4, <2>6, <2>7
  <2> QED BY <2>3, <2>4, <2>5, <2>8
<1>4. ASSUME NEW x \in S, NEW y \in S, x # y
      PROVE  x \in Ahead(S, size, place, y) \/ y \in Ahead(S, size, place, x)
  <2>1. PICK a, b \in Int : a = size[x] /\ b = size[y]
    OBVIOUS
  <2>2. PICK c, d \in Int : c = place[x] /\ d = place[y] /\ c # d
    BY <1>4
  <2>3. a > b \/ b > a \/ (a = b /\ (c < d \/ d < c))
    BY <2>2
  <2> QED BY <2>1, <2>2, <2>3 DEF Ahead
<1> QED BY <1>2, <1>3, <1>4

LEMMA LeastOfTwo ==
  ASSUME NEW m \in Nat, NEW n \in Nat
  PROVE  Min({m, n}) = IF m < n THEN m ELSE n
<1>1. {m, n} \in SUBSET Nat /\ {m, n} # {}
  OBVIOUS
<1>2. Min({m, n}) \in {m, n} /\ \A k \in {m, n} : Min({m, n}) <= k
  BY <1>1, FirstPlaceOf
<1> QED BY <1>2

(* The largest are as many as there is room for, and no larger one is left *)
(* out.                                                                    *)
FirstOnes(L, S, size, n) ==
  /\ L \in SUBSET S /\ IsFiniteSet(L)
  /\ Cardinality(L) = Min({n, Cardinality(S)})
  /\ Cardinality(L) < n => L = S
  /\ \A x \in L : Cardinality({y \in S : size[y] > size[x]}) < n
  /\ \A x \in S : (\E y \in L : size[y] < size[x]) => x \in L

LEMMA LargestAreFirst ==
  ASSUME NEW S, IsFiniteSet(S), NEW size, NEW place, NEW n \in Nat,
         \A x \in S : size[x] \in Int /\ place[x] \in Int,
         \A x, y \in S : place[x] = place[y] => x = y
  PROVE  FirstOnes(Drill!Largest(S, size, place, n), S, size, n)
<1>0. PICK L : L = Drill!Largest(S, size, place, n)
  OBVIOUS
<1>1. PICK c \in Nat : c = Cardinality(S)
  BY FS_CardinalityType
<1>2. PICK rank : rank = [x \in S |-> Cardinality(Ahead(S, size, place, x))]
  OBVIOUS
<1>3. \A x \in S : rank[x] \in Nat
  BY <1>2, AheadIsTotal
<1>4. L = {x \in S : rank[x] < n}
  BY <1>0, <1>2, LargestAreFew
<1>5. L \in SUBSET S /\ IsFiniteSet(L) /\ Cardinality(L) \in Nat /\ Cardinality(L) <= c
  <2>1. L \in SUBSET S
    BY <1>4
  <2>2. IsFiniteSet(L) /\ Cardinality(L) <= c
    BY <1>1, <2>1, FS_Subset
  <2> QED BY <2>1, <2>2, FS_CardinalityType
<1>6. ASSUME NEW T \in SUBSET S, T # {}, \A x \in T : rank[x] < n
      PROVE  Cardinality(T) \in Nat /\ Cardinality(T) <= n
  <2>1. PICK R : R = {rank[x] : x \in T}
    OBVIOUS
  <2>2. R \in SUBSET Nat /\ R # {}
    BY <1>3, <1>6, <2>1
  <2>3. IsFiniteSet(R)
    <3>1. \A k \in R : k \in 0 .. n
      BY <1>3, <1>6, <2>1
    <3>2. IsFiniteSet(0 .. n)
      BY FS_Interval
    <3>3. R \in SUBSET (0 .. n)
      BY <3>1
    <3> QED BY <3>2, <3>3, FS_Subset
  <2>4. PICK m \in R : \A k \in R : k <= m
    BY <2>2, <2>3, NormalizerApplies, SameSets, N!GreatestNumber
  <2>5. PICK z \in T : rank[z] = m
    BY <2>1
  <2>6. T \ {z} \in SUBSET Ahead(S, size, place, z)
    <3>1. ASSUME NEW x \in T \ {z} PROVE x \in Ahead(S, size, place, z)
      <4>1. CASE z \in Ahead(S, size, place, x)
        <5>1. rank[z] < rank[x] /\ rank[x] <= rank[z]
          BY <1>2, <2>1, <2>4, <2>5, <4>1, AheadIsTotal
        <5>2. rank[z] \in Nat /\ rank[x] \in Nat
          BY <1>3
        <5> QED BY <5>1, <5>2
      <4> QED BY <4>1, AheadIsTotal
    <3> QED BY <3>1
  <2>7. IsFiniteSet(Ahead(S, size, place, z)) /\ rank[z] = Cardinality(Ahead(S, size, place, z))
    BY <1>2, AheadIsTotal
  <2>8. Cardinality(T \ {z}) <= rank[z]
    BY <2>6, <2>7, FS_Subset
  <2>9. IsFiniteSet(T)
    BY FS_Subset
  <2>10. Cardinality(T) \in Nat /\ Cardinality(T \ {z}) = Cardinality(T) - 1
    BY <2>9, FS_RemoveElement, FS_CardinalityType
  <2>11. rank[z] \in Nat /\ rank[z] < n
    BY <1>3, <1>6
  <2> QED BY <2>8, <2>10, <2>11
<1>7. Cardinality(L) <= n
  <2>1. CASE L = {}
    BY <2>1, FS_EmptySet
  <2>2. CASE L # {}
    BY <1>4, <1>6, <2>2
  <2> QED BY <2>1, <2>2
<1>8. L # S => n <= Cardinality(L)
  <2> SUFFICES ASSUME L # S PROVE n <= Cardinality(L)
    OBVIOUS
  <2>1. PICK R : R = {rank[x] : x \in S \ L}
    OBVIOUS
  <2>2. R \in SUBSET Nat /\ R # {}
    BY <1>3, <1>5, <2>1
  <2>3. PICK m \in R : \A k \in R : m <= k
    BY <2>2, NormalizerApplies, N!LeastNumber
  <2>4. PICK z \in S \ L : rank[z] = m
    BY <2>1
  <2>5. Ahead(S, size, place, z) \in SUBSET L
    <3>1. ASSUME NEW x \in Ahead(S, size, place, z) PROVE x \in L
      <4>1. x \in S /\ rank[x] < rank[z]
        BY <1>2, AheadIsTotal DEF Ahead
      <4>2. x \notin L => rank[z] <= rank[x]
        BY <2>1, <2>3, <2>4, <4>1
      <4> QED BY <1>3, <4>1, <4>2
    <3> QED BY <3>1
  <2>6. rank[z] <= Cardinality(L)
    BY <1>2, <1>5, <2>5, FS_Subset
  <2>7. rank[z] \in Nat /\ ~(rank[z] < n)
    BY <1>3, <1>4
  <2> QED BY <1>5, <2>6, <2>7
<1>9. Cardinality(L) = Min({n, c}) /\ (Cardinality(L) < n => L = S)
  <2>1. CASE L = S
    BY <1>1, <1>7, <2>1, LeastOfTwo
  <2>2. CASE L # S
    <3>1. Cardinality(L) = n
      BY <1>5, <1>7, <1>8, <2>2
    <3> QED BY <1>5, <3>1, LeastOfTwo
  <2> QED BY <2>1, <2>2
<1>10. ASSUME NEW x \in L PROVE Cardinality({y \in S : size[y] > size[x]}) < n
  <2>1. PICK T : T = {y \in S : size[y] > size[x]}
    OBVIOUS
  <2>2. T \in SUBSET Ahead(S, size, place, x)
    BY <2>1 DEF Ahead
  <2>3. x \in S /\ IsFiniteSet(Ahead(S, size, place, x))
    BY <1>5, AheadIsTotal
  <2>4. IsFiniteSet(T) /\ Cardinality(T) <= rank[x]
    BY <1>2, <2>2, <2>3, FS_Subset
  <2>5. Cardinality(T) \in Nat /\ rank[x] \in Nat /\ rank[x] < n
    BY <1>3, <1>4, <2>3, <2>4, FS_CardinalityType
  <2>6. Cardinality(T) < n
    BY <2>4, <2>5
  <2> QED BY <2>1, <2>6
<1>11. ASSUME NEW x \in S, NEW y \in L, size[y] < size[x] PROVE x \in L
  <2>1. PICK a, b \in Int : a = size[x] /\ b = size[y]
    BY <1>5
  <2>2. x \in Ahead(S, size, place, y)
    BY <1>11, <2>1 DEF Ahead
  <2>3. y \in S /\ rank[x] < rank[y]
    BY <1>2, <1>5, <2>2, AheadIsTotal
  <2>4. rank[y] < n /\ rank[x] \in Nat /\ rank[y] \in Nat
    BY <1>3, <1>4, <2>3
  <2>5. rank[x] < n
    BY <2>3, <2>4
  <2> QED BY <1>4, <2>5
<1> QED BY <1>0, <1>1, <1>5, <1>9, <1>10, <1>11 DEF FirstOnes

-----------------------------------------------------------------------------
(* The two lists of a comparison. *)
LEMMA FieldsOf ==
  ASSUME NEW s \in Sessions
  PROVE  /\ s \in SessionFields
         /\ s.src_ip \in Addresses /\ s.dst_ip \in Addresses
         /\ s.src_ip \in Nat /\ s.dst_ip \in Nat
         /\ s.bytes_sent \in Nat /\ s.bytes_recv \in Nat /\ s.packet_count \in Nat
<1>1. s \in SessionFields
  BY PanelContentsAssumption
<1>2. s.src_ip \in Addresses /\ s.dst_ip \in Addresses
  BY <1>1 DEF SessionFields
<1>3. s.src_ip \in Nat /\ s.dst_ip \in Nat
  BY <1>2, PanelContentsAssumption
<1> QED BY <1>1, <1>2, <1>3 DEF SessionFields

LEMMA PlacesOf ==
  ASSUME NEW list \in Seq(Sessions)
  PROVE  /\ Len(list) \in Nat /\ DOMAIN list = 1 .. Len(list)
         /\ DOMAIN list \in SUBSET Nat
         /\ IsFiniteSet(DOMAIN list) /\ Cardinality(DOMAIN list) = Len(list)
         /\ \A i \in DOMAIN list : list[i] \in Sessions
<1>1. Len(list) \in Nat /\ DOMAIN list = 1 .. Len(list)
  OBVIOUS
<1>2. PICK n \in Nat : n = Len(list)
  BY <1>1
<1>3. IsFiniteSet(1 .. n) /\ Cardinality(1 .. n) = n
  <2>1. 1 \in Int /\ n \in Int /\ (IF 1 > n THEN 0 ELSE n - 1 + 1) = n
    OBVIOUS
  <2> QED BY <2>1, FS_Interval
<1> QED BY <1>1, <1>2, <1>3

(* What the server sends is the beginning of the list, or all of it. *)
LEMMA ServedAre ==
  ASSUME NEW list \in Seq(Sessions)
  PROVE  /\ Lists!Serve(list) \in Seq(Sessions)
         /\ \A i \in DOMAIN Lists!Serve(list) : i \in DOMAIN list /\ Lists!Serve(list)[i] = list[i]
         /\ ~(Len(list) > MaxSessions) => Lists!Serve(list) = list
<1>1. PICK n \in Nat : n = Len(list)
  OBVIOUS
<1>2. MaxSessions \in Nat
  BY PanelContentsAssumption
<1>3. PICK m \in Nat : m = (IF n < MaxSessions THEN n ELSE MaxSessions) /\ m <= n
  BY <1>2
<1>4. Lists!Serve(list) = SubSeq(list, 1, m)
  BY <1>1, <1>3 DEF Lists!Serve
<1>5. SubSeq(list, 1, m) \in Seq(Sessions) /\ Len(SubSeq(list, 1, m)) = m
  BY <1>1, <1>3
<1>6. \A i \in 1 .. m : i \in DOMAIN list /\ SubSeq(list, 1, m)[i] = list[i]
  BY <1>1, <1>3
<1>7. ~(Len(list) > MaxSessions) => m = n
  BY <1>1, <1>2, <1>3
<1>8. m = n => SubSeq(list, 1, m) = list
  BY <1>1, <1>5, <1>6
<1> QED BY <1>4, <1>5, <1>6, <1>7, <1>8

(* The key tells two sessions apart by their addresses, port and protocol. *)
LEMMA KeysTellApart ==
  ASSUME NEW s \in Sessions, NEW t \in Sessions
  PROVE  (Lists!sessionKey(s) = Lists!sessionKey(t)) <=> Same(s, t)
<1>1. PICK a, b \in Nat : a = s.src_ip /\ b = s.dst_ip
  BY FieldsOf
<1>2. PICK c, d \in Nat : c = t.src_ip /\ d = t.dst_ip
  BY FieldsOf
<1>3. PICK u, v, w, z : u = s.dst_port /\ v = t.dst_port /\ w = s.protocol /\ z = t.protocol
  OBVIOUS
<1>4. PICK x, y : /\ x = (IF a < b THEN <<a, b>> ELSE <<b, a>>)
                  /\ y = (IF c < d THEN <<c, d>> ELSE <<d, c>>)
  OBVIOUS
<1>5. Lists!sessionKey(s) = <<x, u, w>> /\ Lists!sessionKey(t) = <<y, v, z>>
  BY <1>1, <1>2, <1>3, <1>4 DEF Lists!sessionKey
<1>6. (x = y) <=> ({a, b} = {c, d})
  BY <1>4
<1>7. (<<x, u, w>> = <<y, v, z>>) <=> (x = y /\ u = v /\ w = z)
  OBVIOUS
<1> QED BY <1>1, <1>2, <1>3, <1>5, <1>6, <1>7 DEF Same

LEMMA KeysAre ==
  ASSUME NEW list \in Seq(Sessions), NEW s \in Sessions
  PROVE  (Lists!sessionKey(s) \in Lists!Keys(list)) <=> \E i \in DOMAIN list : Same(s, list[i])
<1>1. Lists!Keys(list) = {Lists!sessionKey(list[i]) : i \in DOMAIN list}
  BY DEF Lists!Keys, Lists!ToSet
<1>2. \A i \in DOMAIN list :
        (Lists!sessionKey(s) = Lists!sessionKey(list[i])) <=> Same(s, list[i])
  BY PlacesOf, KeysTellApart
<1> QED BY <1>1, <1>2

LEMMA IpsAre ==
  ASSUME NEW list
  PROVE  \A ip : ip \in Lists!Ips(list) <=>
                   \E i \in DOMAIN list : ip \in {list[i].src_ip, list[i].dst_ip}
BY DEF Lists!Ips, Lists!ToSet

Seen(result) == result = Lists!Compared(base, current)

LEMMA SeenIs ==
  ASSUME NEW result, Seen(result)
  PROVE  /\ result.new_ips = Lists!Ips(current) \ Lists!Ips(base)
         /\ result.removed_ips = Lists!Ips(base) \ Lists!Ips(current)
         /\ result.common_ips = Lists!Ips(base) \cap Lists!Ips(current)
         /\ result.new_ports = Lists!Ports(current) \ Lists!Ports(base)
         /\ result.protocol_diff = Lists!ProtocolDiff(base, current)
         /\ result.byte_ratio.a_total = Lists!Traffic(base)
         /\ result.byte_ratio.b_total = Lists!Traffic(current)
         /\ result.base_sessions = Lists!Serve(base)
         /\ result.compare_sessions = Lists!Serve(current)
         /\ result.base_session_total = Len(base)
         /\ result.compare_session_total = Len(current)
BY DEF Seen, Lists!Compared

LEMMA BoxesOfBadges ==
  ASSUME TypeOK, NEW result, Seen(result)
  PROVE  BoxesMatchBadges(result)
<1>1. PICK old, now : old = result.base_sessions /\ now = result.compare_sessions
  OBVIOUS
<1>2. old \in Seq(Sessions) /\ now \in Seq(Sessions)
      /\ (\A i \in DOMAIN old : i \in DOMAIN base /\ old[i] = base[i])
      /\ (\A i \in DOMAIN now : i \in DOMAIN current /\ now[i] = current[i])
  BY <1>1, SeenIs, ServedAre DEF TypeOK
<1>3. ASSUME NEW s \in Sessions,
             \/ {s.src_ip, s.dst_ip} \cap result.new_ips # {} \/ s.dst_port \in result.new_ports
      PROVE  Lists!CompareStatus(result, s) = "new"
  <2>1. ASSUME NEW i \in DOMAIN old, Same(s, old[i]) PROVE FALSE
    <3>1. i \in DOMAIN base /\ Same(s, base[i])
      BY <1>2, <2>1
    <3>2. {s.src_ip, s.dst_ip} \subseteq Lists!Ips(base) /\ s.dst_port \in Lists!Ports(base)
      BY <3>1, IpsAre DEF Same, Lists!Ports, Lists!ToSet
    <3> QED BY <1>3, <3>2, SeenIs
  <2>2. Lists!sessionKey(s) \notin Lists!Keys(old)
    BY <1>2, <2>1, KeysAre
  <2> QED BY <1>1, <2>2 DEF Lists!CompareStatus
<1>4. ASSUME NEW s \in Sessions, {s.src_ip, s.dst_ip} \cap result.removed_ips # {}
      PROVE  Lists!BaseStatus(result, s) = "removed"
  <2>1. ASSUME NEW i \in DOMAIN now, Same(s, now[i]) PROVE FALSE
    <3>1. i \in DOMAIN current /\ Same(s, current[i])
      BY <1>2, <2>1
    <3>2. {s.src_ip, s.dst_ip} \subseteq Lists!Ips(current)
      BY <3>1, IpsAre DEF Same
    <3> QED BY <1>4, <3>2, SeenIs
  <2>2. Lists!sessionKey(s) \notin Lists!Keys(now)
    BY <1>2, <2>1, KeysAre
  <2> QED BY <1>1, <2>2 DEF Lists!BaseStatus
<1>5. \A i \in DOMAIN now : now[i] \in Sessions
  BY <1>2, PlacesOf
<1>6. \A i \in DOMAIN old : old[i] \in Sessions
  BY <1>2, PlacesOf
<1>7. Every(Lists!NewIpSessions(result), LAMBDA s : Lists!CompareStatus(result, s) = "new")
  BY <1>1, <1>3, <1>5 DEF Every, Lists!NewIpSessions, Lists!RestrictValues, Lists!Restrict
<1>8. Every(Lists!NewPortSessions(result), LAMBDA s : Lists!CompareStatus(result, s) = "new")
  BY <1>1, <1>3, <1>5 DEF Every, Lists!NewPortSessions, Lists!RestrictValues, Lists!Restrict
<1>9. Every(Lists!RemovedIpSessions(result), LAMBDA s : Lists!BaseStatus(result, s) = "removed")
  BY <1>1, <1>4, <1>6 DEF Every, Lists!RemovedIpSessions, Lists!RestrictValues, Lists!Restrict
<1> QED BY <1>7, <1>8, <1>9 DEF BoxesMatchBadges

(* A list falls into two parts. *)
LEMMA TwoParts ==
  ASSUME NEW S, IsFiniteSet(S), NEW A, NEW B, A \cup B = S, A \cap B = {}
  PROVE  Cardinality(S) = Cardinality(A) + Cardinality(B)
<1>1. A \in SUBSET S /\ B \in SUBSET S
  OBVIOUS
<1>2. IsFiniteSet(A) /\ IsFiniteSet(B)
  BY <1>1, FS_Subset
<1>3. Cardinality(A) \in Nat /\ Cardinality(B) \in Nat /\ Cardinality(A \cap B) = 0
  BY <1>2, FS_CardinalityType, FS_EmptySet
<1>4. Cardinality(A \cup B) = Cardinality(A) + Cardinality(B) - Cardinality(A \cap B)
  BY <1>2, FS_Union
<1>5. PICK a, b \in Nat : a = Cardinality(A) /\ b = Cardinality(B)
  BY <1>3
<1>6. Cardinality(A \cup B) = a + b
  BY <1>3, <1>4, <1>5
<1> QED BY <1>5, <1>6

LEMMA FiltersOfBadges ==
  ASSUME TypeOK, NEW result, Seen(result)
  PROVE  FiltersPartition(result)
<1>1. PICK old, now : old = result.base_sessions /\ now = result.compare_sessions
  OBVIOUS
<1>2. IsFiniteSet(DOMAIN old) /\ IsFiniteSet(DOMAIN now)
  <2>1. old \in Seq(Sessions) /\ now \in Seq(Sessions)
    BY <1>1, SeenIs, ServedAre DEF TypeOK
  <2> QED BY <2>1, PlacesOf
<1>3. PICK kept : kept = {i \in DOMAIN old : Lists!BaseStatus(result, old[i]) = "common"}
  OBVIOUS
<1>4. PICK gone : gone = {i \in DOMAIN old : Lists!BaseStatus(result, old[i]) = "removed"}
  OBVIOUS
<1>5. PICK shared : shared = {i \in DOMAIN now : Lists!CompareStatus(result, now[i]) = "common"}
  OBVIOUS
<1>6. PICK fresh : fresh = {i \in DOMAIN now : Lists!CompareStatus(result, now[i]) = "new"}
  OBVIOUS
<1>7. /\ \A s : Lists!BaseStatus(result, s) \in {"common", "removed"}
      /\ \A s : Lists!CompareStatus(result, s) \in {"common", "new"}
  BY DEF Lists!BaseStatus, Lists!CompareStatus
<1>8. ASSUME NEW f \in {"all", "new", "removed", "common"}
      PROVE  /\ DOMAIN Lists!FilteredBase(result, f)
                  = {i \in DOMAIN old : f \in {"all", Lists!BaseStatus(result, old[i])}}
             /\ DOMAIN Lists!FilteredCompare(result, f)
                  = {i \in DOMAIN now : f \in {"all", Lists!CompareStatus(result, now[i])}}
  BY <1>1 DEF Lists!FilteredBase, Lists!FilteredCompare, Lists!RestrictValues, Lists!Restrict
<1>9. /\ DOMAIN Lists!FilteredBase(result, "all") = DOMAIN old
      /\ DOMAIN Lists!FilteredBase(result, "removed") = gone
      /\ DOMAIN Lists!FilteredBase(result, "common") = kept
      /\ DOMAIN Lists!FilteredBase(result, "new") = {}
  BY <1>3, <1>4, <1>7, <1>8
<1>10. /\ DOMAIN Lists!FilteredCompare(result, "all") = DOMAIN now
       /\ DOMAIN Lists!FilteredCompare(result, "new") = fresh
       /\ DOMAIN Lists!FilteredCompare(result, "common") = shared
       /\ DOMAIN Lists!FilteredCompare(result, "removed") = {}
  BY <1>5, <1>6, <1>7, <1>8
<1>11. Cardinality(DOMAIN old) = Cardinality(gone) + Cardinality(kept)
  <2>1. gone \cup kept = DOMAIN old /\ gone \cap kept = {}
    BY <1>3, <1>4, <1>7
  <2> QED BY <1>2, <2>1, TwoParts
<1>12. Cardinality(DOMAIN now) = Cardinality(fresh) + Cardinality(shared)
  <2>1. fresh \cup shared = DOMAIN now /\ fresh \cap shared = {}
    BY <1>5, <1>6, <1>7
  <2> QED BY <1>2, <2>1, TwoParts
<1>13. \A f : /\ Lists!Columns(result, f).baseCount
                   = Cardinality(DOMAIN Lists!FilteredBase(result, f))
              /\ Lists!Columns(result, f).compareCount
                   = Cardinality(DOMAIN Lists!FilteredCompare(result, f))
  BY DEF Lists!Columns, Lists!Cardinality, Cardinality
<1> QED BY <1>9, <1>10, <1>11, <1>12, <1>13, FS_EmptySet DEF FiltersPartition

LEMMA CardsOfAddresses ==
  ASSUME NEW result, Seen(result)
  PROVE  CardsPartition(result)
<1>1. PICK A, B : A = Lists!Ips(base) /\ B = Lists!Ips(current)
  OBVIOUS
<1>2. PICK cards : cards = Lists!IpCards(result)
  OBVIOUS
<1>3. /\ DOMAIN cards = {"new", "removed", "common"}
      /\ cards["new"].ips = B \ A /\ cards["removed"].ips = A \ B /\ cards["common"].ips = A \cap B
  BY <1>1, <1>2, SeenIs DEF Lists!IpCards
<1>4. UNION {cards[c].ips : c \in DOMAIN cards} = A \cup B
  <2>1. {cards[c].ips : c \in DOMAIN cards} =
           {cards["new"].ips, cards["removed"].ips, cards["common"].ips}
    BY <1>3
  <2>2. UNION {B \ A, A \ B, A \cap B} = A \cup B
    OBVIOUS
  <2> QED BY <1>3, <2>1, <2>2
<1>5. \A c, d \in DOMAIN cards : c # d => cards[c].ips \cap cards[d].ips = {}
  BY <1>3
<1> QED BY <1>1, <1>2, <1>4, <1>5 DEF CardsPartition

LEMMA BadgesOfWholeLists ==
  ASSUME TypeOK, NEW result, Seen(result), ~Lists!Truncated(result)
  PROVE  BadgesTrue(result)
<1>1. result.base_sessions = base /\ result.compare_sessions = current
  BY SeenIs, ServedAre DEF TypeOK, Lists!Truncated
<1>2. \A i \in DOMAIN base : base[i] \in Sessions
  BY PlacesOf DEF TypeOK
<1>3. \A i \in DOMAIN current : current[i] \in Sessions
  BY PlacesOf DEF TypeOK
<1>4. ASSUME NEW s \in Sessions
      PROVE  /\ (Lists!BaseStatus(result, s) = "common") <=> \E i \in DOMAIN current : Same(s, current[i])
             /\ (Lists!CompareStatus(result, s) = "common") <=> \E i \in DOMAIN base : Same(s, base[i])
  BY <1>1, KeysAre DEF TypeOK, Lists!BaseStatus, Lists!CompareStatus
<1>5. Every(base, LAMBDA s : (Lists!BaseStatus(result, s) = "common") =
                             (\E i \in DOMAIN current : Same(s, current[i])))
  BY <1>2, <1>4 DEF Every
<1>6. Every(current, LAMBDA s : (Lists!CompareStatus(result, s) = "common") =
                                (\E i \in DOMAIN base : Same(s, base[i])))
  BY <1>3, <1>4 DEF Every
<1> QED BY <1>5, <1>6 DEF BadgesTrue

LEMMA MetricsOfWholeLists ==
  ASSUME TypeOK, NEW result, Seen(result), ~Lists!Truncated(result)
  PROVE  MetricsTrue(result)
<1>1. result.base_sessions = base /\ result.compare_sessions = current
  BY SeenIs, ServedAre DEF TypeOK, Lists!Truncated
<1>2. PICK rows : rows = Lists!BaseRows(result, "all")
  OBVIOUS
<1>3. PICK others : others = Lists!CompareRows(result, "all")
  OBVIOUS
<1>4. DOMAIN rows = DOMAIN base /\ \A i \in DOMAIN rows : rows[i].bytes = Lists!Bytes(base[i])
  BY <1>1, <1>2 DEF Lists!BaseRows, Lists!FilteredBase, Lists!RestrictValues, Lists!Restrict,
                    Lists!SessionRow
<1>5. DOMAIN others = DOMAIN current
      /\ \A i \in DOMAIN others : others[i].bytes = Lists!Bytes(current[i])
  BY <1>1, <1>3 DEF Lists!CompareRows, Lists!FilteredCompare, Lists!RestrictValues,
                    Lists!Restrict, Lists!SessionRow
<1>6. [i \in DOMAIN rows |-> rows[i].bytes] = [i \in DOMAIN base |-> Lists!Bytes(base[i])]
  BY <1>4
<1>7. [i \in DOMAIN others |-> others[i].bytes] = [i \in DOMAIN current |-> Lists!Bytes(current[i])]
  BY <1>5
<1>8. Drill!Total(rows, LAMBDA r : r.bytes) = Lists!Traffic(base)
  <2>1. PICK v : v = [i \in DOMAIN rows |-> rows[i].bytes]
    OBVIOUS
  <2>2. Drill!Total(rows, LAMBDA r : r.bytes) = Drill!SumFunction(v)
    BY <2>1 DEF Drill!Total
  <2>3. Lists!Traffic(base) = Lists!SumFunction(v)
    BY <1>6, <2>1 DEF Lists!Traffic
  <2> QED BY <2>2, <2>3, SumsOfLists
<1>9. Drill!Total(others, LAMBDA r : r.bytes) = Lists!Traffic(current)
  <2>1. PICK v : v = [i \in DOMAIN others |-> others[i].bytes]
    OBVIOUS
  <2>2. Drill!Total(others, LAMBDA r : r.bytes) = Drill!SumFunction(v)
    BY <2>1 DEF Drill!Total
  <2>3. Lists!Traffic(current) = Lists!SumFunction(v)
    BY <1>7, <2>1 DEF Lists!Traffic
  <2> QED BY <2>2, <2>3, SumsOfLists
<1>10. Lists!Metrics(result).base = Lists!Traffic(base)
       /\ Lists!Metrics(result).compare = Lists!Traffic(current)
  BY SeenIs DEF Lists!Metrics
<1>11. ASSUME NEW list, NEW ips, NEW box, ips \subseteq Lists!Ips(list),
              DOMAIN box = {i \in DOMAIN list : {list[i].src_ip, list[i].dst_ip} \cap ips # {}},
              \A i \in DOMAIN box : box[i] = list[i]
       PROVE  \A ip \in ips : \E i \in DOMAIN box : ip \in {box[i].src_ip, box[i].dst_ip}
  <2> TAKE ip \in ips
  <2>1. PICK i \in DOMAIN list : ip \in {list[i].src_ip, list[i].dst_ip}
    BY <1>11, IpsAre
  <2>2. i \in DOMAIN box
    BY <1>11, <2>1
  <2> QED BY <1>11, <2>1, <2>2
<1>12. Behind(Lists!IpCards(result).new)
  <2>1. PICK card : card = Lists!IpCards(result).new
    OBVIOUS
  <2>2. card.ips = result.new_ips /\ card.box = Lists!NewIpSessions(result)
    BY <2>1 DEF Lists!IpCards
  <2>3. card.ips \subseteq Lists!Ips(current)
    BY <2>2, SeenIs
  <2>4. DOMAIN card.box = {i \in DOMAIN current : {current[i].src_ip, current[i].dst_ip} \cap card.ips # {}}
        /\ \A i \in DOMAIN card.box : card.box[i] = current[i]
    BY <1>1, <2>2 DEF Lists!NewIpSessions, Lists!RestrictValues, Lists!Restrict
  <2>5. \A ip \in card.ips : \E i \in DOMAIN card.box : ip \in {card.box[i].src_ip, card.box[i].dst_ip}
    BY <1>11, <2>3, <2>4
  <2> QED BY <2>1, <2>5 DEF Behind
<1>13. Behind(Lists!IpCards(result).removed)
  <2>1. PICK card : card = Lists!IpCards(result).removed
    OBVIOUS
  <2>2. card.ips = result.removed_ips /\ card.box = Lists!RemovedIpSessions(result)
    BY <2>1 DEF Lists!IpCards
  <2>3. card.ips \subseteq Lists!Ips(base)
    BY <2>2, SeenIs
  <2>4. DOMAIN card.box = {i \in DOMAIN base : {base[i].src_ip, base[i].dst_ip} \cap card.ips # {}}
        /\ \A i \in DOMAIN card.box : card.box[i] = base[i]
    BY <1>1, <2>2 DEF Lists!RemovedIpSessions, Lists!RestrictValues, Lists!Restrict
  <2>5. \A ip \in card.ips : \E i \in DOMAIN card.box : ip \in {card.box[i].src_ip, card.box[i].dst_ip}
    BY <1>11, <2>3, <2>4
  <2> QED BY <2>1, <2>5 DEF Behind
<1> QED BY <1>2, <1>3, <1>8, <1>9, <1>10, <1>12, <1>13 DEF MetricsTrue

(* Every session is in the row of its protocol. *)
LEMMA RowsOfProtocols ==
  ASSUME TypeOK, NEW result, Seen(result)
  PROVE  ProtocolsAddUp(result)
<1>1. PICK P : P = {base[i].protocol : i \in DOMAIN base} \cup {current[i].protocol : i \in DOMAIN current}
  OBVIOUS
<1>2. PICK rows : rows = Lists!ProtocolTable(result)
  OBVIOUS
<1>3. DOMAIN result.protocol_diff = P
      /\ \A p \in P : /\ result.protocol_diff[p].a = Lists!ProtocolCount(base, p)
                      /\ result.protocol_diff[p].b = Lists!ProtocolCount(current, p)
  <2>1. PICK Q : Q = {s.protocol : s \in Lists!ToSet(base) \cup Lists!ToSet(current)}
    OBVIOUS
  <2>2. \A x : x \in Lists!ToSet(base) <=> \E i \in DOMAIN base : x = base[i]
    BY DEF Lists!ToSet
  <2>3. \A x : x \in Lists!ToSet(current) <=> \E i \in DOMAIN current : x = current[i]
    BY DEF Lists!ToSet
  <2>4. Q \subseteq P
    BY <1>1, <2>1, <2>2, <2>3
  <2>5. P \subseteq Q
    BY <1>1, <2>1, <2>2, <2>3
  <2>6. Q = P
    BY <2>4, <2>5
  <2>7. Lists!ProtocolDiff(base, current) =
          [p \in Q |-> [a |-> Lists!ProtocolCount(base, p), b |-> Lists!ProtocolCount(current, p)]]
    BY <2>1 DEF Lists!ProtocolDiff
  <2> QED BY <2>6, <2>7, SeenIs
<1>4. DOMAIN rows = P
      /\ \A p \in P : /\ rows[p].base = Lists!ProtocolCount(base, p)
                      /\ rows[p].compare = Lists!ProtocolCount(current, p)
  BY <1>2, <1>3 DEF Lists!ProtocolTable
<1>5. IsFiniteSet(P)
  <2>1. ASSUME NEW list \in Seq(Sessions)
        PROVE  IsFiniteSet({list[i].protocol : i \in DOMAIN list})
    <3>1. PICK T : T = {list[i].protocol : i \in DOMAIN list}
      OBVIOUS
    <3>2. PICK f : f = [i \in DOMAIN list |-> list[i].protocol]
      OBVIOUS
    <3>3. f \in Surjection(DOMAIN list, T)
      BY <3>1, <3>2 DEF Surjection
    <3>4. IsFiniteSet(T)
      BY <3>3, PlacesOf, FS_Surjection
    <3> QED BY <3>1, <3>4
  <2>2. IsFiniteSet({base[i].protocol : i \in DOMAIN base})
        /\ IsFiniteSet({current[i].protocol : i \in DOMAIN current})
    BY <2>1 DEF TypeOK
  <2> QED BY <1>1, <2>2, FS_Union
<1>6. ASSUME NEW list \in Seq(Sessions), NEW w, \A i \in DOMAIN list : list[i].protocol \in P,
             \A p \in P : w[p] = Lists!ProtocolCount(list, p)
      PROVE  N!Sum(w, P) = Len(list)
  <2>1. PICK part : part = [p \in P |-> {i \in DOMAIN list : list[i].protocol = p}]
    OBVIOUS
  <2>2. \A p \in P : w[p] = Cardinality(part[p])
    BY <1>6, <2>1 DEF Lists!ProtocolCount, Lists!Cardinality, Cardinality
  <2>3. PICK all : all = DOMAIN list
    OBVIOUS
  <2>4. \A x : x \in all <=> \E p \in P : x \in part[p]
    BY <1>6, <2>1, <2>3
  <2>5. \A p, q \in P : p # q => part[p] \cap part[q] = {}
    BY <2>1
  <2>6. IsFiniteSet(all) /\ Cardinality(all) = Len(list)
    BY <2>3, PlacesOf
  <2>7. DOMAIN part = P
    BY <2>1
  <2> QED BY <1>5, <2>2, <2>4, <2>5, <2>6, <2>7, CountsOfParts
<1>7. Drill!Total(rows, LAMBDA r : r.base) = Len(base)
  <2>1. PICK w : w = [p \in P |-> rows[p].base]
    OBVIOUS
  <2>2. Drill!Total(rows, LAMBDA r : r.base) = N!Sum(w, P)
    BY <1>4, <2>1, SumsOfLists DEF Drill!Total
  <2>3. N!Sum(w, P) = Len(base)
    BY <1>1, <1>4, <1>6, <2>1 DEF TypeOK
  <2> QED BY <2>2, <2>3
<1>8. Drill!Total(rows, LAMBDA r : r.compare) = Len(current)
  <2>1. PICK w : w = [p \in P |-> rows[p].compare]
    OBVIOUS
  <2>2. Drill!Total(rows, LAMBDA r : r.compare) = N!Sum(w, P)
    BY <1>4, <2>1, SumsOfLists DEF Drill!Total
  <2>3. N!Sum(w, P) = Len(current)
    BY <1>1, <1>4, <1>6, <2>1 DEF TypeOK
  <2> QED BY <2>2, <2>3
<1> QED BY <1>2, <1>7, <1>8 DEF ProtocolsAddUp

-----------------------------------------------------------------------------
(* The rankings, and the sessions behind their rows. *)
LEMMA DrillMins == \A S : Drill!Min(S) = Min(S)
BY DEF Drill!Min, Min

(* Each key of a dictionary has the place of its own at which it came in.  *)
LEMMA InsertedAre ==
  ASSUME NEW list, NEW n \in Nat, DOMAIN list = 1 .. n, NEW place, place = Drill!Inserted(list)
  PROVE  /\ \A k : k \in DOMAIN place <=> \E i \in DOMAIN list : list[i] = k
         /\ IsFiniteSet(DOMAIN place)
         /\ \A k \in DOMAIN place : place[k] \in 1 .. n /\ list[place[k]] = k
         /\ \A k, l \in DOMAIN place : place[k] = place[l] => k = l
<1>1. PICK D : D = {list[i] : i \in DOMAIN list}
  OBVIOUS
<1>2. place = [k \in D |-> Min({i \in DOMAIN list : list[i] = k})]
  BY <1>1, DrillMins DEF Drill!Inserted, Drill!ToSet
<1>3. ASSUME NEW k \in D
      PROVE  place[k] \in 1 .. n /\ list[place[k]] = k
  <2>1. PICK I : I = {i \in DOMAIN list : list[i] = k}
    OBVIOUS
  <2>2. I \in SUBSET Nat /\ I # {}
    BY <1>1, <2>1
  <2>3. Min(I) \in I
    BY <2>2, FirstPlaceOf
  <2> QED BY <1>2, <2>1, <2>3
<1>4. IsFiniteSet(D)
  <2>1. place \in [D -> 1 .. n]
    BY <1>2, <1>3
  <2>2. \A k, l \in D : place[k] = place[l] => k = l
    BY <1>3
  <2>3. place \in Injection(D, 1 .. n)
    BY <2>1, <2>2 DEF Injection, IsInjective
  <2>4. IsFiniteSet(1 .. n)
    BY FS_Interval
  <2> QED BY <2>3, <2>4, FS_Injection
<1> QED BY <1>1, <1>2, <1>3, <1>4

(* The addresses of both sides, as they are counted up. *)
Sides(list) ==
  [k \in 1 .. 2 * Len(list) |->
     IF k % 2 = 1 THEN list[(k + 1) \div 2].src_ip ELSE list[k \div 2].dst_ip]

LEMMA SidesAre ==
  ASSUME NEW list \in Seq(Sessions)
  PROVE  \A ip : (\E k \in DOMAIN Sides(list) : Sides(list)[k] = ip) <=> ip \in Lists!Ips(list)
<1>1. PICK n \in Nat : n = Len(list) /\ DOMAIN list = 1 .. n
  OBVIOUS
<1>2. DOMAIN Sides(list) = 1 .. 2 * n
      /\ \A k \in 1 .. 2 * n : Sides(list)[k] =
           IF k % 2 = 1 THEN list[(k + 1) \div 2].src_ip ELSE list[k \div 2].dst_ip
  BY <1>1 DEF Sides
<1>3. ASSUME NEW k \in 1 .. 2 * n
      PROVE  \E i \in 1 .. n : Sides(list)[k] \in {list[i].src_ip, list[i].dst_ip}
  <2>1. CASE k % 2 = 1
    <3>1. (k + 1) \div 2 \in 1 .. n
      BY <2>1
    <3> QED BY <1>2, <2>1, <3>1
  <2>2. CASE k % 2 # 1
    <3>1. k \div 2 \in 1 .. n
      BY <2>2
    <3> QED BY <1>2, <2>2, <3>1
  <2> QED BY <2>1, <2>2
<1>4. ASSUME NEW i \in 1 .. n
      PROVE  /\ \E k \in 1 .. 2 * n : Sides(list)[k] = list[i].src_ip
             /\ \E k \in 1 .. 2 * n : Sides(list)[k] = list[i].dst_ip
  <2>1. 2 * i - 1 \in 1 .. 2 * n /\ (2 * i - 1) % 2 = 1 /\ ((2 * i - 1) + 1) \div 2 = i
    OBVIOUS
  <2>2. 2 * i \in 1 .. 2 * n /\ (2 * i) % 2 # 1 /\ (2 * i) \div 2 = i
    OBVIOUS
  <2>3. Sides(list)[2 * i - 1] = list[i].src_ip
    BY <1>2, <2>1
  <2>4. Sides(list)[2 * i] = list[i].dst_ip
    BY <1>2, <2>2
  <2> QED BY <2>1, <2>2, <2>3, <2>4
<1>5. TAKE ip
<1>6. ip \in Lists!Ips(list) <=> \E i \in 1 .. n : ip \in {list[i].src_ip, list[i].dst_ip}
  BY <1>1, IpsAre
<1>7. ASSUME NEW k \in 1 .. 2 * n, Sides(list)[k] = ip PROVE ip \in Lists!Ips(list)
  BY <1>3, <1>6, <1>7
<1>8. ASSUME NEW i \in 1 .. n, ip \in {list[i].src_ip, list[i].dst_ip}
      PROVE  \E k \in 1 .. 2 * n : Sides(list)[k] = ip
  BY <1>4, <1>8
<1> QED BY <1>2, <1>6, <1>7, <1>8

(* What an address is credited with in a session. *)
Sent(list, ip) == [i \in DOMAIN list |-> IF list[i].src_ip = ip THEN list[i].bytes_sent ELSE 0]
Back(list, ip) == [i \in DOMAIN list |-> IF list[i].dst_ip = ip THEN list[i].bytes_recv ELSE 0]
Credit(list, ip) == [i \in DOMAIN list |-> Sent(list, ip)[i] + Back(list, ip)[i]]

LEMMA CreditsAre ==
  ASSUME NEW list \in Seq(Sessions), NEW ip
  PROVE  /\ \A i \in DOMAIN list : /\ Sent(list, ip)[i] \in Nat /\ Back(list, ip)[i] \in Nat
                                   /\ Credit(list, ip)[i] \in Nat
         /\ N!Sum(Credit(list, ip), DOMAIN list) \in Nat
         /\ N!Sum(Credit(list, ip), DOMAIN list)
              = N!Sum(Sent(list, ip), DOMAIN list) + N!Sum(Back(list, ip), DOMAIN list)
<1>1. \A i \in DOMAIN list : /\ Sent(list, ip)[i] \in Nat /\ Back(list, ip)[i] \in Nat
                             /\ Credit(list, ip)[i] = Sent(list, ip)[i] + Back(list, ip)[i]
  <2> TAKE i \in DOMAIN list
  <2>1. list[i].bytes_sent \in Nat /\ list[i].bytes_recv \in Nat
    BY PlacesOf, FieldsOf
  <2> QED BY <2>1 DEF Sent, Back, Credit
<1>2. IsFiniteSet(DOMAIN list)
  BY PlacesOf
<1>3. \A i \in DOMAIN list : Credit(list, ip)[i] \in Nat
  BY <1>1
<1>4. N!Sum(Credit(list, ip), DOMAIN list)
        = N!Sum(Sent(list, ip), DOMAIN list) + N!Sum(Back(list, ip), DOMAIN list)
  BY <1>1, <1>2, SumOfBoth
<1>5. N!Sum(Credit(list, ip), DOMAIN list) \in Nat
  BY <1>2, <1>3, NormalizerApplies, SameSets, N!SumIsNumber
<1> QED BY <1>1, <1>3, <1>4, <1>5

LEMMA RankingIs ==
  ASSUME NEW list \in Seq(Sessions)
  PROVE  /\ DOMAIN Drill!IpRanking(list) \subseteq Lists!Ips(list)
         /\ Cardinality(DOMAIN Drill!IpRanking(list)) < MaxRows =>
              DOMAIN Drill!IpRanking(list) = Lists!Ips(list)
         /\ \A ip \in DOMAIN Drill!IpRanking(list) :
              Drill!IpRanking(list)[ip] = N!Sum(Credit(list, ip), DOMAIN list)
<1>1. PICK place : place = Drill!Inserted(Sides(list))
  OBVIOUS
<1>2. PICK n \in Nat : n = 2 * Len(list) /\ DOMAIN Sides(list) = 1 .. n
  BY PlacesOf DEF Sides
<1>3. /\ \A k : k \in DOMAIN place <=> \E i \in DOMAIN Sides(list) : Sides(list)[i] = k
      /\ IsFiniteSet(DOMAIN place)
      /\ \A k \in DOMAIN place : place[k] \in 1 .. n
      /\ \A k, l \in DOMAIN place : place[k] = place[l] => k = l
  BY <1>1, <1>2, InsertedAre
<1>4. DOMAIN place = Lists!Ips(list)
  BY <1>3, SidesAre
<1>5. PICK bytes : bytes = [ip \in DOMAIN place |-> N!Sum(Credit(list, ip), DOMAIN list)]
  OBVIOUS
<1>6. ASSUME NEW ip
      PROVE  Drill!SumFunction([i \in DOMAIN list |->
                                  (IF list[i].src_ip = ip THEN list[i].bytes_sent ELSE 0)
                                  + (IF list[i].dst_ip = ip THEN list[i].bytes_recv ELSE 0)])
               = N!Sum(Credit(list, ip), DOMAIN list)
  <2>1. PICK v : v = [i \in DOMAIN list |->
                        (IF list[i].src_ip = ip THEN list[i].bytes_sent ELSE 0)
                        + (IF list[i].dst_ip = ip THEN list[i].bytes_recv ELSE 0)]
    OBVIOUS
  <2>2. v = Credit(list, ip) /\ DOMAIN v = DOMAIN list
    BY <2>1 DEF Credit, Sent, Back
  <2> QED BY <2>1, <2>2, SumsOfLists
<1>7. bytes = [ip \in DOMAIN place |->
                 Drill!SumFunction([i \in DOMAIN list |->
                                      (IF list[i].src_ip = ip THEN list[i].bytes_sent ELSE 0)
                                      + (IF list[i].dst_ip = ip THEN list[i].bytes_recv ELSE 0)])]
  BY <1>5, <1>6
<1>8. PICK L : L = Drill!Largest(DOMAIN place, bytes, place, MaxRows)
  OBVIOUS
<1>9. Drill!IpRanking(list) = [ip \in L |-> bytes[ip]]
  BY <1>1, <1>7, <1>8 DEF Drill!IpRanking, Drill!Restrict, Drill!Total, Sides
<1>10. L \in SUBSET DOMAIN place /\ (Cardinality(L) < MaxRows => L = DOMAIN place)
  <2>1. \A ip \in DOMAIN place : bytes[ip] \in Int /\ place[ip] \in Int
    BY <1>3, <1>5, CreditsAre
  <2>2. MaxRows \in Nat
    BY PanelContentsAssumption
  <2>3. FirstOnes(L, DOMAIN place, bytes, MaxRows)
    BY <1>3, <1>8, <2>1, <2>2, LargestAreFirst
  <2> QED BY <2>3 DEF FirstOnes
<1> QED BY <1>4, <1>5, <1>9, <1>10

LEMMA HostsAreCounted ==
  ASSUME NEW list \in Seq(Sessions)
  PROVE  Drill!UniqueIps(list) < MaxRows =>
           Drill!UniqueIps(list) = Cardinality(Lists!Ips(list))
BY RankingIs DEF Drill!UniqueIps, Drill!Cardinality, Cardinality

(* The sessions of an address, as many as are listed. *)
SessionsOf(list, ip) == {i \in DOMAIN list : ip \in {list[i].src_ip, list[i].dst_ip}}

Finding(list, ip, found) ==
  LET S == SessionsOf(list, ip)
      L == DOMAIN found.sessions
  IN /\ found.ip = ip /\ found.session_count = Cardinality(S)
     /\ L \in SUBSET S /\ found.sessions = [i \in L |-> list[i]]
     /\ Cardinality(L) = Min({MaxDrill, Cardinality(S)})
     /\ \A i \in L : Cardinality({j \in S : Drill!Bytes(list[j]) > Drill!Bytes(list[i])}) < MaxDrill
     /\ ~found.truncated => L = S

LEMMA FoundAre ==
  ASSUME NEW list \in Seq(Sessions), NEW ip
  PROVE  Finding(list, ip, Drill!Drilldown(list, ip))
<1>0. PICK found, L : found = Drill!Drilldown(list, ip) /\ L = DOMAIN found.sessions
  OBVIOUS
<1>1. PICK S : S = SessionsOf(list, ip)
  OBVIOUS
<1>2. IsFiniteSet(S) /\ S \in SUBSET DOMAIN list
  <2>1. S \in SUBSET DOMAIN list
    BY <1>1 DEF SessionsOf
  <2> QED BY <2>1, PlacesOf, FS_Subset
<1>3. PICK bytes : bytes = [i \in DOMAIN list |-> Drill!Bytes(list[i])]
  OBVIOUS
<1>4. PICK place : place = [i \in DOMAIN list |-> i]
  OBVIOUS
<1>5. PICK M : M = Drill!Largest(S, bytes, place, MaxDrill)
  OBVIOUS
<1>6. found = [ip |-> ip, session_count |-> Cardinality(S), sessions |-> [i \in M |-> list[i]],
               truncated |-> Cardinality(S) > MaxDrill]
  <2>1. Drill!Matched(list, ip) = S
    BY <1>1 DEF Drill!Matched, SessionsOf
  <2> QED BY <1>0, <1>3, <1>4, <1>5, <2>1 DEF Drill!Drilldown, Drill!Answer, Drill!Restrict,
                                              Drill!Cardinality, Cardinality
<1>7. L = M /\ found.sessions = [i \in L |-> list[i]]
      /\ found.ip = ip /\ found.session_count = Cardinality(S)
      /\ found.truncated = (Cardinality(S) > MaxDrill)
  BY <1>0, <1>6
<1>8. MaxDrill \in Nat /\ Cardinality(S) \in Nat
  BY <1>2, PanelContentsAssumption, FS_CardinalityType
<1>9. \A i \in DOMAIN list : bytes[i] \in Int /\ place[i] \in Int
  <2> TAKE i \in DOMAIN list
  <2>1. list[i].bytes_sent \in Nat /\ list[i].bytes_recv \in Nat /\ i \in Nat
    BY PlacesOf, FieldsOf
  <2> QED BY <1>3, <1>4, <2>1 DEF Drill!Bytes
<1>10. /\ L \in SUBSET S /\ IsFiniteSet(L)
       /\ Cardinality(L) = Min({MaxDrill, Cardinality(S)})
       /\ \A i \in L : Cardinality({j \in S : bytes[j] > bytes[i]}) < MaxDrill
  <2>1. \A i \in S : bytes[i] \in Int /\ place[i] \in Int
    BY <1>2, <1>9
  <2>2. \A i, j \in S : place[i] = place[j] => i = j
    BY <1>2, <1>4
  <2>3. FirstOnes(L, S, bytes, MaxDrill)
    BY <1>2, <1>5, <1>7, <1>8, <2>1, <2>2, LargestAreFirst
  <2> QED BY <2>3 DEF FirstOnes
<1>11. ASSUME NEW i \in L
       PROVE  Cardinality({j \in S : Drill!Bytes(list[j]) > Drill!Bytes(list[i])}) < MaxDrill
  <2>1. {j \in S : Drill!Bytes(list[j]) > Drill!Bytes(list[i])} = {j \in S : bytes[j] > bytes[i]}
    BY <1>2, <1>3, <1>10
  <2> QED BY <1>10, <2>1
<1>12. ~found.truncated => L = S
  <2> SUFFICES ASSUME ~found.truncated PROVE L = S
    OBVIOUS
  <2>1. Min({MaxDrill, Cardinality(S)}) = Cardinality(S)
    BY <1>7, <1>8, LeastOfTwo
  <2> QED BY <1>2, <1>10, <2>1, FS_Subset
<1> QED BY <1>0, <1>1, <1>7, <1>10, <1>11, <1>12 DEF Finding

LEMMA LargestAreListed ==
  ASSUME TypeOK, NEW ip
  PROVE  ListedAreLargest(ip)
<1>1. PICK S : S = {i \in DOMAIN base : ip \in {base[i].src_ip, base[i].dst_ip}}
  OBVIOUS
<1>2. PICK found : found = Found(ip)
  OBVIOUS
<1>3. PICK L : L = DOMAIN found.sessions
  OBVIOUS
<1>4. Finding(base, ip, found)
  BY <1>2, FoundAre DEF TypeOK, Found
<1>5. /\ found.session_count = Cardinality(S)
      /\ L \in SUBSET S /\ found.sessions = [i \in L |-> base[i]]
      /\ Cardinality(L) = Min({MaxDrill, Cardinality(S)})
      /\ \A i \in L : Cardinality({j \in S : Drill!Bytes(base[j]) > Drill!Bytes(base[i])}) < MaxDrill
  BY <1>1, <1>3, <1>4 DEF Finding, SessionsOf
<1>6. \A i \in L : found.sessions[i] = base[i]
  BY <1>5
<1>7. Every(found.sessions, LAMBDA s : Cardinality({i \in S : Drill!Bytes(base[i]) > Drill!Bytes(s)}) < MaxDrill)
  BY <1>3, <1>5, <1>6 DEF Every
<1> QED BY <1>1, <1>2, <1>3, <1>5, <1>7 DEF ListedAreLargest, Every

LEMMA RankingsAddUp ==
  ASSUME TypeOK, NEW ip \in DOMAIN Drill!IpRanking(base)
  PROVE  RankingAddsUp(ip, Drill!IpRanking(base)[ip])
<1>1. PICK found : found = Found(ip)
  OBVIOUS
<1>2. SUFFICES ASSUME ~found.truncated
               PROVE  Drill!IpRanking(base)[ip] =
                        Drill!Total(RestrictValues(Drill!IpDrill(found), LAMBDA r : r.session.src_ip = ip),
                                    LAMBDA r : r.session.bytes_sent)
                        + Drill!Total(RestrictValues(Drill!IpDrill(found), LAMBDA r : r.session.dst_ip = ip),
                                      LAMBDA r : r.session.bytes_recv)
  BY <1>1 DEF RankingAddsUp
<1>3. PICK S : S = {i \in DOMAIN base : ip \in {base[i].src_ip, base[i].dst_ip}}
  OBVIOUS
<1>4. found.sessions = [i \in S |-> base[i]]
  <2>1. Finding(base, ip, found)
    BY <1>1, FoundAre DEF TypeOK, Found
  <2> QED BY <1>2, <1>3, <2>1 DEF Finding, SessionsOf
<1>5. PICK drill : drill = Drill!IpDrill(found)
  OBVIOUS
<1>6. DOMAIN drill = S /\ \A i \in S : drill[i].session = base[i]
  BY <1>4, <1>5 DEF Drill!IpDrill
<1>7. PICK A, B : /\ A = {i \in DOMAIN base : base[i].src_ip = ip}
                  /\ B = {i \in DOMAIN base : base[i].dst_ip = ip}
  OBVIOUS
<1>8. PICK asked : asked = RestrictValues(drill, LAMBDA r : r.session.src_ip = ip)
  OBVIOUS
<1>9. PICK answered : answered = RestrictValues(drill, LAMBDA r : r.session.dst_ip = ip)
  OBVIOUS
<1>10. DOMAIN asked = A /\ \A i \in A : asked[i].session = base[i]
  BY <1>3, <1>6, <1>7, <1>8 DEF RestrictValues, Restrict
<1>11. DOMAIN answered = B /\ \A i \in B : answered[i].session = base[i]
  BY <1>3, <1>6, <1>7, <1>9 DEF RestrictValues, Restrict
<1>12. IsFiniteSet(DOMAIN base)
  BY PlacesOf DEF TypeOK
<1>13. \A i \in DOMAIN base : base[i].bytes_sent \in Nat /\ base[i].bytes_recv \in Nat
  BY PlacesOf, FieldsOf DEF TypeOK
<1>14. Drill!Total(asked, LAMBDA r : r.session.bytes_sent) = N!Sum(Sent(base, ip), DOMAIN base)
  <2>1. PICK v : v = [i \in A |-> asked[i].session.bytes_sent]
    OBVIOUS
  <2>2. Drill!Total(asked, LAMBDA r : r.session.bytes_sent) = N!Sum(v, A)
    BY <1>10, <2>1, SumsOfLists DEF Drill!Total
  <2>3. A \in SUBSET DOMAIN base
    BY <1>7
  <2>4. \A i \in A : Sent(base, ip)[i] \in Nat /\ v[i] = Sent(base, ip)[i]
    BY <1>7, <1>10, <1>13, <2>1 DEF Sent
  <2>5. \A i \in DOMAIN base \ A : Sent(base, ip)[i] = 0
    BY <1>7 DEF Sent
  <2>6. N!Sum(Sent(base, ip), DOMAIN base) = N!Sum(v, A)
    BY <1>12, <2>3, <2>4, <2>5, SumWhere
  <2> QED BY <2>2, <2>6
<1>15. Drill!Total(answered, LAMBDA r : r.session.bytes_recv) = N!Sum(Back(base, ip), DOMAIN base)
  <2>1. PICK v : v = [i \in B |-> answered[i].session.bytes_recv]
    OBVIOUS
  <2>2. Drill!Total(answered, LAMBDA r : r.session.bytes_recv) = N!Sum(v, B)
    BY <1>11, <2>1, SumsOfLists DEF Drill!Total
  <2>3. B \in SUBSET DOMAIN base
    BY <1>7
  <2>4. \A i \in B : Back(base, ip)[i] \in Nat /\ v[i] = Back(base, ip)[i]
    BY <1>7, <1>11, <1>13, <2>1 DEF Back
  <2>5. \A i \in DOMAIN base \ B : Back(base, ip)[i] = 0
    BY <1>7 DEF Back
  <2>6. N!Sum(Back(base, ip), DOMAIN base) = N!Sum(v, B)
    BY <1>12, <2>3, <2>4, <2>5, SumWhere
  <2> QED BY <2>2, <2>6
<1>16. Drill!IpRanking(base)[ip]
         = N!Sum(Sent(base, ip), DOMAIN base) + N!Sum(Back(base, ip), DOMAIN base)
  BY RankingIs, CreditsAre DEF TypeOK
<1> QED BY <1>5, <1>8, <1>9, <1>14, <1>15, <1>16

LEMMA ConversationsAddUp ==
  ASSUME TypeOK, NEW pair \in DOMAIN Drill!Conversations(base)
  PROVE  ConversationAddsUp(pair, Drill!Conversations(base)[pair])
<1>1. PICK pairs : pairs = [k \in DOMAIN base |-> <<base[k].src_ip, base[k].dst_ip>>]
  OBVIOUS
<1>2. PICK place : place = Drill!Inserted(pairs)
  OBVIOUS
<1>3. PICK bytes : bytes = [p \in DOMAIN place |->
          Drill!Total(Drill!RestrictValues(base, LAMBDA s : <<s.src_ip, s.dst_ip>> = p), Drill!Bytes)]
  OBVIOUS
<1>4. PICK L : L = Drill!Largest(DOMAIN place, bytes, place, MaxRows)
  OBVIOUS
<1>5. Drill!Conversations(base) =
        [p \in L |->
           [packets |-> Drill!Total(Drill!RestrictValues(base, LAMBDA s : <<s.src_ip, s.dst_ip>> = p),
                                    LAMBDA s : s.packet_count),
            bytes |-> bytes[p]]]
  BY <1>1, <1>2, <1>3, <1>4 DEF Drill!Conversations
<1>6. L \subseteq DOMAIN place
  BY <1>4 DEF Drill!Largest
<1>7. PICK n \in Nat : DOMAIN pairs = 1 .. n
  BY <1>1, PlacesOf DEF TypeOK
<1>8. pair \in DOMAIN place /\ \E i \in DOMAIN base : pair = <<base[i].src_ip, base[i].dst_ip>>
  <2>1. pair \in DOMAIN place
    BY <1>5, <1>6
  <2>2. \E i \in DOMAIN pairs : pairs[i] = pair
    BY <1>2, <1>7, <2>1, InsertedAre
  <2> QED BY <1>1, <2>1, <2>2
<1>9. PICK src, dst : pair = <<src, dst>>
  BY <1>8
<1>10. PICK of : of = Drill!RestrictValues(base, LAMBDA s : <<s.src_ip, s.dst_ip>> = pair)
  OBVIOUS
<1>11. PICK W : W = {i \in DOMAIN base : base[i].src_ip = src /\ base[i].dst_ip = dst}
  OBVIOUS
<1>12. of = [i \in W |-> base[i]]
  <2>1. {i \in DOMAIN base : <<base[i].src_ip, base[i].dst_ip>> = pair} = W
    BY <1>9, <1>11
  <2> QED BY <1>10, <2>1 DEF Drill!RestrictValues, Drill!Restrict
<1>13. PICK row : row = Drill!Conversations(base)[pair]
  OBVIOUS
<1>14. row.packets = Drill!SumFunction([i \in DOMAIN of |-> of[i].packet_count])
       /\ row.bytes = Drill!SumFunction([i \in DOMAIN of |-> Drill!Bytes(of[i])])
  <2>1. row.packets = Drill!Total(of, LAMBDA s : s.packet_count) /\ row.bytes = bytes[pair]
    BY <1>5, <1>10, <1>13 DEF Drill!Total
  <2>2. bytes[pair] = Drill!SumFunction([i \in DOMAIN of |-> Drill!Bytes(of[i])])
    BY <1>3, <1>8, <1>10 DEF Drill!Total
  <2> QED BY <2>1, <2>2 DEF Drill!Total
<1>15. PICK found : found = Found(src)
  OBVIOUS
<1>16. PICK listed : listed = Drill!ConversationDrill(found, dst)
  OBVIOUS
<1>17. PICK way : way = RestrictValues(listed, LAMBDA r : r.session.src_ip = src)
  OBVIOUS
<1>18. SUFFICES ASSUME ~found.truncated
                PROVE  /\ row.packets = Drill!Total(way, LAMBDA r : r.session.packet_count)
                       /\ row.bytes = Drill!Total(way, LAMBDA r : Drill!Bytes(r.session))
  BY <1>9, <1>13, <1>15, <1>16, <1>17 DEF ConversationAddsUp
<1>19. PICK S : S = {i \in DOMAIN base : src \in {base[i].src_ip, base[i].dst_ip}}
  OBVIOUS
<1>20. found.sessions = [i \in S |-> base[i]] /\ found.ip = src
  <2>1. Finding(base, src, found)
    BY <1>15, FoundAre DEF TypeOK, Found
  <2> QED BY <1>18, <1>19, <2>1 DEF Finding, SessionsOf
<1>21. PICK both : both = Drill!RestrictValues(found.sessions, LAMBDA s : {s.src_ip, s.dst_ip} = {src, dst})
  OBVIOUS
<1>22. DOMAIN both = {i \in S : {base[i].src_ip, base[i].dst_ip} = {src, dst}}
       /\ \A i \in DOMAIN both : both[i] = base[i]
  BY <1>20, <1>21 DEF Drill!RestrictValues, Drill!Restrict
<1>23. DOMAIN listed = DOMAIN both /\ \A i \in DOMAIN listed : listed[i].session = base[i]
  <2>1. listed = [k \in DOMAIN both |->
                    [session |-> both[k],
                     srcPort |-> IF both[k].src_ip = src THEN both[k].src_port ELSE both[k].dst_port,
                     dstPort |-> IF both[k].src_ip = src THEN both[k].dst_port ELSE both[k].src_port]]
    BY <1>16, <1>20, <1>21 DEF Drill!ConversationDrill
  <2> QED BY <1>22, <2>1
<1>24. DOMAIN way = W /\ \A i \in W : way[i].session = base[i]
  <2>1. DOMAIN way = {i \in DOMAIN listed : base[i].src_ip = src}
        /\ \A i \in DOMAIN way : way[i].session = base[i]
    BY <1>17, <1>23 DEF RestrictValues, Restrict
  <2>2. DOMAIN way = W
    BY <1>11, <1>19, <1>22, <1>23, <2>1
  <2> QED BY <2>1, <2>2
<1>25. Drill!Total(way, LAMBDA r : r.session.packet_count) 
         = Drill!SumFunction([i \in DOMAIN of |-> of[i].packet_count])
  <2>1. [i \in DOMAIN way |-> way[i].session.packet_count] = [i \in DOMAIN of |-> of[i].packet_count]
    BY <1>12, <1>24
  <2> QED BY <2>1 DEF Drill!Total
<1>26. Drill!Total(way, LAMBDA r : Drill!Bytes(r.session))
         = Drill!SumFunction([i \in DOMAIN of |-> Drill!Bytes(of[i])])
  <2>1. [i \in DOMAIN way |-> Drill!Bytes(way[i].session)] = [i \in DOMAIN of |-> Drill!Bytes(of[i])]
    BY <1>12, <1>24
  <2> QED BY <2>1 DEF Drill!Total
<1> QED BY <1>14, <1>25, <1>26

-----------------------------------------------------------------------------
(* The addresses that are looked up, and their countries. *)
HostsOf(attackers) == attackers \o [k \in DOMAIN base |-> base[k].dst_ip]

LEMMA PlacesOfHosts ==
  ASSUME TypeOK, NEW attackers \in Attackers
  PROVE  /\ \E n \in Nat : DOMAIN HostsOf(attackers) = 1 .. n
         /\ \A ip : (\E i \in DOMAIN HostsOf(attackers) : HostsOf(attackers)[i] = ip) <=>
                      ip \in ToSet(attackers) \cup {base[k].dst_ip : k \in DOMAIN base}
<1>0. PICK hosts : hosts = HostsOf(attackers)
  OBVIOUS
<1>1. PICK others : others = [k \in DOMAIN base |-> base[k].dst_ip]
  OBVIOUS
<1>2. attackers \in Seq(Addresses)
  BY PanelContentsAssumption
<1>3. others \in Seq(Addresses) /\ Len(others) = Len(base)
  <2>1. Len(base) \in Nat /\ DOMAIN base = 1 .. Len(base)
        /\ \A k \in DOMAIN base : base[k].dst_ip \in Addresses
    BY PlacesOf, FieldsOf DEF TypeOK
  <2> QED BY <1>1, <2>1
<1>4. PICK m, n \in Nat : m = Len(attackers) /\ n = Len(others)
  BY <1>2, <1>3
<1>5. DOMAIN attackers = 1 .. m /\ DOMAIN others = 1 .. n /\ DOMAIN base = 1 .. n
  BY <1>1, <1>2, <1>3, <1>4
<1>6. DOMAIN hosts = 1 .. (m + n)
      /\ \A i \in 1 .. (m + n) : hosts[i] = IF i <= m THEN attackers[i] ELSE others[i - m]
  <2>1. hosts = attackers \o others
    BY <1>0, <1>1 DEF HostsOf
  <2>2. Len(hosts) = m + n /\ hosts \in Seq(Addresses)
    <3>1. hosts \in Seq(Addresses) /\ Len(hosts) = Len(attackers) + Len(others)
      BY <1>2, <1>3, <2>1, ConcatProperties
    <3> QED BY <1>4, <3>1
  <2>3. DOMAIN hosts = 1 .. (m + n)
    BY <2>2
  <2>4. ASSUME NEW i \in 1 .. (m + n)
        PROVE  hosts[i] = IF i <= m THEN attackers[i] ELSE others[i - m]
    BY <1>2, <1>3, <1>4, <2>1
  <2> QED BY <2>3, <2>4
<1>7. ASSUME NEW i \in 1 .. (m + n)
      PROVE  hosts[i] \in ToSet(attackers) \cup {base[k].dst_ip : k \in DOMAIN base}
  <2>1. CASE i <= m
    BY <1>5, <1>6, <2>1 DEF ToSet
  <2>2. CASE ~(i <= m)
    <3>1. i - m \in 1 .. n
      BY <2>2
    <3> QED BY <1>1, <1>5, <1>6, <2>2, <3>1
  <2> QED BY <2>1, <2>2
<1>8. ASSUME NEW ip \in ToSet(attackers) PROVE \E i \in 1 .. (m + n) : hosts[i] = ip
  <2>1. PICK i \in 1 .. m : attackers[i] = ip
    BY <1>5 DEF ToSet
  <2>2. i \in 1 .. (m + n) /\ i <= m
    OBVIOUS
  <2> QED BY <1>6, <2>1, <2>2
<1>9. ASSUME NEW k \in DOMAIN base PROVE \E i \in 1 .. (m + n) : hosts[i] = base[k].dst_ip
  <2>1. k + m \in 1 .. (m + n) /\ ~(k + m <= m) /\ (k + m) - m = k
    BY <1>5
  <2>2. hosts[k + m] = others[k]
    BY <1>6, <2>1
  <2> QED BY <1>1, <2>1, <2>2
<1>10. \E l \in Nat : DOMAIN hosts = 1 .. l
  BY <1>6
<1>11. ASSUME NEW ip
       PROVE  (\E i \in DOMAIN hosts : hosts[i] = ip) <=>
                ip \in ToSet(attackers) \cup {base[k].dst_ip : k \in DOMAIN base}
  <2>1. PICK D : D = {base[k].dst_ip : k \in DOMAIN base}
    OBVIOUS
  <2>2. ASSUME NEW i \in 1 .. (m + n), hosts[i] = ip PROVE ip \in ToSet(attackers) \cup D
    BY <1>7, <2>1, <2>2
  <2>3. ip \in D => \E i \in 1 .. (m + n) : hosts[i] = ip
    BY <1>9, <2>1
  <2> QED BY <1>6, <1>8, <2>1, <2>2, <2>3
<1> QED BY <1>0, <1>10, <1>11

Located(attackers) == ToSet(attackers) \cup ({s.dst_ip : s \in ToSet(base)} \cap External)

(* Each is looked up once, at a place of its own. *)
EntriesOf(attackers, entries) ==
  LET E == DOMAIN entries
  IN /\ E \in SUBSET Located(attackers) /\ IsFiniteSet(E)
     /\ Cardinality(E) = Min({MaxEntries, Cardinality(Located(attackers))})
     /\ \A ip \in E : entries[ip].place \in Nat
     /\ \A ip, jp \in E : entries[ip].place = entries[jp].place => ip = jp

LEMMA EntriesAre ==
  ASSUME TypeOK, NEW attackers \in Attackers
  PROVE  EntriesOf(attackers, Drill!GeoEntries(attackers, base))
<1>1. PICK hosts : hosts = HostsOf(attackers)
  OBVIOUS
<1>2. PICK n \in Nat : DOMAIN hosts = 1 .. n
  BY <1>1, PlacesOfHosts
<1>3. PICK place : place = Drill!Inserted(hosts)
  OBVIOUS
<1>4. /\ \A k : k \in DOMAIN place <=> \E i \in DOMAIN hosts : hosts[i] = k
      /\ IsFiniteSet(DOMAIN place)
      /\ \A k \in DOMAIN place : place[k] \in 1 .. n
      /\ \A k, l \in DOMAIN place : place[k] = place[l] => k = l
  BY <1>2, <1>3, InsertedAre
<1>5. PICK S : S = Located(attackers)
  OBVIOUS
<1>6. DOMAIN place \cap (ToSet(attackers) \cup External) = S
  <2>1. {s.dst_ip : s \in ToSet(base)} = {base[k].dst_ip : k \in DOMAIN base}
    BY DEF ToSet
  <2>2. \A ip : ip \in DOMAIN place <=> ip \in ToSet(attackers) \cup {base[k].dst_ip : k \in DOMAIN base}
    BY <1>1, <1>4, PlacesOfHosts
  <2> QED BY <1>5, <2>1, <2>2 DEF Located
<1>7. S \in SUBSET DOMAIN place /\ IsFiniteSet(S)
  <2>1. S \in SUBSET DOMAIN place
    BY <1>6
  <2> QED BY <1>4, <2>1, FS_Subset
<1>8. PICK none : none = [ip \in S |-> 0]
  OBVIOUS
<1>9. PICK E : E = Drill!Largest(S, none, place, MaxEntries)
  OBVIOUS
<1>10. FirstOnes(E, S, none, MaxEntries)
  <2>1. \A ip \in S : none[ip] \in Int /\ place[ip] \in Int
    BY <1>4, <1>7, <1>8
  <2>2. \A ip, jp \in S : place[ip] = place[jp] => ip = jp
    BY <1>4, <1>7
  <2>3. MaxEntries \in Nat
    BY PanelContentsAssumption
  <2> QED BY <1>7, <1>9, <2>1, <2>2, <2>3, LargestAreFirst
<1>11. PICK entries : entries = Drill!GeoEntries(attackers, base)
  OBVIOUS
<1>12. DOMAIN entries = E /\ \A ip \in E : entries[ip].place = place[ip]
  <2>1. Drill!FirstOf(S, place, MaxEntries) = E
    BY <1>8, <1>9 DEF Drill!FirstOf
  <2>2. Drill!ToSet(attackers) = ToSet(attackers)
    BY DEF Drill!ToSet, ToSet
  <2>3. entries = [ip \in E |->
                     [country |-> Country[ip], place |-> place[ip],
                      role |-> IF ip \in ToSet(attackers) THEN "attacker" ELSE "external"]]
    BY <1>1, <1>3, <1>6, <1>11, <2>1, <2>2 DEF Drill!GeoEntries, HostsOf
  <2> QED BY <2>3
<1>13. E \in SUBSET S /\ IsFiniteSet(E) /\ Cardinality(E) = Min({MaxEntries, Cardinality(S)})
  BY <1>10 DEF FirstOnes
<1>14. \A ip \in E : place[ip] \in Nat
  BY <1>4, <1>7, <1>13
<1>15. \A ip, jp \in E : place[ip] = place[jp] => ip = jp
  BY <1>4, <1>7, <1>13
<1> QED BY <1>5, <1>11, <1>12, <1>13, <1>14, <1>15 DEF EntriesOf

(* A country has the addresses in it, and the place of the first. *)
CountriesOf(entries, countries) ==
  LET E     == DOMAIN entries
      names == DOMAIN countries
  IN /\ names = {entries[ip].country : ip \in E} /\ IsFiniteSet(names)
     /\ \A name \in names :
          /\ countries[name].count = Cardinality({ip \in E : entries[ip].country = name})
          /\ countries[name].count \in Nat
          /\ countries[name].place \in Nat
          /\ countries[name].attacker <=>
               (\E ip \in E : entries[ip].country = name /\ entries[ip].role = "attacker")
     /\ \A name, other \in names : countries[name].place = countries[other].place => name = other

LEMMA CountriesAre ==
  ASSUME NEW entries, IsFiniteSet(DOMAIN entries),
         \A ip \in DOMAIN entries : entries[ip].place \in Nat,
         \A ip, jp \in DOMAIN entries : entries[ip].place = entries[jp].place => ip = jp
  PROVE  CountriesOf(entries, Drill!Countries(entries))
<1>0. PICK E, countries : E = DOMAIN entries /\ countries = Drill!Countries(entries)
  OBVIOUS
<1>1. PICK names : names = {entries[ip].country : ip \in E}
  OBVIOUS
<1>2. PICK in : in = [name \in names |-> {ip \in E : entries[ip].country = name}]
  OBVIOUS
<1>3. countries = [name \in names |->
          [count    |-> Cardinality({ip \in E : entries[ip].country = name}),
           place    |-> Min({entries[ip].place : ip \in {jp \in E : entries[jp].country = name}}),
           attacker |-> \E ip \in {jp \in E : entries[jp].country = name} :
                          entries[ip].role = "attacker"]]
  BY <1>0, <1>1, DrillMins DEF Drill!Countries, Drill!Cardinality, Cardinality
<1>4. DOMAIN countries = names
  BY <1>3
<1>5. IsFiniteSet(names)
  <2>1. PICK f : f = [ip \in E |-> entries[ip].country]
    OBVIOUS
  <2>2. f \in Surjection(E, names)
    BY <1>1, <2>1 DEF Surjection
  <2> QED BY <1>0, <2>2, FS_Surjection
<1>6. ASSUME NEW name \in names
      PROVE  /\ countries[name].count = Cardinality({ip \in E : entries[ip].country = name})
             /\ countries[name].count \in Nat
             /\ countries[name].attacker <=>
                  (\E ip \in E : entries[ip].country = name /\ entries[ip].role = "attacker")
             /\ \E ip \in E : entries[ip].country = name /\ entries[ip].place = countries[name].place
             /\ countries[name].place \in Nat
  <2>1. PICK S : S = {ip \in E : entries[ip].country = name}
    OBVIOUS
  <2>2. countries[name].count = Cardinality(S)
    BY <1>3, <2>1
  <2>3. Cardinality(S) \in Nat
    <3>1. S \in SUBSET E
      BY <2>1
    <3>2. IsFiniteSet(S)
      BY <1>0, <3>1, FS_Subset
    <3> QED BY <3>2, FS_CardinalityType
  <2>4. countries[name].attacker <=> (\E ip \in S : entries[ip].role = "attacker")
    BY <1>3, <2>1
  <2>5. PICK R : R = {entries[ip].place : ip \in S}
    OBVIOUS
  <2>6. R \in SUBSET Nat /\ R # {}
    BY <1>0, <1>1, <2>1, <2>5
  <2>7. countries[name].place = Min(R)
    BY <1>3, <2>1, <2>5
  <2>8. Min(R) \in R /\ Min(R) \in Nat
    BY <2>6, FirstPlaceOf
  <2>9. \E ip \in E : entries[ip].country = name /\ entries[ip].place = countries[name].place
    BY <2>1, <2>5, <2>7, <2>8
  <2>10. (\E ip \in S : entries[ip].role = "attacker")
           <=> \E ip \in E : entries[ip].country = name /\ entries[ip].role = "attacker"
    BY <2>1
  <2>11. countries[name].attacker <=>
           (\E ip \in E : entries[ip].country = name /\ entries[ip].role = "attacker")
    BY <2>4, <2>10
  <2> QED BY <2>1, <2>2, <2>3, <2>7, <2>8, <2>9, <2>11
<1>7. ASSUME NEW name \in names, NEW other \in names, countries[name].place = countries[other].place
      PROVE  name = other
  <2>1. PICK ip \in E : entries[ip].country = name /\ entries[ip].place = countries[name].place
    BY <1>6
  <2>2. PICK jp \in E : entries[jp].country = other /\ entries[jp].place = countries[other].place
    BY <1>6
  <2>3. ip = jp
    BY <1>0, <1>7, <2>1, <2>2
  <2> QED BY <2>1, <2>2, <2>3
<1> QED BY <1>0, <1>1, <1>4, <1>5, <1>6, <1>7 DEF CountriesOf

LEMMA CountriesOfEntries ==
  ASSUME TypeOK, NEW attackers \in Attackers
  PROVE  CountriesTrue(attackers)
<1>1. PICK entries : entries = Drill!GeoEntries(attackers, base)
  OBVIOUS
<1>2. PICK E : E = DOMAIN entries
  OBVIOUS
<1>3. /\ E \in SUBSET Located(attackers) /\ IsFiniteSet(E)
      /\ Cardinality(E) = Min({MaxEntries, Cardinality(Located(attackers))})
      /\ \A ip \in E : entries[ip].place \in Nat
      /\ \A ip, jp \in E : entries[ip].place = entries[jp].place => ip = jp
  <2>1. EntriesOf(attackers, entries)
    BY <1>1, EntriesAre
  <2> QED BY <1>2, <2>1 DEF EntriesOf
<1>4. PICK countries : countries = Drill!Countries(entries)
  OBVIOUS
<1>5. PICK names : names = DOMAIN countries
  OBVIOUS
<1>6. /\ names = {entries[ip].country : ip \in E} /\ IsFiniteSet(names)
      /\ \A name \in names :
              /\ countries[name].count = Cardinality({ip \in E : entries[ip].country = name})
              /\ countries[name].count \in Nat
              /\ countries[name].place \in Nat
              /\ countries[name].attacker <=>
                   (\E ip \in E : entries[ip].country = name /\ entries[ip].role = "attacker")
      /\ \A name, other \in names : countries[name].place = countries[other].place => name = other
  <2>1. CountriesOf(entries, countries)
    BY <1>2, <1>3, <1>4, CountriesAre
  <2> QED BY <1>2, <1>5, <2>1 DEF CountriesOf
<1>7. Drill!Total(countries, LAMBDA c : c.count) = Cardinality(E)
  <2>1. PICK w : w = [name \in names |-> countries[name].count]
    OBVIOUS
  <2>2. Drill!Total(countries, LAMBDA c : c.count) = N!Sum(w, names)
    BY <1>5, <2>1, SumsOfLists DEF Drill!Total
  <2>3. PICK part : part = [name \in names |-> {ip \in E : entries[ip].country = name}]
    OBVIOUS
  <2>4. DOMAIN part = names /\ \A name \in names : w[name] = Cardinality(part[name])
    BY <1>6, <2>1, <2>3
  <2>5. \A ip : ip \in E <=> \E name \in names : ip \in part[name]
    BY <1>6, <2>3
  <2>6. \A name, other \in names : name # other => part[name] \cap part[other] = {}
    BY <2>3
  <2>7. N!Sum(w, names) = Cardinality(E)
    BY <1>3, <1>6, <2>4, <2>5, <2>6, CountsOfParts
  <2> QED BY <2>2, <2>7
<1>8. PICK chips : chips = Drill!AttackerChips(entries)
  OBVIOUS
<1>9. ASSUME NEW name \in names
      PROVE  countries[name].attacker <=> (\E ip \in DOMAIN chips : chips[ip].country = name)
  <2>1. DOMAIN chips = {ip \in E : entries[ip].role = "attacker"}
        /\ \A ip \in DOMAIN chips : chips[ip] = entries[ip]
    BY <1>2, <1>8 DEF Drill!AttackerChips, Drill!RestrictValues, Drill!Restrict
  <2>2. (\E ip \in DOMAIN chips : chips[ip].country = name)
          <=> \E ip \in E : entries[ip].country = name /\ entries[ip].role = "attacker"
    BY <2>1
  <2> QED BY <1>6, <2>2
<1>10. PICK table : table = Drill!CountryTable(entries)
  OBVIOUS
<1>11. PICK count, place : /\ count = [name \in names |-> countries[name].count]
                           /\ place = [name \in names |-> countries[name].place]
  OBVIOUS
<1>12. PICK L : L = Drill!Largest(names, count, place, MaxCountries)
  OBVIOUS
<1>13. table = [name \in L |-> countries[name]]
  BY <1>4, <1>5, <1>10, <1>11, <1>12 DEF Drill!CountryTable, Drill!Restrict
<1>14. FirstOnes(L, names, count, MaxCountries)
  <2>1. ASSUME NEW name \in names PROVE count[name] \in Int /\ place[name] \in Int
    <3>1. countries[name].count \in Nat /\ countries[name].place \in Nat
      BY <1>6
    <3>2. count[name] = countries[name].count /\ place[name] = countries[name].place
      BY <1>11
    <3> QED BY <3>1, <3>2
  <2>2. \A name, other \in names : place[name] = place[other] => name = other
    BY <1>6, <1>11
  <2>3. MaxCountries \in Nat
    BY PanelContentsAssumption
  <2> QED BY <1>6, <1>12, <2>1, <2>2, <2>3, LargestAreFirst
<1>15. ASSUME NEW name \in names, NEW shown \in DOMAIN table,
              table[shown].count < countries[name].count
       PROVE  name \in DOMAIN table
  <2>1. shown \in L /\ L \in SUBSET names
    BY <1>13, <1>14 DEF FirstOnes
  <2>2. count[shown] < count[name]
    BY <1>11, <1>13, <1>15, <2>1
  <2>3. name \in L
    BY <1>14, <2>1, <2>2 DEF FirstOnes
  <2> QED BY <1>13, <2>3
<1>16. E \subseteq Located(attackers)
  BY <1>3
<1> QED BY <1>1, <1>2, <1>3, <1>4, <1>5, <1>7, <1>8, <1>9, <1>10, <1>15, <1>16
        DEF CountriesTrue, Located

-----------------------------------------------------------------------------
(* What the panels say of two captures, whatever the sessions and the      *)
(* limits of the lists (ComparePanel.tsx, compare.py, panels.py,           *)
(* drilldown.py, geoip_analyzer.py): boxes, filters and cards split what   *)
(* there is, the rows account for every session and every byte as long as  *)
(* no list is cut, a list that is cut holds the largest ones, and the      *)
(* countries every address looked up.                                      *)
THEOREM LabelsAreTrue == Spec => []LabelsTrue
<1>1. ASSUME TypeOK PROVE LabelsTrue
  <2>1. PICK result : Seen(result)
    BY DEF Seen
  <2>2. /\ BoxesMatchBadges(result)
        /\ FiltersPartition(result) /\ CardsPartition(result)
        /\ ProtocolsAddUp(result)
    BY <1>1, <2>1, BoxesOfBadges, FiltersOfBadges, CardsOfAddresses, RowsOfProtocols
  <2>3. ~Lists!Truncated(result) => BadgesTrue(result) /\ MetricsTrue(result)
    BY <1>1, <2>1, BadgesOfWholeLists, MetricsOfWholeLists
  <2>4. RowsTrue
    <3>1. Drill!UniqueIps(base) < MaxRows => Drill!UniqueIps(base) = Cardinality(Lists!Ips(base))
      BY <1>1, HostsAreCounted DEF TypeOK
    <3>2. \A ip \in Addresses : ListedAreLargest(ip)
      BY <1>1, LargestAreListed
    <3>3. \A ip \in DOMAIN Drill!IpRanking(base) : RankingAddsUp(ip, Drill!IpRanking(base)[ip])
      BY <1>1, RankingsAddUp
    <3>4. \A pair \in DOMAIN Drill!Conversations(base) :
            ConversationAddsUp(pair, Drill!Conversations(base)[pair])
      BY <1>1, ConversationsAddUp
    <3> QED BY <3>1, <3>2, <3>3, <3>4 DEF RowsTrue
  <2>5. \A attackers \in Attackers : CountriesTrue(attackers)
    BY <1>1, CountriesOfEntries
  <2> QED BY <2>1, <2>2, <2>3, <2>4, <2>5 DEF LabelsTrue, Seen
<1> QED BY <1>1, Typing, PTL
=============================================================================

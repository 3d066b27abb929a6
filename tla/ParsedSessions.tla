--------------------------- MODULE ParsedSessions ---------------------------
(***************************************************************************)
(* What the upload handler gets out of any parser and normalises           *)
(* (backend/routers/upload.py): a list of sessions, which grows by one     *)
(* session at a time, each with an id of its own (uuid4; here its place in *)
(* the list).  Which sessions a log holds, and in which order, is open:    *)
(* tuples repeat, times go back and forth, and packets need not be in      *)
(* order of time.                                                          *)
(***************************************************************************)
EXTENDS Normalizer

CONSTANTS
  Hosts,        (* addresses                                               *)
  Protocols,    (* protocols                                               *)
  Captured,     (* packets that a parser may keep with a session           *)
  Parsed,       (* what a session may be, apart from its id                *)
  MaxSessions   (* length of the longest list                              *)

VARIABLE sessions

Endpoints == [host : Hosts, port : Nat]

Sessions ==
  [ session_id : Nat, src : Endpoints, dst : Endpoints, protocol : Protocols,
    start_ts : Nat, end_ts : Nat, bytes_sent : Nat, bytes_recv : Nat,
    packet_count : Nat, rst : BOOLEAN, confidence : {"low", "normal"},
    packets : Seq(Captured) ]

ASSUME ParsedAssumption ==
  /\ \A p \in Captured : p.ts \in Nat
  /\ Parsed \subseteq Sessions
  /\ MaxSessions \in Nat

Init == sessions = <<>>

Parse(s) ==
  /\ Len(sessions) < MaxSessions
  /\ sessions' = Append(sessions, [s EXCEPT !.session_id = Len(sessions) + 1])

Next == \E s \in Parsed : Parse(s)

Spec == Init /\ [][Next]_sessions

-----------------------------------------------------------------------------
(* What the handler stores.                                                *)
Left == Normalize(sessions)

(* Merging loses and doubles nothing: bytes, packets counted and packets   *)
(* kept add up to the same, and every packet kept is in one place          *)
(* (normalizer.py, the sums and the remapping of packet_map).              *)
TotalsConserved ==
  /\ SumFunction([t \in Left |-> t.bytes_sent]) =
       SumFunction([i \in DOMAIN sessions |-> sessions[i].bytes_sent])
  /\ SumFunction([t \in Left |-> t.bytes_recv]) =
       SumFunction([i \in DOMAIN sessions |-> sessions[i].bytes_recv])
  /\ SumFunction([t \in Left |-> t.packet_count]) =
       SumFunction([i \in DOMAIN sessions |-> sessions[i].packet_count])
  /\ SumFunction([t \in Left |-> Len(t.packets)]) =
       SumFunction([i \in DOMAIN sessions |-> Len(sessions[i].packets)])
  /\ UNION {ToSet(t.packets) : t \in Left} =
       UNION {ToSet(sessions[i].packets) : i \in DOMAIN sessions}

Tuple(s) == <<s.src, s.dst, s.protocol>>

(* Sessions of one 5-tuple end up as one, except those without ports, each *)
(* of which stays as it was but for the order of its packets, since a      *)
(* beacon is recognised by their times (normalizer.py, the group key).     *)
OneSessionPerTuple ==
  /\ {Tuple(t) : t \in Left} = {Tuple(sessions[i]) : i \in DOMAIN sessions}
  /\ \A t, u \in Left : t # u /\ Tuple(t) = Tuple(u) => HasNoPorts(t)
  /\ \A i \in DOMAIN sessions :
       HasNoPorts(sessions[i]) =>
         \E t \in Left : /\ t = [sessions[i] EXCEPT !.packets = t.packets]
                         /\ ToBag(t.packets) = ToBag(sessions[i].packets)

(* A merged session spans all that went into it, in whatever order the log *)
(* had it, keeps its packets in order of time, and stays suspect if one of *)
(* its parts was (normalizer.py, start_ts, end_ts, rst, confidence).       *)
SpansCoverTheirParts ==
  \A t \in Left :
    LET parts == {i \in DOMAIN sessions : SameGroup(t, sessions[i])} IN
    /\ \A i \in parts : t.start_ts <= sessions[i].start_ts /\ sessions[i].end_ts <= t.end_ts
    /\ \E i \in parts : sessions[i].start_ts = t.start_ts
    /\ \E i \in parts : sessions[i].end_ts = t.end_ts
    /\ t.rst = \E i \in parts : sessions[i].rst
    /\ t.confidence = "low" <=> \E i \in parts : sessions[i].confidence = "low"
    /\ \A m, n \in DOMAIN t.packets : m < n => t.packets[m].ts <= t.packets[n].ts
=============================================================================

----------------------------- MODULE Normalizer -----------------------------
(***************************************************************************)
(* SessionNormalizer (backend/services/normalizer.py): what every parser   *)
(* hands over is merged so that one session is left per 5-tuple.  Sessions *)
(* without ports are left alone, because merging them would destroy the    *)
(* timing of beacons.                                                      *)
(*                                                                         *)
(* A session carries its packets here, which the code keeps beside it in   *)
(* packet_map under the id of the session.  A group is the set of the      *)
(* places of its sessions in the list.  The result is a set, and the id of *)
(* the first session of a group stands for the fresh uuid4 that the merged *)
(* session gets.  payload_length (always 0 or summed like the bytes) and   *)
(* meta are left out.                                                      *)
(***************************************************************************)
EXTENDS Naturals, Sequences, FiniteSets, SequencesExt, FiniteSetsExt

HasNoPorts(s) == s.src.port = 0 /\ s.dst.port = 0

MergedAnyway(s, t) == s.src = t.src /\ s.dst = t.dst /\ s.protocol = t.protocol
SameGroup(s, t) ==
  /\ s.src = t.src /\ s.dst = t.dst /\ s.protocol = t.protocol
  /\ HasNoPorts(s) => s.session_id = t.session_id

GroupOf(sessions, s) == {i \in DOMAIN sessions : SameGroup(s, sessions[i])}

(* Where the packets of a group are: <<place of the session, place in its
   list>>.  extend puts these lists one after the other, sort(key=ts) then
   goes by time and is stable. *)
PlacesOfFirst(sessions, group) == {Min(group)} \X DOMAIN sessions[Min(group)].packets
Places(sessions, group) == UNION {{i} \X DOMAIN sessions[i].packets : i \in group}

PacketAt(sessions, x) == sessions[x[1]].packets[x[2]]

AsExtended(sessions, x, y) == x[1] < y[1] \/ (x[1] = y[1] /\ x[2] < y[2])
Sooner(sessions, x, y) ==
  \/ PacketAt(sessions, x).ts < PacketAt(sessions, y).ts
  \/ /\ PacketAt(sessions, x).ts = PacketAt(sessions, y).ts
     /\ AsExtended(sessions, x, y)

(* The n-th of the places is the one with n - 1 before it. *)
Nth(sessions, places, n) ==
  CHOOSE x \in places : Cardinality({y \in places : Sooner(sessions, y, x)}) = n - 1

PacketsOf(sessions, group) ==
  LET places == Places(sessions, group) IN
  [n \in 1 .. Cardinality(places) |-> PacketAt(sessions, Nth(sessions, places, n))]

SpanOfLast(sessions, group) ==
  [from |-> sessions[Min(group)].start_ts, to |-> sessions[Max(group)].end_ts]
Span(sessions, group) ==
  [ from |-> Min({sessions[i].start_ts : i \in group}),
    to   |-> Max({sessions[i].end_ts : i \in group}) ]

Merged(sessions, group) ==
  LET first == sessions[Min(group)] IN
  [ session_id   |-> first.session_id,
    src          |-> first.src,
    dst          |-> first.dst,
    protocol     |-> first.protocol,
    start_ts     |-> Span(sessions, group).from,
    end_ts       |-> Span(sessions, group).to,
    bytes_sent   |-> SumFunction([i \in group |-> sessions[i].bytes_sent]),
    bytes_recv   |-> SumFunction([i \in group |-> sessions[i].bytes_recv]),
    packet_count |-> SumFunction([i \in group |-> sessions[i].packet_count]),
    rst          |-> \E i \in group : sessions[i].rst,
    confidence   |-> IF \E i \in group : sessions[i].confidence = "low"
                     THEN "low" ELSE "normal",
    packets      |-> PacketsOf(sessions, group) ]

Normalize(sessions) ==
  {Merged(sessions, GroupOf(sessions, sessions[i])) : i \in DOMAIN sessions}
=============================================================================

----------------------------- MODULE DrillLists -----------------------------
(***************************************************************************)
(* The two rankings of the dashboard and the sessions behind their rows:   *)
(* what the server counts (backend/routers/panels.py), the sessions it     *)
(* finds for an address (backend/routers/drilldown.py), and what the       *)
(* panels show of them (frontend/src/panels/Panel6IpRanking.tsx and        *)
(* Panel9Conversations.tsx); and the countries of the addresses            *)
(* (backend/services/analytics/geoip_analyzer.py, panels/GeoIpPanel.tsx).  *)
(*                                                                         *)
(* A session has src_ip, dst_ip, src_port, dst_port, bytes_sent,           *)
(* bytes_recv and packet_count.  A list that is sorted and cut is the      *)
(* function of what is left in it: by address, by pair of addresses, or by *)
(* the places its sessions had before.                                     *)
(***************************************************************************)
EXTENDS Integers, Sequences, SequencesExt

CONSTANTS
  MaxRows,     (* 20, the rows of a ranking                                *)
  MaxDrill,    (* 50, the sessions listed for an address                   *)
  MaxEntries,  (* 100, the addresses whose country is looked up            *)
  MaxCountries,   (* 15, the rows of the table of countries                *)
  Country,     (* the country of each address, by name                     *)
  External     (* the addresses that are not of a private network          *)

Bytes(s) == s.bytes_sent + s.bytes_recv

Total(list, Of(_)) == SumFunction([i \in DOMAIN list |-> Of(list[i])])

(* The keys of a dictionary filled from a list, with the places at which
   they were inserted. *)
Inserted(list) == [k \in ToSet(list) |-> Min({i \in DOMAIN list : list[i] = k})]

(* The n largest of S; of the same size, those that came first. *)
Largest(S, size, place, n) ==
  LET ahead(x) == {y \in S : \/ size[y] > size[x]
                             \/ size[y] = size[x] /\ place[y] < place[x]}
  IN {x \in S : Cardinality(ahead(x)) < n}

FirstOf(S, place, n) == Largest(S, [x \in S |-> 0], place, n)

(* An address is credited with the bytes it sent, or that came back to the
   other end when it was asked: the bytes of its own direction. *)
IpRanking(sessions) ==
  LET sides == [k \in 1 .. 2 * Len(sessions) |->
                  IF k % 2 = 1 THEN sessions[(k + 1) \div 2].src_ip ELSE sessions[k \div 2].dst_ip]
      place == Inserted(sides)
      bytes == [ip \in DOMAIN place |->
                  Total(sessions, LAMBDA s : (IF s.src_ip = ip THEN s.bytes_sent ELSE 0)
                                             + (IF s.dst_ip = ip THEN s.bytes_recv ELSE 0))]
  IN Restrict(bytes, Largest(DOMAIN place, bytes, place, MaxRows))

(* What the session explorer calls the number of addresses. *)
UniqueIps(sessions) == Cardinality(DOMAIN IpRanking(sessions))

(* A pair is directed: a session opened the other way is of another one. *)
Conversations(sessions) ==
  LET place == Inserted([k \in DOMAIN sessions |-> <<sessions[k].src_ip, sessions[k].dst_ip>>])
      Of(p) == RestrictValues(sessions, LAMBDA s : <<s.src_ip, s.dst_ip>> = p)
      bytes == [p \in DOMAIN place |-> Total(Of(p), Bytes)]
  IN [p \in Largest(DOMAIN place, bytes, place, MaxRows) |->
        [packets |-> Total(Of(p), LAMBDA s : s.packet_count), bytes |-> bytes[p]]]

Matched(sessions, ip) == {i \in DOMAIN sessions : ip \in {sessions[i].src_ip, sessions[i].dst_ip}}

(* The answer that lists some of the sessions matched. *)
Answer(sessions, ip, count, listed) ==
  [ip |-> ip, session_count |-> count, sessions |-> Restrict(sessions, listed),
   truncated |-> count > MaxDrill]

(* Drilldown, had the list been cut before it was put in order. *)
DrilldownCutFirst(sessions, ip) ==
  LET matched == Matched(sessions, ip)
      place   == [i \in DOMAIN sessions |-> i]
  IN Answer(sessions, ip, Cardinality(matched), FirstOf(matched, place, MaxDrill))

Drilldown(sessions, ip) ==
  LET matched == Matched(sessions, ip)
      bytes   == [i \in DOMAIN sessions |-> Bytes(sessions[i])]
      place   == [i \in DOMAIN sessions |-> i]
  IN Answer(sessions, ip, Cardinality(matched), Largest(matched, bytes, place, MaxDrill))

(* Behind an address: its sessions, with the host at the other end and the
   port there. *)
IpDrill(answer) ==
  LET row(s) == [session |-> s,
                 peer |-> IF s.src_ip = answer.ip THEN s.dst_ip ELSE s.src_ip,
                 port |-> IF s.src_ip = answer.ip THEN s.dst_port ELSE s.src_port]
  IN [k \in DOMAIN answer.sessions |-> row(answer.sessions[k])]

(* Behind a conversation: the sessions of its first host that are with the
   second, in both directions, each turned the way of the row. *)
ConversationDrill(answer, dst) ==
  LET src == answer.ip
      row(s) == [session |-> s,
                 srcPort |-> IF s.src_ip = src THEN s.src_port ELSE s.dst_port,
                 dstPort |-> IF s.src_ip = src THEN s.dst_port ELSE s.src_port]
      both == RestrictValues(answer.sessions, LAMBDA s : {s.src_ip, s.dst_ip} = {src, dst})
  IN [k \in DOMAIN both |-> row(both[k])]

-----------------------------------------------------------------------------
(* The addresses that attacked come first, whatever network they are of; an
   address is looked up once. *)
GeoEntries(attackers, sessions) ==
  LET place == Inserted(attackers \o [k \in DOMAIN sessions |-> sessions[k].dst_ip])
      asked == DOMAIN place \cap (ToSet(attackers) \cup External)
  IN [ip \in FirstOf(asked, place, MaxEntries) |->
        [country |-> Country[ip], place |-> place[ip],
         role |-> IF ip \in ToSet(attackers) THEN "attacker" ELSE "external"]]

(* The countries with their numbers of addresses, as the map shows them all
   and the table the first ones. *)
Countries(entries) ==
  LET Of(name) == {ip \in DOMAIN entries : entries[ip].country = name}
  IN [name \in {entries[ip].country : ip \in DOMAIN entries} |->
        [count    |-> Cardinality(Of(name)),
         place    |-> Min({entries[ip].place : ip \in Of(name)}),
         attacker |-> \E ip \in Of(name) : entries[ip].role = "attacker"]]

CountryTable(entries) ==
  LET countries == Countries(entries)
      count == [name \in DOMAIN countries |-> countries[name].count]
      place == [name \in DOMAIN countries |-> countries[name].place]
  IN Restrict(countries, Largest(DOMAIN countries, count, place, MaxCountries))

(* The addresses below the table. *)
AttackerChips(entries) == RestrictValues(entries, LAMBDA e : e.role = "attacker")
=============================================================================

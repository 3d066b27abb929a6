---------------------------- MODULE OrderedCache ----------------------------
(***************************************************************************)
(* The OrderedDict kept by SessionStore (backend/store/session_store.py)   *)
(* and what each method does to it while it holds the lock.  A locked      *)
(* section is an operator from the cache to a result: the new cache, the   *)
(* keys it dropped (their on_evict callbacks are fired after the unlock)   *)
(* and whether the method returns or raises KeyError.                      *)
(*                                                                         *)
(* The order of the OrderedDict is a relation: <<j, k>> \in older says     *)
(* that j comes before k, so that popitem(last=False) takes the key that   *)
(* comes before all the others.  Time is the age of an entry, which is     *)
(* time.monotonic() - inserted_at.  The code only compares an age with the *)
(* TTL, so ages stop growing at TTL + 1 and no clock has to be bounded.    *)
(***************************************************************************)
EXTENDS Naturals, FiniteSets

CONSTANTS
  Keys,       (* upload ids                                                *)
  MaxSize,    (* SessionStore.MAX_SIZE                                     *)
  TTL,        (* ttl_seconds                                               *)
  Targets,    (* IP addresses an analysis can be about                     *)
  Attacks,    (* findings an analysis can store                            *)
  NoTarget    (* the empty target_ip of a capture not yet analysed         *)

ASSUME CacheAssumption ==
  /\ MaxSize \in Nat \ {0}
  /\ TTL \in Nat
  /\ NoTarget \notin Targets

Ages == 0 .. TTL + 1

Caches ==
  [ keys    : SUBSET Keys,
    older   : SUBSET (Keys \X Keys),
    age     : [Keys -> Ages],
    target  : [Keys -> Targets \cup {NoTarget}],
    attacks : [Keys -> SUBSET Attacks] ]

Results == [cache : Caches, dropped : SUBSET Keys, reply : {"ok", "KeyError"}]

Empty ==
  [ keys    |-> {},
    older   |-> {},
    age     |-> [k \in Keys |-> 0],
    target  |-> [k \in Keys |-> NoTarget],
    attacks |-> [k \in Keys |-> {}] ]

-----------------------------------------------------------------------------
(* Steps on the dictionary.                                                *)

(* The key popitem(last=False) takes. *)
IsOldest(d, k) == \A j \in d.keys \ {k} : <<k, j>> \in d.older

Without(order, S) == {p \in order : p[1] \notin S /\ p[2] \notin S}

(* The entries of S leave the cache; nothing of them is kept. *)
Delete(d, S) ==
  [ keys    |-> d.keys \ S,
    older   |-> Without(d.older, S),
    age     |-> [k \in Keys |-> IF k \in S THEN 0 ELSE d.age[k]],
    target  |-> [k \in Keys |-> IF k \in S THEN NoTarget ELSE d.target[k]],
    attacks |-> [k \in Keys |-> IF k \in S THEN {} ELSE d.attacks[k]] ]

StaleOrder(d, k) == d.older \cup {<<j, k>> : j \in d.keys \ {k}}
LastInOrder(d, k) ==
  Without(d.older, {k}) \cup {<<j, k>> : j \in d.keys \ {k}}

LeaveInPlace(d, k)    == d
MoveAndRefresh(d, k)  ==
  [d EXCEPT !.older = LastInOrder(d, k), !.age = [d.age EXCEPT ![k] = 0]]
MoveToEnd(d, k)       == [d EXCEPT !.older = LastInOrder(d, k)]

(* store[key] = (value, now): a new ParsedCapture, at the end of the order
   whether or not the key was there. *)
Assign(d, k) ==
  [ keys    |-> d.keys \cup {k},
    older   |-> LastInOrder(d, k),
    age     |-> [d.age EXCEPT ![k] = 0],
    target  |-> [d.target EXCEPT ![k] = NoTarget],
    attacks |-> [d.attacks EXCEPT ![k] = {}] ]

(* Time passes for every entry. *)
Aged(d) ==
  [d EXCEPT !.age =
     [k \in Keys |-> IF k \in d.keys /\ d.age[k] <= TTL THEN d.age[k] + 1
                                                         ELSE d.age[k]]]

-----------------------------------------------------------------------------
(* The locked sections.                                                    *)

ExpiredTooSoon(d, k)   == d.age[k] + 1 >= TTL
Expired(d, k)          == d.age[k] >= TTL     (* get, evict_expired         *)
ExpiredForUpdate(d, k) == d.age[k] > TTL      (* update_analysis            *)

Result(d, dropped, reply) ==
  [cache |-> d, dropped |-> dropped, reply |-> reply]

Kept(d)     == Result(d, {}, "ok")
Absent(d)   == Result(d, {}, "KeyError")
Forget(d, S, reply) == Result(Delete(d, S), S, reply)

(* put: the least recently used entry goes when the cache overflows.       *)
UnboundedPut(d, k) == {Kept(Assign(d, k))}
SilentPut(d, k) ==
  LET e == Assign(d, k) IN
  IF Cardinality(e.keys) <= MaxSize
  THEN {Kept(e)}
  ELSE {Kept(Delete(e, {lru})) : lru \in {x \in e.keys : IsOldest(e, x)}}
PutResults(d, k) ==
  LET e == Assign(d, k) IN
  IF Cardinality(e.keys) <= MaxSize
  THEN {Kept(e)}
  ELSE {Forget(e, {lru}, "ok") : lru \in {x \in e.keys : IsOldest(e, x)}}

ThreeWayGet(d, k) ==
  IF k \notin d.keys THEN Absent(d)
  ELSE IF Expired(d, k) THEN Forget(d, {k}, "expired")
  ELSE Kept(MoveToEnd(d, k))
GetResult(d, k) ==
  IF k \notin d.keys THEN Absent(d)
  ELSE IF Expired(d, k) THEN Forget(d, {k}, "KeyError")
  ELSE Kept(MoveToEnd(d, k))

(* update_analysis: target_ip and attacks are replaced together; neither   *)
(* the position nor the timestamp of the entry changes.                    *)
Analysed(d, k, target, attacks) ==
  [d EXCEPT !.target = [d.target EXCEPT ![k] = target],
            !.attacks = [d.attacks EXCEPT ![k] = attacks]]

ResurrectingUpdate(d, k, target, attacks) ==
  Kept(Analysed(IF k \in d.keys THEN d ELSE Assign(d, k), k, target, attacks))
UpdateResult(d, k, target, attacks) ==
  IF k \notin d.keys THEN Absent(d)
  ELSE IF ExpiredForUpdate(d, k) THEN Forget(d, {k}, "KeyError")
  ELSE Kept(Analysed(d, k, target, attacks))

SweepResult(d) == Forget(d, {k \in d.keys : Expired(d, k)}, "ok")

ClearResult(d) == Forget(d, d.keys, "ok")
=============================================================================

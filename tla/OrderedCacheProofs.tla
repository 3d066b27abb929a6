-------------------------- MODULE OrderedCacheProofs ------------------------
(***************************************************************************)
(* Lemmas about the operators of OrderedCache, for any set of keys (finite *)
(* or not), any capacity of at least one and any TTL.                      *)
(***************************************************************************)
EXTENDS OrderedCache, FiniteSetTheorems, TLAPS

-----------------------------------------------------------------------------
(* The locked sections keep the cache well formed.                         *)

(* Dropping entries keeps the type (session_store.py, _delete_locked). *)
LEMMA DeleteType ==
  ASSUME NEW d \in Caches, NEW S \in SUBSET Keys
  PROVE  Delete(d, S) \in Caches
BY CacheAssumption DEF Caches, Delete, Without, Ages

(* Storing a new capture keeps the type (session_store.py, put). *)
LEMMA AssignType ==
  ASSUME NEW d \in Caches, NEW k \in Keys
  PROVE  Assign(d, k) \in Caches
<1>1. LastInOrder(d, k) \in SUBSET (Keys \X Keys)
  BY DEF Caches, LastInOrder, Without
<1>2. 0 \in Ages
  BY CacheAssumption DEF Ages
<1>. QED
  BY <1>1, <1>2 DEF Caches, Assign

(* Moving an entry to the end keeps the type (session_store.py, get). *)
LEMMA MoveType ==
  ASSUME NEW d \in Caches, NEW k \in Keys
  PROVE  MoveToEnd(d, k) \in Caches
<1>1. LastInOrder(d, k) \in SUBSET (Keys \X Keys)
  BY DEF Caches, LastInOrder, Without
<1>. QED
  BY <1>1 DEF Caches, MoveToEnd

(* The passing of time keeps the type: ages stay at or below TTL + 1. *)
LEMMA AgedType ==
  ASSUME NEW d \in Caches
  PROVE  Aged(d) \in Caches
<1>1. ASSUME NEW k \in Keys, d.age[k] <= TTL
      PROVE  d.age[k] + 1 \in Ages
  BY <1>1, CacheAssumption DEF Caches, Ages
<1>. QED
  BY <1>1 DEF Caches, Aged

(* Every put result is well typed (session_store.py, put). *)
LEMMA PutType ==
  ASSUME NEW d \in Caches, NEW k \in Keys, NEW r \in PutResults(d, k)
  PROVE  r \in Results
<1>. DEFINE e == Assign(d, k)
<1>1. e \in Caches
  BY AssignType
<1>2. CASE Cardinality(e.keys) <= MaxSize
  BY <1>1, <1>2 DEF PutResults, Kept, Result, Results
<1>3. CASE ~(Cardinality(e.keys) <= MaxSize)
  <2>1. PICK lru \in e.keys : r = Forget(e, {lru}, "ok")
    BY <1>3 DEF PutResults
  <2>2. {lru} \in SUBSET Keys
    BY <1>1 DEF Caches
  <2>3. Delete(e, {lru}) \in Caches
    BY <1>1, <2>2, DeleteType
  <2>. QED
    BY <2>1, <2>2, <2>3 DEF Forget, Result, Results
<1>. QED
  BY <1>2, <1>3

(* Every get result is well typed (session_store.py, get). *)
LEMMA GetType ==
  ASSUME NEW d \in Caches, NEW k \in Keys
  PROVE  GetResult(d, k) \in Results
<1>1. Absent(d) \in Results
  BY DEF Absent, Result, Results
<1>2. Forget(d, {k}, "KeyError") \in Results
  BY DeleteType DEF Forget, Result, Results
<1>3. Kept(MoveToEnd(d, k)) \in Results
  BY MoveType DEF Kept, Result, Results
<1>. QED
  BY <1>1, <1>2, <1>3 DEF GetResult

(* Every update_analysis result is well typed. *)
LEMMA UpdateType ==
  ASSUME NEW d \in Caches, NEW k \in Keys, NEW t \in Targets, NEW as \in SUBSET Attacks
  PROVE  UpdateResult(d, k, t, as) \in Results
<1>1. Absent(d) \in Results
  BY DEF Absent, Result, Results
<1>2. Forget(d, {k}, "KeyError") \in Results
  BY DeleteType DEF Forget, Result, Results
<1>3. Analysed(d, k, t, as) \in Caches
  BY DEF Caches, Analysed
<1>4. Kept(Analysed(d, k, t, as)) \in Results
  BY <1>3 DEF Kept, Result, Results
<1>. QED
  BY <1>1, <1>2, <1>4 DEF UpdateResult

(* evict_expired and clear drop only keys of the cache. *)
LEMMA BulkType ==
  ASSUME NEW d \in Caches
  PROVE  SweepResult(d) \in Results /\ ClearResult(d) \in Results
<1>1. ASSUME NEW S \in SUBSET d.keys
      PROVE  Forget(d, S, "ok") \in Results
  <2>1. S \in SUBSET Keys
    BY DEF Caches
  <2>. QED
    BY <2>1, DeleteType DEF Forget, Result, Results
<1>. QED
  BY <1>1 DEF SweepResult, ClearResult

-----------------------------------------------------------------------------
(* What the locked sections drop.                                          *)

(* r comes out of d by dropping entries; what else it does shows neither in
   the captures that are kept nor in their analyses. *)
Shrunk(d, r) ==
  /\ r.dropped \in SUBSET d.keys
  /\ r.cache.keys = d.keys \ r.dropped
  /\ r.cache.target =
       [j \in Keys |-> IF j \in r.dropped THEN NoTarget ELSE d.target[j]]
  /\ r.cache.attacks =
       [j \in Keys |-> IF j \in r.dropped THEN {} ELSE d.attacks[j]]

(* Forgetting entries of the cache shrinks it (_delete_locked). *)
LEMMA ForgetShrinks ==
  ASSUME NEW d \in Caches, NEW S \in SUBSET d.keys, NEW reply
  PROVE  Shrunk(d, Forget(d, S, reply))
BY DEF Shrunk, Forget, Result, Delete, Caches

(* Keeping everything is a way to shrink. *)
LEMMA KeptShrinks ==
  ASSUME NEW d \in Caches, NEW r, r.dropped = {}, r.cache.keys = d.keys,
         r.cache.target = d.target, r.cache.attacks = d.attacks
  PROVE  Shrunk(d, r)
BY DEF Shrunk, Caches

(* get drops at most what it was asked for, and nothing if it succeeds     *)
(* (session_store.py, get).                                                *)
LEMMA GetShrinks ==
  ASSUME NEW d \in Caches, NEW k \in Keys
  PROVE  /\ Shrunk(d, GetResult(d, k))
         /\ GetResult(d, k).reply = "ok" =>
              k \in d.keys /\ GetResult(d, k).dropped = {}
<1>1. CASE k \notin d.keys
  <2>1. GetResult(d, k) = Absent(d)
    BY <1>1 DEF GetResult
  <2>2. Shrunk(d, Absent(d))
    BY KeptShrinks DEF Absent, Result
  <2>. QED
    BY <2>1, <2>2 DEF Absent, Result
<1>2. CASE k \in d.keys /\ Expired(d, k)
  <2>1. GetResult(d, k) = Forget(d, {k}, "KeyError")
    BY <1>2 DEF GetResult
  <2>2. {k} \in SUBSET d.keys
    BY <1>2
  <2>3. Shrunk(d, Forget(d, {k}, "KeyError"))
    BY <2>2, ForgetShrinks
  <2>. QED
    BY <2>1, <2>3 DEF Forget, Result
<1>3. CASE k \in d.keys /\ ~Expired(d, k)
  <2>1. GetResult(d, k) = Kept(MoveToEnd(d, k))
    BY <1>3 DEF GetResult
  <2>2. Shrunk(d, Kept(MoveToEnd(d, k)))
    BY KeptShrinks DEF Kept, Result, MoveToEnd, Caches
  <2>. QED
    BY <1>3, <2>1, <2>2 DEF Kept, Result
<1>. QED
  BY <1>1, <1>2, <1>3

(* put never fails and drops nothing as long as there is room              *)
(* (session_store.py, put).                                                *)
LEMMA PutMakesRoom ==
  ASSUME NEW d, NEW k, NEW r \in PutResults(d, k)
  PROVE  /\ r.reply = "ok"
         /\ r.dropped = {} <=> Cardinality(d.keys \cup {k}) <= MaxSize
<1>1. Assign(d, k).keys = d.keys \cup {k}
  BY DEF Assign
<1>2. CASE Cardinality(d.keys \cup {k}) <= MaxSize
  BY <1>1, <1>2 DEF PutResults, Kept, Result
<1>3. CASE ~(Cardinality(d.keys \cup {k}) <= MaxSize)
  <2>1. PICK lru : r = Forget(Assign(d, k), {lru}, "ok")
    BY <1>1, <1>3 DEF PutResults
  <2>2. r.reply = "ok" /\ r.dropped = {lru}
    BY <2>1 DEF Forget, Result
  <2>. QED
    BY <1>3, <2>2
<1>. QED
  BY <1>2, <1>3

(* put stores the capture blank and drops nothing or, if there is no room, *)
(* one other entry (session_store.py, put).                                *)
LEMMA PutDropsOther ==
  ASSUME NEW d \in Caches, NEW k \in Keys, NEW r \in PutResults(d, k)
  PROVE  /\ r.dropped \in SUBSET (d.keys \ {k})
         /\ \A i, j \in r.dropped : i = j
         /\ r.cache.keys = (d.keys \cup {k}) \ r.dropped
         /\ \A j \in Keys \ {k} :
              /\ r.cache.target[j] = IF j \in r.dropped THEN NoTarget ELSE d.target[j]
              /\ r.cache.attacks[j] = IF j \in r.dropped THEN {} ELSE d.attacks[j]
         /\ r.cache.target[k] = NoTarget /\ r.cache.attacks[k] = {}
<1>. DEFINE e == Assign(d, k)
<1>1. e \in Caches /\ e.keys = d.keys \cup {k}
  BY AssignType DEF Assign
<1>2. /\ e.target = [d.target EXCEPT ![k] = NoTarget]
      /\ e.attacks = [d.attacks EXCEPT ![k] = {}]
  BY DEF Assign
<1>3. CASE Cardinality(e.keys) <= MaxSize
  <2>1. r = Kept(e)
    BY <1>3 DEF PutResults
  <2>2. r.dropped = {} /\ r.cache = e
    BY <2>1 DEF Kept, Result
  <2>. QED
    BY <1>1, <1>2, <2>2 DEF Caches
<1>4. CASE ~(Cardinality(e.keys) <= MaxSize)
  <2>1. PICK lru \in {x \in e.keys : IsOldest(e, x)} : r = Forget(e, {lru}, "ok")
    BY <1>4 DEF PutResults
  <2>2. r.dropped = {lru} /\ r.cache = Delete(e, {lru})
    BY <2>1 DEF Forget, Result
  <2>3. e.keys # {k}
    <3>1. Cardinality({k}) = 1
      BY FS_Singleton
    <3>. QED
      BY <3>1, <1>4, CacheAssumption
  <2>4. lru # k
    <3>1. PICK j \in e.keys : j # k
      BY <2>3, <1>1
    <3>2. <<k, j>> \notin e.older
      BY <3>1 DEF Assign, LastInOrder, Without
    <3>. QED
      BY <2>1, <3>1, <3>2 DEF IsOldest
  <2>5. lru \in d.keys
    BY <1>1, <2>1, <2>4
  <2>6. /\ r.dropped \in SUBSET (d.keys \ {k})
        /\ r.cache.keys = (d.keys \cup {k}) \ r.dropped
    BY <1>1, <2>2, <2>4, <2>5 DEF Delete
  <2>7. ASSUME NEW j \in Keys
        PROVE  /\ r.cache.target[j] = IF j = lru THEN NoTarget ELSE e.target[j]
               /\ r.cache.attacks[j] = IF j = lru THEN {} ELSE e.attacks[j]
    BY <2>2 DEF Delete
  <2>8. ASSUME NEW j \in Keys \ {k}
        PROVE  e.target[j] = d.target[j] /\ e.attacks[j] = d.attacks[j]
    BY <1>2 DEF Caches
  <2>9. e.target[k] = NoTarget /\ e.attacks[k] = {}
    BY <1>2 DEF Caches
  <2>10. \A i, j \in r.dropped : i = j
    BY <2>2
  <2>11. ASSUME NEW j \in Keys \ {k}
         PROVE  /\ r.cache.target[j] = IF j \in r.dropped THEN NoTarget ELSE d.target[j]
                /\ r.cache.attacks[j] = IF j \in r.dropped THEN {} ELSE d.attacks[j]
    BY <2>2, <2>7, <2>8
  <2>12. r.cache.target[k] = NoTarget /\ r.cache.attacks[k] = {}
    BY <2>4, <2>7, <2>9
  <2>. HIDE DEF e
  <2>. QED
    BY <2>6, <2>10, <2>11, <2>12
<1>. QED
  BY <1>3, <1>4
=============================================================================

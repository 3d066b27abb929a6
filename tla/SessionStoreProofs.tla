------------------------- MODULE SessionStoreProofs -------------------------
(***************************************************************************)
(* Theorems about SessionStore, for any set of keys and callers (finite or *)
(* not), any capacity of at least one and any TTL: its type, that it       *)
(* implements CaptureCache, and the guarantees of StoreGuarantees.  For    *)
(* these the inductive invariant is Inv below: the order of the            *)
(* OrderedDict is what the record of calls says (NewerWasUsed) and the     *)
(* timestamps are those of the last put (AgeIsSincePut).                   *)
(***************************************************************************)
EXTENDS StoreGuarantees, OrderedCacheProofs

-----------------------------------------------------------------------------
(* Type correctness.                                                       *)

(* An empty store is well typed (session_store.py, __init__). *)
LEMMA InitTypeOK == Init => TypeOK
<1>1. Empty \in Caches
  BY CacheAssumption DEF Empty, Caches, Ages
<1>. QED
  BY <1>1 DEF Init, TypeOK

(* A locked section with a well typed result keeps the type. *)
LEMMA LockedTypeOK ==
  ASSUME TypeOK, NEW c \in Callers, NEW r \in Results, Locked(c, r)
  PROVE  TypeOK'
BY DEF TypeOK, Results, Locked

(* Every step of the store and its callers keeps the type. *)
LEMMA NextTypeOK == TypeOK /\ [Next]_vars => TypeOK'
<1>. SUFFICES ASSUME TypeOK, [Next]_vars PROVE TypeOK'
  OBVIOUS
<1>. store \in Caches
  BY DEF TypeOK
<1>1. CASE UNCHANGED vars
  BY <1>1 DEF TypeOK, vars
<1>2. ASSUME NEW c \in Callers, NEW k \in Keys, Put(c, k)
      PROVE  TypeOK'
  BY <1>2, PutType, LockedTypeOK DEF Put
<1>3. ASSUME NEW c \in Callers, NEW k \in Keys, Get(c, k)
      PROVE  TypeOK'
  BY <1>3, GetType, LockedTypeOK DEF Get
<1>4. ASSUME NEW c \in Callers, NEW k \in Keys, NEW t \in Targets,
             NEW as \in SUBSET Attacks, UpdateAnalysis(c, k, t, as)
      PROVE  TypeOK'
  BY <1>4, UpdateType, LockedTypeOK DEF UpdateAnalysis
<1>5. ASSUME NEW c \in Callers, EvictExpired(c) \/ Clear(c)
      PROVE  TypeOK'
  BY <1>5, BulkType, LockedTypeOK DEF EvictExpired, Clear
<1>6. ASSUME NEW c \in Callers, NEW k \in Keys, FireEvict(c, k)
      PROVE  TypeOK'
  BY <1>6 DEF TypeOK, FireEvict
<1>7. ASSUME NEW c \in Callers, Return(c)
      PROVE  TypeOK'
  BY <1>7 DEF TypeOK, Return
<1>8. CASE Tick
  BY <1>8, AgedType DEF TypeOK, Tick
<1>. QED
  BY <1>1, <1>2, <1>3, <1>4, <1>5, <1>6, <1>7, <1>8 DEF Next

(* TypeOK is an invariant of the store for every instance of it            *)
(* (session_store.py, all methods).                                        *)
THEOREM TypeCorrect == Spec => []TypeOK
BY InitTypeOK, NextTypeOK, PTL DEF Spec

-----------------------------------------------------------------------------
(* The store implements the abstract cache.                                *)

(* A caller outside the store has no notice left to deliver.               *)
IdleOweNothing == \A c \in Callers : reply[c] = "idle" => owed[c] = {}

(* The abstract cache counts what it holds, so that the captures held have *)
(* to be finitely many, however many keys there are; and a call that drops *)
(* nothing leaves its notices alone, so that there must be none before.    *)
StoreInv == TypeOK /\ IsFiniteSet(store.keys) /\ IdleOweNothing

(* No locked section brings in more than one capture. *)
LEMMA ResultsAddOne ==
  ASSUME TypeOK, NEW k \in Keys
  PROVE  /\ \A r \in PutResults(store, k) : r.cache.keys \subseteq store.keys \cup {k}
         /\ GetResult(store, k).cache.keys \subseteq store.keys
         /\ \A t \in Targets, as \in SUBSET Attacks :
              UpdateResult(store, k, t, as).cache.keys \subseteq store.keys
         /\ SweepResult(store).cache.keys \subseteq store.keys
         /\ ClearResult(store).cache.keys \subseteq store.keys
<1>. store \in Caches
  BY DEF TypeOK
<1>1. \A r \in PutResults(store, k) : r.cache.keys \subseteq store.keys \cup {k}
  BY PutDropsOther
<1>2. GetResult(store, k).cache.keys \subseteq store.keys
  <2>1. Shrunk(store, GetResult(store, k))
    BY GetShrinks
  <2>. QED
    BY <2>1 DEF Shrunk
<1>3. ASSUME NEW t \in Targets, NEW as \in SUBSET Attacks
      PROVE  UpdateResult(store, k, t, as).cache.keys \subseteq store.keys
  BY DEF UpdateResult, Absent, Kept, Forget, Result, Delete, Analysed, Caches
<1>4. /\ SweepResult(store).cache.keys \subseteq store.keys
      /\ ClearResult(store).cache.keys \subseteq store.keys
  BY DEF SweepResult, ClearResult, Forget, Result, Delete
<1>. QED
  BY <1>1, <1>2, <1>3, <1>4

(* A step adds at most one capture to those held. *)
LEMMA StepAddsOne ==
  ASSUME TypeOK, [Next]_vars
  PROVE  store'.keys \subseteq store.keys \/ \E k : store'.keys \subseteq store.keys \cup {k}
<1>1. ASSUME NEW c \in Callers, NEW k \in Keys,
             \/ Put(c, k) \/ Get(c, k)
             \/ \E t \in Targets, as \in SUBSET Attacks : UpdateAnalysis(c, k, t, as)
      PROVE  store'.keys \subseteq store.keys \cup {k}
  BY <1>1, ResultsAddOne DEF Put, Get, UpdateAnalysis, Locked
<1>2. ASSUME NEW c \in Callers, EvictExpired(c) \/ Clear(c)
      PROVE  store'.keys \subseteq store.keys
  BY <1>2 DEF EvictExpired, Clear, Locked, SweepResult, ClearResult, Forget, Result, Delete
<1>3. ASSUME NEW c \in Callers, Return(c) \/ \E k \in Keys : FireEvict(c, k)
      PROVE  store'.keys \subseteq store.keys
  BY <1>3 DEF Return, FireEvict
<1>4. CASE Tick
  <2>1. store'.keys = store.keys
    BY <1>4 DEF Tick, Aged, TypeOK, Caches
  <2>. QED
    BY <2>1
<1>5. CASE UNCHANGED vars
  BY <1>5 DEF vars
<1>. QED
  BY <1>1, <1>2, <1>3, <1>4, <1>5 DEF Next

(* Every method returns only when its notices are delivered. *)
LEMMA NextIdle == TypeOK /\ IdleOweNothing /\ [Next]_vars => IdleOweNothing'
<1>. SUFFICES ASSUME TypeOK, IdleOweNothing, [Next]_vars PROVE IdleOweNothing'
  OBVIOUS
<1>. store \in Caches
  BY DEF TypeOK
<1>1. ASSUME NEW c \in Callers, NEW r \in Results, Locked(c, r)
      PROVE  IdleOweNothing'
  <2>1. r.reply # "idle"
    BY DEF Results
  <2>. QED
    BY <1>1, <2>1 DEF Locked, IdleOweNothing, TypeOK
<1>2. ASSUME NEW c \in Callers, NEW k \in Keys, Put(c, k)
      PROVE  IdleOweNothing'
  BY <1>1, <1>2, PutType DEF Put
<1>3. ASSUME NEW c \in Callers, NEW k \in Keys, Get(c, k)
      PROVE  IdleOweNothing'
  BY <1>1, <1>3, GetType DEF Get
<1>4. ASSUME NEW c \in Callers, NEW k \in Keys, NEW t \in Targets,
             NEW as \in SUBSET Attacks, UpdateAnalysis(c, k, t, as)
      PROVE  IdleOweNothing'
  BY <1>1, <1>4, UpdateType DEF UpdateAnalysis
<1>5. ASSUME NEW c \in Callers, EvictExpired(c) \/ Clear(c)
      PROVE  IdleOweNothing'
  BY <1>1, <1>5, BulkType DEF EvictExpired, Clear
<1>6. ASSUME NEW c \in Callers, NEW k \in Keys, FireEvict(c, k)
      PROVE  IdleOweNothing'
  BY <1>6 DEF FireEvict, IdleOweNothing, TypeOK
<1>7. ASSUME NEW c \in Callers, Return(c)
      PROVE  IdleOweNothing'
  BY <1>7 DEF Return, IdleOweNothing, TypeOK
<1>8. CASE UNCHANGED <<owed, reply>>
  BY <1>8 DEF IdleOweNothing
<1>. QED
  BY <1>2, <1>3, <1>4, <1>5, <1>6, <1>7, <1>8 DEF Next, vars, Tick

(* StoreInv is inductive. *)
LEMMA StoreInvCorrect == Spec => []StoreInv
<1>1. Init => StoreInv
  BY InitTypeOK, FS_EmptySet DEF Init, Empty, StoreInv, IdleOweNothing
<1>2. StoreInv /\ [Next]_vars => StoreInv'
  <2>. SUFFICES ASSUME StoreInv, [Next]_vars PROVE StoreInv'
    OBVIOUS
  <2>1. TypeOK'
    BY NextTypeOK DEF StoreInv
  <2>2. IsFiniteSet(store'.keys)
    <3>1. \A k : IsFiniteSet(store.keys \cup {k})
      BY FS_AddElement DEF StoreInv
    <3>. QED
      BY <3>1, StepAddsOne, FS_Subset DEF StoreInv
  <2>. QED
    BY <2>1, <2>2, NextIdle DEF StoreInv
<1>. QED
  BY <1>1, <1>2, PTL DEF Spec

-----------------------------------------------------------------------------
(* Each step of the store is a step of the abstract cache.                 *)

(* A locked section that only drops entries shows in the abstract cache as *)
(* what it drops and how it ends.                                          *)
LEMMA ShrinkingDrops ==
  ASSUME TypeOK, NEW c \in Callers, NEW r, Locked(c, r), Shrunk(store, r)
  PROVE  /\ store'.keys = store.keys \ r.dropped
         /\ r.dropped \in SUBSET store.keys
         /\ Cache!Drops(c, r.dropped)
         /\ Cache!Ends(c, r.reply)
<1>1. store' = r.cache
  BY DEF Locked
<1>2. ASSUME NEW k \in Keys
      PROVE  /\ store'.target[k] = IF k \in r.dropped THEN NoTarget ELSE store.target[k]
             /\ store'.attacks[k] = IF k \in r.dropped THEN {} ELSE store.attacks[k]
  BY <1>1 DEF Shrunk
<1>3. Cache!Drops(c, r.dropped)
  BY <1>2 DEF Cache!Drops, Cache!NoResult, Locked
<1>4. Cache!Ends(c, r.reply)
  BY DEF Cache!Ends, Locked
<1>. QED
  BY <1>1, <1>3, <1>4 DEF Shrunk

(* One that drops nothing changes nothing, the caller owing nothing.       *)
LEMMA NothingDropped ==
  ASSUME StoreInv, NEW c \in Callers, reply[c] = "idle", Cache!Drops(c, {})
  PROVE  /\ owed' = owed
         /\ \A k \in Keys : /\ store'.target[k] = store.target[k]
                            /\ store'.attacks[k] = store.attacks[k]
<1>1. owed' = owed
  BY DEF Cache!Drops, StoreInv, TypeOK, IdleOweNothing
<1>2. [k \in Keys |-> [target |-> store'.target[k], attacks |-> store'.attacks[k]]]
        = [k \in Keys |-> [target |-> store.target[k], attacks |-> store.attacks[k]]]
  BY DEF Cache!Drops
<1>3. ASSUME NEW k \in Keys
      PROVE  [target |-> store'.target[k], attacks |-> store'.attacks[k]]
               = [target |-> store.target[k], attacks |-> store.attacks[k]]
  BY <1>2
<1>. QED
  BY <1>1, <1>3

(* The abstract cache counts as the store does. *)
LEMMA SameCardinality == \A S : Cache!Cardinality(S) = Cardinality(S)
BY DEF Cache!Cardinality, Cardinality, Cache!IsFiniteSet, IsFiniteSet

(* put is an insertion (session_store.py, put).                            *)
LEMMA PutInserts ==
  ASSUME StoreInv, NEW c \in Callers, NEW k \in Keys, Put(c, k)
  PROVE  Cache!Insert(c, k)
<1>. store \in Caches
  BY DEF StoreInv, TypeOK
<1>1. PICK r \in PutResults(store, k) : Locked(c, r)
  BY DEF Put
<1>2. /\ r.dropped \in SUBSET (store.keys \ {k})
      /\ \A i, j \in r.dropped : i = j
      /\ r.cache.keys = (store.keys \cup {k}) \ r.dropped
      /\ \A j \in Keys \ {k} :
           /\ r.cache.target[j] = IF j \in r.dropped THEN NoTarget ELSE store.target[j]
           /\ r.cache.attacks[j] = IF j \in r.dropped THEN {} ELSE store.attacks[j]
      /\ r.cache.target[k] = NoTarget /\ r.cache.attacks[k] = {}
  BY PutDropsOther
<1>3. r.reply = "ok" /\ (r.dropped = {} <=> Cardinality(store.keys \cup {k}) <= MaxSize)
  BY PutMakesRoom
<1>4. Cache!Ends(c, "ok")
  BY <1>1, <1>3 DEF Cache!Ends, Locked
<1>5. Cache!Cardinality(r.dropped) <= 1
  <2>1. CASE r.dropped = {}
    BY <2>1, FS_EmptySet, SameCardinality
  <2>2. CASE r.dropped # {}
    <3>1. PICK x : r.dropped = {x}
      BY <1>2, <2>2
    <3>2. Cardinality({x}) = 1
      BY FS_Singleton
    <3>3. Cache!Cardinality({x}) = 1
      BY <3>2, SameCardinality
    <3>. QED
      BY <3>1, <3>3
  <2>. QED
    BY <2>1, <2>2
<1>6. r.dropped # {} <=> Cache!Cardinality(store.keys \cup {k}) > MaxSize
  <2>1. Cardinality(store.keys \cup {k}) \in Nat
    BY FS_AddElement, FS_CardinalityType DEF StoreInv
  <2>. QED
    BY <1>3, <2>1, SameCardinality, CacheAssumption
<1>7. store'.keys = (store.keys \cup {k}) \ r.dropped /\ owed' = [owed EXCEPT ![c] = r.dropped]
  BY <1>1, <1>2 DEF Locked
<1>8. ASSUME NEW j \in Keys
      PROVE  [target |-> store'.target[j], attacks |-> store'.attacks[j]]
               = IF j \in r.dropped \cup {k} THEN Cache!NoResult
                 ELSE [target |-> store.target[j], attacks |-> store.attacks[j]]
  <2>1. store'.target[j] = r.cache.target[j] /\ store'.attacks[j] = r.cache.attacks[j]
    BY <1>1 DEF Locked
  <2>. QED
    BY <1>2, <2>1 DEF Cache!NoResult
<1>9. [j \in Keys |-> [target |-> store'.target[j], attacks |-> store'.attacks[j]]]
        = [j \in Keys |-> IF j \in r.dropped \cup {k} THEN Cache!NoResult
             ELSE [i \in Keys |-> [target |-> store.target[i],
                                   attacks |-> store.attacks[i]]][j]]
  BY <1>8
<1>10. PICK out \in SUBSET (store.keys \ {k}) : out = r.dropped
  BY <1>2
<1>. QED
  BY <1>4, <1>5, <1>6, <1>7, <1>9, <1>10 DEF Cache!Insert

(* get finds, misses or finds the entry out of date                        *)
(* (session_store.py, get).                                                *)
LEMMA GetFinds ==
  ASSUME StoreInv, NEW c \in Callers, NEW k \in Keys, Get(c, k)
  PROVE  Cache!Find(c, k) \/ Cache!Miss(c, k) \/ Cache!Lapse(c, k)
<1>. store \in Caches
  BY DEF StoreInv, TypeOK
<1>1. PICK r : r = GetResult(store, k) /\ Locked(c, r) /\ reply[c] = "idle"
  BY DEF Get, Locked
<1>2. Shrunk(store, r)
  BY <1>1, GetShrinks
<1>3. /\ store'.keys = store.keys \ r.dropped
      /\ r.dropped \in SUBSET store.keys
      /\ Cache!Drops(c, r.dropped)
      /\ Cache!Ends(c, r.reply)
  BY <1>1, <1>2, ShrinkingDrops DEF StoreInv
<1>4. CASE k \notin store.keys
  <2>1. r.dropped = {} /\ r.reply = "KeyError"
    BY <1>1, <1>4 DEF GetResult, Absent, Result
  <2>2. store'.keys = store.keys
    BY <1>3, <2>1
  <2>3. /\ owed' = owed
        /\ \A j \in Keys : /\ store'.target[j] = store.target[j]
                           /\ store'.attacks[j] = store.attacks[j]
    BY <1>1, <1>3, <2>1, NothingDropped
  <2>4. Cache!Miss(c, k)
    BY <1>3, <1>4, <2>1, <2>2, <2>3 DEF Cache!Miss
  <2>. QED
    BY <2>4
<1>5. CASE k \in store.keys /\ Expired(store, k)
  <2>1. r.dropped = {k} /\ r.reply = "KeyError"
    BY <1>1, <1>5 DEF GetResult, Forget, Result
  <2>2. Cache!Lapse(c, k)
    BY <1>3, <1>5, <2>1 DEF Cache!Lapse
  <2>. QED
    BY <2>2
<1>6. CASE k \in store.keys /\ ~Expired(store, k)
  <2>1. r.dropped = {} /\ r.reply = "ok"
    BY <1>1, <1>6 DEF GetResult, Kept, Result
  <2>2. store'.keys = store.keys
    BY <1>3, <2>1
  <2>3. /\ owed' = owed
        /\ \A j \in Keys : /\ store'.target[j] = store.target[j]
                           /\ store'.attacks[j] = store.attacks[j]
    BY <1>1, <1>3, <2>1, NothingDropped
  <2>4. Cache!Find(c, k)
    BY <1>3, <1>6, <2>1, <2>2, <2>3 DEF Cache!Find
  <2>. QED
    BY <2>4
<1>. QED
  BY <1>4, <1>5, <1>6

(* update_analysis records the analysis of a capture that is held, misses  *)
(* or finds the entry out of date (session_store.py, update_analysis).     *)
LEMMA UpdateRecords ==
  ASSUME StoreInv, NEW c \in Callers, NEW k \in Keys, NEW t \in Targets,
         NEW as \in SUBSET Attacks, UpdateAnalysis(c, k, t, as)
  PROVE  Cache!Record(c, k, t, as) \/ Cache!Miss(c, k) \/ Cache!Lapse(c, k)
<1>. DEFINE r == UpdateResult(store, k, t, as)
<1>. store \in Caches
  BY DEF StoreInv, TypeOK
<1>1. Locked(c, r) /\ reply[c] = "idle"
  BY DEF UpdateAnalysis, Locked
<1>2. owed[c] = {} /\ owed \in [Callers -> SUBSET Keys]
  BY <1>1 DEF StoreInv, TypeOK, IdleOweNothing
<1>3. CASE k \notin store.keys
  <2>1. r = Absent(store)
    BY <1>3 DEF UpdateResult
  <2>2. store' = store /\ owed' = owed /\ reply' = [reply EXCEPT ![c] = "KeyError"]
    BY <1>1, <1>2, <2>1 DEF Locked, Absent, Result
  <2>3. Cache!Miss(c, k)
    BY <1>1, <1>3, <2>2 DEF Cache!Miss, Cache!Ends
  <2>. QED
    BY <2>3
<1>4. CASE k \in store.keys /\ ExpiredForUpdate(store, k)
  <2>1. r = Forget(store, {k}, "KeyError")
    BY <1>4 DEF UpdateResult
  <2>2. Shrunk(store, r) /\ r.dropped = {k} /\ r.reply = "KeyError"
    <3>1. {k} \in SUBSET store.keys
      BY <1>4
    <3>. QED
      BY <2>1, <3>1, ForgetShrinks DEF Forget, Result
  <2>. HIDE DEF r
  <2>3. /\ store'.keys = store.keys \ {k}
        /\ Cache!Drops(c, {k})
        /\ Cache!Ends(c, "KeyError")
    BY <1>1, <2>2, ShrinkingDrops DEF StoreInv
  <2>4. Cache!Lapse(c, k)
    BY <1>4, <2>3 DEF Cache!Lapse
  <2>. QED
    BY <2>4
<1>5. CASE k \in store.keys /\ ~ExpiredForUpdate(store, k)
  <2>1. r = Kept(Analysed(store, k, t, as))
    BY <1>5 DEF UpdateResult
  <2>2. /\ store' = Analysed(store, k, t, as) /\ owed' = owed
        /\ reply' = [reply EXCEPT ![c] = "ok"]
    BY <1>1, <1>2, <2>1 DEF Locked, Kept, Result
  <2>3. /\ store'.keys = store.keys
        /\ store'.target = [store.target EXCEPT ![k] = t]
        /\ store'.attacks = [store.attacks EXCEPT ![k] = as]
    BY <2>2 DEF Analysed, Caches
  <2>4. \A j \in Keys :
          /\ store'.target[j] = IF j = k THEN t ELSE store.target[j]
          /\ store'.attacks[j] = IF j = k THEN as ELSE store.attacks[j]
    BY <2>3 DEF Caches
  <2>5. Cache!Record(c, k, t, as)
    BY <1>1, <1>5, <2>2, <2>3, <2>4 DEF Cache!Record, Cache!Ends
  <2>. QED
    BY <2>5
<1>. QED
  BY <1>3, <1>4, <1>5

(* evict_expired and clear discard entries (session_store.py).             *)
LEMMA BulkDiscards ==
  ASSUME StoreInv, NEW c \in Callers, EvictExpired(c) \/ Clear(c)
  PROVE  \E S \in SUBSET Keys : Cache!Discard(c, S)
<1>. store \in Caches
  BY DEF StoreInv, TypeOK
<1>1. PICK S \in SUBSET store.keys : Locked(c, Forget(store, S, "ok"))
  BY DEF EvictExpired, Clear, SweepResult, ClearResult
<1>. DEFINE r == Forget(store, S, "ok")
<1>2. Shrunk(store, r) /\ r.dropped = S /\ r.reply = "ok"
  BY ForgetShrinks DEF Forget, Result
<1>3. Locked(c, r)
  BY <1>1
<1>. HIDE DEF r
<1>4. /\ store'.keys = store.keys \ S
      /\ Cache!Drops(c, S)
      /\ Cache!Ends(c, "ok")
  BY <1>2, <1>3, ShrinkingDrops DEF StoreInv
<1>5. Cache!Discard(c, S)
  BY <1>4 DEF Cache!Discard
<1>. QED
  BY <1>5 DEF Caches

(* The notices and the return of a call are those of the abstract cache,   *)
(* and the clock does not show in it.                                      *)
LEMMA OthersMap ==
  ASSUME StoreInv
  PROVE  /\ \A c \in Callers, k \in Keys : FireEvict(c, k) => Cache!Notify(c, k)
         /\ \A c \in Callers : Return(c) => Cache!Return(c)
         /\ Tick \/ UNCHANGED vars => UNCHANGED Cache!vars
<1>1. ASSUME NEW c \in Callers, NEW k \in Keys, FireEvict(c, k)
      PROVE  Cache!Notify(c, k)
  BY <1>1 DEF FireEvict, Cache!Notify
<1>2. ASSUME NEW c \in Callers, Return(c)
      PROVE  Cache!Return(c)
  BY <1>2 DEF Return, Cache!Return
<1>3. ASSUME Tick PROVE UNCHANGED Cache!vars
  <2>1. /\ store'.keys = store.keys /\ store'.target = store.target
        /\ store'.attacks = store.attacks
    BY <1>3 DEF Tick, Aged, StoreInv, TypeOK, Caches
  <2>. QED
    BY <1>3, <2>1 DEF Tick, Cache!vars
<1>4. ASSUME UNCHANGED vars PROVE UNCHANGED Cache!vars
  BY <1>4 DEF vars, Cache!vars
<1>. QED
  BY <1>1, <1>2, <1>3, <1>4

(* The store implements the safety part of the abstract cache, for any     *)
(* number of callers and captures and any TTL: the empty store is an empty *)
(* cache and every locked section, notice, return and tick is a step of it *)
(* or a stutter.  No interleaving loses a notice, delivers it twice or     *)
(* brings back a capture that is gone (session_store.py, all methods).     *)
THEOREM StoreImplementsCache == Spec => Cache!Safety
<1>1. Init => Cache!Init
  BY DEF Init, Empty, Cache!Init, Cache!NoResult
<1>2. StoreInv /\ [Next]_vars => [Cache!Next]_(Cache!vars)
  BY PutInserts, GetFinds, UpdateRecords, BulkDiscards, OthersMap
  DEF Next, Cache!Next
<1>. QED
  BY <1>1, <1>2, StoreInvCorrect, PTL DEF Spec, Cache!Safety

-----------------------------------------------------------------------------
(* The guarantees. *)

(* Captures that come later in the order were used later. *)
NewerWasUsed ==
  \A j, k \in Cached : <<j, k>> \in store.older => k \in usedSince[j]

AgeIsSincePut == \A k \in Cached : store.age[k] = sincePut[k]

UsedIsFinite == \A k \in Keys : IsFiniteSet(usedSince[k])

Core ==
  /\ OrderIsTotal
  /\ WithinCapacity
  /\ NewerWasUsed
  /\ AgeIsSincePut
  /\ UsedIsFinite
  /\ KeptWhileRecent

Inv == HistoryTypeOK /\ Core

(* The captures of S go, all of them expired, and nothing else changes. *)
Lapses(S) ==
  /\ S \in SUBSET Cached
  /\ \A k \in S : store.age[k] >= TTL
  /\ store'.keys = Cached \ S
  /\ store'.older = Without(store.older, S)
  /\ \A k \in store'.keys : store'.age[k] = store.age[k]
  /\ UNCHANGED history

-----------------------------------------------------------------------------
(* The order.                                                              *)

(* What is left of a strict order is a strict order. *)
LEMMA DeleteOrdered ==
  ASSUME NEW d \in Caches, StrictlyOrdered(d), NEW S,
         NEW e, e.keys = d.keys \ S, e.older = Without(d.older, S)
  PROVE  StrictlyOrdered(e)
BY DEF StrictlyOrdered, Without

(* Putting a key last in a strict order gives a strict order. *)
LEMMA AppendOrdered ==
  ASSUME NEW d \in Caches, StrictlyOrdered(d), NEW k,
         NEW e, e.keys = d.keys \cup {k}, e.older = LastInOrder(d, k)
  PROVE  StrictlyOrdered(e)
<1>1. \A i, j \in e.keys :
        <<i, j>> \in e.older <=>
          \/ i # k /\ j # k /\ <<i, j>> \in d.older
          \/ i # k /\ j = k
  BY DEF LastInOrder, Without
<1>2. e.older \subseteq e.keys \X e.keys
  BY DEF StrictlyOrdered, LastInOrder, Without
<1>. QED
  BY <1>1, <1>2 DEF StrictlyOrdered

(* Every step of the specification is a step of the store. *)
LEMMA HistoryStepIsStep == [HistoryNext]_allVars => [Next]_vars
BY DEF HistoryNext, NotePut, NoteGet, NoteClear, NoteOther, NoteTick, Served,
       Next, allVars

-----------------------------------------------------------------------------
(* What each kind of step does to the store.                               *)

(* A get that succeeds only moves the entry to the end, and the entry is   *)
(* younger than the TTL (session_store.py, get).                           *)
LEMMA ServedEffect ==
  ASSUME TypeOK, NEW c \in Callers, NEW k \in Keys, Served(c, k)
  PROVE  /\ k \in Cached
         /\ store.age[k] < TTL
         /\ store'.keys = Cached
         /\ store'.older = LastInOrder(store, k)
         /\ store'.age = store.age
<1>1. GetResult(store, k).reply = "ok"
  BY DEF Served, Get, Locked, TypeOK
<1>2. k \in Cached /\ ~Expired(store, k)
  BY <1>1 DEF GetResult, Absent, Forget, Result, Cached
<1>3. store' = MoveToEnd(store, k)
  BY <1>2 DEF Served, Get, Locked, GetResult, Kept, Result, Cached
<1>4. store.age[k] < TTL
  BY <1>2, CacheAssumption DEF Expired, TypeOK, Caches, Ages
<1>. QED
  BY <1>2, <1>3, <1>4 DEF MoveToEnd, TypeOK, Caches, Cached

(* Deleting expired entries, or none, makes the store lapse. *)
LEMMA LapseEffect ==
  ASSUME TypeOK, NEW S \in SUBSET Cached, \A k \in S : store.age[k] >= TTL,
         store' = Delete(store, S), UNCHANGED history
  PROVE  Lapses(S)
BY DEF Lapses, Delete, TypeOK, Caches, Cached

(* A step that leaves keys, order and ages alone is a lapse of nothing. *)
LEMMA NothingLapses ==
  ASSUME TypeOK, store'.keys = Cached, store'.older = store.older,
         store'.age = store.age, UNCHANGED history
  PROVE  Lapses({})
BY DEF Lapses, Without, TypeOK, Caches, Cached

(* A get that fails drops at most the expired entry it asked for. *)
LEMMA FailedGetLapses ==
  ASSUME TypeOK, NEW c \in Callers, NEW k \in Keys,
         Get(c, k), reply'[c] # "ok", UNCHANGED history
  PROVE  \E S : Lapses(S)
<1>1. store' = GetResult(store, k).cache /\ GetResult(store, k).reply # "ok"
  BY DEF Get, Locked, TypeOK
<1>2. CASE k \notin Cached
  <2>1. store' = store
    BY <1>1, <1>2 DEF GetResult, Absent, Result, Cached
  <2>. QED
    BY <2>1, NothingLapses DEF Cached
<1>3. CASE k \in Cached
  <2>1. Expired(store, k)
    BY <1>1, <1>3 DEF GetResult, Kept, Result, Cached
  <2>2. store' = Delete(store, {k})
    BY <1>1, <1>3, <2>1 DEF GetResult, Forget, Result, Cached
  <2>3. Lapses({k})
    BY <1>3, <2>1, <2>2, LapseEffect DEF Expired
  <2>. QED
    BY <2>3
<1>. QED
  BY <1>2, <1>3

(* An update drops at most the expired entry it was for. *)
LEMMA UpdateLapses ==
  ASSUME TypeOK, NEW c \in Callers, NEW k \in Keys, NEW t \in Targets,
         NEW as \in SUBSET Attacks,
         UpdateAnalysis(c, k, t, as), UNCHANGED history
  PROVE  \E S : Lapses(S)
<1>1. store' = UpdateResult(store, k, t, as).cache
  BY DEF UpdateAnalysis, Locked
<1>2. CASE k \notin Cached
  <2>1. store' = store
    BY <1>1, <1>2 DEF UpdateResult, Absent, Result, Cached
  <2>. QED
    BY <2>1, NothingLapses DEF Cached
<1>3. CASE k \in Cached /\ ExpiredForUpdate(store, k)
  <2>1. store' = Delete(store, {k})
    BY <1>1, <1>3 DEF UpdateResult, Forget, Result, Cached
  <2>2. store.age[k] >= TTL
    BY <1>3, CacheAssumption DEF ExpiredForUpdate, TypeOK, Caches, Ages
  <2>3. Lapses({k})
    BY <1>3, <2>1, <2>2, LapseEffect
  <2>. QED
    BY <2>3
<1>4. CASE k \in Cached /\ ~ExpiredForUpdate(store, k)
  <2>1. store' = Analysed(store, k, t, as)
    BY <1>1, <1>4 DEF UpdateResult, Kept, Result, Cached
  <2>2. store'.keys = Cached /\ store'.older = store.older /\ store'.age = store.age
    BY <2>1 DEF Analysed, TypeOK, Caches, Cached
  <2>. QED
    BY <2>2, NothingLapses
<1>. QED
  BY <1>2, <1>3, <1>4

(* The calls that the record does not follow make the store lapse. *)
LEMMA OtherLapses ==
  ASSUME TypeOK, NEW c \in Callers, NoteOther(c)
  PROVE  \E S : Lapses(S)
<1>0. UNCHANGED history
  BY DEF NoteOther
<1>1. ASSUME NEW k \in Keys, NEW t \in Targets, NEW as \in SUBSET Attacks,
             UpdateAnalysis(c, k, t, as)
      PROVE  \E S : Lapses(S)
  BY <1>0, <1>1, UpdateLapses
<1>2. CASE EvictExpired(c)
  <2>. DEFINE S == {k \in Cached : Expired(store, k)}
  <2>1. store' = Delete(store, S)
    BY <1>2 DEF EvictExpired, Locked, SweepResult, Forget, Result, Cached
  <2>2. Lapses(S)
    BY <1>0, <2>1, LapseEffect DEF Expired
  <2>. QED
    BY <2>2
<1>3. ASSUME store' = store
      PROVE  \E S : Lapses(S)
  BY <1>0, <1>3, NothingLapses DEF Cached
<1>. QED
  BY <1>1, <1>2, <1>3 DEF NoteOther, FireEvict, Return

(* A put stores the capture as the newest one and, when there is no room,  *)
(* drops one older capture that comes before all the others                *)
(* (session_store.py, put).                                                *)
LEMMA PutEffect ==
  ASSUME TypeOK, WithinCapacity, NEW c \in Callers, NEW k \in Keys, Put(c, k)
  PROVE  LET e == Assign(store, k) IN
         /\ e \in Caches
         /\ e.keys = Cached \cup {k}
         /\ e.older = LastInOrder(store, k)
         /\ IsFiniteSet(e.keys)
         /\ \/ store' = e /\ Cardinality(e.keys) <= MaxSize
            \/ \E lru \in Cached \ {k} :
                 /\ IsOldest(e, lru)
                 /\ store' = Delete(e, {lru})
                 /\ k \notin Cached
                 /\ Cardinality(e.keys) = MaxSize + 1
<1>. DEFINE e == Assign(store, k)
<1>1. e \in Caches /\ e.keys = Cached \cup {k} /\ e.older = LastInOrder(store, k)
  BY AssignType DEF Assign, TypeOK, Cached
<1>2. /\ IsFiniteSet(e.keys)
      /\ Cardinality(e.keys) = IF k \in Cached THEN Cardinality(Cached)
                                                ELSE Cardinality(Cached) + 1
  BY <1>1, FS_AddElement DEF WithinCapacity
<1>3. Cardinality(Cached) \in Nat /\ MaxSize \in Nat \ {0}
  BY FS_CardinalityType, CacheAssumption DEF WithinCapacity
<1>4. CASE Cardinality(e.keys) <= MaxSize
  <2>1. store' = e
    BY <1>4 DEF Put, PutResults, Locked, Kept, Result
  <2>. QED
    BY <1>1, <1>2, <1>4, <2>1
<1>5. CASE ~(Cardinality(e.keys) <= MaxSize)
  <2>1. PICK lru \in e.keys : IsOldest(e, lru) /\ store' = Delete(e, {lru})
    <3>1. PICK r \in PutResults(store, k) : store' = r.cache
      BY DEF Put, Locked
    <3>2. PICK lru \in {x \in e.keys : IsOldest(e, x)} : r = Forget(e, {lru}, "ok")
      BY <1>5, <3>1 DEF PutResults
    <3>. QED
      BY <3>1, <3>2 DEF Forget, Result
  <2>2. k \notin Cached /\ Cardinality(e.keys) = MaxSize + 1
    BY <1>2, <1>3, <1>5 DEF WithinCapacity
  <2>3. lru # k
    <3>1. SUFFICES ASSUME lru = k PROVE FALSE
      OBVIOUS
    <3>2. e.keys = {k}
      BY <1>1, <2>1, <3>1 DEF IsOldest, LastInOrder, Without
    <3>3. Cardinality(e.keys) = 1
      BY <3>2, FS_Singleton
    <3>. QED
      BY <1>3, <1>5, <3>3
  <2>. QED
    BY <1>1, <1>2, <2>1, <2>2, <2>3
<1>. QED
  BY <1>1, <1>4, <1>5

-----------------------------------------------------------------------------
(* The invariant is preserved.                                             *)

(* An empty store with an empty record satisfies the invariant.            *)
LEMMA InitInv == HistoryInit => Inv
<1>. SUFFICES ASSUME HistoryInit PROVE Inv
  OBVIOUS
<1>1. TypeOK
  BY InitTypeOK DEF HistoryInit
<1>2. store = Empty /\ Cached = {}
  BY DEF HistoryInit, Init, Empty, Cached
<1>3. HistoryTypeOK
  BY <1>1, CacheAssumption DEF HistoryInit, HistoryTypeOK, Ages
<1>4. OrderIsTotal
  BY <1>2 DEF OrderIsTotal, StrictlyOrdered, Empty
<1>5. WithinCapacity
  BY <1>2, FS_EmptySet, CacheAssumption DEF WithinCapacity
<1>6. UsedIsFinite
  BY FS_EmptySet DEF HistoryInit, UsedIsFinite
<1>7. NewerWasUsed /\ AgeIsSincePut /\ KeptWhileRecent
  BY <1>2 DEF NewerWasUsed, AgeIsSincePut, KeptWhileRecent, HistoryInit
<1>. QED
  BY <1>3, <1>4, <1>5, <1>6, <1>7 DEF Inv, Core

(* The record keeps its type. *)
LEMMA NextHistoryTypeOK == HistoryTypeOK /\ [HistoryNext]_allVars => HistoryTypeOK'
<1>. SUFFICES ASSUME HistoryTypeOK, [HistoryNext]_allVars PROVE HistoryTypeOK'
  OBVIOUS
<1>1. TypeOK'
  BY HistoryStepIsStep, NextTypeOK DEF HistoryTypeOK
<1>2. ASSUME NEW k \in Keys, Use(k)
      PROVE  usedSince' \in [Keys -> SUBSET Keys]
  BY <1>2 DEF Use, HistoryTypeOK
<1>3. usedSince' \in [Keys -> SUBSET Keys]
  BY <1>2 DEF HistoryNext, NotePut, NoteGet, NoteClear, NoteTick, NoteOther,
              HistoryTypeOK, allVars, history
<1>4. promised' \in SUBSET Keys
  BY DEF HistoryNext, NotePut, NoteGet, NoteClear, NoteTick, NoteOther,
         HistoryTypeOK, allVars, history
<1>5. CASE NoteTick
  <2>1. ASSUME NEW k \in Keys, sincePut[k] <= TTL
        PROVE  sincePut[k] + 1 \in Ages
    BY <2>1, CacheAssumption DEF HistoryTypeOK, Ages
  <2>2. sincePut' \in [Keys -> Ages]
    BY <1>5, <2>1 DEF NoteTick, HistoryTypeOK
  <2>. QED
    BY <1>1, <1>3, <1>4, <2>2 DEF HistoryTypeOK
<1>6. CASE ~NoteTick
  <2>1. 0 \in Ages
    BY CacheAssumption DEF Ages
  <2>2. sincePut' \in [Keys -> Ages]
    BY <1>6, <2>1 DEF HistoryNext, NotePut, NoteGet, NoteClear, NoteOther,
                      HistoryTypeOK, allVars, history
  <2>. QED
    BY <1>1, <1>3, <1>4, <2>2 DEF HistoryTypeOK
<1>. QED
  BY <1>5, <1>6

(* Using a capture keeps the sets of the record finite and only enlarges   *)
(* those of the others.                                                    *)
LEMMA UseEffect ==
  ASSUME HistoryTypeOK, UsedIsFinite, NEW k \in Keys, Use(k)
  PROVE  /\ UsedIsFinite'
         /\ usedSince'[k] = {}
         /\ \A j \in Keys \ {k} :
              /\ usedSince'[j] = usedSince[j] \cup {k}
              /\ Cardinality(usedSince[j]) <= Cardinality(usedSince'[j])
<1>1. usedSince'[k] = {}
  BY DEF Use
<1>2. \A j \in Keys \ {k} : usedSince'[j] = usedSince[j] \cup {k}
  BY DEF Use
<1>3. IsFiniteSet(usedSince'[k])
  BY <1>1, FS_EmptySet
<1>4. ASSUME NEW j \in Keys \ {k}
      PROVE  /\ IsFiniteSet(usedSince'[j])
             /\ Cardinality(usedSince[j]) <= Cardinality(usedSince'[j])
  <2>1. IsFiniteSet(usedSince[j])
    BY DEF UsedIsFinite
  <2>2. IsFiniteSet(usedSince'[j])
    BY <1>2, <2>1, FS_AddElement
  <2>3. usedSince[j] \in SUBSET usedSince'[j]
    BY <1>2
  <2>. QED
    BY <2>2, <2>3, FS_Subset
<1>. QED
  BY <1>1, <1>2, <1>3, <1>4 DEF UsedIsFinite

(* Dropping expired captures breaks no promise (get, update_analysis and   *)
(* evict_expired).                                                         *)
LEMMA LapseKeepsCore ==
  ASSUME Inv, NEW S, Lapses(S)
  PROVE  Core'
<1>. USE DEF Inv, Core
<1>1. OrderIsTotal'
  <2>1. store \in Caches
    BY DEF HistoryTypeOK, TypeOK
  <2>. QED
    BY <2>1, DeleteOrdered DEF OrderIsTotal, Lapses, Cached
<1>2. WithinCapacity'
  <2>1. Cached' \in SUBSET Cached
    BY DEF Lapses, Cached
  <2>2. IsFiniteSet(Cached') /\ Cardinality(Cached') <= Cardinality(Cached)
    BY <2>1, FS_Subset DEF WithinCapacity
  <2>3. Cardinality(Cached) \in Nat /\ Cardinality(Cached') \in Nat
    BY <2>2, FS_CardinalityType DEF WithinCapacity
  <2>. QED
    BY <2>2, <2>3, CacheAssumption DEF WithinCapacity, Cached
<1>3. NewerWasUsed'
  BY DEF NewerWasUsed, Lapses, Without, Cached, history
<1>4. AgeIsSincePut'
  BY DEF AgeIsSincePut, Lapses, Cached, history
<1>5. UsedIsFinite'
  BY DEF UsedIsFinite, Lapses, history
<1>6. KeptWhileRecent'
  <2>. SUFFICES ASSUME NEW k \in promised', sincePut'[k] < TTL,
                       Cardinality(usedSince'[k]) < MaxSize
                PROVE  k \in Cached'
    BY DEF KeptWhileRecent
  <2>1. k \in Cached /\ sincePut[k] < TTL
    BY DEF KeptWhileRecent, Lapses, history
  <2>2. store.age[k] = sincePut[k] /\ sincePut[k] \in Nat
    BY <2>1, CacheAssumption DEF AgeIsSincePut, HistoryTypeOK, TypeOK, Caches, Ages, Cached
  <2>3. k \notin S
    BY <2>1, <2>2, CacheAssumption DEF Lapses
  <2>. QED
    BY <2>1, <2>3 DEF Lapses, Cached
<1>. QED
  BY <1>1, <1>2, <1>3, <1>4, <1>5, <1>6

(* A capture that is served moves to the end of the order, where the       *)
(* record says it belongs (get).                                           *)
LEMMA ServedKeepsCore ==
  ASSUME Inv, NEW c \in Callers, NEW k \in Keys,
         Served(c, k), Use(k), UNCHANGED <<sincePut, promised>>
  PROVE  Core'
<1>. USE DEF Inv, Core
<1>0. /\ k \in Cached
      /\ store'.keys = Cached
      /\ store'.older = LastInOrder(store, k)
      /\ store'.age = store.age
  BY ServedEffect DEF HistoryTypeOK
<1>1. OrderIsTotal'
  <2>1. store \in Caches /\ store'.keys = store.keys \cup {k}
    BY <1>0 DEF HistoryTypeOK, TypeOK, Cached
  <2>. QED
    BY <1>0, <2>1, AppendOrdered DEF OrderIsTotal
<1>2. WithinCapacity'
  BY <1>0 DEF WithinCapacity, Cached
<1>3. NewerWasUsed'
  BY <1>0 DEF NewerWasUsed, LastInOrder, Without, Cached, Use, HistoryTypeOK, TypeOK, Caches
<1>4. AgeIsSincePut'
  BY <1>0 DEF AgeIsSincePut, Cached
<1>5. UsedIsFinite'
  BY UseEffect
<1>6. KeptWhileRecent'
  <2>. SUFFICES ASSUME NEW j \in promised', sincePut'[j] < TTL,
                       Cardinality(usedSince'[j]) < MaxSize
                PROVE  j \in Cached'
    BY DEF KeptWhileRecent
  <2>1. CASE j = k
    BY <1>0, <2>1 DEF Cached
  <2>2. CASE j # k
    <3>1. j \in Keys \ {k} /\ j \in promised
      BY <2>2 DEF HistoryTypeOK
    <3>2. Cardinality(usedSince[j]) <= Cardinality(usedSince'[j])
      BY <3>1, UseEffect
    <3>3. /\ Cardinality(usedSince[j]) \in Nat
          /\ Cardinality(usedSince'[j]) \in Nat
      BY <1>5, <3>1, FS_CardinalityType DEF UsedIsFinite
    <3>4. Cardinality(usedSince[j]) < MaxSize
      BY <3>2, <3>3, CacheAssumption
    <3>. QED
      BY <1>0, <3>1, <3>4 DEF KeptWhileRecent, Cached
  <2>. QED
    BY <2>1, <2>2
<1>. QED
  BY <1>1, <1>2, <1>3, <1>4, <1>5, <1>6

(* clear() takes all the promises back with the captures.                  *)
LEMMA ClearKeepsCore ==
  ASSUME Inv, NEW c \in Callers, NoteClear(c)
  PROVE  Core'
<1>. USE DEF Inv, Core
<1>1. store' = Delete(store, Cached) /\ promised' = {} /\ usedSince' = usedSince
  BY DEF NoteClear, Clear, Locked, ClearResult, Forget, Result, Cached
<1>2. Cached' = {}
  BY <1>1 DEF Delete, Cached
<1>3. OrderIsTotal'
  <2>1. store \in Caches
    BY DEF HistoryTypeOK, TypeOK
  <2>2. store'.keys = store.keys \ Cached /\ store'.older = Without(store.older, Cached)
    BY <1>1 DEF Delete
  <2>. QED
    BY <2>1, <2>2, DeleteOrdered DEF OrderIsTotal
<1>4. WithinCapacity'
  BY <1>2, FS_EmptySet, CacheAssumption DEF WithinCapacity
<1>. QED
  BY <1>1, <1>2, <1>3, <1>4 DEF NewerWasUsed, AgeIsSincePut, UsedIsFinite, KeptWhileRecent

(* Time passes for the entries as it does for the record.                  *)
LEMMA TickKeepsCore ==
  ASSUME Inv, NoteTick
  PROVE  Core'
<1>. USE DEF Inv, Core
<1>1. /\ store'.keys = store.keys /\ store'.older = store.older
      /\ UNCHANGED <<usedSince, promised>>
  BY DEF NoteTick, Tick, Aged, HistoryTypeOK, TypeOK, Caches
<1>2. OrderIsTotal' /\ WithinCapacity' /\ NewerWasUsed' /\ UsedIsFinite'
  BY <1>1 DEF OrderIsTotal, StrictlyOrdered, WithinCapacity, NewerWasUsed,
              UsedIsFinite, Cached
<1>3. AgeIsSincePut'
  BY <1>1 DEF AgeIsSincePut, NoteTick, Tick, Aged, Cached, HistoryTypeOK, TypeOK, Caches
<1>4. \A k \in Keys : sincePut[k] <= sincePut'[k]
  BY CacheAssumption DEF NoteTick, HistoryTypeOK, Ages
<1>5. KeptWhileRecent'
  <2>. SUFFICES ASSUME NEW k \in promised', sincePut'[k] < TTL,
                       Cardinality(usedSince'[k]) < MaxSize
                PROVE  k \in Cached'
    BY DEF KeptWhileRecent
  <2>1. k \in promised /\ k \in Keys
    BY <1>1 DEF HistoryTypeOK
  <2>2. sincePut[k] < TTL
    BY <1>4, <2>1, CacheAssumption DEF HistoryTypeOK, Ages, NoteTick
  <2>. QED
    BY <1>1, <2>1, <2>2 DEF KeptWhileRecent, Cached
<1>. QED
  BY <1>2, <1>3, <1>5

(* The heart of the matter: the capture a put pushes out precedes all the  *)
(* MAX_SIZE others, so each of them has been used since it was.            *)
LEMMA PutKeepsCore ==
  ASSUME Inv, NEW c \in Callers, NEW k \in Keys, NotePut(c, k)
  PROVE  Core'
<1>. USE DEF Inv, Core
<1>. DEFINE e == Assign(store, k)
<1>0. /\ e \in Caches
      /\ e.keys = Cached \cup {k}
      /\ e.older = LastInOrder(store, k)
      /\ e.age = [store.age EXCEPT ![k] = 0]
      /\ IsFiniteSet(e.keys)
      /\ \/ store' = e /\ Cardinality(e.keys) <= MaxSize
         \/ \E lru \in Cached \ {k} :
              /\ IsOldest(e, lru)
              /\ store' = Delete(e, {lru})
              /\ Cardinality(e.keys) = MaxSize + 1
  BY PutEffect DEF NotePut, HistoryTypeOK, Assign
<1>1. /\ Use(k)
      /\ sincePut' = [sincePut EXCEPT ![k] = 0]
      /\ promised' = promised \cup {k}
  BY DEF NotePut
<1>2. PICK out \in SUBSET (Cached \ {k}) :
        /\ store'.keys = e.keys \ out
        /\ store'.older = Without(e.older, out)
        /\ \A j \in store'.keys : store'.age[j] = e.age[j]
        /\ Cardinality(store'.keys) <= MaxSize
        /\ out # {} => \E lru : /\ out = {lru}
                               /\ IsOldest(e, lru)
                               /\ Cardinality(e.keys) = MaxSize + 1
  <2>1. CASE store' = e /\ Cardinality(e.keys) <= MaxSize
    <3>1. Without(e.older, {}) = e.older
      BY <1>0 DEF Without, Caches
    <3>. QED
      BY <2>1, <3>1
  <2>2. ASSUME NEW lru \in Cached \ {k}, IsOldest(e, lru),
               store' = Delete(e, {lru}), Cardinality(e.keys) = MaxSize + 1
        PROVE  /\ store'.keys = e.keys \ {lru}
               /\ store'.older = Without(e.older, {lru})
               /\ \A j \in store'.keys : store'.age[j] = e.age[j]
               /\ Cardinality(store'.keys) <= MaxSize
    <3>1. Cardinality(e.keys \ {lru}) = Cardinality(e.keys) - 1
      BY <1>0, FS_RemoveElement
    <3>2. store'.keys = e.keys \ {lru} /\ store'.older = Without(e.older, {lru})
      BY <2>2 DEF Delete
    <3>3. \A j \in store'.keys : store'.age[j] = e.age[j]
      BY <1>0, <2>2, <3>2 DEF Delete, Caches
    <3>4. Cardinality(store'.keys) = Cardinality(e.keys) - 1
      BY <3>1, <3>2
    <3>5. Cardinality(store'.keys) <= MaxSize
      <4>. HIDE DEF e
      <4>. QED
        BY <2>2, <3>4, CacheAssumption
    <3>. QED
      BY <3>2, <3>3, <3>5
  <2>. QED
    BY <1>0, <2>1, <2>2
<1>3. OrderIsTotal'
  <2>1. store \in Caches
    BY DEF HistoryTypeOK, TypeOK
  <2>2. StrictlyOrdered(e)
    BY <1>0, <2>1, AppendOrdered DEF OrderIsTotal, Cached
  <2>. QED
    BY <1>0, <1>2, <2>2, DeleteOrdered DEF OrderIsTotal
<1>4. WithinCapacity'
  <2>1. store'.keys \in SUBSET e.keys
    BY <1>2
  <2>2. IsFiniteSet(store'.keys)
    BY <1>0, <2>1, FS_Subset
  <2>. QED
    BY <1>2, <2>2 DEF WithinCapacity, Cached
<1>5. \A i, j \in e.keys : <<i, j>> \in e.older => j \in usedSince'[i]
  BY <1>0, <1>1 DEF NewerWasUsed, LastInOrder, Without, Use, HistoryTypeOK, TypeOK,
                    Caches, Cached
<1>6. NewerWasUsed'
  BY <1>2, <1>5 DEF NewerWasUsed, Without, Cached
<1>7. AgeIsSincePut'
  BY <1>0, <1>1, <1>2 DEF AgeIsSincePut, HistoryTypeOK, TypeOK, Caches, Cached
<1>8. UsedIsFinite'
  BY <1>1, UseEffect
<1>9. KeptWhileRecent'
  <2>. SUFFICES ASSUME NEW j \in promised', sincePut'[j] < TTL,
                       Cardinality(usedSince'[j]) < MaxSize
                PROVE  j \in Cached'
    BY DEF KeptWhileRecent
  <2>1. CASE j = k
    BY <1>0, <1>2, <2>1 DEF Cached
  <2>2. CASE j # k
    <3>1. j \in Keys \ {k} /\ j \in promised /\ sincePut[j] < TTL
      BY <1>1, <2>2 DEF HistoryTypeOK
    <3>2. Cardinality(usedSince[j]) <= Cardinality(usedSince'[j])
      BY <1>1, <3>1, UseEffect
    <3>3. /\ Cardinality(usedSince[j]) \in Nat
          /\ Cardinality(usedSince'[j]) \in Nat
      BY <1>8, <3>1, FS_CardinalityType DEF UsedIsFinite
    <3>4. j \in Cached
      BY <3>1, <3>2, <3>3, CacheAssumption DEF KeptWhileRecent
    <3>5. j \notin out
      <4>1. SUFFICES ASSUME out = {j}, IsOldest(e, j), Cardinality(e.keys) = MaxSize + 1
                     PROVE  FALSE
        BY <1>2
      <4>2. e.keys \ {j} \in SUBSET usedSince'[j]
        BY <1>0, <1>5, <3>4, <4>1 DEF IsOldest
      <4>3. Cardinality(e.keys \ {j}) = MaxSize
        <5>1. j \in e.keys /\ IsFiniteSet(e.keys)
          BY <1>0, <3>4
        <5>. HIDE DEF e
        <5>2. Cardinality(e.keys \ {j}) = Cardinality(e.keys) - 1
          BY <5>1, FS_RemoveElement
        <5>. QED
          BY <4>1, <5>2, CacheAssumption
      <4>4. MaxSize <= Cardinality(usedSince'[j])
        BY <1>8, <3>1, <4>2, <4>3, FS_Subset DEF UsedIsFinite
      <4>. QED
        BY <3>3, <4>4, CacheAssumption
    <3>. QED
      BY <1>0, <1>2, <3>4, <3>5 DEF Cached
  <2>. QED
    BY <2>1, <2>2
<1>. QED
  BY <1>3, <1>4, <1>6, <1>7, <1>8, <1>9

(* Every call of the store, with its record, keeps the invariant.          *)
LEMMA NextInv == Inv /\ [HistoryNext]_allVars => Inv'
<1>. SUFFICES ASSUME Inv, [HistoryNext]_allVars PROVE Inv'
  OBVIOUS
<1>1. HistoryTypeOK'
  BY NextHistoryTypeOK DEF Inv
<1>2. TypeOK
  BY DEF Inv, HistoryTypeOK
<1>3. ASSUME NEW c \in Callers, NEW k \in Keys, NotePut(c, k)
      PROVE  Core'
  BY <1>3, PutKeepsCore
<1>4. ASSUME NEW c \in Callers, NEW k \in Keys, NoteGet(c, k)
      PROVE  Core'
  <2>1. CASE Served(c, k) /\ Use(k) /\ UNCHANGED <<sincePut, promised>>
    BY <2>1, ServedKeepsCore
  <2>2. CASE Get(c, k) /\ reply'[c] # "ok" /\ UNCHANGED history
    BY <1>2, <2>2, FailedGetLapses, LapseKeepsCore
  <2>. QED
    BY <1>4, <2>1, <2>2 DEF NoteGet
<1>5. ASSUME NEW c \in Callers, NoteClear(c)
      PROVE  Core'
  BY <1>5, ClearKeepsCore
<1>6. ASSUME NEW c \in Callers, NoteOther(c)
      PROVE  Core'
  BY <1>2, <1>6, OtherLapses, LapseKeepsCore
<1>7. ASSUME NoteTick
      PROVE  Core'
  BY <1>7, TickKeepsCore
<1>8. ASSUME UNCHANGED allVars
      PROVE  Core'
  <2>1. Lapses({})
    BY <1>2, <1>8, NothingLapses DEF allVars, vars, Cached
  <2>. QED
    BY <2>1, LapseKeepsCore
<1>. QED
  BY <1>1, <1>3, <1>4, <1>5, <1>6, <1>7, <1>8 DEF HistoryNext, Inv

-----------------------------------------------------------------------------
(* The theorems.                                                           *)

(* The invariant holds throughout.                                         *)
LEMMA InvCorrect == HistorySpec => []Inv
BY InitInv, NextInv, PTL DEF HistorySpec

(* The OrderedDict's order is a strict total order on the captures held    *)
(* (session_store.py, put and get).                                        *)
THEOREM OrderCorrect == HistorySpec => []OrderIsTotal
<1>1. Inv => OrderIsTotal
  BY DEF Inv, Core
<1>. QED
  BY <1>1, InvCorrect, PTL

(* The store never holds more than MAX_SIZE captures (put). *)
THEOREM CapacityCorrect == HistorySpec => []WithinCapacity
<1>1. Inv => WithinCapacity
  BY DEF Inv, Core
<1>. QED
  BY <1>1, InvCorrect, PTL

(* A young capture is pushed out only after MAX_SIZE others were used      *)
(* (put and get).                                                          *)
THEOREM LruCorrect == HistorySpec => []KeptWhileRecent
<1>1. Inv => KeptWhileRecent
  BY DEF Inv, Core
<1>. QED
  BY <1>1, InvCorrect, PTL

(* The TTL counts from the upload, whatever was read since (get). *)
THEOREM TtlCorrect == HistorySpec => ServedWithinTtl
<1>1. Inv /\ [HistoryNext]_allVars =>
        [\A c \in Callers, k \in Keys : Served(c, k) => sincePut[k] < TTL]_allVars
  <2>. SUFFICES ASSUME Inv, NEW c \in Callers, NEW k \in Keys, Served(c, k)
                PROVE  sincePut[k] < TTL
    OBVIOUS
  <2>1. k \in Cached /\ store.age[k] < TTL
    BY ServedEffect DEF Inv, HistoryTypeOK
  <2>. QED
    BY <2>1 DEF Inv, Core, AgeIsSincePut
<1>. QED
  BY <1>1, InvCorrect, PTL DEF HistorySpec, ServedWithinTtl

(* What a step may make disappear.                                         *)
StaysOrGoes(k) ==
  \/ sincePut[k] >= TTL
  \/ promised' = {}
  \/ /\ Cardinality(store'.keys) = MaxSize
     /\ store'.keys \ Cached # {}

LEMMA LapseTakesOnlyExpired ==
  ASSUME Inv, NEW S, Lapses(S), NEW k \in Cached \ store'.keys
  PROVE  StaysOrGoes(k)
<1>1. k \in S /\ store.age[k] >= TTL
  BY DEF Lapses
<1>2. store.age[k] = sincePut[k]
  BY DEF Inv, Core, AgeIsSincePut
<1>. QED
  BY <1>1, <1>2 DEF StaysOrGoes

(* A put that takes an entry away has brought in another, for which there  *)
(* was no room (put).                                                      *)
LEMMA PutTakesOnlyForRoom ==
  ASSUME Inv, NEW c \in Callers, NEW j \in Keys, NotePut(c, j), NEW k \in Cached \ store'.keys
  PROVE  StaysOrGoes(k)
<1>. DEFINE e == Assign(store, j)
<1>1. /\ e.keys = Cached \cup {j} /\ IsFiniteSet(e.keys)
      /\ \/ store' = e
         \/ \E lru \in Cached \ {j} :
              store' = Delete(e, {lru}) /\ j \notin Cached /\ Cardinality(e.keys) = MaxSize + 1
  BY PutEffect DEF Inv, Core, HistoryTypeOK, NotePut
<1>2. store' # e
  BY <1>1
<1>3. PICK lru \in Cached \ {j} :
        store' = Delete(e, {lru}) /\ j \notin Cached /\ Cardinality(e.keys) = MaxSize + 1
  BY <1>1, <1>2
<1>4. store'.keys = e.keys \ {lru}
  BY <1>3 DEF Delete
<1>. HIDE DEF e
<1>5. j \in store'.keys \ Cached
  BY <1>1, <1>3, <1>4
<1>6. Cardinality(e.keys \ {lru}) = Cardinality(e.keys) - 1
  BY <1>1, FS_RemoveElement
<1>7. Cardinality(store'.keys) = MaxSize
  <2>1. Cardinality(store'.keys) = Cardinality(e.keys) - 1
    BY <1>4, <1>6
  <2>. QED
    BY <1>3, <2>1, CacheAssumption
<1>. QED
  BY <1>5, <1>7 DEF StaysOrGoes

(* A capture younger than the TTL goes only with clear() or to make room   *)
(* for a new one, whatever the callers do (session_store.py, put, get,     *)
(* update_analysis, evict_expired).                                        *)
THEOREM StayCorrect == HistorySpec => FreshEntriesStay
<1>1. Inv /\ [HistoryNext]_allVars => [\A k \in Cached \ store'.keys : StaysOrGoes(k)]_allVars
  <2>. SUFFICES ASSUME Inv, HistoryNext, NEW k \in Cached \ store'.keys
                PROVE  StaysOrGoes(k)
    OBVIOUS
  <2>1. TypeOK
    BY DEF Inv, HistoryTypeOK
  <2>2. ASSUME NEW c \in Callers, NEW j \in Keys, NotePut(c, j)
        PROVE  StaysOrGoes(k)
    BY <2>2, PutTakesOnlyForRoom
  <2>3. ASSUME NEW c \in Callers, NEW j \in Keys, NoteGet(c, j)
        PROVE  StaysOrGoes(k)
    <3>1. CASE Served(c, j)
      BY <2>1, <3>1, ServedEffect
    <3>2. CASE Get(c, j) /\ reply'[c] # "ok" /\ UNCHANGED history
      BY <2>1, <3>2, FailedGetLapses, LapseTakesOnlyExpired
    <3>. QED
      BY <2>3, <3>1, <3>2 DEF NoteGet
  <2>4. ASSUME NEW c \in Callers, NoteClear(c)
        PROVE  StaysOrGoes(k)
    BY <2>4 DEF NoteClear, StaysOrGoes
  <2>5. ASSUME NEW c \in Callers, NoteOther(c)
        PROVE  StaysOrGoes(k)
    BY <2>1, <2>5, OtherLapses, LapseTakesOnlyExpired
  <2>6. CASE NoteTick
    BY <2>6 DEF NoteTick, Tick, Aged, Cached
  <2>. QED
    BY <2>2, <2>3, <2>4, <2>5, <2>6 DEF HistoryNext
<1>. QED
  BY <1>1, InvCorrect, PTL DEF HistorySpec, FreshEntriesStay, StaysOrGoes
=============================================================================

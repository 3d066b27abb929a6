-------------------------- MODULE StoreGuarantees ---------------------------
(***************************************************************************)
(* What the SessionStore guarantees, stated against a record of the calls  *)
(* that is kept beside the store and that the store does not read:         *)
(* usedSince[k] holds the other captures put or read since k was last put  *)
(* or read, sincePut[k] the time since k was put, and promised the keys    *)
(* put and not cleared since.                                              *)
(***************************************************************************)
EXTENDS SessionStore

VARIABLES usedSince, sincePut, promised

history == <<usedSince, sincePut, promised>>
allVars == <<vars, history>>

Cached == store.keys

HistoryTypeOK ==
  /\ TypeOK
  /\ usedSince \in [Keys -> SUBSET Keys]
  /\ sincePut \in [Keys -> Ages]
  /\ promised \in SUBSET Keys

HistoryInit ==
  /\ Init
  /\ usedSince = [k \in Keys |-> {}]
  /\ sincePut = [k \in Keys |-> 0]
  /\ promised = {}

Use(k) ==
  usedSince' = [j \in Keys |-> IF j = k THEN {} ELSE usedSince[j] \cup {k}]

NotePut(c, k) ==
  /\ Put(c, k)
  /\ Use(k)
  /\ sincePut' = [sincePut EXCEPT ![k] = 0]
  /\ promised' = promised \cup {k}

Served(c, k) == Get(c, k) /\ reply'[c] = "ok"

NoteGet(c, k) ==
  \/ Served(c, k) /\ Use(k) /\ UNCHANGED <<sincePut, promised>>
  \/ Get(c, k) /\ reply'[c] # "ok" /\ UNCHANGED history

NoteClear(c) ==
  /\ Clear(c)
  /\ promised' = {}
  /\ UNCHANGED <<usedSince, sincePut>>

NoteTick ==
  /\ Tick
  /\ sincePut' = [k \in Keys |-> IF sincePut[k] <= TTL THEN sincePut[k] + 1
                                                       ELSE sincePut[k]]
  /\ UNCHANGED <<usedSince, promised>>

(* The calls that the record does not follow. *)
NoteOther(c) ==
  /\ \/ \E k \in Keys :
          \/ \E t \in Targets, as \in SUBSET Attacks : UpdateAnalysis(c, k, t, as)
          \/ FireEvict(c, k)
     \/ EvictExpired(c)
     \/ Return(c)
  /\ UNCHANGED history

HistoryNext ==
  \/ \E c \in Callers, k \in Keys : NotePut(c, k) \/ NoteGet(c, k)
  \/ \E c \in Callers : NoteClear(c) \/ NoteOther(c)
  \/ NoteTick

HistorySpec == HistoryInit /\ [][HistoryNext]_allVars

-----------------------------------------------------------------------------
StrictlyOrdered(d) ==
  /\ d.older \subseteq d.keys \X d.keys
  /\ \A k \in d.keys : <<k, k>> \notin d.older
  /\ \A j, k \in d.keys :
       j # k => (<<j, k>> \in d.older <=> <<k, j>> \notin d.older)
  /\ \A i, j, k \in d.keys :
       <<i, j>> \in d.older /\ <<j, k>> \in d.older => <<i, k>> \in d.older

(* The order is a strict total order on the captures held and on nothing   *)
(* else, so that popitem(last=False) has exactly one key to take, whatever *)
(* mixture of puts, reads and evictions came before (session_store.py, put *)
(* and get).                                                               *)
OrderIsTotal == StrictlyOrdered(store)

(* No interleaving of the callers leaves more than MAX_SIZE captures in    *)
(* memory once a locked section is over (session_store.py, put).           *)
WithinCapacity == IsFiniteSet(Cached) /\ Cardinality(Cached) <= MaxSize

(* A capture that was put, is younger than the TTL and was not cleared is  *)
(* still there as long as fewer than MAX_SIZE other captures have been put *)
(* or read since it was last put or read: other users' uploads push it out *)
(* only when there are MAX_SIZE of them (session_store.py, put and get).   *)
KeptWhileRecent ==
  \A k \in promised :
    sincePut[k] < TTL /\ Cardinality(usedSince[k]) < MaxSize => k \in Cached

(* The TTL counts from the upload: a capture is never served once TTL has  *)
(* passed since it was put, however often it was read or analysed in       *)
(* between (session_store.py, get).                                        *)
ServedWithinTtl ==
  [][\A c \in Callers, k \in Keys : Served(c, k) => sincePut[k] < TTL]_allVars

(* Only the captures asked for, expired or least recently used go: an      *)
(* entry younger than the TTL is dropped by a put that left no room and by *)
(* clear(), by nothing else (session_store.py, put, get, update_analysis,  *)
(* evict_expired).                                                         *)
FreshEntriesStay ==
  [][\A k \in Cached \ store'.keys :
       \/ sincePut[k] >= TTL
       \/ promised' = {}
       \/ /\ Cardinality(store'.keys) = MaxSize
          /\ store'.keys \ Cached # {}]_allVars

(* update_analysis never writes into a capture that get would refuse as    *)
(* expired.                                                                *)
NoUpdateOfExpired ==
  [][\A k \in Keys :
       /\ k \in Cached \cap store'.keys
       /\ <<store'.target[k], store'.attacks[k]>> # <<store.target[k], store.attacks[k]>>
       => sincePut[k] < TTL \/ sincePut'[k] = 0]_allVars
=============================================================================

---------------------------- MODULE BackendProofs ---------------------------
(***************************************************************************)
(* Theorems about Backend, for any set of captures, detectors and analyze  *)
(* requests (finite or not), any capacity of at least one and any TTL.     *)
(*                                                                         *)
(* The inductive invariant Inv adds to the properties that a capture that  *)
(* is not held has no analysis (BlankUnlessHeld), that only captures which *)
(* were uploaded are held (HeldWereBorn), and what an analyze request      *)
(* knows while some of its detectors are still running (OnTheWay).         *)
(***************************************************************************)
EXTENDS Backend, OrderedCacheProofs

HeldWereBorn == store.keys \subseteq born

BlankUnlessHeld ==
  \A k \in Keys \ store.keys : store.target[k] = NoTarget /\ store.attacks[k] = {}

StoredAreWhole ==
  \A k \in Keys :
    store.target[k] # NoTarget =>
      Lifecycle!Complete(k, store.target[k], store.attacks[k])

StoreInv == HeldWereBorn /\ NoOrphanNotes /\ BlankUnlessHeld /\ StoredAreWhole

(* What detector d is to leave in found. *)
Said(d, k, t, found) ==
  \/ <<d, "ERROR">> \in found /\ <<d, "attack">> \notin found
  \/ <<d, "ERROR">> \notin found /\ (<<d, "attack">> \in found <=> d \in Finds[k][t])

(* What is known of a request q for a host of its capture: the detectors that
   have ended, and no others, have had their say. *)
OnTheWay(q) ==
  /\ q.target \in Hosts[q.key] => \A d \in Detectors \ q.pending : Said(d, q.key, q.target, q.found)
  /\ \A d \in q.pending : <<d, "ERROR">> \notin q.found /\ <<d, "attack">> \notin q.found
  /\ q.pc = "detecting" => q.target \in Hosts[q.key]
  /\ q.pc = "looking" => q.pending = {}

ReqInv == \A r \in Analyses : req[r] # Idle => OnTheWay(req[r])

Inv == TypeOK /\ StoreInv /\ ReqInv

-----------------------------------------------------------------------------
(* The kinds of steps, as the captures see them.                           *)

Leaves(S) ==
  /\ S \in SUBSET store.keys
  /\ store'.keys = store.keys \ S
  /\ store'.target = [j \in Keys |-> IF j \in S THEN NoTarget ELSE store.target[j]]
  /\ store'.attacks = [j \in Keys |-> IF j \in S THEN {} ELSE store.attacks[j]]
  /\ notes' = NotesAfter(S)
  /\ born' = born

Arrives(k, out) ==
  /\ k \notin born
  /\ born' = born \cup {k}
  /\ out \in SUBSET store.keys
  /\ \A i, j \in out : i = j
  /\ store'.keys = (store.keys \cup {k}) \ out
  /\ store'.target = [j \in Keys |-> IF j \in out THEN NoTarget ELSE store.target[j]]
  /\ store'.attacks = [j \in Keys |-> IF j \in out THEN {} ELSE store.attacks[j]]
  /\ notes' = NotesAfter(out)

IsNoted(k) ==
  /\ k \in store.keys
  /\ notes[k] < MaxNotes
  /\ notes' = [notes EXCEPT ![k] = @ + 1]
  /\ store'.keys = store.keys
  /\ store'.target = store.target /\ store'.attacks = store.attacks
  /\ born' = born

IsAnalysed(k, t, found) ==
  /\ k \in store.keys
  /\ t \in Targets
  /\ found \in SUBSET Attacks
  /\ Lifecycle!Complete(k, t, found)
  /\ store'.keys = store.keys
  /\ store'.target = [store.target EXCEPT ![k] = t]
  /\ store'.attacks = [store.attacks EXCEPT ![k] = found]
  /\ notes' = notes
  /\ born' = born

(* A call of the store that only drops entries is a departure. *)
LEMMA CalledLeaves ==
  ASSUME TypeOK, NEW r, Shrunk(store, r), Called(r), born' = born
  PROVE  \E S : Leaves(S)
<1>1. Leaves(r.dropped)
  BY DEF Shrunk, Called, Leaves
<1>. QED
  BY <1>1

(* A step that touches neither the captures nor their notes is a departure *)
(* of nothing.                                                             *)
LEMMA NothingLeaves ==
  ASSUME TypeOK, store'.keys = store.keys, store'.target = store.target,
         store'.attacks = store.attacks, notes' = notes, born' = born
  PROVE  \E S : Leaves(S)
<1>1. Leaves({})
  BY DEF Leaves, NotesAfter, TypeOK, Caches
<1>. QED
  BY <1>1

(* An upload is an arrival (upload.py, upload_file).                       *)
LEMMA UploadArrives ==
  ASSUME Inv, NEW k \in Keys, Upload(k)
  PROVE  \E out : Arrives(k, out)
<1>1. store \in Caches /\ k \notin store.keys
  BY DEF Inv, TypeOK, StoreInv, HeldWereBorn, Upload
<1>2. PICK r \in PutResults(store, k) : Called(r)
  BY DEF Upload
<1>3. r \in Results
  BY <1>1, <1>2, PutType
<1>4. store' = r.cache /\ store' \in Caches
  BY <1>2, <1>3 DEF Called, Results
<1>5. store.target[k] = NoTarget /\ store.attacks[k] = {}
  BY <1>1 DEF Inv, StoreInv, BlankUnlessHeld
<1>6. /\ r.dropped \in SUBSET (store.keys \ {k})
      /\ \A i, j \in r.dropped : i = j
      /\ r.cache.keys = (store.keys \cup {k}) \ r.dropped
      /\ \A j \in Keys \ {k} :
           /\ r.cache.target[j] = IF j \in r.dropped THEN NoTarget ELSE store.target[j]
           /\ r.cache.attacks[j] = IF j \in r.dropped THEN {} ELSE store.attacks[j]
      /\ r.cache.target[k] = NoTarget /\ r.cache.attacks[k] = {}
  BY <1>1, <1>2, PutDropsOther
<1>7. \A j \in Keys :
        /\ r.cache.target[j] = IF j \in r.dropped THEN NoTarget ELSE store.target[j]
        /\ r.cache.attacks[j] = IF j \in r.dropped THEN {} ELSE store.attacks[j]
  BY <1>5, <1>6
<1>8. r.cache.target = [j \in Keys |-> IF j \in r.dropped THEN NoTarget ELSE store.target[j]]
  BY <1>3, <1>7 DEF Results, Caches
<1>9. r.cache.attacks = [j \in Keys |-> IF j \in r.dropped THEN {} ELSE store.attacks[j]]
  BY <1>3, <1>7 DEF Results, Caches
<1>10. Arrives(k, r.dropped)
  BY <1>2, <1>4, <1>6, <1>8, <1>9 DEF Arrives, Called, Upload
<1>. QED
  BY <1>10

(* Both lookups of a comparison together only drop captures (compare.py,   *)
(* compare_captures).                                                      *)
LEMMA CompareLeaves ==
  ASSUME TypeOK, NEW k \in Keys, NEW j \in Keys, NEW authorised \in BOOLEAN,
         Compare(k, j, authorised)
  PROVE  \E S : Leaves(S)
<1>. DEFINE first  == GetResult(store, k)
            second == GetResult(first.cache, j)
<1>1. store \in Caches
  BY DEF TypeOK
<1>2. Shrunk(store, first) /\ (first.reply = "ok" => first.dropped = {})
  BY <1>1, GetShrinks
<1>3. CASE ~(first.reply = "ok" /\ authorised)
  BY <1>2, <1>3, CalledLeaves DEF Compare
<1>4. CASE first.reply = "ok" /\ authorised
  <2>1. first.cache \in Caches
    BY <1>1, GetType DEF Results
  <2>2. /\ first.cache.keys = store.keys
        /\ first.cache.target = store.target
        /\ first.cache.attacks = store.attacks
    BY <1>1, <1>2, <1>4 DEF Shrunk, Caches
  <2>3. Shrunk(first.cache, second)
    BY <2>1, GetShrinks
  <2>4. Shrunk(store, second)
    BY <2>2, <2>3 DEF Shrunk
  <2>5. Called(second) /\ born' = born
    BY <1>4 DEF Compare
  <2>. QED
    BY <2>4, <2>5, CalledLeaves
<1>. QED
  BY <1>3, <1>4

(* A note is added to a capture that is held, or nothing is (annotations.py, *)
(* create_annotation).                                                       *)
LEMMA AnnotateNotes ==
  ASSUME TypeOK, NEW k \in Keys, NEW authorised \in BOOLEAN, Annotate(k, authorised)
  PROVE  IsNoted(k) \/ \E S : Leaves(S)
<1>. DEFINE r == GetResult(store, k)
<1>1. /\ store \in Caches
      /\ Shrunk(store, r)
      /\ r.reply = "ok" => k \in store.keys /\ r.dropped = {}
  BY GetShrinks DEF TypeOK
<1>2. CASE r.reply = "ok" /\ authorised /\ notes[k] < MaxNotes
  <2>1. /\ store'.keys = store.keys
        /\ store'.target = store.target
        /\ store'.attacks = store.attacks
    BY <1>1, <1>2 DEF Annotate, Shrunk, Caches
  <2>. QED
    BY <1>1, <1>2, <2>1 DEF Annotate, IsNoted
<1>3. CASE ~(r.reply = "ok" /\ authorised /\ notes[k] < MaxNotes)
  BY <1>1, <1>3, CalledLeaves DEF Annotate, Called
<1>. QED
  BY <1>2, <1>3

(* When the last detector has ended, a whole analysis is stored with the   *)
(* capture, if it is still there (analyze.py, update_analysis).            *)
LEMMA StoreAnalysisAnalyses ==
  ASSUME Inv, NEW r \in Analyses, StoreAnalysis(r)
  PROVE  \/ IsAnalysed(req[r].key, req[r].target, req[r].found)
         \/ \E S : Leaves(S)
<1>. DEFINE k == req[r].key
            t == req[r].target
            found == req[r].found
<1>1. req[r] # Idle /\ req[r] \in Running /\ req[r].pending = {}
  BY DEF Inv, TypeOK, StoreAnalysis, Idle
<1>2. k \in Keys /\ t \in Targets /\ found \in SUBSET Attacks /\ store \in Caches
  BY <1>1 DEF Running, Inv, TypeOK
<1>3. OnTheWay(req[r])
  BY <1>1 DEF Inv, ReqInv
<1>4. Lifecycle!Complete(k, t, found)
  <2>1. t \in Hosts[k]
    BY <1>3 DEF OnTheWay, StoreAnalysis
  <2>2. \A d \in Detectors : Said(d, k, t, found)
    BY <1>1, <1>3, <2>1 DEF OnTheWay
  <2>. QED
    BY <1>2, <2>1, <2>2, BackendAssumption DEF Lifecycle!Complete, Said
<1>5. Called(UpdateResult(store, k, t, found)) /\ born' = born
  BY DEF StoreAnalysis
<1>6. CASE k \notin store.keys
  <2>1. UpdateResult(store, k, t, found) = Absent(store)
    BY <1>6 DEF UpdateResult
  <2>2. Shrunk(store, Absent(store))
    BY <1>2, KeptShrinks DEF Absent, Result
  <2>. QED
    BY <1>5, <2>1, <2>2, CalledLeaves DEF Inv
<1>7. CASE k \in store.keys /\ ExpiredForUpdate(store, k)
  <2>1. UpdateResult(store, k, t, found) = Forget(store, {k}, "KeyError")
    BY <1>7 DEF UpdateResult
  <2>2. Shrunk(store, Forget(store, {k}, "KeyError"))
    BY <1>2, <1>7, ForgetShrinks
  <2>. QED
    BY <1>5, <2>1, <2>2, CalledLeaves DEF Inv
<1>8. CASE k \in store.keys /\ ~ExpiredForUpdate(store, k)
  <2>1. UpdateResult(store, k, t, found) = Kept(Analysed(store, k, t, found))
    BY <1>8 DEF UpdateResult
  <2>2. /\ store' = Analysed(store, k, t, found)
        /\ notes' = NotesAfter({})
    BY <1>5, <2>1 DEF Called, Kept, Result
  <2>3. notes' = notes
    BY <2>2 DEF NotesAfter, Inv, TypeOK
  <2>4. /\ store'.keys = store.keys
        /\ store'.target = [store.target EXCEPT ![k] = t]
        /\ store'.attacks = [store.attacks EXCEPT ![k] = found]
    BY <1>2, <2>2 DEF Analysed, Caches
  <2>5. IsAnalysed(k, t, found)
    BY <1>2, <1>4, <1>5, <1>8, <2>3, <2>4 DEF IsAnalysed
  <2>. QED
    BY <2>5
<1>. QED
  BY <1>6, <1>7, <1>8

(* Every step is a departure, an arrival, a note or an analysis.           *)
LEMMA StepKinds ==
  ASSUME Inv, [Next]_vars
  PROVE  \/ \E S : Leaves(S)
         \/ \E k \in Keys : \E out : Arrives(k, out)
         \/ \E k \in Keys : IsNoted(k)
         \/ \E k \in Keys : \E t, found : IsAnalysed(k, t, found)
<1>. TypeOK
  BY DEF Inv
<1>1. CASE UNCHANGED vars
  BY <1>1, NothingLeaves DEF vars
<1>2. ASSUME NEW k \in Keys, Upload(k)
      PROVE  \E out : Arrives(k, out)
  BY <1>2, UploadArrives
<1>3. ASSUME NEW k \in Keys, Read(k)
      PROVE  \E S : Leaves(S)
  BY <1>3, GetShrinks, CalledLeaves DEF Read, TypeOK
<1>4. ASSUME NEW k \in Keys, NEW authorised \in BOOLEAN, Annotate(k, authorised)
      PROVE  IsNoted(k) \/ \E S : Leaves(S)
  BY <1>4, AnnotateNotes
<1>5. ASSUME NEW k \in Keys, NEW j \in Keys, NEW authorised \in BOOLEAN,
             Compare(k, j, authorised)
      PROVE  \E S : Leaves(S)
  BY <1>5, CompareLeaves
<1>6. ASSUME NEW k \in Keys, NEW authorised \in BOOLEAN, NEW r \in Analyses,
             NEW asked \in Targets \cup {NoTarget}, Analyze(r, k, asked, authorised)
      PROVE  \E S : Leaves(S)
  BY <1>6, GetShrinks, CalledLeaves DEF Analyze, TypeOK
<1>7. ASSUME NEW r \in Analyses, NEW d \in Detectors, NEW raised \in BOOLEAN,
             DetectorEnds(r, d, raised)
      PROVE  \E S : Leaves(S)
  BY <1>7, NothingLeaves DEF DetectorEnds
<1>8. ASSUME NEW r \in Analyses, StoreAnalysis(r)
      PROVE  \/ \E k \in Keys : \E t, found : IsAnalysed(k, t, found)
             \/ \E S : Leaves(S)
  <2>1. req[r].key \in Keys
    BY <1>8 DEF TypeOK, StoreAnalysis, Idle, Running
  <2>. QED
    BY <1>8, <2>1, StoreAnalysisAnalyses
<1>9. ASSUME NEW r \in Analyses, LookupAnswers(r) \/ LookupIsGivenUp(r)
      PROVE  \E S : Leaves(S)
  BY <1>9, NothingLeaves DEF LookupAnswers, LookupIsGivenUp, Respond
<1>10. CASE Tick
  BY <1>10, NothingLeaves DEF Tick, Aged
<1>. QED
  BY <1>1, <1>2, <1>3, <1>4, <1>5, <1>6, <1>7, <1>8, <1>9, <1>10 DEF Next

-----------------------------------------------------------------------------
(* Type correctness.                                                       *)

(* The callbacks leave the note counts well typed. *)
LEMMA CalledTypeOK ==
  ASSUME TypeOK, NEW r \in Results, Called(r)
  PROVE  store' \in Caches /\ notes' \in [Keys -> 0 .. MaxNotes]
BY BackendAssumption DEF TypeOK, Results, Called, NotesAfter

(* A started analysis is a well typed request.                             *)
LEMMA StartTypeOK ==
  ASSUME TypeOK, NEW r \in Analyses, NEW k \in Keys,
         NEW asked \in Targets \cup {NoTarget}, Start(r, k, AskedFor(k, asked))
  PROVE  req' \in [Analyses -> Running \cup {Idle}]
<1>1. AskedFor(k, asked) \in Targets
  BY BackendAssumption DEF AskedFor
<1>. DEFINE t == AskedFor(k, asked)
            q == [ pc      |-> IF t \in Hosts[k] THEN "detecting" ELSE "looking",
                   key     |-> k,
                   target  |-> t,
                   pending |-> IF t \in Hosts[k] THEN Detectors ELSE {},
                   found   |-> {} ]
<1>2. q \in Running
  BY <1>1 DEF Running
<1>3. req' = [req EXCEPT ![r] = q]
  BY DEF Start
<1>. QED
  BY <1>2, <1>3 DEF TypeOK

(* A detector's finding is one of the attacks that can be stored.          *)
LEMMA DetectorTypeOK ==
  ASSUME TypeOK, NEW r \in Analyses, NEW d \in Detectors, NEW raised \in BOOLEAN,
         DetectorEnds(r, d, raised)
  PROVE  /\ req[r] \in Running
         /\ Finding(r, d, raised) \in SUBSET Attacks
         /\ req' \in [Analyses -> Running \cup {Idle}]
         /\ req'[r].pc = "detecting"
         /\ req'[r].key = req[r].key /\ req'[r].target = req[r].target
         /\ req'[r].pending = req[r].pending \ {d}
         /\ req'[r].found = req[r].found \cup Finding(r, d, raised)
<1>1. req[r] \in Running /\ req[r].pc = "detecting"
  BY DEF TypeOK, DetectorEnds, Idle
<1>2. Finding(r, d, raised) \in SUBSET Attacks
  BY BackendAssumption DEF Finding
<1>. DEFINE q == Told(req[r], d, Finding(r, d, raised))
<1>3. q \in Running
  BY <1>1, <1>2 DEF Running, Told
<1>4. /\ q.pc = "detecting" /\ q.key = req[r].key /\ q.target = req[r].target
      /\ q.pending = req[r].pending \ {d}
      /\ q.found = req[r].found \cup Finding(r, d, raised)
  BY <1>1 DEF Running, Told
<1>5. req' = [req EXCEPT ![r] = q]
  BY DEF DetectorEnds
<1>. HIDE DEF q
<1>. QED
  BY <1>1, <1>2, <1>3, <1>4, <1>5 DEF TypeOK

(* Every step keeps the types.                                             *)
LEMMA NextTypeOK ==
  ASSUME TypeOK, [Next]_vars
  PROVE  TypeOK'
<1>. store \in Caches
  BY DEF TypeOK
<1>1. CASE UNCHANGED vars
  BY <1>1 DEF TypeOK, vars
<1>2. ASSUME NEW k \in Keys, Upload(k)
      PROVE  TypeOK'
  <2>1. PICK r \in PutResults(store, k) : Called(r)
    BY <1>2 DEF Upload
  <2>2. r \in Results
    BY <2>1, PutType
  <2>. QED
    BY <1>2, <2>1, <2>2, CalledTypeOK DEF Upload, TypeOK
<1>3. ASSUME NEW k \in Keys, Read(k)
      PROVE  TypeOK'
  BY <1>3, GetType, CalledTypeOK DEF Read, TypeOK
<1>4. ASSUME NEW k \in Keys, NEW authorised \in BOOLEAN, Annotate(k, authorised)
      PROVE  TypeOK'
  <2>. DEFINE r == GetResult(store, k)
  <2>1. r \in Results
    BY GetType
  <2>2. store' = r.cache /\ store' \in Caches
    BY <1>4, <2>1 DEF Annotate, Results
  <2>3. NotesAfter(r.dropped) \in [Keys -> 0 .. MaxNotes]
    BY BackendAssumption DEF NotesAfter, TypeOK
  <2>4. notes[k] < MaxNotes => [notes EXCEPT ![k] = @ + 1] \in [Keys -> 0 .. MaxNotes]
    BY BackendAssumption DEF TypeOK
  <2>5. notes' \in [Keys -> 0 .. MaxNotes]
    BY <1>4, <2>3, <2>4 DEF Annotate
  <2>. QED
    BY <1>4, <2>2, <2>5 DEF Annotate, TypeOK
<1>5. ASSUME NEW k \in Keys, NEW j \in Keys, NEW authorised \in BOOLEAN,
             Compare(k, j, authorised)
      PROVE  TypeOK'
  <2>. DEFINE first  == GetResult(store, k)
              second == GetResult(first.cache, j)
  <2>1. first \in Results
    BY GetType
  <2>2. first.cache \in Caches
    BY <2>1 DEF Results
  <2>3. second \in Results
    BY <2>2, GetType
  <2>. QED
    BY <1>5, <2>1, <2>3, CalledTypeOK DEF Compare, TypeOK
<1>6. ASSUME NEW k \in Keys, NEW authorised \in BOOLEAN, NEW r \in Analyses,
             NEW asked \in Targets \cup {NoTarget}, Analyze(r, k, asked, authorised)
      PROVE  TypeOK'
  <2>1. store' \in Caches /\ notes' \in [Keys -> 0 .. MaxNotes]
    BY <1>6, GetType, CalledTypeOK DEF Analyze
  <2>2. req' \in [Analyses -> Running \cup {Idle}]
    BY <1>6, StartTypeOK DEF Analyze, TypeOK
  <2>. QED
    BY <1>6, <2>1, <2>2 DEF Analyze, TypeOK
<1>7. ASSUME NEW r \in Analyses, NEW d \in Detectors, NEW raised \in BOOLEAN,
             DetectorEnds(r, d, raised)
      PROVE  TypeOK'
  BY <1>7, DetectorTypeOK DEF DetectorEnds, TypeOK
<1>8. ASSUME NEW r \in Analyses, StoreAnalysis(r)
      PROVE  TypeOK'
  <2>1. req[r] \in Running
    BY <1>8 DEF TypeOK, StoreAnalysis, Idle
  <2>2. UpdateResult(store, req[r].key, req[r].target, req[r].found) \in Results
    BY <2>1, UpdateType DEF Running
  <2>3. store' \in Caches /\ notes' \in [Keys -> 0 .. MaxNotes]
    BY <1>8, <2>2, CalledTypeOK DEF StoreAnalysis
  <2>4. [req[r] EXCEPT !.pc = "looking"] \in Running
    BY <2>1 DEF Running
  <2>5. req' \in [Analyses -> Running \cup {Idle}]
    BY <1>8, <2>4 DEF StoreAnalysis, TypeOK
  <2>. QED
    BY <1>8, <2>3, <2>5 DEF StoreAnalysis, TypeOK
<1>9. ASSUME NEW r \in Analyses, LookupAnswers(r) \/ LookupIsGivenUp(r)
      PROVE  TypeOK'
  BY <1>9 DEF LookupAnswers, LookupIsGivenUp, Respond, TypeOK
<1>10. CASE Tick
  BY <1>10, AgedType DEF Tick, TypeOK
<1>. QED
  BY <1>1, <1>2, <1>3, <1>4, <1>5, <1>6, <1>7, <1>8, <1>9, <1>10 DEF Next

-----------------------------------------------------------------------------
(* The inductive invariant.                                                *)

(* Every kind of step keeps notes and analyses with their captures.        *)
LEMMA NextStoreInv ==
  ASSUME Inv, [Next]_vars
  PROVE  StoreInv'
<1>. /\ store \in Caches /\ notes \in [Keys -> 0 .. MaxNotes] /\ MaxNotes \in Nat
     /\ NoTarget \notin Targets
  BY CacheAssumption, BackendAssumption DEF Inv, TypeOK
<1>. USE DEF StoreInv, HeldWereBorn, NoOrphanNotes, BlankUnlessHeld, StoredAreWhole,
             Lifecycle!Complete
<1>1. ASSUME NEW S, Leaves(S)
      PROVE  StoreInv'
  BY <1>1 DEF Leaves, NotesAfter, Inv, Caches
<1>2. ASSUME NEW k \in Keys, NEW out, Arrives(k, out)
      PROVE  StoreInv'
  BY <1>2 DEF Arrives, NotesAfter, Inv, Caches
<1>3. ASSUME NEW k \in Keys, IsNoted(k)
      PROVE  StoreInv'
  BY <1>3 DEF IsNoted, Inv
<1>4. ASSUME NEW k \in Keys, NEW t, NEW found, IsAnalysed(k, t, found)
      PROVE  StoreInv'
  BY <1>4 DEF IsAnalysed, Inv, Caches
<1>. QED
  BY <1>1, <1>2, <1>3, <1>4, StepKinds

(* A request that is in its initial or final state after the step, or was  *)
(* not touched by it, is no worse informed than before.                    *)
LEMMA OtherRequests ==
  ASSUME Inv, NEW r \in Analyses, NEW q, req' = [req EXCEPT ![r] = q],
         q # Idle => OnTheWay(q)
  PROVE  ReqInv'
BY DEF Inv, TypeOK, ReqInv

(* A request knows exactly what its detectors that ended have said         *)
(* (analyze.py, _run_one).                                                 *)
LEMMA NextReqInv ==
  ASSUME Inv, [Next]_vars
  PROVE  ReqInv'
<1>1. CASE UNCHANGED req
  BY <1>1 DEF ReqInv, Inv
<1>2. ASSUME NEW r \in Analyses, NEW k \in Keys,
             NEW asked \in Targets \cup {NoTarget}, Start(r, k, AskedFor(k, asked))
      PROVE  ReqInv'
  <2>. DEFINE t == AskedFor(k, asked)
              q == [ pc      |-> IF t \in Hosts[k] THEN "detecting" ELSE "looking",
                     key     |-> k,
                     target  |-> t,
                     pending |-> IF t \in Hosts[k] THEN Detectors ELSE {},
                     found   |-> {} ]
  <2>1. req' = [req EXCEPT ![r] = q]
    BY <1>2 DEF Start
  <2>2. OnTheWay(q)
    BY DEF OnTheWay
  <2>. QED
    BY <2>1, <2>2, OtherRequests
<1>3. ASSUME NEW r \in Analyses, NEW d \in Detectors, NEW raised \in BOOLEAN,
             DetectorEnds(r, d, raised)
      PROVE  ReqInv'
  <2>. DEFINE q == Told(req[r], d, Finding(r, d, raised))
              k == req[r].key
              t == req[r].target
  <2>1. req' = [req EXCEPT ![r] = q]
    BY <1>3 DEF DetectorEnds
  <2>2. q = req'[r]
    BY <2>1 DEF Inv, TypeOK
  <2>3. /\ q.pc = "detecting" /\ q.key = k /\ q.target = t
        /\ q.pending = req[r].pending \ {d}
        /\ q.found = req[r].found \cup Finding(r, d, raised)
    BY <1>3, <2>2, DetectorTypeOK DEF Inv
  <2>4. d \in req[r].pending /\ OnTheWay(req[r]) /\ t \in Hosts[k]
    BY <1>3 DEF DetectorEnds, Inv, ReqInv, OnTheWay, Idle
  <2>5. <<d, "ERROR">> \notin req[r].found /\ <<d, "attack">> \notin req[r].found
    BY <2>4 DEF OnTheWay
  <2>6. Said(d, k, t, q.found)
    BY <2>3, <2>5 DEF Said, Finding
  <2>7. \A e \in Detectors \ {d}, v \in {"ERROR", "attack"} :
          <<e, v>> \in q.found <=> <<e, v>> \in req[r].found
    BY <2>3 DEF Finding
  <2>8. \A e \in Detectors \ q.pending : Said(e, k, t, q.found)
    <3>1. ASSUME NEW e \in Detectors \ q.pending, e # d
          PROVE  Said(e, k, t, q.found)
      <4>1. Said(e, k, t, req[r].found)
        BY <2>3, <2>4, <3>1 DEF OnTheWay
      <4>. QED
        BY <2>7, <3>1, <4>1 DEF Said
    <3>. QED
      BY <2>6, <3>1
  <2>9. \A e \in q.pending : <<e, "ERROR">> \notin q.found /\ <<e, "attack">> \notin q.found
    <3>1. req[r].pending \in SUBSET Detectors
      BY <1>3, DetectorTypeOK DEF Inv, Running
    <3>. QED
      BY <2>3, <2>4, <2>7, <3>1 DEF OnTheWay
  <2>10. OnTheWay(q)
    BY <2>3, <2>4, <2>8, <2>9 DEF OnTheWay
  <2>. QED
    BY <2>1, <2>10, OtherRequests
<1>4. ASSUME NEW r \in Analyses, StoreAnalysis(r)
      PROVE  ReqInv'
  <2>. DEFINE q == [req[r] EXCEPT !.pc = "looking"]
  <2>1. req[r] \in Running /\ req[r].pending = {} /\ OnTheWay(req[r])
    BY <1>4 DEF StoreAnalysis, Inv, TypeOK, ReqInv, Idle
  <2>2. /\ q.pc = "looking" /\ q.key = req[r].key /\ q.target = req[r].target
        /\ q.pending = {} /\ q.found = req[r].found
    BY <2>1 DEF Running
  <2>3. OnTheWay(q)
    BY <2>1, <2>2 DEF OnTheWay
  <2>4. req' = [req EXCEPT ![r] = q]
    BY <1>4 DEF StoreAnalysis
  <2>. QED
    BY <2>3, <2>4, OtherRequests
<1>5. ASSUME NEW r \in Analyses, Respond(r)
      PROVE  ReqInv'
  BY <1>5, OtherRequests DEF Respond
<1>. QED
  BY <1>1, <1>2, <1>3, <1>4, <1>5
  DEF Next, vars, Upload, Read, Annotate, Compare, Analyze, LookupAnswers,
      LookupIsGivenUp, Tick

(* The server starts with no captures and no requests (main.py).           *)
LEMMA InitInv == Init => Inv
<1>. SUFFICES ASSUME Init PROVE Inv
  OBVIOUS
<1>1. Empty \in Caches
  BY CacheAssumption DEF Empty, Caches, Ages
<1>2. TypeOK
  BY <1>1, BackendAssumption DEF Init, TypeOK
<1>3. StoreInv
  BY DEF Init, Empty, StoreInv, HeldWereBorn, NoOrphanNotes, BlankUnlessHeld, StoredAreWhole
<1>4. ReqInv
  BY DEF Init, ReqInv
<1>. QED
  BY <1>2, <1>3, <1>4 DEF Inv

(* Inv holds throughout.                                                   *)
LEMMA InvCorrect == Spec => []Inv
<1>1. Inv /\ [Next]_vars => Inv'
  BY NextTypeOK, NextStoreInv, NextReqInv DEF Inv
<1>. QED
  BY <1>1, InitInv, PTL DEF Spec

-----------------------------------------------------------------------------
(* The theorems.                                                           *)

(* The state of the server is well typed; in particular no capture gets    *)
(* more than _MAX_ANNOTATIONS_PER_UPLOAD notes (annotations.py).           *)
THEOREM TypeCorrect == Spec => []TypeOK
BY InvCorrect, PTL DEF Inv

(* No annotation outlives its capture (main.py, _on_evict).                *)
THEOREM NotesCorrect == Spec => []NoOrphanNotes
BY InvCorrect, PTL DEF Inv, StoreInv

(* Stored analyses and answers are complete and about one host of their    *)
(* capture (analyze.py, analyze).                                          *)
THEOREM AnalysesCorrect == Spec => []AnalysesAreWhole
<1>1. Inv => AnalysesAreWhole
  <2>. SUFFICES ASSUME Inv PROVE AnalysesAreWhole
    OBVIOUS
  <2>1. ASSUME NEW r \in Analyses, req[r].pc = "looking",
               req[r].target \in Hosts[req[r].key]
        PROVE  Lifecycle!Complete(req[r].key, req[r].target, req[r].found)
    <3>1. req[r] \in Running /\ OnTheWay(req[r])
      BY <2>1 DEF Inv, TypeOK, ReqInv, Idle
    <3>2. \A d \in Detectors : Said(d, req[r].key, req[r].target, req[r].found)
      BY <2>1, <3>1 DEF OnTheWay
    <3>. QED
      BY <2>1, <3>1, <3>2, BackendAssumption DEF Lifecycle!Complete, Said, Running
  <2>. QED
    BY <2>1 DEF AnalysesAreWhole, Inv, StoreInv, StoredAreWhole
<1>. QED
  BY <1>1, InvCorrect, PTL

(* A capture that was dropped is never served again, whatever requests are *)
(* still at work on it (upload.py, analyze.py).                            *)
THEOREM GoneCorrect == Spec => GoneForGood
<1>1. Inv /\ [Next]_vars =>
        [\A k \in Keys : k \in born /\ k \notin store.keys => k \notin store'.keys]_vars
  BY StepKinds DEF Leaves, Arrives, IsNoted, IsAnalysed
<1>. QED
  BY <1>1, InvCorrect, PTL DEF Spec, GoneForGood

(* The handlers around the store implement the lifecycle of captures: the  *)
(* initial states map to initial states and every step of a handler is an  *)
(* arrival, a departure, a note, an analysis or nothing                    *)
(* (upload.py, analyze.py, annotations.py, compare.py, main.py).           *)
THEOREM LifecycleCorrect == Spec => ImplementsLifecycle
<1>1. Init => Lifecycle!Init
  BY DEF Init, Empty, Lifecycle!Init, Phase, Lifecycle!NoAnalysis
<1>2. Inv /\ [Next]_vars => [Lifecycle!Next]_(Lifecycle!vars)
  <2>. SUFFICES ASSUME Inv, [Next]_vars
                PROVE  Lifecycle!Next
    OBVIOUS
  <2>. DEFINE ph == [k \in Keys |-> Phase(k)]
              an == [k \in Keys |-> [target |-> store.target[k], attacks |-> store.attacks[k]]]
  <2>1. HeldWereBorn /\ store.keys \subseteq Keys /\ Lifecycle!Live = store.keys
    BY DEF Inv, StoreInv, HeldWereBorn, TypeOK, Caches, Lifecycle!Live, Phase
  <2>2. ASSUME NEW S, Leaves(S)
        PROVE  Lifecycle!Leave(S)
    <3>1. ph' = [k \in Keys |-> IF k \in S THEN "gone" ELSE ph[k]]
      BY <2>1, <2>2 DEF Leaves, Phase, HeldWereBorn
    <3>2. an' = [k \in Keys |-> IF k \in S THEN Lifecycle!NoAnalysis ELSE an[k]]
      BY <2>2 DEF Leaves, Lifecycle!NoAnalysis
    <3>. QED
      BY <2>1, <2>2, <3>1, <3>2 DEF Leaves, Lifecycle!Leave, Lifecycle!Wipe, NotesAfter
  <2>3. ASSUME NEW k \in Keys, NEW out, Arrives(k, out)
        PROVE  Lifecycle!Arrive(k, out)
    <3>1. ph' = [j \in Keys |-> IF j = k THEN "live" ELSE IF j \in out THEN "gone" ELSE ph[j]]
      BY <2>1, <2>3 DEF Arrives, Phase, HeldWereBorn
    <3>2. an' = [j \in Keys |-> IF j \in out THEN Lifecycle!NoAnalysis ELSE an[j]]
      BY <2>3 DEF Arrives, Lifecycle!NoAnalysis
    <3>3. ph[k] = "unknown"
      BY <2>3 DEF Arrives, Phase
    <3>4. Lifecycle!Wipe(out)
      BY <2>3, <3>2 DEF Arrives, Lifecycle!Wipe, NotesAfter
    <3>5. out \subseteq Lifecycle!Live /\ (\A i, j \in out : i = j)
      BY <2>1, <2>3 DEF Arrives
    <3>. QED
      BY <3>1, <3>3, <3>4, <3>5 DEF Lifecycle!Arrive
  <2>4. ASSUME NEW k \in Keys, IsNoted(k)
        PROVE  Lifecycle!Note(k)
    <3>1. ph' = ph /\ an' = an
      BY <2>4 DEF IsNoted, Phase
    <3>. QED
      BY <2>1, <2>4, <3>1 DEF IsNoted, Lifecycle!Note
  <2>5. ASSUME NEW k \in Keys, NEW t, NEW found, IsAnalysed(k, t, found)
        PROVE  Lifecycle!Analyse(k, t, found)
    <3>1. ph' = ph
      BY <2>5 DEF IsAnalysed, Phase
    <3>2. an' = [an EXCEPT ![k] = [target |-> t, attacks |-> found]]
      BY <2>5 DEF IsAnalysed, Inv, TypeOK, Caches
    <3>. QED
      BY <2>1, <2>5, <3>1, <3>2 DEF IsAnalysed, Lifecycle!Analyse
  <2>6. ASSUME NEW S, Leaves(S)
        PROVE  S \in SUBSET Keys
    BY <2>1, <2>6 DEF Leaves
  <2>7. ASSUME NEW k \in Keys, NEW out, Arrives(k, out)
        PROVE  out \in SUBSET Keys
    BY <2>1, <2>7 DEF Arrives
  <2>8. ASSUME NEW k \in Keys, NEW t, NEW found, IsAnalysed(k, t, found)
        PROVE  t \in Hosts[k] /\ found \in SUBSET (Detectors \X {"attack", "ERROR"})
    BY <2>8 DEF IsAnalysed, Lifecycle!Complete
  <2>. QED
    BY <2>2, <2>3, <2>4, <2>5, <2>6, <2>7, <2>8, StepKinds DEF Lifecycle!Next
<1>. QED
  BY <1>1, <1>2, InvCorrect, PTL DEF Spec, ImplementsLifecycle, Lifecycle!Spec
=============================================================================

------------------------------- MODULE Backend ------------------------------
(***************************************************************************)
(* The request handlers of backend/routers around the SessionStore and the *)
(* annotations kept beside it (backend/main.py).  All handlers run on one  *)
(* asyncio event loop, so a handler is atomic between two awaits: a call   *)
(* of the store and the on_evict callbacks it fires are part of one step.  *)
(* Only /api/analyze awaits after it has read the store: it waits for its  *)
(* detectors, stores what they found, and waits for the reputation lookup; *)
(* every other handler may run in between.                                 *)
(***************************************************************************)
EXTENDS OrderedCache

CONSTANTS
  Detectors,     (* _DETECTORS                                             *)
  Hosts,         (* Hosts[k]: addresses that appear in the capture k       *)
  MostFrequent,  (* MostFrequent[k]: the one that appears most often       *)
  Finds,         (* Finds[k][t]: detectors that report host t of k         *)
  MaxNotes,      (* _MAX_ANNOTATIONS_PER_UPLOAD                            *)
  Analyses       (* /api/analyze requests served at the same time          *)

ASSUME BackendAssumption ==
  /\ Attacks = Detectors \X {"attack", "ERROR"}
  /\ Hosts \in [Keys -> SUBSET Targets]
  /\ MostFrequent \in [Keys -> Targets]
  /\ \A k \in Keys : MostFrequent[k] \in Hosts[k]
  /\ Finds \in [Keys -> [Targets -> SUBSET Detectors]]
  /\ MaxNotes \in Nat

VARIABLES
  store,   (* app.state.session_store                                      *)
  notes,   (* notes[k]: annotations kept for k, 0 when k has no list       *)
  born,    (* upload ids handed out so far                                 *)
  req      (* req[r]: how far the analyze request r has come               *)

vars == <<store, notes, born, req>>

Idle == [pc |-> "idle"]

Running ==
  [ pc      : {"detecting", "looking"},
    key     : Keys,
    target  : Targets,
    pending : SUBSET Detectors,
    found   : SUBSET Attacks ]

TypeOK ==
  /\ store \in Caches
  /\ notes \in [Keys -> 0 .. MaxNotes]
  /\ born \in SUBSET Keys
  /\ req \in [Analyses -> Running \cup {Idle}]

Init ==
  /\ store = Empty
  /\ notes = [k \in Keys |-> 0]
  /\ born = {}
  /\ req = [r \in Analyses |-> Idle]

-----------------------------------------------------------------------------
NotesKept(dropped) == notes
(* _on_evict for each key of dropped: its annotations go. *)
NotesAfter(dropped) == [k \in Keys |-> IF k \in dropped THEN 0 ELSE notes[k]]

(* A call of the store ends in result r, and its callbacks have run. *)
Called(r) ==
  /\ store' = r.cache
  /\ notes' = NotesAfter(r.dropped)

-----------------------------------------------------------------------------
(* Handlers that do not await once they have reached the store.            *)

(* POST /api/upload of a file that parses: a fresh uuid4 is put. *)
Upload(k) ==
  /\ k \notin born
  /\ born' = born \cup {k}
  /\ \E r \in PutResults(store, k) : Called(r)
  /\ UNCHANGED req

(* The handlers that only read the capture.  The upload token is compared
   after the store has been asked, so a refused request leaves the same
   traces in the store as one that is served. *)
Read(k) ==
  /\ Called(GetResult(store, k))
  /\ UNCHANGED <<born, req>>

(* POST /api/compare: the second capture is looked up when the first one is
   there and its token is right. *)
Compare(base, current, authorised) ==
  /\ LET first  == GetResult(store, base)
         second == GetResult(first.cache, current)
     IN  IF first.reply = "ok" /\ authorised THEN Called(second) ELSE Called(first)
  /\ UNCHANGED <<born, req>>

(* POST /api/annotations. *)
MisplacedLimit(k, authorised) ==
  /\ LET r == GetResult(store, k) IN
     /\ store' = r.cache
     /\ notes' = IF r.reply = "ok" /\ authorised /\ notes[k] <= MaxNotes
                 THEN [notes EXCEPT ![k] = @ + 1]
                 ELSE NotesAfter(r.dropped)
  /\ UNCHANGED <<born, req>>
Annotate(k, authorised) ==
  /\ LET r == GetResult(store, k) IN
     /\ store' = r.cache
     /\ notes' = IF r.reply = "ok" /\ authorised /\ notes[k] < MaxNotes
                 THEN [notes EXCEPT ![k] = @ + 1]
                 ELSE NotesAfter(r.dropped)
  /\ UNCHANGED <<born, req>>

-----------------------------------------------------------------------------
(* POST /api/analyze.                                                      *)

AskedFor(k, asked) == IF asked = NoTarget THEN MostFrequent[k] ELSE asked

(* The capture is there: the detectors are started on the sessions of the
   target, or none of them is if the capture has no such sessions. *)
Start(r, k, t) ==
  req' = [req EXCEPT ![r] =
    [ pc      |-> IF t \in Hosts[k] THEN "detecting" ELSE "looking",
      key     |-> k,
      target  |-> t,
      pending |-> IF t \in Hosts[k] THEN Detectors ELSE {},
      found   |-> {} ]]

Analyze(r, k, asked, authorised) ==
  /\ req[r] = Idle
  /\ Called(GetResult(store, k))
  /\ IF GetResult(store, k).reply = "ok" /\ authorised
     THEN Start(r, k, AskedFor(k, asked))
     ELSE UNCHANGED req
  /\ UNCHANGED born

(* One detector is done in its worker thread; an exception of it is turned
   into a finding of its own. *)
Finding(r, d, raised) ==
  IF raised THEN {<<d, "ERROR">>}
  ELSE IF d \in Finds[req[r].key][req[r].target] THEN {<<d, "attack">>} ELSE {}

Told(q, d, found) ==
  [q EXCEPT !.pending = q.pending \ {d}, !.found = q.found \cup found]

DetectorEnds(r, d, raised) ==
  /\ req[r].pc = "detecting"
  /\ d \in req[r].pending
  /\ req' = [req EXCEPT ![r] = Told(req[r], d, Finding(r, d, raised))]
  /\ UNCHANGED <<store, notes, born>>

(* All are done: gather returns and the result is stored.  A capture that
   went in the meantime is only logged. *)
StoreTooEarly(r) ==
  /\ req[r].pc = "detecting"
  /\ Called(UpdateResult(store, req[r].key, req[r].target, req[r].found))
  /\ req' = [req EXCEPT ![r].pc = "looking"]
  /\ UNCHANGED born
StoreAnalysis(r) ==
  /\ req[r].pc = "detecting"
  /\ req[r].pending = {}
  /\ Called(UpdateResult(store, req[r].key, req[r].target, req[r].found))
  /\ req' = [req EXCEPT ![r].pc = "looking"]
  /\ UNCHANGED born

Respond(r) ==
  /\ req' = [req EXCEPT ![r] = Idle]
  /\ UNCHANGED <<store, notes, born>>

(* The reputation lookup has answered: a service nobody here controls. *)
LookupAnswers(r) == req[r].pc = "looking" /\ Respond(r)

(* The lookup is given up after two seconds, for a target that is in the
   capture and for one that is not. *)
UnlimitedLookup(r) ==
  /\ req[r].pc = "looking"
  /\ req[r].target \in Hosts[req[r].key]
  /\ Respond(r)
LookupIsGivenUp(r) == req[r].pc = "looking" /\ Respond(r)

-----------------------------------------------------------------------------
Tick ==
  /\ store' = Aged(store)
  /\ UNCHANGED <<notes, born, req>>

Next ==
  \/ \E k \in Keys : Upload(k) \/ Read(k)
  \/ \E k \in Keys, authorised \in BOOLEAN :
       \/ Annotate(k, authorised)
       \/ \E j \in Keys : Compare(k, j, authorised)
       \/ \E r \in Analyses, asked \in Targets \cup {NoTarget} :
            Analyze(r, k, asked, authorised)
  \/ \E r \in Analyses :
       \/ \E d \in Detectors, raised \in BOOLEAN : DetectorEnds(r, d, raised)
       \/ StoreAnalysis(r)
       \/ LookupAnswers(r)
       \/ LookupIsGivenUp(r)
  \/ Tick

(* A detector is a loop over a finite list of sessions, and the lookup has a
   time limit; both end without help from outside.  An answer of the lookup
   does not, and is not fair. *)
Fairness ==
  \A r \in Analyses :
    /\ \A d \in Detectors : WF_vars(\E raised \in BOOLEAN : DetectorEnds(r, d, raised))
    /\ WF_vars(StoreAnalysis(r))
    /\ WF_vars(LookupIsGivenUp(r))

Spec == Init /\ [][Next]_vars /\ Fairness

-----------------------------------------------------------------------------
(* The captures as their users know them. *)
Phase(k) ==
  IF k \notin born THEN "unknown" ELSE IF k \in store.keys THEN "live" ELSE "gone"

Lifecycle == INSTANCE UploadLifecycle WITH
  phase    <- [k \in Keys |-> Phase(k)],
  analysis <- [k \in Keys |-> [target |-> store.target[k], attacks |-> store.attacks[k]]]

(* A capture is live from its upload until it is dropped for good, and its *)
(* notes and analysis share its fate, whatever requests are interleaved    *)
(* with it (main.py _on_evict, upload.py, analyze.py, annotations.py).     *)
ImplementsLifecycle == Lifecycle!Spec

(* No annotation outlives its capture, whichever handler's call of the     *)
(* store dropped it: without that the annotations_store grows with every   *)
(* upload (main.py _on_evict, annotations.py create_annotation).           *)
NoOrphanNotes == \A k \in Keys : notes[k] > 0 => k \in store.keys

(* A capture that was dropped, even while an analysis of it is running, is *)
(* never served again (analyze.py: update_analysis after gather).          *)
GoneForGood ==
  [][\A k \in Keys : k \in born /\ k \notin store.keys => k \notin store'.keys]_vars

(* The analysis kept with a capture, which the panels and the exports show *)
(* later, and the one each request is about to answer are complete and are *)
(* about one host of that capture: results of requests that run at the     *)
(* same time never mix (analyze.py, gather and update_analysis).           *)
AnalysesAreWhole ==
  /\ \A k \in Keys :
       store.target[k] # NoTarget =>
         Lifecycle!Complete(k, store.target[k], store.attacks[k])
  /\ \A r \in Analyses :
       /\ req[r].pc = "looking"
       /\ req[r].target \in Hosts[req[r].key]
       => Lifecycle!Complete(req[r].key, req[r].target, req[r].found)

(* Every analyze request is answered, even when its detectors fail, its    *)
(* capture is dropped meanwhile and the reputation services are silent     *)
(* (analyze.py, _run_one and wait_for).                                    *)
EveryAnalysisAnswered ==
  \A r \in Analyses : req[r].pc # "idle" ~> req[r].pc = "idle"
=============================================================================

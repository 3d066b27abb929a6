---------------------------- MODULE SessionStore ----------------------------
(***************************************************************************)
(* SessionStore as its callers see it: several callers, a lock around each *)
(* method's work on the OrderedDict, and the on_evict callbacks, which the *)
(* method fires one by one after it has released the lock and before it    *)
(* returns.  Other callers run between the unlock and the callbacks.       *)
(***************************************************************************)
EXTENDS OrderedCache

CONSTANT Callers

VARIABLES
  store,    (* the OrderedDict with the captures it holds                  *)
  owed,     (* owed[c]: keys whose on_evict call c has still to make       *)
  reply     (* reply[c]: "idle", or how c's method is going to end         *)

vars == <<store, owed, reply>>

TypeOK ==
  /\ store \in Caches
  /\ owed \in [Callers -> SUBSET Keys]
  /\ reply \in [Callers -> {"idle", "ok", "KeyError"}]

Init ==
  /\ store = Empty
  /\ owed = [c \in Callers |-> {}]
  /\ reply = [c \in Callers |-> "idle"]

(* One locked section of caller c, ending in result r. *)
Locked(c, r) ==
  /\ reply[c] = "idle"
  /\ store' = r.cache
  /\ owed' = [owed EXCEPT ![c] = r.dropped]
  /\ reply' = [reply EXCEPT ![c] = r.reply]

Put(c, k) == \E r \in PutResults(store, k) : Locked(c, r)

Get(c, k) == Locked(c, GetResult(store, k))

UpdateAnalysis(c, k, target, attacks) ==
  Locked(c, UpdateResult(store, k, target, attacks))

EvictExpired(c) == Locked(c, SweepResult(store))

Clear(c) == Locked(c, ClearResult(store))

(* on_evict(k), called by c without the lock. *)
FireEvict(c, k) ==
  /\ k \in owed[c]
  /\ owed' = [owed EXCEPT ![c] = @ \ {k}]
  /\ UNCHANGED <<store, reply>>

Return(c) ==
  /\ reply[c] # "idle"
  /\ owed[c] = {}
  /\ reply' = [reply EXCEPT ![c] = "idle"]
  /\ UNCHANGED <<store, owed>>

Tick ==
  /\ store' = Aged(store)
  /\ UNCHANGED <<owed, reply>>

Next ==
  \/ \E c \in Callers, k \in Keys :
       \/ Put(c, k)
       \/ Get(c, k)
       \/ \E t \in Targets, as \in SUBSET Attacks : UpdateAnalysis(c, k, t, as)
       \/ FireEvict(c, k)
  \/ \E c \in Callers : EvictExpired(c) \/ Clear(c) \/ Return(c)
  \/ Tick

(* A method that has released the lock goes on to its callbacks and to its
   return; nobody has to call the store. *)
Fairness ==
  \A c \in Callers :
    /\ WF_vars(Return(c))
    /\ \A k \in Keys : WF_vars(FireEvict(c, k))

Spec == Init /\ [][Next]_vars /\ Fairness

-----------------------------------------------------------------------------
(* The abstract cache that the store implements: its contents without      *)
(* their order and their age.                                              *)
Cache == INSTANCE CaptureCache WITH
  cached <- store.keys,
  result <- [k \in Keys |-> [target |-> store.target[k], attacks |-> store.attacks[k]]]

(* The store with its order, its timestamps and its lock implements the    *)
(* abstract cache: entries go only with a notice owed, each notice is      *)
(* delivered once and before the call returns, every call returns, and an  *)
(* update never brings back a capture that is gone                         *)
(* (session_store.py, all methods).                                        *)
ImplementsCache == Cache!Spec
=============================================================================

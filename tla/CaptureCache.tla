---------------------------- MODULE CaptureCache ----------------------------
(***************************************************************************)
(* What SessionStore promises to its callers, with no order and no clock:  *)
(* a bounded set of captures.  An entry may go at any call, but never      *)
(* without the call that drops it owing a notice for it, and a call does   *)
(* not return before its notices are delivered.  A new entry pushes out at *)
(* most one other, and only when there is no room.  An analysis is never   *)
(* stored for a capture that is gone.                                      *)
(***************************************************************************)
EXTENDS Naturals, FiniteSets

CONSTANTS Keys, MaxSize, Targets, Attacks, NoTarget, Callers

VARIABLES
  cached,   (* the captures that can be asked for                          *)
  result,   (* what the last analysis stored with each                     *)
  owed, reply

vars == <<cached, result, owed, reply>>

NoResult == [target |-> NoTarget, attacks |-> {}]

Init ==
  /\ cached = {}
  /\ result = [k \in Keys |-> NoResult]
  /\ owed = [c \in Callers |-> {}]
  /\ reply = [c \in Callers |-> "idle"]

Ends(c, how) ==
  /\ reply[c] = "idle"
  /\ reply' = [reply EXCEPT ![c] = how]

Drops(c, S) ==
  /\ owed' = [owed EXCEPT ![c] = S]
  /\ result' = [k \in Keys |-> IF k \in S THEN NoResult ELSE result[k]]

(* k is stored; some other entry goes if there is no room for both. *)
Insert(c, k) ==
  /\ Ends(c, "ok")
  /\ \E out \in SUBSET (cached \ {k}) :
       /\ Cardinality(out) <= 1
       /\ out # {} <=> Cardinality(cached \cup {k}) > MaxSize
       /\ cached' = (cached \cup {k}) \ out
       /\ owed' = [owed EXCEPT ![c] = out]
       /\ result' = [j \in Keys |-> IF j \in out \cup {k} THEN NoResult
                                                          ELSE result[j]]

Find(c, k) ==
  /\ Ends(c, "ok")
  /\ k \in cached
  /\ UNCHANGED <<cached, result, owed>>

Miss(c, k) ==
  /\ Ends(c, "KeyError")
  /\ k \notin cached
  /\ UNCHANGED <<cached, result, owed>>

(* The entry asked for turns out to be out of date. *)
Lapse(c, k) ==
  /\ Ends(c, "KeyError")
  /\ k \in cached
  /\ cached' = cached \ {k}
  /\ Drops(c, {k})

Record(c, k, target, attacks) ==
  /\ Ends(c, "ok")
  /\ k \in cached
  /\ result' = [result EXCEPT ![k] = [target |-> target, attacks |-> attacks]]
  /\ UNCHANGED <<cached, owed>>

Discard(c, S) ==
  /\ Ends(c, "ok")
  /\ S \subseteq cached
  /\ cached' = cached \ S
  /\ Drops(c, S)

Notify(c, k) ==
  /\ k \in owed[c]
  /\ owed' = [owed EXCEPT ![c] = @ \ {k}]
  /\ UNCHANGED <<cached, result, reply>>

Return(c) ==
  /\ reply[c] # "idle"
  /\ owed[c] = {}
  /\ reply' = [reply EXCEPT ![c] = "idle"]
  /\ UNCHANGED <<cached, result, owed>>

Next ==
  \/ \E c \in Callers, k \in Keys :
       \/ Insert(c, k)
       \/ Find(c, k)
       \/ Miss(c, k)
       \/ Lapse(c, k)
       \/ \E t \in Targets, as \in SUBSET Attacks : Record(c, k, t, as)
       \/ Notify(c, k)
  \/ \E c \in Callers : \/ \E S \in SUBSET Keys : Discard(c, S)
                        \/ Return(c)

Fairness ==
  \A c \in Callers :
    /\ WF_vars(Return(c))
    /\ \A k \in Keys : WF_vars(Notify(c, k))

Safety == Init /\ [][Next]_vars

Spec == Safety /\ Fairness
=============================================================================

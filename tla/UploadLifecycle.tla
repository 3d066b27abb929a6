--------------------------- MODULE UploadLifecycle --------------------------
(***************************************************************************)
(* What a user is promised about an uploaded capture, with no cache and no *)
(* requests in flight: it is live from its upload until it is dropped, for *)
(* good; notes and analyses belong to live captures only; and an analysis, *)
(* once there, is only ever replaced by another whole analysis of the same *)
(* capture.                                                                *)
(***************************************************************************)
EXTENDS Naturals

CONSTANTS Keys, Hosts, Detectors, Finds, NoTarget, MaxNotes

VARIABLES phase, notes, analysis

vars == <<phase, notes, analysis>>

Live == {k \in Keys : phase[k] = "live"}

NoAnalysis == [target |-> NoTarget, attacks |-> {}]

(* The complete analyses of capture k: for one of its hosts, every detector
   has its say or is reported as failed, and nothing else is reported. *)
Complete(k, t, found) ==
  /\ t \in Hosts[k]
  /\ found \subseteq Detectors \X {"attack", "ERROR"}
  /\ \A d \in Detectors :
       \/ <<d, "ERROR">> \in found /\ <<d, "attack">> \notin found
       \/ <<d, "ERROR">> \notin found /\ (<<d, "attack">> \in found <=> d \in Finds[k][t])

Init ==
  /\ phase = [k \in Keys |-> "unknown"]
  /\ notes = [k \in Keys |-> 0]
  /\ analysis = [k \in Keys |-> NoAnalysis]

(* What was kept for the captures of S is wiped. *)
Wipe(S) ==
  /\ notes' = [k \in Keys |-> IF k \in S THEN 0 ELSE notes[k]]
  /\ analysis' = [k \in Keys |-> IF k \in S THEN NoAnalysis ELSE analysis[k]]

(* An upload takes the place of at most one other capture. *)
Arrive(k, out) ==
  /\ phase[k] = "unknown"
  /\ out \subseteq Live
  /\ \A i, j \in out : i = j
  /\ phase' = [j \in Keys |-> IF j = k THEN "live"
                              ELSE IF j \in out THEN "gone" ELSE phase[j]]
  /\ Wipe(out)

Leave(S) ==
  /\ S \subseteq Live
  /\ phase' = [k \in Keys |-> IF k \in S THEN "gone" ELSE phase[k]]
  /\ Wipe(S)

Note(k) ==
  /\ k \in Live
  /\ notes[k] < MaxNotes
  /\ notes' = [notes EXCEPT ![k] = @ + 1]
  /\ UNCHANGED <<phase, analysis>>

Analyse(k, t, found) ==
  /\ k \in Live
  /\ Complete(k, t, found)
  /\ analysis' = [analysis EXCEPT ![k] = [target |-> t, attacks |-> found]]
  /\ UNCHANGED <<phase, notes>>

Next ==
  \/ \E k \in Keys, out \in SUBSET Keys : Arrive(k, out)
  \/ \E S \in SUBSET Keys : Leave(S)
  \/ \E k \in Keys : Note(k)
  \/ \E k \in Keys : \E t \in Hosts[k], found \in SUBSET (Detectors \X {"attack", "ERROR"}) :
       Analyse(k, t, found)

Spec == Init /\ [][Next]_vars
=============================================================================

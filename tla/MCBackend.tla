----------------------------- MODULE MCBackend ------------------------------
(* Backend for TLC: capture values where hosts are shared between captures *)
(* and the detectors disagree about them.                                  *)
EXTENDS Backend

CONSTANTS k1, k2, k3, t1, t2, d1, d2

MCAttacks == Detectors \X {"attack", "ERROR"}

MCHosts == [k \in Keys |-> IF k = k1 THEN {t1, t2} ELSE {t2}]

MCMostFrequent == [k \in Keys |-> t2]

MCFinds ==
  [k \in Keys |-> [t \in Targets |->
     (IF t = t1 THEN {d1} ELSE IF k = k1 THEN {d2} ELSE {}) \cap Detectors]]
=============================================================================

------------------------------- MODULE Lookups ------------------------------
(***************************************************************************)
(* The panels that show one answer of the server and take no input         *)
(* (frontend/src/panels/GeoIpPanel.tsx and YaraPanel.tsx).  Both read the  *)
(* body of the answer without looking at its status, so a refusal - the    *)
(* capture expired, say - is taken for data without the fields they want.  *)
(***************************************************************************)
EXTENDS Naturals

VARIABLE lookup       (* the panel, None when it is not on screen          *)

LookupKinds == {"geoip", "yara"}

LookupPanels ==
  [is : LookupKinds, asked : BOOLEAN, got : {"nothing", "data", "refusal", "error"}]

LookupMounted(k) == [is |-> k, asked |-> TRUE, got |-> "nothing"]

LookupAnswered(answer) ==
  /\ lookup.asked
  /\ lookup' = [lookup EXCEPT !.asked = FALSE, !.got = answer]

LookupAnswer == \E a \in {"data", "refusal", "error"} : LookupAnswered(a)

(* What the panel says: without entries the first goes on loading, and the
   second says that YARA is not installed. *)
LookupScreen ==
  CASE lookup.got = "data"    -> "result"
    [] lookup.got = "error"   -> "failed"
    [] lookup.got = "nothing" -> "loading"
    [] lookup.got = "refusal" -> IF lookup.is = "geoip" THEN "loading" ELSE "not_installed"
=============================================================================

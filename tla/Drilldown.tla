------------------------------ MODULE Drilldown -----------------------------
(***************************************************************************)
(* The ranking of addresses and the list of conversations                  *)
(* (frontend/src/panels/Panel6IpRanking.tsx and Panel9Conversations.tsx):  *)
(* a click on a row asks for its sessions and opens them below.  The rows  *)
(* stay in use meanwhile, so answers may arrive in either order, and one   *)
(* that fails leaves what was open before.                                 *)
(***************************************************************************)
EXTENDS Naturals

CONSTANTS
  Subjects,     (* the rows: an address, or a conversation                 *)
  DrillAsks,    (* requests that can be in flight at the same time         *)
  None

VARIABLE drilldown    (* the panel, None when it is not on screen          *)

Drilldowns ==
  [is : {"drilldown"}, drill : Subjects \cup {None}, loading : BOOLEAN,
   asked : [DrillAsks -> Subjects \cup {None}]]

DrilldownMounted ==
  [is |-> "drilldown", drill |-> None, loading |-> FALSE,
   asked |-> [p \in DrillAsks |-> None]]

Drilling == {p \in DrillAsks : drilldown.asked[p] # None}

OpenDrill(s) ==
  \E p \in DrillAsks \ Drilling :
    drilldown' = [drilldown EXCEPT !.loading = TRUE, !.asked[p] = s]

(* DrillAnswered, had a failure left the panel loading. *)
DrillAnsweredIfOk(p, ok) ==
  /\ p \in Drilling
  /\ drilldown' = [drilldown EXCEPT !.drill = IF ok THEN drilldown.asked[p] ELSE @,
                                    !.loading = ~ok, !.asked[p] = None]

DrillAnswered(p, ok) ==
  /\ p \in Drilling
  /\ drilldown' = [drilldown EXCEPT !.drill = IF ok THEN drilldown.asked[p] ELSE @,
                                    !.loading = FALSE, !.asked[p] = None]

CloseDrill ==
  /\ drilldown.drill # None
  /\ drilldown' = [drilldown EXCEPT !.drill = None]

UseDrilldown ==
  \/ \E s \in Subjects : OpenDrill(s)
  \/ CloseDrill

DrillArrival == \E p \in DrillAsks, ok \in BOOLEAN : DrillAnswered(p, ok)
=============================================================================

---------------------------- MODULE SessionLists ----------------------------
(***************************************************************************)
(* The two panels that list the diagnosed sessions: the session explorer   *)
(* (frontend/src/panels/SessionExplorer.tsx), which loads them when it is  *)
(* mounted, and the health panel (NetworkHealthPanel.tsx), which loads     *)
(* them on demand.  Both narrow the list by filters and open one session   *)
(* of it beside the list.                                                  *)
(***************************************************************************)
EXTENDS Naturals

CONSTANTS
  Sessions,    (* the sessions of the capture                              *)
  IpFilters,   (* what may be entered as an address                        *)
  NoIp,        (* nothing entered                                          *)
  withIp,      (* withIp[f]: the sessions with an address that contains f  *)
  status,      (* status[s]: the verdict on s                              *)
  None

Statuses == {"ok", "warning", "critical"}

VARIABLE sessions     (* the panel, None when it is not on screen          *)

Explorers ==
  [is : {"explorer"}, health : BOOLEAN, loading : BOOLEAN, error : BOOLEAN,
   ipFilter : IpFilters, selected : Sessions \cup {None}, showCriticalOnly : BOOLEAN]

ExplorerMounted ==
  [is |-> "explorer", health |-> FALSE, loading |-> TRUE, error |-> FALSE,
   ipFilter |-> NoIp, selected |-> None, showCriticalOnly |-> FALSE]

Healths ==
  [is : {"health"}, health : BOOLEAN, loading : BOOLEAN, error : BOOLEAN,
   statusFilter : Statuses \cup {"all"}, selected : Sessions \cup {None}]

HealthMounted ==
  [is |-> "health", health |-> FALSE, loading |-> FALSE, error |-> FALSE,
   statusFilter |-> "all", selected |-> None]

-----------------------------------------------------------------------------
FilteredSessions ==
  {s \in withIp[sessions.ipFilter] : sessions.showCriticalOnly => status[s] # "ok"}

(* The health panel shows nothing but a message while it loads and for ever
   after a failure. *)
Visible == {s \in Sessions : sessions.statusFilter \in {"all", status[s]}}

HealthAnswered(ok) ==
  /\ sessions.loading
  /\ sessions' = [sessions EXCEPT !.loading = FALSE, !.health = @ \/ ok, !.error = ~ok]

(* TypeIp, had it left the session open. *)
TypeIpOnly(f) ==
  /\ f # sessions.ipFilter
  /\ sessions' = [sessions EXCEPT !.ipFilter = f]

TypeIp(f) ==
  /\ f # sessions.ipFilter
  /\ sessions' = [sessions EXCEPT !.ipFilter = f, !.selected = None]

ToggleCriticalOnly ==
  sessions' = [sessions EXCEPT !.showCriticalOnly = ~@]

(* A click on a row opens its session, or closes it. *)
Select(s) ==
  sessions' = [sessions EXCEPT !.selected = IF @ = s THEN None ELSE s]

Deselect ==
  /\ sessions.selected # None
  /\ sessions' = [sessions EXCEPT !.selected = None]

UseExplorer ==
  \/ \E f \in IpFilters : TypeIp(f)
  \/ ToggleCriticalOnly
  \/ sessions.health /\ \E s \in FilteredSessions : Select(s)
  \/ Deselect

TableShown == sessions.health /\ ~sessions.loading /\ ~sessions.error

(* The first button, or the one that refreshes the table. *)
Run ==
  /\ ~sessions.loading /\ ~sessions.error
  /\ sessions' = [sessions EXCEPT !.loading = TRUE, !.selected = None]

ToggleStatus(st) ==
  sessions' = [sessions EXCEPT !.statusFilter = IF @ = st THEN "all" ELSE st]

UseHealth ==
  \/ Run
  \/ TableShown /\ \E st \in Statuses : ToggleStatus(st)
  \/ TableShown /\ \E s \in Visible : Select(s)
  \/ TableShown /\ Deselect

-----------------------------------------------------------------------------
(* The session opened in the explorer - the one whose packets its button   *)
(* opens - has the address being searched for.  (The box that hides the    *)
(* healthy sessions does not close it: SessionExplorer.tsx:340.)           *)
SelectionHasAddress ==
  sessions.selected # None => sessions.selected \in withIp[sessions.ipFilter]
=============================================================================

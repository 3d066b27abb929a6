--------------------------- MODULE HealthScreens ----------------------------
(***************************************************************************)
(* How the session explorer and the health panel show the server's verdict *)
(* on a session (frontend/src/panels/SessionExplorer.tsx and               *)
(* NetworkHealthPanel.tsx): by colour, as a user reads it.                 *)
(*                                                                         *)
(* A verdict h has score, status, handshake, rtt_ms, retransmit_count,     *)
(* close_type, rst_type and failure_type, as NetworkHealth gives them;     *)
(* what is not shown is "none", what has no colour of its own is "plain".  *)
(***************************************************************************)
EXTENDS Integers, Functions

NoRtt == -1

scoreColor(score) == IF score >= 80 THEN "green" ELSE IF score >= 50 THEN "amber" ELSE "red"

HS_COLOR == [COMPLETE |-> "green", REFUSED |-> "red", TIMEOUT |-> "red", HALF_OPEN |-> "amber"]

Colour(handshake) == IF handshake = "N/A" THEN "plain" ELSE HS_COLOR[handshake]

SlowColour(rtt, otherwise) == IF rtt > 15000 THEN "amber" ELSE otherwise

ExplorerRow(h) ==
  [dot         |-> scoreColor(h.score),
   chip        |-> h.status,
   rtt         |-> IF h.rtt_ms = NoRtt THEN "none" ELSE SlowColour(h.rtt_ms, "plain"),
   retransmits |-> IF h.retransmit_count > 0 THEN "amber" ELSE "none"]

ExplorerDetail(h) ==
  [circle      |-> scoreColor(h.score),
   label       |-> h.status,
   handshake   |-> Colour(h.handshake),
   rtt         |-> SlowColour(h.rtt_ms, "green"),
   retransmits |-> IF h.retransmit_count > 0 THEN "amber" ELSE "green",
   close       |-> IF h.close_type = "RESET" THEN "red" ELSE "plain",
   calm        |-> h.issues = {}]

HealthRow(h) ==
  [pill        |-> scoreColor(h.score),
   badge       |-> h.status,
   handshake   |-> h.handshake,
   retransmits |-> IF h.retransmit_count > 0 THEN "amber" ELSE "none"]

(* The card on the path is there when a router has complained. *)
HealthDetail(h) ==
  [circle    |-> scoreColor(h.score),
   label     |-> h.status,
   handshake |-> h.handshake,
   close     |-> h.close_type,
   rst       |-> h.rst_type,
   path      |-> h.failure_type = "path_issue",
   issues    |-> h.issues]

(* The numbers above the list of the explorer. *)
StatsRow(found, counts) ==
  [events      |-> IF found.events > 0 THEN "red" ELSE "green",
   rsts        |-> IF found.rsts > 100 THEN "amber" ELSE "plain",
   retransmits |-> IF found.retransmits > 50 THEN "amber" ELSE "plain",
   bars        |-> [ok |-> counts.healthy, warning |-> counts.warning, critical |-> counts.critical]]

(* The rows under a status of the health panel, and under the switch of the
   explorer that leaves out what is in order, by their places in the list. *)
Visible(healths, filter) == RestrictValues(healths, LAMBDA h : filter \in {"all", h.status})

CriticalOnly(healths) == RestrictValues(healths, LAMBDA h : h.status # "ok")
=============================================================================

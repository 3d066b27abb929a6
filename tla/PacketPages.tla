----------------------------- MODULE PacketPages ----------------------------
(* What the packet table is about: filters, and pages of what they let     *)
(* through.  PacketList is the table.                                      *)
EXTENDS Integers

CONSTANTS
  Filters,     (* the filters a user may enter                             *)
  NoFilter,    (* the empty one, with which the table starts               *)
  Presets,     (* the ones that have a button                              *)
  matching,    (* matching[f]: how many packets f lets through             *)
  PageSize,    (* limit                                                    *)
  Promises,    (* requests that can be in flight at the same time          *)
  None         (* no rows, no row open, no request                         *)

Queries == [filter : Filters, offset : Nat]

ASSUME PacketPagesAssumption ==
  /\ NoFilter \in Filters
  /\ Presets \subseteq Filters
  /\ matching \in [Filters -> Nat]
  /\ PageSize \in Nat \ {0}
  /\ None \notin Queries
  /\ None \notin Nat
=============================================================================

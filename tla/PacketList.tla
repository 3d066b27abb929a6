----------------------------- MODULE PacketList -----------------------------
(***************************************************************************)
(* The packet table of the dashboard (frontend/src/panels/PacketList.tsx): *)
(* the filter being typed, the filter applied, the page shown, and the     *)
(* requests in flight for it.  The filter bar stays in use while a page is *)
(* on its way, so two requests may be in flight and their answers may      *)
(* arrive in either order; only the page buttons wait.                     *)
(*                                                                         *)
(* What an answer contains is told apart by the request it answers, and    *)
(* matching[f] is the number of packets that filter f lets through.        *)
(***************************************************************************)
EXTENDS PacketPages

VARIABLE list     (* the state of the table, None when it is not on screen *)

(* raced is not in the code: it remembers that a page was asked for while
   another one was on its way. *)
Tables ==
  [is        : {"packets"},
   rows      : Queries \cup {None},
   filters   : Filters,
   applied   : Filters,
   expanded  : (1 .. PageSize) \cup {None},
   loading   : BOOLEAN,
   loadError : BOOLEAN,
   asked     : [Promises -> Queries \cup {None}],
   raced     : BOOLEAN]

TableMounted ==
  [is |-> "packets", rows |-> None,
   filters |-> NoFilter, applied |-> NoFilter, expanded |-> None,
   loading |-> FALSE, loadError |-> FALSE,
   asked |-> [p \in Promises |-> None], raced |-> FALSE]

-----------------------------------------------------------------------------
Loaded   == list.rows # None
InFlight == {p \in Promises : list.asked[p] # None}

Total == matching[list.rows.filter]

RowsOnPage ==
  LET left == Total - list.rows.offset
  IN IF left <= 0 THEN 0 ELSE IF left < PageSize THEN left ELSE PageSize

TotalPages  == (Total + PageSize - 1) \div PageSize
CurrentPage == list.rows.offset \div PageSize + 1

(* The table t after it has asked, by promise p, for the page at off of f. *)
Asking(t, p, off, f) ==
  [t EXCEPT !.loading = TRUE, !.expanded = None, !.loadError = FALSE,
            !.asked[p] = [filter |-> f, offset |-> off],
            !.raced = InFlight # {}]

Load(t, off, f) ==
  \E p \in Promises \ InFlight : list' = Asking(t, p, off, f)

(* The button of the empty table, or the one that tries again. *)
FirstLoad ==
  /\ ~Loaded /\ ~list.loading
  /\ Load(list, 0, list.applied)

Type(f) ==
  /\ Loaded
  /\ f # list.filters
  /\ list' = [list EXCEPT !.filters = f]

ApplyFilter ==
  /\ Loaded
  /\ Load([list EXCEPT !.applied = list.filters], 0, list.filters)

ApplyPreset(f) ==
  /\ Loaded
  /\ Load([list EXCEPT !.filters = f, !.applied = f], 0, f)

ClearFilter == ApplyPreset(NoFilter)

PreviousPage ==
  /\ Loaded /\ ~list.loading
  /\ TotalPages > 1 /\ CurrentPage # 1
  /\ Load(list, list.rows.offset - PageSize, list.applied)

(* NextPage, had it asked with what is being typed. *)
NextPageOfDraft ==
  /\ Loaded /\ ~list.loading
  /\ TotalPages > 1 /\ CurrentPage < TotalPages
  /\ Load(list, list.rows.offset + PageSize, list.filters)

NextPage ==
  /\ Loaded /\ ~list.loading
  /\ TotalPages > 1 /\ CurrentPage < TotalPages
  /\ Load(list, list.rows.offset + PageSize, list.applied)

(* A click on row i; one that opens the row opens its session as well. *)
ToggleRow(i) ==
  /\ Loaded /\ ~list.loading
  /\ i \in 1 .. RowsOnPage
  /\ list' = [list EXCEPT !.expanded = IF @ = i THEN None ELSE i]

Opens(i) == list.expanded # i

(* Answered, had it kept the failure of a page to itself. *)
AnsweredSilently(p, ok) ==
  /\ p \in InFlight
  /\ list' = [list EXCEPT !.rows = IF ok THEN list.asked[p] ELSE @,
                          !.loading = FALSE,
                          !.asked[p] = None]

(* The answer to promise p is there; ok when it is a page. *)
Answered(p, ok) ==
  /\ p \in InFlight
  /\ list' = [list EXCEPT !.rows = IF ok THEN list.asked[p] ELSE @,
                          !.loadError = IF ok THEN @ ELSE TRUE,
                          !.loading = FALSE,
                          !.asked[p] = None]

Filtering ==
  \/ FirstLoad
  \/ \E f \in Filters : Type(f)
  \/ ApplyFilter
  \/ \E f \in Presets : ApplyPreset(f)
  \/ ClearFilter

TurnPage == PreviousPage \/ NextPage

Arrival == \E p \in Promises, ok \in BOOLEAN : Answered(p, ok)

(* The table by itself, from the moment it is on the screen until it goes. *)
TableNext == Filtering \/ TurnPage \/ (\E i \in 1 .. PageSize : ToggleRow(i)) \/ Arrival

TableSpec == list = TableMounted /\ [][TableNext]_list

-----------------------------------------------------------------------------
(* A table at rest shows a page of the filter applied, or says that it     *)
(* could not be loaded - provided no page was asked for while another one  *)
(* was on its way.  Without that proviso this is false: of two answers     *)
(* that arrive in the wrong order, PacketList.tsx:113 shows the older.     *)
RestingTableMatchesFilter ==
  Loaded /\ InFlight = {} /\ ~list.raced /\ ~list.loadError =>
    list.rows.filter = list.applied

(* From a page with rows of the filter applied, the page buttons ask for   *)
(* the page next to it under the same filter, and for one that has rows:   *)
(* no packet is skipped or seen twice, and no button leads off the end.    *)
(* (After a filter that failed, the buttons turn the pages of that filter  *)
(* from where the one before it was: PacketList.tsx:247.)                  *)
AskedNow == {p \in Promises : list'.asked[p] # None} \ InFlight

PagesAreAdjacent ==
  TurnPage /\ list.rows.filter = list.applied /\ RowsOnPage > 0 =>
    \A p \in AskedNow :
      LET off == list'.asked[p].offset
      IN /\ list'.asked[p].filter = list.applied
         /\ off \in {list.rows.offset - PageSize, list.rows.offset + PageSize}
         /\ off >= 0 /\ off < Total
=============================================================================

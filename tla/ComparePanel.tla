---------------------------- MODULE ComparePanel ----------------------------
(***************************************************************************)
(* The comparison of the capture on the dashboard with another file        *)
(* (frontend/src/panels/ComparePanel.tsx): upload, analysis, comparison,   *)
(* one after the other, then the result under three tabs, with a box that  *)
(* lists the sessions behind a count.  That box has no style of its own in *)
(* App.css: it stands below the result and covers nothing.                 *)
(***************************************************************************)
EXTENDS Naturals

CONSTANTS
  Files,       (* files a user may choose                                  *)
  Accepted,    (* those whose name ends as ALLOWED says                    *)
  None

VARIABLE compare      (* the panel, None when it is not on screen          *)

Tabs   == {"sessions", "ips", "protocols"}
Works  == [file : Accepted, step : {"upload", "analyze", "compare"}]

(* works are the files on their way, at most one; modal is the file whose
   sessions the box lists, whichever of its lists they are from. *)
Compares ==
  [is : {"compare"}, works : SUBSET Works, loading : BOOLEAN, error : BOOLEAN,
   compareFilename : Files \cup {None}, result : Files \cup {None},
   innerTab : Tabs, modal : Files \cup {None}]

CompareMounted ==
  [is |-> "compare", works |-> {}, loading |-> FALSE, error |-> FALSE,
   compareFilename |-> None, result |-> None, innerTab |-> "sessions", modal |-> None]

-----------------------------------------------------------------------------
(* The panel c once it has been given file f. *)
Comparing(c, f) ==
  IF f \in Accepted
  THEN [c EXCEPT !.loading = TRUE, !.error = FALSE, !.result = None,
                 !.works = @ \cup {[file |-> f, step |-> "upload"]}]
  ELSE [c EXCEPT !.error = TRUE]

DropZoneShown == compare.result = None /\ ~compare.loading

(* ChooseOther, had the zone stayed during a comparison. *)
ChooseOtherAnyTime(f) ==
  /\ compare.result = None
  /\ compare' = Comparing(compare, f)

ChooseOther(f) ==
  /\ DropZoneShown
  /\ compare' = Comparing(compare, f)

NextStep == [upload |-> "analyze", analyze |-> "compare"]

(* One of the three requests of w is answered: the next one is sent, the
   result is shown, or the error is. *)
CompareStep(w, ok) ==
  /\ w \in compare.works
  /\ compare' =
       IF ~ok THEN [compare EXCEPT !.works = @ \ {w}, !.loading = FALSE, !.error = TRUE]
       ELSE IF w.step = "compare"
       THEN [compare EXCEPT !.works = @ \ {w}, !.loading = FALSE,
                            !.compareFilename = w.file, !.result = w.file,
                            !.innerTab = "sessions"]
       ELSE [compare EXCEPT !.works = (@ \ {w}) \cup {[w EXCEPT !.step = NextStep[@]]}]

ResultShown == compare.result # None /\ compare.compareFilename # None

ChooseTab(t) ==
  /\ ResultShown
  /\ t # compare.innerTab
  /\ compare' = [compare EXCEPT !.innerTab = t]

(* The counts above the tabs, and the buttons of the lists under "ips". *)
OpenModal ==
  /\ ResultShown
  /\ compare' = [compare EXCEPT !.modal = compare.result]

CloseModal ==
  /\ compare.modal # None
  /\ compare' = [compare EXCEPT !.modal = None]

(* CompareAnother, had it kept the result. *)
CompareAnotherKeepingResult ==
  /\ ResultShown
  /\ compare' = [compare EXCEPT !.compareFilename = None]

(* The button below the result; the box stays, if it is open. *)
CompareAnother ==
  /\ ResultShown
  /\ compare' = [compare EXCEPT !.result = None, !.compareFilename = None]

UseCompare ==
  \/ \E f \in Files : ChooseOther(f)
  \/ \E t \in Tabs : ChooseTab(t)
  \/ OpenModal
  \/ CloseModal
  \/ CompareAnother

CompareAnswer == \E w \in compare.works, ok \in BOOLEAN : CompareStep(w, ok)

-----------------------------------------------------------------------------
(* One comparison at a time, and nothing to compare with while a result is *)
(* on the screen: no result can be replaced by that of a file chosen       *)
(* before.                                                                 *)
OneComparison ==
  /\ compare.loading <=> compare.works # {}
  /\ \A v, w \in compare.works : v = w
  /\ compare.result # None => ~compare.loading /\ compare.compareFilename = compare.result
=============================================================================

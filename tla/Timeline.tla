------------------------------ MODULE Timeline ------------------------------
(***************************************************************************)
(* The traffic timeline and its markers (frontend/src/panels/              *)
(* Panel3Timeline.tsx), with the list of markers the server keeps.  The    *)
(* panel loads the markers once, when it is mounted; afterwards it adds    *)
(* each one saved to what it shows, without asking again.  A save sent by  *)
(* a panel that is gone by the time of the answer is stored all the same;  *)
(* a save whose reply is lost is stored, and reported as failed.  The      *)
(* server may let go of the capture, and of its markers, at any time.      *)
(*                                                                         *)
(* A marker is told apart by its range.                                    *)
(***************************************************************************)
EXTENDS Naturals, Sequences, FiniteSets

CONSTANTS
  Ranges,      (* the ranges a user may zoom to                            *)
  MaxNotes,    (* _MAX_ANNOTATIONS_PER_UPLOAD                              *)
  Saves,       (* saves that can be in flight at the same time             *)
  None

VARIABLES
  timeline,    (* the panel, None when it is not on screen                 *)
  notes,       (* the markers the server keeps of the capture shown, None  *)
               (* when it has let go of the capture                        *)
  posts        (* the saves in flight                                      *)

(* answer holds the markers the server has answered the load with; mixed is
   not in the code: it remembers that a save overlapped the load or came from
   a panel that is gone, that its reply was lost, or that the load failed. *)
Timelines ==
  [is : {"timeline"}, markers : Seq(Ranges),
   load : {"done", "asked", "answered"}, answer : Seq(Ranges),
   pending : Ranges \cup {None}, comment : BOOLEAN, saveErr : BOOLEAN,
   mixed : BOOLEAN]

(* A save: what for, and whether the panel that sent it is still there.  The
   answer to one that is gone goes nowhere and is not followed. *)
Posts == [range : Ranges, step : {"sent", "stored", "failed"}, mine : BOOLEAN]

Sending == {p \in Saves : posts[p] # None}

TimelineMounted ==
  [is |-> "timeline", markers |-> <<>>, load |-> "asked", answer |-> <<>>,
   pending |-> None, comment |-> FALSE, saveErr |-> FALSE, mixed |-> Sending # {}]

(* The saves in flight when the panel goes, which the server may still store. *)
PostsLeftBehind ==
  [p \in Saves |-> IF posts[p] # None /\ posts[p].step = "sent" /\ notes # None
                  THEN [posts[p] EXCEPT !.mine = FALSE] ELSE None]

-----------------------------------------------------------------------------
(* Zooming into the chart opens the question for a comment. *)
Relayout(r) ==
  /\ r # timeline.pending
  /\ timeline' = [timeline EXCEPT !.pending = r]
  /\ UNCHANGED <<notes, posts>>

TypeComment ==
  /\ timeline.pending # None
  /\ timeline' = [timeline EXCEPT !.comment = ~@]
  /\ UNCHANGED <<notes, posts>>

CancelMarker ==
  /\ timeline.pending # None
  /\ timeline' = [timeline EXCEPT !.pending = None, !.saveErr = FALSE]
  /\ UNCHANGED <<notes, posts>>

(* Enter or the button; both work again while a save is on its way. *)
SaveMarker(p) ==
  /\ timeline.pending # None /\ timeline.comment
  /\ posts[p] = None
  /\ timeline' = [timeline EXCEPT !.saveErr = FALSE, !.mixed = @ \/ timeline.load # "done"]
  /\ posts' = [posts EXCEPT ![p] = [range |-> timeline.pending, step |-> "sent", mine |-> TRUE]]
  /\ UNCHANGED notes

(* What comes of a save that is on its way: whether the server stores the
   marker, and whether the panel is told so.  A reply that is lost looks
   like a refusal. *)
Stores(p, stored, told) ==
  /\ posts[p] # None /\ posts[p].step = "sent"
  /\ stored => notes # None
  /\ told => stored
  /\ notes' = IF stored THEN Append(notes, posts[p].range) ELSE notes
  /\ posts' = IF posts[p].mine
              THEN [posts EXCEPT ![p].step = IF told THEN "stored" ELSE "failed"]
              ELSE [posts EXCEPT ![p] = None]
  /\ timeline' = IF posts[p].mine /\ stored /\ ~told
                 THEN [timeline EXCEPT !.mixed = TRUE] ELSE timeline

(* StoreMarker, had the server not counted the markers it keeps. *)
StoreMarkerBeyondLimit(p, stored, told) == Stores(p, stored, told)

(* The server refuses a save when the list is full or the capture is gone. *)
StoreMarker(p, stored, told) ==
  /\ Stores(p, stored, told)
  /\ stored => Len(notes) < MaxNotes

(* The server lets go of the capture, and of its markers with it; a save
   left behind will be refused, and nobody hears of it. *)
EvictMarkers ==
  /\ notes # None
  /\ notes' = None
  /\ posts' = [p \in Saves |-> IF posts[p] # None /\ posts[p].mine THEN posts[p] ELSE None]
  /\ UNCHANGED timeline

(* The panel shows the marker of save p, or the error. *)
Shows(p, stored) ==
  /\ posts[p] # None /\ posts[p].step # "sent"
  /\ posts' = [posts EXCEPT ![p] = None]
  /\ timeline' = [timeline EXCEPT
                    !.markers = IF stored THEN Append(@, posts[p].range) ELSE @,
                    !.saveErr = @ \/ posts[p].step = "failed",
                    !.pending = None, !.comment = FALSE]
  /\ UNCHANGED notes

(* Saved, had the panel shown the marker whether or not it was stored. *)
SavedUnchecked(p) == Shows(p, TRUE)

(* The answer reaches the panel that sent the marker: it forgets whatever
   range and comment are being entered by now, and the error with them. *)
Saved(p) == Shows(p, posts[p].step = "stored")

(* The server answers the load with the markers of that moment. *)
ReadMarkers ==
  /\ timeline.load = "asked" /\ notes # None
  /\ timeline' = [timeline EXCEPT !.load = "answered", !.answer = notes]
  /\ UNCHANGED <<notes, posts>>

(* The answer replaces what is shown; a failed load only warns in the log. *)
MarkersArrive ==
  /\ timeline.load = "answered"
  /\ timeline' = [timeline EXCEPT !.markers = timeline.answer, !.answer = <<>>,
                                  !.load = "done"]
  /\ UNCHANGED <<notes, posts>>

MarkersFail ==
  /\ timeline.load = "asked"
  /\ timeline' = [timeline EXCEPT !.load = "done", !.mixed = TRUE]
  /\ UNCHANGED <<notes, posts>>

UseTimeline ==
  \/ \E r \in Ranges : Relayout(r)
  \/ TypeComment
  \/ CancelMarker
  \/ \E p \in Saves : SaveMarker(p)

MarkersAnswer == ReadMarkers \/ MarkersArrive \/ MarkersFail

(* What becomes of the saves, whether or not the panel is on screen. *)
ServeMarkers ==
  \E p \in Saves : (\E stored, told \in BOOLEAN : StoreMarker(p, stored, told)) \/ Saved(p)

-----------------------------------------------------------------------------
Times(s, r) == Cardinality({i \in DOMAIN s : s[i] = r})

SameMarkers(s, t) == \A r \in Ranges : Times(s, r) = Times(t, r)

(* Once the load and the saves have been answered, the panel shows every   *)
(* marker the server keeps, each as often as it was stored - though it     *)
(* never asks again.  Excepted are a load that failed or that a save       *)
(* overlapped, and a save whose reply was lost: its marker is stored, the  *)
(* panel reports an error and shows it no more until it is mounted again.  *)
(* Of a capture the server has let go of nothing is said: its markers stay *)
(* on the screen.                                                          *)
MarkersMatch ==
  timeline.load = "done" /\ Sending = {} /\ ~timeline.mixed /\ notes # None =>
    SameMarkers(timeline.markers, notes)
=============================================================================

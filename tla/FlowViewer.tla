----------------------------- MODULE FlowViewer -----------------------------
(***************************************************************************)
(* The packet viewer that opens over the dashboard                         *)
(* (frontend/src/panels/FlowViewer.tsx): it loads one session, shows it in *)
(* five views, and its Follow Stream view has requests of its own, one per *)
(* encoding chosen.  The parent mounts the viewer with a session and       *)
(* unmounts it; whatever is in flight then is forgotten.                   *)
(***************************************************************************)
EXTENDS Naturals

CONSTANTS
  Payloads,    (* the packets of a session that carry data                 *)
  None

VARIABLES
  sessionId,   (* the session asked for: one of the capture on the         *)
               (* dashboard or of an earlier one                           *)
  viewer       (* None when the viewer is closed                           *)

Views     == {"ladder", "packets", "stream", "replay", "analysis"}
Encodings == {"ascii", "hex"}

(* What the stream view shows: the segments in one encoding, or that there
   are none. *)
StreamData == Encodings \cup {"empty"}

Streams ==
  [encoding : Encodings, data : StreamData \cup {None}, error : BOOLEAN,
   loading : BOOLEAN, asked : SUBSET Encodings]

(* open are the packets whose bytes are shown below their row: at most one
   of the ladder, any of the table. *)
Viewers ==
  {v \in [data : BOOLEAN, error : BOOLEAN, asked : BOOLEAN, view : Views,
          open : SUBSET Payloads, stream : Streams \cup {None}] :
     /\ v.view \in {"ladder", "packets"} \/ v.open = {}
     /\ v.view = "ladder" => \A i, j \in v.open : i = j}

ViewerMounted ==
  [data |-> FALSE, error |-> FALSE, asked |-> TRUE, view |-> "ladder",
   open |-> {}, stream |-> None]

AskStream(e, others) ==
  [encoding |-> e, data |-> None, error |-> FALSE, loading |-> TRUE,
   asked |-> others \cup {e}]

(* The server finds the session only in the capture it was read from. *)
FlowAnswered(ok) ==
  /\ viewer.asked
  /\ ok => sessionId = "shown"
  /\ viewer' = [viewer EXCEPT !.asked = FALSE, !.data = ok, !.error = ~ok]

(* The tabs are there once the session is; leaving a view unmounts it, and
   coming back to Follow Stream asks anew. *)
SetView(v) ==
  /\ viewer.data
  /\ v # viewer.view
  /\ viewer' = [viewer EXCEPT !.view = v, !.open = {},
                              !.stream = IF v = "stream" THEN AskStream("ascii", {})
                                         ELSE None]

(* A click on a row of the ladder closes the one open before; the rows of
   the table know nothing of each other. *)
ToggleLadderRow(i) ==
  /\ viewer.data /\ viewer.view = "ladder"
  /\ viewer' = [viewer EXCEPT !.open = IF i \in @ THEN {} ELSE {i}]

TogglePacketRow(i) ==
  /\ viewer.data /\ viewer.view = "packets"
  /\ viewer' = [viewer EXCEPT !.open = IF i \in @ THEN @ \ {i} ELSE @ \cup {i}]

StreamShown ==
  /\ viewer.stream # None
  /\ ~viewer.stream.loading /\ ~viewer.stream.error
  /\ viewer.stream.data \in Encodings

(* SetEncoding, had the buttons stayed while the segments are loading. *)
SetEncodingWhileLoading(e) ==
  /\ viewer.stream # None
  /\ e # viewer.stream.encoding
  /\ viewer' = [viewer EXCEPT !.stream = AskStream(e, viewer.stream.asked)]

(* The two buttons stand above the segments and are hidden while loading. *)
SetEncoding(e) ==
  /\ StreamShown
  /\ e # viewer.stream.encoding
  /\ viewer' = [viewer EXCEPT !.stream = AskStream(e, viewer.stream.asked)]

StreamAnswered(e, answer) ==
  /\ viewer.stream # None
  /\ e \in viewer.stream.asked
  /\ answer \in {e, "empty", "failed"}
  /\ viewer' =
       [viewer EXCEPT
          !.stream.data = IF answer = "failed" THEN @ ELSE answer,
          !.stream.error = @ \/ answer = "failed",
          !.stream.loading = FALSE,
          !.stream.asked = @ \ {e}]

UseViewer ==
  \/ \E v \in Views : SetView(v)
  \/ \E i \in Payloads : ToggleLadderRow(i) \/ TogglePacketRow(i)
  \/ \E e \in Encodings : SetEncoding(e)

ViewerAnswer ==
  \/ \E ok \in BOOLEAN : FlowAnswered(ok)
  \/ \E e \in Encodings, answer \in Encodings \cup {"empty", "failed"} :
       StreamAnswered(e, answer)

(* Something in the viewer turns until an answer stops it. *)
ViewerWaits ==
  viewer.asked \/ (viewer.stream # None /\ viewer.stream.loading)

-----------------------------------------------------------------------------
(* The stream on the screen is in the encoding whose button is lit: no     *)
(* answer to the encoding chosen before can come late, because the buttons *)
(* are away while one is on its way (FlowViewer.tsx:420).                  *)
StreamMatchesEncoding ==
  viewer.stream # None /\ viewer.stream.data \in Encodings =>
    viewer.stream.data = viewer.stream.encoding
=============================================================================

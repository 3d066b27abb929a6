------------------------------ MODULE Dashboard -----------------------------
(***************************************************************************)
(* The web page (frontend/src/App.tsx): what it shows, the file on its way *)
(* through upload, analysis and summary, the layer and tab the user is on, *)
(* and the packet viewer that opens over them.  The panels are modules of  *)
(* their own; a panel that leaves the screen loses its state, and answers  *)
(* to what it asked are dropped (React unmounts it).                       *)
(*                                                                         *)
(* Panels that share a tab share no state, so only one of them is          *)
(* followed: panel is chosen when the tab is opened.                       *)
(***************************************************************************)
EXTENDS PacketPages, Sequences

CONSTANTS
  Files, Accepted,                                     (* ComparePanel too *)
  Sessions, IpFilters, NoIp, withIp, status,               (* SessionLists *)
  Subjects, DrillAsks,                                     (* Drilldown    *)
  Ranges, MaxNotes, Saves,                                 (* Timeline     *)
  Payloads                                                 (* FlowViewer   *)

ASSUME DashboardAssumption ==
  /\ Accepted \subseteq Files
  /\ NoIp \in IpFilters
  /\ withIp \in [IpFilters -> SUBSET Sessions] /\ withIp[NoIp] = Sessions
  /\ status \in [Sessions -> {"ok", "warning", "critical"}]
  /\ MaxNotes \in Nat
  /\ None \notin Files \cup Sessions \cup Subjects \cup Ranges \cup {"ascii", "hex"}

VARIABLES
  shown,     (* meta, panels and summary, which are set together           *)
  runs,      (* the files on their way, told apart by whether one is the   *)
             (* "last" the page was given or an "earlier" one              *)
  loading, error,
  exporting, (* an export is on its way                                    *)
  layer, invTab,
  flow,      (* flowSessionId: a session of the capture "shown", or of an  *)
             (* "earlier" one                                              *)
  panel,     (* the panel followed, None when there is none                *)
  viewer, notes, posts

desk == <<layer, invTab, flow, panel, viewer, notes, posts>>
load == <<runs, loading>>
vars == <<shown, runs, loading, error, exporting, desk>>

Table    == INSTANCE PacketList WITH list <- panel
Lists    == INSTANCE SessionLists WITH sessions <- panel
Drill    == INSTANCE Drilldown WITH drilldown <- panel
Traffic  == INSTANCE Timeline WITH timeline <- panel
Compare  == INSTANCE ComparePanel WITH compare <- panel
Lookup   == INSTANCE Lookups WITH lookup <- panel
Viewer   == INSTANCE FlowViewer WITH sessionId <- flow

(* null is neither a save nor a panel. *)
ASSUME PostsAssumption == None \notin Traffic!Posts \cup Traffic!Timelines

Layers  == {"overview", "investigate", "output"}
InvTabs == {"sessions", "traffic", "protocol", "health", "geoip", "yara"}
Parts   == {"panels", "summary"}

Ages    == {"last", "earlier"}

Runs ==
  [file : Ages, step : {"upload", "analyze", "fetch"}, got : SUBSET Parts]

Panels ==
  {None} \cup Table!Tables \cup Lists!Explorers \cup Lists!Healths
    \cup Drill!Drilldowns \cup Traffic!Timelines \cup Compare!Compares
    \cup Lookup!LookupPanels

At(k) == panel # None /\ panel.is = k

-----------------------------------------------------------------------------
(* The panels with state that are on the screen at layer l and tab t. *)
PanelsAt(l, t) ==
  IF l = "output" THEN {"compare"}
  ELSE IF l = "overview" THEN {}
  ELSE [sessions |-> {"explorer", "packets"}, traffic |-> {"timeline", "drilldown"},
        protocol |-> {}, health |-> {"health"}, geoip |-> {"geoip"},
        yara |-> {"yara"}][t]

Mounted(k) ==
  CASE k = "explorer"  -> Lists!ExplorerMounted
    [] k = "packets"   -> Table!TableMounted
    [] k = "timeline"  -> Traffic!TimelineMounted
    [] k = "drilldown" -> Drill!DrilldownMounted
    [] k = "health"    -> Lists!HealthMounted
    [] k = "compare"   -> Compare!CompareMounted
    [] OTHER           -> Lookup!LookupMounted(k)

(* The capture shown leaves the screen for good, with the server's markers
   and the saves that concern it. *)
ClearScreen ==
  /\ shown' = None /\ panel' = None /\ viewer' = None
  /\ flow' = IF flow = None THEN None ELSE "earlier"
  /\ notes' = <<>> /\ posts' = [p \in Saves |-> None]

(* The same without a change: a file of another format, say. *)
KeepScreen == UNCHANGED <<shown, flow, panel, viewer, notes, posts>>

HandleFile(f) ==
  IF f \in Accepted
  THEN /\ runs' = {[r EXCEPT !.file = "earlier"] : r \in runs}
                     \cup {[file |-> "last", step |-> "upload", got |-> {}]}
       /\ loading' = TRUE /\ error' = FALSE
       /\ ClearScreen
       /\ UNCHANGED <<layer, invTab, exporting>>
  ELSE /\ error' = TRUE
       /\ KeepScreen
       /\ UNCHANGED <<load, layer, invTab, exporting>>

(* ChooseFile, had the page stayed while one is. *)
ChooseFileAnyTime(f) ==
  /\ shown = None
  /\ HandleFile(f)

(* The upload page is on the screen until a file is on its way. *)
ChooseFile(f) ==
  /\ shown = None /\ ~loading
  /\ HandleFile(f)

(* The listener on the window, while a capture is on the screen: wherever
   the file is dropped, except on the zone of the comparison. *)
OverCompareZone == At("compare") /\ flow = None /\ Compare!DropZoneShown

DropFile(f) ==
  /\ shown # None /\ ~loading
  /\ HandleFile(f)

(* On that zone the panel's own handler runs first; it does not stop the
   event, so the one on the window runs too. *)
DropOnCompareZone(f) ==
  /\ shown # None /\ ~loading
  /\ OverCompareZone
  /\ IF f \in Accepted
     THEN HandleFile(f)
     ELSE /\ panel' = Compare!Comparing(panel, f)
          /\ error' = TRUE
          /\ UNCHANGED <<shown, load, exporting, layer, invTab, flow, viewer, notes, posts>>

ResetToUpload ==
  /\ shown # None
  /\ ClearScreen
  /\ error' = FALSE
  /\ UNCHANGED <<load, exporting, layer, invTab>>

-----------------------------------------------------------------------------
RunFails(r) ==
  /\ r \in runs
  /\ runs' = runs \ {r}
  /\ loading' = FALSE /\ error' = TRUE
  /\ UNCHANGED <<shown, exporting, desk>>

Becomes(r, s) ==
  /\ r \in runs
  /\ runs' = (runs \ {r}) \cup {s}
  /\ UNCHANGED <<shown, loading, error, exporting, desk>>

(* The upload is answered with a fresh id, or the analysis is done. *)
Uploaded(r) == r.step = "upload" /\ Becomes(r, [r EXCEPT !.step = "analyze"])
Analyzed(r) == r.step = "analyze" /\ Becomes(r, [r EXCEPT !.step = "fetch"])

(* The panels and the summary are fetched side by side. *)
PartFetched(r, part) ==
  /\ r.step = "fetch" /\ part \notin r.got
  /\ r.got \cup {part} # Parts
  /\ Becomes(r, [r EXCEPT !.got = @ \cup {part}])

(* With the second part the dashboard opens on its first layer; a session
   that was open in the viewer before is still asked for. *)
AllFetched(r, part) ==
  /\ r \in runs
  /\ r.step = "fetch" /\ r.got \cup {part} = Parts
  /\ runs' = runs \ {r}
  /\ loading' = FALSE
  /\ shown' = r.file
  /\ layer' = "overview" /\ panel' = None
  /\ viewer' = IF flow = None THEN None ELSE Viewer!ViewerMounted
  /\ UNCHANGED <<error, exporting, invTab, flow, notes, posts>>

RunStep ==
  \E r \in runs :
    \/ RunFails(r) \/ Uploaded(r) \/ Analyzed(r)
    \/ \E part \in Parts : PartFetched(r, part) \/ AllFetched(r, part)

Export ==
  /\ shown # None /\ ~exporting
  /\ exporting' = TRUE
  /\ UNCHANGED <<shown, load, error, desk>>

ExportAnswered(ok) ==
  /\ exporting
  /\ exporting' = FALSE
  /\ error' = (error \/ ~ok)
  /\ UNCHANGED <<shown, load, desk>>

-----------------------------------------------------------------------------
(* To another layer or tab, by its button, its key or the palette; the last
   two work over the viewer as well. *)
Move(l, t) ==
  /\ shown # None
  /\ <<l, t>> # <<layer, invTab>>
  /\ layer' = l /\ invTab' = t
  /\ IF PanelsAt(l, t) = {} THEN panel' = None
     ELSE \E k \in PanelsAt(l, t) : panel' = Mounted(k)
  /\ posts' = Traffic!PostsLeftBehind
  /\ UNCHANGED <<shown, load, error, exporting, flow, viewer, notes>>

Moves ==
  \/ Move("overview", invTab) \/ Move("output", invTab)
  \/ \E t \in InvTabs : Move("investigate", t)

(* A step of the panel that concerns nothing else. *)
PanelOnly ==
  UNCHANGED <<shown, load, error, exporting, layer, invTab, flow, viewer, notes, posts>>

(* onFlowSelect, with a session of the capture shown. *)
SelectFlow ==
  /\ flow' = "shown" /\ viewer' = Viewer!ViewerMounted
  /\ UNCHANGED <<shown, load, error, exporting, layer, invTab, notes, posts>>

CloseViewer ==
  /\ flow # None
  /\ flow' = None /\ viewer' = None
  /\ UNCHANGED <<shown, load, error, exporting, layer, invTab, panel, notes, posts>>

(* Clicks reach the panels only while the viewer does not cover them. *)
UsePanel ==
  /\ flow = None
  /\ \/ At("packets") /\ (Table!Filtering \/ Table!TurnPage) /\ PanelOnly
     \/ At("explorer") /\ Lists!UseExplorer /\ PanelOnly
     \/ At("health") /\ Lists!UseHealth /\ PanelOnly
     \/ At("drilldown") /\ Drill!UseDrilldown /\ PanelOnly
     \/ At("compare") /\ Compare!UseCompare /\ PanelOnly
     \/ /\ At("timeline") /\ Traffic!UseTimeline
        /\ UNCHANGED <<shown, load, error, exporting, layer, invTab, flow, viewer>>

(* A click on a packet opens its row and its session, or closes the row. *)
ClickPacket(i) ==
  /\ flow = None /\ At("packets")
  /\ Table!ToggleRow(i)
  /\ IF Table!Opens(i) THEN SelectFlow ELSE PanelOnly

(* The buttons that open a session: of the explorer's detail, and of a row
   of the drilldown, which closes. *)
OpenSession ==
  /\ flow = None
  /\ \/ At("explorer") /\ panel.selected # None /\ UNCHANGED panel
     \/ At("drilldown") /\ Drill!CloseDrill
  /\ SelectFlow

UseViewer ==
  /\ viewer # None /\ Viewer!UseViewer
  /\ UNCHANGED <<shown, load, error, exporting, layer, invTab, flow, panel, notes, posts>>

-----------------------------------------------------------------------------
(* What the server answers to the panel on the screen, and to the viewer. *)
PanelAnswer ==
  /\ \/ At("packets") /\ Table!Arrival
     \/ At("drilldown") /\ Drill!DrillArrival
     \/ (At("explorer") \/ At("health")) /\ \E ok \in BOOLEAN : Lists!HealthAnswered(ok)
     \/ At("compare") /\ Compare!CompareAnswer
     \/ At("timeline") /\ Traffic!MarkersAnswer
     \/ (At("geoip") \/ At("yara")) /\ Lookup!LookupAnswer
  /\ PanelOnly

ViewerAnswer ==
  /\ viewer # None /\ Viewer!ViewerAnswer
  /\ UNCHANGED <<shown, load, error, exporting, layer, invTab, flow, panel, notes, posts>>

(* What the server does with the markers, whichever panel is on the screen. *)
MarkerService ==
  /\ Traffic!ServeMarkers \/ (shown # None /\ Traffic!EvictMarkers)
  /\ UNCHANGED <<shown, load, error, exporting, layer, invTab, flow, viewer>>

Init ==
  /\ shown = None /\ runs = {} /\ loading = FALSE /\ error = FALSE
  /\ exporting = FALSE
  /\ layer = "overview" /\ invTab = "sessions" /\ flow = None
  /\ panel = None /\ viewer = None
  /\ notes = <<>> /\ posts = [p \in Saves |-> None]

Next ==
  \/ \E f \in Files : ChooseFile(f) \/ DropOnCompareZone(f) \/ DropFile(f)
  \/ ResetToUpload
  \/ RunStep
  \/ Export \/ \E ok \in BOOLEAN : ExportAnswered(ok)
  \/ Moves
  \/ UsePanel \/ \E i \in 1 .. PageSize : ClickPacket(i)
  \/ OpenSession \/ CloseViewer \/ UseViewer
  \/ PanelAnswer \/ ViewerAnswer \/ MarkerService

(* The server goes on answering the upload, the panel and the viewer, with
   data, a refusal or an error: the browser gives up on a connection that is
   lost.  Which of several requests it answers is left open. *)
Fairness == WF_vars(RunStep) /\ WF_vars(PanelAnswer) /\ WF_vars(ViewerAnswer)

Spec == Init /\ [][Next]_vars /\ Fairness

-----------------------------------------------------------------------------
TypeOK ==
  /\ shown \in Ages \cup {None}
  /\ runs \subseteq Runs
  /\ loading \in BOOLEAN /\ error \in BOOLEAN /\ exporting \in BOOLEAN
  /\ layer \in Layers /\ invTab \in InvTabs
  /\ flow \in {None, "shown", "earlier"}
  /\ panel \in Panels
  /\ viewer \in Viewer!Viewers \cup {None}
  /\ notes = None \/ (notes \in Seq(Ranges) /\ Len(notes) <= MaxNotes)
  /\ posts \in [Saves -> Traffic!Posts \cup {None}]

(* A capture on the screen is that of the file given last, and no other is *)
(* on its way: with two on their way, the slower one would win.            *)
DashboardOfLastFile ==
  shown # None => runs = {} /\ shown = "last"

(* The page table, the session opened in the explorer, the stream in the   *)
(* viewer, the comparison and the markers keep their promises inside the   *)
(* page, with the viewer over them and the user moving about: see the      *)
(* modules PacketList, SessionLists, FlowViewer, ComparePanel, Timeline.   *)
RestingTableMatchesFilter == At("packets") => Table!RestingTableMatchesFilter
PagesAreAdjacent == [][At("packets") => Table!PagesAreAdjacent]_vars
SelectionHasAddress == At("explorer") => Lists!SelectionHasAddress
StreamMatchesEncoding == viewer # None => Viewer!StreamMatchesEncoding
OneComparison == At("compare") => Compare!OneComparison
MarkersMatch == At("timeline") => Traffic!MarkersMatch

(* Nothing loads for ever: a file on its way ends as a dashboard or an     *)
(* error, and whatever the user does, there is no end to the moments at    *)
(* which the panel on the screen, or the viewer, is not loading.           *)
(* (GeoIpPanel after a refusal loads for ever: see LookupScreen.)          *)
PanelLoads ==
  /\ panel # None /\ ~At("timeline")
  /\ IF panel.is \in Lookup!LookupKinds
     THEN Lookup!LookupScreen = "loading" /\ panel.got # "refusal"
     ELSE panel.loading

ViewerLoads == viewer # None /\ Viewer!ViewerWaits

LoadsEnd ==
  /\ []<>(runs = {} /\ ~loading)
  /\ []<>~PanelLoads
  /\ []<>~ViewerLoads

(* What the zone of the comparison says: a file dropped there is compared  *)
(* with the capture on the screen.                                         *)
DropCompares ==
  [][\A f \in Accepted : DropOnCompareZone(f) => panel' = Compare!Comparing(panel, f)]_vars
=============================================================================

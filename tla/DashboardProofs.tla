--------------------------- MODULE DashboardProofs --------------------------
(***************************************************************************)
(* What is proved of the whole page, whatever its panels are given: it     *)
(* keeps its type, the capture on the screen is that of the file given     *)
(* last, the stream is in the encoding chosen, comparisons do not overtake *)
(* one another, the session opened has the address searched for, the       *)
(* markers on the screen are those stored, and the page table keeps its    *)
(* promises - with the user moving between layers and tabs, the viewer     *)
(* opening over the panels, and files dropped anywhere.                    *)
(***************************************************************************)
EXTENDS Dashboard, FiniteSetTheorems, TLAPS

(* No two files are ever on their way together, none while a capture is on
   the screen, and one that is on its way was given last. *)
OneFileOnItsWay ==
  /\ runs \subseteq Runs
  /\ loading = (runs # {})
  /\ \A r \in runs : r.file = "last" /\ runs = {r}
  /\ shown # None => runs = {} /\ shown = "last"

files == <<shown, runs, loading>>

-----------------------------------------------------------------------------
LEMMA GivenAFile ==
  ASSUME OneFileOnItsWay, NEW f \in Files, ~loading, HandleFile(f)
  PROVE  OneFileOnItsWay'
<1>0. runs = {}
  BY DEF OneFileOnItsWay
<1>1. CASE f \in Accepted
  <2> DEFINE new == [file |-> "last", step |-> "upload", got |-> {}]
  <2>1. runs' = {new} /\ loading' = TRUE /\ shown' = None
    BY <1>0, <1>1 DEF HandleFile, ClearScreen
  <2>2. new \in Runs /\ new.file = "last"
    BY DEF Runs, Ages
  <2> QED BY <2>1, <2>2 DEF OneFileOnItsWay
<1>2. CASE f \notin Accepted
  BY <1>2 DEF HandleFile, KeepScreen, load, OneFileOnItsWay
<1> QED BY <1>1, <1>2

LEMMA RunMovesOn ==
  ASSUME OneFileOnItsWay, NEW r \in runs, NEW s \in Runs, s.file = r.file, Becomes(r, s)
  PROVE  OneFileOnItsWay'
<1>1. runs = {r} /\ r.file = "last" /\ shown = None
  BY DEF OneFileOnItsWay
<1>2. runs' = {s} /\ UNCHANGED <<shown, loading>>
  BY <1>1 DEF Becomes
<1> QED BY <1>1, <1>2 DEF OneFileOnItsWay

LEMMA RunGoesOn ==
  ASSUME OneFileOnItsWay, RunStep
  PROVE  OneFileOnItsWay'
<1>1. PICK r \in runs :
        \/ RunFails(r) \/ Uploaded(r) \/ Analyzed(r)
        \/ \E part \in Parts : PartFetched(r, part) \/ AllFetched(r, part)
  BY DEF RunStep
<1>2. runs = {r} /\ r.file = "last" /\ r \in Runs /\ shown = None
  BY DEF OneFileOnItsWay
<1>3. CASE RunFails(r)
  BY <1>2, <1>3 DEF RunFails, OneFileOnItsWay
<1>4. CASE Uploaded(r)
  <2>1. [r EXCEPT !.step = "analyze"] \in Runs /\ [r EXCEPT !.step = "analyze"].file = r.file
    BY <1>2 DEF Runs
  <2> QED BY <1>4, <2>1, RunMovesOn DEF Uploaded
<1>5. CASE Analyzed(r)
  <2>1. [r EXCEPT !.step = "fetch"] \in Runs /\ [r EXCEPT !.step = "fetch"].file = r.file
    BY <1>2 DEF Runs
  <2> QED BY <1>5, <2>1, RunMovesOn DEF Analyzed
<1>6. ASSUME NEW part \in Parts, PartFetched(r, part) PROVE OneFileOnItsWay'
  <2> DEFINE s == [r EXCEPT !.got = @ \cup {part}]
  <2>1. s \in Runs /\ s.file = r.file
    BY <1>2 DEF Runs
  <2> QED BY <1>6, <2>1, RunMovesOn DEF PartFetched
<1>7. ASSUME NEW part \in Parts, AllFetched(r, part) PROVE OneFileOnItsWay'
  BY <1>2, <1>7 DEF AllFetched, OneFileOnItsWay
<1> QED BY <1>1, <1>3, <1>4, <1>5, <1>6, <1>7

LEMMA FilesUndisturbed ==
  ASSUME OneFileOnItsWay, UNCHANGED files
  PROVE  OneFileOnItsWay'
BY DEF OneFileOnItsWay, files

(* Everything else on the page leaves the files alone. *)
Elsewhere ==
  \/ Export \/ (\E ok \in BOOLEAN : ExportAnswered(ok))
  \/ Moves
  \/ UsePanel \/ (\E i \in 1 .. PageSize : ClickPacket(i))
  \/ OpenSession \/ CloseViewer \/ UseViewer
  \/ PanelAnswer \/ ViewerAnswer \/ MarkerService

LEMMA ElsewhereIsElsewhere ==
  ASSUME Elsewhere
  PROVE  UNCHANGED files
<1> USE DEF files, load, desk
<1>1. CASE Export BY <1>1 DEF Export
<1>2. CASE \E ok \in BOOLEAN : ExportAnswered(ok) BY <1>2 DEF ExportAnswered
<1>3. CASE Moves BY <1>3 DEF Moves, Move
<1>4. CASE UsePanel BY <1>4 DEF UsePanel, PanelOnly
<1>5. CASE \E i \in 1 .. PageSize : ClickPacket(i)
  BY <1>5 DEF ClickPacket, SelectFlow, PanelOnly
<1>6. CASE OpenSession BY <1>6 DEF OpenSession, SelectFlow
<1>7. CASE CloseViewer BY <1>7 DEF CloseViewer
<1>8. CASE UseViewer BY <1>8 DEF UseViewer
<1>9. CASE PanelAnswer BY <1>9 DEF PanelAnswer, PanelOnly
<1>10. CASE ViewerAnswer BY <1>10 DEF ViewerAnswer
<1>11. CASE MarkerService BY <1>11 DEF MarkerService
<1> QED BY <1>1, <1>2, <1>3, <1>4, <1>5, <1>6, <1>7, <1>8, <1>9, <1>10, <1>11 DEF Elsewhere

LEMMA FilesStep ==
  ASSUME OneFileOnItsWay, [Next]_vars
  PROVE  OneFileOnItsWay'
<1>1. CASE UNCHANGED vars
  BY <1>1, FilesUndisturbed DEF vars, files
<1>2. ASSUME NEW f \in Files, ChooseFile(f) \/ DropFile(f) PROVE OneFileOnItsWay'
  BY <1>2, GivenAFile DEF ChooseFile, DropFile
<1>3. ASSUME NEW f \in Files, DropOnCompareZone(f) PROVE OneFileOnItsWay'
  <2>1. CASE f \in Accepted
    BY <1>3, <2>1, GivenAFile DEF DropOnCompareZone
  <2>2. CASE f \notin Accepted
    BY <1>3, <2>2, FilesUndisturbed DEF DropOnCompareZone, files, load
  <2> QED BY <2>1, <2>2
<1>4. CASE ResetToUpload
  BY <1>4 DEF ResetToUpload, ClearScreen, load, OneFileOnItsWay
<1>5. CASE RunStep
  BY <1>5, RunGoesOn
<1>6. CASE Elsewhere
  BY <1>6, ElsewhereIsElsewhere, FilesUndisturbed
<1> QED BY <1>1, <1>2, <1>3, <1>4, <1>5, <1>6 DEF Next, Elsewhere

(* A capture on the screen is that of the file given last, and no other    *)
(* file is on its way then: no slow upload can replace a later one.        *)
THEOREM LastFileIsShown == Spec => []DashboardOfLastFile
<1>1. Init => OneFileOnItsWay
  BY DEF Init, OneFileOnItsWay
<1>2. OneFileOnItsWay => DashboardOfLastFile
  BY DEF OneFileOnItsWay, DashboardOfLastFile
<1> QED BY <1>1, <1>2, FilesStep, PTL DEF Spec
-----------------------------------------------------------------------------
(* The panels keep their types: which one is on the screen says what the
   panel's record is. *)
LEMMA PanelOfItsKind ==
  ASSUME panel \in Panels
  PROVE  /\ At("packets")   => panel \in Table!Tables
         /\ At("explorer")  => panel \in Lists!Explorers
         /\ At("health")    => panel \in Lists!Healths
         /\ At("drilldown") => panel \in Drill!Drilldowns
         /\ At("timeline")  => panel \in Traffic!Timelines
         /\ At("compare")   => panel \in Compare!Compares
         /\ At("geoip") \/ At("yara") => panel \in Lookup!LookupPanels
BY DEF Panels, At, Table!Tables, Lists!Explorers, Lists!Healths, Drill!Drilldowns,
       Traffic!Timelines, Compare!Compares, Lookup!LookupPanels, Lookup!LookupKinds

LEMMA NotTheFirstPage ==
  ASSUME NEW n \in Nat, NEW s \in Nat \ {0}, n \div s + 1 # 1
  PROVE  n - s \in Nat
<1>1. n = s * (n \div s) + (n % s) /\ n % s \in 0 .. (s - 1) /\ n \div s \in Int
  OBVIOUS
<1>2. ASSUME n < s PROVE FALSE
  BY <1>1, <1>2
<1> QED BY <1>2

LEMMA AskingKeepsTable ==
  ASSUME NEW t \in Table!Tables, NEW p \in Promises, NEW off \in Nat, NEW f \in Filters
  PROVE  Table!Asking(t, p, off, f) \in Table!Tables
<1> DEFINE q == [filter |-> f, offset |-> off]
<1>1. q \in Table!Queries
  BY DEF Table!Queries
<1>2. Table!Asking(t, p, off, f) =
        [t EXCEPT !.loading = TRUE, !.expanded = None, !.loadError = FALSE,
                  !.asked = [t.asked EXCEPT ![p] = q], !.raced = (Table!InFlight # {})]
  BY DEF Table!Asking, Table!Tables
<1>3. [t.asked EXCEPT ![p] = q] \in [Promises -> Table!Queries \cup {None}]
  BY <1>1 DEF Table!Tables
<1> QED BY <1>2, <1>3 DEF Table!Tables

LEMMA TableKeepsType ==
  ASSUME panel \in Table!Tables,
         Table!Filtering \/ Table!TurnPage \/ Table!Arrival
           \/ \E i \in 1 .. PageSize : Table!ToggleRow(i)
  PROVE  panel' \in Table!Tables
<1> USE PacketPagesAssumption
<1>1. CASE Table!FirstLoad
  BY <1>1, AskingKeepsTable DEF Table!FirstLoad, Table!Load, Table!Tables
<1>2. CASE \E f \in Filters : Table!Type(f)
  BY <1>2 DEF Table!Type, Table!Tables
<1>3. CASE Table!ApplyFilter
  <2> DEFINE t == [panel EXCEPT !.applied = panel.filters]
  <2>1. t \in Table!Tables /\ panel.filters \in Filters
    BY DEF Table!Tables
  <2>2. PICK p \in Promises : panel' = Table!Asking(t, p, 0, panel.filters)
    BY <1>3 DEF Table!ApplyFilter, Table!Load
  <2> QED BY <2>1, <2>2, AskingKeepsTable
<1>4. ASSUME NEW f \in Filters, Table!ApplyPreset(f) PROVE panel' \in Table!Tables
  <2> DEFINE t == [panel EXCEPT !.filters = f, !.applied = f]
  <2>1. t \in Table!Tables
    BY DEF Table!Tables
  <2>2. PICK p \in Promises : panel' = Table!Asking(t, p, 0, f)
    BY <1>4 DEF Table!ApplyPreset, Table!Load
  <2> QED BY <2>1, <2>2, AskingKeepsTable
<1>5. ASSUME Table!TurnPage PROVE panel' \in Table!Tables
  <2>1. panel.rows \in Queries /\ panel.rows.offset \in Nat /\ panel.applied \in Filters
    BY <1>5 DEF Table!TurnPage, Table!PreviousPage, Table!NextPage, Table!Loaded,
                Table!Tables, Table!Queries, Queries
  <2>2. CASE Table!PreviousPage
    <3>1. panel.rows.offset - PageSize \in Nat
      BY <2>1, <2>2, NotTheFirstPage DEF Table!PreviousPage, Table!CurrentPage
    <3> QED BY <2>1, <2>2, <3>1, AskingKeepsTable DEF Table!PreviousPage, Table!Load
  <2>3. CASE Table!NextPage
    <3>1. panel.rows.offset + PageSize \in Nat
      BY <2>1
    <3> QED BY <2>1, <2>3, <3>1, AskingKeepsTable DEF Table!NextPage, Table!Load
  <2> QED BY <1>5, <2>2, <2>3 DEF Table!TurnPage
<1>6. CASE Table!Arrival
  <2>1. PICK p \in Promises, ok \in BOOLEAN : Table!Answered(p, ok)
    BY <1>6 DEF Table!Arrival
  <2>2. panel.asked[p] \in Table!Queries
    BY <2>1 DEF Table!Answered, Table!InFlight, Table!Tables
  <2>3. [panel.asked EXCEPT ![p] = None] \in [Promises -> Table!Queries \cup {None}]
    BY DEF Table!Tables
  <2>4. panel' = [panel EXCEPT !.rows = IF ok THEN panel.asked[p] ELSE panel.rows,
                               !.loadError = IF ok THEN panel.loadError ELSE TRUE,
                               !.loading = FALSE,
                               !.asked = [panel.asked EXCEPT ![p] = None]]
    BY <2>1 DEF Table!Answered, Table!Tables
  <2> QED BY <2>2, <2>3, <2>4 DEF Table!Tables
<1>7. CASE \E i \in 1 .. PageSize : Table!ToggleRow(i)
  BY <1>7 DEF Table!ToggleRow, Table!Tables
<1> QED BY <1>1, <1>2, <1>3, <1>4, <1>5, <1>6, <1>7 DEF Table!Filtering, Table!ClearFilter

LEMMA ExplorerKeepsType ==
  ASSUME panel \in Lists!Explorers,
         Lists!UseExplorer \/ \E ok \in BOOLEAN : Lists!HealthAnswered(ok)
  PROVE  panel' \in Lists!Explorers
<1>1. ASSUME NEW f \in IpFilters, Lists!TypeIp(f) PROVE panel' \in Lists!Explorers
  BY <1>1 DEF Lists!TypeIp, Lists!Explorers
<1>2. CASE Lists!ToggleCriticalOnly
  BY <1>2 DEF Lists!ToggleCriticalOnly, Lists!Explorers
<1>3. ASSUME NEW s \in Lists!FilteredSessions, Lists!Select(s) PROVE panel' \in Lists!Explorers
  <2>1. s \in Sessions
    BY DashboardAssumption DEF Lists!FilteredSessions, Lists!Explorers
  <2> QED BY <1>3, <2>1 DEF Lists!Select, Lists!Explorers
<1>4. CASE Lists!Deselect
  BY <1>4 DEF Lists!Deselect, Lists!Explorers
<1>5. ASSUME NEW ok \in BOOLEAN, Lists!HealthAnswered(ok) PROVE panel' \in Lists!Explorers
  BY <1>5 DEF Lists!HealthAnswered, Lists!Explorers
<1> QED BY <1>1, <1>2, <1>3, <1>4, <1>5 DEF Lists!UseExplorer

LEMMA HealthKeepsType ==
  ASSUME panel \in Lists!Healths,
         Lists!UseHealth \/ \E ok \in BOOLEAN : Lists!HealthAnswered(ok)
  PROVE  panel' \in Lists!Healths
<1>1. CASE Lists!Run
  BY <1>1 DEF Lists!Run, Lists!Healths
<1>2. ASSUME NEW st \in Lists!Statuses, Lists!ToggleStatus(st) PROVE panel' \in Lists!Healths
  BY <1>2 DEF Lists!ToggleStatus, Lists!Healths
<1>3. ASSUME NEW s \in Lists!Visible, Lists!Select(s) PROVE panel' \in Lists!Healths
  BY <1>3 DEF Lists!Visible, Lists!Select, Lists!Healths
<1>4. CASE Lists!Deselect
  BY <1>4 DEF Lists!Deselect, Lists!Healths
<1>5. ASSUME NEW ok \in BOOLEAN, Lists!HealthAnswered(ok) PROVE panel' \in Lists!Healths
  BY <1>5 DEF Lists!HealthAnswered, Lists!Healths
<1> QED BY <1>1, <1>2, <1>3, <1>4, <1>5 DEF Lists!UseHealth

LEMMA DrilldownKeepsType ==
  ASSUME panel \in Drill!Drilldowns,
         Drill!UseDrilldown \/ Drill!DrillArrival
  PROVE  panel' \in Drill!Drilldowns
<1>1. ASSUME NEW s \in Subjects, Drill!OpenDrill(s) PROVE panel' \in Drill!Drilldowns
  <2>1. PICK p \in DrillAsks : panel' = [panel EXCEPT !.loading = TRUE, !.asked[p] = s]
    BY <1>1 DEF Drill!OpenDrill
  <2> QED BY <2>1 DEF Drill!Drilldowns
<1>2. CASE Drill!CloseDrill
  BY <1>2 DEF Drill!CloseDrill, Drill!Drilldowns
<1>3. ASSUME NEW p \in DrillAsks, NEW ok \in BOOLEAN, Drill!DrillAnswered(p, ok)
      PROVE  panel' \in Drill!Drilldowns
  BY <1>3 DEF Drill!DrillAnswered, Drill!Drilling, Drill!Drilldowns
<1> QED BY <1>1, <1>2, <1>3 DEF Drill!UseDrilldown, Drill!DrillArrival

LEMMA LookupKeepsType ==
  ASSUME panel \in Lookup!LookupPanels, Lookup!LookupAnswer
  PROVE  panel' \in Lookup!LookupPanels
BY DEF Lookup!LookupAnswer, Lookup!LookupAnswered, Lookup!LookupPanels

LEMMA ComparingKeepsType ==
  ASSUME NEW c \in Compare!Compares, NEW f \in Files
  PROVE  Compare!Comparing(c, f) \in Compare!Compares
<1> DEFINE w == [file |-> f, step |-> "upload"]
<1>1. CASE f \in Accepted
  <2>1. w \in Compare!Works
    BY <1>1 DEF Compare!Works
  <2> QED BY <1>1, <2>1 DEF Compare!Comparing, Compare!Compares
<1>2. CASE f \notin Accepted
  BY <1>2 DEF Compare!Comparing, Compare!Compares
<1> QED BY <1>1, <1>2

LEMMA CompareKeepsType ==
  ASSUME panel \in Compare!Compares,
         Compare!UseCompare \/ Compare!CompareAnswer
  PROVE  panel' \in Compare!Compares
<1> USE DashboardAssumption
<1>1. ASSUME NEW f \in Files, Compare!ChooseOther(f) PROVE panel' \in Compare!Compares
  BY <1>1, ComparingKeepsType DEF Compare!ChooseOther
<1>2. ASSUME NEW t \in Compare!Tabs, Compare!ChooseTab(t) PROVE panel' \in Compare!Compares
  BY <1>2 DEF Compare!ChooseTab, Compare!Compares
<1>3. CASE Compare!OpenModal
  BY <1>3 DEF Compare!OpenModal, Compare!Compares
<1>4. CASE Compare!CloseModal
  BY <1>4 DEF Compare!CloseModal, Compare!Compares
<1>5. CASE Compare!CompareAnother
  BY <1>5 DEF Compare!CompareAnother, Compare!Compares
<1>6. ASSUME NEW w \in panel.works, NEW ok \in BOOLEAN, Compare!CompareStep(w, ok)
      PROVE  panel' \in Compare!Compares
  <2>1. w \in Compare!Works /\ w.file \in Files
    BY DEF Compare!Compares, Compare!Works
  <2>2. CASE ~ok
    BY <1>6, <2>2 DEF Compare!CompareStep, Compare!Compares
  <2>3. CASE ok /\ w.step = "compare"
    BY <1>6, <2>1, <2>3 DEF Compare!CompareStep, Compare!Compares, Compare!Tabs
  <2>4. CASE ok /\ w.step # "compare"
    <3> DEFINE n == [w EXCEPT !.step = Compare!NextStep[@]]
    <3>1. n \in Compare!Works
      BY <2>1, <2>4 DEF Compare!Works, Compare!NextStep
    <3> QED BY <1>6, <2>4, <3>1 DEF Compare!CompareStep, Compare!Compares
  <2> QED BY <2>2, <2>3, <2>4
<1> QED BY <1>1, <1>2, <1>3, <1>4, <1>5, <1>6 DEF Compare!UseCompare, Compare!CompareAnswer

LEMMA MountedInItsType ==
  /\ Mounted("explorer") \in Lists!Explorers
  /\ Mounted("packets") \in Table!Tables
  /\ Mounted("timeline") \in Traffic!Timelines
  /\ Mounted("drilldown") \in Drill!Drilldowns
  /\ Mounted("health") \in Lists!Healths
  /\ Mounted("compare") \in Compare!Compares
  /\ Mounted("geoip") \in Lookup!LookupPanels
  /\ Mounted("yara") \in Lookup!LookupPanels
<1> USE DashboardAssumption, PacketPagesAssumption DEF Mounted
<1>1. Mounted("explorer") \in Lists!Explorers
  BY DEF Lists!ExplorerMounted, Lists!Explorers
<1>2. Mounted("packets") \in Table!Tables
  BY DEF Table!TableMounted, Table!Tables
<1>3. Mounted("timeline") \in Traffic!Timelines
  BY DEF Traffic!TimelineMounted, Traffic!Timelines
<1>4. Mounted("drilldown") \in Drill!Drilldowns
  BY DEF Drill!DrilldownMounted, Drill!Drilldowns
<1>5. Mounted("health") \in Lists!Healths
  BY DEF Lists!HealthMounted, Lists!Healths
<1>6. Mounted("compare") \in Compare!Compares
  BY DEF Compare!CompareMounted, Compare!Compares, Compare!Tabs
<1>7. Mounted("geoip") \in Lookup!LookupPanels /\ Mounted("yara") \in Lookup!LookupPanels
  BY DEF Lookup!LookupMounted, Lookup!LookupPanels, Lookup!LookupKinds
<1> QED BY <1>1, <1>2, <1>3, <1>4, <1>5, <1>6, <1>7

LEMMA MoveMounts ==
  ASSUME NEW l, NEW t, Move(l, t), l \in Layers, t \in InvTabs
  PROVE  panel' \in Panels
<1>1. CASE PanelsAt(l, t) = {}
  BY <1>1 DEF Move, Panels
<1>2. CASE PanelsAt(l, t) # {}
  <2>1. PICK k \in PanelsAt(l, t) : panel' = Mounted(k)
    BY <1>2 DEF Move
  <2>2. k \in {"explorer", "packets", "timeline", "drilldown", "health", "compare",
               "geoip", "yara"}
    BY <2>1 DEF PanelsAt, Layers, InvTabs
  <2> QED BY <2>1, <2>2, MountedInItsType DEF Panels
<1> QED BY <1>1, <1>2

-----------------------------------------------------------------------------
(* A save that has a panel of its own has the timeline on the screen; one
   whose panel is gone waits for the server only. *)
PostsOfPanel ==
  /\ shown = None => panel = None /\ \A p \in Saves : posts[p] = None
  /\ \A p \in Saves :
       /\ posts[p] # None /\ posts[p].step # "sent" => posts[p].mine
       /\ posts[p] # None /\ posts[p].mine => panel \in Traffic!Timelines

MarkersType ==
  /\ notes = None \/ (notes \in Seq(Ranges) /\ Len(notes) <= MaxNotes)
  /\ posts \in [Saves -> Traffic!Posts \cup {None}]

LEMMA TimelineKeepsType ==
  ASSUME panel \in Traffic!Timelines, MarkersType, PostsOfPanel,
         Traffic!UseTimeline \/ Traffic!MarkersAnswer
  PROVE  panel' \in Traffic!Timelines /\ MarkersType' /\ \A p \in Saves :
           /\ posts'[p] # None /\ posts'[p].step # "sent" => posts'[p].mine
           /\ posts'[p] # None /\ posts'[p].mine => panel' \in Traffic!Timelines
<1>1. ASSUME NEW r \in Ranges, Traffic!Relayout(r)
      PROVE  panel' \in Traffic!Timelines /\ UNCHANGED <<notes, posts>>
  BY <1>1 DEF Traffic!Relayout, Traffic!Timelines
<1>2. ASSUME Traffic!TypeComment PROVE panel' \in Traffic!Timelines /\ UNCHANGED <<notes, posts>>
  BY <1>2 DEF Traffic!TypeComment, Traffic!Timelines
<1>3. ASSUME Traffic!CancelMarker PROVE panel' \in Traffic!Timelines /\ UNCHANGED <<notes, posts>>
  BY <1>3 DEF Traffic!CancelMarker, Traffic!Timelines
<1>4. ASSUME Traffic!ReadMarkers PROVE panel' \in Traffic!Timelines /\ UNCHANGED <<notes, posts>>
  BY <1>4 DEF Traffic!ReadMarkers, Traffic!Timelines, MarkersType
<1>5. ASSUME Traffic!MarkersArrive PROVE panel' \in Traffic!Timelines /\ UNCHANGED <<notes, posts>>
  <2>1. <<>> \in Seq(Ranges) /\ panel.answer \in Seq(Ranges)
    BY DEF Traffic!Timelines
  <2> QED BY <1>5, <2>1 DEF Traffic!MarkersArrive, Traffic!Timelines
<1>6. ASSUME Traffic!MarkersFail PROVE panel' \in Traffic!Timelines /\ UNCHANGED <<notes, posts>>
  BY <1>6 DEF Traffic!MarkersFail, Traffic!Timelines
<1>7. ASSUME panel' \in Traffic!Timelines, UNCHANGED <<notes, posts>>
      PROVE  MarkersType' /\ \A p \in Saves :
               /\ posts'[p] # None /\ posts'[p].step # "sent" => posts'[p].mine
               /\ posts'[p] # None /\ posts'[p].mine => panel' \in Traffic!Timelines
  BY <1>7 DEF MarkersType, PostsOfPanel
<1>8. ASSUME NEW p \in Saves, Traffic!SaveMarker(p)
      PROVE  panel' \in Traffic!Timelines /\ MarkersType' /\ \A q \in Saves :
               /\ posts'[q] # None /\ posts'[q].step # "sent" => posts'[q].mine
               /\ posts'[q] # None /\ posts'[q].mine => panel' \in Traffic!Timelines
  <2> DEFINE post == [range |-> panel.pending, step |-> "sent", mine |-> TRUE]
  <2>1. post \in Traffic!Posts /\ panel' \in Traffic!Timelines
    BY <1>8 DEF Traffic!SaveMarker, Traffic!Timelines, Traffic!Posts
  <2>2. posts' = [posts EXCEPT ![p] = post] /\ notes' = notes
    BY <1>8 DEF Traffic!SaveMarker
  <2> QED BY <2>1, <2>2 DEF MarkersType, PostsOfPanel
<1> QED
  BY <1>1, <1>2, <1>3, <1>4, <1>5, <1>6, <1>7, <1>8 DEF Traffic!UseTimeline, Traffic!MarkersAnswer

LEMMA MarkersKeepType ==
  ASSUME panel \in Panels, MarkersType, PostsOfPanel, Traffic!ServeMarkers
  PROVE  /\ panel' = panel \/ (panel \in Traffic!Timelines /\ panel' \in Traffic!Timelines)
         /\ MarkersType'
         /\ \A p \in Saves :
           /\ posts'[p] # None /\ posts'[p].step # "sent" => posts'[p].mine
           /\ posts'[p] # None /\ posts'[p].mine => panel' \in Traffic!Timelines
<1> USE DashboardAssumption DEF MarkersType, PostsOfPanel
<1>1. ASSUME NEW p \in Saves, NEW stored \in BOOLEAN, NEW told \in BOOLEAN,
             Traffic!StoreMarker(p, stored, told)
      PROVE  /\ panel' = panel \/ (panel \in Traffic!Timelines /\ panel' \in Traffic!Timelines)
             /\ MarkersType' /\ \A q \in Saves :
               /\ posts'[q] # None /\ posts'[q].step # "sent" => posts'[q].mine
               /\ posts'[q] # None /\ posts'[q].mine => panel' \in Traffic!Timelines
  <2>1. posts[p] \in Traffic!Posts /\ posts[p] # None
    BY <1>1 DEF Traffic!StoreMarker, Traffic!Stores
  <2>2. notes' = None \/ (notes' \in Seq(Ranges) /\ Len(notes') <= MaxNotes)
    <3>1. CASE stored
      <4>1. /\ notes \in Seq(Ranges) /\ Len(notes) < MaxNotes
            /\ notes' = Append(notes, posts[p].range) /\ posts[p].range \in Ranges
        BY <1>1, <2>1, <3>1 DEF Traffic!StoreMarker, Traffic!Stores, Traffic!Posts
      <4> QED BY <4>1
    <3>2. CASE ~stored
      BY <1>1, <3>2 DEF Traffic!StoreMarker, Traffic!Stores
    <3> QED BY <3>1, <3>2
  <2>3. CASE posts[p].mine
    <3> DEFINE post == [posts[p] EXCEPT !.step = IF told THEN "stored" ELSE "failed"]
    <3>1. post \in Traffic!Posts /\ post.mine = posts[p].mine
      BY <2>1 DEF Traffic!Posts
    <3>2. posts' = [posts EXCEPT ![p] = post]
      BY <1>1, <2>3 DEF Traffic!StoreMarker, Traffic!Stores
    <3>3. panel \in Traffic!Timelines
      BY <2>1, <2>3
    <3>4. panel' \in Traffic!Timelines
      <4>1. panel' \in {panel, [panel EXCEPT !.mixed = TRUE]}
        BY <1>1 DEF Traffic!StoreMarker, Traffic!Stores
      <4> QED BY <3>3, <4>1 DEF Traffic!Timelines
    <3> HIDE DEF post
    <3> QED BY <2>1, <2>2, <2>3, <3>1, <3>2, <3>3, <3>4
  <2>4. CASE ~posts[p].mine
    BY <1>1, <2>1, <2>2, <2>4 DEF Traffic!StoreMarker, Traffic!Stores
  <2> QED BY <2>3, <2>4
<1>2. ASSUME NEW p \in Saves, Traffic!Saved(p)
      PROVE  panel \in Traffic!Timelines /\ panel' \in Traffic!Timelines /\ MarkersType'
             /\ \A q \in Saves :
               /\ posts'[q] # None /\ posts'[q].step # "sent" => posts'[q].mine
               /\ posts'[q] # None /\ posts'[q].mine => panel' \in Traffic!Timelines
  <2>1. posts[p] \in Traffic!Posts /\ posts[p].range \in Ranges /\ panel \in Traffic!Timelines
    BY <1>2 DEF Traffic!Saved, Traffic!Shows, Traffic!Posts
  <2>2. panel' \in Traffic!Timelines
    <3> DEFINE stored == posts[p].step = "stored"
               ms == IF stored THEN Append(panel.markers, posts[p].range) ELSE panel.markers
               err == panel.saveErr \/ posts[p].step = "failed"
    <3>1. panel.markers \in Seq(Ranges) /\ panel.saveErr \in BOOLEAN
      BY <2>1 DEF Traffic!Timelines
    <3>2. ms \in Seq(Ranges) /\ err \in BOOLEAN
      BY <2>1, <3>1
    <3>3. panel' = [panel EXCEPT !.markers = ms, !.saveErr = err, !.pending = None,
                                 !.comment = FALSE]
      BY <1>2 DEF Traffic!Saved, Traffic!Shows
    <3> HIDE DEF stored, ms, err
    <3> QED BY <2>1, <3>2, <3>3 DEF Traffic!Timelines
  <2>3. posts' = [posts EXCEPT ![p] = None] /\ notes' = notes
    BY <1>2 DEF Traffic!Saved, Traffic!Shows
  <2> QED BY <2>1, <2>2, <2>3
<1> QED BY <1>1, <1>2 DEF Traffic!ServeMarkers

LEMMA ViewerKeepsType ==
  ASSUME viewer \in Viewer!Viewers, Viewer!UseViewer \/ Viewer!ViewerAnswer
  PROVE  viewer' \in Viewer!Viewers
<1>1. ASSUME NEW e \in Viewer!Encodings, NEW o \in SUBSET Viewer!Encodings
      PROVE  Viewer!AskStream(e, o) \in Viewer!Streams
  BY DEF Viewer!AskStream, Viewer!Streams
<1>2. ASSUME NEW v \in Viewer!Views, Viewer!SetView(v) PROVE viewer' \in Viewer!Viewers
  <2>1. Viewer!AskStream("ascii", {}) \in Viewer!Streams
    BY <1>1 DEF Viewer!Encodings
  <2> QED BY <1>2, <2>1 DEF Viewer!SetView, Viewer!Viewers
<1>3. ASSUME NEW e \in Viewer!Encodings, Viewer!SetEncoding(e) PROVE viewer' \in Viewer!Viewers
  <2>1. viewer.stream \in Viewer!Streams
    BY <1>3 DEF Viewer!SetEncoding, Viewer!StreamShown, Viewer!Viewers
  <2>2. Viewer!AskStream(e, viewer.stream.asked) \in Viewer!Streams
    BY <1>1, <2>1 DEF Viewer!Streams
  <2> QED BY <1>3, <2>2 DEF Viewer!SetEncoding, Viewer!Viewers
<1>4. ASSUME NEW ok \in BOOLEAN, Viewer!FlowAnswered(ok) PROVE viewer' \in Viewer!Viewers
  BY <1>4 DEF Viewer!FlowAnswered, Viewer!Viewers
<1>5. ASSUME NEW e \in Viewer!Encodings, NEW a, Viewer!StreamAnswered(e, a)
      PROVE  viewer' \in Viewer!Viewers
  <2> DEFINE st == viewer.stream
             nw == [st EXCEPT !.data = IF a = "failed" THEN @ ELSE a,
                              !.error = @ \/ a = "failed",
                              !.loading = FALSE, !.asked = @ \ {e}]
  <2>1. st \in Viewer!Streams
    BY <1>5 DEF Viewer!StreamAnswered, Viewer!Viewers
  <2>2. nw \in Viewer!Streams
    BY <1>5, <2>1 DEF Viewer!StreamAnswered, Viewer!Streams, Viewer!StreamData
  <2>3. viewer' = [viewer EXCEPT !.stream = nw]
    BY <1>5, <2>1 DEF Viewer!StreamAnswered, Viewer!Streams, Viewer!Viewers
  <2> QED BY <2>2, <2>3 DEF Viewer!Viewers
<1>6. ASSUME NEW i \in Payloads, Viewer!ToggleLadderRow(i) \/ Viewer!TogglePacketRow(i)
      PROVE  viewer' \in Viewer!Viewers
  <2>1. CASE Viewer!ToggleLadderRow(i)
    <3>1. viewer' = [viewer EXCEPT !.open = IF i \in viewer.open THEN {} ELSE {i}]
      BY <2>1 DEF Viewer!ToggleLadderRow, Viewer!Viewers
    <3> QED BY <2>1, <3>1 DEF Viewer!ToggleLadderRow, Viewer!Viewers
  <2>2. CASE Viewer!TogglePacketRow(i)
    <3>1. \E o \in SUBSET Payloads : viewer' = [viewer EXCEPT !.open = o]
      BY <2>2 DEF Viewer!TogglePacketRow, Viewer!Viewers
    <3> QED BY <2>2, <3>1 DEF Viewer!TogglePacketRow, Viewer!Viewers
  <2> QED BY <1>6, <2>1, <2>2
<1> QED BY <1>2, <1>3, <1>4, <1>5, <1>6 DEF Viewer!UseViewer, Viewer!ViewerAnswer

-----------------------------------------------------------------------------
PageInv == TypeOK /\ OneFileOnItsWay /\ PostsOfPanel

(* What is left once the files and the panel are known to be in order. *)
Rest ==
  /\ error \in BOOLEAN /\ exporting \in BOOLEAN
  /\ layer \in Layers /\ invTab \in InvTabs
  /\ flow \in {None, "shown", "earlier"}
  /\ viewer \in Viewer!Viewers \cup {None}

LEMMA TypeOKParts ==
  OneFileOnItsWay /\ panel \in Panels /\ MarkersType /\ Rest => TypeOK
BY DEF OneFileOnItsWay, MarkersType, Rest, TypeOK, Ages

LEMMA FreshViewer == Viewer!ViewerMounted \in Viewer!Viewers
BY DEF Viewer!ViewerMounted, Viewer!Viewers, Viewer!Views

LEMMA ScreenCleared ==
  ASSUME PageInv, ClearScreen
  PROVE  panel' \in Panels /\ MarkersType' /\ PostsOfPanel'
         /\ flow' \in {None, "shown", "earlier"} /\ viewer' \in Viewer!Viewers \cup {None}
<1>1. <<>> \in Seq(Ranges) /\ Len(<<>>) = 0
  OBVIOUS
<1> QED BY <1>1, DashboardAssumption
     DEF ClearScreen, MarkersType, PostsOfPanel, PageInv, TypeOK, Panels

LEMMA FileKeepsPage ==
  ASSUME PageInv, NEW f \in Files, HandleFile(f)
  PROVE  panel' \in Panels /\ MarkersType' /\ PostsOfPanel' /\ Rest'
<1>1. CASE f \in Accepted
  BY <1>1, ScreenCleared DEF HandleFile, Rest, PageInv, TypeOK
<1>2. CASE f \notin Accepted
  BY <1>2 DEF HandleFile, KeepScreen, Rest, PageInv, TypeOK, MarkersType, PostsOfPanel
<1> QED BY <1>1, <1>2

(* A step of the panel on the screen, which keeps it what it is. *)
LEMMA PanelKeepsPage ==
  ASSUME PageInv, UNCHANGED <<error, exporting, layer, invTab, notes, posts>>,
         flow' \in {None, "shown", "earlier"}, viewer' \in Viewer!Viewers \cup {None},
         panel' \in Panels, shown # None, shown' = shown,
         panel \in Traffic!Timelines => panel' \in Traffic!Timelines
  PROVE  panel' \in Panels /\ MarkersType' /\ PostsOfPanel' /\ Rest'
BY DEF PageInv, TypeOK, MarkersType, PostsOfPanel, Rest

LEMMA KindsApart ==
  ASSUME At("packets") \/ At("explorer") \/ At("health") \/ At("drilldown") \/ At("compare")
           \/ At("geoip") \/ At("yara")
  PROVE  panel \notin Traffic!Timelines
BY DEF At, Traffic!Timelines

LEMMA UseKeepsPanel ==
  ASSUME PageInv, At("packets") \/ At("explorer") \/ At("health") \/ At("drilldown")
                    \/ At("compare") \/ At("geoip") \/ At("yara"),
         \/ At("packets") /\ (Table!Filtering \/ Table!TurnPage \/ Table!Arrival
                                \/ \E i \in 1 .. PageSize : Table!ToggleRow(i))
         \/ At("explorer") /\ Lists!UseExplorer
         \/ At("health") /\ Lists!UseHealth
         \/ (At("explorer") \/ At("health")) /\ \E ok \in BOOLEAN : Lists!HealthAnswered(ok)
         \/ At("drilldown") /\ (Drill!UseDrilldown \/ Drill!DrillArrival)
         \/ At("compare") /\ (Compare!UseCompare \/ Compare!CompareAnswer)
         \/ (At("geoip") \/ At("yara")) /\ Lookup!LookupAnswer
         \/ UNCHANGED panel
  PROVE  panel' \in Panels /\ shown # None /\ panel \notin Traffic!Timelines
<1>1. panel \in Panels /\ shown # None
  BY DEF PageInv, TypeOK, PostsOfPanel, At
<1>2. panel' \in Panels
  BY <1>1, PanelOfItsKind, TableKeepsType, ExplorerKeepsType, HealthKeepsType,
     DrilldownKeepsType, CompareKeepsType, LookupKeepsType DEF Panels
<1> QED BY <1>1, <1>2, KindsApart

LEMMA PageStep ==
  ASSUME PageInv, [Next]_vars
  PROVE  PageInv'
<1> SUFFICES panel' \in Panels /\ MarkersType' /\ PostsOfPanel' /\ Rest'
  <2>1. OneFileOnItsWay'
    BY FilesStep DEF PageInv
  <2>2. ASSUME panel' \in Panels, MarkersType', PostsOfPanel', Rest' PROVE TypeOK'
    BY <2>1, <2>2 DEF OneFileOnItsWay, MarkersType, Rest, TypeOK, Ages
  <2> QED BY <2>1, <2>2 DEF PageInv
<1>1. CASE UNCHANGED <<error, exporting, layer, invTab, flow, viewer, notes, posts, panel, shown>>
  BY <1>1 DEF PageInv, TypeOK, MarkersType, PostsOfPanel, Rest
<1>2. ASSUME NEW f \in Files, ChooseFile(f) \/ DropFile(f)
      PROVE  panel' \in Panels /\ MarkersType' /\ PostsOfPanel' /\ Rest'
  BY <1>2, FileKeepsPage DEF ChooseFile, DropFile
<1>3. ASSUME NEW f \in Files, DropOnCompareZone(f)
      PROVE  panel' \in Panels /\ MarkersType' /\ PostsOfPanel' /\ Rest'
  <2>1. CASE f \in Accepted
    BY <1>3, <2>1, FileKeepsPage DEF DropOnCompareZone
  <2>2. CASE f \notin Accepted
    <3>1. At("compare") /\ panel \in Compare!Compares
      BY <1>3, PanelOfItsKind DEF DropOnCompareZone, OverCompareZone, PageInv, TypeOK
    <3>2. panel' \in Panels
      BY <1>3, <2>2, <3>1, ComparingKeepsType DEF DropOnCompareZone, Panels
    <3> QED BY <1>3, <2>2, <3>1, <3>2, KindsApart
         DEF DropOnCompareZone, PageInv, TypeOK, MarkersType, PostsOfPanel, Rest
  <2> QED BY <2>1, <2>2
<1>4. CASE ResetToUpload
  BY <1>4, ScreenCleared DEF ResetToUpload, Rest, PageInv, TypeOK
<1>5. CASE RunStep
  <2>1. PICK r \in runs :
          \/ RunFails(r) \/ Uploaded(r) \/ Analyzed(r)
          \/ \E part \in Parts : PartFetched(r, part) \/ AllFetched(r, part)
    BY <1>5 DEF RunStep
  <2>2. CASE RunFails(r) \/ Uploaded(r) \/ Analyzed(r) \/ \E part \in Parts : PartFetched(r, part)
    <3>1. error' \in BOOLEAN /\ UNCHANGED <<exporting, layer, invTab, flow, viewer, notes, posts, panel, shown>>
      BY <2>2 DEF RunFails, Uploaded, Analyzed, PartFetched, Becomes, desk, PageInv, TypeOK
    <3> QED BY <3>1 DEF PageInv, TypeOK, MarkersType, PostsOfPanel, Rest
  <2>3. ASSUME NEW part \in Parts, AllFetched(r, part)
        PROVE  panel' \in Panels /\ MarkersType' /\ PostsOfPanel' /\ Rest'
    <3>1. shown = None /\ panel = None
      BY <2>3 DEF PageInv, OneFileOnItsWay, PostsOfPanel
    <3>2. panel' = None /\ viewer' \in Viewer!Viewers \cup {None} /\ layer' \in Layers
          /\ UNCHANGED <<error, exporting, invTab, flow, notes, posts>>
      BY <2>3, FreshViewer DEF AllFetched, Layers
    <3> QED BY <3>1, <3>2 DEF PageInv, TypeOK, MarkersType, PostsOfPanel, Rest, Panels
  <2> QED BY <2>1, <2>2, <2>3
<1>6. CASE Export \/ \E ok \in BOOLEAN : ExportAnswered(ok)
  BY <1>6 DEF Export, ExportAnswered, desk, PageInv, TypeOK, MarkersType, PostsOfPanel, Rest
<1>7. CASE Moves
  <2>1. PICK l \in Layers, t \in InvTabs : Move(l, t)
    BY <1>7 DEF Moves, Layers, PageInv, TypeOK
  <2>2. panel' \in Panels
    BY <2>1, MoveMounts
  <2>3. posts' \in [Saves -> Traffic!Posts \cup {None}]
        /\ \A p \in Saves : posts'[p] # None => posts'[p].step = "sent" /\ ~posts'[p].mine
    BY <2>1 DEF Move, Traffic!PostsLeftBehind, Traffic!Posts, PageInv, TypeOK
  <2> QED BY <2>1, <2>2, <2>3 DEF Move, PageInv, TypeOK, MarkersType, PostsOfPanel, Rest
<1>8. CASE UsePanel
  <2>1. CASE At("timeline") /\ Traffic!UseTimeline
             /\ UNCHANGED <<shown, load, error, exporting, layer, invTab, flow, viewer>>
    <3>1. panel \in Traffic!Timelines /\ MarkersType /\ PostsOfPanel /\ shown # None
      BY <2>1, PanelOfItsKind DEF PageInv, TypeOK, MarkersType, PostsOfPanel, At
    <3> QED BY <2>1, <3>1, TimelineKeepsType DEF PageInv, TypeOK, PostsOfPanel, Rest, Panels
  <2>2. CASE ~(At("timeline") /\ Traffic!UseTimeline
             /\ UNCHANGED <<shown, load, error, exporting, layer, invTab, flow, viewer>>)
    <3>1. panel' \in Panels /\ shown # None /\ panel \notin Traffic!Timelines
      BY <1>8, <2>2, UseKeepsPanel DEF UsePanel
    <3>2. PanelOnly
      BY <1>8, <2>2 DEF UsePanel
    <3> QED BY <3>1, <3>2, PanelKeepsPage DEF PanelOnly, PageInv, TypeOK
  <2> QED BY <2>1, <2>2
<1>9. ASSUME NEW i \in 1 .. PageSize, ClickPacket(i)
      PROVE  panel' \in Panels /\ MarkersType' /\ PostsOfPanel' /\ Rest'
  <2>1. panel' \in Panels /\ shown # None /\ panel \notin Traffic!Timelines
    BY <1>9, UseKeepsPanel DEF ClickPacket
  <2>2. SelectFlow \/ PanelOnly
    BY <1>9 DEF ClickPacket
  <2> QED BY <2>1, <2>2, PanelKeepsPage, FreshViewer DEF SelectFlow, PanelOnly, PageInv, TypeOK
<1>10. CASE OpenSession
  <2>1. panel' \in Panels /\ shown # None /\ panel \notin Traffic!Timelines
    BY <1>10, UseKeepsPanel DEF OpenSession, Drill!UseDrilldown
  <2> QED BY <1>10, <2>1, PanelKeepsPage, FreshViewer DEF OpenSession, SelectFlow
<1>11. CASE CloseViewer
  BY <1>11 DEF CloseViewer, PageInv, TypeOK, MarkersType, PostsOfPanel, Rest
<1>12. CASE UseViewer \/ ViewerAnswer
  <2>1. viewer' \in Viewer!Viewers
    BY <1>12, ViewerKeepsType DEF UseViewer, ViewerAnswer, PageInv, TypeOK
  <2> QED BY <1>12, <2>1 DEF UseViewer, ViewerAnswer, PageInv, TypeOK, MarkersType, PostsOfPanel, Rest
<1>13. CASE PanelAnswer
  <2>1. CASE At("timeline") /\ Traffic!MarkersAnswer
    <3>1. panel \in Traffic!Timelines /\ MarkersType /\ PostsOfPanel /\ shown # None
      BY <2>1, PanelOfItsKind DEF PageInv, TypeOK, MarkersType, PostsOfPanel, At
    <3>2. panel' \in Traffic!Timelines
      BY <2>1, <3>1, TimelineKeepsType
    <3> QED BY <1>13, <3>1, <3>2, PanelKeepsPage DEF PanelAnswer, PanelOnly, PageInv, TypeOK, Panels
  <2>2. CASE ~(At("timeline") /\ Traffic!MarkersAnswer)
    <3>1. panel' \in Panels /\ shown # None /\ panel \notin Traffic!Timelines
      BY <1>13, <2>2, UseKeepsPanel DEF PanelAnswer
    <3> QED BY <1>13, <3>1, PanelKeepsPage DEF PanelAnswer, PanelOnly, PageInv, TypeOK
  <2> QED BY <2>1, <2>2
<1>14. CASE MarkerService
  <2>1. panel \in Panels /\ MarkersType /\ PostsOfPanel
    BY DEF PageInv, TypeOK, MarkersType
  <2>2. CASE Traffic!ServeMarkers
    <3>1. /\ panel' = panel \/ (panel \in Traffic!Timelines /\ panel' \in Traffic!Timelines)
          /\ MarkersType'
          /\ \A p \in Saves :
             /\ posts'[p] # None /\ posts'[p].step # "sent" => posts'[p].mine
             /\ posts'[p] # None /\ posts'[p].mine => panel' \in Traffic!Timelines
      BY <2>1, <2>2, MarkersKeepType
    <3>2. PICK p \in Saves : posts[p] # None
      BY <2>2 DEF Traffic!ServeMarkers, Traffic!StoreMarker, Traffic!Stores, Traffic!Saved,
                  Traffic!Shows
    <3>3. shown' # None
      BY <1>14, <2>1, <3>2 DEF MarkerService, PostsOfPanel
    <3> QED BY <1>14, <2>1, <3>1, <3>3 DEF MarkerService, PageInv, TypeOK, PostsOfPanel, Rest, Panels
  <2>3. CASE shown # None /\ Traffic!EvictMarkers
    <3>1. /\ notes' = None /\ panel' = panel
          /\ posts' = [p \in Saves |->
                         IF posts[p] # None /\ posts[p].mine THEN posts[p] ELSE None]
      BY <2>3 DEF Traffic!EvictMarkers
    <3>2. MarkersType' /\ PostsOfPanel'
      BY <1>14, <2>1, <2>3, <3>1 DEF MarkerService, MarkersType, PostsOfPanel
    <3> QED BY <1>14, <3>1, <3>2 DEF MarkerService, PageInv, TypeOK, Rest
  <2> QED BY <1>14, <2>2, <2>3 DEF MarkerService
<1> QED
  BY <1>1, <1>2, <1>3, <1>4, <1>5, <1>6, <1>7, <1>8, <1>9, <1>10, <1>11, <1>12, <1>13, <1>14
  DEF Next, vars, desk

LEMMA PageStarts ==
  ASSUME Init
  PROVE  PageInv
<1>1. <<>> \in Seq(Ranges) /\ Len(<<>>) = 0
  OBVIOUS
<1>2. MarkersType /\ PostsOfPanel
  BY <1>1, DashboardAssumption DEF Init, MarkersType, PostsOfPanel
<1>3. OneFileOnItsWay
  BY DEF Init, OneFileOnItsWay
<1>4. Rest /\ panel \in Panels
  BY DEF Init, Rest, Layers, InvTabs, Panels
<1> QED BY <1>2, <1>3, <1>4, TypeOKParts DEF PageInv

(* The page and its panels keep their types: no answer, late or early,     *)
(* leaves a panel in a state its rendering does not know, and the server   *)
(* never keeps more markers than it says.                                  *)
THEOREM PageKeepsType == Spec => []TypeOK
<1>1. Init => PageInv
  BY PageStarts
<1>2. PageInv => TypeOK
  BY DEF PageInv
<1> QED BY <1>1, <1>2, PageStep, PTL DEF Spec
-----------------------------------------------------------------------------
(* The stream waits for one answer at most, in the encoding that is lit. *)
OneStreamAsked ==
  viewer # None /\ viewer.stream # None =>
    /\ viewer.stream.asked = IF viewer.stream.loading THEN {viewer.stream.encoding} ELSE {}
    /\ StreamMatchesEncoding

LEMMA StreamStep ==
  ASSUME viewer \in Viewer!Viewers \cup {None}, OneStreamAsked, [Next]_vars
  PROVE  OneStreamAsked'
<1> USE DashboardAssumption
<1>1. CASE viewer' \in {None, viewer, Viewer!ViewerMounted}
  <2>1. CASE viewer' = viewer
    BY <2>1 DEF OneStreamAsked, StreamMatchesEncoding, Viewer!StreamMatchesEncoding
  <2>2. CASE viewer' = None
    BY <2>2 DEF OneStreamAsked
  <2>3. CASE viewer' = Viewer!ViewerMounted
    <3>1. viewer'.stream = None
      BY <2>3 DEF Viewer!ViewerMounted
    <3> QED BY <3>1 DEF OneStreamAsked
  <2> QED BY <1>1, <2>1, <2>2, <2>3
<1>2. ASSUME viewer \in Viewer!Viewers, viewer # None, Viewer!UseViewer \/ Viewer!ViewerAnswer
      PROVE  OneStreamAsked'
  <2> DEFINE Good(st) ==
        /\ st.asked = IF st.loading THEN {st.encoding} ELSE {}
        /\ st.data \in Viewer!Encodings => st.data = st.encoding
  <2>1. ASSUME viewer'.stream # None => Good(viewer'.stream) PROVE OneStreamAsked'
    BY <2>1 DEF OneStreamAsked, StreamMatchesEncoding, Viewer!StreamMatchesEncoding
  <2>2. ASSUME NEW e \in Viewer!Encodings PROVE Good(Viewer!AskStream(e, {}))
    BY DEF Viewer!AskStream, Viewer!Encodings
  <2>3. ASSUME NEW v \in Viewer!Views, Viewer!SetView(v)
        PROVE  viewer'.stream # None => Good(viewer'.stream)
    <3>1. viewer'.stream \in {Viewer!AskStream("ascii", {}), None}
      BY <1>2, <2>3 DEF Viewer!SetView, Viewer!Viewers
    <3> QED BY <2>2, <3>1 DEF Viewer!Encodings
  <2>4. ASSUME NEW e \in Viewer!Encodings, Viewer!SetEncoding(e)
        PROVE  viewer'.stream # None => Good(viewer'.stream)
    <3>1. viewer.stream.asked = {}
      BY <1>2, <2>4 DEF Viewer!SetEncoding, Viewer!StreamShown, OneStreamAsked
    <3>2. viewer'.stream = Viewer!AskStream(e, {})
      BY <1>2, <2>4, <3>1 DEF Viewer!SetEncoding, Viewer!Viewers
    <3> QED BY <2>2, <3>2
  <2>5. ASSUME NEW ok \in BOOLEAN, Viewer!FlowAnswered(ok)
        PROVE  viewer'.stream # None => Good(viewer'.stream)
    <3>1. viewer'.stream = viewer.stream
      BY <1>2, <2>5 DEF Viewer!FlowAnswered, Viewer!Viewers
    <3> QED BY <1>2, <3>1 DEF OneStreamAsked, StreamMatchesEncoding, Viewer!StreamMatchesEncoding
  <2>6. ASSUME NEW e \in Viewer!Encodings, NEW a, Viewer!StreamAnswered(e, a)
        PROVE  viewer'.stream # None => Good(viewer'.stream)
    <3> DEFINE st == viewer.stream
    <3>1. st \in Viewer!Streams /\ Good(st) /\ e \in st.asked
      BY <1>2, <2>6 DEF Viewer!StreamAnswered, Viewer!Viewers, OneStreamAsked,
                        StreamMatchesEncoding, Viewer!StreamMatchesEncoding
    <3>2. st.asked = {st.encoding} /\ e = st.encoding
      BY <3>1
    <3>3. viewer'.stream = [st EXCEPT !.data = IF a = "failed" THEN @ ELSE a,
                                      !.error = @ \/ a = "failed",
                                      !.loading = FALSE, !.asked = @ \ {e}]
      BY <1>2, <2>6, <3>1 DEF Viewer!StreamAnswered, Viewer!Streams, Viewer!Viewers
    <3>4. a \in {e, "empty", "failed"} /\ "empty" \notin Viewer!Encodings
      BY <2>6 DEF Viewer!StreamAnswered, Viewer!Encodings
    <3>5. viewer'.stream.asked = {} /\ ~viewer'.stream.loading
          /\ viewer'.stream.encoding = st.encoding
          /\ viewer'.stream.data = IF a = "failed" THEN st.data ELSE a
      BY <3>1, <3>2, <3>3 DEF Viewer!Streams
    <3> QED BY <3>1, <3>2, <3>4, <3>5
  <2>7. ASSUME NEW i \in Payloads, Viewer!ToggleLadderRow(i) \/ Viewer!TogglePacketRow(i)
        PROVE  viewer'.stream # None => Good(viewer'.stream)
    <3>1. viewer'.stream = viewer.stream
      BY <1>2, <2>7 DEF Viewer!ToggleLadderRow, Viewer!TogglePacketRow, Viewer!Viewers
    <3> QED BY <1>2, <3>1 DEF OneStreamAsked, StreamMatchesEncoding, Viewer!StreamMatchesEncoding
  <2> QED BY <1>2, <2>1, <2>3, <2>4, <2>5, <2>6, <2>7 DEF Viewer!UseViewer, Viewer!ViewerAnswer
<1>3. \/ viewer' \in {None, viewer, Viewer!ViewerMounted}
      \/ viewer # None /\ (Viewer!UseViewer \/ Viewer!ViewerAnswer)
  <2>1. CASE RunStep
    BY <2>1 DEF RunStep, RunFails, Uploaded, Analyzed, PartFetched, AllFetched, Becomes, desk
  <2>2. CASE \E f \in Files : ChooseFile(f) \/ DropOnCompareZone(f) \/ DropFile(f)
    BY <2>2 DEF ChooseFile, DropOnCompareZone, DropFile, HandleFile, ClearScreen, KeepScreen
  <2>3. CASE UsePanel \/ PanelAnswer \/ OpenSession \/ \E i \in 1 .. PageSize : ClickPacket(i)
    BY <2>3 DEF UsePanel, PanelAnswer, OpenSession, ClickPacket, SelectFlow, PanelOnly
  <2>4. CASE \/ ResetToUpload \/ Export \/ (\E ok \in BOOLEAN : ExportAnswered(ok))
             \/ Moves \/ CloseViewer \/ UseViewer \/ ViewerAnswer \/ MarkerService
             \/ UNCHANGED vars
    BY <2>4 DEF ResetToUpload, ClearScreen, Export, ExportAnswered, Moves, Move, CloseViewer,
                UseViewer, ViewerAnswer, MarkerService, vars, desk
  <2> QED BY <2>1, <2>2, <2>3, <2>4 DEF Next
<1> QED BY <1>1, <1>2, <1>3

(* The stream on the screen is in the encoding whose button is lit, with   *)
(* the viewer opened and closed over any panel.                            *)
THEOREM StreamIsAsChosen == Spec => []StreamMatchesEncoding
<1>1. Init => PageInv /\ OneStreamAsked
  BY PageStarts DEF Init, OneStreamAsked
<1>2. PageInv /\ OneStreamAsked /\ [Next]_vars => PageInv' /\ OneStreamAsked'
  BY PageStep, StreamStep DEF PageInv, TypeOK
<1>3. OneStreamAsked => StreamMatchesEncoding
  BY DEF OneStreamAsked, StreamMatchesEncoding, Viewer!StreamMatchesEncoding
<1> QED BY <1>1, <1>2, <1>3, PTL DEF Spec

-----------------------------------------------------------------------------
(* What a step does to the panel: nothing, one of the panel's own steps, a
   fresh panel, or none at all. *)
Unmounts == panel' = None
Mounts   == \E l \in Layers, t \in InvTabs : PanelsAt(l, t) # {} /\ \E k \in PanelsAt(l, t) : panel' = Mounted(k)

ComparePanelStep ==
  At("compare") /\
    (Compare!UseCompare \/ Compare!CompareAnswer
       \/ \E f \in Files \ Accepted : panel' = Compare!Comparing(panel, f))

ExplorerStep ==
  At("explorer") /\
    (Lists!UseExplorer \/ \E ok \in BOOLEAN : Lists!HealthAnswered(ok))

PanelStepElsewhere ==
  panel'.is \in {"health", "drilldown", "timeline", "geoip", "yara"}

TablePanelStep == At("packets") /\ Table!TableNext

LEMMA StepsOfPanels ==
  ASSUME PageInv, [Next]_vars
  PROVE  panel' = panel \/ Unmounts \/ Mounts \/ ComparePanelStep \/ ExplorerStep
           \/ TablePanelStep \/ PanelStepElsewhere
<1>1. PageInv'
  BY PageStep
<1>2. panel \in Panels /\ panel' \in Panels
  BY <1>1 DEF PageInv, TypeOK
<1>3. CASE RunStep
  BY <1>3 DEF RunStep, RunFails, Uploaded, Analyzed, PartFetched, AllFetched, Becomes, desk, Unmounts
<1>4. CASE \E f \in Files : ChooseFile(f) \/ DropFile(f)
  BY <1>4 DEF ChooseFile, DropFile, HandleFile, ClearScreen, KeepScreen, Unmounts
<1>5. CASE \E f \in Files : DropOnCompareZone(f)
  BY <1>5 DEF DropOnCompareZone, OverCompareZone, HandleFile, ClearScreen, Unmounts, ComparePanelStep
<1>6. CASE \/ ResetToUpload \/ Export \/ (\E ok \in BOOLEAN : ExportAnswered(ok))
           \/ CloseViewer \/ UseViewer \/ ViewerAnswer \/ UNCHANGED vars
  BY <1>6 DEF ResetToUpload, ClearScreen, Export, ExportAnswered, CloseViewer, UseViewer,
              ViewerAnswer, vars, desk, Unmounts
<1>7. CASE Moves
  <2>1. PICK l \in Layers, t \in InvTabs : Move(l, t)
    BY <1>7 DEF Moves, Layers, PageInv, TypeOK
  <2>2. CASE PanelsAt(l, t) = {}
    BY <2>1, <2>2 DEF Move, Unmounts
  <2>3. CASE PanelsAt(l, t) # {}
    BY <2>1, <2>3 DEF Move, Mounts
  <2> QED BY <2>2, <2>3
<1>8. ASSUME At("packets"), Table!Filtering \/ Table!TurnPage \/ Table!Arrival
                              \/ \E i \in 1 .. PageSize : Table!ToggleRow(i)
      PROVE  TablePanelStep
  BY <1>8 DEF TablePanelStep, Table!TableNext
<1>9. ASSUME At("health"), Lists!UseHealth \/ \E ok \in BOOLEAN : Lists!HealthAnswered(ok)
      PROVE  PanelStepElsewhere
  BY <1>2, <1>9, PanelOfItsKind, HealthKeepsType DEF PanelStepElsewhere, Lists!Healths, At
<1>10. ASSUME At("drilldown"), Drill!UseDrilldown \/ Drill!DrillArrival
       PROVE  PanelStepElsewhere
  BY <1>2, <1>10, PanelOfItsKind, DrilldownKeepsType DEF PanelStepElsewhere, Drill!Drilldowns, At
<1>11. ASSUME At("timeline"), Traffic!UseTimeline \/ Traffic!MarkersAnswer
       PROVE  PanelStepElsewhere
  BY <1>2, <1>11, PanelOfItsKind, TimelineKeepsType
  DEF PanelStepElsewhere, Traffic!Timelines, At, PageInv, TypeOK, MarkersType
<1>12. ASSUME At("geoip") \/ At("yara"), Lookup!LookupAnswer
       PROVE  PanelStepElsewhere
  <2>1. panel'.is = panel.is
    BY <1>2, <1>12, PanelOfItsKind
    DEF Lookup!LookupAnswer, Lookup!LookupAnswered, Lookup!LookupPanels
  <2> QED BY <1>2, <1>12, <2>1 DEF PanelStepElsewhere, At
<1>13. CASE UsePanel
  BY <1>8, <1>9, <1>10, <1>11, <1>13 DEF UsePanel, ComparePanelStep, ExplorerStep
<1>14. CASE \E i \in 1 .. PageSize : ClickPacket(i)
  BY <1>8, <1>14 DEF ClickPacket
<1>15. CASE OpenSession
  BY <1>10, <1>15 DEF OpenSession, Drill!UseDrilldown
<1>16. CASE PanelAnswer
  BY <1>8, <1>9, <1>10, <1>11, <1>12, <1>16 DEF PanelAnswer, ComparePanelStep, ExplorerStep
<1>17. CASE MarkerService
  <2>1. panel' = panel \/ (panel \in Traffic!Timelines /\ panel' \in Traffic!Timelines)
    BY <1>2, <1>17, MarkersKeepType
    DEF MarkerService, Traffic!EvictMarkers, PageInv, TypeOK, MarkersType
  <2> QED BY <2>1 DEF PanelStepElsewhere, Traffic!Timelines
<1> QED
  BY <1>3, <1>4, <1>5, <1>6, <1>7, <1>13, <1>14, <1>15, <1>16, <1>17 DEF Next

LEMMA MountedPanels ==
  ASSUME Mounts
  PROVE  /\ panel'.is = "compare" => panel' = Compare!CompareMounted
         /\ panel'.is = "explorer" => panel' = Lists!ExplorerMounted
         /\ panel'.is = "packets" => panel' = Table!TableMounted
         /\ panel'.is = "timeline" => panel' = Traffic!TimelineMounted
<1>1. PICK k \in {"explorer", "packets", "timeline", "drilldown", "health", "compare",
                  "geoip", "yara"} : panel' = Mounted(k)
  <2>1. PICK l \in Layers, t \in InvTabs : \E k \in PanelsAt(l, t) : panel' = Mounted(k)
    BY DEF Mounts
  <2> QED BY <2>1 DEF PanelsAt, Layers, InvTabs
<1>2. Mounted("compare") = Compare!CompareMounted /\ Mounted("explorer") = Lists!ExplorerMounted
      /\ Mounted("packets") = Table!TableMounted
      /\ Mounted("timeline") = Traffic!TimelineMounted
  BY DEF Mounted
<1>3. panel'.is = k
  BY <1>1, MountedInItsType
  DEF Lists!Explorers, Lists!Healths, Table!Tables, Traffic!Timelines, Drill!Drilldowns,
      Compare!Compares, Lookup!LookupPanels, Mounted, Lookup!LookupMounted
<1> QED BY <1>1, <1>2, <1>3

LEMMA TablePanelStaysTable ==
  ASSUME PageInv, TablePanelStep
  PROVE  panel' \in Table!Tables /\ panel'.is = "packets"
<1>1. panel \in Table!Tables
  BY PanelOfItsKind DEF TablePanelStep, PageInv, TypeOK
<1>2. panel' \in Table!Tables
  BY <1>1, TableKeepsType DEF TablePanelStep, Table!TableNext
<1> QED BY <1>2 DEF Table!Tables

LEMMA ComparingStaysOne ==
  ASSUME panel \in Compare!Compares, Compare!OneComparison, Compare!DropZoneShown,
         NEW f \in Files, panel' = Compare!Comparing(panel, f)
  PROVE  Compare!OneComparison'
<1> USE DEF Compare!OneComparison, Compare!Compares, Compare!DropZoneShown
<1>1. panel.works = {} /\ panel.result = None
  OBVIOUS
<1>2. CASE f \in Accepted
  <2>1. /\ panel'.works = {[file |-> f, step |-> "upload"]}
        /\ panel'.loading = TRUE /\ panel'.result = None
    BY <1>1, <1>2 DEF Compare!Comparing
  <2> QED BY <2>1
<1>3. CASE f \notin Accepted
  BY <1>3 DEF Compare!Comparing
<1> QED BY <1>2, <1>3

LEMMA CompareStaysOne ==
  ASSUME panel \in Compare!Compares, Compare!OneComparison,
         Compare!UseCompare \/ Compare!CompareAnswer
  PROVE  Compare!OneComparison'
<1> USE DEF Compare!Compares
<1>1. ASSUME NEW f \in Files, Compare!ChooseOther(f) PROVE Compare!OneComparison'
  BY <1>1, ComparingStaysOne DEF Compare!ChooseOther
<1>2. ASSUME NEW t \in Compare!Tabs, Compare!ChooseTab(t) PROVE Compare!OneComparison'
  BY <1>2 DEF Compare!ChooseTab, Compare!OneComparison
<1>3. CASE Compare!OpenModal
  BY <1>3 DEF Compare!OpenModal, Compare!OneComparison
<1>4. CASE Compare!CloseModal
  BY <1>4 DEF Compare!CloseModal, Compare!OneComparison
<1>5. CASE Compare!CompareAnother
  BY <1>5 DEF Compare!CompareAnother, Compare!OneComparison
<1>6. ASSUME NEW w \in panel.works, NEW ok \in BOOLEAN, Compare!CompareStep(w, ok)
      PROVE  Compare!OneComparison'
  <2>1. panel.works = {w} /\ panel.loading /\ panel.result = None
    BY DEF Compare!OneComparison
  <2>2. CASE ~ok
    BY <1>6, <2>1, <2>2 DEF Compare!CompareStep, Compare!OneComparison
  <2>3. CASE ok /\ w.step = "compare"
    BY <1>6, <2>1, <2>3 DEF Compare!CompareStep, Compare!OneComparison
  <2>4. CASE ok /\ w.step # "compare"
    <3>1. /\ panel'.works = {[w EXCEPT !.step = Compare!NextStep[@]]}
          /\ panel'.loading = panel.loading /\ panel'.result = panel.result
      BY <1>6, <2>1, <2>4 DEF Compare!CompareStep
    <3> QED BY <2>1, <3>1 DEF Compare!OneComparison
  <2> QED BY <2>2, <2>3, <2>4
<1> QED BY <1>1, <1>2, <1>3, <1>4, <1>5, <1>6 DEF Compare!UseCompare, Compare!CompareAnswer

(* One comparison at a time, and none while a result is on the screen: no  *)
(* result is replaced by that of a file chosen before, wherever the files  *)
(* are dropped and whatever tab the user comes back from.                  *)
THEOREM ComparisonsAreApart == Spec => []OneComparison
<1>1. Init => PageInv /\ OneComparison
  BY PageStarts DEF Init, OneComparison, At
<1>2. ASSUME PageInv, OneComparison, [Next]_vars PROVE OneComparison'
  <2> SUFFICES ASSUME At("compare")' PROVE Compare!OneComparison'
    BY DEF OneComparison
  <2>1. panel' # None /\ panel'.is = "compare"
    BY DEF At
  <2>2. CASE panel' = panel
    BY <2>1, <2>2, <1>2 DEF OneComparison, At, Compare!OneComparison
  <2>3. CASE Mounts
    <3>1. panel' = Compare!CompareMounted
      BY <2>1, <2>3, MountedPanels
    <3> QED BY <3>1 DEF Compare!CompareMounted, Compare!OneComparison
  <2>4. CASE ComparePanelStep
    <3>1. panel \in Compare!Compares /\ Compare!OneComparison
      BY <1>2, <2>4, PanelOfItsKind DEF ComparePanelStep, PageInv, TypeOK, OneComparison
    <3>2. ASSUME NEW f \in Files \ Accepted, panel' = Compare!Comparing(panel, f)
          PROVE  Compare!OneComparison'
      BY <3>1, <3>2 DEF Compare!Comparing, Compare!OneComparison, Compare!Compares
    <3> QED BY <2>4, <3>1, <3>2, CompareStaysOne DEF ComparePanelStep
  <2>5. CASE ExplorerStep
    <3>1. panel \in Lists!Explorers
      BY <1>2, <2>5, PanelOfItsKind DEF ExplorerStep, PageInv, TypeOK
    <3> QED BY <2>1, <2>5, <3>1, ExplorerKeepsType DEF ExplorerStep, Lists!Explorers
  <2> QED
    BY <1>2, <2>1, <2>2, <2>3, <2>4, <2>5, StepsOfPanels, TablePanelStaysTable
    DEF Unmounts, PanelStepElsewhere
<1>3. PageInv /\ OneComparison /\ [Next]_vars => PageInv' /\ OneComparison'
  BY <1>2, PageStep
<1> QED BY <1>1, <1>3, PTL DEF Spec

LEMMA ExplorerKeepsSelection ==
  ASSUME panel \in Lists!Explorers, Lists!SelectionHasAddress,
         Lists!UseExplorer \/ \E ok \in BOOLEAN : Lists!HealthAnswered(ok)
  PROVE  Lists!SelectionHasAddress'
<1> USE DEF Lists!Explorers, Lists!SelectionHasAddress
<1>1. ASSUME NEW f \in IpFilters, Lists!TypeIp(f) PROVE Lists!SelectionHasAddress'
  BY <1>1 DEF Lists!TypeIp
<1>2. CASE Lists!ToggleCriticalOnly
  BY <1>2 DEF Lists!ToggleCriticalOnly
<1>3. ASSUME NEW s \in Lists!FilteredSessions, Lists!Select(s) PROVE Lists!SelectionHasAddress'
  BY <1>3 DEF Lists!Select, Lists!FilteredSessions
<1>4. CASE Lists!Deselect
  BY <1>4 DEF Lists!Deselect
<1>5. ASSUME NEW ok \in BOOLEAN, Lists!HealthAnswered(ok) PROVE Lists!SelectionHasAddress'
  BY <1>5 DEF Lists!HealthAnswered
<1> QED BY <1>1, <1>2, <1>3, <1>4, <1>5 DEF Lists!UseExplorer

(* The session opened in the explorer has the address being searched for,  *)
(* so the button below it opens the packets of a session that matches.     *)
THEOREM OpenSessionHasAddress == Spec => []SelectionHasAddress
<1>1. Init => PageInv /\ SelectionHasAddress
  BY PageStarts DEF Init, SelectionHasAddress, At
<1>2. ASSUME PageInv, SelectionHasAddress, [Next]_vars PROVE SelectionHasAddress'
  <2> SUFFICES ASSUME At("explorer")' PROVE Lists!SelectionHasAddress'
    BY DEF SelectionHasAddress
  <2>1. panel' # None /\ panel'.is = "explorer"
    BY DEF At
  <2>2. CASE panel' = panel
    BY <2>1, <2>2, <1>2 DEF SelectionHasAddress, At, Lists!SelectionHasAddress
  <2>3. CASE Mounts
    <3>1. panel' = Lists!ExplorerMounted
      BY <2>1, <2>3, MountedPanels
    <3> QED BY <3>1 DEF Lists!ExplorerMounted, Lists!SelectionHasAddress
  <2>4. CASE ComparePanelStep
    <3>1. panel \in Compare!Compares
      BY <1>2, <2>4, PanelOfItsKind DEF ComparePanelStep, PageInv, TypeOK
    <3>2. panel' \in Compare!Compares
      BY <2>4, <3>1, CompareKeepsType, ComparingKeepsType DEF ComparePanelStep
    <3> QED BY <2>1, <3>2 DEF Compare!Compares
  <2>5. CASE ExplorerStep
    <3>1. panel \in Lists!Explorers /\ Lists!SelectionHasAddress
      BY <1>2, <2>5, PanelOfItsKind DEF ExplorerStep, PageInv, TypeOK, SelectionHasAddress
    <3> QED BY <2>5, <3>1, ExplorerKeepsSelection DEF ExplorerStep
  <2> QED
    BY <1>2, <2>1, <2>2, <2>3, <2>4, <2>5, StepsOfPanels, TablePanelStaysTable
    DEF Unmounts, PanelStepElsewhere
<1>3. PageInv /\ SelectionHasAddress /\ [Next]_vars => PageInv' /\ SelectionHasAddress'
  BY <1>2, PageStep
<1> QED BY <1>1, <1>3, PTL DEF Spec

-----------------------------------------------------------------------------
(* The markers.  While nothing is mixed, the server has what the timeline  *)
(* shows and, besides, the markers whose saves it has stored and not yet   *)
(* answered; until the load is over no save is on its way.  A lost reply   *)
(* mixes, and once the server has let go of the capture nothing is left.   *)
Waiting(r) ==
  {p \in Saves : posts[p] # None /\ posts[p].step = "stored" /\ posts[p].range = r}

MarkersKept ==
  At("timeline") /\ ~panel.mixed /\ notes # None =>
    /\ \A p \in Saves : posts[p] # None => posts[p].mine
    /\ panel.load # "done" => Traffic!Sending = {}
    /\ panel.load = "answered" => panel.answer = notes
    /\ panel.load = "done" =>
         \A r \in Ranges :
           Traffic!Times(notes, r) = Traffic!Times(panel.markers, r) + Cardinality(Waiting(r))

(* However many saves there may be, those in flight can be counted.        *)
MarkersInv == IsFiniteSet(Traffic!Sending) /\ MarkersKept

LEMMA SameCardinality == \A S : Traffic!Cardinality(S) = Cardinality(S)
BY DEF Traffic!Cardinality, Cardinality, Traffic!IsFiniteSet, IsFiniteSet

LEMMA TimesAppend ==
  ASSUME NEW s \in Seq(Ranges), NEW x \in Ranges, NEW r
  PROVE  /\ Traffic!Times(s, r) \in Nat
         /\ Traffic!Times(Append(s, x), r) = Traffic!Times(s, r) + (IF x = r THEN 1 ELSE 0)
<1> DEFINE n == Len(s)
           S == {i \in DOMAIN s : s[i] = r}
           T == {i \in DOMAIN Append(s, x) : Append(s, x)[i] = r}
<1>1. n \in Nat /\ DOMAIN s = 1 .. n
  OBVIOUS
<1>2. IsFiniteSet(S)
  <2>1. IsFiniteSet(1 .. n)
    BY <1>1, FS_Interval
  <2>2. S \subseteq 1 .. n
    BY <1>1
  <2> QED BY <2>1, <2>2, FS_Subset
<1>3. Cardinality(S) \in Nat
  BY <1>2, FS_CardinalityType
<1>4. DOMAIN Append(s, x) = 1 .. n + 1 /\ Append(s, x)[n + 1] = x
      /\ \A i \in 1 .. n : Append(s, x)[i] = s[i]
  OBVIOUS
<1>5. CASE x = r
  <2>1. T = S \cup {n + 1} /\ n + 1 \notin S
    BY <1>1, <1>4, <1>5
  <2>2. Cardinality(T) = Cardinality(S) + 1
    BY <1>2, <2>1, FS_AddElement
  <2> QED BY <1>3, <1>5, <2>2, SameCardinality DEF Traffic!Times
<1>6. CASE x # r
  <2>1. T = S
    BY <1>1, <1>4, <1>6
  <2>2. Cardinality(T) = Cardinality(S) + 0
    <3> HIDE DEF S, T
    <3> QED BY <1>3, <2>1
  <2> QED BY <1>3, <1>6, <2>2, SameCardinality DEF Traffic!Times
<1> QED BY <1>5, <1>6

(* The saves that wait are among those in flight. *)
LEMMA WaitingIsFinite ==
  ASSUME IsFiniteSet(Traffic!Sending), NEW r
  PROVE  IsFiniteSet(Waiting(r)) /\ Cardinality(Waiting(r)) \in Nat
<1>1. Waiting(r) \subseteq Traffic!Sending
  BY DEF Waiting, Traffic!Sending
<1> QED BY <1>1, FS_Subset, FS_CardinalityType

(* What a step does to the timeline and the markers: nothing, a fresh
   timeline, none, or a step of the timeline or of the server. *)
LEMMA StepsOfMarkers ==
  ASSUME PageInv, [Next]_vars
  PROVE  \/ UNCHANGED <<panel, notes, posts>>
         \/ ~At("timeline")' /\ posts' \in {posts, Traffic!PostsLeftBehind, [p \in Saves |-> None]}
         \/ panel' = Traffic!TimelineMounted /\ posts' = Traffic!PostsLeftBehind
         \/ At("timeline") /\ Traffic!UseTimeline
         \/ At("timeline") /\ Traffic!MarkersAnswer /\ UNCHANGED <<notes, posts>>
         \/ Traffic!ServeMarkers
         \/ Traffic!EvictMarkers
<1>1. panel \in Panels
  BY DEF PageInv, TypeOK
<1>2. CASE RunStep
  BY <1>2 DEF RunStep, RunFails, Uploaded, Analyzed, PartFetched, AllFetched, Becomes, desk, At
<1>3. ASSUME NEW f \in Files, HandleFile(f)
      PROVE  UNCHANGED <<panel, notes, posts>> \/ (~At("timeline")' /\ posts' = [p \in Saves |-> None])
  BY <1>3 DEF HandleFile, ClearScreen, KeepScreen, At
<1>4. CASE \E f \in Files : ChooseFile(f) \/ DropFile(f)
  BY <1>3, <1>4 DEF ChooseFile, DropFile
<1>5. ASSUME NEW f \in Files, f \notin Accepted, DropOnCompareZone(f)
      PROVE  ~At("timeline")' /\ posts' = posts
  <2>1. panel \in Compare!Compares
    BY <1>1, <1>5, PanelOfItsKind DEF DropOnCompareZone, OverCompareZone
  <2>2. panel' \in Compare!Compares
    BY <1>5, <2>1, ComparingKeepsType DEF DropOnCompareZone
  <2> QED BY <1>5, <2>2 DEF DropOnCompareZone, Compare!Compares, At
<1>6. CASE \E f \in Files : DropOnCompareZone(f)
  BY <1>3, <1>5, <1>6 DEF DropOnCompareZone
<1>7. CASE ResetToUpload
  BY <1>7 DEF ResetToUpload, ClearScreen, At
<1>8. CASE \/ Export \/ (\E ok \in BOOLEAN : ExportAnswered(ok))
           \/ CloseViewer \/ UseViewer \/ ViewerAnswer \/ UNCHANGED vars
  BY <1>8 DEF Export, ExportAnswered, CloseViewer, UseViewer, ViewerAnswer, vars, desk
<1>9. CASE Moves
  <2>1. PICK l \in Layers, t \in InvTabs : Move(l, t)
    BY <1>9 DEF Moves, Layers, PageInv, TypeOK
  <2>2. posts' = Traffic!PostsLeftBehind
    BY <2>1 DEF Move
  <2>3. CASE PanelsAt(l, t) = {}
    BY <2>1, <2>2, <2>3 DEF Move, At
  <2>4. CASE PanelsAt(l, t) # {}
    <3>1. Mounts
      BY <2>1, <2>4 DEF Move, Mounts
    <3>2. panel'.is = "timeline" => panel' = Traffic!TimelineMounted
      BY <3>1, MountedPanels
    <3> QED BY <2>2, <3>2 DEF At
  <2> QED BY <2>3, <2>4
<1>10. ASSUME At("packets"), Table!Filtering \/ Table!TurnPage \/ Table!Arrival
                               \/ \E i \in 1 .. PageSize : Table!ToggleRow(i)
       PROVE  ~At("timeline")'
  BY <1>1, <1>10, PanelOfItsKind, TableKeepsType DEF Table!Tables, At
<1>11. ASSUME At("explorer"), Lists!UseExplorer \/ \E ok \in BOOLEAN : Lists!HealthAnswered(ok)
       PROVE  ~At("timeline")'
  BY <1>1, <1>11, PanelOfItsKind, ExplorerKeepsType DEF Lists!Explorers, At
<1>12. ASSUME At("health"), Lists!UseHealth \/ \E ok \in BOOLEAN : Lists!HealthAnswered(ok)
       PROVE  ~At("timeline")'
  BY <1>1, <1>12, PanelOfItsKind, HealthKeepsType DEF Lists!Healths, At
<1>13. ASSUME At("drilldown"), Drill!UseDrilldown \/ Drill!DrillArrival
       PROVE  ~At("timeline")'
  BY <1>1, <1>13, PanelOfItsKind, DrilldownKeepsType DEF Drill!Drilldowns, At
<1>14. ASSUME At("compare"), Compare!UseCompare \/ Compare!CompareAnswer
       PROVE  ~At("timeline")'
  BY <1>1, <1>14, PanelOfItsKind, CompareKeepsType DEF Compare!Compares, At
<1>15. ASSUME At("geoip") \/ At("yara"), Lookup!LookupAnswer
       PROVE  ~At("timeline")'
  <2>1. panel'.is = panel.is
    BY <1>1, <1>15, PanelOfItsKind
    DEF Lookup!LookupAnswer, Lookup!LookupAnswered, Lookup!LookupPanels
  <2> QED BY <1>15, <2>1 DEF At
<1>16. CASE UsePanel
  BY <1>10, <1>11, <1>12, <1>13, <1>14, <1>16 DEF UsePanel, PanelOnly
<1>17. CASE \E i \in 1 .. PageSize : ClickPacket(i)
  BY <1>10, <1>17 DEF ClickPacket, SelectFlow, PanelOnly
<1>18. CASE OpenSession
  BY <1>13, <1>18 DEF OpenSession, SelectFlow, Drill!UseDrilldown
<1>19. CASE PanelAnswer
  BY <1>10, <1>11, <1>12, <1>13, <1>14, <1>15, <1>19 DEF PanelAnswer, PanelOnly
<1>20. CASE MarkerService
  BY <1>20 DEF MarkerService
<1> QED
  BY <1>2, <1>4, <1>6, <1>7, <1>8, <1>9, <1>16, <1>17, <1>18, <1>19, <1>20 DEF Next

(* No step but a save brings a save on its way. *)
LEMMA SendsStayFinite ==
  ASSUME PageInv, IsFiniteSet(Traffic!Sending), [Next]_vars
  PROVE  IsFiniteSet(Traffic!Sending)'
<1>1. ASSUME NEW p \in Saves, \A q \in Saves \ {p} : posts'[q] # None => posts[q] # None
      PROVE  IsFiniteSet(Traffic!Sending)'
  <2>1. (Traffic!Sending)' \subseteq Traffic!Sending \cup {p}
    BY <1>1 DEF Traffic!Sending
  <2>2. IsFiniteSet(Traffic!Sending \cup {p})
    BY FS_AddElement
  <2> QED BY <2>1, <2>2, FS_Subset
<1>2. ASSUME \A q \in Saves : posts'[q] # None => posts[q] # None
      PROVE  IsFiniteSet(Traffic!Sending)'
  <2>1. (Traffic!Sending)' \subseteq Traffic!Sending
    BY <1>2 DEF Traffic!Sending
  <2> QED BY <2>1, FS_Subset
<1>3. CASE posts' \in {posts, Traffic!PostsLeftBehind, [p \in Saves |-> None]}
  BY <1>2, <1>3 DEF Traffic!PostsLeftBehind
<1>4. posts \in [Saves -> Traffic!Posts \cup {None}]
  BY DEF PageInv, TypeOK
<1>5. ASSUME NEW p \in Saves, NEW x, posts' = [posts EXCEPT ![p] = x]
      PROVE  IsFiniteSet(Traffic!Sending)'
  BY <1>1, <1>4, <1>5
<1>6. CASE Traffic!UseTimeline
  <2>1. posts' = posts \/ \E p \in Saves : \E x : posts' = [posts EXCEPT ![p] = x]
    BY <1>6 DEF Traffic!UseTimeline, Traffic!Relayout, Traffic!TypeComment,
                Traffic!CancelMarker, Traffic!SaveMarker
  <2> QED BY <1>3, <1>5, <2>1
<1>7. ASSUME NEW p \in Saves, NEW stored, NEW told, Traffic!StoreMarker(p, stored, told)
      PROVE  IsFiniteSet(Traffic!Sending)'
  BY <1>1, <1>4, <1>7 DEF Traffic!StoreMarker, Traffic!Stores
<1>8. ASSUME NEW p \in Saves, Traffic!Saved(p)
      PROVE  IsFiniteSet(Traffic!Sending)'
  BY <1>5, <1>8 DEF Traffic!Saved, Traffic!Shows
<1>9. CASE Traffic!EvictMarkers
  BY <1>2, <1>9 DEF Traffic!EvictMarkers
<1> QED BY <1>3, <1>6, <1>7, <1>8, <1>9, StepsOfMarkers DEF Traffic!ServeMarkers

(* A timeline that comes on the screen has nothing mixed only if no save   *)
(* is on its way.                                                          *)
LEMMA FreshTimelineKeepsMarkers ==
  ASSUME panel' = Traffic!TimelineMounted, posts' = Traffic!PostsLeftBehind
  PROVE  MarkersKept'
<1> SUFFICES ASSUME ~panel'.mixed PROVE MarkersKept'
  BY DEF MarkersKept
<1>1. \A p \in Saves : posts[p] = None
  BY DEF Traffic!TimelineMounted, Traffic!Sending
<1>2. \A p \in Saves : posts'[p] = None
  BY <1>1 DEF Traffic!PostsLeftBehind
<1>3. (Traffic!Sending)' = {}
  BY <1>2 DEF Traffic!Sending
<1>4. panel'.load = "asked"
  BY DEF Traffic!TimelineMounted
<1> QED BY <1>2, <1>3, <1>4 DEF MarkersKept

(* The steps of the timeline: a save before the load is over mixes, and    *)
(* the answer to the load brings what the server still has.                *)
LEMMA TimelineKeepsMarkers ==
  ASSUME PageInv, MarkersKept, At("timeline"), Traffic!UseTimeline \/ Traffic!MarkersAnswer
  PROVE  MarkersKept'
<1>1. panel \in Traffic!Timelines
  BY PanelOfItsKind DEF PageInv, TypeOK
<1>2. (notes # None => notes \in Seq(Ranges)) /\ posts \in [Saves -> Traffic!Posts \cup {None}]
  BY DEF PageInv, TypeOK
<1> SUFFICES ASSUME ~panel'.mixed, notes' # None PROVE MarkersKept'
  BY DEF MarkersKept
<1>3. ASSUME panel'.mixed = panel.mixed, panel'.load = panel.load,
             panel'.answer = panel.answer, panel'.markers = panel.markers,
             UNCHANGED <<notes, posts>>
      PROVE  MarkersKept'
  <2>1. (Traffic!Sending)' = Traffic!Sending /\ \A r : Waiting(r)' = Waiting(r)
    BY <1>3 DEF Traffic!Sending, Waiting
  <2> QED BY <1>3, <2>1 DEF MarkersKept
<1>4. ASSUME \/ \E r \in Ranges : Traffic!Relayout(r)
             \/ Traffic!TypeComment \/ Traffic!CancelMarker
      PROVE  MarkersKept'
  BY <1>1, <1>3, <1>4
  DEF Traffic!Relayout, Traffic!TypeComment, Traffic!CancelMarker, Traffic!Timelines
<1>5. ASSUME NEW p \in Saves, Traffic!SaveMarker(p)
      PROVE  MarkersKept'
  <2>1. /\ panel.load = "done" /\ ~panel.mixed
        /\ panel'.load = "done" /\ panel'.markers = panel.markers
    BY <1>1, <1>5 DEF Traffic!SaveMarker, Traffic!Timelines
  <2>2. /\ posts[p] = None /\ notes' = notes
        /\ posts' = [posts EXCEPT ![p] =
                       [range |-> panel.pending, step |-> "sent", mine |-> TRUE]]
    BY <1>5 DEF Traffic!SaveMarker
  <2>3. ASSUME NEW r PROVE Waiting(r)' = Waiting(r)
    BY <1>2, <2>2 DEF Waiting
  <2>4. \A q \in Saves : posts'[q] # None => posts'[q].mine
    BY <1>2, <2>1, <2>2 DEF MarkersKept
  <2> QED BY <2>1, <2>2, <2>3, <2>4 DEF MarkersKept
<1>6. ASSUME Traffic!ReadMarkers PROVE MarkersKept'
  <2>1. /\ panel.load = "asked" /\ ~panel.mixed
        /\ panel'.load = "answered" /\ panel'.answer = notes
        /\ UNCHANGED <<notes, posts>>
    BY <1>1, <1>6 DEF Traffic!ReadMarkers, Traffic!Timelines
  <2>2. (Traffic!Sending)' = Traffic!Sending
    BY <2>1 DEF Traffic!Sending
  <2> QED BY <2>1, <2>2 DEF MarkersKept
<1>7. ASSUME Traffic!MarkersArrive PROVE MarkersKept'
  <2>1. /\ panel.load = "answered" /\ ~panel.mixed
        /\ panel'.load = "done" /\ panel'.markers = panel.answer
        /\ UNCHANGED <<notes, posts>>
    BY <1>1, <1>7 DEF Traffic!MarkersArrive, Traffic!Timelines
  <2>2. Traffic!Sending = {} /\ panel'.markers = notes
    BY <2>1 DEF MarkersKept
  <2>3. ASSUME NEW r \in Ranges
        PROVE  Traffic!Times(notes, r) = Traffic!Times(notes, r) + Cardinality(Waiting(r)')
    <3>1. Waiting(r)' = {}
      BY <2>1, <2>2 DEF Waiting, Traffic!Sending
    <3>2. Traffic!Times(notes, r) \in Nat
      BY <1>2, <2>1, TimesAppend
    <3> QED BY <3>1, <3>2, FS_EmptySet
  <2>4. \A q \in Saves : posts'[q] # None => posts'[q].mine
    BY <2>1 DEF MarkersKept
  <2> QED BY <2>1, <2>2, <2>3, <2>4 DEF MarkersKept
<1>8. ASSUME Traffic!MarkersFail PROVE FALSE
  BY <1>1, <1>8 DEF Traffic!MarkersFail, Traffic!Timelines
<1> QED BY <1>4, <1>5, <1>6, <1>7, <1>8 DEF Traffic!UseTimeline, Traffic!MarkersAnswer

(* What the server stores waits for its answer, and the answer moves it    *)
(* from what waits to what is shown.                                       *)
LEMMA ServingKeepsMarkers ==
  ASSUME PageInv, MarkersInv, Traffic!ServeMarkers
  PROVE  MarkersKept'
<1>1. (notes # None => notes \in Seq(Ranges)) /\ posts \in [Saves -> Traffic!Posts \cup {None}]
  BY DEF PageInv, TypeOK
<1>2. panel \in Panels /\ (At("timeline") <=> panel \in Traffic!Timelines)
  <2>1. panel \in Traffic!Timelines => panel # None /\ panel.is = "timeline"
    BY PostsAssumption DEF Traffic!Timelines
  <2> QED BY <2>1, PanelOfItsKind DEF PageInv, TypeOK, At
<1>3. ASSUME NEW p \in Saves, NEW ok \in BOOLEAN, NEW told \in BOOLEAN,
             Traffic!StoreMarker(p, ok, told)
      PROVE  MarkersKept'
  <2>1. /\ posts[p] \in Traffic!Posts /\ posts[p] # None /\ posts[p].step = "sent"
        /\ notes' = IF ok THEN Append(notes, posts[p].range) ELSE notes
        /\ ok => notes # None
        /\ told => ok
        /\ panel' = IF posts[p].mine /\ ok /\ ~told THEN [panel EXCEPT !.mixed = TRUE] ELSE panel
    BY <1>1, <1>3 DEF Traffic!StoreMarker, Traffic!Stores
  <2> SUFFICES ASSUME At("timeline")', ~panel'.mixed, notes' # None PROVE MarkersKept'
    BY DEF MarkersKept
  <2>2. At("timeline") /\ panel \in Traffic!Timelines
    <3>1. posts[p].mine => panel \in Traffic!Timelines
      BY <2>1 DEF PageInv, PostsOfPanel
    <3>2. CASE posts[p].mine
      BY <1>2, <3>1, <3>2
    <3>3. CASE ~posts[p].mine
      BY <1>2, <2>1, <3>3 DEF At
    <3> QED BY <3>2, <3>3
  <2>3. ~(posts[p].mine /\ ok /\ ~told)
    BY <2>1, <2>2 DEF Traffic!Timelines
  <2>4. panel' = panel /\ ~panel.mixed /\ notes # None /\ notes \in Seq(Ranges)
    BY <1>1, <2>1, <2>3
  <2>5. panel.load = "done" /\ posts[p].mine
    BY <2>1, <2>2, <2>4 DEF MarkersInv, MarkersKept, Traffic!Sending
  <2>6. told = ok
    BY <2>1, <2>5, <2>3
  <2> DEFINE post == [posts[p] EXCEPT !.step = IF ok THEN "stored" ELSE "failed"]
  <2>7. posts' = [posts EXCEPT ![p] = post]
    BY <1>3, <2>5, <2>6 DEF Traffic!StoreMarker, Traffic!Stores
  <2>8. /\ post \in Traffic!Posts /\ post.mine /\ post.range = posts[p].range
        /\ post.step = IF ok THEN "stored" ELSE "failed"
    BY <2>1, <2>5 DEF Traffic!Posts
  <2>9. post # None
    BY <2>8, PostsAssumption
  <2> HIDE DEF post
  <2>10. \A q \in Saves : posts'[q] # None => posts'[q].mine
    BY <1>1, <2>7, <2>8, <2>2, <2>4 DEF MarkersInv, MarkersKept
  <2>11. ASSUME NEW r \in Ranges
        PROVE  Traffic!Times(notes', r) = Traffic!Times(panel.markers, r) + Cardinality(Waiting(r)')
    <3>1. /\ IsFiniteSet(Waiting(r)) /\ Cardinality(Waiting(r)) \in Nat
          /\ Traffic!Times(notes, r) = Traffic!Times(panel.markers, r) + Cardinality(Waiting(r))
      BY <2>5, <2>2, <2>4, WaitingIsFinite DEF MarkersInv, MarkersKept
    <3>2. Traffic!Times(panel.markers, r) \in Nat /\ posts[p].range \in Ranges
      BY <2>1, <2>2, TimesAppend DEF Traffic!Posts, Traffic!Timelines
    <3>3. CASE ok /\ posts[p].range = r
      <4>1. Waiting(r)' = Waiting(r) \cup {p} /\ p \notin Waiting(r)
        BY <1>1, <2>1, <2>7, <2>8, <2>9, <3>3 DEF Waiting
      <4>2. Cardinality(Waiting(r)') = Cardinality(Waiting(r)) + 1
        BY <3>1, <4>1, FS_AddElement
      <4>3. Traffic!Times(notes', r) = Traffic!Times(notes, r) + 1
        BY <2>1, <2>4, <3>2, <3>3, TimesAppend
      <4> QED BY <3>1, <3>2, <4>2, <4>3
    <3>4. CASE ~(ok /\ posts[p].range = r)
      <4>1. Waiting(r)' = Waiting(r)
        BY <1>1, <2>1, <2>7, <2>8, <2>9, <3>4 DEF Waiting
      <4>2. Traffic!Times(notes', r) = Traffic!Times(notes, r)
        <5>1. CASE ~ok
          BY <2>1, <5>1
        <5>2. CASE ok
          <6>1. Traffic!Times(notes, r) \in Nat
                /\ Traffic!Times(notes', r) = Traffic!Times(notes, r) + 0
            BY <2>1, <2>4, <3>2, <3>4, <5>2, TimesAppend
          <6> QED BY <6>1
        <5> QED BY <5>1, <5>2
      <4> QED BY <3>1, <4>1, <4>2
    <3> QED BY <3>3, <3>4
  <2> QED BY <2>5, <2>10, <2>11, <2>4 DEF MarkersKept
<1>4. ASSUME NEW p \in Saves, Traffic!Saved(p)
      PROVE  MarkersKept'
  <2>1. /\ posts[p] \in Traffic!Posts /\ posts[p] # None /\ posts[p].step # "sent"
        /\ posts' = [posts EXCEPT ![p] = None] /\ notes' = notes
    BY <1>1, <1>4 DEF Traffic!Saved, Traffic!Shows
  <2>2. panel \in Traffic!Timelines /\ At("timeline")
    <3>1. panel \in Traffic!Timelines
      BY <2>1 DEF PageInv, PostsOfPanel
    <3> QED BY <1>2, <3>1
  <2>3. /\ panel'.load = panel.load /\ panel'.mixed = panel.mixed
        /\ panel'.markers = IF posts[p].step = "stored"
                            THEN Append(panel.markers, posts[p].range) ELSE panel.markers
    BY <1>4, <2>2 DEF Traffic!Saved, Traffic!Shows, Traffic!Timelines
  <2> SUFFICES ASSUME ~panel.mixed, notes # None PROVE MarkersKept'
    BY <2>1, <2>3 DEF MarkersKept
  <2>4. panel.load = "done"
    BY <2>1, <2>2 DEF MarkersInv, MarkersKept, Traffic!Sending
  <2>5. \A q \in Saves : posts'[q] # None => posts'[q].mine
    BY <1>1, <2>1, <2>2 DEF MarkersInv, MarkersKept
  <2>6. ASSUME NEW r \in Ranges
        PROVE  Traffic!Times(notes, r) = Traffic!Times(panel'.markers, r) + Cardinality(Waiting(r)')
    <3>1. /\ IsFiniteSet(Waiting(r)) /\ Cardinality(Waiting(r)) \in Nat
          /\ Traffic!Times(notes, r) = Traffic!Times(panel.markers, r) + Cardinality(Waiting(r))
      BY <2>2, <2>4, WaitingIsFinite DEF MarkersInv, MarkersKept
    <3>2. panel.markers \in Seq(Ranges) /\ posts[p].range \in Ranges
      BY <2>1, <2>2 DEF Traffic!Posts, Traffic!Timelines
    <3>3. CASE posts[p].step = "stored" /\ posts[p].range = r
      <4>1. Waiting(r)' = Waiting(r) \ {p} /\ p \in Waiting(r)
        BY <1>1, <2>1, <3>3 DEF Waiting
      <4>2. Cardinality(Waiting(r)') = Cardinality(Waiting(r)) - 1
        BY <3>1, <4>1, FS_RemoveElement
      <4>3. /\ Traffic!Times(panel.markers, r) \in Nat
            /\ Traffic!Times(panel'.markers, r) = Traffic!Times(panel.markers, r) + 1
        BY <2>3, <3>2, <3>3, TimesAppend
      <4> QED BY <3>1, <4>2, <4>3
    <3>4. CASE ~(posts[p].step = "stored" /\ posts[p].range = r)
      <4>1. Waiting(r)' = Waiting(r)
        BY <1>1, <2>1, <3>4 DEF Waiting
      <4>2. Traffic!Times(panel'.markers, r) = Traffic!Times(panel.markers, r)
        <5>1. CASE posts[p].step # "stored"
          BY <2>3, <5>1
        <5>2. CASE posts[p].step = "stored"
          <6>1. /\ Traffic!Times(panel.markers, r) \in Nat
                /\ Traffic!Times(panel'.markers, r) = Traffic!Times(panel.markers, r) + 0
            BY <2>3, <3>2, <3>4, <5>2, TimesAppend
          <6> QED BY <6>1
        <5> QED BY <5>1, <5>2
      <4> QED BY <3>1, <4>1, <4>2
    <3> QED BY <3>3, <3>4
  <2> QED BY <2>1, <2>3, <2>4, <2>5, <2>6 DEF MarkersKept
<1> QED BY <1>3, <1>4 DEF Traffic!ServeMarkers

LEMMA MarkersStep ==
  ASSUME PageInv, MarkersInv, [Next]_vars
  PROVE  MarkersInv'
<1>1. IsFiniteSet(Traffic!Sending)'
  BY SendsStayFinite DEF MarkersInv
<1>2. MarkersKept'
  <2>1. CASE UNCHANGED <<panel, notes, posts>>
    <3>1. (Traffic!Sending)' = Traffic!Sending /\ (\A r : Waiting(r)' = Waiting(r))
          /\ (At("timeline")' <=> At("timeline"))
      BY <2>1 DEF Traffic!Sending, Waiting, At
    <3> QED BY <2>1, <3>1 DEF MarkersInv, MarkersKept
  <2>2. CASE ~At("timeline")'
    BY <2>2 DEF MarkersKept
  <2>3. CASE panel' = Traffic!TimelineMounted /\ posts' = Traffic!PostsLeftBehind
    BY <2>3, FreshTimelineKeepsMarkers
  <2>4. CASE At("timeline") /\ (Traffic!UseTimeline \/ Traffic!MarkersAnswer)
    BY <2>4, TimelineKeepsMarkers DEF MarkersInv
  <2>5. CASE Traffic!ServeMarkers
    BY <2>5, ServingKeepsMarkers
  <2>6. CASE Traffic!EvictMarkers
    BY <2>6 DEF Traffic!EvictMarkers, MarkersKept
  <2> QED BY <2>1, <2>2, <2>3, <2>4, <2>5, <2>6, StepsOfMarkers
<1> QED BY <1>1, <1>2 DEF MarkersInv

(* Once everything asked has been answered, the timeline shows each marker *)
(* as often as the server keeps it, though it never asks again: for any    *)
(* number of markers and of saves, with the user leaving and coming back   *)
(* while they are on their way, and unless a reply was lost, the load      *)
(* failed or overlapped a save, or the server let go of the capture.       *)
THEOREM MarkersAgree == Spec => []MarkersMatch
<1>1. Init => PageInv /\ MarkersInv
  <2> SUFFICES ASSUME Init PROVE MarkersInv
    BY PageStarts
  <2>1. Traffic!Sending = {}
    BY DEF Init, Traffic!Sending
  <2> QED BY <2>1, FS_EmptySet DEF Init, MarkersInv, MarkersKept, At
<1>2. PageInv /\ MarkersInv /\ [Next]_vars => PageInv' /\ MarkersInv'
  BY PageStep, MarkersStep
<1>3. PageInv /\ MarkersInv => MarkersMatch
  <2> SUFFICES ASSUME PageInv, MarkersInv, At("timeline"), panel.load = "done",
                      Traffic!Sending = {}, ~panel.mixed, notes # None, NEW r \in Ranges
               PROVE  Traffic!Times(panel.markers, r) = Traffic!Times(notes, r)
    BY DEF MarkersMatch, Traffic!MarkersMatch, Traffic!SameMarkers
  <2>1. Traffic!Times(notes, r) = Traffic!Times(panel.markers, r) + Cardinality(Waiting(r))
    BY DEF MarkersInv, MarkersKept
  <2>2. Waiting(r) = {}
    BY DEF Waiting, Traffic!Sending
  <2>3. Cardinality(Waiting(r)) = 0
    BY <2>2, FS_EmptySet
  <2>4. Traffic!Times(panel.markers, r) \in Nat
    BY PanelOfItsKind, TimesAppend DEF PageInv, TypeOK, Traffic!Timelines
  <2> QED BY <2>1, <2>3, <2>4
<1> QED BY <1>1, <1>2, <1>3, PTL DEF Spec

-----------------------------------------------------------------------------
(* The page table by itself, for any filters, sizes of a page and numbers
   of requests in flight: its facts hold of the panel as long as it is on
   the screen.  Pages start at multiples of the page size. *)
OnGrid(off) == \E k \in Nat : off = k * PageSize

TableGrid ==
  /\ Table!Loaded => OnGrid(panel.rows.offset)
  /\ \A p \in Table!InFlight : OnGrid(panel.asked[p].offset)

(* As long as no page was asked for while another was on its way, there is
   one request at most, and it is for the filter applied. *)
OneRequest ==
  ~panel.raced => \A p \in Table!InFlight : Table!InFlight = {p} /\ panel.asked[p].filter = panel.applied

TableInv ==
  /\ panel \in Table!Tables
  /\ TableGrid
  /\ OneRequest
  /\ Table!RestingTableMatchesFilter

-----------------------------------------------------------------------------
(* Page k + 1 starts at k * PageSize. *)
LEMMA PageOfOffset ==
  ASSUME NEW k \in Nat, NEW s \in Nat \ {0}
  PROVE  (k * s) \div s = k
<1>1. k * s = s * ((k * s) \div s) + ((k * s) % s) /\ (k * s) % s \in 0 .. (s - 1)
  OBVIOUS
<1> QED BY <1>1, Z3

(* A page before the last is followed by one that has rows. *)
LEMMA NextPageHasRows ==
  ASSUME NEW k \in Nat, NEW s \in Nat \ {0}, NEW t \in Nat,
         k + 1 < (t + s - 1) \div s
  PROVE  k * s + s < t
<1> DEFINE n == (t + s - 1) \div s
<1>1. n \in Int /\ s * n <= t + s - 1
  OBVIOUS
<1>2. s * (k + 2) <= s * n
  BY <1>1
<1> QED BY <1>1, <1>2
-----------------------------------------------------------------------------
(* Asking for a page on the grid, under the filter that is applied from
   then on, keeps the invariant: every button and key of the table does. *)
LEMMA AskingKeeps ==
  ASSUME TableInv,
         NEW t \in Table!Tables, t.rows = panel.rows, t.asked = panel.asked,
         NEW off \in Nat, OnGrid(off),
         NEW p \in Promises \ Table!InFlight,
         panel' = Table!Asking(t, p, off, t.applied)
  PROVE  TableInv'
<1> USE PacketPagesAssumption DEF Queries, Table!Queries
<1> DEFINE q == [filter |-> t.applied, offset |-> off]
<1>1. q \in Table!Queries /\ q # None
  BY DEF Table!Tables, Table!Queries
<1>2. panel' \in Table!Tables
  BY <1>1 DEF Table!Asking, Table!Tables
<1>3. panel'.asked = [panel.asked EXCEPT ![p] = q] /\ panel'.rows = panel.rows
      /\ panel'.applied = t.applied /\ (~panel'.raced => Table!InFlight = {})
  BY DEF Table!Asking, Table!Tables, TableInv
<1>4. Table!InFlight' = Table!InFlight \cup {p} /\ panel'.asked[p] = q
      /\ \A r \in Table!InFlight : panel'.asked[r] = panel.asked[r]
  BY <1>1, <1>3 DEF Table!InFlight, Table!Tables, TableInv
<1>5. TableGrid'
  <2>1. ASSUME Table!Loaded' PROVE OnGrid(panel'.rows.offset)
    BY <1>3, <2>1 DEF TableInv, TableGrid, Table!Loaded
  <2>2. ASSUME NEW r \in Table!InFlight' PROVE OnGrid(panel'.asked[r].offset)
    BY <1>4 DEF TableInv, TableGrid
  <2> QED BY <2>1, <2>2 DEF TableGrid, OnGrid
<1>6. OneRequest'
  <2> SUFFICES ASSUME ~panel'.raced, NEW r \in Table!InFlight'
               PROVE  Table!InFlight' = {r} /\ panel'.asked[r].filter = panel'.applied
    BY DEF OneRequest
  <2>1. Table!InFlight' = {p} /\ r = p
    BY <1>3, <1>4
  <2> QED BY <1>3, <1>4, <2>1
<1>7. Table!RestingTableMatchesFilter'
  BY <1>4 DEF Table!RestingTableMatchesFilter
<1> QED BY <1>2, <1>5, <1>6, <1>7 DEF TableInv

(* So does a change of nothing but the filter being typed or the row open. *)
LEMMA EditingKeeps ==
  ASSUME TableInv, panel' \in Table!Tables,
         panel'.rows = panel.rows, panel'.asked = panel.asked,
         panel'.applied = panel.applied, panel'.raced = panel.raced,
         panel'.loadError = panel.loadError
  PROVE  TableInv'
BY DEF TableInv, TableGrid, OneRequest, Table!RestingTableMatchesFilter, Table!Loaded, Table!InFlight, OnGrid

(* And the arrival of an answer. *)
LEMMA AnswerKeeps ==
  ASSUME TableInv, NEW p \in Promises, NEW ok \in BOOLEAN, Table!Answered(p, ok)
  PROVE  TableInv'
<1> USE PacketPagesAssumption DEF Queries, Table!Queries
<1>1. panel \in Table!Tables /\ p \in Table!InFlight /\ panel.asked[p] \in Table!Queries
  BY DEF Table!Answered, Table!InFlight, Table!Tables, TableInv
<1>2. panel' \in Table!Tables
  BY <1>1 DEF Table!Answered, Table!Tables
<1>3. /\ panel'.rows = IF ok THEN panel.asked[p] ELSE panel.rows
      /\ panel'.loadError = IF ok THEN panel.loadError ELSE TRUE
      /\ panel'.asked = [panel.asked EXCEPT ![p] = None]
      /\ panel'.applied = panel.applied /\ panel'.raced = panel.raced
  BY <1>1 DEF Table!Answered, Table!Tables
<1>4. Table!InFlight' = Table!InFlight \ {p}
      /\ \A r \in Table!InFlight' : panel'.asked[r] = panel.asked[r]
  BY <1>1, <1>3 DEF Table!InFlight, Table!Tables
<1>5. TableGrid'
  <2>1. ASSUME Table!Loaded' PROVE OnGrid(panel'.rows.offset)
    BY <1>1, <1>3, <2>1 DEF TableInv, TableGrid, Table!Loaded
  <2>2. ASSUME NEW r \in Table!InFlight' PROVE OnGrid(panel'.asked[r].offset)
    BY <1>4 DEF TableInv, TableGrid
  <2> QED BY <2>1, <2>2 DEF TableGrid, OnGrid
<1>6. OneRequest'
  BY <1>3, <1>4 DEF OneRequest, TableInv
<1>7. Table!RestingTableMatchesFilter'
  BY <1>1, <1>3 DEF Table!RestingTableMatchesFilter, OneRequest, TableInv
<1> QED BY <1>2, <1>5, <1>6, <1>7 DEF TableInv

-----------------------------------------------------------------------------
(* The shown page, in terms of its number. *)
LEMMA PageShown ==
  ASSUME TableInv, Table!Loaded
  PROVE  /\ panel.rows \in Table!Queries /\ Table!Total \in Nat
         /\ \E k \in Nat : panel.rows.offset = k * PageSize /\ Table!CurrentPage = k + 1
<1> USE PacketPagesAssumption DEF Queries, Table!Queries
<1>1. panel.rows \in Table!Queries /\ Table!Total \in Nat
  BY DEF TableInv, Table!Tables, Table!Loaded, Table!Queries, Table!Total
<1>2. PICK k \in Nat : panel.rows.offset = k * PageSize
  BY DEF TableInv, TableGrid, OnGrid
<1>3. Table!CurrentPage = k + 1
  BY <1>2, PageOfOffset DEF Table!CurrentPage
<1> QED BY <1>1, <1>2, <1>3

(* The offset the buttons ask for is on the grid and not negative. *)
LEMMA ButtonsStayOnGrid ==
  ASSUME TableInv, Table!Loaded
  PROVE  /\ Table!CurrentPage # 1 => /\ panel.rows.offset - PageSize \in Nat
                              /\ OnGrid(panel.rows.offset - PageSize)
         /\ panel.rows.offset + PageSize \in Nat
         /\ OnGrid(panel.rows.offset + PageSize)
<1> USE PacketPagesAssumption DEF Queries, Table!Queries
<1>1. PICK k \in Nat : panel.rows.offset = k * PageSize /\ Table!CurrentPage = k + 1
  BY PageShown
<1>2. panel.rows.offset + PageSize = (k + 1) * PageSize /\ (k + 1) * PageSize \in Nat
  BY <1>1
<1>3. ASSUME Table!CurrentPage # 1
      PROVE  panel.rows.offset - PageSize = (k - 1) * PageSize /\ k - 1 \in Nat
             /\ (k - 1) * PageSize \in Nat
  BY <1>1, <1>3
<1>4. OnGrid(panel.rows.offset + PageSize)
  <2>1. k + 1 \in Nat
    OBVIOUS
  <2> QED BY <1>2, <2>1, Zenon DEF OnGrid
<1>5. Table!CurrentPage # 1 => OnGrid(panel.rows.offset - PageSize)
  BY <1>3, Zenon DEF OnGrid
<1> QED BY <1>2, <1>3, <1>4, <1>5

LEMMA TableStep ==
  ASSUME TableInv, [Table!TableNext]_panel
  PROVE  TableInv'
<1> USE PacketPagesAssumption DEF Queries, Table!Queries
<1>0. panel \in Table!Tables
  BY DEF TableInv
<1>1. CASE UNCHANGED panel
  BY <1>1, <1>0, EditingKeeps
<1>2. CASE Table!FirstLoad
  <2>1. PICK p \in Promises \ Table!InFlight : panel' = Table!Asking(panel, p, 0, panel.applied)
    BY <1>2 DEF Table!FirstLoad, Table!Load
  <2>2. OnGrid(0)
    BY DEF OnGrid
  <2> QED BY <1>0, <2>1, <2>2, AskingKeeps
<1>3. ASSUME NEW f \in Filters, Table!Type(f) PROVE TableInv'
  <2>1. panel' = [panel EXCEPT !.filters = f]
    BY <1>3 DEF Table!Type
  <2> QED BY <1>0, <2>1, EditingKeeps DEF Table!Tables
<1>4. ASSUME NEW f \in Filters, NEW t \in Table!Tables,
             t = [panel EXCEPT !.applied = f] \/ t = [panel EXCEPT !.filters = f, !.applied = f],
             Table!Load(t, 0, f)
      PROVE  TableInv'
  <2>1. t.rows = panel.rows /\ t.asked = panel.asked /\ t.applied = f
    BY <1>0, <1>4 DEF Table!Tables
  <2>2. PICK p \in Promises \ Table!InFlight : panel' = Table!Asking(t, p, 0, t.applied)
    BY <1>4, <2>1 DEF Table!Load
  <2>3. OnGrid(0)
    BY DEF OnGrid
  <2> QED BY <2>1, <2>2, <2>3, AskingKeeps
<1>5. CASE Table!ApplyFilter
  <2> DEFINE t == [panel EXCEPT !.applied = panel.filters]
  <2>1. t \in Table!Tables /\ panel.filters \in Filters /\ Table!Load(t, 0, panel.filters)
    BY <1>0, <1>5 DEF Table!ApplyFilter, Table!Tables
  <2> QED BY <1>4, <2>1
<1>6. ASSUME NEW f \in Filters, Table!ApplyPreset(f) PROVE TableInv'
  <2> DEFINE t == [panel EXCEPT !.filters = f, !.applied = f]
  <2>1. t \in Table!Tables /\ Table!Load(t, 0, f)
    BY <1>0, <1>6 DEF Table!ApplyPreset, Table!Tables
  <2> QED BY <1>4, <2>1
<1>7. CASE Table!PreviousPage
  <2>1. Table!Loaded /\ Table!CurrentPage # 1
    BY <1>7 DEF Table!PreviousPage
  <2>2. PICK p \in Promises \ Table!InFlight :
          panel' = Table!Asking(panel, p, panel.rows.offset - PageSize, panel.applied)
    BY <1>7 DEF Table!PreviousPage, Table!Load
  <2> QED BY <1>0, <2>1, <2>2, ButtonsStayOnGrid, AskingKeeps
<1>8. CASE Table!NextPage
  <2>1. Table!Loaded
    BY <1>8 DEF Table!NextPage
  <2>2. PICK p \in Promises \ Table!InFlight :
          panel' = Table!Asking(panel, p, panel.rows.offset + PageSize, panel.applied)
    BY <1>8 DEF Table!NextPage, Table!Load
  <2> QED BY <1>0, <2>1, <2>2, ButtonsStayOnGrid, AskingKeeps
<1>9. ASSUME NEW i \in 1 .. PageSize, Table!ToggleRow(i) PROVE TableInv'
  <2>1. panel' = [panel EXCEPT !.expanded = IF @ = i THEN None ELSE i]
    BY <1>9 DEF Table!ToggleRow
  <2> QED BY <1>0, <2>1, EditingKeeps DEF Table!Tables
<1>10. ASSUME NEW p \in Promises, NEW ok \in BOOLEAN, Table!Answered(p, ok) PROVE TableInv'
  BY <1>10, AnswerKeeps
<1> QED BY <1>1, <1>2, <1>3, <1>5, <1>6, <1>7, <1>8, <1>9, <1>10
        DEF Table!TableNext, Table!Filtering, Table!TurnPage, Table!Arrival, Table!ClearFilter

LEMMA TableStarts ==
  ASSUME panel = Table!TableMounted
  PROVE  TableInv
<1> USE PacketPagesAssumption DEF Queries, Table!Queries
<1>1. panel \in Table!Tables
  BY DEF Table!TableMounted, Table!Tables
<1>2. ~Table!Loaded /\ Table!InFlight = {}
  BY DEF Table!TableMounted, Table!Loaded, Table!InFlight
<1> QED BY <1>1, <1>2 DEF TableInv, TableGrid, OneRequest, Table!RestingTableMatchesFilter

-----------------------------------------------------------------------------
(* A table at rest shows the filter applied or says that it failed, unless *)
(* a page was asked for while another one was on its way.                  *)
THEOREM TableShowsItsFilter == Table!TableSpec => []Table!RestingTableMatchesFilter
<1>1. TableInv => Table!RestingTableMatchesFilter
  BY DEF TableInv
<1> QED BY <1>1, TableStarts, TableStep, PTL DEF Table!TableSpec

(* The page buttons ask for the page next to the one shown, and for one    *)
(* with rows, however many packets and however long a page.                *)
LEMMA ButtonsAskNextDoor ==
  ASSUME TableInv, Table!TurnPage, panel.rows.filter = panel.applied, Table!RowsOnPage > 0,
         NEW p \in Table!AskedNow
  PROVE  LET off == panel'.asked[p].offset
         IN /\ panel'.asked[p].filter = panel.applied
            /\ off \in {panel.rows.offset - PageSize, panel.rows.offset + PageSize}
            /\ off >= 0 /\ off < Table!Total
<1> USE PacketPagesAssumption DEF Queries, Table!Queries
<1>0. panel \in Table!Tables /\ Table!Loaded /\ Table!Total \in Nat /\ panel.rows.offset \in Nat
  <2>1. panel \in Table!Tables /\ Table!Loaded
    BY DEF TableInv, Table!TurnPage, Table!PreviousPage, Table!NextPage
  <2> QED BY <2>1, PageShown DEF Table!Queries
<1>1. PICK k \in Nat : panel.rows.offset = k * PageSize /\ Table!CurrentPage = k + 1
  BY <1>0, PageShown
<1>2. panel.rows.offset < Table!Total
  BY <1>0 DEF Table!RowsOnPage
<1>3. ASSUME NEW r \in Promises \ Table!InFlight, NEW off \in Nat,
             panel' = Table!Asking(panel, r, off, panel.applied)
      PROVE  p = r /\ panel'.asked[p] = [filter |-> panel.applied, offset |-> off]
  BY <1>0, <1>3 DEF Table!Asking, Table!AskedNow, Table!InFlight, Table!Tables
<1>4. CASE Table!PreviousPage
  <2>1. PICK r \in Promises \ Table!InFlight :
          panel' = Table!Asking(panel, r, panel.rows.offset - PageSize, panel.applied)
    BY <1>4 DEF Table!PreviousPage, Table!Load
  <2>2. panel.rows.offset - PageSize \in Nat
    BY <1>0, <1>4, ButtonsStayOnGrid DEF Table!PreviousPage
  <2>3. panel'.asked[p] = [filter |-> panel.applied, offset |-> panel.rows.offset - PageSize]
    BY <1>3, <2>1, <2>2
  <2> QED BY <1>0, <1>2, <2>2, <2>3
<1>5. CASE Table!NextPage
  <2>1. PICK r \in Promises \ Table!InFlight :
          panel' = Table!Asking(panel, r, panel.rows.offset + PageSize, panel.applied)
    BY <1>5 DEF Table!NextPage, Table!Load
  <2>2. panel.rows.offset + PageSize \in Nat
    BY <1>0
  <2>3. panel'.asked[p] = [filter |-> panel.applied, offset |-> panel.rows.offset + PageSize]
    BY <1>3, <2>1, <2>2
  <2>4. k + 1 < (Table!Total + PageSize - 1) \div PageSize
    BY <1>1, <1>5 DEF Table!NextPage, Table!TotalPages
  <2>5. k * PageSize + PageSize < Table!Total
    BY <1>0, <2>4, NextPageHasRows
  <2> QED BY <1>0, <1>1, <2>2, <2>3, <2>5
<1> QED BY <1>4, <1>5 DEF Table!TurnPage

THEOREM PagesTurnToTheirNeighbours == Table!TableSpec => [][Table!PagesAreAdjacent]_panel
<1>1. ASSUME TableInv, [Table!TableNext]_panel PROVE [Table!PagesAreAdjacent]_panel
  BY <1>1, ButtonsAskNextDoor DEF Table!PagesAreAdjacent
<1> QED BY <1>1, TableStarts, TableStep, PTL DEF Table!TableSpec

-----------------------------------------------------------------------------
TableInPage == At("packets") => TableInv

LEMMA TableInPageStep ==
  ASSUME PageInv, TableInPage, [Next]_vars
  PROVE  TableInPage'
<1> SUFFICES ASSUME At("packets")' PROVE TableInv'
  BY DEF TableInPage
<1>1. panel' # None /\ panel'.is = "packets"
  BY DEF At
<1>2. CASE panel' = panel
  <2>1. TableInv
    BY <1>1, <1>2 DEF TableInPage, At
  <2>2. [Table!TableNext]_panel
    BY <1>2
  <2> QED BY <2>1, <2>2, TableStep, PacketPagesAssumption 
<1>3. CASE Mounts
  <2> USE PacketPagesAssumption
  <2>1. panel' = Table!TableMounted
    BY <1>1, <1>3, MountedPanels
  <2>2. panel' \in Table!Tables
    BY <2>1 DEF Table!TableMounted, Table!Tables
  <2>3. (~Table!Loaded /\ Table!InFlight = {})'
    BY <2>1 DEF Table!TableMounted, Table!Loaded, Table!InFlight
  <2> QED BY <2>2, <2>3 DEF TableInv, TableGrid, OneRequest,
                            Table!RestingTableMatchesFilter
<1>4. CASE TablePanelStep
  <2>1. TableInv
    BY <1>4 DEF TablePanelStep, TableInPage
  <2>2. [Table!TableNext]_panel
    BY <1>4 DEF TablePanelStep
  <2> QED BY <2>1, <2>2, TableStep
<1>5. CASE ComparePanelStep
  <2>1. panel \in Compare!Compares
    BY <1>5, PanelOfItsKind DEF ComparePanelStep, PageInv, TypeOK
  <2>2. panel' \in Compare!Compares
    BY <1>5, <2>1, CompareKeepsType, ComparingKeepsType DEF ComparePanelStep
  <2> QED BY <1>1, <2>2 DEF Compare!Compares
<1>6. CASE ExplorerStep
  <2>1. panel \in Lists!Explorers
    BY <1>6, PanelOfItsKind DEF ExplorerStep, PageInv, TypeOK
  <2> QED BY <1>1, <1>6, <2>1, ExplorerKeepsType DEF ExplorerStep, Lists!Explorers
<1> QED BY <1>1, <1>2, <1>3, <1>4, <1>5, <1>6, StepsOfPanels DEF Unmounts, PanelStepElsewhere

LEMMA TableInPageStarts ==
  Init => PageInv /\ TableInPage
BY PageStarts DEF Init, TableInPage, At

(* The table keeps its promise inside the page: at rest it shows the       *)
(* filter applied or says that it failed, unless a page was asked for      *)
(* while another one was on its way.                                       *)
THEOREM PageTableShowsItsFilter == Spec => []RestingTableMatchesFilter
<1>1. TableInPage => RestingTableMatchesFilter
  BY DEF TableInPage, TableInv, RestingTableMatchesFilter
<1>2. PageInv /\ TableInPage /\ [Next]_vars => PageInv' /\ TableInPage'
  BY PageStep, TableInPageStep
<1> QED BY <1>1, <1>2, TableInPageStarts, PTL DEF Spec

(* So do its page buttons: they ask for the page next to the one shown,    *)
(* and for one with rows.                                                  *)
THEOREM PageButtonsTurnToNeighbours == Spec => PagesAreAdjacent
<1>1. ASSUME TableInPage PROVE At("packets") => Table!PagesAreAdjacent
  <2> SUFFICES ASSUME At("packets") PROVE Table!PagesAreAdjacent
    OBVIOUS
  <2>1. TableInv
    BY <1>1 DEF TableInPage
  <2> QED
    BY <2>1, ButtonsAskNextDoor DEF Table!PagesAreAdjacent
<1>2. TableInPage /\ [Next]_vars => [At("packets") => Table!PagesAreAdjacent]_vars
  BY <1>1
<1>3. PageInv /\ TableInPage /\ [Next]_vars => PageInv' /\ TableInPage'
  BY PageStep, TableInPageStep
<1> QED BY <1>2, <1>3, TableInPageStarts, PTL DEF Spec, PagesAreAdjacent
=============================================================================

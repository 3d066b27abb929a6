# WireBoard in TLA+

WireBoard is a local web application that analyses packet captures: a FastAPI
backend (`backend/`), a React frontend (`frontend/src/`) and a launcher
(`launcher.py`).  This directory holds TLA+ models of the parts of it that have
state and interleavings, TLC configurations that check them on small instances,
and TLAPS proofs of what matters most for instances of any size.

Line numbers below refer to the repository's files; `PROJECT.json` maps every
definition of the models to the lines it stands for.

## 1. Inventory

### Components

| component | source | state | operations |
|---|---|---|---|
| Session store | `backend/store/session_store.py` | `OrderedDict` of captures with their time of upload, a lock | `put`, `get`, `update_analysis`, `evict_expired`, `clear`; `on_evict` callbacks |
| Request handlers | `backend/routers/*.py`, `backend/main.py` | annotations per upload (`annotations_store`); the locals of a request between two awaits | upload, analyze, compare, create annotation, and the handlers that read a capture |
| Reputation lookup | `backend/services/reputation_service.py` | the Feodo blocklist, its timestamp and its `asyncio.Lock` | `lookup_all` with four sources, one of which (`_lookup_feodo`) has state |
| Pcap import | `backend/services/parser/pcap_parser.py`, `normalizer.py`, `routers/upload.py` | flow table, packets per flow, ICMP events, warnings | dpkt, scapy and struct parser in turn; normalise; store |
| Text parsers | `har_parser.py`, `fortigate_parser.py`, `tcpdump_parser.py` | none | one pass over the lines of a log |
| Attack detectors | `backend/services/attack_detector/` | none | `detect(sessions)`, run in worker threads |
| Analytics | `backend/services/analytics/`, `routers/panels.py`, `drilldown.py`, `compare.py` | none | verdict on a session, rankings, comparison, countries and other counts over the sessions of a capture |
| Filter, extractors | `filter_translator.py`, `payload_extractor/` | none | select or decode the sessions of a capture |
| Narrative, report, export | `backend/services/narrative/`, `report/`, `export*` | none | format results |
| Launcher | `launcher.py` | the port found, a server thread and a browser thread | find a port, start, wait, open the browser |
| Page | `frontend/src/App.tsx`, `api.ts` | the capture shown, loading and error, layer and tab, the session in the viewer; the promises awaited | upload, analyse, fetch; drop a file; reset; export; change tab; open and close the viewer |
| Packet table | `panels/PacketList.tsx` | page of rows, filter typed and filter applied, opened row, loading | filter, preset, clear, page forward and back, open a row |
| Viewer | `panels/FlowViewer.tsx` | view, packets, stream and its encoding | change view and encoding, open rows |
| Timeline | `panels/Panel3Timeline.tsx` | markers, range and comment being entered | zoom, comment, save, cancel |
| Explorer, health | `panels/SessionExplorer.tsx`, `NetworkHealthPanel.tsx` | the verdicts, filters, selected session | filter by address and status, select, refresh |
| Rankings | `panels/Panel6IpRanking.tsx`, `Panel9Conversations.tsx` | the list behind a row, loading | open, close, go to a session |
| Comparison | `panels/ComparePanel.tsx` | result, file name, inner tab, box | choose or drop a file, compare another, open boxes |
| Countries, YARA | `panels/GeoIpPanel.tsx`, `YaraPanel.tsx` | one answer | none |

### How they interact

The browser uploads a file; the handler parses it in one go (no await between
reading the file and storing it), normalises the sessions and `put`s a
`ParsedCapture` under a fresh uuid4.  Every other request names that id: it
`get`s the capture, which moves it to the end of the LRU order, or drops it
when it has expired.  `/api/analyze` alone goes on to await: it runs the
detectors in worker threads, `gather`s them, stores their findings with
`update_analysis`, and waits up to two seconds for the reputation of the host,
which four external services and a cached blocklist answer.  Whatever drops a
capture (a `put` that overflows, a `get` or `update_analysis` that finds it
expired) calls `on_evict` after releasing the lock, which removes the
annotations of the capture.

In the browser `App` uploads a file, has it analysed and fetches panels and
summary side by side; with both it shows the dashboard.  A panel is mounted
when its tab is opened and asks the server itself; it loses its state, and the
answers it waits for, when the tab is left.  Panels tell `App` of a session to
open (`onFlowSelect`), which puts the viewer over everything.  Files can be
dropped anywhere (a listener on the window) and, in the comparison, on a zone
with a handler of its own.

### What is hard here

* *Interleaving.*  `on_evict` runs outside the lock; analyses await between
  reading and writing the store; lookups queue for one lock.
* *Staleness.*  A capture may be evicted or expire while it is analysed; a
  lookup that waited for the lock may find the list fresh.
* *Cancellation.*  `wait_for` abandons a lookup wherever it is: in the line
  for the lock, or with the lock, in the middle of a download.
* *Partial failure.*  A detector raises; a parser fails after half the file and
  another one starts over; a download fails.
* *Limits.*  Ten captures, 200 annotations, 50,000 flows, 200 packets per flow,
  500 warnings, fifteen minutes.
* *Order.*  The LRU order after any mixture of calls; packets with times out of
  order; answers that overtake each other on their way to the panels.
* *Twice the same rule.*  The viewer diagnoses a session in the browser, the
  server does for the explorer; page table and viewer name and colour packets
  with copies of the same rules; counts of everything stand beside lists that
  are cut.

`PROJECT.json` lists these hazards one by one, at the lines where they bite,
with the properties that cover them; those without a property have a note.

### What makes each component correct

* Session store: never more captures than `MAX_SIZE`; the one that goes is the
  least recently used; none is served past its TTL; every capture that goes is
  announced exactly once.
* Handlers: annotations and analyses share the fate of their capture; a dropped
  capture never comes back; an analysis is whole and about one host; every
  request is answered.
* Reputation: at most one download at a time and per TTL; answers agree with
  the list in force; the lock is always freed.
* Pcap import: the table agrees with the file, within its limits, whichever
  parser reads it; nothing is lost by merging.
* Page: what is shown is the file given last; no panel loads for ever.
* Panels: rows are of the filter applied and pages adjacent; the stream is in
  the encoding chosen; a comparison stands under its own file; markers on the
  screen are those stored; the session opened has the address typed.
* Contents: the two diagnoses agree, colours and labels agree with each other,
  counts and rankings with the rows behind them.

## 2. Modules

| module | what it is |
|---|---|
| `OrderedCache` | the `OrderedDict` and each locked section of the store as an operator from cache to result |
| `SessionStore` | callers, the lock, callbacks after the unlock |
| `CaptureCache` | abstract: what callers of a session store may rely on; `SessionStore` states with an `INSTANCE` that it implements it |
| `StoreGuarantees` | `SessionStore` with a record of past calls, and the guarantees stated against it |
| `Backend` | the handlers around the store, and the annotations |
| `UploadLifecycle` | abstract: what a user is promised about an upload |
| `FeodoCache` | the blocklist, its lock and the lookups |
| `Normalizer` | `SessionNormalizer` as an operator |
| `ParsedSessions` | a parser's list of sessions, growing one by one, and what the normalizer promises of it |
| `PcapImport` | the three parsers, one packet per step, up to the stored capture |
| `PacketPages` | the constants of the packet table, shared by page and table |
| `PacketList`, `FlowViewer`, `Timeline`, `SessionLists`, `Drilldown`, `ComparePanel`, `Lookups` | one panel (or two of a kind) each: its state, the user's steps, the answers |
| `Dashboard` | the page, which instances the panels with its own variable `panel` for their state |
| `FlowAnalysis`, `NetworkHealth` | the diagnosis of a session in the browser and on the server |
| `HealthScreens`, `PacketLabels` | how verdicts and packets are coloured and named on the screens |
| `CompareLists`, `DrillLists` | comparison, rankings and the lists behind them: what the server sends and what panels make of it |
| `PanelContents` | grows a session or two captures step by step, and what the six modules of operators above promise of them |
| `MC*` | the values TLC checks these with |
| `*Proofs` | theorems and proofs |

`Backend` and `SessionStore` both use `OrderedCache`; `Backend` does not go
through `SessionStore`, because on the one event loop of the server no other
caller can run between a locked section and its callbacks.  `SessionStore` is
the more general setting (threads) that the lock and the comments of the class
are made for, and that the tests exercise.

### From the code to the models

* **Order and time.**  The order of the `OrderedDict` is the relation `older`;
  the time of an entry is its age, cut off one step after the TTL, where all
  ages look the same to the code.  So nothing has to bound a clock.  `Tick` may
  happen between any two steps.
* **Captures** are their upload ids; what a handler reads of one (its hosts,
  the most frequent host, what each detector finds) are constants of the id, as
  the sessions of a capture never change.  Uploads take ids in `Keys` once
  each (`born`), as uuid4s are.
* **Handlers.**  A step of `Backend` is the code between two awaits.  `Read`
  stands for all handlers that only `get` the capture (panels, summary, packets,
  flow, stream, drilldown, filter, export, geoip, yara, network health, and the
  analysis of a wrong token): the token is compared after `get`, so a refused
  request has the same effect on the store.
* **Analyze.**  `Analyze` is the handler up to its first await; `DetectorEnds`
  one worker thread, which may raise; `StoreAnalysis` is what happens when
  `gather` returns; `LookupAnswers` and `LookupIsGivenUp` end the request.  A
  target that is not in the capture skips the detectors and stores nothing.
* **Feodo.**  `age` is `time.monotonic() - _FEODO_CACHE_TS`; it starts anywhere,
  because the timestamp starts at 0.0 and the clock at the boot of the machine.
  `Cancel` is `wait_for` giving up, at any point of the lookup.
* **Pcap import.**  A file is its sequence of complete packets.  dpkt and scapy
  are external: any packet may fail to decode, dpkt may fail as a whole at any
  packet, scapy before its loop.  A session carries its packets, which the code
  keeps beside it in `packet_map`.
* **Page.**  A step of `Dashboard` is a handler of React up to its first await,
  or what follows an answer.  `runs` holds the files on their way, one record
  each with what it awaits, so that two of them would be seen; their age ("last"
  or "earlier") stands for the capture, since nothing else about it matters to
  the page.  `Move` mounts the panels of a tab; as panels of one tab share no
  state only one of them is followed, chosen when the tab is opened, and layers
  keep none.  `ClickPacket` and `OpenSession` change panel and viewer in one
  step, as their handlers do.
* **Requests of a panel** are a function from `Promises` (requests that can be
  in flight together) to what was asked; answers come in any order, as data or
  as an error.  `raced` in the table and `mixed` in the timeline are not in the
  code: they remember that two requests overlapped, where the code promises
  nothing (see section 5).
* **Markers.**  `StoreMarker` is the handler of the server, which runs whether
  or not the panel that sent the marker is still there, and whose reply may be
  lost (`stored` but not `told`); `EvictMarkers` is `_on_evict` taking the
  markers away; `Saved` and `MarkersAnswer` are the browser's side of the
  answers, which come with the viewer open, too.
* **Contents.**  Operators over lists of sessions and packets; a packet has
  direction, flags, numbers, payload or none, and a time in microseconds, the
  unit of a capture.  The server rounds a round trip to hundredths of a
  millisecond (`Hundredths`), the browser to tenths (`Tenths`); which ties go
  down depends on floating point, so each side has a constant for them
  (`TiesDownOnServer`, `TiesDownInBrowser`).  `PacketLabels` tells payloads apart by what
  the two copies of the rules see in them: nothing, blanks, the first line of a
  request, of a CONNECT or of a response, text that only begins like one, and
  where a CR, LF or TAB stands in that line.  Names are what they tell apart;
  colours are those a user sees.

## 3. Runs

| run | instance | what it shows |
|---|---|---|
| `session_store` | 3 captures, room for 2, TTL 1, 2 callers | `ImplementsCache`: under every interleaving of two callers' methods and callbacks the store is the abstract cache, which announces each dropped capture once, by the caller that dropped it, and ends every method |
| `store_guarantees` | 4 captures, room for 3, TTL 2 | the LRU order is total; capacity; who is kept, who is served, who may go |
| `store_expiry_boundary` | as above, 2 captures | **violation**: see findings |
| `backend` | 3 captures, room for 2, TTL 1, an analysis in flight | annotations and analyses follow their capture; `ImplementsLifecycle` |
| `concurrent_analyses` | 2 captures, room for 1, 2 analyses of 2 detectors | analyses are whole; every request is answered |
| `feodo_cache` | 3 lookups, 2 addresses, TTL 2 | no stampede; verdicts agree with the list; the lock and its line agree and the lock is freed |
| `feodo_first_answer` | 2 lookups, 1 address | **violation**: see findings |
| `pcap_import` | all files of up to 3 packets of five kinds, and six longer ones; 2 flows, 2 packets each, 1 warning | table, packets, events and stored sessions agree with the file; every upload ends |
| `normalizer` | all lists of up to 3 sessions on 4 routes, with up to 2 packets in the wrong order | merging loses nothing, keeps apart what has no ports, spans its parts and sorts their packets |
| `dashboard` | 2 captures and a file of another format, 2 requests in flight per panel, 2 sessions, 2 filters with 2 and 1 pages, room for 1 marker | `DashboardOfLastFile`, the promises of the panels inside the page, `LoadsEnd` |
| `panel_contents` | sessions of an opening (no SYN, or one answered by a plain ACK or after 1, 150.05 or 600 ms; an unanswered SYN is the first step after no opening) and 4 more steps; up to 4 sessions in two captures, lists of 2, 2 and 3 | `DiagnosesAgree`, `LabelsTrue` |
| `compare_drop` | as `dashboard` | **violation**: see findings |

**Why the bounds are enough.**  Each is chosen so that the case a property is
about occurs.  A store with room for two of three captures overflows, and three
places are the fewest in which "least recently used", "least recently put" and
"first in the dictionary" differ; TTL 2 tells "just expired" from "expired long
ago".  Two callers are enough for a callback to be overtaken by every other
method.  Two analyses meet in one capture about two hosts.  Three lookups give
a holder and a line of two, so that the one cancelled can be the holder, the
first or the last of the line.  Three conversations over a table for two have
one that finds it full, while four and five packets let the flows in the table
go on after that; two packets per flow make the third one superfluous.
Two requests in flight are the fewest that
can overtake each other; a page of one row makes two rows two pages, with a
first, a last and a neighbour; one marker that may be stored makes the second
one refused.  Two saves in flight are answered in either order, and one may be left
behind by a panel that is gone.  Six packets of data at once bring the share of retransmissions
under and over the 5 % and 20 % of the score; a round trip of 150.05 ms
is a tie for the browser, taken down here, and above the threshold for the
server.  Four sessions on lists of two are cut on
either side; with two clients, three hosts, two ports and two protocols a
session may be opened the other way round, on another port, or with another
protocol.  What these modules compute has no other state; that longer inputs
only repeat these cases is proved for those of `panel_contents` and of
`normalizer` (section 4).
Symmetry is used in `store_guarantees` only, a run without liveness.

`CHECK_DEADLOCK FALSE` stands in `pcap_import` (an upload ends), `normalizer`
(a list of sessions is complete) and `panel_contents` (contents stop growing).

**Fairness.**  `SessionStore`: a method that released its lock goes on to its
callbacks and returns.  `Backend`: detectors end (each is a loop over a finite
list), `gather` returns, and the time limit of the lookup strikes; an answer of
the reputation services is *not* assumed.  `FeodoCache`: the time limit strikes
and a woken waiter runs; nothing is assumed of the network.  `PcapImport`: the
handler runs on.  `Dashboard`: the server goes on answering the upload, the
panel on the screen and the viewer, with data, a refusal or an error, because a
browser ends every request one way or the other; which of several it answers
first is open.  No user, and no clock, has to do anything.

Every property has a mutant in `PROJECT.json`: a plausible bug in one of the
mapped definitions (the operator sits next to the one it replaces) with which
TLC finds the property violated.

### Findings

1. `update_analysis` treats a capture as expired when its age is *greater* than
   the TTL (`session_store.py:77`), while `get` and `evict_expired` do so from the
   TTL on (lines 60 and 97).  At that age an analysis is written into a capture
   that `get` refuses.  The tests (`test_bugfix_regression.py:51`,
   `test_analyze.py:383`) expect one boundary.  Run `store_expiry_boundary`.
2. A lookup can report an address as *reliably* clean although no blocklist has
   ever been downloaded (`reputation_service.py:76`): right after boot, because a
   timestamp of 0.0 is less than a TTL ago, and after a first download that
   failed, because a failure renews the timestamp.  Run `feodo_first_answer`.
3. A capture dropped on the zone of the comparison is not compared
   (`ComparePanel.tsx:311`): the handler of the zone does not stop the event, so
   the listener `App` keeps on the window uploads the file as a new capture, and
   the panel goes.  The zone says "비교할 파일을 드래그하거나 클릭하여 업로드"
   (line 368).  Choosing the file by a click works.  Run `compare_drop`.

Seen on the way, with a hazard but no property: a list that takes more than two
seconds is cancelled by every request and never cached
(`analyze.py:167`); an analysis whose capture was dropped meanwhile is answered
but not kept (`analyze.py:163`); ICMP events that dpkt collected before it failed
are collected again by scapy (`pcap_parser.py:115`; `ErrorsReported` says exactly
how often an event can occur).  The fall-back messages of `parse` are not
counted against the limit of 500 warnings, so the list may hold three more
(`TypeOK` of `PcapImport` states that bound).

In the browser: the answer to an older filter replaces a newer one
(`PacketList.tsx:111`), and the first of two answers ends the spinner of both;
after a filter that failed the page buttons combine its filter with the old
offset (`:256`).  A failed save of a marker closes the question and the answer to
a save wipes the range and comment entered since (`Panel3Timeline.tsx:78-85`);
a save whose reply is lost is reported as failed although the marker is stored,
so entering it again stores it twice;
the range strings of the chart are parsed as local time though its axis is UTC
(`:66`).  `GeoIpPanel` and `YaraPanel` do not look at the status of the answer:
after a refusal the one loads for ever and the other says that YARA is not
installed.  A session left open survives a new upload and is then not found
(`App.tsx:339`).  The box of a comparison stays open over the next one
(`ComparePanel.tsx:536`), and the comment on `sessionKey` (line 12) calls both
directions the same although the key contains the port of the destination.
The explorer calls the length of the ranking, at most 20, the number of unique
addresses (`SessionExplorer.tsx:277`).  The list behind a conversation is taken
from the 50 largest sessions of one host, so a small conversation may show
fewer sessions than its row counts (`Panel9Conversations.tsx:27`,
`drilldown.py:56`); the panels ignore `truncated`.  Browser and server disagree
on a packet with SYN and RST (`FlowViewer.tsx:71`, `network_health.py:27`), and
page table and badge name and colour it differently; the viewer is sent 200
packets only, so its diagnosis of a longer session is of its beginning.  A round
trip above 150 and up to 150.05 ms is amber in the explorer and may be green in the
viewer, because each rounds in its own way (`network_health.py:91`,
`FlowViewer.tsx:80`).  A `CONNECT` is named HTTP but opens as a hex dump
(`PacketList.tsx:59` and `:74`); the table turns CR, LF and TAB into dots and the
viewer keeps them (`PacketList.tsx:26`, `FlowViewer.tsx:31`), so that a request after
a line end is HTTP in the viewer and data in the table; a payload of blanks has
bytes but is not replayed (`FlowViewer.tsx:273`).
`FlowGraph.tsx` is imported nowhere.  The properties of `panel_contents` say
exactly where the agreement ends.

## 4. Proofs

All proofs hold for every value of the constants that meets the `ASSUME`s of the
modules (`CacheAssumption`, `BackendAssumption`, `FeodoAssumption`,
`PcapAssumption`, `ParsedAssumption`, `PacketPagesAssumption`, `DashboardAssumption`,
`PostsAssumption`, `PanelContentsAssumption`), which say no more than that limits
are natural numbers, positive where the code's are, that the constant functions
have the right types, that addresses are numbers in the order of their spelling,
and that "no request" is not the name of a request.  The sets of captures,
callers, lookups, addresses, sessions and files may be infinite.

* **`OrderedCacheProofs`**: lemmas about each locked section, cited by the three
  modules that follow: its result is well typed, and it changes the captures held
  only in the ways its name says.
* **`SessionStoreProofs`**, the store: `TypeCorrect`, and `StoreImplementsCache`, the
  refinement of `CaptureCache` without its fairness.  `StoreInv` adds to the types
  that the captures held are finitely many, since the cache counts them, and that
  a caller outside a method owes no callback (`IdleOweNothing`): a call that drops
  nothing leaves `owed` alone in the cache and empties it in the store.  A put is
  an `Insert`; a get finds, misses, or finds the entry lapsed; the two bulk methods
  are a `Discard`; time passing is a stutter.  That a put of a full store drops
  exactly one other capture is `PutMakesRoom`.
* **`SessionStoreProofs`**, its guarantees: `OrderCorrect`, `CapacityCorrect`, `LruCorrect`,
  `TtlCorrect`, and `StayCorrect`: the action property `FreshEntriesStay`.
  `KeptWhileRecent` is not inductive: that a recent capture is not
  the one `popitem` takes needs the link between the order and the history.  The
  invariant adds that whatever comes after `k` in the order was used since `k`
  was, and that the age of an entry is the time since its put.  When a put
  overflows, the `MaxSize` captures after the oldest one have all been used since
  it was, so it is not one that `KeptWhileRecent` protects.
* **`BackendProofs`**: `TypeCorrect`, `NotesCorrect`, `AnalysesCorrect`,
  `GoneCorrect`, and `LifecycleCorrect`, the refinement of `UploadLifecycle`.
  The invariant adds that captures held have been uploaded, that what is not held
  has neither notes nor analysis, and that each running request has found
  exactly what the detectors that are done find.  Every step then maps to a step
  of the lifecycle or to a stutter; a `Compare`, which calls `get` twice, maps to
  one `Leave` of both captures.
* **`FeodoCacheProofs`**: `TypeCorrect`, `LockCorrect`, `NoStampede` and
  `VerdictCorrect`.  The invariant: only
  the holder of the lock downloads, it found the list stale, and the timestamp is
  never newer than the end of the last download.  `LockAndLineAgree` is
  inductive with the types; what it takes are lemmas about `RemoveFirst`, since
  the lookup cancelled may stand anywhere in the line.
* **`PcapImportProofs!FlowTableCorrect`**: `FlowTableSound` for every file.  The
  invariant adds the types of the tables and that the set of keys is finite.  The
  main lemma is that adding the canonical key of a packet never brings in the
  second name of a conversation.
* **`PcapImportProofs!ImportKeepsType` and `FirstComeFirstServed`**.  The warnings
  stay within their limit because each parser that gives up adds one message and
  there are three (`GivenUp` in `PlaceInFile`); flows are those of the
  conversations that came first because no flow ever leaves the table and every
  flow has its first packet among those read (`EveryFlowBegun`).
* **`PcapImportProofs!FlowsCountedInFull` and `FirstPacketsKept`**, by
  `FlowsTrue`: of every flow it says which packets it counts and which of them are
  kept at which place.  A packet belongs to at most one flow of the table
  (`OneFlow`), and one that begins a flow has no predecessor of its conversation
  (`NewFlowIsNew`, from `FirstComeFirstKept`: had there been one, there would be a
  flow, or no room).
* **`PcapImportProofs!ErrorsCorrect`**: the invariant adds that until dpkt fails
  the list of ICMP errors is its own, which is why what is left of it holds no
  error twice.
* **`PcapImportProofs!StoredIsWhatWasRead`**: once stored, the capture is what
  the normalizer makes of the flows (`Stored`), and flows have different keys,
  so each of them is alone in its group (`FlowsStoredAlone`); what is left to show
  is that a group of one keeps everything but the order of its packets.  The
  lemmas on sums and on `Merged` are those of `NormalizerProofs`, instanced with
  the sessions of the flows.
* **`NormalizerProofs`**: `NothingIsLost`, `OneSessionIsLeft` and
  `SpansAreCovered`, for lists of any length.  The invariant is that sessions are
  well typed and have ids of their own (`OwnIds`), without which two sessions
  without ports could be merged; the rest are lemmas about the operators.  Sums
  are over finite sets, which the library computes member by member in the order
  of `CHOOSE`: that the recursion defines anything at all (`SumExists`), that the
  order does not matter (`SumAnyOrder`) and that the parts of a partition add up
  (`SumOfParts`) is shown from the least number principle.  Groups are a
  partition because `SameGroup` is an equivalence (`SameGroupDivides`,
  `LeftDivides`).  A sorted list is given by counting who comes before whom, and
  `NthInOrder` says that this puts every packet in exactly one place.
* **`DashboardProofs`, the packet table**: `TableShowsItsFilter` and `PagesTurnToTheirNeighbours`,
  for every page size and number of packets.  The invariant: offsets are
  multiples of the page size (so the neighbour of a page with rows, when the
  button to it is lit, has rows), and a table that has not raced has at most one
  request, for the filter applied.
* **`DashboardProofs`, the page**: `PageKeepsType`; `LastFileIsShown`, from the invariant
  `OneFileOnItsWay` (a file is accepted only while none is on its way, and the
  one shown is the last given); `StreamIsAsChosen`, from `OneStreamAsked`;
  `ComparisonsAreApart`; `OpenSessionHasAddress`; and, from the theorems of the
  table, `PageTableShowsItsFilter` and
  `PageButtonsTurnToNeighbours` (`TableInPage`): each step of the page is a step of
  the table, mounts it afresh, or leaves it alone.  `PageInv` adds to the types
  that a save in flight is of a marker being followed (`PostsOfPanel`).
  `MarkersAgree`: the markers on the screen are those stored.  In between are the
  saves on their way, so the invariant `MarkersKept` counts: of each range the
  server has as many markers as the browser, plus the saves that the server has
  done and the browser not heard of; and a load answers with a list that is
  short of just these.  A lost reply ends the count (`mixed`), and so does the
  server when it lets go of the capture.

* **`PanelContentsProofs`, the diagnosis**: `BothDiagnoseAlike` (`DiagnosesAgree`).
  The types are the invariant; the rest is about operators.  Both sides search
  the packets for the same sets (`ClientSees`, `ServerSees`: here it matters that
  no packet has SYN and RST), and what is sent again is counted with and without
  a predecessor (`RetransmitsSeen`).  That no circle is green where the other is
  red is arithmetic: an issue takes its loss off whatever the others are
  (`IssueLoss`), so both scores are sums of the same few cases
  (`ScoreOfIssues`, `LossesSeen`), the round trip is on the same side of 150 and of
  500 ms for both, but for what rounding allows (`RoundingsAgree`, whichever ties
  go down), the share of retransmissions crosses 5 % and 20 % on either, and
  no combination puts one score at 80 or more and the other below 50
  (`NeverOpposite`).
* **`PanelContentsProofs`, the lists**: `LabelsAreTrue` (`LabelsTrue`).  Keys of two
  sessions are equal just when address pair, port and protocol are
  (`KeysTellApart`); what the server sends is the beginning of a list, or all
  of it (`ServedAre`).  Counts and sums over a list are taken apart by the lemmas
  on sums of `NormalizerProofs` and `SumOfBoth`, `SumWhere` and `CountsOfParts`,
  which replace an induction over the list.  A list that is sorted and cut holds
  those who have fewer than n others ahead; `LargestAreFirst` shows, for any
  n and any sizes, that these are n or all, and that none left out is larger.
  It needs places that differ, which the keys of a dictionary have
  (`InsertedAre`), and so do the countries, by the first address in each
  (`CountriesAre`).

**Only model-checked:** everything about liveness (the fairness in
`ImplementsCache`, `EveryAnalysisAnswered`, `LockIsFreed`, `UploadEnds`,
`LoadsEnd`), which is out of the prover's reach.  Every other property of a
passing run is stated by a theorem.

## 5. What is not modelled

* Validation of ids, addresses and file names, the upload limits, the logging
  and security middleware, static files: they refuse a request before it
  reaches any state.
* The text parsers, the attack detectors, the payload extractors, the filter
  language, exports, reports and the narrative: sequential functions of one
  input without state.  Of the analytics: UDP verdicts and the counters of
  protocols, DNS, TLS, HTTP, resets and traffic per second.
* `launcher.py`: one start-up; its race for the port is a hazard with a note.
* Of the page: recent files, command palette, help, theme, toasts and drag
  highlighting (none of them touches what the models follow, except that the
  palette moves between tabs, which `Move` does), sort orders, the CSV export,
  the filter of the two columns of a comparison as state (`CompareLists` takes
  it as a parameter), and panels that only render.  Only one panel of a tab is
  followed at a time.  Texts of errors are not told apart.
* What a table shows after two overlapping requests, and a timeline after a
  save that overlapped its load or whose reply was lost, or after the server
  let go of the capture: the models have these behaviours (`raced`, `mixed`,
  `notes = None`), the properties leave them out, because the code lets the last
  answer win, never asks again, and no text says otherwise.
* A response whose status follows a TAB and whose reason begins with a number
  (the page table takes that number for the status).
* A packet scapy decodes and then cannot give a time or length for: its ICMP
  event would be kept and the packet skipped (`pcap_parser.py:280-300`).
* The built bundle in `backend/static/`, generated from `frontend/src/`.
* An installation without httpx (`requirements.txt` has it), and disconnects of
  the browser in the middle of a request.
* `payload_length` and `meta` of merged sessions.
* The three reputation sources without state; they appear as an answer or a
  time-out of the lookup as a whole.

## 6. Plan

Done, in this order: the store and its contract, its guarantees and their
proofs; the handlers and the lifecycle with its refinement proof; the
blocklist; pcap import; the page and its panels, with proofs; what panels and
server compute of the same data.  What is left:

1. `Detectors`: the windows of the port scan, brute force and beacon detectors
   against a reference definition over all short lists of sessions (pure
   operators; monotonicity in the sessions given, boundaries of the
   thresholds).
2. `PacketView`: `/api/packets` and `/api/stream` on top of the stored packet
   lists, and the page of `PacketList` as what they answer.
3. `Launcher`: the search for a port, the server and the browser thread, and
   another process that takes the port in between.

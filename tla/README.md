# A verification development for ncdf_pi

`ncdf_pi` is an OpenCPN plugin (C++, wxWidgets) that shows NetCDF files of ocean
current, sea temperature and salinity on the chart. This directory holds TLA+
modules that model the plugin, TLC configurations that check them on small
instances, and proofs, checked by TLAPS, of what holds for all files, directories,
grids and numbers of steps. Paths below are relative to the repository; `tla/` is
this directory.

The plugin is single-threaded and event-driven. The hard parts are not data races
but *sequences of events*: seven handlers keep a tree, a slider, a list of steps,
variable ids, grids, caches, flags and check boxes in step by hand; files fail in
the middle of a handler; and the host paints the chart between any two handlers.

## 1. Inventory

| Component | State it keeps | Operations | Module |
|---|---|---|---|
| Session (`MainDialog`, `src/ncdf.cpp`; `ncdfReader`) | tree, focus, `myDataVector`, `m_lastSelectedTimeIndex`, slider, `m_currentFilePath`, `m_fileHas*`, `m_cached_*_varid`, grids, `myMessage` | `onDirChanged`, `fillDirTree`, `addChildren`, `onTreeSelectionChanged`, `OnTimeline`, `onPrev`, `onNext`, `readData`, `readTimeStepData`, `nc_get`, `readncdfFile`, close, `Init`/`DeInit` | `NcdfSession`; abstract: `NcdfViewer`, `NcdfFeed`; proofs: `NcdfSessionProofs` |
| Layer switches (`ncdf_pi`, `MainDialog`) | `m_bShow*`, check boxes and their visibility, the host's configuration object | the same selections, six check-box handlers, `LoadConfig`, `SaveConfig`, constructor, destructor | `NcdfLayers`, `NcdfLayersProofs` |
| Overlay caches (`ncdfOverlayFactory`, `ncdftexture.cpp`) | textures, lookup texture, isolines, rebuild flags, shader flags | `setData`, `reset`, GL paint, DC paint, destruction | `NcdfOverlay`, `NcdfOverlayProofs` |
| Particles (`ncdfparticle.cpp`) | particles with trails, update flag, burst counter, one-shot timer | `setData`, `RenderParticles`, timer, `ClearParticles` | `NcdfParticles`, `NcdfParticlesProofs` |
| Message memory (`ncdf_reader.h`) | heap arrays of the time steps, in five places | construction, copy, assignment, `clear`, `freeAll`, and every handler that uses them | `NcdfMessage`, `NcdfMessageProofs` |
| Variable finder (`find_var_by_cf`) | its loops' counters | one attribute of one variable at a time | `NcdfFinder`, `NcdfFinderProofs` |
| Grid filling (`readTimeStepData`'s copy, `FillAllGrids`) | grids, loops' counters | one cell at a time | `NcdfGrid`, `NcdfGridProofs` |
| Interpolation (`getInterpolatedValue`) | none | pure | `NcdfInterpolation`, `NcdfGridProofs` |
| Isoline tracer (`IsoLine2.cpp`) | segments, the chain that grows, chains | one cell, one segment at a time | `NcdfIsoLine`, `NcdfFieldProofs` |
| CF time (`ParseCFTimeUnits`) | none | parsing of strings | not modelled |
| Tidal arrows at the cursor | `m_ArrowList`, `b_showODAS` | `OnContextMenu`, arrow overlay | not modelled |
| Arrows, legend, generated dialog, icons, helpers | none of interest | drawing | not modelled |
| `NcdfIsoLine.cpp`, class `ncdfData` | - | not built, or without a caller | not modelled |
| `opencpn-libs/` | - | third-party code, 99 percent of the repository's lines | not modelled |

How they interact:

- The session calls `readncdfFile`, which builds the grids and calls
  `ncdfOverlayFactory::reset` and `setData`. From then on the factory reads the
  dialog's grids and `myMessage` **directly** (`ncdfoverlayfactory.cpp:129`),
  whenever the host paints. `ReadyHasGrid` and `GridsBuiltFromMessage` are the
  contract between them on the side of the session; `NcdfFeed` is all that the
  factory may rely on, and the link between the two modules.
- Every step that is listed, selected, saved or shown is a *copy* of a message, made
  by the operators of `ncdfDataMessage` alone; the same handlers as the session's
  decide which copies are made and when memory runs out in the middle.
- `nc_get` asks the finder for each layer; the step that is read gets its values by
  what the finder said; the reader makes the grids of them and fills them; particles,
  arrows and the cursor read them through the interpolation, and the overlay traces
  isolines over them.
- The session's selections set the layer flags; the check boxes set them too; the
  factory reads them at every paint.
- The particle timer only sets a flag and asks for a refresh; the next paint does
  the work and starts the timer again.

What makes each component correct:

- *Session*: the list holds all the steps of one file or nothing; list, slider,
  selected index and label agree; the chart shows a step of the open file; at most
  one step's data is kept; grids are freed with the size they were allocated with.
- *Switches*: no layer is on that the user cannot switch off; a box tells the truth
  about its flag; closing the dialog and switching the plugin off and on change nothing.
- *Caches*: a paint never draws something built from an older step.
- *Message memory*: no array is shared, freed twice or used after; no values leak; a
  message in which an allocation failed is consistent wherever it is copied.
- *Finder*: of several candidates, the documented order decides, not the file's.
- *Grids*: filling in place makes up nothing from what it made up in the same pass;
  the current has both components at the same points.
- *Interpolation*: no value outside its corners'; the same answer a turn further,
  from the south or the north, and across the seam of a global grid.
- *Isolines*: lines end only at the edge of the data; joining loses nothing.
- *Particles*: a trail is drawn in the order of time and holds nothing from before it
  was cleared; the population is bounded; the animation never freezes.

## 2. Modules

### NcdfViewer: what is promised

Two variables: the file that is `open` and the step that is `drawn`. A step comes
onto the chart only as a step of the file open at that moment; it may stay while
files are opened or fail, and it may vanish. `NcdfSession` implements it with
`open <- vecFile` and `drawn <- Drawn` (the step of `myMessage` if the factory is
ready). The abstract specification has neither tree nor slider nor cached ids.

### NcdfFeed: what the factory is told

Three variables of the factory, `data`, `layers` and `ready`, and three events: a
step arrives whole (`setData`), the factory is reset, or it is made anew with the
plugin. `NcdfOverlay` instantiates it (`Feed!Load`, `Feed!Clear`, `Feed!Forget` are
the first conjuncts of its `setData`, `reset` and `DeInit`), so that it is the
overlay's assumption on its environment; `NcdfSession` states with `FeedSpec` that
its handlers cause no other events, under `data <- message`, `layers <- Live` (the
layers whose grids exist). That is the composition of the two.

### NcdfSession: the core

One action per handler, with every call the handler makes. `SelectStep` and
`SwitchFile` are the two halves of `onTreeSelectionChanged`'s step branch (the file
`m_currentFilePath` names, or another one), `SelectFile` is its file branch,
`SelectLeaf` its early return. `onPrev` and `onNext` are `MoveTo` of the sibling
node. `fillDirTree`'s loop is one step per file, and every handler other than
painting waits for it (`Idle`).

| Variable | Code |
|---|---|
| `vecFile`, `vecLen`, `loaded` | `myDataVector`: file of its entries, size, entries with field data |
| `last`, `path`, `found` | `m_lastSelectedTimeIndex`; `m_currentFilePath`; the file whose ids are in `m_cached_*_varid` and whose layers in `m_fileHas*` |
| `tree`, `filling`, `focus` | file nodes with their number of steps; the rest of the directory; the focused item |
| `sliderMax`, `slider`, `label` | `m_sTimeline`, `m_staticTextDateTime` |
| `grids`, `message`, `ready` | `gridu`/`gridv`/`gridMag`, `gridSST`, `gridSalinity` (the message each was built from); `myMessage`; `m_bReadyToRender` |

A message is a record of the file, the index and the file whose variable ids its
data was read with: what the properties tell apart. `nc_get` fails before it caches
the ids ("unopened"), after that ("unread") or succeeds. A read fails, or leaves out
the sea temperature or the salinity when memory runs out (`Complete`), but not the
current: for it `readTimeStepData` fails as a whole.

External, modelled from the way `src/` uses it: the disk (contents constant, opening
and reading may fail at any time); the tree control (a selection event names any
item, `SelectItem` under `m_isTreeUpdating` moves the focus and its event is
discarded by the guard at `ncdf.cpp:1624`; a documents directory is a path that
lists no files here because `onDirChanged` never fills it).
`onTimeChange` is not an action: its control is hidden (`gui.cpp:54`).

### NcdfLayers

The switches as sets: `flag`, `box`, `visible`, `saved`. A layer has several
switches (the current three, the sea temperature two). Of the session it keeps what
the handlers read: `path`, `found` and the files with step nodes. `SelectionFails`
covers the early returns of `onTreeSelectionChanged`. `ShowSteps` is the tail every
selection of a step ends with, and that of a file without steps (`SelectLeaf`).

`saved` is what `SaveConfig` has written to the host's `wxFileConfig`, an object in
memory. The plugin never flushes it, so what survives the end of the *program* is the
host's matter and nothing is stated about it. What is stated is that no handler but
those of a dialog on the screen changes a switch (`SwitchesSurvive`): `DeInit` closes the
dialog, which saves, before it deletes it, which copies three boxes into the flags, and
the boxes may differ from the flags (`layers_box`). In the other order the boxes would
be saved. `HiddenMeansOff` starts with the first selection in the tree (before it all
boxes are hidden and the flags are those of the configuration), and excepts the
isolines where the sea temperature's box is shown, since a click on a file node does
not show theirs.

### NcdfOverlay

`setData` only marks caches (`stale`); a GL paint goes through the layers in the
code's order, taking and returning a record of the caches; each layer drops its
texture if it is marked, makes it and the *shared* lookup texture if it is missing,
and draws. `built` says which step a cache was made from, `frame` what the last
paint drew and from what. Memory may run out for the texture or for the tiles. The
constructor does not initialise the lookup texture's flag and name: the model starts
with either outcome. A DC paint touches no texture but computes the isolines.
The uniforms `dataMin` and `dataMax` are left out: the fragment shader does not use
them. The arrows and the legend have no caches and are left out.

### NcdfParticles

A particle is its turn counter, age, ring-buffer position and size, and what its last
update did; each node of its trail has the age at which the particle was there (`when`),
or is erased. `Updates` is one pass of `RenderParticles`: the dead leave, the last
particle taking the place of each (`Refilled`), the others take their turn, the surplus
is cut, new ones are added. What a position decides, halting, moving or leaving the
viewport, is chosen freely. Constants are those of the code, scaled.

`Behind` and `Back` describe the drawing loop: how many nodes it comes to after the
first, and which. `TrailIsInOrder` says that it comes to them in the order of time, that
none is from before the particle was recycled, and that what it does not come to is
erased. It does not say that the first node is drawn: after recycling it is not, which is
the finding of `particles_recycled`. A paint that does not reach the particles may or may
not clear them (`PaintWithout`): it does when another layer is on.

### NcdfMessage

Memory as blocks with an identity: `mem.ptr` says which block an array of a message
points to, `mem.live` which blocks are allocated, `mem.tag` the plain fields (the file
and the flags `hasSeaTemp`, `hasSalinity`). The messages are `myncdfData`, `myData`,
`myMessage`, the entries of `myDataVector` and those of `addChildren`'s
`savedVector`. `clear`, `freeAll`, `copyFrom`, `Assign` (`operator=`) and `Construct`
(the copy constructor) are operators from memory to memory, for a set of messages at
once; `calloc` overwrites a pointer, whatever it pointed to. The three coordinate
arrays are one, since the code always handles them together.

`nc_get` is not one action here: it is called (`addChildren`, `SelectFile`,
`SwitchFile`), pushes one step after the other, and fails or returns, because its
scratch message is what leaks. The other handlers are one action each.
`readTimeStepData` yields a set of outcomes: opening fails, one of the four
allocations of the current fails and those before it are given back, the optional
layers are there or not. Every action ends with `Settle`: blocks without a pointer
leave the memory, and `lost` keeps the name of the array they were made for.

External: the heap. `Name` and `Renamed` give a block the first of its two names as
soon as that is free, which keeps the memory finite (two names suffice because a
place never has more than two blocks within one action). Reallocation within
`std::vector` copies and destroys entries in pairs and is left out, as are failing
allocations that the code does not check: those of `sst` and `salinity`
(`ncdf.cpp:1505`, `1564`) and of `copyFrom`, after which the program ends.

### NcdfFinder, NcdfGrid, NcdfInterpolation, NcdfIsoLine, NcdfField

The way of one layer from the file to the chart, composed by `NcdfField`; the
algorithms are state machines with one action per turn of a loop.

- `NcdfFinder`: `rule`, `hint`, `var` are the loops' counters, `varid` the result.
  `PicksBest` compares it with an order on all `Matches`, which knows no loops.
- `NcdfGrid`: `ReadStep` copies a time step's arrays and lays them out row by row;
  `FILL_V` and `FILL_H` fill one cell of all grids; `Magnitude` keeps the square.
  Values are integers; inputs are multiples of four so that two halvings are exact.
  A grid of fewer than three rows or columns is not filled. The values are those that
  `readTimeStepData` keeps: what is no number or out of the layer's range is NOTDEF, and
  Kelvin are degrees Celsius (`ncdf.cpp:1505`, `1564`).
- `NcdfInterpolation`: positions are integers, `Parts` between two points of the
  grid, a turn is `Circle` of them; values are multiplied by `Scale`, which makes the
  Hermite weights exact. `while` loops that add or subtract turns are the closed
  form `TurnsTo`. Neighbouring points are `Parts` apart, also in latitude
  (`PlacesAssumption`): that is the unit of the positions. Two properties of a file
  decide what can be expected of its interpolation and are premises of the properties
  that need them: `Level`, that no two values are more than 90 apart (else the code
  takes them for directions), and `OneTurn`, that the columns do not go round the
  globe more than once (else one lies over another). `SameAfterATurn` and `SeamIsNowhere`
  except the longitude `DataEnd`, where the code finds no column; `ExactAtNodes` excepts
  points beside a gap and in the last row, where it may give no value. Longitudes run
  east, from the first to the last column (`Maps`), so that the branch of `isXInMap` for
  the other case is not taken. The branch for one missing corner
  is dead (`ncdfdata.cpp:615` returns before it).
- `NcdfIsoLine`: `extractIsoLine` one cell at a time, then `BuildContinuousSegment`
  one segment at a time from both ends. Points are kept with their edge: in the code
  the two segments at an edge compute the same double from the same operands. In rows
  and columns no edge is more than 180 degrees long, so that the correction of
  `IsoLine2.cpp:548` has no counterpart. The overlay
  draws the segments of `trace`; the chains are built by the constructor on
  every rebuild and are for `drawIsoLine`.
- `NcdfField`: the finder's answer decides whether the step that is read may have
  temperatures (they are missing too when there is no memory for them); the isolines are traced
  when the grids are finished.

## 3. Runs

`tlc -config X.cfg M` with the module of the table; all pass or fail as stated.

| Run | Module, cfg | What it shows |
|---|---|---|
| `session` | `MCNcdfSession`, `NcdfSession.cfg` | types; `ListIsOneFile`, `TimelineAgrees`, `OneStepLoaded`, `GridsBuiltFromMessage`, `ReadyHasGrid`; no step but the selected one comes onto the chart; no old field under a new file; refinement of `NcdfViewer` and of `NcdfFeed` (about 1,000,000 states) |
| `session_path` | `NcdfSessionPath.cfg` | **violated**: `m_currentFilePath` is not the loaded file |
| `session_ids` | `NcdfSessionIds.cfg` | **violated**: cached ids of a file that is not loaded |
| `session_skip` | `NcdfSessionSkip.cfg` | **violated**: the slider skips a step that is not on the chart |
| `layers` | `MCNcdfLayers`, `NcdfLayers.cfg` | `HiddenMeansOff`, `SalinityBoxAgrees`; only the dialog on the screen changes a switch, `SwitchesSurvive` (208,000 states) |
| `layers_box` | `NcdfLayersBox.cfg` | **violated**: a shown, ticked box of a layer that is off |
| `overlay` | `MCNcdfOverlay`, `NcdfOverlay.cfg` | `FrameIsCurrent`, `LutIsOfCurrentStep` (302,000 states) |
| `overlay_lut` | `NcdfOverlayLut.cfg` | **violated**: one layer is drawn in another layer's colours |
| `particles` | `MCNcdfParticles`, `NcdfParticles.cfg` | `TrailIsInOrder`, `PopulationBounded`, liveness `AnimationGoesOn` (120,000 states) |
| `particles_recycled` | `NcdfParticlesRecycled.cfg` | **violated**: a recycled particle loses its position |
| `field` | `MCNcdfField`, `NcdfField.cfg` | `PicksBest`; `FillIsSimultaneous`, `CurrentIsWhole`, `GapsAreBridgedLocally`; `BetweenCorners`, `ExactAtNodes`, `SameAfterATurn`, `OrientationFree`, `SeamIsNowhere`; `LinesAreUnbroken`, `ChainsAreContinuous`, `EverySegmentOnce`, `ChainsAreMaximal` (83,000 states) |
| `message` | `MCNcdfMessage`, `NcdfMessage.cfg` | `OwnsWhatItPointsTo`, `OnlyCoordinatesAreLost`, `CurrentAllOrNothing`, `FlagsTellTheArrays`, `GridsFitTheMessage` (62,000 states) |

The violated runs state what a comment or document of the repository says; each has
a finding in `PROJECT.json` with the quotation and the lines.

### Bounds, and why they are enough

- *Session*: two directories. The first lists a file with three steps, one with
  two, whose layers differ, and one that fails after its ids were cached; the second
  a file without steps and one refused at once. Every kind of file is there, and
  neighbouring files differ in length, so that an index valid for one is out of range
  for the other. The state space is finite without further bounds.
- *Layers*: two files that share no layer, one with the file listed last. Two files
  suffice because every handler looks at one or two of them.
- *Overlay*: two paintable steps (symmetric) and one with a single row; an older
  and a newer step are all the properties compare.
- *Particles*: trails of three nodes instead of 4 to 8, lives of 7 moves instead of
  50, two particles, two burst updates; shares of one instead of 1/16 and 1/64 so
  that removal and spawning happen with two particles. A trail of three wraps, fills
  and is recycled in any position. `Global = TRUE` is the larger behaviour: a particle
  whose position was erased may still move.
- *Field*: all files of up to three variables, each with any standard name, long name
  and name among the right ones and a wrong one: three variables are enough for two
  rules, two hints and two variables to compete. Currents of 4 by 3, 3 by 4, 2 by 4
  and 1 by 3 points with every gap of up to three points, where the second component
  has its own gaps: 4 by 3 has two inner columns and 3 by 4 two inner rows, so that a
  filled cell is a neighbour of the next; the other two are too small to be filled.
  Temperatures of 3 by 3 and 2 by 3 points with every pattern of warm and cold and
  no gap, one in the middle or one in a corner: all sixteen cases of a cell beside
  each other, saddles and closed lines. `Places` are a first longitude 0 with rows
  from the south and one west of 0 with rows from the north; with `Circle` = 12 and
  `Parts` = 3 the grids of four columns are global and the others are regional. Three
  parts have positions on, before and after the middle of a cell. The interpolation is
  checked when the grids are filled (`pass = "magnitude"`), since they do not change
  any more. All of them are `Level`, and the global ones go round once.
- *Message*: a file of two steps with a current and one of a single step with other
  rows and a temperature. Two steps give an entry that is loaded and one that is not;
  two files give a cache of ids, flags and rows that belong to the wrong one. Lost
  arrays are kept by name only, which keeps the state space finite.

### Fairness

All modules but `NcdfParticles` state safety only: the user may stop at any time.
`NcdfParticles` assumes weak fairness of the timer's expiry (a wxTimer that runs
expires, the event loop runs) and of painting while a `Refresh` is pending (the host
paints a canvas that asked for it). Nothing is assumed of the user. Deadlock is
checked in every run but `field`, whose pipeline ends when the last line is joined.

## 4. Proofs

Each proof module extends the module it is about; the constants are any that satisfy
the named assumptions. Everything below is checked to the last leaf.

| Module | Theorem | Statement | Assumptions |
|---|---|---|---|
| `NcdfSessionProofs` | `TypeCorrect` | `Spec => [](TypeOK /\ TreeAgrees)` | `FilesAssumption`, `DirsAssumption` |
| | `ListIsAlwaysOneFile`, `TimelineAlwaysAgrees`, `OneStepAlwaysLoaded` | the three invariants of the list | |
| | `GridsAlwaysMatchMessage`, `ReadyAlwaysHasGrid` | the two invariants of the chart | |
| | `OnlySelectedStepAppears`, `OldFileAlwaysLeaves` | the two action properties | |
| | `SessionImplementsViewer`, `SessionFeedsOverlay` | `Spec => ViewerSpec`, `Spec => FeedSpec` | |
| `NcdfLayersProofs` | `LayersAreRight`, `SwitchesAlwaysSurvive` | the three invariants of the switches; the action property | `LayersAssumption` |
| `NcdfOverlayProofs` | `OverlayIsRight` | `TypeOK`, `FrameIsCurrent`, `LutIsOfCurrentStep` | `OverlayAssumption` |
| `NcdfFinderProofs`, `NcdfFieldProofs` | `FinderPicksBest`, `FieldPicksBest` | `PicksBest`, of the finder and of the composition | `QueryAssumption`, `NcFilesAssumption` |
| `NcdfGridProofs`, `NcdfFieldProofs` | `GridsAreTyped`, `FillsAtOnce`, `CurrentStaysWhole`, `GapsStayLocal`, `FieldGridsAreRight` | the four invariants of the grids | `FieldsAssumption`, `NotdefAssumption` |
| `NcdfFieldProofs` | `FieldBuildsGrids` | `FieldSpec => GridSpec` | none |
| `NcdfGridProofs`, `NcdfFieldProofs` | `ValuesStayBetween`, `NodesAreExact`, `TurnsDoNotMatter`, `OrientationDoesNotMatter`, `NoSeam`, `FieldInterpolates` | the five invariants of the interpolation | those, `CircleAssumption`, `PlacesAssumption` |
| `NcdfFieldProofs` | `LinesStayUnbroken`, `ChainsStayContinuous`, `ChainsStayMaximal`, `SegmentsAreUsedOnce` | the four invariants of the isolines | those of the grids, `LineAssumption` |
| `NcdfParticlesProofs` | `ParticlesAreTyped`, `TrailsStayInOrder`, `PopulationStaysBounded` | the three invariants of the particles | `ParticlesAssumption` |
| | `AnimationNeverStalls` | `[]AnimationIsPending` | |
| `NcdfMessageProofs` | `MemoryIsOwned`, `MessagesAreWhole` | the five invariants of the memory | `FilesAssumption`, `NullAssumption` |

Every invariant and action property that a passing run checks, and both refinements,
are stated by one of these theorems.

**Session.** The argument has three layers, each inductive relative to those before it.

1. `TypeInv` = `TypeOK` and `TreeAgrees`. `TreeAgrees` (a file node has children
   only for a file that can be loaded, one for each of its steps) is the
   strengthening: without it a step clicked in the tree could be out of the range
   of the list that `SwitchFile` loads, and `last < vecLen` would not be inductive.
2. `ListInv` = `ListIsOneFile`, `TimelineAgrees`, `OneStepLoaded`.
3. `ChartStepOfNext`: under 1 and 2, every step of the session does one of three
   things to the chart: it takes the field off, leaves it alone, or shows the
   selected step of the list. `ChartInv`, the action properties, the refinement of
   the viewer and that of the feed follow from this classification alone, without
   looking at the handlers again.

**Switches.** The invariants are inductive together once `NoDialog` is added: without
a dialog nothing is selected and no box is shown. Every selection of a step ends in
`ShowSteps`, which re-establishes all of them by itself (`ShowStepsKeeps`).
`SwitchesSurvive` needs one fact more, `AsLoaded`: before the first dialog the flags are
those of the configuration, so that a plugin switched off without one loses nothing.

**Caches.** A paint goes through four layers, so the invariant `PaintInv` is stated of
the record of caches that the layers hand on: a cache that exists and is not marked was
built from the current step, and as soon as one layer's texture is such, the lookup
texture, if there is one, is of that step too. Each layer's rendering preserves it and draws only what
satisfies the property; a paint is the composition.

**Finder.** The invariant says of each rule what has been tried and did not match: all
earlier rules, all earlier names of the list, all earlier variables for this name.
A match is then before every other, and none is left when the last rule ends.

**Grids.** Filling in place is filling at once because a cell is filled only between
two neighbours that have values, so that two adjacent cells are never both filled in
one pass, and a cell without a value that stays one was never a neighbour that
counts. The invariant compares the grid with the one the pass began with, cell by
cell: those the loops are past have the filled value, the others the old one. The
wholeness of the current needs only that a fill looks at where values are, never at
what they are; locality follows a value through the two passes.

**Memory.** The proof is about a predicate of a memory, `Good`: a pointer is a live
block of its own place, so that no two are equal, and a live block other than
coordinates has its pointer. Each operator (`clear`, `freeAll`, `copyFrom`, `Assign`,
`Construct`, `Alloc`, `Free`) preserves it and determines which arrays a message holds
and which file and flags it is tagged with. A handler is a composition of these; what
it keeps, `WellKept`, speaks only of arrays held and tags: every message has the
current's arrays or none, the flags of the one on the chart are true, the entries of
both vectors are as many as counted and each is of a file, and the grids' rows are
those of the message's file. `IInv` adds what `nc_get` carries between its turns.

**Interpolation.** It is a function of the filled grids, so the invariant is that of the
grids (values are integers or NOTDEF at every cell); the rest is arithmetic. A
longitude in the data is a whole number of cells and a rest (`CellAndRest`), because
the divisions by the increments are exact (`ExactQuotient`); the Hermite share of the
rest is between nothing and one and symmetric about the middle (`HermiteGrows`,
`HermiteTurns`). `Blend` is a mean of means (`BlendIsBetween`): under `Level` the
correction for directions does nothing, and the value lies between the corners'.
Turning a longitude or moving the columns leads to the same cell and rest or to that
of the neighbouring column (`TurnedBack`, `ReadMoved`); turning the rows over exchanges
the corners and turns the share of the row (`BlendFlips`). These three need no
`Level`: the correction commutes with all of them.

The proofs gave the premises their exact form. Without `OneTurn`, `SameAfterATurn` and
`SeamIsNowhere` are false: a file from 0 to 360 inclusive has its first column twice,
and a longitude just east of it is read in the first cell or in the cell behind the last
column, depending on the side from which it comes.

**Isolines.** Two inductive arguments, with `IsoInv` the conjunction of their parts.
The first is a count (`CutInv`): of each edge, the segments that end on it so far are as
many as whole cells beside it that `extractIsoLine` has been at, if the line crosses the
edge, and none otherwise. A cell adds one segment to each of its crossed edges, whichever
of the sixteen cases it is (`CutKinds`). The second is about joining. `OnceInv`: unused
segments, both sides of the chain that grows and the finished chains are apart, the two
sides share exactly their first segment, and together they are all segments.
`ContinuityInv`: each side is joined point by point, which survives turning a segment
over because only an unused one is turned. `MaximalInv` is the strengthening that
makes `ChainsAreMaximal` inductive: no segment that is unused or being built touches an
end of a finished chain. That the first segment left exists (`MinIsMember`) rests on the
natural numbers being well founded.

**Particles.** The invariant is a predicate of one particle, `Sound`: each node is
`InOrder`, and `Fills`, the strengthening: until the ring is full the position is one
below the size, so that the node the ring goes on to is the one the drawing loop does
not yet come to. `Advance` puts every other node a turn further behind and makes the
particle a turn older, and `Act` settles the new first node or clears them all; an
update takes, cuts and appends sequences of sound particles. A particle dies at the turn
after its age exceeds `max_duration`, which bounds the age. The population needs only that `Room` is
at most the distance to `Total`: cutting and adding cannot both happen.
`AnimationIsPending`, that a paint is asked for or the timer runs while there is
something to animate, is the invariant `AnimationGoesOn` rests on.

Model-checked only:

- *Liveness*: `AnimationGoesOn` needs fairness and `ENABLED`, outside what the prover
  supports. Its safety core is proved (`AnimationNeverStalls`).
- *The violated runs*, whose properties do not hold.

## 5. Not modelled

- `ParseCFTimeUnits` and the guess of a unit where there is none (`ncdf.cpp:980-1055`):
  parsing of strings and calendar arithmetic.
- Colours, projection, tiling, the legend, the current's arrows: drawing without state.
- The alpha of a trail (`ncdfparticle.cpp:295`), which wraps around for slow particles.
- The tidal arrows at the cursor, which replace the whole overlay while they are on.
- Placing the isolines in latitude (`ncdftexture.cpp:472-474`). It begins at the
  northern latitude and steps north if the latitudes ascend, so the lines of such a
  file are drawn off the grid; two lines of arithmetic, seen on reading.
- `~MainDialog` frees four of the five grids (`ncdf.cpp:134-157`), not `gridSalinity`.
- The spline code of `IsoLine2.cpp`, `NcdfIsoLine.cpp`, the class `ncdfData`: no caller.
- The generated dialog, icons, left-over helpers, and everything under
  `opencpn-libs/`: the vendored libraries are 99 percent of the repository's lines.
  Of the plugin's own source the modules cover most of what keeps state.

`PROJECT.json` lists the hazards of this code at their lines; those that no property
covers have the reason. Longitude-first data (`ncdf.cpp:1435`) and the correction for
directions that is applied to every layer (`ncdfdata.cpp:591`) are among them.

## 6. Plan

Done: all modules above, the composition of session and overlay through `NcdfFeed`, and
theorems for every safety property the passing runs check.

Left, in order of importance:

1. What `NcdfOverlay` and `NcdfSession` promise together as one theorem: a paint after
   any handler draws a step of the file that is open.
2. The alpha and length of a trail as numbers, in `NcdfParticles`.
3. The tidal arrows, in `NcdfOverlay`: a mode in which the overlay is not painted.
4. The placing of grids and isolines in latitude for both orders of rows, for which
   `NcdfInterpolation` already has the maps.
5. CF time: the guess of a unit as a decision over ranges of the first value.

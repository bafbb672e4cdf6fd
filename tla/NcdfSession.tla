----------------------------- MODULE NcdfSession -----------------------------
(***************************************************************************)
(* The session state of MainDialog (src/src/ncdf.cpp): the directory tree, *)
(* the list of time steps of the loaded file, the slider, the cached       *)
(* NetCDF variable ids, the grids built for the chart, and the overlay     *)
(* factory's readiness.  One action per event handler of the dialog and of *)
(* the plugin; the GUI is single-threaded, so a handler is one step, except *)
(* that fillDirTree's loop over the directory is one step per file and     *)
(* every other handler waits for it.                                       *)
(*                                                                         *)
(* The disk is external: a file's content does not change, but opening or  *)
(* reading it may fail at any time (removed, locked, a share gone).        *)
(***************************************************************************)
EXTENDS Integers, Sequences

CONSTANTS
  Files,        \* full path names of the .nc and .nc4 files
  Steps,        \* Steps[f]: length of the time dimension of f
  Vars,         \* Vars[f]: the layers whose variables find_var_by_cf finds in f
  Unsupported,  \* files nc_get refuses before it looks for variables
  NoCoords,     \* files without a latitude, longitude or time variable
  Undated,      \* files whose time units cannot be parsed or guessed
  Dirs,         \* directories the user may choose
  DirFiles,     \* DirFiles[d]: the files of d in the order wxDir lists them
  Docs,         \* the documents directory
  NoDir,        \* the empty directory text
  NoFile        \* stands for "no file"

Layers == {"current", "sst", "salinity"}

ASSUME FilesAssumption ==
  /\ NoFile \notin Files
  /\ Steps \in [Files -> Nat]
  /\ Vars \in [Files -> SUBSET Layers]
  /\ Unsupported \subseteq Files
  /\ NoCoords \subseteq Files
  /\ Undated \subseteq Files

ASSUME DirsAssumption ==
  /\ DirFiles \in [Dirs -> Seq(Files)]
  /\ NoDir \notin Dirs

VARIABLES
  dialog,     \* m_pncdfDialog: not created, hidden or shown
  ncdfDir,    \* pPlugIn->m_ncdf_dir
  filling,    \* the files fillDirTree has still to add
  tree,       \* the file nodes below the root, each with its number of steps
  focus,      \* the focused (and selected) item of m_treeCtrl
  vecFile,    \* the file of the entries of myDataVector, NoFile if it is empty
  vecLen,     \* myDataVector.size()
  loaded,     \* the entries of myDataVector that hold field data
  last,       \* m_lastSelectedTimeIndex
  path,       \* m_currentFilePath
  found,      \* the file nc_get last searched: m_fileHas*, m_cached_*_varid
  sliderMax,  \* range of m_sTimeline
  slider,     \* value of m_sTimeline
  grids,      \* the message each layer's grid was built from
  message,    \* myMessage
  ready,      \* the overlay factory's m_bReadyToRender
  label       \* the step m_staticTextDateTime names, NoLabel if none

list     == <<vecFile, vecLen, loaded, last, found>>
display  == <<grids, message, ready>>
timeline == <<sliderMax, slider>>
vars     == <<dialog, ncdfDir, filling, tree, focus, vecFile, vecLen, loaded, last,
              path, found, sliderMax, slider, grids, message, ready, label>>

-----------------------------------------------------------------------------
(* Tree items.  A file node has no MyTreeItemData; a step node holds its    *)
(* index.  Nodes are numbered by their position below their parent.         *)

NoItem         == [kind |-> "none", node |-> 0, step |-> 0]
Root           == [kind |-> "root", node |-> 0, step |-> 0]
FileItem(i)    == [kind |-> "file", node |-> i, step |-> 0]
StepItem(i, k) == [kind |-> "step", node |-> i, step |-> k]

HasStepUnchecked(i, k) == i \in DOMAIN tree /\ k < tree[i].kids

HasStep(i, k) == i \in DOMAIN tree /\ k \in 0 .. tree[i].kids - 1

(* A message is a copy of one entry of myDataVector, together with the file *)
(* whose variable ids its field data was read with.                         *)

Msg(f, k, ids) == [file |-> f, index |-> k, ids |-> ids]
NoMsg          == Msg(NoFile, -1, NoFile)
NoGrids        == [l \in Layers |-> NoMsg]
Live           == {l \in Layers : grids[l] # NoMsg}
At(f, k)       == [file |-> f, index |-> k]
NoLabel        == At(NoFile, -1)

-----------------------------------------------------------------------------
(* nc_get clears myDataVector and m_lastSelectedTimeIndex.  It may then     *)
(* fail before it caches the variable ids ("unopened"), fail after that     *)
(* ("unread": no coordinates, or no memory for them), or succeed.           *)

Good == Files \ (Unsupported \cup NoCoords)

Opens(f) ==
  {"unopened"} \cup {r \in {"unread"} : f \notin Unsupported} \cup {r \in {"ok"} : f \in Good}

Found(f, r) == IF r = "unopened" THEN found ELSE f

SetList(f, n) ==
  /\ vecFile' = IF n > 0 THEN f ELSE NoFile
  /\ vecLen' = n

SetTimelineNoRange(n) ==
  IF n > 0 THEN slider' = 0 /\ UNCHANGED sliderMax ELSE UNCHANGED timeline

SetTimeline(n) ==
  IF n > 0 THEN sliderMax' = n - 1 /\ slider' = 0 ELSE UNCHANGED timeline

nc_getAppends(f, r) ==
  /\ SetList(f, vecLen + (IF r = "ok" THEN Steps[f] ELSE 0))
  /\ loaded' = {}
  /\ last' = -1
  /\ found' = Found(f, r)
  /\ SetTimeline(IF r = "ok" THEN Steps[f] ELSE 0)

nc_get(f, r) ==
  /\ SetList(f, IF r = "ok" THEN Steps[f] ELSE 0)
  /\ loaded' = {}
  /\ last' = -1
  /\ found' = Found(f, r)
  /\ SetTimeline(IF r = "ok" THEN Steps[f] ELSE 0)

(* readTimeStepData reads one step of f with the cached ids.  The current's *)
(* ids are searched again in f when the cache has none; the other layers    *)
(* are read exactly when the file nc_get last searched has them.            *)

LayersRead(f, ids) ==
  LET cached == IF ids = NoFile THEN {} ELSE Vars[ids] IN
  {l \in Layers : l \in cached \/ (l = "current" /\ l \in Vars[f])}

(* A layer for which there is no memory is left out, but for the current:   *)
(* when reading it fails at any point, so does the whole read.              *)

Needed(all) == all \cap {"current"}

Complete(f, ids) ==
  LET all == LayersRead(f, ids) IN {layers \in SUBSET all : Needed(all) \subseteq layers}

(* readncdfFile replaces myMessage, every grid and the date label by those  *)
(* of the message, unless the message holds no field data: then it returns  *)
(* before it touches anything, and they stay as they were (g, r, t).        *)

readncdfFileKeepsAbsent(m, layers, g, r, t) ==
  IF layers = {}
  THEN grids' = g /\ ready' = r /\ label' = t /\ UNCHANGED message
  ELSE /\ grids' = [l \in Layers |-> IF l \in layers THEN m ELSE grids[l]]
       /\ message' = m
       /\ ready' = TRUE
       /\ label' = IF m.file \in Undated THEN NoLabel ELSE At(m.file, m.index)

readncdfFile(m, layers, g, r, t) ==
  IF layers = {}
  THEN grids' = g /\ ready' = r /\ label' = t /\ UNCHANGED message
  ELSE /\ grids' = [l \in Layers |-> IF l \in layers THEN m ELSE NoMsg]
       /\ message' = m
       /\ ready' = TRUE
       /\ label' = IF m.file \in Undated THEN NoLabel ELSE At(m.file, m.index)

\* The handler names the step and reads it; a failed read leaves no field data.
ShowStep(m, g, r) ==
  \E layers \in {{}} \cup Complete(m.file, m.ids) :
     readncdfFile(m, layers, g, r, At(m.file, m.index))

-----------------------------------------------------------------------------
(* The state after the dialog's constructor, before setPlugIn.              *)

Blank ==
  /\ tree = <<>> /\ focus = NoItem /\ filling = <<>>
  /\ vecFile = NoFile /\ vecLen = 0 /\ loaded = {} /\ last = -1
  /\ path = NoFile /\ found = NoFile
  /\ sliderMax = 10 /\ slider = 0
  /\ grids = NoGrids /\ message = NoMsg /\ ready = FALSE
  /\ label = NoLabel

MadeAnew ==
  /\ tree' = <<>> /\ focus' = NoItem /\ filling' = <<>>
  /\ SetList(NoFile, 0) /\ loaded' = {} /\ last' = -1
  /\ path' = NoFile /\ found' = NoFile
  /\ sliderMax' = 10 /\ slider' = 0
  /\ grids' = NoGrids /\ message' = NoMsg /\ ready' = FALSE
  /\ label' = NoLabel

Init ==
  /\ dialog = "none"
  /\ ncdfDir \in Dirs \cup {Docs}
  /\ Blank

\* The user can act: the dialog is on the screen and no handler is running.
Idle == dialog = "shown" /\ filling = <<>>

(* onDirChanged for directory text d: fillDirTree empties the tree, adds    *)
(* and selects the root, and lists the directory's files; with an empty     *)
(* text, or with the documents directory set, the tree is just emptied.     *)

onDirChanged(d) ==
  /\ tree' = <<>>
  /\ IF d # NoDir /\ ncdfDir' # Docs
     THEN focus' = Root /\ filling' = (IF d \in Dirs THEN DirFiles[d] ELSE <<>>)
     ELSE focus' = NoItem /\ filling' = <<>>
  /\ UNCHANGED <<list, path, timeline, display, label>>

\* OnToolbarToolCallback and MainDialog::setPlugIn
Toolbar ==
  /\ dialog # "shown"
  /\ dialog' = "shown"
  /\ UNCHANGED ncdfDir
  /\ \/ dialog = "none" /\ onDirChanged(ncdfDir)
     \/ /\ dialog = "hidden"
        /\ UNCHANGED <<filling, tree, focus, list, path, timeline, display, label>>

onFileButtonClick(d) ==
  /\ Idle
  /\ ncdfDir' = d
  /\ onDirChanged(d)
  /\ UNCHANGED dialog

\* The directory text is edited by hand: m_ncdf_dir keeps its value.
TypeDirectory(d) ==
  /\ Idle
  /\ UNCHANGED <<dialog, ncdfDir>>
  /\ onDirChanged(d)

(* addChildren: one file of the directory gets its node and, if nc_get      *)
(* succeeds, its step nodes; if it fails, the list of steps is restored.    *)

addChildren ==
  /\ filling # <<>>
  /\ LET f == Head(filling) IN
     \E r \in Opens(f) :
        /\ tree' = Append(tree, [file |-> f, kids |-> IF r = "ok" THEN Steps[f] ELSE 0])
        /\ path' = f
        /\ IF r = "ok"
           THEN nc_get(f, r)
           ELSE found' = Found(f, r) /\ UNCHANGED <<vecFile, vecLen, loaded, last, timeline>>
  /\ filling' = Tail(filling)
  /\ UNCHANGED <<dialog, ncdfDir, focus, display, label>>

-----------------------------------------------------------------------------
(* onTreeSelectionChanged, for whichever item the control says is selected.  *)

\* The root, or a file node without children: nothing is loaded.
SelectLeaf(item) ==
  /\ Idle
  /\ \/ item = Root /\ focus # NoItem
     \/ \E i \in DOMAIN tree : item = FileItem(i) /\ tree[i].kids = 0
  /\ focus' = item
  /\ UNCHANGED <<dialog, ncdfDir, filling, tree, list, path, timeline, display, label>>

\* The grids of all layers are freed and the overlay factory is reset.
FreeGridsNoReset == grids' = NoGrids /\ UNCHANGED <<ready, message>>
KeepGrids        == UNCHANGED display

FreeGrids == grids' = NoGrids /\ ready' = FALSE /\ UNCHANGED message

\* A file node with children: the file is loaded, no step is shown yet.
SelectFile(i) ==
  /\ Idle
  /\ tree[i].kids > 0
  /\ focus' = FileItem(i)
  /\ \E r \in Opens(tree[i].file) :
        /\ nc_get(tree[i].file, r)
        /\ IF r = "ok" THEN FreeGrids ELSE UNCHANGED display
  /\ UNCHANGED <<dialog, ncdfDir, filling, tree, path, label>>

(* A step node of the file that m_currentFilePath names: only the step      *)
(* changes.  The previous step's field data is freed unless it is the same. *)

SelectStep(i, k) ==
  /\ Idle
  /\ HasStep(i, k)
  /\ tree[i].file = path
  /\ focus' = StepItem(i, k)
  /\ IF k < vecLen
     THEN /\ loaded' = IF last # k THEN loaded \ {last} ELSE loaded
          /\ last' = k
          /\ slider' = k
          /\ ShowStep(Msg(vecFile, k, found), grids, ready)
     ELSE UNCHANGED <<loaded, last, slider, label, display>>
  /\ UNCHANGED <<dialog, ncdfDir, filling, tree, vecFile, vecLen, path, found, sliderMax>>

\* A step node of another file: the grids go, the file is loaded, then its step.
SwitchFile(i, k) ==
  /\ Idle
  /\ HasStep(i, k)
  /\ tree[i].file # path
  /\ focus' = StepItem(i, k)
  /\ LET f == tree[i].file IN
     \E r \in Opens(f) :
        IF r = "ok"
        THEN /\ SetList(f, Steps[f])
             /\ loaded' = {}
             /\ last' = k
             /\ path' = f
             /\ found' = f
             /\ sliderMax' = Steps[f] - 1
             /\ slider' = k
             /\ ShowStep(Msg(f, k, f), NoGrids, FALSE)
        ELSE /\ nc_get(f, r)
             /\ FreeGrids
             /\ UNCHANGED <<path, label>>
  /\ UNCHANGED <<dialog, ncdfDir, filling, tree>>

-----------------------------------------------------------------------------
(* OnTimeline.  The tree follows the slider: the item selected is child v   *)
(* of the focused file node, which is the root when the root has the focus. *)

Followed(v) ==
  CASE focus.kind = "root" /\ v + 1 \in DOMAIN tree -> FileItem(v + 1)
    [] focus.kind \in {"file", "step"} /\ HasStep(focus.node, v) -> StepItem(focus.node, v)
    [] OTHER -> focus

OnTimeline(v) ==
  /\ Idle
  /\ v \in 0 .. sliderMax
  /\ slider' = v
  /\ IF v # last /\ v < vecLen
     THEN /\ loaded' = loaded \ {last}
          /\ last' = v
          /\ focus' = Followed(v)
          /\ ShowStep(Msg(vecFile, v, found), grids, ready)
     ELSE UNCHANGED <<loaded, last, label, focus, display>>
  /\ UNCHANGED <<dialog, ncdfDir, filling, tree, vecFile, vecLen, path, found, sliderMax>>

(* onPrev, onNext: the sibling of the focused step node gets the focus and  *)
(* readData reads its step into myDataVector.                               *)

ReadFails(k) ==
  loaded' = loaded \ {last, k} /\ UNCHANGED <<last, slider, display, label>>

ReadsWithoutClearing(k) ==
  \E layers \in Complete(vecFile, found) :
    /\ loaded' = loaded \cup (IF layers # {} THEN {k} ELSE {})
    /\ last' = k
    /\ slider' = k
    /\ readncdfFile(Msg(vecFile, k, found), layers, grids, ready, label)

ReadsWithoutSelecting(k) ==
  \E layers \in Complete(vecFile, found) :
    /\ loaded' = (loaded \ {last, k}) \cup (IF layers # {} THEN {k} ELSE {})
    /\ slider' = k
    /\ readncdfFile(Msg(vecFile, k, found), layers, grids, ready, label)
    /\ UNCHANGED last

Reads(k) ==
  \E layers \in Complete(vecFile, found) :
    /\ loaded' = (loaded \ {last, k}) \cup (IF layers # {} THEN {k} ELSE {})
    /\ last' = k
    /\ slider' = k
    /\ readncdfFile(Msg(vecFile, k, found), layers, grids, ready, label)

readDataUnchecked(k) == ReadFails(k) \/ Reads(k)

readData(k) ==
  IF k < vecLen THEN ReadFails(k) \/ Reads(k)
                ELSE UNCHANGED <<loaded, last, slider, display, label>>

MoveTo(k) ==
  /\ Idle
  /\ focus.kind = "step"
  /\ HasStep(focus.node, k)
  /\ focus' = StepItem(focus.node, k)
  /\ readData(k)
  /\ UNCHANGED <<dialog, ncdfDir, filling, tree, vecFile, vecLen, path, found, sliderMax>>

onPrev == MoveTo(focus.step - 1)
onNext == MoveTo(focus.step + 1)

-----------------------------------------------------------------------------
\* onCloseDialog and OnncdfDialogClose
Close ==
  /\ Idle
  /\ dialog' = "hidden"
  /\ ready' = FALSE
  /\ UNCHANGED <<ncdfDir, filling, tree, focus, list, path, timeline, grids, message, label>>

\* The plugin is switched off and on again: dialog and factory are made anew.
DeInit ==
  /\ filling = <<>>
  /\ dialog # "none"
  /\ dialog' = "none"
  /\ MadeAnew
  /\ UNCHANGED ncdfDir

Next ==
  \/ Toolbar
  \/ \E d \in Dirs \cup {Docs} : onFileButtonClick(d)
  \/ \E d \in Dirs \cup {NoDir} : TypeDirectory(d)
  \/ addChildren
  \/ \E i \in DOMAIN tree : SelectLeaf(FileItem(i)) \/ SelectFile(i)
  \/ SelectLeaf(Root)
  \/ \E i \in DOMAIN tree : \E k \in 0 .. tree[i].kids - 1 : SelectStep(i, k) \/ SwitchFile(i, k)
  \/ \E v \in 0 .. sliderMax : OnTimeline(v)
  \/ onPrev
  \/ onNext
  \/ Close
  \/ DeInit

Spec == Init /\ [][Next]_vars
-----------------------------------------------------------------------------
(* Properties.                                                              *)

Messages == [file : Files \cup {NoFile}, index : Nat \cup {-1}, ids : Files \cup {NoFile}]
Labels   == [file : Files \cup {NoFile}, index : Nat \cup {-1}]

\* Every variable of the session holds a value of its type.
TypeOK ==
  /\ dialog \in {"none", "hidden", "shown"}
  /\ ncdfDir \in Dirs \cup {Docs}
  /\ filling \in Seq(Files)
  /\ tree \in Seq([file : Files, kids : Nat])
  /\ focus \in [kind : {"none", "root", "file", "step"}, node : Nat, step : Nat]
  /\ vecFile \in Files \cup {NoFile}
  /\ vecLen \in Nat
  /\ loaded \subseteq Nat
  /\ last \in Nat \cup {-1}
  /\ path \in Files \cup {NoFile}
  /\ found \in Files \cup {NoFile}
  /\ sliderMax \in Nat
  /\ slider \in Nat
  /\ grids \in [Layers -> Messages]
  /\ message \in Messages
  /\ ready \in BOOLEAN
  /\ label \in Labels

\* The grids are freed by loops over myMessage.noPointsMeridian rows (in
\* ncdf.cpp, in readncdfFile and in the destructor), so every grid that exists
\* must have been built from the message that myMessage holds at that moment.
GridsBuiltFromMessage == \A l \in Live : grids[l] = message

\* DoRenderncdfOverlay and the cursor readout use the grids whenever the factory
\* is ready: then at least one grid exists, and the message it came from is a
\* step that its file has.
ReadyHasGrid ==
  ready => /\ Live # {}
           /\ message.file \in Files
           /\ message.index \in 0 .. Steps[message.file] - 1

\* myDataVector always holds all the steps of exactly one good file, or nothing:
\* a failed open, at whichever point, never leaves part of a list or the steps of
\* one file under the name of another.
ListIsOneFile ==
  /\ vecFile = NoFile <=> vecLen = 0
  /\ vecFile # NoFile => vecFile \in Good /\ vecLen = Steps[vecFile]

\* The selected index is an entry of the list, and the slider agrees with both:
\* it runs over the list, and it stands at the selected step.
TimelineAgrees ==
  /\ last < vecLen
  /\ vecLen > 0 => sliderMax = vecLen - 1
  /\ last >= 0 => slider = last

\* "When the time step changes, the data read before must be released" (the
\* maintainers' constraints): at most the selected entry of the list holds field
\* data, whatever mix of tree, slider and buttons led to it.
OneStepLoaded == loaded \subseteq {last}

\* Whatever newly comes onto the chart is the step the program says is selected:
\* it is in the list, m_lastSelectedTimeIndex and the slider point at it, and the
\* date label names it or, when its file gives no date, names no other step.
NewStepIsSelected ==
  [][message' # message /\ ready' =>
       /\ message'.file = vecFile'
       /\ message'.index = last'
       /\ slider' = last'
       /\ label' \in {At(vecFile', last'), NoLabel}
       /\ label' = NoLabel => vecFile' \in Undated]_vars

\* Choosing a file or a step of another file never leaves the old file's field on
\* the chart under the new file's name; only filling the tree may, and a file that
\* cannot be opened (then the list is empty).
OldFileLeavesChart ==
  [][filling = <<>> /\ vecFile' \notin {vecFile, NoFile} /\ ready' =>
       message'.file = vecFile']_vars

\* The session implements the viewer: what is drawn is always a step of the file
\* that was open when it was drawn.
Drawn  == IF ready THEN At(message.file, message.index) ELSE At(NoFile, -1)
Viewer == INSTANCE NcdfViewer WITH open <- vecFile, drawn <- Drawn
ViewerSpec == Viewer!ViewerSpec

\* The dialog reaches the overlay factory only by the events NcdfOverlay is built
\* upon: grids vanish only together with the factory's readiness, and appear only
\* as the layers of a step its file has.
ShownSteps ==
  UNION {{Msg(f, k, ids) : k \in 0 .. Steps[f] - 1, ids \in Files \cup {NoFile}} : f \in Files}
Feed == INSTANCE NcdfFeed WITH Data <- ShownSteps, NoData <- NoMsg, data <- message, layers <- Live
FeedSpec == Feed!FeedSpec

\* ncdf.h:121 says of m_currentFilePath: "Track which file is currently loaded".
CurrentFilePathIsLoaded == Idle /\ vecFile # NoFile => path = vecFile

\* ncdf.cpp:1204 says of the cached variable ids: "discover once, read many", and
\* ncdf.cpp:2151 of a failed nc_get: "Restore previous data on failure".  The ids
\* in the cache are then those of the file whose steps are in the list.
CachedIdsOfLoadedFile == Idle /\ vecFile # NoFile => found = vecFile

\* ncdf.cpp:1974 says that OnTimeline skips the selected step to "prevent redundant
\* readncdfFile calls": reading it again would show what is on the chart.
SkippedStepIsShown ==
  Idle /\ last >= 0 => Drawn = At(vecFile, last)
=============================================================================

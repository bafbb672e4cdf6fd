-------------------------- MODULE NcdfSessionProofs --------------------------
(***************************************************************************)
(* Proofs about NcdfSession for every set of files and directories: its    *)
(* types, its safety invariants, what may newly come onto the chart, and   *)
(* that it implements NcdfViewer.                                          *)
(***************************************************************************)
EXTENDS NcdfSession, TLAPS

\* A file node has children only if its file can be loaded, and then one for
\* each of its time steps: what makes a step chosen in the tree a step of the list.
TreeAgrees ==
  \A i \in DOMAIN tree : tree[i].kids > 0 => tree[i].file \in Good /\ tree[i].kids = Steps[tree[i].file]

TypeInv == TypeOK /\ TreeAgrees

-----------------------------------------------------------------------------
(* Lemmas about the operators the handlers are built from.                  *)

\* A file that nc_get loads is a good one.
LEMMA OpensLoads ==
  ASSUME NEW f \in Files, NEW r \in Opens(f), r = "ok"
  PROVE  f \in Good
BY DEF Opens

\* nc_get leaves the list, the slider and the cached file well typed.
LEMMA NcGetType ==
  ASSUME TypeOK, NEW f \in Files, NEW r \in Opens(f), nc_get(f, r)
  PROVE  /\ vecFile' \in Files \cup {NoFile}
         /\ vecLen' \in Nat
         /\ loaded' \subseteq Nat
         /\ last' \in Nat \cup {-1}
         /\ found' \in Files \cup {NoFile}
         /\ sliderMax' \in Nat
         /\ slider' \in Nat
BY FilesAssumption DEF TypeOK, nc_get, SetList, SetTimeline, Found, timeline

\* A position in the tree is a number, and there is a node of a file there.
LEMMA NodeType ==
  ASSUME TypeOK, NEW i \in DOMAIN tree
  PROVE  i \in Nat /\ tree[i].file \in Files /\ tree[i].kids \in Nat
<1> DEFINE Nodes == [file : Files, kids : Nat]
<1>1. tree \in Seq(Nodes)
  BY DEF TypeOK
<1>2. i \in 1 .. Len(tree) /\ Len(tree) \in Nat
  BY <1>1
<1>3. tree[i] \in Nodes
  <2> HIDE DEF Nodes
  <2> QED BY <1>1, <1>2
<1> QED BY <1>2, <1>3

LEMMA DisplayType ==
  ASSUME TypeOK
  PROVE  grids \in [Layers -> Messages] /\ ready \in BOOLEAN /\ label \in Labels
BY DEF TypeOK

\* readncdfFile leaves the display and the date label well typed.
LEMMA ReadType ==
  ASSUME TypeOK, NEW m \in Messages, NEW layers,
         NEW g \in [Layers -> Messages], NEW r \in BOOLEAN, NEW t \in Labels,
         readncdfFile(m, layers, g, r, t)
  PROVE  /\ grids' \in [Layers -> Messages]
         /\ message' \in Messages
         /\ ready' \in BOOLEAN
         /\ label' \in Labels
<1>1. NoMsg \in Messages
  BY DEF NoMsg, Msg, Messages
<1>2. NoLabel \in Labels /\ At(m.file, m.index) \in Labels
  BY DEF NoLabel, At, Labels, Messages
<1>3. CASE layers = {}
  BY <1>3 DEF readncdfFile, TypeOK
<1>4. CASE layers # {}
  BY <1>1, <1>2, <1>4 DEF readncdfFile
<1> QED BY <1>3, <1>4

LEMMA ShowStepType ==
  ASSUME TypeOK, NEW m \in Messages,
         NEW g \in [Layers -> Messages], NEW r \in BOOLEAN, ShowStep(m, g, r)
  PROVE  /\ grids' \in [Layers -> Messages]
         /\ message' \in Messages
         /\ ready' \in BOOLEAN
         /\ label' \in Labels
<1>1. At(m.file, m.index) \in Labels
  BY DEF At, Labels, Messages
<1> QED BY <1>1, ReadType DEF ShowStep

LEMMA NoGridsType == NoGrids \in [Layers -> Messages]
BY DEF NoGrids, NoMsg, Msg, Messages

LEMMA MsgType ==
  ASSUME NEW f \in Files \cup {NoFile}, NEW k \in Nat, NEW ids \in Files \cup {NoFile}
  PROVE  Msg(f, k, ids) \in Messages
BY DEF Msg, Messages

-----------------------------------------------------------------------------
LEMMA TypeInit == Init => TypeInv
<1> SUFFICES ASSUME Init PROVE TypeInv
  OBVIOUS
<1>1. NoMsg \in Messages /\ NoLabel \in Labels
  BY DEF NoMsg, Msg, Messages, NoLabel, At, Labels
<1>2. focus \in [kind : {"none", "root", "file", "step"}, node : Nat, step : Nat]
  BY DEF Init, Blank, NoItem
<1>3. tree \in Seq([file : Files, kids : Nat]) /\ filling \in Seq(Files) /\ tree = <<>>
  BY DEF Init, Blank
<1>4. TypeOK
  BY <1>1, <1>2, <1>3, NoGridsType DEF Init, Blank, TypeOK
<1> QED BY <1>3, <1>4 DEF TypeInv, TreeAgrees

LEMMA TypeStep == TypeInv /\ [Next]_vars => TypeInv'
<1> SUFFICES ASSUME TypeInv, [Next]_vars PROVE TypeInv'
  OBVIOUS
<1>0. TypeOK /\ TreeAgrees
  BY DEF TypeInv
<1> USE FilesAssumption, DirsAssumption
<1>a. ASSUME NEW d, onDirChanged(d) PROVE
        /\ filling' \in Seq(Files)
        /\ tree' = <<>>
        /\ focus' \in [kind : {"none", "root", "file", "step"}, node : Nat, step : Nat]
        /\ UNCHANGED <<list, path, timeline, display, label>>
  <2>1. (IF d \in Dirs THEN DirFiles[d] ELSE <<>>) \in Seq(Files) /\ <<>> \in Seq(Files)
    OBVIOUS
  <2>2. {Root, NoItem} \subseteq [kind : {"none", "root", "file", "step"}, node : Nat, step : Nat]
    BY DEF Root, NoItem
  <2>3. filling' \in {IF d \in Dirs THEN DirFiles[d] ELSE <<>>, <<>>} /\ focus' \in {Root, NoItem}
    BY <1>a DEF onDirChanged
  <2> QED BY <1>a, <2>1, <2>2, <2>3 DEF onDirChanged
<1>b. ASSUME tree' = <<>> PROVE tree' \in Seq([file : Files, kids : Nat]) /\ TreeAgrees'
  BY <1>b DEF TreeAgrees
<1>1. CASE Toolbar
  <2>1. CASE dialog = "none"
    BY <1>0, <1>1, <2>1, <1>a, <1>b DEF Toolbar, TypeInv, TypeOK, list, timeline, display
  <2>2. CASE dialog = "hidden"
    BY <1>0, <1>1, <2>2 DEF Toolbar, TypeInv, TypeOK, TreeAgrees, list, timeline, display
  <2> QED BY <1>1, <2>1, <2>2 DEF Toolbar
<1>2. ASSUME NEW d \in Dirs \cup {Docs}, onFileButtonClick(d) PROVE TypeInv'
  BY <1>0, <1>2, <1>a, <1>b DEF onFileButtonClick, TypeInv, TypeOK, list, timeline, display
<1>3. ASSUME NEW d \in Dirs \cup {NoDir}, TypeDirectory(d) PROVE TypeInv'
  BY <1>0, <1>3, <1>a, <1>b DEF TypeDirectory, TypeInv, TypeOK, list, timeline, display
<1>4. CASE addChildren
  <2> DEFINE f == Head(filling)
  <2>1. f \in Files /\ Tail(filling) \in Seq(Files)
    BY <1>0, <1>4 DEF addChildren, TypeOK
  <2>2. PICK r \in Opens(f) :
          /\ tree' = Append(tree, [file |-> f, kids |-> IF r = "ok" THEN Steps[f] ELSE 0])
          /\ path' = f
          /\ IF r = "ok"
             THEN nc_get(f, r)
             ELSE found' = Found(f, r) /\ UNCHANGED <<vecFile, vecLen, loaded, last, timeline>>
    BY <1>4 DEF addChildren
  <2> DEFINE n == IF r = "ok" THEN Steps[f] ELSE 0
  <2>3. n \in Nat
    BY <2>1
  <2>4. tree' \in Seq([file : Files, kids : Nat]) /\ TreeAgrees'
    <3>1. [file |-> f, kids |-> n] \in [file : Files, kids : Nat]
      BY <2>1, <2>3
    <3>2. tree' = Append(tree, [file |-> f, kids |-> n])
      BY <2>2
    <3>3. tree' \in Seq([file : Files, kids : Nat])
      BY <1>0, <3>1, <3>2 DEF TypeOK
    <3>4. n > 0 => f \in Good /\ n = Steps[f]
      BY <2>1, <2>2, OpensLoads
    <3>5. ASSUME NEW i \in DOMAIN tree' PROVE
            tree'[i].kids > 0 => tree'[i].file \in Good /\ tree'[i].kids = Steps[tree'[i].file]
      <4>1. CASE i \in DOMAIN tree
        BY <1>0, <3>1, <3>2, <4>1 DEF TypeOK, TreeAgrees
      <4>2. CASE i = Len(tree) + 1
        BY <1>0, <3>1, <3>2, <3>4, <4>2 DEF TypeOK
      <4> QED BY <1>0, <3>1, <3>2, <3>5, <4>1, <4>2 DEF TypeOK
    <3> QED BY <3>3, <3>5 DEF TreeAgrees
  <2>5. CASE r = "ok"
    BY <1>0, <1>4, <2>1, <2>2, <2>4, <2>5, NcGetType DEF addChildren, TypeInv, TypeOK, display
  <2>6. CASE r # "ok"
    BY <1>0, <1>4, <2>1, <2>2, <2>4, <2>6
    DEF addChildren, TypeInv, TypeOK, Found, display, timeline
  <2> QED BY <2>5, <2>6
<1>5. ASSUME NEW item, SelectLeaf(item) PROVE TypeInv'
  BY <1>0, <1>5 DEF SelectLeaf, TypeInv, TypeOK, TreeAgrees, FileItem, Root, list, timeline, display
<1>6. ASSUME NEW i \in DOMAIN tree, SelectFile(i) PROVE TypeInv'
  <2>1. tree[i].file \in Files /\ FileItem(i) \in [kind : {"file"}, node : Nat, step : Nat]
    BY <1>0, <1>6, NodeType DEF FileItem
  <2>2. grids' \in [Layers -> Messages] /\ message' \in Messages /\ ready' \in BOOLEAN
    BY <1>0, <1>6, NoGridsType DEF SelectFile, FreeGrids, display, TypeOK
  <2> QED BY <1>0, <1>6, <2>1, <2>2, NcGetType DEF SelectFile, TypeInv, TypeOK, TreeAgrees
<1>7. ASSUME NEW i \in DOMAIN tree, NEW k \in 0 .. tree[i].kids - 1,
             SelectStep(i, k) \/ SwitchFile(i, k)
      PROVE  TypeInv'
  <2>1. /\ tree[i].kids \in Nat /\ tree[i].file \in Files /\ k \in Nat
        /\ Steps[tree[i].file] > k /\ Steps[tree[i].file] - 1 \in Nat
        /\ StepItem(i, k) \in [kind : {"step"}, node : Nat, step : Nat]
    BY <1>0, <1>7, NodeType DEF TreeAgrees, StepItem
  <2>2. CASE SelectStep(i, k)
    <3>1. CASE k < vecLen
      <4>1. ShowStep(Msg(vecFile, k, found), grids, ready) /\ Msg(vecFile, k, found) \in Messages
        BY <1>0, <2>1, <2>2, <3>1, MsgType DEF SelectStep, TypeOK
      <4>2. /\ grids' \in [Layers -> Messages] /\ message' \in Messages
            /\ ready' \in BOOLEAN /\ label' \in Labels
        BY <1>0, <4>1, ShowStepType, DisplayType
      <4> QED BY <1>0, <2>1, <2>2, <3>1, <4>2 DEF SelectStep, TypeInv, TypeOK, TreeAgrees
    <3>2. CASE ~ k < vecLen
      BY <1>0, <2>1, <2>2, <3>2 DEF SelectStep, TypeInv, TypeOK, TreeAgrees, display
    <3> QED BY <3>1, <3>2
  <2>3. CASE SwitchFile(i, k)
    <3> DEFINE f == tree[i].file
    <3>1. PICK r \in Opens(f) :
        IF r = "ok"
        THEN /\ SetList(f, Steps[f])
             /\ loaded' = {}
             /\ last' = k
             /\ path' = f
             /\ found' = f
             /\ sliderMax' = Steps[f] - 1
             /\ slider' = k
             /\ ShowStep(Msg(f, k, f), NoGrids, FALSE)
        ELSE /\ nc_get(f, r)
             /\ FreeGrids
             /\ UNCHANGED <<path, label>>
      BY <2>3 DEF SwitchFile
    <3>2. CASE r = "ok"
      <4>1. ShowStep(Msg(f, k, f), NoGrids, FALSE) /\ Msg(f, k, f) \in Messages
        BY <2>1, <3>1, <3>2, MsgType
      <4>2. /\ grids' \in [Layers -> Messages] /\ message' \in Messages
            /\ ready' \in BOOLEAN /\ label' \in Labels
        BY <1>0, <4>1, ShowStepType, NoGridsType
      <4>3. vecFile' \in Files \cup {NoFile} /\ vecLen' \in Nat
        BY <2>1, <3>1, <3>2 DEF SetList
      <4>4. /\ loaded' = {} /\ last' \in Nat /\ path' \in Files /\ found' \in Files
            /\ sliderMax' \in Nat /\ slider' \in Nat
        BY <2>1, <3>1, <3>2
      <4>5. focus' \in [kind : {"step"}, node : Nat, step : Nat] /\ UNCHANGED <<dialog, ncdfDir, filling, tree>>
        BY <2>1, <2>3 DEF SwitchFile
      <4> QED BY <1>0, <4>2, <4>3, <4>4, <4>5 DEF TypeInv, TypeOK, TreeAgrees
    <3>3. CASE r # "ok"
      BY <1>0, <2>1, <2>3, <3>1, <3>3, NcGetType, NoGridsType
      DEF SwitchFile, FreeGrids, TypeInv, TypeOK, TreeAgrees
    <3> QED BY <3>2, <3>3
  <2> QED BY <1>7, <2>2, <2>3
<1>8. ASSUME NEW v \in 0 .. sliderMax, OnTimeline(v) PROVE TypeInv'
  <2>1. v \in Nat
    BY <1>0, <1>8 DEF TypeOK
  <2>2. CASE v # last /\ v < vecLen
    <3>1. ShowStep(Msg(vecFile, v, found), grids, ready) /\ Msg(vecFile, v, found) \in Messages
      BY <1>0, <1>8, <2>1, <2>2, MsgType DEF OnTimeline, TypeOK
    <3>2. /\ grids' \in [Layers -> Messages] /\ message' \in Messages
          /\ ready' \in BOOLEAN /\ label' \in Labels
      BY <1>0, <3>1, ShowStepType, DisplayType
    <3>3. Followed(v) \in [kind : {"none", "root", "file", "step"}, node : Nat, step : Nat]
      BY <1>0, <2>1 DEF Followed, FileItem, StepItem, HasStep, TypeOK
    <3> QED BY <1>0, <1>8, <2>1, <2>2, <3>2, <3>3 DEF OnTimeline, TypeInv, TypeOK, TreeAgrees
  <2>3. CASE ~ (v # last /\ v < vecLen)
    BY <1>0, <1>8, <2>1, <2>3 DEF OnTimeline, TypeInv, TypeOK, TreeAgrees, display
  <2> QED BY <2>2, <2>3
<1>9. ASSUME NEW k, MoveTo(k) PROVE TypeInv'
  <2>1. k \in Nat /\ StepItem(focus.node, k) \in [kind : {"step"}, node : Nat, step : Nat]
    BY <1>0, <1>9 DEF MoveTo, HasStep, StepItem, TypeOK
  <2>2. CASE k < vecLen /\ Reads(k)
    <3>1. PICK layers : readncdfFile(Msg(vecFile, k, found), layers, grids, ready, label)
      BY <2>2 DEF Reads
    <3>4. Msg(vecFile, k, found) \in Messages
      BY <1>0, <2>1, MsgType DEF TypeOK
    <3>2. /\ grids' \in [Layers -> Messages] /\ message' \in Messages
          /\ ready' \in BOOLEAN /\ label' \in Labels
      BY <1>0, <3>1, <3>4, ReadType, DisplayType
    <3>3. loaded' \subseteq Nat
      BY <1>0, <2>1, <2>2 DEF Reads, TypeOK
    <3> QED BY <1>0, <1>9, <2>1, <2>2, <3>2, <3>3 DEF MoveTo, Reads, TypeInv, TypeOK, TreeAgrees
  <2>3. CASE ~ (k < vecLen /\ Reads(k))
    BY <1>0, <1>9, <2>1, <2>3
    DEF MoveTo, readData, ReadFails, TypeInv, TypeOK, TreeAgrees, display
  <2> QED BY <2>2, <2>3
<1>10. CASE Close
  BY <1>0, <1>10 DEF Close, TypeInv, TypeOK, TreeAgrees, list, timeline
<1>11. CASE DeInit
  <2>1. NoMsg \in Messages /\ NoLabel \in Labels /\ NoItem.kind = "none"
    BY DEF NoMsg, Msg, Messages, NoLabel, At, Labels, NoItem
  <2>2. focus' \in [kind : {"none", "root", "file", "step"}, node : Nat, step : Nat]
    BY <1>11 DEF DeInit, MadeAnew, NoItem
  <2> QED BY <1>0, <1>11, <1>b, <2>1, <2>2, NoGridsType
          DEF DeInit, MadeAnew, SetList, TypeInv, TypeOK
<1>12. CASE UNCHANGED vars
  BY <1>0, <1>12 DEF vars, TypeInv, TypeOK, TreeAgrees
<1> QED
  BY <1>1, <1>2, <1>3, <1>4, <1>5, <1>6, <1>7, <1>8, <1>9, <1>10, <1>11, <1>12
  DEF Next, onPrev, onNext

\* Every variable of the session holds a value of its type, and the tree's step
\* nodes are the steps of files that can be loaded.
THEOREM TypeCorrect == Spec => [](TypeOK /\ TreeAgrees)
<1>1. Spec => []TypeInv
  BY TypeInit, TypeStep, PTL DEF Spec
<1> QED BY <1>1, PTL DEF TypeInv

-----------------------------------------------------------------------------
(* The list of time steps: which file's it is, what is selected in it, and  *)
(* what of it is in memory.                                                 *)

ListInv == ListIsOneFile /\ TimelineAgrees /\ OneStepLoaded

\* nc_get leaves a whole list of one good file with nothing selected, or no list.
LEMMA NcGetList ==
  ASSUME TypeOK, NEW f \in Files, NEW r \in Opens(f), nc_get(f, r)
  PROVE  ListInv'
<1>1. r = "ok" => f \in Good
  BY DEF Opens
<1>2. Steps[f] \in Nat /\ f # NoFile
  BY FilesAssumption
<1> QED
  BY <1>1, <1>2
  DEF nc_get, SetList, SetTimeline, ListInv, ListIsOneFile, TimelineAgrees, OneStepLoaded, timeline, Good

LEMMA ListStep == TypeInv /\ ListInv /\ [Next]_vars => ListInv'
<1> SUFFICES ASSUME TypeInv, ListInv, [Next]_vars PROVE ListInv'
  OBVIOUS
<1>0. TypeOK /\ TreeAgrees /\ ListIsOneFile /\ TimelineAgrees /\ OneStepLoaded
  BY DEF TypeInv, ListInv
<1> USE FilesAssumption
<1>u. ASSUME UNCHANGED <<vecFile, vecLen, loaded, last, sliderMax, slider>> PROVE ListInv'
  BY <1>0, <1>u DEF ListInv, ListIsOneFile, TimelineAgrees, OneStepLoaded
<1>k. ASSUME NEW k \in Nat, k < vecLen, UNCHANGED <<vecFile, vecLen, sliderMax>>,
             last' = k, slider' = k, loaded' \subseteq (loaded \ {last}) \cup {k}
      PROVE  ListInv'
  BY <1>0, <1>k DEF TypeOK, ListInv, ListIsOneFile, TimelineAgrees, OneStepLoaded
<1>1. CASE Toolbar
  BY <1>1, <1>u DEF Toolbar, onDirChanged, list, timeline
<1>2. ASSUME NEW d, onFileButtonClick(d) \/ TypeDirectory(d) PROVE ListInv'
  BY <1>2, <1>u DEF onFileButtonClick, TypeDirectory, onDirChanged, list, timeline
<1>3. CASE addChildren
  <2>1. Head(filling) \in Files
    BY <1>0, <1>3 DEF addChildren, TypeOK
  <2>2. PICK r \in Opens(Head(filling)) :
          IF r = "ok"
          THEN nc_get(Head(filling), r)
          ELSE found' = Found(Head(filling), r) /\ UNCHANGED <<vecFile, vecLen, loaded, last, timeline>>
    BY <1>3 DEF addChildren
  <2>3. CASE r = "ok"
    BY <1>0, <2>1, <2>2, <2>3, NcGetList
  <2>4. CASE r # "ok"
    BY <1>u, <2>2, <2>4 DEF timeline
  <2> QED BY <2>3, <2>4
<1>4. ASSUME NEW item, SelectLeaf(item) PROVE ListInv'
  BY <1>4, <1>u DEF SelectLeaf, list, timeline
<1>5. ASSUME NEW i \in DOMAIN tree, SelectFile(i) PROVE ListInv'
  BY <1>0, <1>5, NodeType, NcGetList DEF SelectFile
<1>6. ASSUME NEW i \in DOMAIN tree, NEW k \in 0 .. tree[i].kids - 1, SelectStep(i, k) PROVE ListInv'
  <2>1. k \in Nat
    BY <1>0, NodeType
  <2>2. CASE k < vecLen
    BY <1>0, <1>6, <1>k, <2>1, <2>2 DEF SelectStep, OneStepLoaded
  <2>3. CASE ~ k < vecLen
    BY <1>6, <1>u, <2>3 DEF SelectStep
  <2> QED BY <2>2, <2>3
<1>7. ASSUME NEW i \in DOMAIN tree, NEW k \in 0 .. tree[i].kids - 1, SwitchFile(i, k) PROVE ListInv'
  <2> DEFINE f == tree[i].file
  <2>1. f \in Good /\ k \in 0 .. Steps[f] - 1 /\ Steps[f] \in Nat /\ f # NoFile
    BY <1>0, <1>7, NodeType DEF TreeAgrees
  <2>2. PICK r \in Opens(f) :
          IF r = "ok"
          THEN /\ SetList(f, Steps[f]) /\ loaded' = {} /\ last' = k
               /\ sliderMax' = Steps[f] - 1 /\ slider' = k
          ELSE nc_get(f, r)
    BY <1>7 DEF SwitchFile
  <2>3. CASE r = "ok"
    BY <2>1, <2>2, <2>3 DEF SetList, ListInv, ListIsOneFile, TimelineAgrees, OneStepLoaded
  <2>4. CASE r # "ok"
    BY <1>0, <1>7, <2>2, <2>4, NodeType, NcGetList
  <2> QED BY <2>3, <2>4
<1>8. ASSUME NEW v \in 0 .. sliderMax, OnTimeline(v) PROVE ListInv'
  <2>1. v \in Nat
    BY <1>0 DEF TypeOK
  <2>2. CASE v # last /\ v < vecLen
    BY <1>8, <1>k, <2>1, <2>2 DEF OnTimeline
  <2>3. CASE v = last
    BY <1>0, <1>8, <2>1, <2>3 DEF OnTimeline, ListInv, ListIsOneFile, TimelineAgrees, OneStepLoaded
  <2>4. CASE ~ v < vecLen
    <3>1. last < 0
      BY <1>0, <1>8, <2>1, <2>4 DEF TypeOK, TimelineAgrees, ListIsOneFile
    <3>2. UNCHANGED <<vecFile, vecLen, loaded, last, sliderMax>>
      BY <1>8, <2>4 DEF OnTimeline
    <3>3. ~ last >= 0
      BY <1>0, <3>1 DEF TypeOK
    <3> QED BY <1>0, <3>2, <3>3 DEF ListInv, ListIsOneFile, TimelineAgrees, OneStepLoaded
  <2> QED BY <2>2, <2>3, <2>4
<1>9. ASSUME NEW k, MoveTo(k) PROVE ListInv'
  <2>1. k \in Nat
    BY <1>9 DEF MoveTo, HasStep
  <2>2. CASE k < vecLen /\ Reads(k)
    BY <1>9, <1>k, <2>1, <2>2 DEF MoveTo, Reads
  <2>3. CASE ~ (k < vecLen /\ Reads(k))
    BY <1>0, <1>9, <2>3
    DEF MoveTo, readData, ReadFails, ListInv, ListIsOneFile, TimelineAgrees, OneStepLoaded
  <2> QED BY <2>2, <2>3
<1>10. CASE Close
  BY <1>10, <1>u DEF Close, list, timeline
<1>11. CASE DeInit
  BY <1>11 DEF DeInit, MadeAnew, SetList, ListInv, ListIsOneFile, TimelineAgrees, OneStepLoaded
<1>12. CASE UNCHANGED vars
  BY <1>12, <1>u DEF vars
<1> QED
  BY <1>1, <1>2, <1>3, <1>4, <1>5, <1>6, <1>7, <1>8, <1>9, <1>10, <1>11, <1>12
  DEF Next, onPrev, onNext

LEMMA ListInit == Init => ListInv
BY DEF Init, Blank, ListInv, ListIsOneFile, TimelineAgrees, OneStepLoaded

\* myDataVector always holds all the steps of exactly one file that can be
\* loaded, or nothing.
THEOREM ListIsAlwaysOneFile == Spec => []ListIsOneFile
<1>1. Spec => []TypeInv
  BY TypeInit, TypeStep, PTL DEF Spec
<1>2. Spec => []ListInv
  BY ListInit, ListStep, <1>1, PTL DEF Spec
<1> QED BY <1>2, PTL DEF ListInv

\* The selected index, the slider and the list always agree.
THEOREM TimelineAlwaysAgrees == Spec => []TimelineAgrees
<1>1. Spec => []TypeInv
  BY TypeInit, TypeStep, PTL DEF Spec
<1>2. Spec => []ListInv
  BY ListInit, ListStep, <1>1, PTL DEF Spec
<1> QED BY <1>2, PTL DEF ListInv

\* At most the selected step of the list holds field data.
THEOREM OneStepAlwaysLoaded == Spec => []OneStepLoaded
<1>1. Spec => []TypeInv
  BY TypeInit, TypeStep, PTL DEF Spec
<1>2. Spec => []ListInv
  BY ListInit, ListStep, <1>1, PTL DEF Spec
<1> QED BY <1>2, PTL DEF ListInv

-----------------------------------------------------------------------------
(* The chart.  Every event does one of three things to it: it takes the     *)
(* field off, it leaves the field alone, or it shows the selected step.     *)

TakesOff ==
  /\ ready' = FALSE
  /\ \/ grids' = NoGrids /\ message' \in {message, NoMsg}
     \/ UNCHANGED <<grids, message>>

LeavesAlone ==
  /\ UNCHANGED <<grids, message, ready>>
  /\ filling = <<>> => vecFile' \in {vecFile, NoFile}

ShowsSelected ==
  /\ ready'
  /\ message'.file = vecFile' /\ message'.index = last' /\ slider' = last'
  /\ vecFile' \in Files /\ last' \in 0 .. Steps[vecFile'] - 1
  /\ \E layers \in (SUBSET Layers) \ {{}} :
        grids' = [l \in Layers |-> IF l \in layers THEN message' ELSE NoMsg]
  /\ label' = IF vecFile' \in Undated THEN NoLabel ELSE At(vecFile', last')

ChartStep == TakesOff \/ LeavesAlone \/ ShowsSelected

\* A message shown from the list after the event is the selected step of it.
LEMMA ReadShows ==
  ASSUME NEW f \in Files, NEW k \in 0 .. Steps[f] - 1, NEW ids,
         NEW layers \in SUBSET Layers, NEW g, NEW r, NEW t,
         readncdfFile(Msg(f, k, ids), layers, g, r, t),
         vecFile' = f, last' = k, slider' = k
  PROVE  ShowsSelected \/ (grids' = g /\ ready' = r /\ UNCHANGED message)
<1>1. CASE layers = {}
  BY <1>1 DEF readncdfFile
<1>2. CASE layers # {}
  <2>1. /\ message' = Msg(f, k, ids) /\ ready' = TRUE
        /\ grids' = [l \in Layers |-> IF l \in layers THEN message' ELSE NoMsg]
        /\ label' = IF f \in Undated THEN NoLabel ELSE At(f, k)
    BY <1>2 DEF readncdfFile, Msg
  <2>2. layers \in (SUBSET Layers) \ {{}}
    BY <1>2
  <2>3. message'.file = f /\ message'.index = k
    BY <2>1 DEF Msg
  <2> QED BY <2>1, <2>2, <2>3 DEF ShowsSelected
<1> QED BY <1>1, <1>2

\* Whatever a read leaves out, what it reads are layers.
LEMMA CompleteType ==
  ASSUME NEW f, NEW ids
  PROVE  Complete(f, ids) \subseteq SUBSET Layers
BY DEF Complete, LayersRead

LEMMA ShowStepShows ==
  ASSUME NEW f \in Files, NEW k \in 0 .. Steps[f] - 1, NEW ids, NEW g, NEW r,
         ShowStep(Msg(f, k, ids), g, r),
         vecFile' = f, last' = k, slider' = k
  PROVE  ShowsSelected \/ (grids' = g /\ ready' = r /\ UNCHANGED message)
<1>1. PICK layers \in {{}} \cup Complete(f, ids) :
        readncdfFile(Msg(f, k, ids), layers, g, r, At(f, k))
  BY DEF ShowStep, Msg
<1>2. layers \in SUBSET Layers
  BY CompleteType
<1> QED BY <1>1, <1>2, ReadShows

LEMMA ChartStepOfNext == TypeInv /\ ListInv /\ [Next]_vars => ChartStep
<1> SUFFICES ASSUME TypeInv, ListInv, [Next]_vars PROVE ChartStep
  OBVIOUS
<1>0. TypeOK /\ TreeAgrees /\ ListIsOneFile
  BY DEF TypeInv, ListInv
<1> USE FilesAssumption
<1>u. ASSUME UNCHANGED <<grids, message, ready>>, vecFile' \in {vecFile, NoFile} PROVE ChartStep
  BY <1>u DEF ChartStep, LeavesAlone
<1>k. ASSUME NEW k \in Nat, k < vecLen PROVE vecFile \in Files /\ k \in 0 .. Steps[vecFile] - 1
  BY <1>0, <1>k DEF TypeOK, ListIsOneFile, Good
<1>1. CASE Toolbar
  BY <1>1, <1>u DEF Toolbar, onDirChanged, list, display
<1>2. ASSUME NEW d, onFileButtonClick(d) \/ TypeDirectory(d) PROVE ChartStep
  BY <1>2, <1>u DEF onFileButtonClick, TypeDirectory, onDirChanged, list, display
<1>3. CASE addChildren
  BY <1>3 DEF addChildren, display, ChartStep, LeavesAlone
<1>4. ASSUME NEW item, SelectLeaf(item) PROVE ChartStep
  BY <1>4, <1>u DEF SelectLeaf, list, display
<1>5. ASSUME NEW i \in DOMAIN tree, SelectFile(i) PROVE ChartStep
  <2>1. PICK r \in Opens(tree[i].file) :
          /\ nc_get(tree[i].file, r)
          /\ IF r = "ok" THEN FreeGrids ELSE UNCHANGED display
    BY <1>5 DEF SelectFile
  <2>2. CASE r = "ok"
    BY <2>1, <2>2 DEF FreeGrids, ChartStep, TakesOff
  <2>3. CASE r # "ok"
    BY <1>u, <2>1, <2>3 DEF nc_get, SetList, display
  <2> QED BY <2>2, <2>3
<1>6. ASSUME NEW i \in DOMAIN tree, NEW k \in 0 .. tree[i].kids - 1, SelectStep(i, k) PROVE ChartStep
  <2>1. k \in Nat
    BY <1>0, NodeType
  <2>2. CASE k < vecLen
    <3>1. ShowStep(Msg(vecFile, k, found), grids, ready) /\ vecFile' = vecFile /\ last' = k /\ slider' = k
      BY <1>6, <2>2 DEF SelectStep
    <3>2. ShowsSelected \/ UNCHANGED <<grids, ready, message>>
      BY <1>k, <2>1, <2>2, <3>1, ShowStepShows
    <3> QED BY <1>u, <3>1, <3>2 DEF ChartStep
  <2>3. CASE ~ k < vecLen
    BY <1>6, <1>u, <2>3 DEF SelectStep, display
  <2> QED BY <2>2, <2>3
<1>7. ASSUME NEW i \in DOMAIN tree, NEW k \in 0 .. tree[i].kids - 1, SwitchFile(i, k) PROVE ChartStep
  <2> DEFINE f == tree[i].file
  <2>1. f \in Files /\ k \in 0 .. Steps[f] - 1 /\ Steps[f] > 0
    BY <1>0, <1>7, NodeType DEF TreeAgrees
  <2>2. PICK r \in Opens(f) :
          IF r = "ok"
          THEN /\ SetList(f, Steps[f]) /\ last' = k /\ slider' = k
               /\ ShowStep(Msg(f, k, f), NoGrids, FALSE)
          ELSE FreeGrids
    BY <1>7 DEF SwitchFile
  <2>3. CASE r = "ok"
    <3>1. vecFile' = f
      BY <2>1, <2>2, <2>3 DEF SetList
    <3>2. ShowsSelected \/ (grids' = NoGrids /\ ready' = FALSE /\ message' = message)
      BY <2>1, <2>2, <2>3, <3>1, ShowStepShows
    <3> QED BY <3>2 DEF ChartStep, TakesOff
  <2>4. CASE r # "ok"
    BY <2>2, <2>4 DEF FreeGrids, ChartStep, TakesOff
  <2> QED BY <2>3, <2>4
<1>8. ASSUME NEW v \in 0 .. sliderMax, OnTimeline(v) PROVE ChartStep
  <2>1. v \in Nat
    BY <1>0 DEF TypeOK
  <2>2. CASE v # last /\ v < vecLen
    <3>1. ShowStep(Msg(vecFile, v, found), grids, ready) /\ vecFile' = vecFile /\ last' = v /\ slider' = v
      BY <1>8, <2>2 DEF OnTimeline
    <3>2. ShowsSelected \/ UNCHANGED <<grids, ready, message>>
      BY <1>k, <2>1, <2>2, <3>1, ShowStepShows
    <3> QED BY <1>u, <3>1, <3>2 DEF ChartStep
  <2>3. CASE ~ (v # last /\ v < vecLen)
    BY <1>8, <1>u, <2>3 DEF OnTimeline, display
  <2> QED BY <2>2, <2>3
<1>9. ASSUME NEW k, MoveTo(k) PROVE ChartStep
  <2>1. k \in Nat
    BY <1>9 DEF MoveTo, HasStep
  <2>2. CASE k < vecLen /\ Reads(k)
    <3>1. PICK layers \in Complete(vecFile, found) :
            readncdfFile(Msg(vecFile, k, found), layers, grids, ready, label)
      BY <2>2 DEF Reads
    <3>2. /\ layers \in SUBSET Layers
          /\ vecFile' = vecFile /\ last' = k /\ slider' = k
      BY <1>9, <2>2, CompleteType DEF MoveTo, Reads
    <3>3. ShowsSelected \/ UNCHANGED <<grids, ready, message>>
      BY <1>k, <2>1, <2>2, <3>1, <3>2, ReadShows
    <3> QED BY <1>u, <3>2, <3>3 DEF ChartStep
  <2>3. CASE ~ (k < vecLen /\ Reads(k))
    BY <1>9, <1>u, <2>3 DEF MoveTo, readData, ReadFails, display
  <2> QED BY <2>2, <2>3
<1>10. CASE Close
  BY <1>10 DEF Close, ChartStep, TakesOff
<1>11. CASE DeInit
  BY <1>11 DEF DeInit, MadeAnew, ChartStep, TakesOff
<1>12. CASE UNCHANGED vars
  BY <1>12, <1>u DEF vars
<1> QED
  BY <1>1, <1>2, <1>3, <1>4, <1>5, <1>6, <1>7, <1>8, <1>9, <1>10, <1>11, <1>12
  DEF Next, onPrev, onNext

-----------------------------------------------------------------------------
ChartInv == GridsBuiltFromMessage /\ ReadyHasGrid

LEMMA ChartInit == Init => ChartInv
BY DEF Init, Blank, ChartInv, GridsBuiltFromMessage, ReadyHasGrid, Live, NoGrids

LEMMA ChartInvStep == ChartInv /\ ChartStep => ChartInv'
<1> SUFFICES ASSUME ChartInv, ChartStep PROVE ChartInv'
  OBVIOUS
<1>1. CASE TakesOff
  BY <1>1 DEF TakesOff, ChartInv, GridsBuiltFromMessage, ReadyHasGrid, Live, NoGrids
<1>2. CASE LeavesAlone
  BY <1>2 DEF LeavesAlone, ChartInv, GridsBuiltFromMessage, ReadyHasGrid, Live
<1>3. CASE ShowsSelected
  <2>1. PICK layers \in (SUBSET Layers) \ {{}} :
          grids' = [l \in Layers |-> IF l \in layers THEN message' ELSE NoMsg]
    BY <1>3 DEF ShowsSelected
  <2>2. message' # NoMsg /\ message'.file \in Files /\ message'.index \in 0 .. Steps[message'.file] - 1
    BY <1>3, FilesAssumption DEF ShowsSelected, NoMsg, Msg
  <2>3. GridsBuiltFromMessage'
    BY <2>1 DEF GridsBuiltFromMessage, Live
  <2>4. PICK l \in layers : l \in Layers
    BY <2>1
  <2>5. l \in Live'
    BY <2>1, <2>2, <2>4 DEF Live
  <2> QED BY <2>2, <2>3, <2>5 DEF ChartInv, ReadyHasGrid
<1> QED BY <1>1, <1>2, <1>3 DEF ChartStep

\* What every theorem about the chart rests on: the whole inductive invariant,
\* and that every step of the session is one of the three kinds.
LEMMA Session == Spec => [](TypeInv /\ ListInv /\ ChartInv) /\ [][ChartStep]_vars
<1>1. Spec => []TypeInv
  BY TypeInit, TypeStep, PTL DEF Spec
<1>2. Spec => []ListInv
  BY ListInit, ListStep, <1>1, PTL DEF Spec
<1>3. Spec => []ChartInv
  BY ChartInit, ChartInvStep, ChartStepOfNext, <1>1, <1>2, PTL DEF Spec
<1>4. Spec => [][ChartStep]_vars
  BY ChartStepOfNext, <1>1, <1>2, PTL DEF Spec
<1> QED BY <1>1, <1>2, <1>3, <1>4, PTL

\* Every grid that exists was built from the message that myMessage holds, so the
\* loops that free the grids run over exactly the rows that were allocated.
THEOREM GridsAlwaysMatchMessage == Spec => []GridsBuiltFromMessage
BY Session, PTL DEF ChartInv

\* When the overlay factory is ready there is a grid to draw, of an existing step.
THEOREM ReadyAlwaysHasGrid == Spec => []ReadyHasGrid
BY Session, PTL DEF ChartInv

\* Whatever newly comes onto the chart is the step that the list, the slider and
\* the date label say is selected.
THEOREM OnlySelectedStepAppears == Spec => NewStepIsSelected
<1>1. ChartStep => (message' # message /\ ready' =>
                       /\ message'.file = vecFile'
                       /\ message'.index = last'
                       /\ slider' = last'
                       /\ label' \in {At(vecFile', last'), NoLabel}
                       /\ label' = NoLabel => vecFile' \in Undated)
  <2> SUFFICES ASSUME ChartStep, message' # message, ready'
               PROVE  /\ message'.file = vecFile'
                      /\ message'.index = last'
                      /\ slider' = last'
                      /\ label' \in {At(vecFile', last'), NoLabel}
                      /\ label' = NoLabel => vecFile' \in Undated
    OBVIOUS
  <2>1. ShowsSelected
    BY DEF ChartStep, TakesOff, LeavesAlone
  <2>2. At(vecFile', last') # NoLabel
    BY <2>1, FilesAssumption DEF ShowsSelected, At, NoLabel
  <2> QED BY <2>1, <2>2 DEF ShowsSelected
<1> QED BY <1>1, Session, PTL DEF NewStepIsSelected

\* Choosing another file never leaves the old file's field on the chart.
THEOREM OldFileAlwaysLeaves == Spec => OldFileLeavesChart
<1>1. ChartStep => (filling = <<>> /\ vecFile' \notin {vecFile, NoFile} /\ ready' =>
                       message'.file = vecFile')
  BY DEF ChartStep, TakesOff, LeavesAlone, ShowsSelected
<1> QED BY <1>1, Session, PTL DEF OldFileLeavesChart

-----------------------------------------------------------------------------
(* Refinement.                                                              *)

LEMMA ViewerStart == Init => Viewer!ViewerInit
BY DEF Init, Blank, Viewer!ViewerInit, Drawn, Viewer!Nothing, At

LEMMA ViewerStep ==
  TypeOK' /\ ChartStep => [Viewer!Open \/ Viewer!Draw]_<<vecFile, Drawn>>
<1> SUFFICES ASSUME TypeOK', ChartStep PROVE Viewer!Open \/ Viewer!Draw
  OBVIOUS
<1>0. vecFile' \in Files \cup {NoFile}
  BY DEF TypeOK
<1>1. CASE TakesOff
  BY <1>0, <1>1 DEF TakesOff, Drawn, Viewer!Open, Viewer!Nothing, At
<1>2. CASE LeavesAlone
  BY <1>0, <1>2 DEF LeavesAlone, Drawn, Viewer!Open
<1>3. CASE ShowsSelected
  <2>1. Drawn' = Viewer!StepOf(vecFile', last')
    BY <1>3 DEF ShowsSelected, Drawn, At, Viewer!StepOf
  <2> QED BY <1>3, <2>1 DEF ShowsSelected, Viewer!Draw
<1> QED BY <1>1, <1>2, <1>3 DEF ChartStep

\* The session, with its tree, slider, caches and failing reads, implements the
\* abstract viewer: what is drawn was a step of the file open when it was drawn.
THEOREM SessionImplementsViewer == Spec => ViewerSpec
<1>1. Spec => [][ChartStep]_vars /\ []TypeOK
  BY Session, PTL DEF TypeInv
<1>2. UNCHANGED vars => UNCHANGED <<vecFile, Drawn>>
  BY DEF vars, Drawn
<1> QED BY <1>1, <1>2, ViewerStart, ViewerStep, PTL DEF Spec, ViewerSpec, Viewer!ViewerSpec

\* The events of the session are, for the overlay factory, those of the feed.
LEMMA FeedStep ==
  ChartInv /\ TypeOK' /\ ChartStep =>
    Feed!Load \/ Feed!Clear \/ Feed!Forget \/ UNCHANGED <<message, Live, ready>>
<1> SUFFICES ASSUME ChartInv, TypeOK', ChartStep
             PROVE  Feed!Load \/ Feed!Clear \/ Feed!Forget \/ UNCHANGED <<message, Live, ready>>
  OBVIOUS
<1>1. CASE TakesOff
  <2>1. CASE UNCHANGED <<grids, message>>
    BY <1>1, <2>1 DEF TakesOff, Feed!Clear, Live
  <2>2. CASE grids' = NoGrids /\ message' \in {message, NoMsg}
    BY <1>1, <2>2 DEF TakesOff, Feed!Clear, Feed!Forget, Live, NoGrids
  <2> QED BY <1>1, <2>1, <2>2 DEF TakesOff
<1>2. CASE LeavesAlone
  BY <1>2 DEF LeavesAlone, Live
<1>3. CASE ShowsSelected
  <2>1. PICK layers \in (SUBSET Layers) \ {{}} :
          grids' = [l \in Layers |-> IF l \in layers THEN message' ELSE NoMsg]
    BY <1>3 DEF ShowsSelected
  <2>2. message' # NoMsg
    BY <1>3, FilesAssumption DEF ShowsSelected, NoMsg, Msg
  <2>3. Live' = layers
    BY <2>1, <2>2 DEF Live
  <2>4. message' = Msg(vecFile', last', message'.ids) /\ message'.ids \in Files \cup {NoFile}
    BY <1>3 DEF ShowsSelected, TypeOK, Messages, Msg
  <2>5. message' \in ShownSteps
    BY <1>3, <2>4 DEF ShowsSelected, ShownSteps
  <2> QED BY <1>3, <2>1, <2>3, <2>5 DEF ShowsSelected, Feed!Load
<1> QED BY <1>1, <1>2, <1>3 DEF ChartStep

\* The session implements the feed that the overlay's caches are modelled upon.
THEOREM SessionFeedsOverlay == Spec => FeedSpec
<1>1. Init => Feed!FeedInit
  BY DEF Init, Blank, Feed!FeedInit, Live, NoGrids
<1>2. Spec => [][ChartStep]_vars /\ [](ChartInv /\ TypeOK)
  BY Session, PTL DEF TypeInv
<1>3. UNCHANGED vars => UNCHANGED <<message, Live, ready>>
  BY DEF vars, Live
<1> QED BY <1>1, <1>2, <1>3, FeedStep, PTL DEF Spec, FeedSpec, Feed!FeedSpec
=============================================================================

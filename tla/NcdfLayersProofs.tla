-------------------------- MODULE NcdfLayersProofs --------------------------
(* Proofs about NcdfLayers, for every set of files, whatever layers they     *)
(* have and in whatever order the directory lists them.                      *)
EXTENDS NcdfLayers, WellFoundedInduction, TLAPS

\* Without a dialog there is no selection in its tree and no box is shown.
NoDialog == dialog \in {"none", "off"} => chosen = FALSE /\ visible = {} /\ box = {}

\* Before the first dialog the flags are those that were loaded.
AsLoaded == dialog = "none" => flag = saved

LayersInv == TypeOK /\ NoDialog /\ HiddenMeansOff /\ SalinityBoxAgrees /\ AsLoaded

\* A set of positions has a greatest one.
LEMMA MaxIsMember ==
  ASSUME NEW n \in Nat, NEW S \in SUBSET (1 .. n), S # {}
  PROVE  Max(S) \in S
<1> DEFINE T == {k \in Nat : \E s \in S : k = n - s}
<1>0. PICK s0 \in S : TRUE
  OBVIOUS
<1>1. T \subseteq Nat /\ n - s0 \in T
  BY <1>0
<1>2. PICK t \in T : \A y \in T : <<y, t>> \notin OpToRel(<, Nat)
  <2> HIDE DEF T
  <2> QED BY <1>1, NatLessThanWellFounded, WFMin, Zenon
<1>3. ASSUME NEW y \in T PROVE t <= y
  <2>1. y \in Nat /\ t \in Nat
    OBVIOUS
  <2>2. ~(y < t)
    BY <1>2, <1>3, <2>1 DEF OpToRel
  <2> QED BY <2>1, <2>2
<1>4. PICK s \in S : t = n - s
  BY <1>2
<1>5. ASSUME NEW x \in S PROVE s >= x
  <2>1. n - x \in T
    BY <1>5
  <2>2. t <= n - x
    BY <1>3, <2>1
  <2> QED BY <1>4, <1>5, <2>2
<1> QED BY <1>4, <1>5 DEF Max

\* The switches of a file's layers are switches.
LEMMA PresentSwitches == ASSUME NEW f PROVE Present(f) \subseteq Switches
<1> SUFFICES ASSUME NEW l \in Layers PROVE SwitchesOf(l) \subseteq Switches
  BY DEF Present
<1> QED BY DEF SwitchesOf, Switches, Layers

LEMMA SwitchNames ==
  /\ CurrentSwitches \subseteq Switches /\ SeaTempSwitches \subseteq Switches
  /\ "salinity" \in Switches /\ "iso" \in Switches /\ "sst" \in Switches
  /\ "salinity" \notin CurrentSwitches /\ "particles" \in CurrentSwitches
BY DEF Switches, CurrentSwitches, SeaTempSwitches

\* The part that both selections of a step end with.
LEMMA ShowStepsKeeps ==
  ASSUME NEW f, NEW flags \in SUBSET Switches, NEW boxes \in SUBSET Switches,
         ShowSteps(f, flags, boxes), dialog' = "shown"
  PROVE  /\ flag' \subseteq Switches /\ box' \subseteq Switches /\ visible' \subseteq Switches
         /\ chosen' = TRUE
         /\ HiddenMeansOff' /\ SalinityBoxAgrees' /\ AsLoaded' /\ NoDialog'
BY PresentSwitches, SwitchNames DEF ShowSteps, Absent, HiddenMeansOff, SalinityBoxAgrees, AsLoaded, NoDialog

\* Every handler keeps the invariant.
LEMMA LayersInvStep == LayersInv /\ [Next]_vars => LayersInv'
<1> SUFFICES ASSUME LayersInv, [Next]_vars PROVE LayersInv'
  OBVIOUS
<1> USE DEF LayersInv
<1>t. /\ dialog \in {"none", "hidden", "shown", "off"} /\ chosen \in BOOLEAN
      /\ flag \subseteq Switches /\ box \subseteq Switches /\ visible \subseteq Switches
      /\ saved \subseteq Switches /\ path \in Files \cup {NoFile} /\ found \in Files \cup {NoFile}
      /\ nodes \subseteq Files
  BY DEF TypeOK
<1>1. CASE Toolbar
  <2>1. CASE dialog = "none"
    BY <1>1, <1>t, <2>1, SwitchNames
    DEF Toolbar, TypeOK, NoDialog, HiddenMeansOff, SalinityBoxAgrees, AsLoaded
  <2>2. CASE dialog = "hidden"
    BY <1>1, <1>t, <2>2
    DEF Toolbar, TypeOK, NoDialog, HiddenMeansOff, SalinityBoxAgrees, AsLoaded
  <2> QED BY <1>1, <2>1, <2>2 DEF Toolbar
<1>2. CASE fillDirTree
  <2>1. PICK r \in [DOMAIN Dir -> {"unopened", "unread", "ok"}] :
          LET searched == {i \in DOMAIN Dir : r[i] # "unopened"} IN
          /\ nodes' = {Dir[i] : i \in {j \in DOMAIN Dir : r[j] = "ok"}}
          /\ found' = IF searched = {} THEN found ELSE Dir[Max(searched)]
    BY <1>2 DEF fillDirTree
  <2> DEFINE searched == {i \in DOMAIN Dir : r[i] # "unopened"}
  <2>2. /\ DOMAIN Dir = 1 .. Len(Dir) /\ Len(Dir) \in Nat /\ Len(Dir) # 0
        /\ \A i \in DOMAIN Dir : Dir[i] \in Files
    BY LayersAssumption
  <2>3. nodes' \subseteq Files /\ path' \in Files
    BY <1>2, <2>1, <2>2 DEF fillDirTree
  <2>4. found' \in Files \cup {NoFile}
    <3>1. searched # {} => Max(searched) \in DOMAIN Dir
      <4>1. searched \in SUBSET (1 .. Len(Dir))
        BY <2>2
      <4>2. searched # {} => Max(searched) \in searched
        <5> HIDE DEF searched
        <5> QED BY <2>2, <4>1, MaxIsMember
      <4> QED BY <4>2
    <3> QED BY <1>t, <2>1, <2>2, <3>1
  <2>5. UNCHANGED <<dialog, flag, box, visible, saved, chosen>>
    BY <1>2 DEF fillDirTree
  <2> QED BY <1>t, <2>3, <2>4, <2>5
      DEF TypeOK, NoDialog, HiddenMeansOff, SalinityBoxAgrees, AsLoaded
<1>3. ASSUME NEW f \in nodes, SelectFile(f) PROVE LayersInv'
  <2> DEFINE on == Present(f) \cap (CurrentSwitches \cup {"salinity"})
  <2>1. /\ dialog' = "shown" /\ dialog = "shown" /\ chosen' = TRUE /\ found' = f
        /\ visible' = (Present(f) \ {"iso"}) \cup (visible \cap {"iso"})
        /\ flag' = (flag \ Absent(f)) \cup on /\ box' = box \cup on
        /\ UNCHANGED <<saved, path, nodes>>
    BY <1>3 DEF SelectFile
  <2>2. Present(f) \subseteq Switches /\ on \subseteq Present(f)
    BY PresentSwitches
  <2>3. TypeOK'
    BY <1>t, <1>3, <2>1, <2>2 DEF TypeOK
  <2>4. HiddenMeansOff'
    <3>1. "iso" \in Present(f) => "sst" \in Present(f)
      BY DEF Present, SwitchesOf, SeaTempSwitches, CurrentSwitches
    <3> QED BY <1>t, <2>1, <2>2, <3>1 DEF HiddenMeansOff, Absent
  <2>5. "salinity" \in visible' => "salinity" \in on
    BY <2>1
  <2>6. SalinityBoxAgrees'
    BY <2>1, <2>5 DEF SalinityBoxAgrees
  <2> QED BY <2>1, <2>3, <2>4, <2>6 DEF NoDialog, AsLoaded
<1>4. ASSUME NEW f \in nodes, SelectStep(f) PROVE LayersInv'
  <2>1. ShowSteps(found, flag, box) /\ dialog' = "shown" /\ UNCHANGED <<saved, path, found, nodes>>
    BY <1>4 DEF SelectStep
  <2>2. /\ flag' \subseteq Switches /\ box' \subseteq Switches /\ visible' \subseteq Switches
        /\ chosen' = TRUE
        /\ HiddenMeansOff' /\ SalinityBoxAgrees' /\ AsLoaded' /\ NoDialog'
    BY <1>t, <2>1, ShowStepsKeeps
  <2> QED BY <1>t, <2>1, <2>2 DEF TypeOK
<1>5. ASSUME NEW f \in nodes, SwitchFile(f) PROVE LayersInv'
  <2> DEFINE on  == Present(f) \cap CurrentSwitches
             off == {"sst"} \cap Present(f)
             flags == (flag \ {"sst"}) \cup on
             boxes == (box \ off) \cup on
  <2>1. ShowSteps(f, flags, boxes) /\ dialog' = "shown" /\ path' = f /\ found' = f /\ UNCHANGED <<saved, nodes>>
    BY <1>5 DEF SwitchFile
  <2>2. flags \subseteq Switches /\ boxes \subseteq Switches
    BY <1>t, PresentSwitches
  <2>3. /\ flag' \subseteq Switches /\ box' \subseteq Switches /\ visible' \subseteq Switches
        /\ chosen' = TRUE
        /\ HiddenMeansOff' /\ SalinityBoxAgrees' /\ AsLoaded' /\ NoDialog'
    <3> HIDE DEF flags, boxes
    <3> QED BY <2>1, <2>2, ShowStepsKeeps
  <2> QED BY <1>t, <1>5, <2>1, <2>3 DEF TypeOK
<1>6. ASSUME NEW f \in nodes, SelectionFails(f) PROVE LayersInv'
  BY <1>t, <1>6 DEF SelectionFails, TypeOK, NoDialog, HiddenMeansOff, SalinityBoxAgrees, AsLoaded
<1>7. ASSUME NEW s \in Switches, Click(s) PROVE LayersInv'
  <2>1. /\ dialog = "shown" /\ s \in visible /\ box' = Flip(box, s)
        /\ UNCHANGED <<dialog, visible, saved, path, found, nodes, chosen>>
        /\ \/ s # "particles" /\ flag' = IF s \in box' THEN flag \cup {s} ELSE flag \ {s}
           \/ s = "particles" /\ flag' = Flip(flag, s)
    BY <1>7 DEF Click, CopyBox, onParticlesClick
  <2>2. flag' \in {flag \cup {s}, flag \ {s}} /\ box' \in {box \cup {s}, box \ {s}}
    BY <2>1 DEF Flip
  <2>3. TypeOK'
    BY <1>t, <2>1, <2>2 DEF TypeOK
  <2>4. HiddenMeansOff'
    BY <1>t, <2>1, <2>2 DEF HiddenMeansOff
  <2>5. SalinityBoxAgrees'
    <3>1. CASE s = "salinity"
      BY <2>1, <3>1 DEF SalinityBoxAgrees
    <3>2. CASE s # "salinity"
      BY <2>1, <2>2, <3>2 DEF SalinityBoxAgrees
    <3> QED BY <3>1, <3>2
  <2> QED BY <2>1, <2>3, <2>4, <2>5 DEF NoDialog, AsLoaded
<1>8. CASE Close
  BY <1>t, <1>8 DEF Close, TypeOK, NoDialog, HiddenMeansOff, SalinityBoxAgrees, AsLoaded
<1>9. CASE DeInit
  <2>1. Gone /\ flag' \in {flag, Destroyed} /\ saved' \in {saved, flag}
    BY <1>9 DEF DeInit, CloseAndDelete
  <2>2. Destroyed \subseteq Switches
    BY <1>t DEF Destroyed
  <2> QED BY <1>t, <2>1, <2>2 DEF Gone, TypeOK, NoDialog, HiddenMeansOff, SalinityBoxAgrees, AsLoaded
<1>10. CASE SwitchOn
  BY <1>t, <1>10 DEF SwitchOn, TypeOK, NoDialog, HiddenMeansOff, SalinityBoxAgrees, AsLoaded
<1>11. CASE UNCHANGED vars
  BY <1>t, <1>11 DEF vars, TypeOK, NoDialog, HiddenMeansOff, SalinityBoxAgrees, AsLoaded
<1>12. CASE SelectLeaf
  <2>1. /\ ShowSteps(found, flag, box) /\ dialog' = "shown"
        /\ UNCHANGED <<saved, path, found, nodes>>
    BY <1>12 DEF SelectLeaf
  <2>2. /\ flag' \subseteq Switches /\ box' \subseteq Switches /\ visible' \subseteq Switches
        /\ chosen' = TRUE
        /\ HiddenMeansOff' /\ SalinityBoxAgrees' /\ AsLoaded' /\ NoDialog'
    BY <1>t, <2>1, ShowStepsKeeps
  <2> QED BY <1>t, <2>1, <2>2 DEF TypeOK
<1> QED BY <1>1, <1>2, <1>3, <1>4, <1>5, <1>6, <1>7, <1>8, <1>9, <1>10, <1>11, <1>12 DEF Next

LEMMA LayersAlways == Spec => []LayersInv
<1>1. Init => LayersInv
  <2> SUFFICES ASSUME Init PROVE LayersInv
    OBVIOUS
  <2>1. flag \subseteq Switches /\ saved = flag
    BY DEF Init, Defaults, Switches, CurrentSwitches
  <2> QED BY <2>1
      DEF Init, LayersInv, TypeOK, NoDialog, HiddenMeansOff, SalinityBoxAgrees, AsLoaded
<1> QED BY <1>1, LayersInvStep, PTL DEF Spec

\* Types, and with them: once a selection has come to its end, a switch whose box is
\* hidden is off, but for the isolines where the sea temperature's box is shown
\* (ncdf.cpp:1921); and the salinity's box shows its flag (ncdf.cpp:1933).
THEOREM LayersAreRight == Spec => [](TypeOK /\ HiddenMeansOff /\ SalinityBoxAgrees)
BY LayersAlways, PTL DEF LayersInv

\* Whatever the boxes say when the dialog is deleted, switching the plugin off and on
\* brings back the switches that were in force (ncdf.cpp:164, ncdf_pi.cpp:411).
THEOREM SwitchesAlwaysSurvive == Spec => SwitchesSurvive
<1> DEFINE Survive == (dialog = "shown" /\ dialog' = "shown") \/ InForce' = InForce
<1>1. LayersInv /\ [Next]_vars => [Survive]_vars
  <2> SUFFICES ASSUME LayersInv, Next PROVE Survive
    OBVIOUS
  <2> USE DEF InForce
  <2>1. CASE Toolbar
    BY <2>1 DEF Toolbar
  <2>2. CASE fillDirTree
    BY <2>2 DEF fillDirTree
  <2>3. ASSUME NEW f \in nodes, SelectFile(f) \/ SelectStep(f) \/ SwitchFile(f) \/ SelectionFails(f)
        PROVE  Survive
    BY <2>3 DEF SelectFile, SelectStep, SwitchFile, SelectionFails
  <2>4. ASSUME NEW s \in Switches, Click(s) PROVE Survive
    BY <2>4 DEF Click
  <2>5. CASE SelectLeaf
    BY <2>5 DEF SelectLeaf
  <2>6. CASE Close
    BY <2>6 DEF Close
  <2>7. CASE DeInit
    <3>1. dialog # "off" /\ dialog' = "off" /\ saved' = flag
      BY <2>7 DEF DeInit, Gone, CloseAndDelete, LayersInv, AsLoaded
    <3> QED BY <3>1
  <2>8. CASE SwitchOn
    BY <2>8 DEF SwitchOn
  <2> QED BY <2>1, <2>2, <2>3, <2>4, <2>5, <2>6, <2>7, <2>8 DEF Next
<1>2. Spec => [][Survive]_vars
  BY <1>1, LayersAlways, PTL DEF Spec
<1> QED BY <1>2 DEF SwitchesSurvive
=============================================================================

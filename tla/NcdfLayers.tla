----------------------------- MODULE NcdfLayers -----------------------------
(***************************************************************************)
(* Which layers are switched on: the plugin's m_bShow* flags, the dialog's *)
(* check boxes with their visibility, and the copy in the host's           *)
(* configuration object.  That object is in memory: when it gets to the    *)
(* disk is the host's matter.  One action per handler of src/src/ncdf.cpp  *)
(* and src/src/ncdf_pi.cpp that reads or writes one of them.  What a handler *)
(* needs of the session is kept: the file m_currentFilePath names, the file *)
(* nc_get last searched, and the files that have step nodes in the tree.   *)
(***************************************************************************)
EXTENDS Naturals, Sequences, FiniteSetsExt, Functions

CONSTANTS
  Files,     \* the files of the chosen directory
  Vars,      \* Vars[f]: the layers find_var_by_cf finds in f
  Dir,       \* the files in the order wxDir lists them
  NoFile     \* stands for "no file"

Layers == {"current", "sst", "salinity"}

ASSUME LayersAssumption ==
  /\ NoFile \notin Files
  /\ Dir \in Seq(Files) /\ Dir # <<>>
  /\ Vars \in [Files -> SUBSET Layers]

VARIABLES
  dialog,   \* m_pncdfDialog: not created, hidden or shown; "off" with the plugin
  flag,     \* the switches that are on: m_bShow* of the plugin
  box,      \* the check boxes that are ticked
  visible,  \* the check boxes that are shown
  saved,    \* the switches that are on in the host's configuration object
  path,     \* m_currentFilePath
  found,    \* the file nc_get last searched: m_fileHas*
  nodes,    \* the files with step nodes in the tree
  chosen    \* a selection in the tree has come to its end in this dialog

vars == <<dialog, flag, box, visible, saved, path, found, nodes, chosen>>

-----------------------------------------------------------------------------
CurrentSwitches == {"dir", "force", "particles"}
SeaTempSwitches == {"sst", "iso"}
Switches        == CurrentSwitches \cup SeaTempSwitches \cup {"salinity"}

SwitchesOfOnlyName(l) == {l}

SwitchesOf(l) == CASE l = "current" -> CurrentSwitches
                   [] l = "sst"     -> SeaTempSwitches
                   [] OTHER         -> {"salinity"}

Has(f, l) == f # NoFile /\ l \in Vars[f]

\* The switches of the layers that file f has, and of those it has not.
Present(f) == UNION {SwitchesOf(l) : l \in {m \in Layers : Has(f, m)}}
Absent(f)  == Switches \ Present(f)

(* The constructor leaves the boxes as wxCheckBox makes them, unticked, and *)
(* hides them; setPlugIn ticks the three of the current.                    *)

Defaults == {"dir", "force"}

Init ==
  /\ dialog = "none"
  /\ saved \in {Defaults, Switches}
  /\ flag = saved
  /\ box = {} /\ visible = {}
  /\ path = NoFile /\ found = NoFile /\ nodes = {} /\ chosen = FALSE

\* OnToolbarToolCallback, with MainDialog's constructor and setPlugIn
Toolbar ==
  /\ dialog \in {"none", "hidden"}
  /\ dialog' = "shown"
  /\ IF dialog = "none"
     THEN box' = flag \cap CurrentSwitches /\ visible' = {}
     ELSE UNCHANGED <<box, visible>>
  /\ UNCHANGED <<flag, saved, path, found, nodes, chosen>>

(* fillDirTree tries every file of the directory.  nc_get may fail before   *)
(* it caches what it found, or after that, or give the file its step nodes. *)

fillDirTree ==
  /\ dialog = "shown"
  /\ path' = Dir[Len(Dir)]
  /\ \E r \in [DOMAIN Dir -> {"unopened", "unread", "ok"}] :
        LET searched == {i \in DOMAIN Dir : r[i] # "unopened"} IN
        /\ nodes' = {Dir[i] : i \in {j \in DOMAIN Dir : r[j] = "ok"}}
        /\ found' = IF searched = {} THEN found ELSE Dir[Max(searched)]
  /\ UNCHANGED <<dialog, flag, box, visible, saved, chosen>>

-----------------------------------------------------------------------------
(* onTreeSelectionChanged.                                                  *)

\* A file node: its boxes are shown, except that of the isolines.
SelectFile(f) ==
  /\ dialog = "shown"
  /\ f \in nodes
  /\ found' = f
  /\ LET on == Present(f) \cap (CurrentSwitches \cup {"salinity"}) IN
     /\ visible' = (Present(f) \ {"iso"}) \cup (visible \cap {"iso"})
     /\ flag' = (flag \ Absent(f)) \cup on
     /\ box' = box \cup on
  /\ chosen' = TRUE
  /\ UNCHANGED <<dialog, saved, path, nodes>>

ShowStepsForgetsAbsent(f, flags, boxes) ==
  LET sal == Present(f) \cap {"salinity"} IN
  /\ visible' = Present(f)
  /\ flag' = flags \cup sal
  /\ box' = boxes \cup sal
  /\ chosen' = TRUE

\* The part every selection of a step ends with, for the file nc_get searched
\* last: boxes shown or hidden, absent layers off, salinity on.
ShowSteps(f, flags, boxes) ==
  LET sal == Present(f) \cap {"salinity"} IN
  /\ visible' = Present(f)
  /\ flag' = (flags \ Absent(f)) \cup sal
  /\ box' = boxes \cup sal
  /\ chosen' = TRUE

\* A step of the file m_currentFilePath names.
SelectStep(f) ==
  /\ dialog = "shown"
  /\ f \in nodes /\ f = path
  /\ ShowSteps(found, flag, box)
  /\ UNCHANGED <<dialog, saved, path, found, nodes>>

\* A file that has no steps in the tree: nothing is loaded, only the boxes are set.
SelectLeaf ==
  /\ dialog = "shown" /\ path # NoFile
  /\ Range(Dir) \ nodes # {}
  /\ ShowSteps(found, flag, box)
  /\ UNCHANGED <<dialog, saved, path, found, nodes>>

\* A step of another file, which is loaded first: the current is switched on,
\* the sea temperature off.
SwitchFile(f) ==
  /\ dialog = "shown"
  /\ f \in nodes /\ f # path
  /\ path' = f /\ found' = f
  /\ LET on  == Present(f) \cap CurrentSwitches
         off == {"sst"} \cap Present(f) IN
     ShowSteps(f, (flag \ {"sst"}) \cup on, (box \ off) \cup on)
  /\ UNCHANGED <<dialog, saved, nodes>>

\* The file cannot be loaded any more: nc_get may have replaced what it found.
SelectionFails(f) ==
  /\ dialog = "shown"
  /\ f \in nodes
  /\ found' \in {found, f}
  /\ UNCHANGED <<dialog, flag, box, visible, saved, path, nodes, chosen>>

-----------------------------------------------------------------------------
(* The check boxes.  Five handlers copy the box; onParticlesClick turns the *)
(* flag over.                                                               *)

Flip(S, s) == IF s \in S THEN S \ {s} ELSE S \cup {s}

CopyBoxInverted(s) ==
  /\ s # "particles"
  /\ flag' = IF s \in box THEN flag \cup {s} ELSE flag \ {s}

\* onDCurrentClick, onBmpCurrentForceClick, onSeaTempClick, ...
CopyBox(s) ==
  /\ s # "particles"
  /\ flag' = IF s \in box' THEN flag \cup {s} ELSE flag \ {s}

onParticlesClick(s) ==
  /\ s = "particles"
  /\ flag' = Flip(flag, s)

Click(s) ==
  /\ dialog = "shown"
  /\ s \in visible
  /\ box' = Flip(box, s)
  /\ CopyBox(s) \/ onParticlesClick(s)
  /\ UNCHANGED <<dialog, visible, saved, path, found, nodes, chosen>>

-----------------------------------------------------------------------------
\* onCloseDialog, OnncdfDialogClose and SaveConfig
Close ==
  /\ dialog = "shown"
  /\ dialog' = "hidden"
  /\ saved' = flag
  /\ UNCHANGED <<flag, box, visible, path, found, nodes, chosen>>

(* The plugin is switched off.  A dialog is closed first, which saves, and   *)
(* then deleted: ~MainDialog copies three boxes into the flags.             *)

Gone ==
  /\ dialog' = "off"
  /\ box' = {} /\ visible' = {}
  /\ path' = NoFile /\ found' = NoFile /\ nodes' = {} /\ chosen' = FALSE

Destroyed == (flag \ CurrentSwitches) \cup (box \cap CurrentSwitches)

CloseAfterDelete == saved' = Destroyed /\ flag' = Destroyed

CloseAndDelete == saved' = flag /\ flag' = Destroyed

DeInit ==
  /\ dialog # "off"
  /\ IF dialog = "none" THEN UNCHANGED <<saved, flag>> ELSE CloseAndDelete
  /\ Gone

\* The plugin is switched on again, and LoadConfig reads the flags.
SwitchOn ==
  /\ dialog = "off"
  /\ dialog' = "none"
  /\ flag' = saved
  /\ UNCHANGED <<saved, box, visible, path, found, nodes, chosen>>

Next ==
  \/ Toolbar
  \/ fillDirTree
  \/ \E f \in nodes : SelectFile(f) \/ SelectStep(f) \/ SwitchFile(f) \/ SelectionFails(f)
  \/ \E s \in Switches : Click(s)
  \/ SelectLeaf
  \/ Close
  \/ DeInit
  \/ SwitchOn

Spec == Init /\ [][Next]_vars
-----------------------------------------------------------------------------
(* Properties.                                                              *)

\* Every variable holds a value of its type.
TypeOK ==
  /\ dialog \in {"none", "hidden", "shown", "off"}
  /\ {flag, box, visible, saved} \subseteq SUBSET Switches
  /\ {path, found} \subseteq Files \cup {NoFile}
  /\ nodes \subseteq Files
  /\ chosen \in BOOLEAN

\* Once a selection in the tree has come to its end, a switch whose check box is hidden,
\* so that the user cannot reach it, is off.  One exception is the code's: a click on a
\* file node shows the sea temperature's box without that of the isolines
\* (ncdf.cpp:1713), which may be on then.
HiddenMeansOff ==
  chosen => flag \subseteq visible \cup {s \in {"iso"} : "sst" \in visible}

\* Whatever files are chosen, the salinity's box shows its flag when it is shown.
SalinityBoxAgrees ==
  "salinity" \in visible => ("salinity" \in box <=> "salinity" \in flag)

\* The switches that are in force, or will be when the plugin is switched on again.
InForce == IF dialog = "off" THEN saved ELSE flag

\* Switches change only at the dialog on the screen.  Closing and reopening it, switching
\* the plugin off and on keep them all, although the dialog's destructor copies boxes
\* into flags that may differ from them, after the dialog has saved (ncdf.cpp:164).
SwitchesSurvive ==
  [][(dialog = "shown" /\ dialog' = "shown") \/ InForce' = InForce]_vars

\* claude_build_memory.md:49 says that m_checkBoxDCurrent controls m_bShowCurrentDir
\* and m_checkBoxBmpCurrentForce controls m_bShowCurrentForce.
BoxControlsCurrent ==
  \A s \in {"dir", "force"} : s \in visible => (s \in box <=> s \in flag)
=============================================================================

----------------------------- MODULE NcdfViewer -----------------------------
(***************************************************************************)
(* What the dialog promises the person at the chart, without its tree, its *)
(* slider or its caches: at most one file is open, at most one time step   *)
(* is drawn on the chart, and a step comes onto the chart only as a step   *)
(* of the file that is open at that moment.  A step already drawn may stay *)
(* while other files are opened or fail to open; it may also vanish at any *)
(* time.  NcdfSession is checked and proved to implement this module.      *)
(***************************************************************************)
EXTENDS Integers

CONSTANTS
  Files,    \* full path names of the .nc and .nc4 files
  Steps,    \* Steps[f]: number of time steps of file f
  NoFile    \* stands for "no file"

VARIABLES
  open,     \* the file whose time steps can be chosen, or NoFile
  drawn     \* the step on the chart, or Nothing

Nothing == [file |-> NoFile, index |-> -1]

StepOf(f, i) == [file |-> f, index |-> i]

ViewerInit == open = NoFile /\ drawn = Nothing

\* The file changes, or none is open any more; no new step is drawn.
Open ==
  /\ open' \in Files \cup {NoFile}
  /\ drawn' \in {drawn, Nothing}

\* A step of the file that is open after the event comes onto the chart.
Draw ==
  /\ open' \in Files
  /\ \E i \in 0 .. Steps[open'] - 1 : drawn' = StepOf(open', i)

ViewerSpec == ViewerInit /\ [][Open \/ Draw]_<<open, drawn>>
=============================================================================

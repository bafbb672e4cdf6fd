------------------------------ MODULE NcdfFeed ------------------------------
(***************************************************************************)
(* What the dialog feeds to the overlay factory, and all that the factory  *)
(* may rely on: a step comes whole, with the layers it has, and makes the  *)
(* factory ready (ncdfOverlayFactory::setData, called at the end of        *)
(* ncdfReader::readncdfFile); the factory is reset when the dialog closes  *)
(* or frees the grids (ncdfOverlayFactory::reset); and it is made anew with *)
(* the plugin.  NcdfOverlay is built upon these three events; NcdfSession  *)
(* is checked and proved to cause no others.                               *)
(***************************************************************************)
CONSTANTS
  Data,     \* the time steps whose grids may be put on the chart
  Layers,   \* the layers a step may have
  NoData    \* stands for "no step yet"

VARIABLES
  data,     \* the step the grids were last built from
  layers,   \* the layers whose grids exist
  ready     \* m_bReadyToRender

FeedInit == data = NoData /\ layers = {} /\ ready = FALSE

\* A step arrives; it has at least one layer.
Load ==
  /\ data' \in Data
  /\ layers' \in (SUBSET Layers) \ {{}}
  /\ ready' = TRUE

\* The factory is reset; the grids are freed with it or stay.
Clear ==
  /\ ready' = FALSE
  /\ layers' \in {layers, {}}
  /\ UNCHANGED data

\* The dialog and the factory are made anew.
Forget == data' = NoData /\ layers' = {} /\ ready' = FALSE

FeedSpec == FeedInit /\ [][Load \/ Clear \/ Forget]_<<data, layers, ready>>
=============================================================================

---------------------------- MODULE MCNcdfOverlay ----------------------------
(***************************************************************************)
(* Two time steps that can be painted and one whose grid is a single row.  *)
(***************************************************************************)
EXTENDS NcdfOverlay, TLC

CONSTANTS noon, midnight, row

MCData   == {noon, midnight, row}
Symmetry == Permutations({noon, midnight})
=============================================================================

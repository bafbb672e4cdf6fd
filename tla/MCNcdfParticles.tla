--------------------------- MODULE MCNcdfParticles ---------------------------
(***************************************************************************)
(* The constants of the code, scaled down: trails of three nodes, a life   *)
(* of seven moves, and room for two particles.                             *)
(***************************************************************************)
EXTENDS NcdfParticles
=============================================================================

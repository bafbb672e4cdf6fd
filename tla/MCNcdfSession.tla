--------------------------- MODULE MCNcdfSession ---------------------------
(***************************************************************************)
(* Two directories.  The first has two good files with different layers    *)
(* and different numbers of steps, and then one without coordinates, which  *)
(* nc_get refuses only after it has cached the variable ids.  The second   *)
(* has a file with no time steps and one that nc_get refuses at once.      *)
(***************************************************************************)
EXTENDS NcdfSession

CONSTANTS tides, sst, bare, empty, flat, atlantic, scratch

MCFiles == {tides, sst, bare, empty, flat}
MCSteps == [f \in MCFiles |-> CASE f = tides -> 2 [] f = sst -> 3 [] f = empty -> 0 [] OTHER -> 1]
MCVars  == [f \in MCFiles |-> CASE f = tides -> {"current"}
                                [] f = sst   -> {"sst", "salinity"}
                                [] OTHER     -> {}]
MCDirs     == {atlantic, scratch}
MCDirFiles == [d \in MCDirs |-> IF d = atlantic THEN <<sst, tides, bare>> ELSE <<empty, flat>>]
=============================================================================

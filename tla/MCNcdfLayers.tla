---------------------------- MODULE MCNcdfLayers ----------------------------
(***************************************************************************)
(* Two files whose layers differ in every way that matters: one has the    *)
(* current and the salinity, the other only the sea temperature.  The one  *)
(* with the current is listed last.                                        *)
(***************************************************************************)
EXTENDS NcdfLayers

CONSTANTS tides, sst

MCFiles == {tides, sst}
MCVars  == [f \in MCFiles |-> IF f = tides THEN {"current", "salinity"} ELSE {"sst"}]
MCDir   == <<sst, tides>>
=============================================================================

--------------------------- MODULE MCNcdfMessage ---------------------------
(* Small instance of NcdfMessage: a file of two steps with the current, and   *)
(* a file of one step with other rows and the temperature.                   *)
EXTENDS NcdfMessage

CONSTANTS streams, warmth

MCSteps  == [f \in Files |-> IF f = streams THEN 2 ELSE 1]
MCRows   == [f \in Files |-> IF f = streams THEN 2 ELSE 3]
MCLayers == [f \in Files |-> IF f = streams THEN {"current"} ELSE {"sst"}]
=============================================================================

------------------------------ MODULE NcdfField ------------------------------
(***************************************************************************)
(* A layer's way from the file to the chart: nc_get asks which variable    *)
(* holds the temperature, the time step that is read has temperatures only *)
(* if one was found, readncdfFile makes and fills the grids, and            *)
(* RenderSeaTempIsoLines draws a line over them.  The interpolation is      *)
(* asked of the finished grids at any time.                                *)
(***************************************************************************)
EXTENDS NcdfFinder, NcdfInterpolation, NcdfIsoLine

VARIABLE hasSeaTemp   \* whether nc_get found a variable for it, NoText before

fieldVars == <<finderVars, gridVars, isoVars, hasSeaTemp>>

FieldInit == FinderInit /\ GridInit /\ IsoInit /\ hasSeaTemp = NoText

\* find_var_by_cf, asked for the temperature
Find == hasSeaTemp = NoText /\ FinderNext /\ UNCHANGED <<gridVars, isoVars, hasSeaTemp>>

\* Its caller keeps the variable's number; its own variables are gone.
Answered ==
  /\ hasSeaTemp = NoText /\ rule = "found"
  /\ hasSeaTemp' = (varid # NotFound)
  /\ ncfile' = <<>> /\ rule' = "standard" /\ hint' = 1 /\ var' = 1 /\ varid' = NotFound
  /\ UNCHANGED <<gridVars, isoVars>>

\* Temperatures are missing too where there was no memory to read them into.
Read ==
  /\ hasSeaTemp # NoText /\ pass = "none"
  /\ \E f \in Fields : ("sst" \in DOMAIN f.raw => hasSeaTemp) /\ ReadStep(f)
  /\ UNCHANGED <<finderVars, isoVars, hasSeaTemp>>

Build == (FILL_V \/ FILL_H \/ Magnitude) /\ UNCHANGED <<finderVars, isoVars, hasSeaTemp>>

Draw == IsoNext /\ UNCHANGED <<finderVars, gridVars, hasSeaTemp>>

FieldNext == Find \/ Answered \/ Read \/ Build \/ Draw

FieldSpec == FieldInit /\ [][FieldNext]_fieldVars
=============================================================================

------------------------------ MODULE NcdfGrid ------------------------------
(***************************************************************************)
(* From the arrays of one time step to the grids on the chart:             *)
(* readTimeStepData's copy of the values (src/src/ncdf.cpp), and           *)
(* readncdfFile's grids, FillAllGrids and the magnitude grid               *)
(* (src/src/ncdf_reader.cpp).  Each grid is filled in place, one cell in    *)
(* one turn of the loops: a cell without a value between two that have one *)
(* gets their mean, first between rows, then between columns.              *)
(*                                                                         *)
(* A value is an integer and stands for a number; inputs are multiples of  *)
(* four, so that the two halvings a value can go through are exact.        *)
(***************************************************************************)
EXTENDS Integers, Sequences

CONSTANTS
  Fields,   \* the time steps: [ni, nj, raw], raw[l] an array of ni * nj values
  NOTDEF    \* ncdf_NOTDEF, and the fill value in a file

GridNames == {"u", "v", "sst", "salinity"}

Rows(nj) == 0 .. nj - 1
Cols(ni) == 0 .. ni - 1

\* grid[j][i] is the cell <<j, i>>.
CellsOf(nj, ni) == Rows(nj) \X Cols(ni)

ASSUME FieldsAssumption ==
  \A f \in Fields :
    /\ f.ni \in Nat \ {0} /\ f.nj \in Nat \ {0}
    /\ DOMAIN f.raw \subseteq GridNames
    /\ "u" \in DOMAIN f.raw <=> "v" \in DOMAIN f.raw
    /\ \A l \in DOMAIN f.raw : f.raw[l] \in [0 .. f.ni * f.nj - 1 -> Int \cup {NOTDEF}]

ASSUME NotdefAssumption == NOTDEF \notin Int

VARIABLES
  step,     \* the time step read, with its number of columns and rows
  data,     \* the message's arrays: ucurr, vcurr, sst, salinity
  grid,     \* gridu, gridv, gridSST, gridSalinity, those that exist
  mag,      \* gridMag squared, <<>> before it is built
  pass,     \* "none", "vertical", "horizontal", "magnitude" or "done"
  i, j      \* the loops' counters

gridVars == <<step, data, grid, mag, pass, i, j>>

ni    == step.ni
nj    == step.nj
Cells == CellsOf(nj, ni)

-----------------------------------------------------------------------------
(* Reading.  A point where either component of the current is missing has   *)
(* neither; the other layers are copied as they are: raw is without what    *)
(* is no number or out of the layer's range, and in degrees Celsius.  The   *)
(* arrays keep the order in which the file stores its dimensions, whichever *)
(* comes first.                                                             *)

CopiedAlone(f) == f.raw

Copied(f) ==
  [l \in DOMAIN f.raw |->
     IF l \in {"u", "v"}
     THEN [c \in DOMAIN f.raw[l] |->
             IF f.raw["u"][c] # NOTDEF /\ f.raw["v"][c] # NOTDEF THEN f.raw[l][c] ELSE NOTDEF]
     ELSE f.raw[l]]

RowwiseTurned(f, array) == [c \in CellsOf(f.ni, f.nj) |-> array[c[1] * f.nj + c[2]]]

\* The rows of a grid are runs of noPointsParallel elements of the array.
Rowwise(f, array) == [c \in CellsOf(f.nj, f.ni) |-> array[c[1] * f.ni + c[2]]]

NoStep == [ni |-> 0, nj |-> 0, raw |-> <<>>]

\* readTimeStepData, then readncdfFile up to the call of FillAllGrids
ReadStep(f) ==
  /\ pass = "none"
  /\ step' = f
  /\ data' = Copied(f)
  /\ grid' = [l \in DOMAIN f.raw |-> Rowwise(f, data'[l])]
  /\ IF f.ni < 3 \/ f.nj < 3
     THEN pass' = "magnitude" /\ i' = 0 /\ j' = 0
     ELSE pass' = "vertical" /\ i' = 0 /\ j' = 1
  /\ UNCHANGED mag

-----------------------------------------------------------------------------
(* FillAllGrids.                                                            *)

Mean(x, y) == (x + y) \div 2

FillFromOne(g, c, a, b) ==
  IF g[c] # NOTDEF \/ (g[a] = NOTDEF /\ g[b] = NOTDEF) THEN g
  ELSE [g EXCEPT ![c] = IF g[a] = NOTDEF THEN g[b] ELSE g[a]]

Fill(g, c, a, b) ==
  IF g[c] = NOTDEF /\ g[a] # NOTDEF /\ g[b] # NOTDEF
  THEN [g EXCEPT ![c] = Mean(g[a], g[b])] ELSE g

FillGrids(c, a, b) == grid' = [l \in DOMAIN grid |-> Fill(grid[l], c, a, b)]

\* Pass 1: columns in turn, the inner rows of each.
FILL_V ==
  /\ pass = "vertical"
  /\ FillGrids(<<j, i>>, <<j - 1, i>>, <<j + 1, i>>)
  /\ IF j + 1 < nj - 1 THEN j' = j + 1 /\ UNCHANGED <<i, pass>>
     ELSE IF i + 1 < ni THEN i' = i + 1 /\ j' = 1 /\ UNCHANGED pass
     ELSE pass' = "horizontal" /\ i' = 1 /\ j' = 0
  /\ UNCHANGED <<step, data, mag>>

\* Pass 2: rows in turn, the inner columns of each.
FILL_H ==
  /\ pass = "horizontal"
  /\ FillGrids(<<j, i>>, <<j, i - 1>>, <<j, i + 1>>)
  /\ IF i + 1 < ni - 1 THEN i' = i + 1 /\ UNCHANGED <<j, pass>>
     ELSE IF j + 1 < nj THEN j' = j + 1 /\ i' = 1 /\ UNCHANGED pass
     ELSE pass' = "magnitude" /\ i' = 0 /\ j' = 0
  /\ UNCHANGED <<step, data, mag>>

Square(u, v) == IF u # NOTDEF /\ v # NOTDEF THEN u * u + v * v ELSE NOTDEF

Magnitude ==
  /\ pass = "magnitude"
  /\ mag' = IF "u" \in DOMAIN grid
            THEN [c \in Cells |-> Square(grid["u"][c], grid["v"][c])] ELSE <<>>
  /\ pass' = "done"
  /\ UNCHANGED <<step, data, grid, i, j>>

GridInit ==
  /\ step = NoStep /\ data = <<>> /\ grid = <<>> /\ mag = <<>>
  /\ pass = "none" /\ i = 0 /\ j = 0

GridNext == (\E f \in Fields : ReadStep(f)) \/ FILL_V \/ FILL_H \/ Magnitude

GridSpec == GridInit /\ [][GridNext]_gridVars
-----------------------------------------------------------------------------
(* Properties.                                                              *)

Values == Int \cup {NOTDEF}

GridTypeOK ==
  /\ pass \in {"none", "vertical", "horizontal", "magnitude", "done"}
  /\ i \in Nat /\ j \in Nat
  /\ pass # "none" =>
       /\ ni > 0 /\ nj > 0
       /\ DOMAIN grid = DOMAIN step.raw
       /\ \A l \in DOMAIN grid : grid[l] \in [Cells -> Values]

\* A whole pass at once: every cell looks at its neighbours as they were before.
Down(g) ==
  [c \in DOMAIN g |->
     IF c[1] \in 1 .. nj - 2 /\ g[c] = NOTDEF
          /\ g[<<c[1] - 1, c[2]>>] # NOTDEF /\ g[<<c[1] + 1, c[2]>>] # NOTDEF
     THEN Mean(g[<<c[1] - 1, c[2]>>], g[<<c[1] + 1, c[2]>>]) ELSE g[c]]

Across(g) ==
  [c \in DOMAIN g |->
     IF c[2] \in 1 .. ni - 2 /\ g[c] = NOTDEF
          /\ g[<<c[1], c[2] - 1>>] # NOTDEF /\ g[<<c[1], c[2] + 1>>] # NOTDEF
     THEN Mean(g[<<c[1], c[2] - 1>>], g[<<c[1], c[2] + 1>>]) ELSE g[c]]

Smoothed(g) == IF ni < 3 \/ nj < 3 THEN g ELSE Across(Down(g))

\* Filling in place is filling at once: within a pass no value made up for one cell
\* is ever used to make up another, whatever the shape of the gaps.
FillIsSimultaneous ==
  pass \in {"magnitude", "done"} =>
    \A l \in DOMAIN grid : grid[l] = Smoothed(Rowwise(step, data[l]))

\* The components of the current have values at the same points, before, during and
\* after the filling, so an arrow, a particle or the magnitude always has both.
CurrentIsWhole ==
  "u" \in DOMAIN grid => \A c \in Cells : grid["u"][c] = NOTDEF <=> grid["v"][c] = NOTDEF

\* A gap is bridged by at most the cells next to it: any value on the chart lies
\* within the measured ones of the three by three block around it, so nothing is
\* carried over land or out to open sea.
Around(c) == {d \in Cells : d[1] - c[1] \in -1 .. 1 /\ d[2] - c[2] \in -1 .. 1}

Measured(l, c) == {data[l][d[1] * ni + d[2]] : d \in Around(c)} \ {NOTDEF}

GapsAreBridgedLocally ==
  pass = "done" =>
    \A l \in DOMAIN grid : \A c \in Cells :
      grid[l][c] # NOTDEF =>
        /\ \E x \in Measured(l, c) : x <= grid[l][c]
        /\ \E x \in Measured(l, c) : x >= grid[l][c]
=============================================================================

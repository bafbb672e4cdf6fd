-------------------------- MODULE NcdfInterpolation --------------------------
(***************************************************************************)
(* ncdfDataMessage::getInterpolatedValue (src/src/ncdfdata.cpp): the value  *)
(* of a layer at a point between the points of its grid, for the arrows,    *)
(* the particles, the tidal arrows and the readout at the cursor.          *)
(*                                                                         *)
(* Longitudes and latitudes are integers, in such units that two points of  *)
(* a grid are Parts apart; the values between them are exact when they are *)
(* multiplied by Scale.  Circle stands for 360 degrees.                    *)
(***************************************************************************)
EXTENDS NcdfGrid

CONSTANTS
  Parts,    \* the units of longitude or latitude from one point of a grid to the next
  Circle,   \* one turn in these units
  Places    \* where a grid may lie: [lon, lat, dj], the first point and the step north

ASSUME CircleAssumption == Parts \in Nat \ {0} /\ Circle \in Nat \ {0} /\ Circle % 2 = 0

ASSUME PlacesAssumption == \A p \in Places : p.lon \in Int /\ p.lat \in Int /\ p.dj \in {Parts, -Parts}

Distance(x) == IF x < 0 THEN -x ELSE x

-----------------------------------------------------------------------------
(* A map is the part of a message that places its grid: numbers of points,  *)
(* first and last longitude and latitude, and the distances nc_get computes *)
(* from them.                                                               *)

Increment(first, last, n) == (last - first) \div (IF n > 1 THEN n - 1 ELSE 1)

MapOf(cols, rows, lon, lastLon, lat, lastLat) ==
  [ni |-> cols, nj |-> rows, lon |-> lon, lastLon |-> lastLon, lat |-> lat, lastLat |-> lastLat,
   di |-> Increment(lon, lastLon, cols), dj |-> Increment(lat, lastLat, rows)]

Global(m) == Distance(m.lastLon - m.lon) + Distance(m.di) >= Circle

Unrolled(m) ==
  IF m.lon > Circle \div 2 /\ m.lastLon < Circle \div 2 THEN m.lastLon + Circle ELSE m.lastLon

isXInMap(m, x) ==
  \/ Global(m)
  \/ m.di > 0 /\ m.lon <= x /\ x <= Unrolled(m)
  \/ m.di <= 0 /\ Unrolled(m) <= x /\ x <= m.lon

isYInMap(m, y) ==
  IF m.dj < 0 THEN m.lastLat <= y /\ y <= m.lat ELSE m.lat <= y /\ y <= m.lastLat

isPointInMap(m, x, y) == isXInMap(m, x) /\ isYInMap(m, y)

\* The longitude itself, one turn to the right, or one to the left: the first in the map.
Turned(m, x, y) ==
  IF isPointInMap(m, x, y) THEN x
  ELSE IF isPointInMap(m, x + Circle, y) THEN x + Circle ELSE x - Circle

\* Turns to the left while east of the data, then to the right while west of it.
DataEnd(m) == m.lastLon + m.di

TurnsTo(d) == IF d > 0 THEN (d + Circle - 1) \div Circle ELSE 0

NormalizedOnce(m, x) == IF x > DataEnd(m) THEN x - Circle ELSE x

Normalized(m, x) ==
  LET w == x - Circle * TurnsTo(x - DataEnd(m))
  IN  w + Circle * TurnsTo(m.lon - w)

-----------------------------------------------------------------------------
(* Positions in the grid, in parts of its cells.                            *)

InParts(d, increment) ==
  IF increment > 0 THEN (Parts * d) \div increment ELSE (-Parts * d) \div (-increment)

RowFromSouth(m, y) == InParts(y - (IF m.dj < 0 THEN m.lastLat ELSE m.lat), Distance(m.dj))

Column(m, x) == InParts(x - m.lon, m.di)
Row(m, y)    == InParts(y - m.lat, m.dj)

\* A conversion to int cuts towards zero.
Whole(p) == IF p >= 0 THEN p \div Parts ELSE -((-p) \div Parts)

RestUncut(p) == p

Rest(p) == p - Parts * Whole(p)

\* (3 - 2x)x^2, in Parts^3 parts
Hermite(r) == (3 * Parts - 2 * r) * r * r
One        == Hermite(Parts)
Scale      == One * One

NextColumnUnwrapped(m, col) == IF col + 1 < m.ni THEN col + 1 ELSE col

\* The column to the right: the first one again in a global grid, else the same.
NextColumn(m, col) ==
  IF col + 1 < m.ni THEN col + 1 ELSE IF Global(m) THEN 0 ELSE col

hasValue(m, g, row, col) ==
  row \in 0 .. m.nj - 1 /\ col \in 0 .. m.ni - 1 /\ g[<<row, col>>] # NOTDEF

\* Two corners more than 90 apart are taken for directions: the smaller one gains 360.
Closer(pair) ==
  IF pair[1] - pair[2] > 90 THEN <<pair[1], pair[2] + 360>>
  ELSE IF pair[2] - pair[1] > 90 THEN <<pair[1] + 360, pair[2]>>
  ELSE pair

\* a: row and column, b: next row, c: next column, d: both.
Blend(a, b, c, d, dx, dy) ==
  LET p1 == Closer(<<c, d>>)
      p2 == Closer(<<a, b>>)
      p3 == Closer(<<p2[1], p1[1]>>)
      p4 == Closer(<<p2[2], p1[2]>>)
      Mix(v, w, share) == (One - share) * v + share * w
  IN  Mix(Mix(p3[1], p3[2], Hermite(dx)), Mix(p4[1], p4[2], Hermite(dx)), Hermite(dy))

Corners(m, x, y) ==
  LET col == Whole(Column(m, x))
      row == Whole(Row(m, y))
  IN  <<<<row, col>>, <<row + 1, col>>, <<row, NextColumn(m, col)>>, <<row + 1, NextColumn(m, col)>>>>

Placed(m, x, y) == Normalized(m, Turned(m, x, y))

\* getInterpolatedValue with numericalInterpolation, times Scale
Interpolated(m, g, x, y) ==
  IF ~isPointInMap(m, Turned(m, x, y), y) \/ m.di = 0 \/ m.dj = 0 THEN NOTDEF
  ELSE LET px == Placed(m, x, y)
           c  == Corners(m, px, y)
       IN  IF \A k \in 1 .. 4 : hasValue(m, g, c[k][1], c[k][2])
           THEN Blend(g[c[1]], g[c[2]], g[c[3]], g[c[4]], Rest(Column(m, px)), Rest(Row(m, y)))
           ELSE NOTDEF
-----------------------------------------------------------------------------
(* Properties of every grid that FillAllGrids can leave, wherever it lies.  *)
(* Longitudes go east; the first latitude is the southern or the northern.  *)
(* They are checked as soon as the grids are filled, which do not change    *)
(* any more.                                                               *)

Maps == {MapOf(ni, nj, p.lon, p.lon + Parts * (ni - 1), p.lat, p.lat + p.dj * (nj - 1)) : p \in Places}

Longitudes(m) == m.lon .. (IF Global(m) THEN DataEnd(m) - 1 ELSE m.lastLon)
Latitudes(m)  == IF m.dj < 0 THEN m.lastLat .. m.lat ELSE m.lat .. m.lastLat

\* No two values are more than 90 apart, as temperatures, salinities and currents are:
\* where they are, the code takes them for directions.
Level(g) == \A c, d \in DOMAIN g : g[c] # NOTDEF /\ g[d] # NOTDEF => g[c] - g[d] <= 90

\* The columns do not go round the globe more than once, so that none lies over another.
OneTurn(m) == DataEnd(m) - m.lon <= Circle

AtPoints(P(_, _, _, _)) ==
  pass = "magnitude" =>
    \A l \in DOMAIN grid : \A m \in Maps : \A x \in Longitudes(m) : \A y \in Latitudes(m) :
      P(m, grid[l], x, y)

\* A value is made up only inside four points that have one, and never lies outside
\* theirs: the smoothing, the search for the cell and the last column included.
BetweenCorners ==
  LET Between(m, g, x, y) ==
        LET v  == Interpolated(m, g, x, y)
            four == {Corners(m, Placed(m, x, y), y)[k] : k \in 1 .. 4}
        IN Level(g) /\ v # NOTDEF =>
             /\ \A c \in four : c \in DOMAIN g /\ g[c] # NOTDEF
             /\ \E c \in four : Scale * g[c] <= v
             /\ \E c \in four : Scale * g[c] >= v
  IN AtPoints(Between)

\* Where the interpolation has a value at a point of the grid, it is the one the grid has
\* there, whichever way the latitudes go.  It may have none beside a gap, although the
\* point itself has one, and has none in the last row, which has no next row.
ExactAtNodes ==
  pass = "magnitude" =>
    \A l \in DOMAIN grid : \A m \in Maps : \A c \in Cells :
      LET v == Interpolated(m, grid[l], m.lon + m.di * c[2], m.lat + m.dj * c[1])
      IN  Level(grid[l]) /\ v # NOTDEF => v = Scale * grid[l][c]

\* The chart may ask for the same point a turn further west or east (ncdfdata.cpp:500
\* "Fixes: [0,360] data + negative query"): it gets the same answer.  The one longitude
\* DataEnd is excepted, where the code finds no column.
SameAfterATurn ==
  LET Same(m, g, x, y) ==
        \A turn \in {-Circle, Circle} :
          OneTurn(m) /\ x + turn # DataEnd(m) => Interpolated(m, g, x + turn, y) = Interpolated(m, g, x, y)
  IN AtPoints(Same)

Flipped(m) == [m EXCEPT !.lat = m.lastLat, !.lastLat = m.lat, !.dj = -m.dj]

FlippedGrid(g) == [c \in Cells |-> g[<<nj - 1 - c[1], c[2]>>]]

\* A file may store its rows from the north or from the south: the same field gives
\* the same values between its rows.  On a row it may not, where the row before it and
\* the row after it do not have the same gaps.
OrientationFree ==
  LET Same(m, g, x, y) ==
        Rest(Row(m, y)) # 0 =>
          Interpolated(Flipped(m), FlippedGrid(g), x, y) = Interpolated(m, g, x, y)
  IN AtPoints(Same)

MovedGrid(g) == [c \in Cells |-> g[<<c[1], (c[2] + 1) % ni>>]]

\* A grid that goes round the globe has no seam: if every column moves one place to the
\* left, the values move with it, those between the last column and the first included.
\* The longitude DataEnd is excepted, where the code finds no column.
SeamIsNowhere ==
  LET Same(m, g, x, y) ==
        Global(m) /\ OneTurn(m) /\ x + m.di # DataEnd(m) =>
          Interpolated(m, MovedGrid(g), x, y) = Interpolated(m, g, x + m.di, y)
  IN AtPoints(Same)
=============================================================================

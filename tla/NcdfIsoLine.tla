----------------------------- MODULE NcdfIsoLine -----------------------------
(***************************************************************************)
(* IsoLine (src/src/IsoLine2.cpp): the line of one temperature over the    *)
(* temperature grid.  extractIsoLine crosses one cell after the other and  *)
(* leaves a list of segments; the constructor then joins them into chains, *)
(* each built by BuildContinuousSegment from its two ends.  One action is  *)
(* one turn of one of these loops.                                         *)
(*                                                                         *)
(* A point is kept in units of 1/Exact of the distance between two columns *)
(* or rows.  In the code two segments meet if the doubles are equal: so    *)
(* they are on a common edge, which neighbouring cells name in the same    *)
(* order; at a point of the grid itself they may differ in the last digit. *)
(***************************************************************************)
EXTENDS NcdfGrid, SequencesExt

CONSTANTS
  Degree,       \* the spacing of the lines, in units of the values
  Exact         \* a number of parts of an edge that makes every crossing exact

ASSUME LineAssumption == {Degree, Exact} \subseteq Nat \ {0}

VARIABLES
  value,    \* the temperature of the line
  phase,    \* "none", "extract", "start", "side2", "side1" or "joined"
  at,       \* the cell that extractIsoLine looks at next, by its lower right point
  trace,    \* the segments, in the order in which they were found
  unused,   \* those whose bUsed is false
  side2,    \* segjoin2 and segjoin1 of BuildContinuousSegment
  side1,
  chains    \* m_SegListList

isoVars == <<value, phase, at, trace, unused, side2, side1, chains>>

-----------------------------------------------------------------------------
(* The cells.  a b  are the points  <<j-1, i-1>> <<j-1, i>>                 *)
(*            c d                  <<j,   i-1>> <<j,   i>>                  *)

traduitCode(c, k) ==
  CASE k = "a" -> <<c[1] - 1, c[2] - 1>>
    [] k = "b" -> <<c[1] - 1, c[2]>>
    [] k = "c" -> <<c[1], c[2] - 1>>
    [] k = "d" -> c

Edge(c, name) == <<traduitCode(c, name[1]), traduitCode(c, name[2])>>

ab == <<"a", "b">>
ac == <<"a", "c">>
bd == <<"b", "d">>
cd == <<"c", "d">>

SaddleCutOnce(above) == <<<<ab, bd>>>>

SaddleCut(above) ==
  IF above = {"b", "c"} THEN <<<<ab, bd>>, <<ac, cd>>>> ELSE <<<<ab, ac>>, <<bd, cd>>>>

\* The edges that the line crosses, by the set of corners above the value.
SegmentsCut(above) ==
  CASE above \in {{"d"}, {"a", "b", "c"}} -> <<<<cd, bd>>>>
    [] above \in {{"b"}, {"a", "c", "d"}} -> <<<<ab, bd>>>>
    [] above \in {{"a"}, {"b", "c", "d"}} -> <<<<ab, ac>>>>
    [] above \in {{"c"}, {"a", "b", "d"}} -> <<<<ac, cd>>>>
    [] above \in {{"c", "d"}, {"a", "b"}} -> <<<<ac, bd>>>>
    [] above \in {{"b", "d"}, {"a", "c"}} -> <<<<ab, cd>>>>
    [] above \in {{"b", "c"}, {"a", "d"}} -> SaddleCut(above)
    [] OTHER                              -> <<>>

\* intersectionAreteGrille: where the value lies between the edge's two ends, in rows and
\* columns.  The correction for two ends more than 180 degrees of longitude apart
\* (IsoLine2.cpp:548) has no counterpart there.
ShareOf(pa, pb) ==
  IF pb > pa THEN (Exact * (value - pa)) \div (pb - pa) ELSE (Exact * (pa - value)) \div (pa - pb)

Intersection(rec, e) ==
  LET on(k) == Exact * e[1][k] + (e[2][k] - e[1][k]) * ShareOf(rec[e[1]], rec[e[2]])
  IN  <<on(1), on(2)>>

SegmentOf(rec, c, names) ==
  LET e1 == Edge(c, names[1])
      e2 == Edge(c, names[2])
  IN  [e1 |-> e1, e2 |-> e2, p1 |-> Intersection(rec, e1), p2 |-> Intersection(rec, e2)]

Corner(c) == [k \in {"a", "b", "c", "d"} |-> traduitCode(c, k)]

Whole4(rec, c) == \A k \in DOMAIN Corner(c) : rec[Corner(c)[k]] # NOTDEF

Above(rec, c) == {k \in DOMAIN Corner(c) : rec[Corner(c)[k]] > value}

SegmentsOf(rec, c) ==
  IF Whole4(rec, c)
  THEN LET cut == SegmentsCut(Above(rec, c)) IN [n \in DOMAIN cut |-> SegmentOf(rec, c, cut[n])]
  ELSE <<>>

-----------------------------------------------------------------------------
IsoInit ==
  /\ value = 0 /\ phase = "none" /\ at = <<1, 1>>
  /\ trace = <<>> /\ unused = {} /\ side2 = <<>> /\ side1 = <<>> /\ chains = <<>>

Temperatures == {grid["sst"][c] : c \in Cells} \ {NOTDEF}

Floor(t)   == Degree * (t \div Degree)
Ceiling(t) == -Floor(-t)

\* RenderSeaTempIsoLines makes a line for each temperature between the extremes.
DrawLine ==
  /\ phase = "none"
  /\ pass = "done" /\ "sst" \in DOMAIN grid /\ ni >= 2 /\ nj >= 2
  /\ Temperatures # {} /\ Min(Temperatures) < Max(Temperatures)
  /\ value' \in Floor(Min(Temperatures)) .. Ceiling(Max(Temperatures))
  /\ value' = Floor(value')
  /\ phase' = "extract"
  /\ UNCHANGED <<at, trace, unused, side2, side1, chains>>

\* One cell; a grid of a single row or column is never drawn.
extractIsoLine ==
  /\ phase = "extract"
  /\ trace' = trace \o SegmentsOf(grid["sst"], at)
  /\ IF at[2] + 1 < ni THEN at' = <<at[1], at[2] + 1>> /\ UNCHANGED <<phase, unused>>
     ELSE IF at[1] + 1 < nj THEN at' = <<at[1] + 1, 1>> /\ UNCHANGED <<phase, unused>>
     ELSE /\ phase' = IF trace' = <<>> THEN "joined" ELSE "start"
          /\ unused' = DOMAIN trace'
          /\ UNCHANGED at
  /\ UNCHANGED <<value, side2, side1, chains>>

\* BuildContinuousSegment begins with the first segment that is left.
StartChain ==
  /\ phase = "start"
  /\ phase' = "side2"
  /\ side2' = <<Min(unused)>>
  /\ unused' = unused \ {Min(unused)}
  /\ UNCHANGED <<value, at, trace, side1, chains>>

Reversed(s) == [s EXCEPT !.p1 = s.p2, !.p2 = s.p1]

FittingForward(p) == {s \in unused : p = trace[s].p1}

\* The segments that fit at point p of the chain, one way round or the other.
Fitting(p) == {s \in unused : p \in {trace[s].p1, trace[s].p2}}

TurnNever(s, forward) == UNCHANGED trace

Turn(s, forward) == trace' = IF forward THEN trace ELSE [trace EXCEPT ![s] = Reversed(@)]

\* The chain grows from its end "2" by the first segment that fits there.
ExtendSide2 ==
  /\ phase = "side2"
  /\ LET p == trace[Last(side2)].p2 IN
     IF Fitting(p) = {}
     THEN /\ phase' = "side1"
          /\ side1' = <<Head(side2)>>
          /\ UNCHANGED <<trace, unused, side2>>
     ELSE LET s == Min(Fitting(p)) IN
          /\ Turn(s, trace[s].p1 = p)
          /\ unused' = unused \ {s}
          /\ side2' = Append(side2, s)
          /\ UNCHANGED <<phase, side1>>
  /\ UNCHANGED <<value, at, chains>>

AssembledTwice == Reverse(side1) \o side2

\* The chain's segments from end to end: the two sides share their first one.
Assembled == Reverse(Tail(side1)) \o side2

\* Then it grows from its end "1"; when nothing fits there either, it is complete.
ExtendSide1 ==
  /\ phase = "side1"
  /\ LET p == trace[Last(side1)].p1 IN
     IF Fitting(p) = {}
     THEN /\ chains' = Append(chains, Assembled)
          /\ side1' = <<>> /\ side2' = <<>>
          /\ phase' = IF unused = {} THEN "joined" ELSE "start"
          /\ UNCHANGED <<trace, unused>>
     ELSE LET s == Min(Fitting(p)) IN
          /\ Turn(s, trace[s].p2 = p)
          /\ unused' = unused \ {s}
          /\ side1' = Append(side1, s)
          /\ UNCHANGED <<phase, side2, chains>>
  /\ UNCHANGED <<value, at>>

IsoNext == DrawLine \/ extractIsoLine \/ StartChain \/ ExtendSide2 \/ ExtendSide1
-----------------------------------------------------------------------------
(* Properties.                                                              *)

Extracted == phase \in {"start", "side2", "side1", "joined"}

\* The edges of the grid, each from the first to the second of its points.
Edges == {e \in Cells \X Cells :
            \/ e[2] = <<e[1][1] + 1, e[1][2]>>
            \/ e[2] = <<e[1][1], e[1][2] + 1>>}

Crossed(rec, e) ==
  rec[e[1]] # NOTDEF /\ rec[e[2]] # NOTDEF /\ ((rec[e[1]] > value) # (rec[e[2]] > value))

\* The cells that have this edge and a value at all four points.
WholeCellsAt(rec, e) ==
  {c \in Cells : c[1] > 0 /\ c[2] > 0 /\ Whole4(rec, c) /\ {e[1], e[2]} \subseteq {Corner(c)[k] : k \in DOMAIN Corner(c)}}

\* A line never ends inside the data: each edge that it crosses is left by as many
\* segments as there are whole cells beside it, and no other edge has any.  The
\* sixteen cases of a cell, written separately, agree with those of its neighbours.
LinesAreUnbroken ==
  Extracted =>
    \A e \in Edges :
      Cardinality({s \in DOMAIN trace : e \in {trace[s].e1, trace[s].e2}}) =
        IF Crossed(grid["sst"], e) THEN Cardinality(WholeCellsAt(grid["sst"], e)) ELSE 0

\* "Which is end-to-end continuous and unidirectional" (IsoLine2.cpp:68): in a chain
\* each segment ends where the next begins, turned over as it may have been.  The chains
\* are what the constructor promises; RenderSeaTempIsoLines draws the bare segments of
\* getTrace() (ncdftexture.cpp:479).
ChainsAreContinuous ==
  \A n \in DOMAIN chains : \A k \in 1 .. Len(chains[n]) - 1 :
    trace[chains[n][k]].p2 = trace[chains[n][k + 1]].p1

\* Where a segment is: in the chains or in the two sides of the one that grows, which
\* share their first segment.
Lists == chains \o <<side2, IF side1 = <<>> THEN <<>> ELSE Tail(side1)>>

Occurrences(s) ==
  {p \in UNION {{n} \X DOMAIN Lists[n] : n \in DOMAIN Lists} : Lists[p[1]][p[2]] = s}

\* Joining neither loses a segment nor takes one twice, at any time.
EverySegmentOnce ==
  Extracted => \A s \in DOMAIN trace : Cardinality(Occurrences(s)) = IF s \in unused THEN 0 ELSE 1

Ends(c) == {trace[Head(c)].p1, trace[Last(c)].p2}

\* A chain is as long as it can be: no chain found later touches either end of it.
ChainsAreMaximal ==
  \A n \in DOMAIN chains : \A later \in n + 1 .. Len(chains) :
    \A k \in DOMAIN chains[later] :
      Ends(chains[n]) \cap {trace[chains[later][k]].p1, trace[chains[later][k]].p2} = {}
=============================================================================

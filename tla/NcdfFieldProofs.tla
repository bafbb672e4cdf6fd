-------------------------- MODULE NcdfFieldProofs --------------------------
(* The theorems about the finder and the grids hold of their composition:   *)
(* whatever is asked, read, built and drawn in between.                     *)
EXTENDS NcdfField, NcdfFinderProofs, NcdfGridProofs, FiniteSetTheorems, SequenceTheorems,
        WellFoundedInduction

\* Every step of the composition is a step of the grids or leaves them alone.
THEOREM FieldBuildsGrids == FieldSpec => GridSpec
<1>1. FieldInit => GridInit
  BY DEF FieldInit
<1>2. [FieldNext]_fieldVars => [GridNext]_gridVars
  BY DEF FieldNext, fieldVars, Find, Answered, Read, Build, Draw, GridNext
<1> QED BY <1>1, <1>2, PTL DEF FieldSpec, GridSpec

\* The variable that nc_get is given is the best match, each time that it asks.
THEOREM FieldPicksBest == FieldSpec => []PicksBest
<1>1. FieldInit => FinderInv
  BY NcFilesAssumption, InitFinderInv DEF FieldInit, FinderInit, IsFile
<1>2. FinderInv /\ [FieldNext]_fieldVars => FinderInv'
  <2> SUFFICES ASSUME FinderInv, [FieldNext]_fieldVars PROVE FinderInv'
    OBVIOUS
  <2>1. CASE Find
    BY <2>1, FinderInvStep DEF Find
  <2>2. CASE Answered
    <3>1. ncfile' = <<>> /\ rule' = "standard" /\ hint' = 1 /\ var' = 1 /\ varid' = NotFound
      BY <2>2 DEF Answered
    <3>2. IsFile'
      BY <3>1 DEF IsFile
    <3> QED BY <3>1, <3>2 DEF FinderInv, StandardSoFar
  <2>3. CASE UNCHANGED finderVars
    BY <2>3, FinderInvUnchanged
  <2> QED BY <2>1, <2>2, <2>3 DEF FieldNext, fieldVars, Read, Build, Draw
<1> QED BY <1>1, <1>2, FinderInvPicks, PTL DEF FieldSpec

\* From the file to the chart the grids are well typed, filled at once and locally, and
\* the current is whole.
THEOREM FieldGridsAreRight ==
  FieldSpec => [](GridTypeOK /\ FillIsSimultaneous /\ CurrentIsWhole /\ GapsAreBridgedLocally)
BY FieldBuildsGrids, GridsAreTyped, FillsAtOnce, CurrentStaysWhole, GapsStayLocal, PTL

\* What the chart reads between the points of the grids from a file is made up only
\* between values, exact at the points, and the same a turn further, from the north and
\* across the seam (ncdfdata.cpp:484).
THEOREM FieldInterpolates ==
  FieldSpec => [](/\ BetweenCorners /\ ExactAtNodes /\ SameAfterATurn
                  /\ OrientationFree /\ SeamIsNowhere)
BY FieldBuildsGrids, ValuesStayBetween, NodesAreExact, TurnsDoNotMatter,
   OrientationDoesNotMatter, NoSeam, PTL
-----------------------------------------------------------------------------
(* The line over a grid.                                                    *)

\* Where the line crosses the edges, and the segments between two such points.
Points == Int \X Int

Segment == [e1 : Cells \X Cells, e2 : Cells \X Cells, p1 : Points, p2 : Points]

Started == phase # "none"

Building == Range(side2) \cup Range(side1)

\* Segments of tr that follow each other, forwards or backwards.
Joined(tr, c) == \A k \in 1 .. Len(c) - 1 : tr[c[k]].p2 = tr[c[k + 1]].p1

Backed(tr, c) == \A k \in 1 .. Len(c) - 1 : tr[c[k]].p1 = tr[c[k + 1]].p2

PointsOf(tr, s) == {tr[s].p1, tr[s].p2}

PhaseInv ==
  /\ value \in Int
  /\ phase \in {"none", "extract", "start", "side2", "side1", "joined"}
  /\ phase = "none" => trace = <<>> /\ at = <<1, 1>>
  /\ Started => pass = "done" /\ "sst" \in DOMAIN grid /\ ni >= 2 /\ nj >= 2
  /\ phase = "extract" => at \in (1 .. nj - 1) \X (1 .. ni - 1)
  /\ ~Extracted => unused = {} /\ chains = <<>>
  /\ phase = "start" => unused # {}
  /\ phase = "joined" => unused = {}
  /\ phase \in {"side2", "side1"} <=> side2 # <<>>
  /\ phase = "side1" <=> side1 # <<>>

SegmentsInv ==
  /\ trace \in Seq(Segment)
  /\ unused \subseteq DOMAIN trace
  /\ side2 \in Seq(DOMAIN trace) /\ side1 \in Seq(DOMAIN trace)
  /\ chains \in Seq(Seq(DOMAIN trace)) /\ \A n \in DOMAIN chains : chains[n] # <<>>

\* No segment is left out, and none is in two places.
OnceInv ==
  /\ Extracted => DOMAIN trace = unused \cup Building \cup UNION {Range(chains[n]) : n \in DOMAIN chains}
  /\ unused \cap Building = {}
  /\ \A n \in DOMAIN chains : Range(chains[n]) \cap (unused \cup Building) = {}
  /\ \A n, m \in DOMAIN chains : n # m => Range(chains[n]) \cap Range(chains[m]) = {}
  /\ \A n \in DOMAIN chains : IsInjective(chains[n])
  /\ IsInjective(side2) /\ IsInjective(side1)
  /\ phase = "side1" => side1[1] = side2[1]
  /\ \A k \in DOMAIN side1, l \in DOMAIN side2 : side1[k] = side2[l] => k = 1 /\ l = 1

ContinuityInv ==
  Joined(trace, side2) /\ Backed(trace, side1) /\ \A n \in DOMAIN chains : Joined(trace, chains[n])

\* What fits nowhere now will never fit: unused only shrinks.
MaximalInv ==
  /\ ChainsAreMaximal
  /\ \A n \in DOMAIN chains : \A s \in unused \cup Building : Ends(chains[n]) \cap PointsOf(trace, s) = {}
  /\ phase = "side1" => \A s \in unused : trace[Last(side2)].p2 \notin PointsOf(trace, s)

\* The cells that extractIsoLine has been at.
Behind(c) == phase # "extract" \/ c[1] < at[1] \/ (c[1] = at[1] /\ c[2] < at[2])

CellsPast(e) == {c \in WholeCellsAt(grid["sst"], e) : Behind(c)}

SegmentsAt(tr, e) == {s \in DOMAIN tr : e \in {tr[s].e1, tr[s].e2}}

CutInv ==
  Started =>
    \A e \in Edges :
      Cardinality(SegmentsAt(trace, e)) =
        IF Crossed(grid["sst"], e) THEN Cardinality(CellsPast(e)) ELSE 0

IsoInv == PhaseInv /\ SegmentsInv /\ OnceInv /\ ContinuityInv /\ MaximalInv /\ CutInv

\* A set of positions has a smallest one.
LEMMA MinIsMember ==
  ASSUME NEW S \in SUBSET Nat, S # {}
  PROVE  Min(S) \in S
<1>1. PICK t \in S : \A y \in S : <<y, t>> \notin OpToRel(<, Nat)
  BY NatLessThanWellFounded, WFMin, Zenon
<1>2. ASSUME NEW y \in S PROVE t <= y
  <2>1. y \in Nat /\ t \in Nat
    OBVIOUS
  <2>2. ~(y < t)
    BY <1>1, <1>2, <2>1 DEF OpToRel
  <2> QED BY <2>1, <2>2
<1> QED BY <1>2 DEF Min

-----------------------------------------------------------------------------
(* One cell: the segments that extractIsoLine finds in it.                   *)

Names == {ab, ac, bd, cd}

CornerNames == {"a", "b", "c", "d"}

\* The line goes between the two ends of this edge.
Differ(above, name) == (name[1] \in above) # (name[2] \in above)

LEMMA NameParts ==
  /\ ab[1] = "a" /\ ab[2] = "b" /\ ac[1] = "a" /\ ac[2] = "c"
  /\ bd[1] = "b" /\ bd[2] = "d" /\ cd[1] = "c" /\ cd[2] = "d"
  /\ ab # ac /\ ab # bd /\ ab # cd /\ ac # bd /\ ac # cd /\ bd # cd
BY DEF ab, ac, bd, cd

\* The cases of extractIsoLine, by the corners.
LEMMA CornerPairs ==
  ASSUME NEW above \in SUBSET CornerNames
  PROVE  /\ above \in {{"d"}, {"a", "b", "c"}} <=>
              ("a" \in above <=> "b" \in above) /\ ("b" \in above <=> "c" \in above) /\ ("c" \in above <=> "d" \notin above)
         /\ above \in {{"b"}, {"a", "c", "d"}} <=>
              ("a" \in above <=> "c" \in above) /\ ("c" \in above <=> "d" \in above) /\ ("d" \in above <=> "b" \notin above)
         /\ above \in {{"a"}, {"b", "c", "d"}} <=>
              ("b" \in above <=> "c" \in above) /\ ("c" \in above <=> "d" \in above) /\ ("d" \in above <=> "a" \notin above)
         /\ above \in {{"c"}, {"a", "b", "d"}} <=>
              ("a" \in above <=> "b" \in above) /\ ("b" \in above <=> "d" \in above) /\ ("d" \in above <=> "c" \notin above)
         /\ above \in {{"c", "d"}, {"a", "b"}} <=>
              ("a" \in above <=> "b" \in above) /\ ("c" \in above <=> "d" \in above) /\ ("d" \in above <=> "a" \notin above)
         /\ above \in {{"b", "d"}, {"a", "c"}} <=>
              ("a" \in above <=> "c" \in above) /\ ("b" \in above <=> "d" \in above) /\ ("d" \in above <=> "a" \notin above)
         /\ above \in {{"b", "c"}, {"a", "d"}} <=>
              ("a" \in above <=> "d" \in above) /\ ("b" \in above <=> "c" \in above) /\ ("d" \in above <=> "b" \notin above)
         /\ above \in {{}, CornerNames} <=>
              ("a" \in above <=> "b" \in above) /\ ("b" \in above <=> "c" \in above) /\ ("c" \in above <=> "d" \in above)
BY DEF CornerNames

\* Each edge between a point above the value and one that is not is crossed once.
OneSegment(above) ==
  \E x, y \in Names :
    /\ SegmentsCut(above) = <<<<x, y>>>> /\ x # y
    /\ \A name \in Names : Differ(above, name) <=> name \in {x, y}

TwoSegments(above) ==
  \E x, y, z, w \in Names :
    /\ SegmentsCut(above) = <<<<x, y>>, <<z, w>>>>
    /\ x # y /\ z # w /\ {x, y} \cap {z, w} = {}
    /\ Names = {x, y, z, w} /\ \A name \in Names : Differ(above, name)

LEMMA CutKinds ==
  ASSUME NEW above \in SUBSET CornerNames
  PROVE  \/ SegmentsCut(above) = <<>> /\ \A name \in Names : ~Differ(above, name)
         \/ OneSegment(above)
         \/ TwoSegments(above)
<1> USE CornerPairs, NameParts DEF Differ
<1>0. ASSUME NEW x \in Names, NEW y \in Names, x # y, SegmentsCut(above) = <<<<x, y>>>>,
             \A name \in {ab, ac, bd, cd} : Differ(above, name) <=> name \in {x, y}
      PROVE  OneSegment(above)
  BY <1>0 DEF OneSegment, Names
<1>1. CASE above \in {{"d"}, {"a", "b", "c"}}
  <2>1. SegmentsCut(above) = <<<<cd, bd>>>>
    BY <1>1 DEF SegmentsCut
  <2>2. \A name \in {ab, ac, bd, cd} : Differ(above, name) <=> name \in {cd, bd}
    BY <1>1
  <2> QED BY <1>0, <2>1, <2>2 DEF Names
<1>2. CASE above \in {{"b"}, {"a", "c", "d"}}
  <2>1. SegmentsCut(above) = <<<<ab, bd>>>>
    BY <1>2 DEF SegmentsCut
  <2>2. \A name \in {ab, ac, bd, cd} : Differ(above, name) <=> name \in {ab, bd}
    BY <1>2
  <2> QED BY <1>0, <2>1, <2>2 DEF Names
<1>3. CASE above \in {{"a"}, {"b", "c", "d"}}
  <2>1. SegmentsCut(above) = <<<<ab, ac>>>>
    BY <1>3 DEF SegmentsCut
  <2>2. \A name \in {ab, ac, bd, cd} : Differ(above, name) <=> name \in {ab, ac}
    BY <1>3
  <2> QED BY <1>0, <2>1, <2>2 DEF Names
<1>4. CASE above \in {{"c"}, {"a", "b", "d"}}
  <2>1. SegmentsCut(above) = <<<<ac, cd>>>>
    BY <1>4 DEF SegmentsCut
  <2>2. \A name \in {ab, ac, bd, cd} : Differ(above, name) <=> name \in {ac, cd}
    BY <1>4
  <2> QED BY <1>0, <2>1, <2>2 DEF Names
<1>5. CASE above \in {{"c", "d"}, {"a", "b"}}
  <2>1. SegmentsCut(above) = <<<<ac, bd>>>>
    BY <1>5 DEF SegmentsCut
  <2>2. \A name \in {ab, ac, bd, cd} : Differ(above, name) <=> name \in {ac, bd}
    BY <1>5
  <2> QED BY <1>0, <2>1, <2>2 DEF Names
<1>6. CASE above \in {{"b", "d"}, {"a", "c"}}
  <2>1. SegmentsCut(above) = <<<<ab, cd>>>>
    BY <1>6 DEF SegmentsCut
  <2>2. \A name \in {ab, ac, bd, cd} : Differ(above, name) <=> name \in {ab, cd}
    BY <1>6
  <2> QED BY <1>0, <2>1, <2>2 DEF Names
<1>7. CASE above \in {{"b", "c"}, {"a", "d"}}
  <2>1. SegmentsCut(above) = SaddleCut(above)
    BY <1>7 DEF SegmentsCut
  <2>2. \A name \in {ab, ac, bd, cd} : Differ(above, name)
    BY <1>7
  <2>3. \/ SegmentsCut(above) = <<<<ab, bd>>, <<ac, cd>>>>
        \/ SegmentsCut(above) = <<<<ab, ac>>, <<bd, cd>>>>
    BY <2>1 DEF SaddleCut
  <2>4. {ab, bd} \cap {ac, cd} = {} /\ {ab, ac} \cap {bd, cd} = {}
        /\ Names = {ab, bd, ac, cd} /\ Names = {ab, ac, bd, cd}
    BY DEF Names
  <2> HIDE DEF Differ
  <2> QED BY <2>2, <2>3, <2>4 DEF TwoSegments, Names
<1>8. CASE above \in {{}, CornerNames}
  <2>1. SegmentsCut(above) = <<>>
    BY <1>8 DEF SegmentsCut, CornerNames
  <2>2. \A name \in {ab, ac, bd, cd} : ~Differ(above, name)
    BY <1>8 DEF CornerNames
  <2> QED BY <2>1, <2>2 DEF Names
<1> QED BY <1>1, <1>2, <1>3, <1>4, <1>5, <1>6, <1>7, <1>8

-----------------------------------------------------------------------------
(* The edges of a cell are edges of the grid.                               *)

InnerCells == (1 .. nj - 1) \X (1 .. ni - 1)

CornersOf(c) == {Corner(c)[k] : k \in DOMAIN Corner(c)}

LEMMA CellCorners ==
  ASSUME Sized, NEW c \in InnerCells
  PROVE  /\ c[1] \in 1 .. nj - 1 /\ c[2] \in 1 .. ni - 1 /\ c = <<c[1], c[2]>>
         /\ traduitCode(c, "a") = <<c[1] - 1, c[2] - 1>> /\ traduitCode(c, "b") = <<c[1] - 1, c[2]>>
         /\ traduitCode(c, "c") = <<c[1], c[2] - 1>> /\ traduitCode(c, "d") = <<c[1], c[2]>>
         /\ \A k \in CornerNames : Corner(c)[k] = traduitCode(c, k) /\ traduitCode(c, k) \in Cells
         /\ DOMAIN Corner(c) = CornerNames
<1>1. c[1] \in 1 .. nj - 1 /\ c[2] \in 1 .. ni - 1 /\ c = <<c[1], c[2]>>
  BY DEF InnerCells
<1>2. /\ traduitCode(c, "a") = <<c[1] - 1, c[2] - 1>> /\ traduitCode(c, "b") = <<c[1] - 1, c[2]>>
      /\ traduitCode(c, "c") = <<c[1], c[2] - 1>> /\ traduitCode(c, "d") = <<c[1], c[2]>>
  BY <1>1 DEF traduitCode
<1>3. /\ c[1] \in Rows(nj) /\ c[1] - 1 \in Rows(nj) /\ c[2] \in Cols(ni) /\ c[2] - 1 \in Cols(ni)
  BY <1>1 DEF Sized, Rows, Cols
<1>4. \A k \in CornerNames : traduitCode(c, k) \in Cells
  BY <1>2, <1>3 DEF CornerNames, Cells, CellsOf
<1> QED BY <1>1, <1>2, <1>4 DEF Corner, CornerNames

LEMMA EdgeEnds ==
  ASSUME Sized, NEW c \in InnerCells, NEW name \in Names
  PROVE  /\ name[1] \in CornerNames /\ name[2] \in CornerNames
         /\ Edge(c, name)[1] = Corner(c)[name[1]] /\ Edge(c, name)[2] = Corner(c)[name[2]]
         /\ Edge(c, name) \in Edges /\ Edge(c, name) \in Cells \X Cells
         /\ {Edge(c, name)[1], Edge(c, name)[2]} \subseteq CornersOf(c)
<1>1. name[1] \in CornerNames /\ name[2] \in CornerNames
  BY NameParts DEF Names, CornerNames
<1>2. Edge(c, name) = <<traduitCode(c, name[1]), traduitCode(c, name[2])>>
  BY DEF Edge
<1>3. /\ Edge(c, name)[1] = Corner(c)[name[1]] /\ Edge(c, name)[2] = Corner(c)[name[2]]
      /\ Edge(c, name) \in Cells \X Cells
  BY <1>1, <1>2, CellCorners
<1>4. \/ traduitCode(c, name[2]) = <<traduitCode(c, name[1])[1] + 1, traduitCode(c, name[1])[2]>>
      \/ traduitCode(c, name[2]) = <<traduitCode(c, name[1])[1], traduitCode(c, name[1])[2] + 1>>
  <2>1. c[1] \in Int /\ c[2] \in Int /\ c[1] - 1 + 1 = c[1] /\ c[2] - 1 + 1 = c[2]
    BY CellCorners
  <2>2. CASE name = ab
    BY <2>1, <2>2, CellCorners, NameParts
  <2>3. CASE name = ac
    BY <2>1, <2>3, CellCorners, NameParts
  <2>4. CASE name = bd
    BY <2>1, <2>4, CellCorners, NameParts
  <2>5. CASE name = cd
    BY <2>1, <2>5, CellCorners, NameParts
  <2> QED BY <2>2, <2>3, <2>4, <2>5 DEF Names
<1>5. Edge(c, name) \in Edges
  BY <1>2, <1>3, <1>4 DEF Edges
<1>6. {Edge(c, name)[1], Edge(c, name)[2]} \subseteq CornersOf(c)
  BY <1>1, <1>3, CellCorners DEF CornersOf
<1> QED BY <1>1, <1>3, <1>5, <1>6

\* A cell has four edges, no two the same, and no other edge of the grid joins two of
\* its corners.
LEMMA FourEdges ==
  ASSUME Sized, NEW c \in InnerCells
  PROVE  /\ \A n, m \in Names : Edge(c, n) = Edge(c, m) => n = m
         /\ \A e \in Edges : {e[1], e[2]} \subseteq CornersOf(c) => \E n \in Names : e = Edge(c, n)
<1>0. c[1] \in Int /\ c[2] \in Int
  BY CellCorners
<1>1. /\ Edge(c, ab) = <<<<c[1] - 1, c[2] - 1>>, <<c[1] - 1, c[2]>>>>
      /\ Edge(c, ac) = <<<<c[1] - 1, c[2] - 1>>, <<c[1], c[2] - 1>>>>
      /\ Edge(c, bd) = <<<<c[1] - 1, c[2]>>, <<c[1], c[2]>>>>
      /\ Edge(c, cd) = <<<<c[1], c[2] - 1>>, <<c[1], c[2]>>>>
  BY CellCorners, NameParts DEF Edge
<1>2. \A n, m \in Names : Edge(c, n) = Edge(c, m) => n = m
  BY <1>0, <1>1 DEF Names
<1>3. ASSUME NEW e \in Edges, {e[1], e[2]} \subseteq CornersOf(c)
      PROVE  \E n \in Names : e = Edge(c, n)
  <2>1. /\ e = <<e[1], e[2]>> /\ e[1] = <<e[1][1], e[1][2]>> /\ e[1][1] \in Int /\ e[1][2] \in Int
        /\ \/ e[2] = <<e[1][1] + 1, e[1][2]>>
           \/ e[2] = <<e[1][1], e[1][2] + 1>>
    BY DEF Edges, Cells, CellsOf, Rows, Cols
  <2>2. \A p \in {e[1], e[2]} : p \in {<<c[1] - 1, c[2] - 1>>, <<c[1] - 1, c[2]>>, <<c[1], c[2] - 1>>, <<c[1], c[2]>>}
    <3>1. CornersOf(c) = {<<c[1] - 1, c[2] - 1>>, <<c[1] - 1, c[2]>>, <<c[1], c[2] - 1>>, <<c[1], c[2]>>}
      BY CellCorners DEF CornersOf, CornerNames
    <3> QED BY <1>3, <3>1
  <2>3. CASE e[2] = <<e[1][1] + 1, e[1][2]>>
    <3>1. e[1][1] = c[1] - 1 /\ e[1][2] \in {c[2] - 1, c[2]}
      BY <1>0, <2>1, <2>2, <2>3
    <3>2. e = Edge(c, ac) \/ e = Edge(c, bd)
      BY <1>0, <1>1, <2>1, <2>3, <3>1
    <3> QED BY <3>2 DEF Names
  <2>4. CASE e[2] = <<e[1][1], e[1][2] + 1>>
    <3>1. e[1][2] = c[2] - 1 /\ e[1][1] \in {c[1] - 1, c[1]}
      BY <1>0, <2>1, <2>2, <2>4
    <3>2. e = Edge(c, ab) \/ e = Edge(c, cd)
      BY <1>0, <1>1, <2>1, <2>4, <3>1
    <3> QED BY <3>2 DEF Names
  <2> QED BY <2>1, <2>3, <2>4
<1> QED BY <1>2, <1>3

-----------------------------------------------------------------------------
(* The segments of a cell.                                                  *)

LEMMA CutIsSeq ==
  ASSUME NEW above \in SUBSET CornerNames
  PROVE  /\ SegmentsCut(above) \in Seq(Names \X Names)
         /\ \A n \in DOMAIN SegmentsCut(above) : \A k \in {1, 2} : Differ(above, SegmentsCut(above)[n][k])
<1>1. CASE SegmentsCut(above) = <<>>
  BY <1>1
<1>2. CASE OneSegment(above)
  <2>1. PICK x, y \in Names :
          SegmentsCut(above) = <<<<x, y>>>> /\ \A name \in Names : Differ(above, name) <=> name \in {x, y}
    BY <1>2 DEF OneSegment
  <2> QED BY <2>1
<1>3. CASE TwoSegments(above)
  <2>1. PICK x, y, z, w \in Names :
          SegmentsCut(above) = <<<<x, y>>, <<z, w>>>> /\ \A name \in Names : Differ(above, name)
    BY <1>3 DEF TwoSegments
  <2> QED BY <2>1
<1> QED BY <1>1, <1>2, <1>3, CutKinds

\* An edge that the line crosses is in one segment, no other is in any.
LEMMA CutOnce ==
  ASSUME NEW above \in SUBSET CornerNames, NEW name \in Names
  PROVE  LET cut == SegmentsCut(above) IN
         IF Differ(above, name)
         THEN \E n \in DOMAIN cut : \A m \in DOMAIN cut : name \in {cut[m][1], cut[m][2]} <=> m = n
         ELSE \A n \in DOMAIN cut : name \notin {cut[n][1], cut[n][2]}
<1>1. CASE SegmentsCut(above) = <<>> /\ \A nm \in Names : ~Differ(above, nm)
  BY <1>1
<1>2. CASE OneSegment(above)
  <2>1. PICK x, y \in Names :
          SegmentsCut(above) = <<<<x, y>>>> /\ \A nm \in Names : Differ(above, nm) <=> nm \in {x, y}
    BY <1>2 DEF OneSegment
  <2> QED BY <2>1
<1>3. CASE TwoSegments(above)
  <2>1. PICK x, y, z, w \in Names :
          /\ SegmentsCut(above) = <<<<x, y>>, <<z, w>>>> /\ {x, y} \cap {z, w} = {}
          /\ Names = {x, y, z, w} /\ \A nm \in Names : Differ(above, nm)
    BY <1>3 DEF TwoSegments
  <2> DEFINE cut == SegmentsCut(above)
  <2>2. DOMAIN cut = {1, 2} /\ {cut[1][1], cut[1][2]} = {x, y} /\ {cut[2][1], cut[2][2]} = {z, w}
    BY <2>1
  <2> HIDE DEF cut
  <2>3. CASE name \in {x, y}
    <3>1. \A m \in DOMAIN cut : name \in {cut[m][1], cut[m][2]} <=> m = 1
      BY <2>1, <2>2, <2>3
    <3> QED BY <2>1, <2>2, <3>1 DEF cut
  <2>4. CASE name \in {z, w}
    <3>1. \A m \in DOMAIN cut : name \in {cut[m][1], cut[m][2]} <=> m = 2
      BY <2>1, <2>2, <2>4
    <3> QED BY <2>1, <2>2, <3>1 DEF cut
  <2> QED BY <2>1, <2>3, <2>4
<1> QED BY <1>1, <1>2, <1>3, CutKinds

LEMMA AboveIsSet == ASSUME NEW rec, NEW c \in InnerCells, Sized PROVE Above(rec, c) \in SUBSET CornerNames
BY CellCorners DEF Above

LEMMA SharesAreInt ==
  ASSUME NEW pa \in Int, NEW pb \in Int, pa # pb, value \in Int
  PROVE  ShareOf(pa, pb) \in Int
<1>1. Exact \in Int
  BY LineAssumption
<1>2. Exact * (value - pa) \in Int /\ Exact * (pa - value) \in Int /\ pb - pa \in Int /\ pa - pb \in Int
  BY <1>1
<1>3. CASE pb > pa
  BY <1>2, <1>3 DEF ShareOf
<1>4. CASE ~(pb > pa)
  <2>1. pa - pb > 0
    BY <1>4
  <2> QED BY <1>2, <1>4, <2>1 DEF ShareOf
<1> QED BY <1>3, <1>4

LEMMA CrossingsAreInt ==
  ASSUME NEW rec, NEW e \in Cells \X Cells, Sized, value \in Int,
         rec[e[1]] \in Int, rec[e[2]] \in Int, rec[e[1]] # rec[e[2]]
  PROVE  Intersection(rec, e) \in Points
<1> DEFINE share == ShareOf(rec[e[1]], rec[e[2]])
<1>1. share \in Int /\ Exact \in Int
  BY SharesAreInt, LineAssumption
<1>2. e[1][1] \in Int /\ e[1][2] \in Int /\ e[2][1] \in Int /\ e[2][2] \in Int
  BY DEF Cells, CellsOf, Rows, Cols
<1> HIDE DEF share
<1>3. Exact * e[1][1] + (e[2][1] - e[1][1]) * share \in Int /\ Exact * e[1][2] + (e[2][2] - e[1][2]) * share \in Int
  BY <1>1, <1>2
<1> QED BY <1>3 DEF Intersection, Points, share

LEMMA WholeCell ==
  ASSUME NEW rec \in [Cells -> Values], Sized, NEW c \in InnerCells, NEW name \in Names
  PROVE  /\ Whole4(rec, c) => rec[Edge(c, name)[1]] \in Int /\ rec[Edge(c, name)[2]] \in Int
         /\ Differ(Above(rec, c), name) <=>
              ((rec[Edge(c, name)[1]] > value) # (rec[Edge(c, name)[2]] > value))
<1>1. /\ name[1] \in CornerNames /\ name[2] \in CornerNames
      /\ Edge(c, name)[1] = Corner(c)[name[1]] /\ Edge(c, name)[2] = Corner(c)[name[2]]
  BY EdgeEnds
<1>2. \A k \in CornerNames : Corner(c)[k] \in Cells /\ (k \in Above(rec, c) <=> rec[Corner(c)[k]] > value)
  BY CellCorners DEF Above
<1>3. Whole4(rec, c) => \A k \in CornerNames : rec[Corner(c)[k]] \in Int
  BY <1>2, CellCorners DEF Whole4, Values
<1> QED BY <1>1, <1>2, <1>3 DEF Differ

LEMMA SegmentsAreTyped ==
  ASSUME NEW rec \in [Cells -> Values], Sized, NEW c \in InnerCells, value \in Int
  PROVE  SegmentsOf(rec, c) \in Seq(Segment)
<1>1. CASE ~Whole4(rec, c)
  BY <1>1 DEF SegmentsOf
<1>2. CASE Whole4(rec, c)
  <2> DEFINE cut == SegmentsCut(Above(rec, c))
  <2>1. /\ cut \in Seq(Names \X Names)
        /\ \A n \in DOMAIN cut : \A k \in {1, 2} : Differ(Above(rec, c), cut[n][k])
    BY AboveIsSet, CutIsSeq
  <2>2. SegmentsOf(rec, c) = [n \in DOMAIN cut |-> SegmentOf(rec, c, cut[n])]
    BY <1>2 DEF SegmentsOf
  <2> HIDE DEF cut
  <2>3. ASSUME NEW name \in Names, Differ(Above(rec, c), name)
        PROVE  Edge(c, name) \in Cells \X Cells /\ Intersection(rec, Edge(c, name)) \in Points
    <3>1. /\ rec[Edge(c, name)[1]] \in Int /\ rec[Edge(c, name)[2]] \in Int
          /\ rec[Edge(c, name)[1]] # rec[Edge(c, name)[2]]
      BY <1>2, <2>3, WholeCell
    <3> QED BY <3>1, EdgeEnds, CrossingsAreInt
  <2>4. ASSUME NEW n \in DOMAIN cut PROVE SegmentOf(rec, c, cut[n]) \in Segment
    <3>1. cut[n][1] \in Names /\ cut[n][2] \in Names
      BY <2>1, <2>4, ElementOfSeq
    <3>2. \A k \in {1, 2} : Edge(c, cut[n][k]) \in Cells \X Cells /\ Intersection(rec, Edge(c, cut[n][k])) \in Points
      BY <2>1, <2>3, <2>4, <3>1
    <3> QED BY <3>2 DEF SegmentOf, Segment
  <2>5. DOMAIN cut = 1 .. Len(cut) /\ Len(cut) \in Nat
    BY <2>1, LenProperties
  <2>6. SegmentsOf(rec, c) \in [1 .. Len(cut) -> Segment]
    BY <2>2, <2>4, <2>5
  <2> QED BY <2>5, <2>6, IsASeq
<1> QED BY <1>1, <1>2

\* The cell's share in the lines: one segment at each crossed edge of a whole cell.
Crosses(segment, e) == e \in {segment.e1, segment.e2}

LEMMA CellCrosses ==
  ASSUME NEW rec \in [Cells -> Values], Sized, NEW c \in InnerCells, NEW e \in Edges
  PROVE  LET new == SegmentsOf(rec, c) IN
         IF Crossed(rec, e) /\ c \in WholeCellsAt(rec, e)
         THEN \E n \in DOMAIN new : \A m \in DOMAIN new : Crosses(new[m], e) <=> m = n
         ELSE \A n \in DOMAIN new : ~Crosses(new[n], e)
<1> DEFINE new == SegmentsOf(rec, c)
           cut == SegmentsCut(Above(rec, c))
<1>1. CASE ~Whole4(rec, c)
  BY <1>1 DEF SegmentsOf, WholeCellsAt
<1>2. CASE Whole4(rec, c)
  <2>1. /\ cut \in Seq(Names \X Names)
        /\ \A n \in DOMAIN cut : \A k \in {1, 2} : Differ(Above(rec, c), cut[n][k])
    BY AboveIsSet, CutIsSeq
  <2>2. new = [n \in DOMAIN cut |-> SegmentOf(rec, c, cut[n])]
    BY <1>2 DEF SegmentsOf
  <2>3. \A n \in DOMAIN cut : cut[n][1] \in Names /\ cut[n][2] \in Names
    BY <2>1, ElementOfSeq
  <2>4. \A n \in DOMAIN cut : new[n].e1 = Edge(c, cut[n][1]) /\ new[n].e2 = Edge(c, cut[n][2])
    BY <2>2 DEF SegmentOf
  <2>5. DOMAIN new = DOMAIN cut
    BY <2>2
  <2>6. c \in Cells /\ c[1] > 0 /\ c[2] > 0
    BY CellCorners DEF CornerNames
  <2> HIDE DEF new, cut
  <2>7. CASE {e[1], e[2]} \subseteq CornersOf(c)
    <3>1. PICK name \in Names : e = Edge(c, name)
      BY <2>7, FourEdges
    <3>2. \A n \in DOMAIN cut : Crosses(new[n], e) <=> name \in {cut[n][1], cut[n][2]}
      BY <2>3, <2>4, <3>1, FourEdges DEF Crosses
    <3>3. c \in WholeCellsAt(rec, e)
      BY <1>2, <2>6, <2>7 DEF WholeCellsAt, CornersOf
    <3>4. Crossed(rec, e) <=> Differ(Above(rec, c), name)
      <4>1. rec[e[1]] \in Int /\ rec[e[2]] \in Int
        BY <1>2, <3>1, WholeCell
      <4> QED BY <3>1, <4>1, WholeCell, NotdefAssumption DEF Crossed
    <3>5. IF Differ(Above(rec, c), name)
          THEN \E n \in DOMAIN cut : \A m \in DOMAIN cut : name \in {cut[m][1], cut[m][2]} <=> m = n
          ELSE \A n \in DOMAIN cut : name \notin {cut[n][1], cut[n][2]}
      BY AboveIsSet, CutOnce DEF cut
    <3> QED BY <2>5, <3>2, <3>3, <3>4, <3>5 DEF new
  <2>8. CASE ~({e[1], e[2]} \subseteq CornersOf(c))
    <3>1. \A n \in DOMAIN cut : ~Crosses(new[n], e)
      BY <2>3, <2>4, <2>8, EdgeEnds DEF Crosses
    <3>2. c \notin WholeCellsAt(rec, e)
      BY <2>8 DEF WholeCellsAt, CornersOf
    <3> QED BY <2>5, <3>1, <3>2 DEF new
  <2> QED BY <2>7, <2>8
<1> QED BY <1>1, <1>2

-----------------------------------------------------------------------------
(* Chains, when one more segment is joined to them.                         *)

\* Segment s of tr may have been turned over in tr2, the others are the same.
TurnedAt(tr, tr2, s) ==
  /\ DOMAIN tr2 = DOMAIN tr
  /\ \A t \in DOMAIN tr :
       /\ t # s => tr2[t] = tr[t]
       /\ tr2[t].e1 = tr[t].e1 /\ tr2[t].e2 = tr[t].e2
       /\ PointsOf(tr2, t) = PointsOf(tr, t)

LEMMA TurnIsTurning ==
  ASSUME trace \in Seq(Segment), NEW s \in DOMAIN trace, NEW forward \in BOOLEAN, Turn(s, forward)
  PROVE  /\ trace' \in Seq(Segment) /\ TurnedAt(trace, trace', s)
         /\ forward => trace'[s] = trace[s]
         /\ ~forward => trace'[s].p1 = trace[s].p2 /\ trace'[s].p2 = trace[s].p1
<1>1. trace[s] \in Segment
  BY ElementOfSeq
<1>2. CASE forward
  BY <1>2 DEF Turn, TurnedAt
<1>3. CASE ~forward
  <2> DEFINE r == Reversed(trace[s])
  <2>1. r \in Segment /\ r.e1 = trace[s].e1 /\ r.e2 = trace[s].e2 /\ r.p1 = trace[s].p2 /\ r.p2 = trace[s].p1
    BY <1>1 DEF Reversed, Segment
  <2>2. trace' = [trace EXCEPT ![s] = r]
    BY <1>3 DEF Turn
  <2> HIDE DEF r
  <2>3. trace' \in Seq(Segment) /\ DOMAIN trace' = DOMAIN trace /\ trace'[s] = r
        /\ \A t \in DOMAIN trace : t # s => trace'[t] = trace[t]
    <3>1. DOMAIN trace = 1 .. Len(trace)
      OBVIOUS
    <3> QED BY <2>1, <2>2, <3>1, ExceptSeq
  <2>4. PointsOf(trace', s) = PointsOf(trace, s)
    BY <2>1, <2>3 DEF PointsOf
  <2>5. \A t \in DOMAIN trace : t # s => PointsOf(trace', t) = PointsOf(trace, t)
    BY <2>3 DEF PointsOf
  <2>6. TurnedAt(trace, trace', s)
    BY <2>1, <2>3, <2>4, <2>5 DEF TurnedAt
  <2> QED BY <1>3, <2>1, <2>3, <2>6
<1> QED BY <1>2, <1>3

LEMMA ChainsStay ==
  ASSUME NEW tr, NEW tr2, NEW s, TurnedAt(tr, tr2, s), NEW c \in Seq(DOMAIN tr), s \notin Range(c)
  PROVE  /\ Joined(tr, c) => Joined(tr2, c)
         /\ Backed(tr, c) => Backed(tr2, c)
         /\ \A k \in DOMAIN c : tr2[c[k]] = tr[c[k]]
<1>1. DOMAIN c = 1 .. Len(c) /\ Len(c) \in Nat /\ \A k \in DOMAIN c : c[k] \in DOMAIN tr
  BY ElementOfSeq
<1>2. \A k \in DOMAIN c : tr2[c[k]] = tr[c[k]]
  BY <1>1 DEF TurnedAt, Range
<1>3. \A k \in 1 .. Len(c) - 1 : k \in DOMAIN c /\ k + 1 \in DOMAIN c
  BY <1>1
<1> QED BY <1>2, <1>3 DEF Joined, Backed

LEMMA ChainGrows ==
  ASSUME NEW tr, NEW tr2, NEW s \in DOMAIN tr, TurnedAt(tr, tr2, s),
         NEW c \in Seq(DOMAIN tr), c # <<>>, s \notin Range(c)
  PROVE  /\ Append(c, s) \in Seq(DOMAIN tr) /\ Append(c, s) # <<>> /\ Append(c, s)[1] = c[1]
         /\ Range(Append(c, s)) = Range(c) \cup {s} /\ Last(Append(c, s)) = s
         /\ DOMAIN Append(c, s) = DOMAIN c \cup {Len(c) + 1} /\ Append(c, s)[Len(c) + 1] = s
         /\ \A k \in DOMAIN c : Append(c, s)[k] = c[k]
         /\ IsInjective(c) => IsInjective(Append(c, s))
         /\ Joined(tr, c) /\ tr2[s].p1 = tr[Last(c)].p2 => Joined(tr2, Append(c, s))
         /\ Backed(tr, c) /\ tr2[s].p2 = tr[Last(c)].p1 => Backed(tr2, Append(c, s))
<1> DEFINE d == Append(c, s)
           n == Len(c)
<1>1. DOMAIN c = 1 .. n /\ n \in Nat /\ n >= 1
  BY EmptySeq
<1>2. d \in Seq(DOMAIN tr) /\ d # <<>> /\ Len(d) = n + 1 /\ DOMAIN d = 1 .. n + 1
      /\ d[n + 1] = s /\ \A k \in 1 .. n : d[k] = c[k]
  BY <1>1, AppendProperties
<1> HIDE DEF d
<1>3. Range(d) = Range(c) \cup {s}
  BY <1>1, <1>2 DEF Range
<1>4. Last(d) = s /\ d[1] = c[1] /\ DOMAIN d = DOMAIN c \cup {n + 1}
  BY <1>1, <1>2 DEF Last
<1>5. IsInjective(c) => IsInjective(d)
  BY <1>1, <1>2 DEF IsInjective, Range
<1>6. \A k \in DOMAIN c : tr2[c[k]] = tr[c[k]]
  BY ChainsStay
<1>7. Last(c) = c[n]
  BY DEF Last
<1>8. ASSUME NEW k \in 1 .. Len(d) - 1
      PROVE  \/ k \in 1 .. Len(c) - 1 /\ d[k] = c[k] /\ d[k + 1] = c[k + 1]
                /\ tr2[c[k]] = tr[c[k]] /\ tr2[c[k + 1]] = tr[c[k + 1]]
             \/ k = n /\ d[k] = c[n] /\ d[k + 1] = s /\ tr2[c[n]] = tr[c[n]]
  <2>1. k \in 1 .. n /\ k + 1 \in 1 .. n + 1
    BY <1>1, <1>2
  <2>2. CASE k = n
    BY <1>1, <1>2, <1>6, <2>1, <2>2
  <2>3. CASE k # n
    <3>1. k \in 1 .. n - 1 /\ k + 1 \in 1 .. n
      <4> HIDE DEF n
      <4> QED BY <1>1, <2>1, <2>3
    <3> QED BY <1>1, <1>2, <1>6, <2>1, <3>1
  <2> QED BY <2>2, <2>3
<1>9. Joined(tr, c) /\ tr2[s].p1 = tr[Last(c)].p2 => Joined(tr2, d)
  BY <1>7, <1>8 DEF Joined
<1>10. Backed(tr, c) /\ tr2[s].p2 = tr[Last(c)].p1 => Backed(tr2, d)
  BY <1>7, <1>8 DEF Backed
<1> QED BY <1>1, <1>2, <1>3, <1>4, <1>5, <1>9, <1>10 DEF d

\* The two sides of a chain in one: where its segments come from.
BothSides(c1, c2) == Reverse(Tail(c1)) \o c2

LEMMA BothSidesParts ==
  ASSUME NEW D, NEW c1 \in Seq(D), NEW c2 \in Seq(D), c1 # <<>>, c2 # <<>>
  PROVE  /\ BothSides(c1, c2) \in Seq(D)
         /\ Len(c1) \in Nat \ {0} /\ Len(c2) \in Nat \ {0}
         /\ DOMAIN c1 = 1 .. Len(c1) /\ DOMAIN c2 = 1 .. Len(c2)
         /\ Len(BothSides(c1, c2)) = Len(c1) - 1 + Len(c2)
         /\ DOMAIN BothSides(c1, c2) = 1 .. Len(c1) - 1 + Len(c2)
         /\ \A k \in 1 .. Len(c1) - 1 : BothSides(c1, c2)[k] = c1[Len(c1) + 1 - k]
         /\ \A k \in 1 .. Len(c2) : BothSides(c1, c2)[Len(c1) - 1 + k] = c2[k]
<1> DEFINE n1 == Len(c1)
           n2 == Len(c2)
           t == Tail(c1)
           u == Reverse(t)
<1>1. n1 \in Nat /\ n1 >= 1 /\ n2 \in Nat /\ n2 >= 1 /\ DOMAIN c1 = 1 .. n1 /\ DOMAIN c2 = 1 .. n2
  BY EmptySeq
<1>2. t \in Seq(D) /\ Len(t) = n1 - 1 /\ \A k \in 1 .. n1 - 1 : t[k] = c1[k + 1]
  BY <1>1, HeadTailProperties
<1> HIDE DEF t
<1>3. u = [k \in 1 .. n1 - 1 |-> t[n1 - 1 - k + 1]]
  BY <1>2 DEF Reverse
<1>4. ASSUME NEW k \in 1 .. n1 - 1
      PROVE  n1 - 1 - k + 1 \in 1 .. n1 - 1 /\ t[n1 - 1 - k + 1] = c1[n1 + 1 - k] /\ t[n1 - 1 - k + 1] \in D
  <2>1. n1 - 1 - k + 1 \in 1 .. n1 - 1 /\ (n1 - 1 - k + 1) + 1 = n1 + 1 - k
    BY <1>1
  <2> QED BY <1>2, <2>1, ElementOfSeq
<1>5. u \in [1 .. n1 - 1 -> D] /\ n1 - 1 \in Nat
  BY <1>1, <1>3, <1>4
<1> HIDE DEF u
<1>6. u \in Seq(D) /\ Len(u) = n1 - 1
  BY <1>5, IsASeq, LenProperties
<1>7. u \o c2 \in Seq(D) /\ Len(u \o c2) = n1 - 1 + n2
      /\ \A k \in 1 .. n1 - 1 + n2 : (u \o c2)[k] = IF k <= n1 - 1 THEN u[k] ELSE c2[k - (n1 - 1)]
  <2> HIDE DEF n1, n2
  <2>1. Len(u) = n1 - 1 /\ Len(c2) = n2 /\ u \in Seq(D)
    BY <1>6 DEF n2
  <2>2. /\ u \o c2 \in Seq(D)
        /\ Len(u \o c2) = Len(u) + Len(c2)
        /\ \A k \in 1 .. Len(u) + Len(c2) :
             (u \o c2)[k] = IF k <= Len(u) THEN u[k] ELSE c2[k - Len(u)]
    BY <2>1, ConcatProperties, Zenon
  <2> QED BY <2>1, <2>2, Zenon
<1>8. DOMAIN (u \o c2) = 1 .. n1 - 1 + n2
  BY <1>7, LenProperties
<1>9. ASSUME NEW k \in 1 .. n1 - 1 PROVE (u \o c2)[k] = c1[n1 + 1 - k]
  <2>1. k \in 1 .. n1 - 1 + n2 /\ k <= n1 - 1
    BY <1>1
  <2> QED BY <1>3, <1>4, <1>7, <2>1
<1>10. ASSUME NEW k \in 1 .. n2 PROVE (u \o c2)[n1 - 1 + k] = c2[k]
  <2>1. n1 - 1 + k \in 1 .. n1 - 1 + n2 /\ ~(n1 - 1 + k <= n1 - 1) /\ (n1 - 1 + k) - (n1 - 1) = k
    BY <1>1
  <2> QED BY <1>7, <2>1
<1> QED BY <1>1, <1>7, <1>8, <1>9, <1>10 DEF BothSides, u, t

LEMMA BothSidesChain ==
  ASSUME NEW tr, NEW c1 \in Seq(DOMAIN tr), NEW c2 \in Seq(DOMAIN tr), c1 # <<>>, c2 # <<>>,
         c1[1] = c2[1], IsInjective(c1), IsInjective(c2),
         \A k \in DOMAIN c1, l \in DOMAIN c2 : c1[k] = c2[l] => k = 1 /\ l = 1,
         Backed(tr, c1), Joined(tr, c2)
  PROVE  LET a == BothSides(c1, c2) IN
         /\ a \in Seq(DOMAIN tr) /\ a # <<>> /\ Head(a) = Last(c1) /\ Last(a) = Last(c2)
         /\ Range(a) = Range(c1) \cup Range(c2)
         /\ IsInjective(a)
         /\ Joined(tr, a)
<1> DEFINE a == BothSides(c1, c2)
           n1 == Len(c1)
           n2 == Len(c2)
<1>1. /\ a \in Seq(DOMAIN tr)
      /\ n1 \in Nat \ {0} /\ n2 \in Nat \ {0} /\ DOMAIN c1 = 1 .. n1 /\ DOMAIN c2 = 1 .. n2
      /\ Len(a) = n1 - 1 + n2 /\ DOMAIN a = 1 .. n1 - 1 + n2
      /\ \A k \in 1 .. n1 - 1 : a[k] = c1[n1 + 1 - k]
      /\ \A k \in 1 .. n2 : a[n1 - 1 + k] = c2[k]
  <2>1. /\ BothSides(c1, c2) \in Seq(DOMAIN tr)
        /\ Len(c1) \in Nat \ {0} /\ Len(c2) \in Nat \ {0}
        /\ DOMAIN c1 = 1 .. Len(c1) /\ DOMAIN c2 = 1 .. Len(c2)
        /\ Len(BothSides(c1, c2)) = Len(c1) - 1 + Len(c2)
        /\ DOMAIN BothSides(c1, c2) = 1 .. Len(c1) - 1 + Len(c2)
    BY BothSidesParts
  <2>2. \A k \in 1 .. Len(c1) - 1 : BothSides(c1, c2)[k] = c1[Len(c1) + 1 - k]
    BY BothSidesParts
  <2>3. \A k \in 1 .. Len(c2) : BothSides(c1, c2)[Len(c1) - 1 + k] = c2[k]
    BY BothSidesParts
  <2> QED BY <2>1, <2>2, <2>3
<1>l. Last(c1) = c1[n1] /\ Last(c2) = c2[n2] /\ Last(a) = a[Len(a)]
  BY DEF Last
<1>b. /\ \A k \in 1 .. n1 - 1 : tr[c1[k]].p1 = tr[c1[k + 1]].p2
      /\ \A k \in 1 .. n2 - 1 : tr[c2[k]].p2 = tr[c2[k + 1]].p1
  BY DEF Joined, Backed
<1> HIDE DEF a, n1, n2
\* Each place is on one of the two sides.
<1>2. ASSUME NEW k \in DOMAIN a
      PROVE  \/ k \in 1 .. n1 - 1 /\ n1 + 1 - k \in DOMAIN c1 /\ n1 + 1 - k > 1 /\ a[k] = c1[n1 + 1 - k]
             \/ k - (n1 - 1) \in DOMAIN c2 /\ k >= n1 /\ a[k] = c2[k - (n1 - 1)]
  <2>1. CASE k <= n1 - 1
    <3>1. k \in 1 .. n1 - 1 /\ n1 + 1 - k \in 1 .. n1 /\ n1 + 1 - k > 1
      BY <1>1, <2>1
    <3> QED BY <1>1, <3>1
  <2>2. CASE k > n1 - 1
    <3>1. k - (n1 - 1) \in 1 .. n2 /\ k >= n1 /\ n1 - 1 + (k - (n1 - 1)) = k
      BY <1>1, <2>2
    <3>2. a[n1 - 1 + (k - (n1 - 1))] = c2[k - (n1 - 1)]
      BY <1>1, <3>1
    <3> QED BY <1>1, <3>1, <3>2
  <2> QED BY <1>1, <2>1, <2>2
<1>3. Range(a) = Range(c1) \cup Range(c2)
  <2>1. ASSUME NEW x \in Range(a) PROVE x \in Range(c1) \cup Range(c2)
    BY <1>2, <2>1 DEF Range
  <2>2. ASSUME NEW k \in 1 .. n2 PROVE c2[k] \in Range(a)
    <3>1. n1 - 1 + k \in DOMAIN a
      BY <1>1
    <3> QED BY <1>1, <3>1 DEF Range
  <2>3. ASSUME NEW k \in 1 .. n1 PROVE c1[k] \in Range(a)
    <3>1. CASE k = 1
      <4>1. 1 \in 1 .. n2
        BY <1>1
      <4> QED BY <2>2, <3>1, <4>1
    <3>2. CASE k # 1
      <4>1. n1 + 1 - k \in 1 .. n1 - 1 /\ n1 + 1 - (n1 + 1 - k) = k /\ n1 + 1 - k \in DOMAIN a
        BY <1>1, <3>2
      <4>2. a[n1 + 1 - k] = c1[n1 + 1 - (n1 + 1 - k)]
        BY <1>1, <4>1
      <4> QED BY <4>1, <4>2 DEF Range
    <3> QED BY <3>1, <3>2
  <2>4. Range(c1) = {c1[k] : k \in 1 .. n1} /\ Range(c2) = {c2[k] : k \in 1 .. n2}
    BY <1>1 DEF Range
  <2>5. Range(c1) \subseteq Range(a) /\ Range(c2) \subseteq Range(a)
    BY <2>2, <2>3, <2>4
  <2> QED BY <2>1, <2>5
<1>4. IsInjective(a)
  <2> SUFFICES ASSUME NEW k \in DOMAIN a, NEW m \in DOMAIN a, a[k] = a[m] PROVE k = m
    BY DEF IsInjective
  <2>0. n1 \in Int /\ k \in Int /\ m \in Int
    BY <1>1
  <2>1. \/ k \in 1 .. n1 - 1 /\ n1 + 1 - k \in DOMAIN c1 /\ n1 + 1 - k > 1 /\ a[k] = c1[n1 + 1 - k]
        \/ k - (n1 - 1) \in DOMAIN c2 /\ k >= n1 /\ a[k] = c2[k - (n1 - 1)]
    BY <1>2
  <2>2. \/ m \in 1 .. n1 - 1 /\ n1 + 1 - m \in DOMAIN c1 /\ n1 + 1 - m > 1 /\ a[m] = c1[n1 + 1 - m]
        \/ m - (n1 - 1) \in DOMAIN c2 /\ m >= n1 /\ a[m] = c2[m - (n1 - 1)]
    BY <1>2
  <2>3. \A p, q \in DOMAIN c1 : c1[p] = c1[q] => p = q
    BY DEF IsInjective
  <2>4. \A p, q \in DOMAIN c2 : c2[p] = c2[q] => p = q
    BY DEF IsInjective
  <2> QED BY <2>0, <2>1, <2>2, <2>3, <2>4
<1>5. Joined(tr, a)
  <2> SUFFICES ASSUME NEW k \in 1 .. Len(a) - 1 PROVE tr[a[k]].p2 = tr[a[k + 1]].p1
    BY DEF Joined
  <2>0. n1 \in Nat \ {0} /\ n2 \in Nat \ {0} /\ k \in 1 .. n1 - 1 + n2 - 1
    BY <1>1
  <2>1. CASE k < n1 - 1
    <3>1. k \in 1 .. n1 - 1 /\ k + 1 \in 1 .. n1 - 1 /\ n1 - k \in 1 .. n1 - 1
          /\ (n1 - k) + 1 = n1 + 1 - k /\ n1 + 1 - (k + 1) = n1 - k
      BY <2>0, <2>1
    <3>2. a[k] = c1[(n1 - k) + 1] /\ a[k + 1] = c1[n1 - k]
      BY <1>1, <3>1
    <3> QED BY <1>b, <3>1, <3>2
  <2>2. CASE k = n1 - 1
    <3>1. k \in 1 .. n1 - 1 /\ n1 + 1 - k = 1 + 1 /\ n1 - 1 + 1 = k + 1 /\ 1 \in 1 .. n2 /\ 1 \in 1 .. n1 - 1
      BY <2>0, <2>2
    <3>2. a[k] = c1[1 + 1] /\ a[k + 1] = c2[1]
      <4>1. a[k] = c1[n1 + 1 - k] /\ a[n1 - 1 + 1] = c2[1]
        BY <1>1, <3>1
      <4> QED BY <3>1, <4>1
    <3> QED BY <1>b, <3>1, <3>2
  <2>3. CASE k > n1 - 1
    <3> DEFINE l == k - (n1 - 1)
    <3>1. l \in 1 .. n2 - 1 /\ l \in 1 .. n2 /\ l + 1 \in 1 .. n2 /\ n1 - 1 + l = k /\ n1 - 1 + (l + 1) = k + 1
      BY <2>0, <2>3
    <3> HIDE DEF l
    <3>2. a[k] = c2[l] /\ a[k + 1] = c2[l + 1]
      <4>1. a[n1 - 1 + l] = c2[l] /\ a[n1 - 1 + (l + 1)] = c2[l + 1]
        BY <1>1, <3>1
      <4> QED BY <3>1, <4>1
    <3> QED BY <1>b, <3>1, <3>2
  <2> QED BY <2>0, <2>1, <2>2, <2>3
<1>6. a # <<>> /\ Head(a) = Last(c1) /\ Last(a) = Last(c2)
  <2>1. Len(a) >= 1 /\ 1 \in DOMAIN a /\ n2 \in 1 .. n2 /\ Len(a) = n1 - 1 + n2
    BY <1>1
  <2>2. Last(a) = Last(c2)
    BY <1>1, <1>l, <2>1
  <2>3. a # <<>> /\ Head(a) = a[1]
    BY <1>1, <2>1, HeadTailProperties, EmptySeq
  <2>4. a[1] = c1[n1]
    <3>1. CASE n1 = 1
      <4>1. 1 \in 1 .. n2 /\ n1 - 1 + 1 = 1
        BY <1>1, <3>1
      <4> QED BY <1>1, <3>1, <4>1
    <3>2. CASE n1 # 1
      <4>1. 1 \in 1 .. n1 - 1 /\ n1 + 1 - 1 = n1
        BY <1>1, <3>2
      <4> QED BY <1>1, <4>1
    <3> QED BY <3>1, <3>2
  <2> QED BY <1>l, <2>2, <2>3, <2>4
<1> QED BY <1>1, <1>3, <1>4, <1>5, <1>6 DEF a

-----------------------------------------------------------------------------
(* Counting: extractIsoLine goes from cell to cell.                         *)

LEMMA GridKept ==
  ASSUME UNCHANGED gridVars
  PROVE  /\ ni' = ni /\ nj' = nj /\ Cells' = Cells /\ Edges' = Edges /\ InnerCells' = InnerCells
         /\ grid' = grid /\ pass' = pass /\ Segment' = Segment
         /\ \A rec, e : WholeCellsAt(rec, e)' = WholeCellsAt(rec, e)
         /\ value' = value => \A rec, e : Crossed(rec, e)' = Crossed(rec, e)
<1>1. ni' = ni /\ nj' = nj /\ Cells' = Cells /\ grid' = grid /\ pass' = pass
  BY DEF gridVars, ni, nj, Cells
<1>2. Edges' = Edges /\ InnerCells' = InnerCells /\ Segment' = Segment
  BY <1>1 DEF Edges, InnerCells, Segment, Points
<1>3. ASSUME NEW rec, NEW e PROVE WholeCellsAt(rec, e)' = WholeCellsAt(rec, e)
  BY <1>1 DEF WholeCellsAt, Whole4, Corner, traduitCode
<1>4. ASSUME value' = value, NEW rec, NEW e PROVE Crossed(rec, e)' = Crossed(rec, e)
  BY <1>4 DEF Crossed
<1> QED BY <1>1, <1>2, <1>3, <1>4

LEMMA Ready ==
  ASSUME GridInv, PhaseInv, Started
  PROVE  Sized /\ grid["sst"] \in [Cells -> Values]
<1>1. pass = "done" /\ "sst" \in DOMAIN grid
  BY DEF PhaseInv
<1>2. Sized
  BY <1>1, SizedRead DEF GridInv
<1>3. GridTypeOK
  BY GridInvTypeOK
<1> QED BY <1>1, <1>2, <1>3 DEF GridTypeOK

LEMMA CellsAreFinite ==
  ASSUME Sized
  PROVE  IsFiniteSet(Cells) /\ \A e : IsFiniteSet(CellsPast(e))
<1>1. IsFiniteSet(Rows(nj)) /\ IsFiniteSet(Cols(ni))
  BY FS_Interval DEF Sized, Rows, Cols
<1>2. IsFiniteSet(Cells)
  BY <1>1, FS_Product DEF Cells, CellsOf
<1>3. ASSUME NEW e PROVE IsFiniteSet(CellsPast(e))
  <2>1. CellsPast(e) \in SUBSET Cells
    BY DEF CellsPast, WholeCellsAt
  <2> QED BY <1>2, <2>1, FS_Subset
<1> QED BY <1>2, <1>3

LEMMA SegmentsAreFinite ==
  ASSUME NEW tr \in Seq(Segment), NEW e
  PROVE  IsFiniteSet(SegmentsAt(tr, e))
<1>1. DOMAIN tr = 1 .. Len(tr) /\ Len(tr) \in Nat
  OBVIOUS
<1>2. IsFiniteSet(1 .. Len(tr))
  BY <1>1, FS_Interval
<1>3. SegmentsAt(tr, e) \in SUBSET (1 .. Len(tr))
  BY <1>1 DEF SegmentsAt
<1> QED BY <1>2, <1>3, FS_Subset

\* The segments of one more cell: none of them is at the edge, or one is.
LEMMA CountAppended ==
  ASSUME NEW s \in Seq(Segment), NEW t \in Seq(Segment), NEW e
  PROVE  /\ s \o t \in Seq(Segment)
         /\ (\A n \in DOMAIN t : ~Crosses(t[n], e)) =>
              Cardinality(SegmentsAt(s \o t, e)) = Cardinality(SegmentsAt(s, e))
         /\ (\E n \in DOMAIN t : \A m \in DOMAIN t : Crosses(t[m], e) <=> m = n) =>
              Cardinality(SegmentsAt(s \o t, e)) = Cardinality(SegmentsAt(s, e)) + 1
<1> DEFINE u == s \o t
           a == Len(s)
           b == Len(t)
<1>1. a \in Nat /\ b \in Nat /\ DOMAIN s = 1 .. a /\ DOMAIN t = 1 .. b
  OBVIOUS
<1>2. /\ u \in Seq(Segment) /\ Len(u) = a + b
      /\ \A k \in 1 .. a + b : u[k] = IF k <= a THEN s[k] ELSE t[k - a]
  BY ConcatProperties
<1>3. DOMAIN u = 1 .. a + b
  BY <1>2, LenProperties
<1> HIDE DEF u, a, b
<1>4. \A k \in 1 .. a : k \in DOMAIN u /\ u[k] = s[k]
  BY <1>1, <1>2, <1>3
<1>5. ASSUME NEW k \in 1 .. b PROVE a + k \in DOMAIN u /\ u[a + k] = t[k] /\ a + k \notin 1 .. a
  <2>1. a + k \in 1 .. a + b /\ ~(a + k <= a) /\ (a + k) - a = k
    BY <1>1
  <2> QED BY <1>1, <1>2, <1>3, <2>1
<1>6. \A k \in DOMAIN u : k \in 1 .. a \/ \E l \in 1 .. b : k = a + l
  <2> SUFFICES ASSUME NEW k \in DOMAIN u, k \notin 1 .. a PROVE \E l \in 1 .. b : k = a + l
    OBVIOUS
  <2>1. k - a \in 1 .. b /\ k = a + (k - a)
    BY <1>1, <1>3
  <2> QED BY <2>1
<1>7. ASSUME \A n \in DOMAIN t : ~Crosses(t[n], e)
      PROVE  SegmentsAt(u, e) = SegmentsAt(s, e)
  <2>1. \A k \in DOMAIN u : Crosses(u[k], e) <=> k \in 1 .. a /\ Crosses(s[k], e)
    BY <1>1, <1>4, <1>5, <1>6, <1>7
  <2>2. \A k \in 1 .. a : k \in DOMAIN u
    BY <1>4
  <2> QED BY <1>1, <2>1, <2>2 DEF SegmentsAt, Crosses
<1>8. ASSUME NEW n \in DOMAIN t, \A m \in DOMAIN t : Crosses(t[m], e) <=> m = n
      PROVE  SegmentsAt(u, e) = SegmentsAt(s, e) \cup {a + n} /\ a + n \notin SegmentsAt(s, e)
  <2>1. a + n \in DOMAIN u /\ a + n \notin 1 .. a /\ Crosses(u[a + n], e)
    BY <1>1, <1>5, <1>8
  <2>2. \A k \in DOMAIN u : Crosses(u[k], e) => k = a + n \/ (k \in 1 .. a /\ Crosses(s[k], e))
    <3> SUFFICES ASSUME NEW k \in DOMAIN u, Crosses(u[k], e), k # a + n PROVE k \in 1 .. a /\ Crosses(s[k], e)
      OBVIOUS
    <3>1. CASE k \in 1 .. a
      BY <1>4, <3>1
    <3>2. ASSUME NEW l \in 1 .. b, k = a + l PROVE FALSE
      <4>1. u[k] = t[l] /\ l \in DOMAIN t
        BY <1>1, <1>5, <3>2
      <4> QED BY <1>8, <3>2, <4>1
    <3> QED BY <1>6, <3>1, <3>2
  <2>3. \A k \in 1 .. a : k \in DOMAIN u /\ (Crosses(s[k], e) => Crosses(u[k], e))
    BY <1>4
  <2> QED BY <1>1, <2>1, <2>2, <2>3 DEF SegmentsAt, Crosses
<1>9. IsFiniteSet(SegmentsAt(s, e))
  BY SegmentsAreFinite
<1> QED BY <1>2, <1>7, <1>8, <1>9, FS_AddElement DEF u

\* The cells in the order in which they are looked at.
LEMMA NextCell ==
  ASSUME Sized, PhaseInv, phase = "extract", extractIsoLine, UNCHANGED gridVars
  PROVE  /\ at \in InnerCells /\ ~Behind(at)
         /\ \A c \in InnerCells : Behind(c)' <=> Behind(c) \/ c = at
         /\ phase' = "extract" => at' \in InnerCells
         /\ phase' \in {"extract", "joined", "start"}
<1> USE DEF Behind, InnerCells
<1>1. at \in InnerCells /\ at[1] \in 1 .. nj - 1 /\ at[2] \in 1 .. ni - 1 /\ at = <<at[1], at[2]>>
  BY DEF PhaseInv
<1>2. \A c \in InnerCells : c[1] \in 1 .. nj - 1 /\ c[2] \in 1 .. ni - 1 /\ c = <<c[1], c[2]>>
  OBVIOUS
<1>3. ni \in Int /\ nj \in Int
  BY DEF Sized
<1>4. CASE at[2] + 1 < ni
  <2>1. at' = <<at[1], at[2] + 1>> /\ phase' = "extract"
    BY <1>4 DEF extractIsoLine
  <2> QED BY <1>1, <1>2, <1>3, <1>4, <2>1
<1>5. CASE ~(at[2] + 1 < ni) /\ at[1] + 1 < nj
  <2>1. at' = <<at[1] + 1, 1>> /\ phase' = "extract"
    BY <1>5 DEF extractIsoLine
  <2> QED BY <1>1, <1>2, <1>3, <1>5, <2>1
<1>6. CASE ~(at[2] + 1 < ni) /\ ~(at[1] + 1 < nj)
  <2>1. phase' \in {"joined", "start"}
    BY <1>6 DEF extractIsoLine
  <2> QED BY <1>1, <1>2, <1>3, <1>6, <2>1
<1> QED BY <1>4, <1>5, <1>6

LEMMA ExtractCuts ==
  ASSUME GridInv, PhaseInv, SegmentsInv, CutInv, phase = "extract", extractIsoLine, UNCHANGED gridVars
  PROVE  CutInv' /\ trace' \in Seq(Segment)
<1> DEFINE rec == grid["sst"]
           new == SegmentsOf(rec, at)
<1>1. Sized /\ rec \in [Cells -> Values] /\ value \in Int /\ trace \in Seq(Segment) /\ Started
  BY Ready DEF Started, PhaseInv, SegmentsInv
<1>2. at \in InnerCells /\ ~Behind(at) /\ \A c \in InnerCells : Behind(c)' <=> Behind(c) \/ c = at
  BY <1>1, NextCell
<1>3. trace' = trace \o new /\ value' = value
  BY DEF extractIsoLine
<1>4. new \in Seq(Segment)
  BY <1>1, <1>2, SegmentsAreTyped
<1>5. /\ grid' = grid /\ Edges' = Edges /\ \A e : WholeCellsAt(rec, e)' = WholeCellsAt(rec, e)
      /\ \A e : Crossed(rec, e)' = Crossed(rec, e)
  BY <1>3, GridKept
<1> HIDE DEF new
<1>6. ASSUME NEW e \in Edges
      PROVE  Cardinality(SegmentsAt(trace', e)) =
               IF Crossed(rec, e) THEN Cardinality(CellsPast(e)') ELSE 0
  <2>1. WholeCellsAt(rec, e) \subseteq InnerCells
    BY <1>1 DEF WholeCellsAt, InnerCells, Cells, CellsOf, Rows, Cols, Sized
  <2>2. CellsPast(e)' = {c \in WholeCellsAt(rec, e) : Behind(c) \/ c = at}
    BY <1>2, <1>5, <2>1 DEF CellsPast
  <2>3. Cardinality(SegmentsAt(trace, e)) = IF Crossed(rec, e) THEN Cardinality(CellsPast(e)) ELSE 0
    BY <1>1 DEF CutInv
  <2>4. IF Crossed(rec, e) /\ at \in WholeCellsAt(rec, e)
        THEN \E n \in DOMAIN new : \A m \in DOMAIN new : Crosses(new[m], e) <=> m = n
        ELSE \A n \in DOMAIN new : ~Crosses(new[n], e)
    BY <1>1, <1>2, CellCrosses DEF new
  <2>5. CASE Crossed(rec, e) /\ at \in WholeCellsAt(rec, e)
    <3>1. Cardinality(SegmentsAt(trace', e)) = Cardinality(SegmentsAt(trace, e)) + 1
      BY <1>1, <1>3, <1>4, <2>4, <2>5, CountAppended
    <3>2. CellsPast(e)' = CellsPast(e) \cup {at} /\ at \notin CellsPast(e)
      BY <1>2, <2>2, <2>5 DEF CellsPast
    <3>3. Cardinality(CellsPast(e)') = Cardinality(CellsPast(e)) + 1
      BY <1>1, <3>2, CellsAreFinite, FS_AddElement
    <3> QED BY <2>3, <2>5, <3>1, <3>3
  <2>6. CASE ~(Crossed(rec, e) /\ at \in WholeCellsAt(rec, e))
    <3>1. Cardinality(SegmentsAt(trace', e)) = Cardinality(SegmentsAt(trace, e))
      BY <1>1, <1>3, <1>4, <2>4, <2>6, CountAppended
    <3>2. Crossed(rec, e) => CellsPast(e)' = CellsPast(e)
      BY <2>2, <2>6 DEF CellsPast
    <3> QED BY <2>3, <3>1, <3>2
  <2> QED BY <2>5, <2>6
<1>7. CutInv'
  BY <1>5, <1>6 DEF CutInv
<1> QED BY <1>1, <1>3, <1>4, <1>7, CountAppended

-----------------------------------------------------------------------------
(* The steps of the line.                                                   *)

EndsOf(tr, c) == {tr[Head(c)].p1, tr[Last(c)].p2}

\* The places of a sequence that is not empty.
LEMMA PlacesOfSeq ==
  ASSUME NEW D, NEW c \in Seq(D)
  PROVE  /\ DOMAIN c = 1 .. Len(c) /\ Len(c) \in Nat /\ \A k \in DOMAIN c : c[k] \in D /\ c[k] \in Range(c)
         /\ Range(c) \subseteq D
         /\ c # <<>> => /\ 1 \in DOMAIN c /\ Len(c) \in DOMAIN c /\ Head(c) = c[1] /\ Last(c) = c[Len(c)]
                        /\ Head(c) \in Range(c) /\ Last(c) \in Range(c)
<1>1. DOMAIN c = 1 .. Len(c) /\ Len(c) \in Nat /\ \A k \in DOMAIN c : c[k] \in D
  BY ElementOfSeq
<1>2. Range(c) \subseteq D /\ \A k \in DOMAIN c : c[k] \in Range(c)
  BY <1>1 DEF Range
<1>3. ASSUME c # <<>> PROVE 1 \in DOMAIN c /\ Len(c) \in DOMAIN c /\ Head(c) = c[1]
  BY <1>1, <1>3, EmptySeq, HeadTailProperties
<1>4. c # <<>> => Last(c) = c[Len(c)]
  BY DEF Last
<1>5. c # <<>> => Head(c) \in Range(c) /\ Last(c) \in Range(c)
  BY <1>2, <1>3, <1>4
<1> QED BY <1>1, <1>2, <1>3, <1>4, <1>5

\* Turning a segment that no chain has yet leaves the edges that are cut.
LEMMA CutKept ==
  ASSUME CutInv, NEW s, TurnedAt(trace, trace', s), UNCHANGED <<gridVars, value>>,
         Started, phase # "extract", phase' # "extract"
  PROVE  CutInv'
<1>1. /\ grid' = grid /\ Edges' = Edges /\ \A e : WholeCellsAt(grid["sst"], e)' = WholeCellsAt(grid["sst"], e)
      /\ \A e : Crossed(grid["sst"], e)' = Crossed(grid["sst"], e)
  BY GridKept
<1>2. \A e : CellsPast(e)' = CellsPast(e)
  BY <1>1 DEF CellsPast, Behind
<1>3. \A e : SegmentsAt(trace', e) = SegmentsAt(trace, e)
  BY DEF SegmentsAt, TurnedAt
<1>4. ASSUME NEW e \in Edges
      PROVE  Cardinality(SegmentsAt(trace', e)) =
               IF Crossed(grid["sst"], e) THEN Cardinality(CellsPast(e)') ELSE 0
  BY <1>2, <1>3 DEF CutInv
<1> QED BY <1>1, <1>4 DEF CutInv

\* The chains that are complete stay as they are.
LEMMA ChainsKept ==
  ASSUME SegmentsInv, ContinuityInv, MaximalInv, NEW s, TurnedAt(trace, trace', s),
         \A n \in DOMAIN chains : s \notin Range(chains[n]),
         chains' = chains, unused' \cup Building' \subseteq unused \cup Building
  PROVE  /\ \A n \in DOMAIN chains : Joined(trace', chains[n])
         /\ \A n \in DOMAIN chains : EndsOf(trace', chains[n]) = EndsOf(trace, chains[n])
         /\ ChainsAreMaximal'
         /\ \A n \in DOMAIN chains : \A t \in unused' \cup Building' :
              EndsOf(trace', chains[n]) \cap PointsOf(trace', t) = {}
<1>1. \A n \in DOMAIN chains : chains[n] \in Seq(DOMAIN trace) /\ chains[n] # <<>> /\ Joined(trace, chains[n])
  BY ElementOfSeq DEF SegmentsInv, ContinuityInv
<1>2. \A n \in DOMAIN chains : Joined(trace', chains[n])
  BY <1>1, ChainsStay
<1>3. ASSUME NEW n \in DOMAIN chains PROVE EndsOf(trace', chains[n]) = EndsOf(trace, chains[n])
  <2>1. chains[n] \in Seq(DOMAIN trace) /\ chains[n] # <<>>
    BY <1>1
  <2>2. Head(chains[n]) \in Range(chains[n]) /\ Last(chains[n]) \in Range(chains[n]) /\ Range(chains[n]) \subseteq DOMAIN trace
    <3>1. Range(chains[n]) \subseteq DOMAIN trace
      BY <2>1, PlacesOfSeq
    <3>2. Head(chains[n]) \in Range(chains[n]) /\ Last(chains[n]) \in Range(chains[n])
      BY <2>1, PlacesOfSeq
    <3> QED BY <3>1, <3>2
  <2> QED BY <2>2 DEF EndsOf, TurnedAt
<1>4. unused \cup Building \subseteq DOMAIN trace
  <2>1. unused \subseteq DOMAIN trace /\ side2 \in Seq(DOMAIN trace) /\ side1 \in Seq(DOMAIN trace)
    BY DEF SegmentsInv
  <2>2. Range(side2) \subseteq DOMAIN trace /\ Range(side1) \subseteq DOMAIN trace
    BY <2>1, PlacesOfSeq
  <2> QED BY <2>1, <2>2 DEF Building
<1>5. \A t \in DOMAIN trace : PointsOf(trace', t) = PointsOf(trace, t)
  BY DEF TurnedAt
<1>6. \A n \in DOMAIN chains : \A t \in unused' \cup Building' : EndsOf(trace, chains[n]) \cap PointsOf(trace, t) = {}
  BY DEF MaximalInv, Ends, EndsOf
<1>7. ASSUME NEW n \in DOMAIN chains, NEW later \in n + 1 .. Len(chains), NEW k \in DOMAIN chains[later]
      PROVE  EndsOf(trace', chains[n]) \cap PointsOf(trace', chains[later][k]) = {}
  <2>1. later \in DOMAIN chains /\ DOMAIN chains = 1 .. Len(chains)
    BY DEF SegmentsInv
  <2>2. chains[later][k] \in DOMAIN trace
    BY <1>1, <2>1, ElementOfSeq
  <2>3. EndsOf(trace, chains[n]) \cap PointsOf(trace, chains[later][k]) = {}
    BY DEF MaximalInv, ChainsAreMaximal, Ends, EndsOf, PointsOf
  <2> QED BY <1>3, <1>5, <2>2, <2>3
<1>8. ChainsAreMaximal'
  BY <1>7 DEF ChainsAreMaximal, Ends, EndsOf, PointsOf
<1> QED BY <1>2, <1>3, <1>4, <1>5, <1>6, <1>8

LEMMA DrawLineInv ==
  ASSUME GridInv, IsoInv, DrawLine, UNCHANGED gridVars
  PROVE  IsoInv'
<1>1. /\ phase = "none" /\ pass = "done" /\ "sst" \in DOMAIN grid /\ ni >= 2 /\ nj >= 2
      /\ phase' = "extract" /\ UNCHANGED <<at, trace, unused, side2, side1, chains>>
      /\ value' \in Int
  BY DEF DrawLine
<1>2. /\ trace = <<>> /\ at = <<1, 1>> /\ unused = {} /\ chains = <<>> /\ side2 = <<>> /\ side1 = <<>>
  BY <1>1 DEF IsoInv, PhaseInv, Extracted
<1>3. /\ ni' = ni /\ nj' = nj /\ grid' = grid /\ pass' = pass /\ Segment' = Segment /\ Edges' = Edges
      /\ \A rec, e : WholeCellsAt(rec, e)' = WholeCellsAt(rec, e)
  BY GridKept
<1>4. PhaseInv'
  <2>1. ni \in Int /\ nj \in Int
    BY <1>1, SizedRead DEF GridInv, Sized
  <2>2. at' \in (1 .. nj - 1) \X (1 .. ni - 1)
    BY <1>1, <1>2, <2>1
  <2> QED BY <1>1, <1>2, <1>3, <2>2 DEF PhaseInv, Extracted, Started
<1>5. SegmentsInv' /\ ContinuityInv' /\ OnceInv'
  BY <1>1, <1>2, <1>3 DEF IsoInv, SegmentsInv, ContinuityInv, OnceInv, Joined, Backed, Extracted, Building, Range, IsInjective
<1>6. MaximalInv'
  BY <1>1, <1>2 DEF MaximalInv, ChainsAreMaximal
<1>7. CutInv'
  <2>1. ASSUME NEW e PROVE SegmentsAt(trace', e) = {} /\ CellsPast(e)' = {}
    <3>1. SegmentsAt(trace', e) = {}
      BY <1>1, <1>2 DEF SegmentsAt
    <3>2. \A c \in WholeCellsAt(grid["sst"], e)' : c[1] \in Int /\ c[2] \in Int /\ c[1] > 0 /\ c[2] > 0
      BY <1>3 DEF WholeCellsAt, Cells, CellsOf, Rows, Cols
    <3>3. \A c \in WholeCellsAt(grid["sst"], e)' : ~(Behind(c)')
      BY <1>1, <1>2, <3>2 DEF Behind
    <3> QED BY <3>1, <3>3 DEF CellsPast
  <2>2. Cardinality({}) = 0
    BY FS_EmptySet
  <2> QED BY <2>1, <2>2 DEF CutInv
<1> QED BY <1>4, <1>5, <1>6, <1>7 DEF IsoInv

LEMMA ExtractInv ==
  ASSUME GridInv, IsoInv, extractIsoLine, UNCHANGED gridVars
  PROVE  IsoInv'
<1>1. /\ phase = "extract" /\ Started /\ UNCHANGED <<value, side2, side1, chains>>
      /\ phase' \in {"extract", "start", "joined"}
      /\ phase' = "extract" => unused' = unused
      /\ phase' # "extract" => unused' = DOMAIN trace'
      /\ phase' = "joined" => trace' = <<>>
      /\ phase' = "start" => trace' # <<>>
  BY DEF extractIsoLine, Started
<1>2. /\ unused = {} /\ chains = <<>> /\ side2 = <<>> /\ side1 = <<>> /\ value \in Int
      /\ pass = "done" /\ "sst" \in DOMAIN grid /\ ni >= 2 /\ nj >= 2
  BY <1>1 DEF IsoInv, PhaseInv, Extracted
<1>3. /\ ni' = ni /\ nj' = nj /\ grid' = grid /\ pass' = pass /\ Segment' = Segment
  BY GridKept
<1>4. CutInv' /\ trace' \in Seq(Segment)
  BY <1>1, ExtractCuts DEF IsoInv
<1>5. phase' = "extract" => at' \in (1 .. nj - 1) \X (1 .. ni - 1)
  BY <1>1, Ready, NextCell DEF IsoInv, InnerCells
<1>6. PhaseInv'
  <2>1. phase' = "start" => unused' # {}
    BY <1>1, <1>4, PlacesOfSeq
  <2>2. phase' = "joined" => unused' = {}
    BY <1>1, EmptySeq
  <2> QED BY <1>1, <1>2, <1>3, <1>5, <2>1, <2>2 DEF PhaseInv, Extracted, Started
<1>7. SegmentsInv'
  BY <1>1, <1>2, <1>3, <1>4 DEF SegmentsInv
<1>8. ContinuityInv' /\ OnceInv'
  <2>1. side2' = <<>> /\ side1' = <<>> /\ chains' = <<>>
    BY <1>1, <1>2
  <2>2. Building' = {} /\ IsInjective(side2') /\ IsInjective(side1') /\ DOMAIN chains' = {}
    BY <2>1 DEF Building, Range, IsInjective
  <2>3. Joined(trace', side2') /\ Backed(trace', side1')
    BY <2>1 DEF Joined, Backed
  <2>4. Extracted' => DOMAIN trace' = unused'
    BY <1>1 DEF Extracted
  <2> QED BY <1>1, <2>1, <2>2, <2>3, <2>4 DEF ContinuityInv, OnceInv
<1>9. MaximalInv'
  BY <1>1, <1>2 DEF MaximalInv, ChainsAreMaximal
<1> QED BY <1>4, <1>6, <1>7, <1>8, <1>9 DEF IsoInv

LEMMA StartChainInv ==
  ASSUME GridInv, IsoInv, StartChain, UNCHANGED gridVars
  PROVE  IsoInv'
<1> DEFINE m == Min(unused)
<1>1. /\ phase = "start" /\ phase' = "side2" /\ side2' = <<m>> /\ unused' = unused \ {m}
      /\ UNCHANGED <<value, at, trace, side1, chains>>
  BY DEF StartChain
<1>2. /\ unused # {} /\ side2 = <<>> /\ side1 = <<>> /\ Started /\ Extracted
  BY <1>1 DEF IsoInv, PhaseInv, Extracted, Started
<1>3. m \in unused /\ m \in DOMAIN trace
  <2>1. unused \in SUBSET Nat /\ unused \subseteq DOMAIN trace
    BY DEF IsoInv, SegmentsInv
  <2> QED BY <1>2, <2>1, MinIsMember
<1> HIDE DEF m
<1>4. /\ ni' = ni /\ nj' = nj /\ grid' = grid /\ pass' = pass /\ Segment' = Segment
  BY GridKept
<1>5. Building = {} /\ Building' = {m} /\ unused' \cup Building' = unused \cup Building
  BY <1>1, <1>2, <1>3 DEF Building, Range
<1>6. PhaseInv'
  BY <1>1, <1>2, <1>4 DEF IsoInv, PhaseInv, Extracted, Started
<1>7. SegmentsInv'
  BY <1>1, <1>3, <1>4 DEF IsoInv, SegmentsInv
<1>8. OnceInv'
  <2>1. IsInjective(side2') /\ IsInjective(side1')
    BY <1>1, <1>2 DEF IsInjective
  <2>2. \A k \in DOMAIN side1', l \in DOMAIN side2' : side1'[k] = side2'[l] => k = 1 /\ l = 1
    BY <1>1, <1>2
  <2>3. \A n \in DOMAIN chains : Range(chains[n]) \cap (unused' \cup Building') = {}
    BY <1>5 DEF IsoInv, OnceInv
  <2> QED BY <1>1, <1>2, <1>3, <1>5, <2>1, <2>2, <2>3 DEF IsoInv, OnceInv, Extracted
<1>9. ContinuityInv'
  BY <1>1, <1>2 DEF IsoInv, ContinuityInv, Joined, Backed
<1>10. TurnedAt(trace, trace', 0) /\ \A n \in DOMAIN chains : 0 \notin Range(chains[n])
  <2>1. TurnedAt(trace, trace', 0)
    BY <1>1 DEF TurnedAt
  <2>2. \A n \in DOMAIN chains : chains[n] \in Seq(DOMAIN trace) /\ 0 \notin DOMAIN trace
    BY ElementOfSeq DEF IsoInv, SegmentsInv
  <2> QED BY <2>1, <2>2, PlacesOfSeq
<1>11. MaximalInv'
  BY <1>1, <1>5, <1>10, ChainsKept DEF IsoInv, MaximalInv, Ends, EndsOf
<1>12. CutInv'
  BY <1>1, <1>2, <1>10, CutKept DEF IsoInv
<1> QED BY <1>6, <1>7, <1>8, <1>9, <1>11, <1>12 DEF IsoInv

\* What fits at a point is one of the segments that are left, turned so that it fits.
LEMMA FirstFitting ==
  ASSUME IsoInv, NEW p, Fitting(p) # {}
  PROVE  LET s == Min(Fitting(p)) IN
         /\ s \in unused /\ s \in DOMAIN trace /\ p \in {trace[s].p1, trace[s].p2}
         /\ s \notin Building /\ s \notin Range(side2) /\ s \notin Range(side1)
         /\ \A n \in DOMAIN chains : s \notin Range(chains[n])
<1>1. Fitting(p) \in SUBSET Nat /\ unused \subseteq DOMAIN trace
  BY DEF IsoInv, SegmentsInv, Fitting
<1>2. Min(Fitting(p)) \in Fitting(p)
  BY <1>1, MinIsMember
<1> QED BY <1>1, <1>2 DEF Fitting, IsoInv, OnceInv, Building

LEMMA ExtendSide2Inv ==
  ASSUME GridInv, IsoInv, ExtendSide2, UNCHANGED gridVars
  PROVE  IsoInv'
<1> DEFINE p == trace[Last(side2)].p2
<1>1. phase = "side2" /\ UNCHANGED <<value, at, chains>>
  BY DEF ExtendSide2
<1>2. side2 # <<>> /\ side1 = <<>> /\ Started /\ Extracted
  BY <1>1 DEF IsoInv, PhaseInv, Extracted, Started
<1>3. /\ side2 \in Seq(DOMAIN trace) /\ Building = Range(side2)
      /\ 1 \in DOMAIN side2 /\ Head(side2) = side2[1] /\ Last(side2) \in DOMAIN trace
      /\ Head(side2) \in DOMAIN trace /\ Head(side2) \in Range(side2)
  <2>1. side2 \in Seq(DOMAIN trace)
    BY DEF IsoInv, SegmentsInv
  <2>2. Range(side1) = {}
    BY <1>2 DEF Range
  <2> QED BY <1>2, <2>1, <2>2, PlacesOfSeq DEF Building
<1>4. /\ ni' = ni /\ nj' = nj /\ grid' = grid /\ pass' = pass /\ Segment' = Segment
  BY GridKept
<1>5. CASE Fitting(p) = {}
  <2>1. /\ phase' = "side1" /\ side1' = <<Head(side2)>> /\ UNCHANGED <<trace, unused, side2>>
    BY <1>5 DEF ExtendSide2
  <2>2. Building' = Building
    <3>1. Range(side1') = {Head(side2)} /\ Range(side2') = Range(side2)
      BY <2>1 DEF Range
    <3> QED BY <1>3, <3>1 DEF Building
  <2>3. PhaseInv'
    BY <1>1, <1>2, <1>4, <2>1 DEF IsoInv, PhaseInv, Extracted, Started
  <2>4. SegmentsInv'
    BY <1>1, <1>3, <1>4, <2>1 DEF IsoInv, SegmentsInv
  <2>5. OnceInv'
    <3>1. IsInjective(side1') /\ side1'[1] = side2'[1]
      BY <1>3, <2>1 DEF IsInjective
    <3>2. \A k \in DOMAIN side1', l \in DOMAIN side2' : side1'[k] = side2'[l] => k = 1 /\ l = 1
      BY <1>3, <2>1 DEF IsoInv, OnceInv, IsInjective
    <3> QED BY <1>1, <1>2, <2>1, <2>2, <3>1, <3>2 DEF IsoInv, OnceInv, Extracted
  <2>6. ContinuityInv'
    <3>1. Backed(trace', side1')
      BY <2>1 DEF Backed
    <3> QED BY <1>1, <2>1, <3>1 DEF IsoInv, ContinuityInv
  <2>7. MaximalInv'
    <3>1. ChainsAreMaximal'
      BY <1>1, <2>1 DEF IsoInv, MaximalInv, ChainsAreMaximal, Ends
    <3>2. \A s \in unused' : trace'[Last(side2')].p2 \notin PointsOf(trace', s)
      BY <1>5, <2>1 DEF Fitting, PointsOf
    <3> QED BY <1>1, <2>1, <2>2, <3>1, <3>2 DEF IsoInv, MaximalInv, Ends
  <2>8. CutInv'
    <3>1. TurnedAt(trace, trace', 0)
      BY <2>1 DEF TurnedAt, PointsOf
    <3> QED BY <1>1, <1>2, <2>1, <3>1, CutKept DEF IsoInv
  <2> QED BY <2>3, <2>4, <2>5, <2>6, <2>7, <2>8 DEF IsoInv
<1>6. CASE Fitting(p) # {}
  <2> DEFINE s == Min(Fitting(p))
             forward == trace[s].p1 = p
  <2>1. /\ Turn(s, forward) /\ unused' = unused \ {s} /\ side2' = Append(side2, s)
        /\ UNCHANGED <<phase, side1>>
    BY <1>6 DEF ExtendSide2
  <2>2. /\ s \in unused /\ s \in DOMAIN trace /\ p \in {trace[s].p1, trace[s].p2}
        /\ s \notin Building /\ s \notin Range(side2)
        /\ \A n \in DOMAIN chains : s \notin Range(chains[n])
    BY <1>6, FirstFitting
  <2> HIDE DEF s
  <2>3. /\ trace' \in Seq(Segment) /\ TurnedAt(trace, trace', s)
        /\ trace'[s].p1 = p
    <3>1. trace \in Seq(Segment) /\ forward \in BOOLEAN
      BY DEF IsoInv, SegmentsInv
    <3>2. /\ trace' \in Seq(Segment) /\ TurnedAt(trace, trace', s)
          /\ forward => trace'[s] = trace[s]
          /\ ~forward => trace'[s].p1 = trace[s].p2 /\ trace'[s].p2 = trace[s].p1
      BY <2>1, <2>2, <3>1, TurnIsTurning
    <3> QED BY <2>2, <3>2
  <2>4. DOMAIN trace' = DOMAIN trace
    BY <2>3 DEF TurnedAt
  <2>5. /\ side2' \in Seq(DOMAIN trace) /\ side2' # <<>>
        /\ Range(side2') = Range(side2) \cup {s}
        /\ IsInjective(side2) => IsInjective(side2')
        /\ Joined(trace, side2) => Joined(trace', side2')
    BY <1>2, <1>3, <2>1, <2>2, <2>3, ChainGrows
  <2>6. Building' = Building \cup {s} /\ unused' \cup Building' \subseteq unused \cup Building
    BY <1>2, <1>3, <2>1, <2>2, <2>5 DEF Building, Range
  <2>7. PhaseInv'
    BY <1>1, <1>2, <1>4, <2>1, <2>5 DEF IsoInv, PhaseInv, Extracted, Started
  <2>8. SegmentsInv'
    BY <1>1, <1>2, <1>4, <2>1, <2>3, <2>4, <2>5 DEF IsoInv, SegmentsInv
  <2>9. OnceInv'
    <3>1. DOMAIN trace' = unused' \cup Building' \cup UNION {Range(chains[n]) : n \in DOMAIN chains}
      BY <1>2, <2>1, <2>2, <2>4, <2>6 DEF IsoInv, OnceInv
    <3>2. unused' \cap Building' = {}
      BY <2>1, <2>6 DEF IsoInv, OnceInv
    <3>3. \A n \in DOMAIN chains : Range(chains[n]) \cap (unused' \cup Building') = {}
      BY <2>6 DEF IsoInv, OnceInv
    <3>4. IsInjective(side2') /\ IsInjective(side1') /\ DOMAIN side1' = {}
      BY <1>2, <2>1, <2>5 DEF IsoInv, OnceInv
    <3> QED BY <1>1, <2>1, <3>1, <3>2, <3>3, <3>4 DEF IsoInv, OnceInv
  <2>10. /\ \A n \in DOMAIN chains : Joined(trace', chains[n])
         /\ \A n \in DOMAIN chains : EndsOf(trace', chains[n]) = EndsOf(trace, chains[n])
         /\ ChainsAreMaximal'
         /\ \A n \in DOMAIN chains : \A t \in unused' \cup Building' :
              EndsOf(trace', chains[n]) \cap PointsOf(trace', t) = {}
    BY <1>1, <2>2, <2>3, <2>6, ChainsKept DEF IsoInv
  <2>11. ContinuityInv'
    <3>1. Backed(trace', side1')
      BY <1>2, <2>1 DEF Backed
    <3> QED BY <1>1, <2>5, <2>10, <3>1 DEF IsoInv, ContinuityInv
  <2>12. MaximalInv'
    BY <1>1, <2>1, <2>10 DEF MaximalInv, Ends, EndsOf
  <2>13. CutInv'
    BY <1>1, <1>2, <2>1, <2>3, CutKept DEF IsoInv
  <2> QED BY <2>7, <2>8, <2>9, <2>11, <2>12, <2>13 DEF IsoInv
<1> QED BY <1>5, <1>6

LEMMA ExtendSide1Inv ==
  ASSUME GridInv, IsoInv, ExtendSide1, UNCHANGED gridVars
  PROVE  IsoInv'
<1> DEFINE p == trace[Last(side1)].p1
<1>1. phase = "side1" /\ UNCHANGED <<value, at>>
  BY DEF ExtendSide1
<1>2. side2 # <<>> /\ side1 # <<>> /\ Started /\ Extracted
  BY <1>1 DEF IsoInv, PhaseInv, Extracted, Started
<1>3. /\ side2 \in Seq(DOMAIN trace) /\ side1 \in Seq(DOMAIN trace)
      /\ Last(side2) \in DOMAIN trace /\ Last(side2) \in Building
      /\ Last(side1) \in DOMAIN trace /\ 1 \in DOMAIN side1
  <2>1. side2 \in Seq(DOMAIN trace) /\ side1 \in Seq(DOMAIN trace)
    BY DEF IsoInv, SegmentsInv
  <2>2. Last(side2) \in Range(side2) /\ Range(side2) \subseteq DOMAIN trace
    BY <1>2, <2>1, PlacesOfSeq
  <2>3. Last(side1) \in Range(side1) /\ Range(side1) \subseteq DOMAIN trace /\ 1 \in DOMAIN side1
    BY <1>2, <2>1, PlacesOfSeq
  <2> QED BY <2>1, <2>2, <2>3 DEF Building
<1>4. /\ ni' = ni /\ nj' = nj /\ grid' = grid /\ pass' = pass /\ Segment' = Segment
  BY GridKept
<1>5. CASE Fitting(p) = {}
  <2> DEFINE new == BothSides(side1, side2)
             n0 == Len(chains) + 1
  <2>1. /\ chains' = Append(chains, new) /\ side1' = <<>> /\ side2' = <<>>
        /\ phase' = IF unused = {} THEN "joined" ELSE "start"
        /\ UNCHANGED <<trace, unused>>
    BY <1>5 DEF ExtendSide1, Assembled, BothSides
  <2>2. /\ new \in Seq(DOMAIN trace) /\ new # <<>> /\ Head(new) = Last(side1) /\ Last(new) = Last(side2)
        /\ Range(new) = Building /\ IsInjective(new) /\ Joined(trace, new)
    <3>1. /\ side1[1] = side2[1] /\ IsInjective(side1) /\ IsInjective(side2)
          /\ Backed(trace, side1) /\ Joined(trace, side2)
      BY <1>1 DEF IsoInv, OnceInv, ContinuityInv
    <3>2. \A k \in DOMAIN side1, l \in DOMAIN side2 : side1[k] = side2[l] => k = 1 /\ l = 1
      BY DEF IsoInv, OnceInv
    <3>3. /\ new \in Seq(DOMAIN trace) /\ new # <<>> /\ Head(new) = Last(side1) /\ Last(new) = Last(side2)
          /\ Range(new) = Range(side1) \cup Range(side2) /\ IsInjective(new) /\ Joined(trace, new)
      BY <1>2, <1>3, <3>1, <3>2, BothSidesChain
    <3> QED BY <3>3 DEF Building
  <2>3. EndsOf(trace, new) = {p, trace[Last(side2)].p2}
    BY <2>2 DEF EndsOf
  <2> HIDE DEF new
  <2>4. /\ chains' \in Seq(Seq(DOMAIN trace)) /\ Len(chains') = n0 /\ DOMAIN chains' = DOMAIN chains \cup {n0}
        /\ n0 \notin DOMAIN chains /\ chains'[n0] = new /\ \A n \in DOMAIN chains : chains'[n] = chains[n]
        /\ DOMAIN chains = 1 .. Len(chains) /\ Len(chains) \in Nat
    <3>1. chains \in Seq(Seq(DOMAIN trace))
      BY DEF IsoInv, SegmentsInv
    <3>2. /\ chains' \in Seq(Seq(DOMAIN trace)) /\ Len(chains') = n0
          /\ chains'[n0] = new /\ \A n \in 1 .. Len(chains) : chains'[n] = chains[n]
      BY <2>1, <2>2, <3>1, AppendProperties
    <3>3. DOMAIN chains = 1 .. Len(chains) /\ Len(chains) \in Nat /\ DOMAIN chains' = 1 .. n0
      BY <3>1, <3>2, LenProperties
    <3> QED BY <3>1, <3>2, <3>3
  <2> HIDE DEF n0
  <2>5. Building' = {} /\ unused' = unused
    BY <2>1 DEF Building, Range
  <2>6. PhaseInv'
    BY <1>1, <1>2, <1>4, <2>1 DEF IsoInv, PhaseInv, Extracted, Started
  <2>7. SegmentsInv'
    <3>1. \A n \in DOMAIN chains' : chains'[n] # <<>>
      BY <2>2, <2>4 DEF IsoInv, SegmentsInv
    <3> QED BY <1>4, <2>1, <2>4, <3>1 DEF IsoInv, SegmentsInv
  <2>8. OnceInv'
    <3>1. DOMAIN trace = unused \cup Building \cup UNION {Range(chains[n]) : n \in DOMAIN chains}
      BY <1>2 DEF IsoInv, OnceInv
    <3>2. UNION {Range(chains'[n]) : n \in DOMAIN chains'}
            = Building \cup UNION {Range(chains[n]) : n \in DOMAIN chains}
      BY <2>2, <2>4
    <3>3. DOMAIN trace' = unused' \cup Building' \cup UNION {Range(chains'[n]) : n \in DOMAIN chains'}
      BY <2>1, <2>5, <3>1, <3>2
    <3>4. \A n \in DOMAIN chains' : Range(chains'[n]) \cap (unused' \cup Building') = {} /\ IsInjective(chains'[n])
      BY <2>2, <2>4, <2>5 DEF IsoInv, OnceInv
    <3>5. \A n, m \in DOMAIN chains' : n # m => Range(chains'[n]) \cap Range(chains'[m]) = {}
      BY <2>2, <2>4 DEF IsoInv, OnceInv
    <3>6. IsInjective(side2') /\ IsInjective(side1') /\ DOMAIN side1' = {}
      BY <2>1 DEF IsInjective
    <3> QED BY <2>1, <2>5, <3>3, <3>4, <3>5, <3>6 DEF OnceInv
  <2>9. ContinuityInv'
    <3>1. Joined(trace', side2') /\ Backed(trace', side1')
      BY <2>1 DEF Joined, Backed
    <3>2. \A n \in DOMAIN chains' : Joined(trace', chains'[n])
      BY <2>1, <2>2, <2>4 DEF IsoInv, ContinuityInv
    <3> QED BY <3>1, <3>2 DEF ContinuityInv
  <2>10. MaximalInv'
    <3>1. \A s \in unused : EndsOf(trace, new) \cap PointsOf(trace, s) = {}
      <4>1. \A s \in unused : p \notin PointsOf(trace, s)
        BY <1>5 DEF Fitting, PointsOf
      <4>2. \A s \in unused : trace[Last(side2)].p2 \notin PointsOf(trace, s)
        BY <1>1 DEF IsoInv, MaximalInv
      <4> QED BY <2>3, <4>1, <4>2
    <3>2. \A n \in DOMAIN chains : \A s \in unused \cup Building : EndsOf(trace, chains[n]) \cap PointsOf(trace, s) = {}
      BY DEF IsoInv, MaximalInv, Ends, EndsOf
    <3>3. \A n \in DOMAIN chains' : \A s \in unused' \cup Building' : EndsOf(trace', chains'[n]) \cap PointsOf(trace', s) = {}
      BY <2>1, <2>4, <2>5, <3>1, <3>2
    <3>4. ASSUME NEW n \in DOMAIN chains', NEW later \in n + 1 .. Len(chains'), NEW k \in DOMAIN chains'[later]
          PROVE  EndsOf(trace', chains'[n]) \cap PointsOf(trace', chains'[later][k]) = {}
      <4>1. n \in DOMAIN chains /\ later \in DOMAIN chains' /\ later > n
        <5>1. n \in 1 .. Len(chains) + 1 /\ later \in n + 1 .. Len(chains) + 1
          BY <2>4 DEF n0
        <5> QED BY <2>4, <5>1 DEF n0
      <4>2. CASE later = n0
        <5>1. chains'[later][k] \in Building
          BY <2>2, <2>4, <3>4, <4>2 DEF Range
        <5> QED BY <2>1, <2>4, <3>2, <4>1, <5>1
      <4>3. CASE later # n0
        <5>1. later \in n + 1 .. Len(chains) /\ k \in DOMAIN chains[later]
          BY <2>4, <3>4, <4>1, <4>3
        <5>2. EndsOf(trace, chains[n]) \cap PointsOf(trace, chains[later][k]) = {}
          BY <4>1, <5>1 DEF IsoInv, MaximalInv, ChainsAreMaximal, Ends, EndsOf, PointsOf
        <5>3. later \in DOMAIN chains
          BY <2>4, <4>1, <4>3
        <5> QED BY <2>1, <2>4, <4>1, <5>2, <5>3
      <4> QED BY <4>2, <4>3
    <3>5. ChainsAreMaximal'
      BY <3>4 DEF ChainsAreMaximal, Ends, EndsOf, PointsOf
    <3> QED BY <2>1, <3>3, <3>5 DEF MaximalInv, Ends, EndsOf
  <2>11. CutInv'
    <3>1. TurnedAt(trace, trace', 0)
      BY <2>1 DEF TurnedAt, PointsOf
    <3> QED BY <1>1, <1>2, <2>1, <3>1, CutKept DEF IsoInv
  <2> QED BY <2>6, <2>7, <2>8, <2>9, <2>10, <2>11 DEF IsoInv
<1>6. CASE Fitting(p) # {}
  <2> DEFINE s == Min(Fitting(p))
             forward == trace[s].p2 = p
  <2>1. /\ Turn(s, forward) /\ unused' = unused \ {s} /\ side1' = Append(side1, s)
        /\ UNCHANGED <<phase, side2, chains>>
    BY <1>6 DEF ExtendSide1
  <2>2. /\ s \in unused /\ s \in DOMAIN trace /\ p \in {trace[s].p1, trace[s].p2}
        /\ s \notin Building /\ s \notin Range(side1) /\ s \notin Range(side2)
        /\ \A n \in DOMAIN chains : s \notin Range(chains[n])
    BY <1>6, FirstFitting
  <2> HIDE DEF s
  <2>3. /\ trace' \in Seq(Segment) /\ TurnedAt(trace, trace', s)
        /\ trace'[s].p2 = p
    <3>1. trace \in Seq(Segment) /\ forward \in BOOLEAN
      BY DEF IsoInv, SegmentsInv
    <3>2. /\ trace' \in Seq(Segment) /\ TurnedAt(trace, trace', s)
          /\ forward => trace'[s] = trace[s]
          /\ ~forward => trace'[s].p1 = trace[s].p2 /\ trace'[s].p2 = trace[s].p1
      BY <2>1, <2>2, <3>1, TurnIsTurning
    <3> QED BY <2>2, <3>2
  <2>4. DOMAIN trace' = DOMAIN trace
    BY <2>3 DEF TurnedAt
  <2>5. /\ side1' \in Seq(DOMAIN trace) /\ side1' # <<>> /\ side1'[1] = side1[1]
        /\ Range(side1') = Range(side1) \cup {s}
        /\ DOMAIN side1' = DOMAIN side1 \cup {Len(side1) + 1} /\ side1'[Len(side1) + 1] = s
        /\ IsInjective(side1) => IsInjective(side1')
        /\ Backed(trace, side1) => Backed(trace', side1')
    BY <1>2, <1>3, <2>1, <2>2, <2>3, ChainGrows
  <2>6. \A k \in DOMAIN side1 : side1'[k] = side1[k]
    BY <1>2, <1>3, <2>1, <2>2, <2>3, ChainGrows
  <2>7. Building' = Building \cup {s} /\ unused' \cup Building' \subseteq unused \cup Building
    BY <2>1, <2>2, <2>5 DEF Building
  <2>8. PhaseInv'
    BY <1>1, <1>2, <1>4, <2>1, <2>5 DEF IsoInv, PhaseInv, Extracted, Started
  <2>9. SegmentsInv'
    BY <1>1, <1>2, <1>4, <2>1, <2>3, <2>4, <2>5 DEF IsoInv, SegmentsInv
  <2>10. OnceInv'
    <3>1. DOMAIN trace' = unused' \cup Building' \cup UNION {Range(chains[n]) : n \in DOMAIN chains}
      BY <1>2, <2>1, <2>2, <2>4, <2>7 DEF IsoInv, OnceInv
    <3>2. unused' \cap Building' = {}
      BY <2>1, <2>7 DEF IsoInv, OnceInv
    <3>3. \A n \in DOMAIN chains : Range(chains[n]) \cap (unused' \cup Building') = {}
      BY <2>7 DEF IsoInv, OnceInv
    <3>4. IsInjective(side2') /\ IsInjective(side1') /\ side1'[1] = side2'[1]
      BY <1>1, <2>1, <2>5 DEF IsoInv, OnceInv
    <3>5. ASSUME NEW k \in DOMAIN side1', NEW l \in DOMAIN side2', side1'[k] = side2'[l]
          PROVE  k = 1 /\ l = 1
      <4>1. l \in DOMAIN side2 /\ side2'[l] = side2[l] /\ side2[l] # s
        BY <2>1, <2>2 DEF Range
      <4>2. k \in DOMAIN side1 /\ side1'[k] = side1[k]
        BY <2>5, <2>6, <3>5, <4>1
      <4> QED BY <3>5, <4>1, <4>2 DEF IsoInv, OnceInv
    <3> QED BY <1>1, <2>1, <3>1, <3>2, <3>3, <3>4, <3>5 DEF IsoInv, OnceInv
  <2>11. /\ \A n \in DOMAIN chains : Joined(trace', chains[n])
         /\ \A n \in DOMAIN chains : EndsOf(trace', chains[n]) = EndsOf(trace, chains[n])
         /\ ChainsAreMaximal'
         /\ \A n \in DOMAIN chains : \A t \in unused' \cup Building' :
              EndsOf(trace', chains[n]) \cap PointsOf(trace', t) = {}
    BY <2>1, <2>2, <2>3, <2>7, ChainsKept DEF IsoInv
  <2>12. ContinuityInv'
    <3>1. Joined(trace', side2')
      BY <1>3, <2>1, <2>2, <2>3, ChainsStay DEF IsoInv, ContinuityInv
    <3> QED BY <2>1, <2>5, <2>11, <3>1 DEF IsoInv, ContinuityInv
  <2>13. MaximalInv'
    <3>1. trace'[Last(side2')].p2 = trace[Last(side2)].p2
      BY <1>3, <2>1, <2>2, <2>3 DEF TurnedAt
    <3>2. \A t \in unused' : t \in DOMAIN trace /\ t \in unused
      BY <2>1 DEF IsoInv, SegmentsInv
    <3>3. \A t \in unused' : PointsOf(trace', t) = PointsOf(trace, t)
      BY <2>3, <3>2 DEF TurnedAt
    <3>4. \A t \in unused' : trace'[Last(side2')].p2 \notin PointsOf(trace', t)
      BY <1>1, <3>1, <3>2, <3>3 DEF IsoInv, MaximalInv
    <3> QED BY <2>1, <2>11, <3>4 DEF MaximalInv, Ends, EndsOf
  <2>14. CutInv'
    BY <1>1, <1>2, <2>1, <2>3, CutKept DEF IsoInv
  <2> QED BY <2>8, <2>9, <2>10, <2>12, <2>13, <2>14 DEF IsoInv
<1> QED BY <1>5, <1>6

\* Reading and filling never overlap with a line: it is drawn over grids that are done.
LEMMA IsoKept ==
  ASSUME IsoInv, UNCHANGED isoVars, phase = "none" \/ UNCHANGED gridVars
  PROVE  IsoInv'
<1>1. /\ value' = value /\ phase' = phase /\ at' = at /\ trace' = trace /\ unused' = unused
      /\ side2' = side2 /\ side1' = side1 /\ chains' = chains
  BY DEF isoVars
<1>2. OnceInv' /\ ContinuityInv' /\ MaximalInv'
  BY <1>1 DEF IsoInv, OnceInv, Extracted, Building, ContinuityInv, Joined, Backed,
              MaximalInv, ChainsAreMaximal, Ends, PointsOf
<1>3. CASE phase = "none"
  <2>1. /\ trace = <<>> /\ at = <<1, 1>> /\ unused = {} /\ chains = <<>> /\ side2 = <<>> /\ side1 = <<>>
    BY <1>3 DEF IsoInv, PhaseInv, Extracted
  <2>2. PhaseInv'
    BY <1>1, <1>3, <2>1 DEF IsoInv, PhaseInv, Extracted, Started
  <2>3. SegmentsInv'
    BY <1>1, <2>1 DEF SegmentsInv
  <2>4. CutInv'
    BY <1>1, <1>3 DEF CutInv, Started
  <2> QED BY <1>2, <2>2, <2>3, <2>4 DEF IsoInv
<1>4. CASE UNCHANGED gridVars
  <2>1. /\ ni' = ni /\ nj' = nj /\ grid' = grid /\ pass' = pass /\ Segment' = Segment /\ Edges' = Edges
        /\ \A e : WholeCellsAt(grid["sst"], e)' = WholeCellsAt(grid["sst"], e)
        /\ \A e : Crossed(grid["sst"], e)' = Crossed(grid["sst"], e)
    BY <1>1, <1>4, GridKept
  <2>2. PhaseInv'
    BY <1>1, <2>1 DEF IsoInv, PhaseInv, Extracted, Started
  <2>3. SegmentsInv'
    BY <1>1, <2>1 DEF IsoInv, SegmentsInv
  <2>4. \A e : CellsPast(e)' = CellsPast(e) /\ SegmentsAt(trace', e) = SegmentsAt(trace, e)
    BY <1>1, <2>1 DEF CellsPast, Behind
  <2>5. CutInv'
    <3>1. ASSUME Started, NEW e \in Edges
          PROVE  Cardinality(SegmentsAt(trace', e)) =
                   IF Crossed(grid["sst"], e) THEN Cardinality(CellsPast(e)') ELSE 0
      BY <2>4, <3>1 DEF IsoInv, CutInv
    <3> QED BY <1>1, <2>1, <3>1 DEF CutInv, Started
  <2> QED BY <1>2, <2>2, <2>3, <2>5 DEF IsoInv
<1> QED BY <1>3, <1>4

LEMMA InitIsoInv == ASSUME IsoInit PROVE IsoInv
<1>1. PhaseInv
  BY DEF IsoInit, PhaseInv, Extracted, Started
<1>2. SegmentsInv
  BY DEF IsoInit, SegmentsInv
<1>3. OnceInv /\ ContinuityInv
  BY DEF IsoInit, OnceInv, ContinuityInv, Joined, Backed, Extracted, Building, Range, IsInjective
<1>4. MaximalInv
  BY DEF IsoInit, MaximalInv, ChainsAreMaximal
<1>5. CutInv
  BY DEF IsoInit, CutInv, Started
<1> QED BY <1>1, <1>2, <1>3, <1>4, <1>5 DEF IsoInv

LEMMA IsoInvStep == GridInv /\ IsoInv /\ [FieldNext]_fieldVars => IsoInv'
<1> SUFFICES ASSUME GridInv, IsoInv, [FieldNext]_fieldVars PROVE IsoInv'
  OBVIOUS
<1>1. CASE Find \/ Answered \/ UNCHANGED fieldVars
  BY <1>1, IsoKept DEF Find, Answered, fieldVars
<1>2. CASE Read \/ Build
  <2>1. UNCHANGED isoVars /\ pass # "done"
    BY <1>2 DEF Read, Build, ReadStep, FILL_V, FILL_H, Magnitude
  <2>2. phase = "none"
    BY <2>1 DEF IsoInv, PhaseInv, Started
  <2> QED BY <2>1, <2>2, IsoKept
<1>3. CASE Draw
  <2>1. UNCHANGED gridVars /\ IsoNext
    BY <1>3 DEF Draw
  <2> QED BY <2>1, DrawLineInv, ExtractInv, StartChainInv, ExtendSide2Inv, ExtendSide1Inv DEF IsoNext
<1> QED BY <1>1, <1>2, <1>3 DEF FieldNext

LEMMA IsoAlways == FieldSpec => [](GridInv /\ IsoInv)
<1>1. FieldInit => GridInv /\ IsoInv
  BY InitIsoInv, GridInitInv DEF FieldInit
<1>2. (GridInv /\ IsoInv) /\ [FieldNext]_fieldVars => (GridInv /\ IsoInv)'
  <2>1. [FieldNext]_fieldVars => [GridNext]_gridVars
    BY DEF FieldNext, fieldVars, Find, Answered, Read, Build, Draw, GridNext
  <2> QED BY <2>1, IsoInvStep, GridInvStep, GridInvUnchanged
<1> QED BY <1>1, <1>2, PTL DEF FieldSpec

\* A line never ends inside the data: each edge that it crosses is left by as many
\* segments as there are whole cells beside it, on grids of any size (extractIsoLine,
\* IsoLine2.cpp:430-526).
THEOREM LinesStayUnbroken == FieldSpec => []LinesAreUnbroken
<1>1. IsoInv => LinesAreUnbroken
  <2> SUFFICES ASSUME IsoInv, Extracted PROVE LinesAreUnbroken
    BY DEF LinesAreUnbroken
  <2>1. Started /\ phase # "extract"
    BY DEF Extracted, Started
  <2>2. \A e : CellsPast(e) = WholeCellsAt(grid["sst"], e)
    BY <2>1 DEF CellsPast, Behind
  <2> QED BY <2>1, <2>2 DEF IsoInv, CutInv, LinesAreUnbroken, SegmentsAt
<1> QED BY <1>1, IsoAlways, PTL

\* The chains are continuous from end to end, whichever segments had to be turned.
THEOREM ChainsStayContinuous == FieldSpec => []ChainsAreContinuous
<1>1. IsoInv => ChainsAreContinuous
  BY DEF IsoInv, ContinuityInv, Joined, ChainsAreContinuous
<1> QED BY <1>1, IsoAlways, PTL

\* No chain that is found later touches an end of one that was complete.
THEOREM ChainsStayMaximal == FieldSpec => []ChainsAreMaximal
<1>1. IsoInv => ChainsAreMaximal
  BY DEF IsoInv, MaximalInv
<1> QED BY <1>1, IsoAlways, PTL
\* Each segment is in one place of one list, unless it is still to be used.
LEMMA ListsAreApart ==
  ASSUME IsoInv
  PROVE  /\ \A n \in DOMAIN Lists : IsInjective(Lists[n]) /\ Range(Lists[n]) \cap unused = {}
         /\ \A n, m \in DOMAIN Lists : n # m => Range(Lists[n]) \cap Range(Lists[m]) = {}
         /\ Extracted => DOMAIN trace = unused \cup UNION {Range(Lists[n]) : n \in DOMAIN Lists}
<1> DEFINE N == Len(chains)
           T == IF side1 = <<>> THEN <<>> ELSE Tail(side1)
           D == DOMAIN trace
<1>1. /\ chains \in Seq(Seq(D)) /\ side2 \in Seq(D) /\ side1 \in Seq(D)
      /\ DOMAIN chains = 1 .. N /\ N \in Nat
  BY LenProperties DEF IsoInv, SegmentsInv
\* The second side, without the segment that it shares with the first.
<1>2. /\ T \in Seq(D) /\ IsInjective(T) /\ Range(T) \subseteq Range(side1) /\ Range(T) \cap Range(side2) = {}
      /\ Building = Range(side2) \cup Range(T)
  <2>1. CASE side1 = <<>>
    <3>1. T = <<>> /\ Range(side1) = {} /\ Range(T) = {}
      BY <2>1 DEF Range
    <3> HIDE DEF T
    <3>2. T \in Seq(D) /\ IsInjective(T)
      BY <3>1 DEF IsInjective
    <3> QED BY <3>1, <3>2 DEF Building
  <2>2. CASE side1 # <<>>
    <3> DEFINE n1 == Len(side1)
    <3>1. /\ n1 \in Nat /\ n1 >= 1 /\ DOMAIN side1 = 1 .. n1
      BY <1>1, <2>2, EmptySeq
    <3>2. T \in Seq(D) /\ Len(T) = n1 - 1 /\ \A k \in 1 .. n1 - 1 : T[k] = side1[k + 1]
      BY <1>1, <2>2, <3>1, HeadTailProperties
    <3>3. DOMAIN T = 1 .. n1 - 1
      BY <3>2, LenProperties
    <3> HIDE DEF T, n1
    <3>4. \A k \in DOMAIN T : k + 1 \in DOMAIN side1 /\ k + 1 # 1 /\ T[k] = side1[k + 1]
      BY <3>1, <3>2, <3>3
    <3>5. \A k \in DOMAIN side1 : k = 1 \/ (k - 1 \in DOMAIN T /\ T[k - 1] = side1[k])
      <4> SUFFICES ASSUME NEW k \in DOMAIN side1, k # 1 PROVE k - 1 \in DOMAIN T /\ T[k - 1] = side1[k]
        OBVIOUS
      <4>1. k - 1 \in 1 .. n1 - 1 /\ (k - 1) + 1 = k
        BY <3>1
      <4> QED BY <3>2, <3>3, <4>1
    <3>6. \A k \in DOMAIN side1, l \in DOMAIN side2 : side1[k] = side2[l] => k = 1 /\ l = 1
      BY DEF IsoInv, OnceInv
    <3>7. IsInjective(T)
      <4>1. \A k, m \in DOMAIN side1 : side1[k] = side1[m] => k = m
        BY DEF IsoInv, OnceInv, IsInjective
      <4> SUFFICES ASSUME NEW k \in DOMAIN T, NEW m \in DOMAIN T, T[k] = T[m] PROVE k = m
        BY DEF IsInjective
      <4>2. k + 1 = m + 1
        BY <3>4, <4>1
      <4> QED BY <3>1, <3>3, <4>2
    <3>8. Range(T) \subseteq Range(side1) /\ Range(T) \cap Range(side2) = {}
      BY <3>4, <3>6 DEF Range
    <3>9. side1[1] \in Range(side2)
      <4>1. phase = "side1" /\ side2 # <<>>
        BY <2>2 DEF IsoInv, PhaseInv
      <4>2. side1[1] = side2[1]
        BY <4>1 DEF IsoInv, OnceInv
      <4>3. 1 \in DOMAIN side2
        BY <1>1, <4>1, PlacesOfSeq
      <4> QED BY <4>2, <4>3 DEF Range
    <3>10. Range(side1) \subseteq Range(T) \cup {side1[1]}
      BY <3>5 DEF Range
    <3> QED BY <3>2, <3>7, <3>8, <3>9, <3>10 DEF Building
  <2> QED BY <2>1, <2>2
<1>3. /\ Lists \in Seq(Seq(D)) /\ DOMAIN Lists = 1 .. N + 2
      /\ Lists[N + 1] = side2 /\ Lists[N + 2] = T /\ \A n \in 1 .. N : Lists[n] = chains[n]
  <2> DEFINE two == <<side2, T>>
  <2>1. two \in Seq(Seq(D)) /\ Len(two) = 2 /\ two[1] = side2 /\ two[2] = T
    BY <1>1, <1>2
  <2> HIDE DEF two, T
  <2>2. /\ chains \o two \in Seq(Seq(D))
        /\ Len(chains \o two) = Len(chains) + Len(two)
        /\ \A k \in 1 .. Len(chains) + Len(two) :
             (chains \o two)[k] = IF k <= Len(chains) THEN chains[k] ELSE two[k - Len(chains)]
    BY <1>1, <2>1, ConcatProperties, Zenon
  <2>3. Lists = chains \o two
    BY DEF Lists, two, T
  <2>4. Lists \in Seq(Seq(D)) /\ Len(Lists) = N + 2
    BY <2>1, <2>2, <2>3
  <2>5. \A k \in 1 .. N + 2 : Lists[k] = IF k <= N THEN chains[k] ELSE two[k - N]
    BY <2>1, <2>2, <2>3
  <2> HIDE DEF N
  <2>6. DOMAIN Lists = 1 .. N + 2
    BY <2>4, LenProperties
  <2>7. /\ N + 1 \in 1 .. N + 2 /\ ~(N + 1 <= N) /\ (N + 1) - N = 1
        /\ N + 2 \in 1 .. N + 2 /\ ~(N + 2 <= N) /\ (N + 2) - N = 2
        /\ \A n \in 1 .. N : n \in 1 .. N + 2 /\ n <= N
    BY <1>1
  <2> QED BY <2>1, <2>4, <2>5, <2>6, <2>7
<1> HIDE DEF T, N
<1>4. /\ DOMAIN Lists = DOMAIN chains \cup {N + 1, N + 2}
      /\ N + 1 \notin DOMAIN chains /\ N + 2 \notin DOMAIN chains /\ N + 1 # N + 2
      /\ \A n \in DOMAIN chains : Lists[n] = chains[n]
  BY <1>1, <1>3
<1>5. Range(side2) \subseteq Building /\ Range(T) \subseteq Building
  BY <1>2
<1>6. \A n \in DOMAIN Lists : IsInjective(Lists[n]) /\ Range(Lists[n]) \cap unused = {}
  BY <1>2, <1>3, <1>4, <1>5 DEF IsoInv, OnceInv
<1>7. \A n, m \in DOMAIN Lists : n # m => Range(Lists[n]) \cap Range(Lists[m]) = {}
  <2>1. \A n \in DOMAIN chains :
          Range(Lists[n]) \cap Range(Lists[N + 1]) = {} /\ Range(Lists[n]) \cap Range(Lists[N + 2]) = {}
    BY <1>3, <1>4, <1>5 DEF IsoInv, OnceInv
  <2>2. \A n, m \in DOMAIN chains : n # m => Range(Lists[n]) \cap Range(Lists[m]) = {}
    BY <1>4 DEF IsoInv, OnceInv
  <2>3. Range(Lists[N + 1]) \cap Range(Lists[N + 2]) = {}
    BY <1>2, <1>3
  <2> QED BY <1>4, <2>1, <2>2, <2>3
<1>8. Extracted => DOMAIN trace = unused \cup UNION {Range(Lists[n]) : n \in DOMAIN Lists}
  <2>1. UNION {Range(Lists[n]) : n \in DOMAIN Lists}
          = Range(side2) \cup Range(T) \cup UNION {Range(chains[n]) : n \in DOMAIN chains}
    <3>1. Lists[N + 1] = side2 /\ Lists[N + 2] = T
      BY <1>3
    <3>2. \A n \in DOMAIN Lists : n \in DOMAIN chains \/ n = N + 1 \/ n = N + 2
      BY <1>4
    <3>3. ASSUME NEW s
          PROVE  (\E n \in DOMAIN Lists : s \in Range(Lists[n])) <=>
                   s \in Range(side2) \/ s \in Range(T) \/ \E n \in DOMAIN chains : s \in Range(chains[n])
      BY <1>4, <3>1, <3>2
    <3> QED BY <3>3
  <2> QED BY <1>2, <2>1 DEF IsoInv, OnceInv
<1> QED BY <1>6, <1>7, <1>8

\* Joining the segments neither loses one nor takes one twice, at any time.
THEOREM SegmentsAreUsedOnce == FieldSpec => []EverySegmentOnce
<1>1. ASSUME IsoInv PROVE EverySegmentOnce
  <2> SUFFICES ASSUME Extracted, NEW s \in DOMAIN trace
               PROVE  Cardinality(Occurrences(s)) = IF s \in unused THEN 0 ELSE 1
    BY DEF EverySegmentOnce
  <2>1. /\ \A n \in DOMAIN Lists : IsInjective(Lists[n]) /\ Range(Lists[n]) \cap unused = {}
        /\ \A n, m \in DOMAIN Lists : n # m => Range(Lists[n]) \cap Range(Lists[m]) = {}
        /\ DOMAIN trace = unused \cup UNION {Range(Lists[n]) : n \in DOMAIN Lists}
    BY <1>1, ListsAreApart
  <2>2. ASSUME NEW q
        PROVE  q \in Occurrences(s) <=>
                 \E n \in DOMAIN Lists : \E k \in DOMAIN Lists[n] : q = <<n, k>> /\ Lists[n][k] = s
    BY DEF Occurrences
  <2>3. CASE s \in unused
    <3>1. Occurrences(s) = {}
      BY <2>1, <2>2, <2>3 DEF Range
    <3> QED BY <2>3, <3>1, FS_EmptySet
  <2>4. CASE s \notin unused
    <3>1. PICK n \in DOMAIN Lists : s \in Range(Lists[n])
      BY <2>1, <2>4
    <3>2. PICK k \in DOMAIN Lists[n] : Lists[n][k] = s
      BY <3>1 DEF Range
    <3>3. ASSUME NEW m \in DOMAIN Lists, NEW l \in DOMAIN Lists[m], Lists[m][l] = s
          PROVE  m = n /\ l = k
      <4>1. s \in Range(Lists[m])
        BY <3>3 DEF Range
      <4>2. m = n
        BY <2>1, <3>1, <4>1
      <4> QED BY <2>1, <3>2, <3>3, <4>2 DEF IsInjective
    <3>4. Occurrences(s) = {<<n, k>>}
      BY <2>2, <3>2, <3>3
    <3> QED BY <2>4, <3>4, FS_Singleton
  <2> QED BY <2>3, <2>4
<1> QED BY <1>1, IsoAlways, PTL

=============================================================================

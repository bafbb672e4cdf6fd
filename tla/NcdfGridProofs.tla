-------------------------- MODULE NcdfGridProofs --------------------------
(* Proofs about NcdfGrid: what FillAllGrids makes of any grids, of any size *)
(* and with any gaps; and about NcdfInterpolation: what is read between the *)
(* points of such a grid, wherever it lies.                                 *)
EXTENDS NcdfInterpolation, TLAPS

Inner(n) == 1 .. n - 2

\* A grid as it is made, and after each whole pass.
Raw(l)     == Rowwise(step, data[l])
AfterV(l)  == Down(Raw(l))
AfterH(l)  == Across(AfterV(l))

\* The cells that a pass has been at.
DoneV(c) == c[2] < i \/ (c[2] = i /\ c[1] < j)
DoneH(c) == c[1] < j \/ (c[1] = j /\ c[2] < i)

\* The time step, and the arrays read from it.
ReadInv ==
  /\ pass = "none" => grid = <<>>
  /\ pass # "none" => step \in Fields /\ data = Copied(step) /\ DOMAIN grid = DOMAIN step.raw

CountersInv ==
  /\ pass \in {"none", "vertical", "horizontal", "magnitude", "done"}
  /\ i \in Nat /\ j \in Nat
  /\ pass \in {"vertical", "horizontal"} => ni >= 3 /\ nj >= 3
  /\ pass = "vertical" => i \in Cols(ni) /\ j \in Inner(nj)
  /\ pass = "horizontal" => i \in Inner(ni) /\ j \in Rows(nj)

\* Each pass has done the cells behind it as if all at once, and left the others alone.
FillInv ==
  \A l \in DOMAIN grid :
    /\ pass = "vertical" =>
         grid[l] = [c \in Cells |-> IF DoneV(c) THEN AfterV(l)[c] ELSE Raw(l)[c]]
    /\ pass = "horizontal" =>
         grid[l] = [c \in Cells |-> IF DoneH(c) THEN AfterH(l)[c] ELSE AfterV(l)[c]]
    /\ pass \in {"magnitude", "done"} => grid[l] = Smoothed(Raw(l))

GridInv == ReadInv /\ CountersInv /\ (pass # "none" => FillInv)

-----------------------------------------------------------------------------
LEMMA MeanIsInt == \A x, y \in Int : Mean(x, y) \in Int
BY DEF Mean

\* The mean of two values lies between them.
LEMMA MeanIsBetween ==
  ASSUME NEW x \in Int, NEW y \in Int
  PROVE  \/ x <= Mean(x, y) /\ Mean(x, y) <= y
         \/ y <= Mean(x, y) /\ Mean(x, y) <= x
BY DEF Mean

\* Every point of the arrays that are read holds a value or NOTDEF.
LEMMA CopiedValues ==
  ASSUME NEW f \in Fields, NEW l \in DOMAIN f.raw
  PROVE  Copied(f)[l] \in [0 .. f.ni * f.nj - 1 -> Values]
<1>1. f.raw[l] \in [0 .. f.ni * f.nj - 1 -> Values]
  BY FieldsAssumption DEF Values
<1>2. CASE l \in {"u", "v"}
  BY <1>1, <1>2 DEF Copied, Values
<1>3. CASE l \notin {"u", "v"}
  BY <1>1, <1>3 DEF Copied
<1> QED BY <1>2, <1>3

LEMMA RowIndex ==
  ASSUME NEW w \in Nat \ {0}, NEW h \in Nat \ {0}, NEW a \in Rows(h), NEW b \in Cols(w)
  PROVE  a * w + b \in 0 .. w * h - 1
<1>1. a \in Nat /\ b \in Nat /\ a <= h - 1 /\ b <= w - 1
  BY DEF Rows, Cols
<1>2. a * w <= (h - 1) * w
  BY <1>1, SMTT(30)
<1>3. (h - 1) * w = w * h - w
  BY SMTT(30)
<1>4. a * w \in Nat /\ w * h \in Nat
  BY <1>1, SMTT(30)
<1> QED BY <1>1, <1>2, <1>3, <1>4

LEMMA CellParts ==
  ASSUME NEW w, NEW h, NEW c \in CellsOf(h, w)
  PROVE  c[1] \in Rows(h) /\ c[2] \in Cols(w) /\ c = <<c[1], c[2]>>
BY DEF CellsOf

LEMMA RawValues ==
  ASSUME NEW f \in Fields, NEW l \in DOMAIN f.raw
  PROVE  Rowwise(f, Copied(f)[l]) \in [CellsOf(f.nj, f.ni) -> Values]
<1>1. f.ni \in Nat \ {0} /\ f.nj \in Nat \ {0}
  BY FieldsAssumption
<1>2. ASSUME NEW c \in CellsOf(f.nj, f.ni) PROVE Copied(f)[l][c[1] * f.ni + c[2]] \in Values
  <2>1. c[1] \in Rows(f.nj) /\ c[2] \in Cols(f.ni)
    BY CellParts
  <2>2. c[1] * f.ni + c[2] \in 0 .. f.ni * f.nj - 1
    BY <1>1, <2>1, RowIndex
  <2> QED BY <2>2, CopiedValues
<1> QED BY <1>2 DEF Rowwise

-----------------------------------------------------------------------------
(* Whole passes.                                                            *)

Sized == ni \in Nat \ {0} /\ nj \in Nat \ {0}

\* The neighbours that a pass looks at are cells.
LEMMA Neighbours ==
  ASSUME Sized, NEW c \in Cells
  PROVE  /\ c[1] \in Nat /\ c[2] \in Nat /\ c[1] <= nj - 1 /\ c[2] <= ni - 1 /\ c = <<c[1], c[2]>>
         /\ c[1] \in Inner(nj) => <<c[1] - 1, c[2]>> \in Cells /\ <<c[1] + 1, c[2]>> \in Cells
         /\ c[2] \in Inner(ni) => <<c[1], c[2] - 1>> \in Cells /\ <<c[1], c[2] + 1>> \in Cells
BY DEF Sized, Cells, CellsOf, Rows, Cols, Inner

LEMMA DownValues ==
  ASSUME Sized, NEW g \in [Cells -> Values] PROVE Down(g) \in [Cells -> Values]
<1> SUFFICES ASSUME NEW c \in Cells PROVE Down(g)[c] \in Values
  BY DEF Down
<1>1. c[1] \in 1 .. nj - 2 => g[<<c[1] - 1, c[2]>>] \in Values /\ g[<<c[1] + 1, c[2]>>] \in Values
  BY Neighbours DEF Inner
<1> QED BY <1>1, MeanIsInt DEF Down, Values

LEMMA AcrossValues ==
  ASSUME Sized, NEW g \in [Cells -> Values] PROVE Across(g) \in [Cells -> Values]
<1> SUFFICES ASSUME NEW c \in Cells PROVE Across(g)[c] \in Values
  BY DEF Across
<1>1. c[2] \in 1 .. ni - 2 => g[<<c[1], c[2] - 1>>] \in Values /\ g[<<c[1], c[2] + 1>>] \in Values
  BY Neighbours DEF Inner
<1> QED BY <1>1, MeanIsInt DEF Across, Values

\* A pass changes nothing outside the inner rows, or columns.
LEMMA BorderStays ==
  ASSUME NEW g \in [Cells -> Values], NEW c \in Cells
  PROVE  /\ c[1] \notin Inner(nj) => Down(g)[c] = g[c]
         /\ c[2] \notin Inner(ni) => Across(g)[c] = g[c]
BY DEF Down, Across, Inner

\* The neighbours of a gap are not filled from it: a pass leaves them as they were.
LEMMA NextToGap ==
  ASSUME Sized, NEW g \in [Cells -> Values], NEW c \in Cells, g[c] = NOTDEF
  PROVE  /\ c[1] \in Inner(nj) => Down(g)[<<c[1] - 1, c[2]>>] = g[<<c[1] - 1, c[2]>>]
         /\ c[2] \in Inner(ni) => Across(g)[<<c[1], c[2] - 1>>] = g[<<c[1], c[2] - 1>>]
<1>1. ASSUME c[1] \in Inner(nj)
      PROVE  Down(g)[<<c[1] - 1, c[2]>>] = g[<<c[1] - 1, c[2]>>]
  <2>0. c[1] \in Nat /\ c = <<c[1], c[2]>> /\ <<c[1] - 1, c[2]>> \in Cells
    BY <1>1, Neighbours
  <2>1. <<c[1] - 1, c[2]>> \in Cells /\ (c[1] - 1) + 1 = c[1] /\ <<c[1], c[2]>> = c
    BY <2>0
  <2> QED BY <2>1 DEF Down
<1>2. ASSUME c[2] \in Inner(ni)
      PROVE  Across(g)[<<c[1], c[2] - 1>>] = g[<<c[1], c[2] - 1>>]
  <2>0. c[2] \in Nat /\ c = <<c[1], c[2]>> /\ <<c[1], c[2] - 1>> \in Cells
    BY <1>2, Neighbours
  <2>1. <<c[1], c[2] - 1>> \in Cells /\ (c[2] - 1) + 1 = c[2] /\ <<c[1], c[2]>> = c
    BY <2>0
  <2> QED BY <2>1 DEF Across
<1> QED BY <1>1, <1>2

\* One turn of the first pass, on a grid where the cells behind it are done.
LEMMA FillDown ==
  ASSUME Sized, NEW r \in [Cells -> Values], i \in Cols(ni), j \in Inner(nj)
  PROVE  LET g == [c \in Cells |-> IF DoneV(c) THEN Down(r)[c] ELSE r[c]] IN
         Fill(g, <<j, i>>, <<j - 1, i>>, <<j + 1, i>>)
           = [c \in Cells |-> IF DoneV(c) \/ c = <<j, i>> THEN Down(r)[c] ELSE r[c]]
<1> DEFINE g == [c \in Cells |-> IF DoneV(c) THEN Down(r)[c] ELSE r[c]]
<1>1. /\ j \in Nat /\ i \in Nat
      /\ <<j, i>> \in Cells /\ <<j - 1, i>> \in Cells /\ <<j + 1, i>> \in Cells
  BY DEF Sized, Cells, CellsOf, Rows, Cols, Inner
<1>2. ~DoneV(<<j, i>>) /\ DoneV(<<j - 1, i>>) /\ ~DoneV(<<j + 1, i>>)
  BY <1>1 DEF DoneV
<1>3. /\ g[<<j, i>>] = r[<<j, i>>] /\ g[<<j + 1, i>>] = r[<<j + 1, i>>]
      /\ g[<<j - 1, i>>] = Down(r)[<<j - 1, i>>]
  BY <1>1, <1>2
<1>4. CASE r[<<j, i>>] # NOTDEF
  <2>1. Down(r)[<<j, i>>] = r[<<j, i>>]
    BY <1>1, <1>4 DEF Down
  <2>2. Fill(g, <<j, i>>, <<j - 1, i>>, <<j + 1, i>>) = g
    BY <1>3, <1>4 DEF Fill
  <2> QED BY <2>1, <2>2
<1>5. CASE r[<<j, i>>] = NOTDEF
  <2>1. Down(r)[<<j - 1, i>>] = r[<<j - 1, i>>]
    <3>1. <<j, i>>[1] = j /\ <<j, i>>[2] = i
      OBVIOUS
    <3> QED BY <1>1, <1>5, <3>1, NextToGap
  <2>2. Down(r)[<<j, i>>] = IF r[<<j - 1, i>>] # NOTDEF /\ r[<<j + 1, i>>] # NOTDEF
                            THEN Mean(r[<<j - 1, i>>], r[<<j + 1, i>>]) ELSE NOTDEF
    BY <1>1, <1>5 DEF Down, Inner
  <2>3. Fill(g, <<j, i>>, <<j - 1, i>>, <<j + 1, i>>)
          = [g EXCEPT ![<<j, i>>] = Down(r)[<<j, i>>]]
    <3>1. CASE r[<<j - 1, i>>] # NOTDEF /\ r[<<j + 1, i>>] # NOTDEF
      BY <1>3, <1>5, <2>1, <2>2, <3>1 DEF Fill
    <3>2. CASE ~(r[<<j - 1, i>>] # NOTDEF /\ r[<<j + 1, i>>] # NOTDEF)
      <4>1. Fill(g, <<j, i>>, <<j - 1, i>>, <<j + 1, i>>) = g
        BY <1>3, <2>1, <3>2 DEF Fill
      <4>2. Down(r)[<<j, i>>] = g[<<j, i>>]
        BY <1>3, <1>5, <2>2, <3>2
      <4> HIDE DEF g
      <4>3. g = [g EXCEPT ![<<j, i>>] = g[<<j, i>>]]
        BY DEF g
      <4> QED BY <4>1, <4>2, <4>3
    <3> QED BY <3>1, <3>2
  <2> QED BY <1>1, <2>3
<1> QED BY <1>4, <1>5

\* One turn of the second pass, on a grid where the cells behind it are done.
LEMMA FillAcross ==
  ASSUME Sized, NEW r \in [Cells -> Values], i \in Inner(ni), j \in Rows(nj)
  PROVE  LET g == [c \in Cells |-> IF DoneH(c) THEN Across(r)[c] ELSE r[c]] IN
         Fill(g, <<j, i>>, <<j, i - 1>>, <<j, i + 1>>)
           = [c \in Cells |-> IF DoneH(c) \/ c = <<j, i>> THEN Across(r)[c] ELSE r[c]]
<1> DEFINE g == [c \in Cells |-> IF DoneH(c) THEN Across(r)[c] ELSE r[c]]
<1>1. /\ j \in Nat /\ i \in Nat
      /\ <<j, i>> \in Cells /\ <<j, i - 1>> \in Cells /\ <<j, i + 1>> \in Cells
  BY DEF Sized, Cells, CellsOf, Rows, Cols, Inner
<1>2. ~DoneH(<<j, i>>) /\ DoneH(<<j, i - 1>>) /\ ~DoneH(<<j, i + 1>>)
  BY <1>1 DEF DoneH
<1>3. /\ g[<<j, i>>] = r[<<j, i>>] /\ g[<<j, i + 1>>] = r[<<j, i + 1>>]
      /\ g[<<j, i - 1>>] = Across(r)[<<j, i - 1>>]
  BY <1>1, <1>2
<1>4. CASE r[<<j, i>>] # NOTDEF
  <2>1. Across(r)[<<j, i>>] = r[<<j, i>>]
    BY <1>1, <1>4 DEF Across
  <2>2. Fill(g, <<j, i>>, <<j, i - 1>>, <<j, i + 1>>) = g
    BY <1>3, <1>4 DEF Fill
  <2> QED BY <2>1, <2>2
<1>5. CASE r[<<j, i>>] = NOTDEF
  <2>1. Across(r)[<<j, i - 1>>] = r[<<j, i - 1>>]
    <3>1. <<j, i>>[1] = j /\ <<j, i>>[2] = i
      OBVIOUS
    <3> QED BY <1>1, <1>5, <3>1, NextToGap
  <2>2. Across(r)[<<j, i>>] = IF r[<<j, i - 1>>] # NOTDEF /\ r[<<j, i + 1>>] # NOTDEF
                            THEN Mean(r[<<j, i - 1>>], r[<<j, i + 1>>]) ELSE NOTDEF
    BY <1>1, <1>5 DEF Across, Inner
  <2>3. Fill(g, <<j, i>>, <<j, i - 1>>, <<j, i + 1>>)
          = [g EXCEPT ![<<j, i>>] = Across(r)[<<j, i>>]]
    <3>1. CASE r[<<j, i - 1>>] # NOTDEF /\ r[<<j, i + 1>>] # NOTDEF
      BY <1>3, <1>5, <2>1, <2>2, <3>1 DEF Fill
    <3>2. CASE ~(r[<<j, i - 1>>] # NOTDEF /\ r[<<j, i + 1>>] # NOTDEF)
      <4>1. Fill(g, <<j, i>>, <<j, i - 1>>, <<j, i + 1>>) = g
        BY <1>3, <2>1, <3>2 DEF Fill
      <4>2. Across(r)[<<j, i>>] = g[<<j, i>>]
        BY <1>3, <1>5, <2>2, <3>2
      <4> HIDE DEF g
      <4>3. g = [g EXCEPT ![<<j, i>>] = g[<<j, i>>]]
        BY DEF g
      <4> QED BY <4>1, <4>2, <4>3
    <3> QED BY <3>1, <3>2
  <2> QED BY <1>1, <2>3
<1> QED BY <1>4, <1>5

-----------------------------------------------------------------------------
(* The invariant.                                                           *)

\* What the arrays read make of the grids.
LEMMA SizedRead ==
  ASSUME ReadInv, pass # "none"
  PROVE  /\ Sized
         /\ \A l \in DOMAIN grid :
              /\ Raw(l) \in [Cells -> Values]
              /\ AfterV(l) \in [Cells -> Values]
              /\ AfterH(l) \in [Cells -> Values]
<1>1. Sized
  BY FieldsAssumption DEF ReadInv, Sized, ni, nj
<1>2. ASSUME NEW l \in DOMAIN grid PROVE Raw(l) \in [Cells -> Values]
  BY <1>2, RawValues DEF ReadInv, Raw, Cells, ni, nj
<1> QED BY <1>1, <1>2, DownValues, AcrossValues DEF AfterV, AfterH

LEMMA ReadStepInv == ASSUME NEW f \in Fields, GridInv, ReadStep(f) PROVE GridInv'
<1>1. /\ pass = "none" /\ step' = f /\ data' = Copied(f)
      /\ grid' = [l \in DOMAIN f.raw |-> Rowwise(f, data'[l])]
  BY DEF ReadStep
<1>2. ni' = f.ni /\ nj' = f.nj /\ f.ni \in Nat \ {0} /\ f.nj \in Nat \ {0}
  BY <1>1, FieldsAssumption DEF ni, nj
<1>3. CountersInv' /\ pass' # "none"
  BY <1>1, <1>2 DEF ReadStep, CountersInv, Cols, Inner
<1>4. ReadInv'
  BY <1>1, <1>3 DEF ReadInv
<1>5. ASSUME NEW l \in DOMAIN grid'
      PROVE  grid'[l] = Raw(l)' /\ Raw(l)' \in [Cells' -> Values]
  BY <1>1, <1>5, RawValues DEF Raw, Cells, ni, nj
<1>6. CASE f.ni < 3 \/ f.nj < 3
  <2>1. pass' = "magnitude"
    BY <1>6 DEF ReadStep
  <2>2. ASSUME NEW l \in DOMAIN grid' PROVE grid'[l] = Smoothed(Raw(l))'
    BY <1>2, <1>5, <1>6, <2>2 DEF Smoothed
  <2> QED BY <1>3, <1>4, <2>1, <2>2 DEF GridInv, FillInv
<1>7. CASE ~(f.ni < 3 \/ f.nj < 3)
  <2>1. pass' = "vertical" /\ i' = 0 /\ j' = 1
    BY <1>7 DEF ReadStep
  <2>2. ASSUME NEW l \in DOMAIN grid'
        PROVE  grid'[l] = [c \in Cells |-> IF DoneV(c) THEN AfterV(l)[c] ELSE Raw(l)[c]]'
    <3>1. ASSUME NEW c \in Cells', DoneV(c)' PROVE AfterV(l)'[c] = Raw(l)'[c]
      <4>1. c[1] \in Nat /\ c[2] \in Nat
        BY <3>1, <1>2 DEF Cells, CellsOf, Rows, Cols
      <4>2. c[1] = 0
        BY <2>1, <3>1, <4>1 DEF DoneV
      <4> QED BY <1>5, <2>2, <4>2 DEF AfterV, Down
    <3> QED BY <1>5, <2>2, <3>1
  <2> QED BY <1>3, <1>4, <2>1, <2>2 DEF GridInv, FillInv
<1> QED BY <1>6, <1>7

\* After the turn of the first pass at <<j, i>>.
LEMMA FILL_VInv == ASSUME GridInv, FILL_V PROVE GridInv'
<1>0. /\ pass = "vertical" /\ ReadInv /\ CountersInv /\ FillInv
      /\ UNCHANGED <<step, data, mag>> /\ ni' = ni /\ nj' = nj /\ Cells' = Cells
      /\ DOMAIN grid' = DOMAIN grid
  BY DEF FILL_V, FillGrids, GridInv, ni, nj, Cells, CellsOf, Rows, Cols
<1>1. /\ Sized /\ ni \in Nat /\ nj \in Nat /\ ni >= 3 /\ nj >= 3
      /\ i \in Cols(ni) /\ j \in Inner(nj) /\ i \in Nat /\ j \in Nat
  BY <1>0, SizedRead DEF CountersInv, Sized
<1>2. ASSUME NEW l \in DOMAIN grid
      PROVE  /\ Raw(l) \in [Cells -> Values] /\ AfterV(l) \in [Cells -> Values]
             /\ grid'[l] = [c \in Cells |-> IF DoneV(c) \/ c = <<j, i>> THEN AfterV(l)[c] ELSE Raw(l)[c]]
             /\ Raw(l)' = Raw(l) /\ AfterV(l)' = AfterV(l) /\ AfterH(l)' = AfterH(l)
  <2>1. Raw(l) \in [Cells -> Values] /\ AfterV(l) \in [Cells -> Values]
    BY <1>0, <1>2, SizedRead
  <2>2. grid[l] = [c \in Cells |-> IF DoneV(c) THEN AfterV(l)[c] ELSE Raw(l)[c]]
    BY <1>0, <1>2 DEF FillInv
  <2>3. grid'[l] = Fill(grid[l], <<j, i>>, <<j - 1, i>>, <<j + 1, i>>)
    BY <1>2 DEF FILL_V, FillGrids
  <2>4. grid'[l] = [c \in Cells |-> IF DoneV(c) \/ c = <<j, i>> THEN AfterV(l)[c] ELSE Raw(l)[c]]
    BY <1>1, <2>1, <2>2, <2>3, FillDown DEF AfterV
  <2>5. Raw(l)' = Raw(l) /\ AfterV(l)' = AfterV(l) /\ AfterH(l)' = AfterH(l)
    BY <1>0 DEF Raw, AfterV, AfterH, Down, Across
  <2> QED BY <2>1, <2>4, <2>5
<1>3. ReadInv'
  BY <1>0 DEF ReadInv, FILL_V
<1>4. ASSUME NEW c \in Cells
      PROVE  /\ c[1] \in Nat /\ c[2] \in Nat /\ c[1] <= nj - 1 /\ c[2] <= ni - 1
             /\ c = <<c[1], c[2]>>
             /\ \A l \in DOMAIN grid : c[1] \notin Inner(nj) => AfterV(l)[c] = Raw(l)[c]
             /\ \A l \in DOMAIN grid : c[2] \notin Inner(ni) => AfterH(l)[c] = AfterV(l)[c]
  BY <1>1, <1>2, <1>4, Neighbours, BorderStays DEF AfterV, AfterH
<1>5. CASE j + 1 < nj - 1
  <2>1. pass' = pass /\ i' = i /\ j' = j + 1
    BY <1>5 DEF FILL_V
  <2>2. ASSUME NEW c \in Cells PROVE DoneV(c)' <=> DoneV(c) \/ c = <<j, i>>
    BY <1>1, <1>4, <2>1, <2>2 DEF DoneV
  <2>3. CountersInv'
    BY <1>0, <1>1, <1>5, <2>1 DEF CountersInv, Cols, Inner
  <2>4. ASSUME NEW l \in DOMAIN grid'
        PROVE  grid'[l] = [c \in Cells |-> IF DoneV(c) THEN AfterV(l)[c] ELSE Raw(l)[c]]'
    BY <1>0, <1>2, <2>2, <2>4
  <2> QED BY <1>0, <1>3, <2>1, <2>3, <2>4 DEF GridInv, FillInv
<1>6. CASE ~(j + 1 < nj - 1) /\ i + 1 < ni
  <2>1. pass' = pass /\ i' = i + 1 /\ j' = 1
    BY <1>6 DEF FILL_V
  <2>2. ASSUME NEW c \in Cells, NEW l \in DOMAIN grid
        PROVE  (IF DoneV(c)' THEN AfterV(l)[c] ELSE Raw(l)[c])
                 = IF DoneV(c) \/ c = <<j, i>> THEN AfterV(l)[c] ELSE Raw(l)[c]
    <3>1. CASE c[1] \in Inner(nj)
      <4>1. DoneV(c)' <=> DoneV(c) \/ c = <<j, i>>
        BY <1>1, <1>4, <1>6, <2>1, <2>2, <3>1 DEF DoneV, Inner
      <4> QED BY <4>1
    <3>2. CASE c[1] \notin Inner(nj)
      BY <1>4, <2>2, <3>2
    <3> QED BY <3>1, <3>2
  <2>3. CountersInv'
    BY <1>0, <1>1, <1>6, <2>1 DEF CountersInv, Cols, Inner
  <2>4. ASSUME NEW l \in DOMAIN grid'
        PROVE  grid'[l] = [c \in Cells |-> IF DoneV(c) THEN AfterV(l)[c] ELSE Raw(l)[c]]'
    BY <1>0, <1>2, <2>2, <2>4
  <2> QED BY <1>0, <1>3, <2>1, <2>3, <2>4 DEF GridInv, FillInv
<1>7. CASE ~(j + 1 < nj - 1) /\ ~(i + 1 < ni)
  <2>1. pass' = "horizontal" /\ i' = 1 /\ j' = 0
    BY <1>7 DEF FILL_V
  <2>2. ASSUME NEW c \in Cells, NEW l \in DOMAIN grid
        PROVE  (IF DoneH(c)' THEN AfterH(l)[c] ELSE AfterV(l)[c])
                 = IF DoneV(c) \/ c = <<j, i>> THEN AfterV(l)[c] ELSE Raw(l)[c]
    <3>1. DoneH(c)' => c[2] \notin Inner(ni)
      BY <1>1, <1>4, <2>1, <2>2 DEF DoneH, Inner
    <3>2. c[1] \in Inner(nj) => DoneV(c) \/ c = <<j, i>>
      BY <1>1, <1>4, <1>7, <2>2 DEF DoneV, Inner, Cols
    <3> QED BY <1>4, <2>2, <3>1, <3>2
  <2>3. CountersInv'
    BY <1>0, <1>1, <2>1 DEF CountersInv, Rows, Inner
  <2>4. ASSUME NEW l \in DOMAIN grid'
        PROVE  grid'[l] = [c \in Cells |-> IF DoneH(c) THEN AfterH(l)[c] ELSE AfterV(l)[c]]'
    BY <1>0, <1>2, <2>2, <2>4
  <2> QED BY <1>0, <1>3, <2>1, <2>3, <2>4 DEF GridInv, FillInv
<1> QED BY <1>5, <1>6, <1>7

\* After the turn of the second pass at <<j, i>>.
LEMMA FILL_HInv == ASSUME GridInv, FILL_H PROVE GridInv'
<1>0. /\ pass = "horizontal" /\ ReadInv /\ CountersInv /\ FillInv
      /\ UNCHANGED <<step, data, mag>> /\ ni' = ni /\ nj' = nj /\ Cells' = Cells
      /\ DOMAIN grid' = DOMAIN grid
  BY DEF FILL_H, FillGrids, GridInv, ni, nj, Cells, CellsOf, Rows, Cols
<1>1. /\ Sized /\ ni \in Nat /\ nj \in Nat /\ ni >= 3 /\ nj >= 3
      /\ i \in Inner(ni) /\ j \in Rows(nj) /\ i \in Nat /\ j \in Nat
  BY <1>0, SizedRead DEF CountersInv, Sized
<1>2. ASSUME NEW l \in DOMAIN grid
      PROVE  /\ AfterV(l) \in [Cells -> Values] /\ AfterH(l) \in [Cells -> Values]
             /\ grid'[l] = [c \in Cells |-> IF DoneH(c) \/ c = <<j, i>> THEN AfterH(l)[c] ELSE AfterV(l)[c]]
             /\ Raw(l)' = Raw(l) /\ AfterV(l)' = AfterV(l) /\ AfterH(l)' = AfterH(l)
  <2>1. AfterV(l) \in [Cells -> Values] /\ AfterH(l) \in [Cells -> Values]
    BY <1>0, <1>2, SizedRead
  <2>2. grid[l] = [c \in Cells |-> IF DoneH(c) THEN AfterH(l)[c] ELSE AfterV(l)[c]]
    BY <1>0, <1>2 DEF FillInv
  <2>3. grid'[l] = Fill(grid[l], <<j, i>>, <<j, i - 1>>, <<j, i + 1>>)
    BY <1>2 DEF FILL_H, FillGrids
  <2>4. grid'[l] = [c \in Cells |-> IF DoneH(c) \/ c = <<j, i>> THEN AfterH(l)[c] ELSE AfterV(l)[c]]
    BY <1>1, <2>1, <2>2, <2>3, FillAcross DEF AfterH
  <2>5. Raw(l)' = Raw(l) /\ AfterV(l)' = AfterV(l) /\ AfterH(l)' = AfterH(l)
    BY <1>0 DEF Raw, AfterV, AfterH, Down, Across
  <2> QED BY <2>1, <2>4, <2>5
<1>3. ReadInv'
  BY <1>0 DEF ReadInv, FILL_H
<1>4. ASSUME NEW c \in Cells
      PROVE  /\ c[1] \in Nat /\ c[2] \in Nat /\ c[1] <= nj - 1 /\ c[2] <= ni - 1
             /\ c = <<c[1], c[2]>>
             /\ \A l \in DOMAIN grid : c[2] \notin Inner(ni) => AfterH(l)[c] = AfterV(l)[c]
  BY <1>1, <1>2, <1>4, Neighbours, BorderStays DEF AfterH
<1>5. CASE i + 1 < ni - 1
  <2>1. pass' = pass /\ i' = i + 1 /\ j' = j
    BY <1>5 DEF FILL_H
  <2>2. ASSUME NEW c \in Cells PROVE DoneH(c)' <=> DoneH(c) \/ c = <<j, i>>
    BY <1>1, <1>4, <2>1, <2>2 DEF DoneH
  <2>3. CountersInv'
    BY <1>0, <1>1, <1>5, <2>1 DEF CountersInv, Rows, Inner
  <2>4. ASSUME NEW l \in DOMAIN grid'
        PROVE  grid'[l] = [c \in Cells |-> IF DoneH(c) THEN AfterH(l)[c] ELSE AfterV(l)[c]]'
    BY <1>0, <1>2, <2>2, <2>4
  <2> QED BY <1>0, <1>3, <2>1, <2>3, <2>4 DEF GridInv, FillInv
<1>6. CASE ~(i + 1 < ni - 1) /\ j + 1 < nj
  <2>1. pass' = pass /\ j' = j + 1 /\ i' = 1
    BY <1>6 DEF FILL_H
  <2>2. ASSUME NEW c \in Cells, NEW l \in DOMAIN grid
        PROVE  (IF DoneH(c)' THEN AfterH(l)[c] ELSE AfterV(l)[c])
                 = IF DoneH(c) \/ c = <<j, i>> THEN AfterH(l)[c] ELSE AfterV(l)[c]
    <3>1. CASE c[2] \in Inner(ni)
      <4>1. DoneH(c)' <=> DoneH(c) \/ c = <<j, i>>
        BY <1>1, <1>4, <1>6, <2>1, <2>2, <3>1 DEF DoneH, Inner
      <4> QED BY <4>1
    <3>2. CASE c[2] \notin Inner(ni)
      BY <1>4, <2>2, <3>2
    <3> QED BY <3>1, <3>2
  <2>3. CountersInv'
    BY <1>0, <1>1, <1>6, <2>1 DEF CountersInv, Rows, Inner
  <2>4. ASSUME NEW l \in DOMAIN grid'
        PROVE  grid'[l] = [c \in Cells |-> IF DoneH(c) THEN AfterH(l)[c] ELSE AfterV(l)[c]]'
    BY <1>0, <1>2, <2>2, <2>4
  <2> QED BY <1>0, <1>3, <2>1, <2>3, <2>4 DEF GridInv, FillInv
<1>7. CASE ~(i + 1 < ni - 1) /\ ~(j + 1 < nj)
  <2>1. pass' = "magnitude" /\ i' = 0 /\ j' = 0
    BY <1>7 DEF FILL_H
  <2>2. ASSUME NEW c \in Cells PROVE c[2] \in Inner(ni) => DoneH(c) \/ c = <<j, i>>
    BY <1>1, <1>4, <1>7, <2>2 DEF DoneH, Inner, Rows
  <2>3. CountersInv'
    BY <1>0, <2>1 DEF CountersInv
  <2>4. ASSUME NEW l \in DOMAIN grid' PROVE grid'[l] = Smoothed(Raw(l))'
    <3>1. grid'[l] = AfterH(l)
      BY <1>0, <1>2, <1>4, <2>2, <2>4
    <3>2. Smoothed(Raw(l))' = AfterH(l)'
      BY <1>0, <1>1 DEF Smoothed, AfterH, AfterV
    <3> QED BY <1>0, <1>2, <2>4, <3>1, <3>2
  <2> QED BY <1>0, <1>3, <2>1, <2>3, <2>4 DEF GridInv, FillInv
<1> QED BY <1>5, <1>6, <1>7

LEMMA GridInvStep == GridInv /\ GridNext => GridInv'
<1> SUFFICES ASSUME GridInv, GridNext PROVE GridInv'
  OBVIOUS
<1>1. ASSUME NEW f \in Fields, ReadStep(f) PROVE GridInv'
  BY <1>1, ReadStepInv
<1>2. CASE Magnitude
  <2>1. pass = "magnitude" /\ pass' = "done" /\ UNCHANGED <<step, data, grid, i, j>>
    BY <1>2 DEF Magnitude
  <2>0. ASSUME NEW l PROVE Smoothed(Raw(l))' = Smoothed(Raw(l))
    BY <2>1 DEF Smoothed, Raw, Across, Down, ni, nj
  <2>2. FillInv'
    BY <2>0, <2>1 DEF GridInv, FillInv
  <2> QED BY <2>1, <2>2 DEF GridInv, ReadInv, CountersInv, ni, nj
<1> QED BY <1>1, <1>2, FILL_VInv, FILL_HInv DEF GridNext

LEMMA GridInvUnchanged == GridInv /\ UNCHANGED gridVars => GridInv'
<1> SUFFICES ASSUME GridInv, UNCHANGED gridVars PROVE GridInv'
  OBVIOUS
<1>1. ni' = ni /\ nj' = nj /\ Cells' = Cells
  BY DEF gridVars, ni, nj, Cells
<1>2. ReadInv' /\ CountersInv'
  BY <1>1 DEF gridVars, GridInv, ReadInv, CountersInv
<1>a. ASSUME NEW l
      PROVE  /\ Raw(l)' = Raw(l) /\ AfterV(l)' = AfterV(l) /\ AfterH(l)' = AfterH(l)
             /\ Smoothed(Raw(l))' = Smoothed(Raw(l))
  BY <1>1 DEF gridVars, Smoothed, Raw, AfterV, AfterH, Across, Down
<1>b. ASSUME NEW c PROVE (DoneV(c)' <=> DoneV(c)) /\ (DoneH(c)' <=> DoneH(c))
  BY DEF gridVars, DoneV, DoneH
<1>c. ASSUME FillInv, NEW l \in DOMAIN grid
      PROVE  /\ pass = "vertical" =>
                  grid'[l] = [c \in Cells' |-> IF DoneV(c)' THEN AfterV(l)'[c] ELSE Raw(l)'[c]]
             /\ pass = "horizontal" =>
                  grid'[l] = [c \in Cells' |-> IF DoneH(c)' THEN AfterH(l)'[c] ELSE AfterV(l)'[c]]
             /\ pass \in {"magnitude", "done"} => grid'[l] = Smoothed(Raw(l))'
  BY <1>1, <1>a, <1>b, <1>c DEF gridVars, FillInv
<1>3. pass # "none" => FillInv'
  BY <1>c DEF gridVars, GridInv, FillInv
<1> QED BY <1>2, <1>3 DEF GridInv, gridVars

LEMMA GridInitInv == GridInit => GridInv
BY DEF GridInit, GridInv, ReadInv, CountersInv

THEOREM GridAlways == GridSpec => []GridInv
BY GridInitInv, GridInvStep, GridInvUnchanged, PTL DEF GridSpec

-----------------------------------------------------------------------------
(* What follows from it.                                                    *)

\* Each grid is, in each cell, one of the three.
LEMMA GridIsOneOf ==
  ASSUME GridInv, pass # "none"
  PROVE  \A l \in DOMAIN grid :
           \/ grid[l] = [c \in Cells |-> IF DoneV(c) THEN AfterV(l)[c] ELSE Raw(l)[c]]
           \/ grid[l] = [c \in Cells |-> IF DoneH(c) THEN AfterH(l)[c] ELSE AfterV(l)[c]]
           \/ grid[l] = Raw(l)
           \/ grid[l] = AfterH(l)
BY DEF GridInv, CountersInv, FillInv, Smoothed, AfterH, AfterV

LEMMA GridInvTypeOK == GridInv => GridTypeOK
<1> SUFFICES ASSUME GridInv PROVE GridTypeOK
  OBVIOUS
<1>1. ASSUME pass # "none", NEW l \in DOMAIN grid PROVE grid[l] \in [Cells -> Values]
  <2>1. Raw(l) \in [Cells -> Values] /\ AfterV(l) \in [Cells -> Values] /\ AfterH(l) \in [Cells -> Values]
    BY <1>1, SizedRead DEF GridInv
  <2> QED BY <1>1, <2>1, GridIsOneOf
<1>2. pass # "none" => ni > 0 /\ nj > 0
  BY SizedRead DEF GridInv, Sized
<1> QED BY <1>1, <1>2 DEF GridInv, GridTypeOK, ReadInv, CountersInv

\* Every grid has a value of its type in every cell, whichever turn of the loops it
\* is: no turn reads or writes outside the grid.
THEOREM GridsAreTyped == GridSpec => []GridTypeOK
BY GridAlways, GridInvTypeOK, PTL

\* FillAllGrids works in place and is nevertheless the filling of all cells at once
\* (ncdf_reader.cpp:47), for grids of any size and gaps of any shape.
LEMMA GridInvSimultaneous == GridInv => FillIsSimultaneous
BY DEF GridInv, FillInv, FillIsSimultaneous, Raw

THEOREM FillsAtOnce == GridSpec => []FillIsSimultaneous
BY GridAlways, GridInvSimultaneous, PTL

-----------------------------------------------------------------------------
\* Two grids have their values at the same cells.
Twins(g, h) == \A c \in Cells : g[c] = NOTDEF <=> h[c] = NOTDEF

LEMMA DownKeepsTwins ==
  ASSUME Sized, NEW g \in [Cells -> Values], NEW h \in [Cells -> Values], Twins(g, h)
  PROVE  Twins(Down(g), Down(h)) /\ Twins(Across(g), Across(h))
<1>1. ASSUME NEW c \in Cells PROVE Down(g)[c] = NOTDEF <=> Down(h)[c] = NOTDEF
  <2>1. CASE c[1] \in Inner(nj)
    <3>1. <<c[1] - 1, c[2]>> \in Cells /\ <<c[1] + 1, c[2]>> \in Cells
      BY <2>1, Neighbours
    <3> QED BY <2>1, <3>1, MeanIsInt, NotdefAssumption DEF Down, Twins, Values, Inner
  <2>2. CASE c[1] \notin Inner(nj)
    BY <2>2, BorderStays DEF Twins
  <2> QED BY <2>1, <2>2
<1>2. ASSUME NEW c \in Cells PROVE Across(g)[c] = NOTDEF <=> Across(h)[c] = NOTDEF
  <2>1. CASE c[2] \in Inner(ni)
    <3>1. <<c[1], c[2] - 1>> \in Cells /\ <<c[1], c[2] + 1>> \in Cells
      BY <2>1, Neighbours
    <3> QED BY <2>1, <3>1, MeanIsInt, NotdefAssumption DEF Across, Twins, Values, Inner
  <2>2. CASE c[2] \notin Inner(ni)
    BY <2>2, BorderStays DEF Twins
  <2> QED BY <2>1, <2>2
<1> QED BY <1>1, <1>2 DEF Twins

\* The copy that readTimeStepData makes has both components or none.
LEMMA RawTwins ==
  ASSUME ReadInv, pass # "none", "u" \in DOMAIN grid
  PROVE  "v" \in DOMAIN grid /\ Twins(Raw("u"), Raw("v"))
<1>1. step \in Fields /\ data = Copied(step) /\ "u" \in DOMAIN step.raw /\ "v" \in DOMAIN step.raw
  BY FieldsAssumption DEF ReadInv
<1>2. ni \in Nat \ {0} /\ nj \in Nat \ {0} /\ step.ni = ni /\ step.nj = nj
  BY <1>1, FieldsAssumption DEF ni, nj
<1>3. ASSUME NEW c \in Cells PROVE Raw("u")[c] = NOTDEF <=> Raw("v")[c] = NOTDEF
  <2>1. c[1] * ni + c[2] \in 0 .. ni * nj - 1
    BY <1>2, CellParts, RowIndex DEF Cells
  <2>2. /\ step.raw["u"] \in [0 .. ni * nj - 1 -> Int \cup {NOTDEF}]
        /\ step.raw["v"] \in [0 .. ni * nj - 1 -> Int \cup {NOTDEF}]
    BY <1>1, <1>2, FieldsAssumption
  <2> DEFINE k == c[1] * ni + c[2]
  <2>3. data["u"][k] = NOTDEF <=> data["v"][k] = NOTDEF
    <3> HIDE DEF k
    <3>1. k \in DOMAIN step.raw["u"] /\ k \in DOMAIN step.raw["v"]
      BY <2>1, <2>2 DEF k
    <3> QED BY <1>1, <3>1 DEF Copied
  <2>4. Raw("u")[c] = data["u"][k] /\ Raw("v")[c] = data["v"][k]
    BY <1>2 DEF Raw, Rowwise, Cells
  <2> QED BY <2>3, <2>4
<1> QED BY <1>1, <1>3 DEF Twins, ReadInv

LEMMA GridInvWhole == GridInv => CurrentIsWhole
<1> SUFFICES ASSUME GridInv, "u" \in DOMAIN grid, NEW c \in Cells
             PROVE  grid["u"][c] = NOTDEF <=> grid["v"][c] = NOTDEF
  BY DEF CurrentIsWhole
<1>1. pass # "none"
  BY DEF GridInv, ReadInv
<1>2. "v" \in DOMAIN grid /\ Twins(Raw("u"), Raw("v"))
  BY <1>1, RawTwins DEF GridInv
<1>3. Twins(AfterV("u"), AfterV("v")) /\ Twins(AfterH("u"), AfterH("v"))
  BY <1>1, <1>2, SizedRead, DownKeepsTwins DEF GridInv, AfterV, AfterH
<1>4. CASE pass = "vertical"
  BY <1>1, <1>2, <1>3, <1>4 DEF GridInv, FillInv, Twins
<1>5. CASE pass = "horizontal"
  BY <1>1, <1>2, <1>3, <1>5 DEF GridInv, FillInv, Twins
<1>6. CASE pass \in {"magnitude", "done"}
  BY <1>1, <1>2, <1>3, <1>6 DEF GridInv, FillInv, Smoothed, AfterV, AfterH, Twins
<1> QED BY <1>1, <1>4, <1>5, <1>6 DEF GridInv, CountersInv

\* No point of the chart ever has one component of the current without the other
\* (ncdf.cpp:1421, ncdf_reader.cpp:47), in the middle of filling either.
THEOREM CurrentStaysWhole == GridSpec => []CurrentIsWhole
BY GridAlways, GridInvWhole, PTL

-----------------------------------------------------------------------------
\* The value x lies within values that g has near the cell, among those of S.
Within(x, g, S) ==
  \E d, e \in S : g[d] # NOTDEF /\ g[e] # NOTDEF /\ g[d] <= x /\ x <= g[e]

InColumn(c) == {d \in Cells : d[2] = c[2] /\ d[1] - c[1] \in -1 .. 1}
InRow(c)    == {d \in Cells : d[1] = c[1] /\ d[2] - c[2] \in -1 .. 1}

LEMMA DownIsWithin ==
  ASSUME Sized, NEW g \in [Cells -> Values], NEW c \in Cells, Down(g)[c] # NOTDEF
  PROVE  Down(g)[c] \in Int /\ Within(Down(g)[c], g, InColumn(c))
<1>0. c[1] \in Nat /\ c[2] \in Nat
  BY Neighbours
<1>1. c[1] \in Nat /\ c[2] \in Nat /\ c \in InColumn(c)
  BY <1>0 DEF InColumn
<1>2. CASE Down(g)[c] = g[c]
  <2>1. g[c] \in Int
    BY <1>2 DEF Values
  <2> QED BY <1>1, <1>2, <2>1 DEF Within
<1>3. CASE Down(g)[c] # g[c]
  <2> DEFINE a == <<c[1] - 1, c[2]>>
             b == <<c[1] + 1, c[2]>>
  <2>1. c[1] \in Inner(nj) /\ g[a] # NOTDEF /\ g[b] # NOTDEF /\ Down(g)[c] = Mean(g[a], g[b])
    BY <1>3 DEF Down, Inner
  <2>2. a \in Cells /\ b \in Cells
    BY <2>1, Neighbours
  <2>3. a \in InColumn(c) /\ b \in InColumn(c)
    BY <1>1, <2>2 DEF InColumn
  <2> HIDE DEF a, b
  <2>4. g[a] \in Int /\ g[b] \in Int
    BY <2>1, <2>2 DEF Values
  <2>5. Mean(g[a], g[b]) \in Int
    BY <2>4, MeanIsInt
  <2>6. \/ g[a] <= Mean(g[a], g[b]) /\ Mean(g[a], g[b]) <= g[b]
        \/ g[b] <= Mean(g[a], g[b]) /\ Mean(g[a], g[b]) <= g[a]
    BY <2>4, MeanIsBetween
  <2> QED BY <2>1, <2>3, <2>5, <2>6 DEF Within
<1> QED BY <1>2, <1>3

LEMMA AcrossIsWithin ==
  ASSUME Sized, NEW g \in [Cells -> Values], NEW c \in Cells, Across(g)[c] # NOTDEF
  PROVE  Across(g)[c] \in Int /\ Within(Across(g)[c], g, InRow(c))
<1>0. c[1] \in Nat /\ c[2] \in Nat
  BY Neighbours
<1>1. c[1] \in Nat /\ c[2] \in Nat /\ c \in InRow(c)
  BY <1>0 DEF InRow
<1>2. CASE Across(g)[c] = g[c]
  <2>1. g[c] \in Int
    BY <1>2 DEF Values
  <2> QED BY <1>1, <1>2, <2>1 DEF Within
<1>3. CASE Across(g)[c] # g[c]
  <2> DEFINE a == <<c[1], c[2] - 1>>
             b == <<c[1], c[2] + 1>>
  <2>1. c[2] \in Inner(ni) /\ g[a] # NOTDEF /\ g[b] # NOTDEF /\ Across(g)[c] = Mean(g[a], g[b])
    BY <1>3 DEF Across, Inner
  <2>2. a \in Cells /\ b \in Cells
    BY <2>1, Neighbours
  <2>3. a \in InRow(c) /\ b \in InRow(c)
    BY <1>1, <2>2 DEF InRow
  <2> HIDE DEF a, b
  <2>4. g[a] \in Int /\ g[b] \in Int
    BY <2>1, <2>2 DEF Values
  <2>5. Mean(g[a], g[b]) \in Int
    BY <2>4, MeanIsInt
  <2>6. \/ g[a] <= Mean(g[a], g[b]) /\ Mean(g[a], g[b]) <= g[b]
        \/ g[b] <= Mean(g[a], g[b]) /\ Mean(g[a], g[b]) <= g[a]
    BY <2>4, MeanIsBetween
  <2> QED BY <2>1, <2>3, <2>5, <2>6 DEF Within
<1> QED BY <1>2, <1>3

\* Two passes reach the three by three block around a cell, and no further.
LEMMA SmoothedIsWithin ==
  ASSUME Sized, NEW g \in [Cells -> Values], NEW c \in Cells, Smoothed(g)[c] # NOTDEF
  PROVE  Within(Smoothed(g)[c], g, Around(c))
<1>0. c[1] \in Nat /\ c[2] \in Nat
  BY Neighbours
<1>1. c[1] \in Nat /\ c[2] \in Nat /\ c \in Around(c)
  BY <1>0 DEF Around
<1>2. CASE ni < 3 \/ nj < 3
  <2>1. Smoothed(g)[c] = g[c] /\ g[c] \in Int
    BY <1>2 DEF Smoothed, Values
  <2> QED BY <1>1, <2>1 DEF Within
<1>3. CASE ~(ni < 3 \/ nj < 3)
  <2> DEFINE h == Down(g)
             x == Across(h)[c]
  <2>1. Smoothed(g)[c] = x /\ h \in [Cells -> Values]
    BY <1>3, DownValues DEF Smoothed
  <2>2. x \in Int /\ Within(x, h, InRow(c))
    BY <2>1, AcrossIsWithin
  <2>3. PICK d \in InRow(c), e \in InRow(c) : h[d] # NOTDEF /\ h[e] # NOTDEF /\ h[d] <= x /\ x <= h[e]
    BY <2>2 DEF Within
  <2>4. d \in Cells /\ e \in Cells /\ h[d] \in Int /\ h[e] \in Int
        /\ Within(h[d], g, InColumn(d)) /\ Within(h[e], g, InColumn(e))
    BY <2>3, DownIsWithin DEF InRow
  <2>5. PICK d1 \in InColumn(d) : g[d1] # NOTDEF /\ g[d1] <= h[d]
    BY <2>4 DEF Within
  <2>6. PICK e1 \in InColumn(e) : g[e1] # NOTDEF /\ h[e] <= g[e1]
    BY <2>4 DEF Within
  <2>7. d1 \in Cells /\ e1 \in Cells /\ g[d1] \in Int /\ g[e1] \in Int
    BY <2>5, <2>6 DEF InColumn, Values
  <2>8. d1 \in Around(c) /\ e1 \in Around(c)
    BY <2>3, <2>5, <2>6 DEF InRow, InColumn, Around
  <2>9. g[d1] <= x /\ x <= g[e1]
    <3> HIDE DEF h, x
    <3> QED BY <2>2, <2>3, <2>4, <2>5, <2>6, <2>7
  <2> QED BY <2>1, <2>5, <2>6, <2>8, <2>9 DEF Within
<1> QED BY <1>2, <1>3

LEMMA GridInvLocal == GridInv => GapsAreBridgedLocally
<1> SUFFICES ASSUME GridInv, pass = "done", NEW l \in DOMAIN grid, NEW c \in Cells,
                    grid[l][c] # NOTDEF
             PROVE  /\ \E x \in Measured(l, c) : x <= grid[l][c]
                    /\ \E x \in Measured(l, c) : x >= grid[l][c]
  BY DEF GapsAreBridgedLocally
<1>1. Sized /\ Raw(l) \in [Cells -> Values] /\ grid[l] = Smoothed(Raw(l))
  BY SizedRead DEF GridInv, FillInv
<1>2. Within(grid[l][c], Raw(l), Around(c))
  BY <1>1, SmoothedIsWithin
<1>3. PICK d \in Around(c), e \in Around(c) :
        /\ Raw(l)[d] # NOTDEF /\ Raw(l)[e] # NOTDEF
        /\ Raw(l)[d] <= grid[l][c] /\ grid[l][c] <= Raw(l)[e]
  BY <1>2 DEF Within
<1>4. ASSUME NEW b \in Around(c) PROVE Raw(l)[b] = data[l][b[1] * ni + b[2]]
  BY <1>4 DEF Raw, Rowwise, Around, Cells, ni, nj
<1>5. Raw(l)[d] \in Measured(l, c) /\ Raw(l)[e] \in Measured(l, c)
  BY <1>3, <1>4 DEF Measured
<1>6. Raw(l)[e] \in Int /\ grid[l][c] \in Int
  <2>1. grid[l][c] \in Values /\ Raw(l)[e] \in Values
    <3>1. Smoothed(Raw(l)) \in [Cells -> Values]
      BY <1>1, DownValues, AcrossValues DEF Smoothed
    <3> QED BY <1>1, <1>3, <3>1 DEF Around
  <2> QED BY <1>3, <2>1 DEF Values
<1>7. Raw(l)[e] >= grid[l][c]
  BY <1>3, <1>6
<1> QED BY <1>3, <1>5, <1>7

\* No value is carried over land or out to sea (ncdf_reader.cpp:47): whatever is on
\* the chart lies within what was measured in the block around it.
THEOREM GapsStayLocal == GridSpec => []GapsAreBridgedLocally
BY GridAlways, GridInvLocal, PTL
-----------------------------------------------------------------------------
(* Arithmetic of the interpolation.                                         *)

LEMMA Multiples ==
  ASSUME NEW b \in Nat \ {0}, NEW k \in Int
  PROVE  (k >= 1 => b * k >= b) /\ (k <= -1 => b * k <= -b)
<1>1. k >= 1 => b * k >= b
  OBVIOUS
<1>2. k <= -1 => b * k <= -b
  OBVIOUS
<1> QED BY <1>1, <1>2

LEMMA PositiveFactor ==
  ASSUME NEW b \in Nat \ {0}, NEW k \in Int, b * k > 0
  PROVE  k >= 1
<1>1. b * 0 = 0
  OBVIOUS
<1>2. k # 0 /\ ~(k <= -1)
  BY <1>1, Multiples
<1> QED BY <1>2

LEMMA Quotient ==
  ASSUME NEW q \in Int, NEW r \in Int, NEW b \in Nat \ {0}, 0 <= r, r < b
  PROVE  (b * q + r) \div b = q
<1> DEFINE x == b * q + r
           d == x \div b
<1>1. x \in Int /\ d \in Int /\ b * d <= x /\ x < b * d + b
  <2>1. \A y \in Int : y \div b \in Int /\ b * (y \div b) <= y /\ y < b * (y \div b) + b
    OBVIOUS
  <2> QED BY <2>1
<1>2. b * (q - d) = b * q - b * d
  OBVIOUS
<1>3. b * (q - d) < b /\ b * (q - d) > -b
  BY <1>1, <1>2
<1> HIDE DEF d, x
<1>4. q - d \in Int /\ ~(q - d >= 1) /\ ~(q - d <= -1)
  BY <1>1, <1>3, Multiples
<1> QED BY <1>1, <1>4 DEF d, x

LEMMA ExactQuotient == ASSUME NEW q \in Int, NEW b \in Nat \ {0} PROVE (b * q) \div b = q
BY Quotient

\* A position that is not negative: its cell, and the rest.
LEMMA CellAndRest ==
  ASSUME NEW p \in Nat
  PROVE  /\ Whole(p) \in Nat /\ Rest(p) \in 0 .. Parts - 1 /\ p = Parts * Whole(p) + Rest(p)
         /\ \A k \in Int, r \in 0 .. Parts - 1 : p = Parts * k + r => Whole(p) = k /\ Rest(p) = r
<1>0. Parts \in Nat \ {0}
  BY CircleAssumption
<1>1. Whole(p) = p \div Parts /\ Rest(p) = p - Parts * Whole(p)
  BY DEF Whole, Rest
<1>2. /\ p \div Parts \in Int /\ Parts * (p \div Parts) <= p /\ p < Parts * (p \div Parts) + Parts
  BY <1>0
<1>3. p \div Parts >= 0
  <2>1. ~(p \div Parts <= -1)
    BY <1>0, <1>2, Multiples
  <2> QED BY <1>2, <2>1
<1>4. ASSUME NEW k \in Int, NEW r \in 0 .. Parts - 1, p = Parts * k + r PROVE Whole(p) = k /\ Rest(p) = r
  <2>1. p \div Parts = k
    BY <1>0, <1>4, Quotient
  <2>2. Parts * k \in Int
    BY <1>0
  <2> QED BY <1>1, <1>4, <2>1, <2>2
<1>5. Parts * (p \div Parts) \in Int
  BY <1>0, <1>2
<1> QED BY <1>0, <1>1, <1>2, <1>3, <1>4, <1>5

LEMMA HermiteTurns == ASSUME NEW r \in Int PROVE Hermite(Parts - r) = One - Hermite(r) /\ Hermite(r) \in Int /\ One \in Int
BY CircleAssumption DEF Hermite, One

LEMMA HermiteGrows ==
  ASSUME NEW r \in 0 .. Parts
  PROVE  Hermite(r) \in 0 .. One /\ Hermite(0) = 0
<1> USE CircleAssumption
<1>1. One - Hermite(r) = (Parts - r) * (Parts - r) * (Parts + 2 * r)
  BY DEF One, Hermite
<1>2. \A x, y \in Int : x >= 0 /\ y >= 0 => x * y >= 0
  OBVIOUS
<1>3. /\ (Parts - r) * (Parts - r) \in Int /\ (Parts - r) * (Parts - r) >= 0
      /\ Parts + 2 * r \in Int /\ Parts + 2 * r >= 0
  OBVIOUS
<1>4. r * r \in Int /\ r * r >= 0 /\ 3 * Parts - 2 * r \in Int /\ 3 * Parts - 2 * r >= 0
  OBVIOUS
<1>5. (Parts - r) * (Parts - r) * (Parts + 2 * r) >= 0
  BY <1>2, <1>3
<1>6. Hermite(r) = (3 * Parts - 2 * r) * (r * r)
  BY DEF Hermite
<1>7. (3 * Parts - 2 * r) * (r * r) >= 0
  BY <1>2, <1>4
<1>8. One \in Int /\ Hermite(r) \in Int /\ Hermite(0) = 0
  BY DEF One, Hermite
<1> QED BY <1>1, <1>5, <1>6, <1>7, <1>8

-----------------------------------------------------------------------------
(* Where a grid lies.                                                       *)

\* A map of the grid, with the distances that nc_get computes.
LEMMA MapParts ==
  ASSUME Sized, NEW m \in Maps
  PROVE  /\ m.ni = ni /\ m.nj = nj /\ m.lon \in Int /\ m.lat \in Int
         /\ m.lastLon = m.lon + Parts * (ni - 1) /\ m.lastLon \in Int
         /\ m.lastLat = m.lat + m.dj * (nj - 1) /\ m.lastLat \in Int
         /\ m.di = IF ni > 1 THEN Parts ELSE 0
         /\ IF nj > 1 THEN m.dj \in {Parts, -Parts} ELSE m.dj = 0
<1>1. PICK p \in Places : m = MapOf(ni, nj, p.lon, p.lon + Parts * (ni - 1), p.lat, p.lat + p.dj * (nj - 1))
  BY DEF Maps
<1>2. /\ p.lon \in Int /\ p.lat \in Int /\ p.dj \in {Parts, -Parts} /\ Parts \in Nat \ {0}
      /\ ni \in Nat \ {0} /\ nj \in Nat \ {0}
  BY PlacesAssumption, CircleAssumption DEF Sized
<1>3. /\ m.ni = ni /\ m.nj = nj /\ m.lon = p.lon /\ m.lat = p.lat
      /\ m.lastLon = p.lon + Parts * (ni - 1) /\ m.lastLat = p.lat + p.dj * (nj - 1)
      /\ m.di = Increment(p.lon, p.lon + Parts * (ni - 1), ni)
      /\ m.dj = Increment(p.lat, p.lat + p.dj * (nj - 1), nj)
  BY <1>1 DEF MapOf
<1>4. ASSUME NEW first \in Int, NEW by \in Int, NEW n \in Nat \ {0}
      PROVE  Increment(first, first + by * (n - 1), n) = IF n > 1 THEN by ELSE 0
  <2>1. CASE n > 1
    <3>1. ((n - 1) * by) \div (n - 1) = by
      BY <2>1, ExactQuotient
    <3>2. (first + by * (n - 1)) - first = (n - 1) * by
      OBVIOUS
    <3> QED BY <2>1, <3>1, <3>2 DEF Increment
  <2>2. CASE n = 1
    <3>1. (1 * 0) \div 1 = 0 /\ by * (1 - 1) = 0
      BY ExactQuotient
    <3> QED BY <2>2, <3>1 DEF Increment
  <2> QED BY <2>1, <2>2
<1>5. m.di = (IF ni > 1 THEN Parts ELSE 0) /\ m.dj = (IF nj > 1 THEN p.dj ELSE 0)
  <2>1. Parts \in Int /\ p.dj \in Int
    BY <1>2
  <2>2. Increment(p.lon, p.lon + Parts * (ni - 1), ni) = IF ni > 1 THEN Parts ELSE 0
    BY <1>2, <1>4, <2>1, Zenon
  <2>3. Increment(p.lat, p.lat + p.dj * (nj - 1), nj) = IF nj > 1 THEN p.dj ELSE 0
    BY <1>2, <1>4, <2>1, Zenon
  <2> QED BY <1>3, <2>2, <2>3
<1>6. Parts * (ni - 1) \in Int /\ p.dj * (nj - 1) \in Int
  BY <1>2
<1>7. m.lastLat = m.lat + m.dj * (nj - 1)
  <2>1. CASE nj > 1
    BY <1>3, <1>5, <2>1
  <2>2. CASE nj = 1
    <3>1. p.dj * (1 - 1) = 0 /\ 0 * (1 - 1) = 0
      BY <1>2
    <3> QED BY <1>3, <1>5, <2>2, <3>1
  <2> QED BY <1>2, <2>1, <2>2
<1> QED BY <1>2, <1>3, <1>5, <1>6, <1>7

\* Inside the data the two turning functions leave a longitude as it is, and the
\* position in the grid is the distance from its first point.
LEMMA InTheData ==
  ASSUME Sized, NEW m \in Maps, m.di # 0, NEW x \in Int, m.lon <= x, x < DataEnd(m)
  PROVE  /\ Normalized(m, x) = x
         /\ Column(m, x) = x - m.lon
         /\ DataEnd(m) = m.lon + Parts * ni /\ m.di = Parts /\ ni > 1 /\ Parts * ni \in Int
<1>0. /\ Parts \in Nat \ {0} /\ Circle \in Nat \ {0} /\ ni \in Nat /\ m.lon \in Int
      /\ m.lastLon = m.lon + Parts * (ni - 1) /\ m.lastLon \in Int /\ m.di = Parts /\ ni > 1
  BY CircleAssumption, MapParts DEF Sized
<1>1. DataEnd(m) = m.lon + Parts * ni /\ Parts * ni \in Int /\ DataEnd(m) \in Int
  BY <1>0 DEF DataEnd
<1>2. ASSUME NEW d \in Int, d <= 0 PROVE TurnsTo(d) = 0
  BY <1>2 DEF TurnsTo
<1>3. TurnsTo(x - DataEnd(m)) = 0 /\ TurnsTo(m.lon - x) = 0
  BY <1>0, <1>1, <1>2
<1>4. Normalized(m, x) = x
  <2>1. Circle * 0 = 0
    BY <1>0
  <2>2. x - Circle * TurnsTo(x - DataEnd(m)) = x
    BY <1>3, <2>1
  <2>3. x + Circle * TurnsTo(m.lon - x) = x
    BY <1>3, <2>1
  <2> QED BY <2>2, <2>3 DEF Normalized
<1>5. Column(m, x) = x - m.lon
  <2>1. (Parts * (x - m.lon)) \div Parts = x - m.lon
    BY <1>0, ExactQuotient
  <2> QED BY <1>0, <2>1 DEF Column, InParts
<1> QED BY <1>0, <1>1, <1>4, <1>5

\* A latitude in the data: the position in the grid, from its first row.
LEMMA RowInTheData ==
  ASSUME Sized, NEW m \in Maps, m.dj # 0, NEW y \in Latitudes(m)
  PROVE  /\ y \in Int /\ isYInMap(m, y) /\ nj > 1 /\ m.dj \in {Parts, -Parts}
         /\ Row(m, y) = (IF m.dj > 0 THEN y - m.lat ELSE m.lat - y)
         /\ Row(m, y) \in 0 .. Parts * (nj - 1) /\ Parts * (nj - 1) \in Int
<1>0. /\ Parts \in Nat \ {0} /\ nj \in Nat /\ m.lat \in Int /\ nj > 1 /\ m.dj \in {Parts, -Parts}
      /\ m.lastLat = m.lat + m.dj * (nj - 1) /\ m.lastLat \in Int
  BY CircleAssumption, MapParts DEF Sized
<1>1. y \in Int /\ isYInMap(m, y)
  BY <1>0 DEF Latitudes, isYInMap
<1>2. Parts * (nj - 1) \in Int /\ (-Parts) * (nj - 1) = -(Parts * (nj - 1))
  BY <1>0
<1>3. CASE m.dj = Parts
  <2>1. (Parts * (y - m.lat)) \div Parts = y - m.lat
    BY <1>0, <1>1, ExactQuotient
  <2>2. Row(m, y) = y - m.lat
    BY <1>0, <1>3, <2>1 DEF Row, InParts
  <2>3. m.lat <= y /\ y <= m.lat + Parts * (nj - 1)
    BY <1>0, <1>3 DEF Latitudes
  <2> QED BY <1>0, <1>1, <1>2, <1>3, <2>2, <2>3
<1>4. CASE m.dj = -Parts
  <2>1. (Parts * (m.lat - y)) \div Parts = m.lat - y
    BY <1>0, <1>1, ExactQuotient
  <2>2. -Parts * (y - m.lat) = Parts * (m.lat - y) /\ -(-Parts) = Parts /\ ~(-Parts > 0)
    <3>1. \A P, a, b \in Int : -P * (a - b) = P * (b - a) /\ -(-P) = P
      OBVIOUS
    <3> QED BY <1>0, <1>1, <3>1
  <2>3. Row(m, y) = m.lat - y
    BY <1>0, <1>4, <2>1, <2>2 DEF Row, InParts
  <2>4. m.lat - Parts * (nj - 1) <= y /\ y <= m.lat
    BY <1>0, <1>2, <1>4 DEF Latitudes
  <2> QED BY <1>0, <1>1, <1>2, <1>4, <2>3, <2>4
<1> QED BY <1>0, <1>3, <1>4

\* A longitude and a latitude in the data are in the map at once.
LEMMA AtOnce ==
  ASSUME Sized, NEW m \in Maps, m.di # 0, m.dj # 0, NEW x \in Longitudes(m), NEW y \in Latitudes(m)
  PROVE  /\ x \in Int /\ m.lon <= x /\ x < DataEnd(m)
         /\ isPointInMap(m, x, y) /\ Turned(m, x, y) = x /\ Placed(m, x, y) = x
<1>0. /\ Parts \in Nat \ {0} /\ Circle \in Nat \ {0} /\ ni \in Nat /\ m.lon \in Int
      /\ m.lastLon = m.lon + Parts * (ni - 1) /\ m.lastLon \in Int /\ m.di = Parts /\ ni > 1
  BY CircleAssumption, MapParts DEF Sized
<1>1. DataEnd(m) \in Int /\ DataEnd(m) > m.lastLon
  BY <1>0 DEF DataEnd
<1>2. x \in Int /\ m.lon <= x /\ x < DataEnd(m) /\ (Global(m) \/ x <= m.lastLon)
  BY <1>0, <1>1 DEF Longitudes
<1>3. isXInMap(m, x)
  BY <1>0, <1>2 DEF isXInMap, Unrolled
<1>4. isPointInMap(m, x, y)
  BY <1>3, RowInTheData DEF isPointInMap
<1>5. Turned(m, x, y) = x
  BY <1>4 DEF Turned
<1> QED BY <1>2, <1>4, <1>5, InTheData DEF Placed

\* What getInterpolatedValue reads at a longitude that has been placed.
ReadAt(m, g, px, y) ==
  LET c == Corners(m, px, y)
  IN  IF \A k \in 1 .. 4 : hasValue(m, g, c[k][1], c[k][2])
      THEN Blend(g[c[1]], g[c[2]], g[c[3]], g[c[4]], Rest(Column(m, px)), Rest(Row(m, y)))
      ELSE NOTDEF

LEMMA ReadInside ==
  ASSUME Sized, NEW m \in Maps, NEW x \in Longitudes(m), NEW y \in Latitudes(m), NEW g
  PROVE  Interpolated(m, g, x, y) = IF m.di = 0 \/ m.dj = 0 THEN NOTDEF ELSE ReadAt(m, g, x, y)
<1>1. CASE m.di = 0 \/ m.dj = 0
  BY <1>1 DEF Interpolated
<1>2. CASE ~(m.di = 0 \/ m.dj = 0)
  <2>1. isPointInMap(m, x, y) /\ Turned(m, x, y) = x /\ Placed(m, x, y) = x
    BY <1>2, AtOnce
  <2> QED BY <1>2, <2>1 DEF Interpolated, ReadAt
<1> QED BY <1>1, <1>2

\* A share of the way from one value to another is between them.
LEMMA MixIsBetween ==
  ASSUME NEW share \in 0 .. One, NEW v \in Int, NEW w \in Int, NEW lo \in Int, NEW hi \in Int,
         lo <= v, lo <= w, v <= hi, w <= hi, One \in Nat
  PROVE  LET mix == (One - share) * v + share * w
         IN  mix \in Int /\ One * lo <= mix /\ mix <= One * hi
<1> DEFINE O == One
<1>0. O \in Nat /\ share \in Int /\ 0 <= share /\ share <= O
  OBVIOUS
<1> HIDE DEF O
<1>1. \A x, y \in Int : x >= 0 /\ y >= 0 => x * y >= 0
  OBVIOUS
<1>2. /\ (O - share) * (v - lo) >= 0 /\ share * (w - lo) >= 0
      /\ (O - share) * (hi - v) >= 0 /\ share * (hi - w) >= 0
  BY <1>0, <1>1
<1>3. (O - share) * (v - lo) + share * (w - lo) = ((O - share) * v + share * w) - O * lo
  BY <1>0
<1>4. (O - share) * (hi - v) + share * (hi - w) = O * hi - ((O - share) * v + share * w)
  BY <1>0
<1>5. (O - share) * v + share * w \in Int /\ O * lo \in Int /\ O * hi \in Int
  BY <1>0
<1>6. /\ (O - share) * (v - lo) \in Int /\ share * (w - lo) \in Int
      /\ (O - share) * (hi - v) \in Int /\ share * (hi - w) \in Int
  BY <1>0
<1> QED BY <1>2, <1>3, <1>4, <1>5, <1>6 DEF O

LEMMA BlendIsBetween ==
  ASSUME NEW a \in Int, NEW b \in Int, NEW c \in Int, NEW d \in Int,
         \A v, w \in {a, b, c, d} : v - w <= 90,
         NEW dx \in 0 .. Parts, NEW dy \in 0 .. Parts
  PROVE  /\ \E lo \in {a, b, c, d} : Scale * lo <= Blend(a, b, c, d, dx, dy)
         /\ \E hi \in {a, b, c, d} : Scale * hi >= Blend(a, b, c, d, dx, dy)
         /\ dx = 0 /\ dy = 0 => Blend(a, b, c, d, dx, dy) = Scale * a
<1> DEFINE hx == Hermite(dx)
           hy == Hermite(dy)
           x1 == (One - hx) * a + hx * c
           x2 == (One - hx) * b + hx * d
<1>1. hx \in 0 .. One /\ hy \in 0 .. One /\ One \in Nat /\ Hermite(0) = 0
  <2>1. hx \in 0 .. One /\ hy \in 0 .. One /\ Hermite(0) = 0
    BY HermiteGrows
  <2>2. One \in Int
    BY CircleAssumption DEF One, Hermite
  <2> QED BY <2>1, <2>2
<1>2. \A v, w \in {a, b, c, d} : Closer(<<v, w>>) = <<v, w>>
  BY DEF Closer
<1>3. Blend(a, b, c, d, dx, dy) = (One - hy) * x1 + hy * x2
  BY <1>2 DEF Blend
<1>4. PICK lo \in {a, b, c, d} : \A v \in {a, b, c, d} : lo <= v
  OBVIOUS
<1>5. PICK hi \in {a, b, c, d} : \A v \in {a, b, c, d} : v <= hi
  OBVIOUS
<1> HIDE DEF hx, hy
<1>6. /\ lo \in Int /\ hi \in Int /\ lo <= a /\ lo <= b /\ lo <= c /\ lo <= d
      /\ a <= hi /\ b <= hi /\ c <= hi /\ d <= hi
  BY <1>4, <1>5
<1>7. x1 \in Int /\ One * lo <= x1 /\ x1 <= One * hi
  BY <1>1, <1>6, MixIsBetween
<1>8. x2 \in Int /\ One * lo <= x2 /\ x2 <= One * hi
  BY <1>1, <1>6, MixIsBetween
<1> HIDE DEF x1, x2
<1>9. One * lo \in Int /\ One * hi \in Int
  BY <1>1, <1>6
<1>10. /\ (One - hy) * x1 + hy * x2 \in Int
       /\ One * (One * lo) <= (One - hy) * x1 + hy * x2
       /\ (One - hy) * x1 + hy * x2 <= One * (One * hi)
  BY <1>1, <1>7, <1>8, <1>9, MixIsBetween
<1>11. Scale * lo = One * (One * lo) /\ Scale * hi = One * (One * hi) /\ Scale * hi \in Int /\ Scale * lo \in Int
  BY <1>1, <1>6 DEF Scale
<1>12. ASSUME dx = 0, dy = 0 PROVE (One - hy) * x1 + hy * x2 = Scale * a
  <2>1. hx = 0 /\ hy = 0
    BY <1>1, <1>12 DEF hx, hy
  <2>2. x1 = One * a
    BY <1>1, <2>1 DEF x1, x2
  <2>3. (One - 0) * (One * a) + 0 * x2 = (One * One) * a
    BY <1>1, <1>8
  <2> QED BY <2>1, <2>2, <2>3 DEF Scale
<1> QED BY <1>3, <1>10, <1>11, <1>12

LEMMA BlendAtPoint ==
  ASSUME NEW a \in Int, NEW b \in Int, NEW c \in Int, NEW d \in Int,
         \A v, w \in {a, b, c, d} : v - w <= 90
  PROVE  Blend(a, b, c, d, 0, 0) = Scale * a
<1>1. 0 \in 0 .. Parts
  BY CircleAssumption
<1> QED BY <1>1, BlendIsBetween

\* A grid that is ready to be asked.
LEMMA GridAtHand ==
  ASSUME GridInv, pass = "magnitude", NEW l \in DOMAIN grid
  PROVE  Sized /\ grid[l] \in [Cells -> Values]
BY SizedRead, GridInvTypeOK DEF GridInv, GridTypeOK

\* The four points that are read have values.
LEMMA FourValues ==
  ASSUME Sized, NEW m \in Maps, NEW g \in [Cells -> Values], NEW px, NEW y,
         ReadAt(m, g, px, y) # NOTDEF
  PROVE  /\ \A k \in 1 .. 4 : Corners(m, px, y)[k] \in Cells /\ g[Corners(m, px, y)[k]] \in Int
         /\ ReadAt(m, g, px, y) = Blend(g[Corners(m, px, y)[1]], g[Corners(m, px, y)[2]],
                                        g[Corners(m, px, y)[3]], g[Corners(m, px, y)[4]],
                                        Rest(Column(m, px)), Rest(Row(m, y)))
<1> DEFINE c == Corners(m, px, y)
<1>1. \A k \in 1 .. 4 : hasValue(m, g, c[k][1], c[k][2])
  BY DEF ReadAt
<1>2. \A k \in 1 .. 4 : c[k] = <<c[k][1], c[k][2]>>
  <2>1. /\ c[1] = <<c[1][1], c[1][2]>> /\ c[2] = <<c[2][1], c[2][2]>>
        /\ c[3] = <<c[3][1], c[3][2]>> /\ c[4] = <<c[4][1], c[4][2]>>
    BY DEF Corners
  <2>2. \A k \in 1 .. 4 : k = 1 \/ k = 2 \/ k = 3 \/ k = 4
    OBVIOUS
  <2> QED BY <2>1, <2>2
<1>3. m.ni = ni /\ m.nj = nj
  BY MapParts
<1> HIDE DEF c
<1>4. ASSUME NEW k \in 1 .. 4 PROVE c[k] \in Cells /\ g[c[k]] \in Int
  <2>1. c[k][1] \in 0 .. nj - 1 /\ c[k][2] \in 0 .. ni - 1 /\ g[<<c[k][1], c[k][2]>>] # NOTDEF
    BY <1>1, <1>3 DEF hasValue
  <2>2. c[k] \in Cells
    BY <1>2, <2>1 DEF Cells, CellsOf, Rows, Cols
  <2> QED BY <1>2, <2>1, <2>2 DEF Values
<1> QED BY <1>1, <1>4 DEF ReadAt, c

LEMMA GridInvBetween == GridInv => BetweenCorners
<1> SUFFICES ASSUME GridInv, pass = "magnitude", NEW l \in DOMAIN grid, NEW m \in Maps,
                    NEW x \in Longitudes(m), NEW y \in Latitudes(m),
                    Level(grid[l]), Interpolated(m, grid[l], x, y) # NOTDEF
             PROVE  LET g == grid[l]
                        v == Interpolated(m, g, x, y)
                        four == {Corners(m, Placed(m, x, y), y)[k] : k \in 1 .. 4}
                    IN  /\ \A c \in four : c \in DOMAIN g /\ g[c] # NOTDEF
                        /\ \E c \in four : Scale * g[c] <= v
                        /\ \E c \in four : Scale * g[c] >= v
  BY DEF BetweenCorners, AtPoints
<1> DEFINE g == grid[l]
           four == {Corners(m, Placed(m, x, y), y)[k] : k \in 1 .. 4}
           c == Corners(m, x, y)
           dx == Rest(Column(m, x))
           dy == Rest(Row(m, y))
<1>1. Sized /\ g \in [Cells -> Values] /\ Parts \in Nat \ {0}
  BY GridAtHand, CircleAssumption
<1>2. m.di # 0 /\ m.dj # 0 /\ Interpolated(m, g, x, y) = ReadAt(m, g, x, y)
  BY <1>1, ReadInside
<1>3. x \in Int /\ m.lon <= x /\ x < DataEnd(m) /\ Placed(m, x, y) = x /\ m.lon \in Int
  BY <1>1, <1>2, AtOnce, MapParts
<1>4. dx \in 0 .. Parts /\ dy \in 0 .. Parts
  <2>1. Column(m, x) \in Nat
    BY <1>1, <1>2, <1>3, InTheData
  <2>2. Row(m, y) \in Nat
    BY <1>1, <1>2, RowInTheData
  <2>3. Rest(Column(m, x)) \in 0 .. Parts - 1 /\ Rest(Row(m, y)) \in 0 .. Parts - 1
    BY <2>1, <2>2, CellAndRest
  <2> QED BY <1>1, <2>3
<1>5. /\ \A k \in 1 .. 4 : c[k] \in Cells /\ g[c[k]] \in Int
      /\ Interpolated(m, g, x, y) = Blend(g[c[1]], g[c[2]], g[c[3]], g[c[4]], dx, dy)
  BY <1>1, <1>2, FourValues
<1>6. four = {c[k] : k \in 1 .. 4}
  BY <1>3
<1> HIDE DEF c, dx, dy, four, g
<1>7. /\ c[1] \in four /\ c[2] \in four /\ c[3] \in four /\ c[4] \in four
      /\ \A d \in four : d \in Cells /\ g[d] \in Int
      /\ g[c[1]] \in Int /\ g[c[2]] \in Int /\ g[c[3]] \in Int /\ g[c[4]] \in Int
  BY <1>5, <1>6
<1>8. \A v, w \in {g[c[1]], g[c[2]], g[c[3]], g[c[4]]} : v - w <= 90
  BY <1>1, <1>7, NotdefAssumption DEF Level, g
<1>9. /\ \E lo \in {g[c[1]], g[c[2]], g[c[3]], g[c[4]]} : Scale * lo <= Interpolated(m, g, x, y)
      /\ \E hi \in {g[c[1]], g[c[2]], g[c[3]], g[c[4]]} : Scale * hi >= Interpolated(m, g, x, y)
  <2>1. /\ \E lo \in {g[c[1]], g[c[2]], g[c[3]], g[c[4]]} :
             Scale * lo <= Blend(g[c[1]], g[c[2]], g[c[3]], g[c[4]], dx, dy)
        /\ \E hi \in {g[c[1]], g[c[2]], g[c[3]], g[c[4]]} :
             Scale * hi >= Blend(g[c[1]], g[c[2]], g[c[3]], g[c[4]], dx, dy)
    BY <1>4, <1>7, <1>8, BlendIsBetween, Zenon
  <2> QED BY <1>5, <2>1
<1>10. \A d \in four : d \in DOMAIN g /\ g[d] # NOTDEF
  BY <1>1, <1>7, NotdefAssumption
<1>11. (\E d \in four : Scale * g[d] <= Interpolated(m, g, x, y)) /\ \E d \in four : Scale * g[d] >= Interpolated(m, g, x, y)
  BY <1>7, <1>9
<1> QED BY <1>10, <1>11 DEF four, g

\* Wherever a grid lies and whatever its gaps: a value between its points is made up
\* only inside four points that have one, and never lies outside theirs.
THEOREM ValuesStayBetween == GridSpec => []BetweenCorners
BY GridAlways, GridInvBetween, PTL

LEMMA GridInvExact == GridInv => ExactAtNodes
<1> SUFFICES ASSUME GridInv, pass = "magnitude", NEW l \in DOMAIN grid, NEW m \in Maps, NEW c \in Cells,
                    Level(grid[l]),
                    Interpolated(m, grid[l], m.lon + m.di * c[2], m.lat + m.dj * c[1]) # NOTDEF
             PROVE  Interpolated(m, grid[l], m.lon + m.di * c[2], m.lat + m.dj * c[1]) = Scale * grid[l][c]
  BY DEF ExactAtNodes
<1> DEFINE g == grid[l]
           x == m.lon + m.di * c[2]
           y == m.lat + m.dj * c[1]
<1>1. Sized /\ g \in [Cells -> Values] /\ Parts \in Nat \ {0}
  BY GridAtHand, CircleAssumption
<1>2. m.di # 0 /\ m.dj # 0
  BY DEF Interpolated
<1>3. /\ m.di = Parts /\ ni > 1 /\ nj > 1 /\ m.dj \in {Parts, -Parts} /\ m.lon \in Int /\ m.lat \in Int
      /\ m.lastLon = m.lon + Parts * (ni - 1) /\ m.lastLat = m.lat + m.dj * (nj - 1)
      /\ m.ni = ni /\ m.nj = nj /\ ni \in Nat /\ nj \in Nat
  BY <1>1, <1>2, MapParts DEF Sized
<1>4. c = <<c[1], c[2]>> /\ c[1] \in 0 .. nj - 1 /\ c[2] \in 0 .. ni - 1
  BY DEF Cells, CellsOf, Rows, Cols
<1>5. \A k \in Int, n \in Int : 0 <= k /\ k <= n => 0 <= Parts * k /\ Parts * k <= Parts * n /\ Parts * k \in Int
  BY <1>1
<1>6. /\ 0 <= Parts * c[2] /\ Parts * c[2] <= Parts * (ni - 1) /\ Parts * c[2] \in Int /\ Parts * (ni - 1) \in Int
      /\ 0 <= Parts * c[1] /\ Parts * c[1] <= Parts * (nj - 1) /\ Parts * c[1] \in Int /\ Parts * (nj - 1) \in Int
  <2>1. ni - 1 \in Int /\ nj - 1 \in Int /\ c[2] \in Int /\ c[1] \in Int
    BY <1>3, <1>4
  <2> QED BY <1>1, <1>3, <1>4, <1>5, <2>1
<1>7. x \in Longitudes(m) /\ x - m.lon = Parts * c[2]
  <2>1. m.lon <= x /\ x <= m.lastLon /\ x \in Int /\ m.lastLon \in Int
    BY <1>3, <1>6
  <2>2. DataEnd(m) \in Int /\ x <= DataEnd(m) - 1
    BY <1>1, <1>3, <2>1 DEF DataEnd
  <2> QED BY <1>3, <1>6, <2>1, <2>2 DEF Longitudes
<1>8. y \in Latitudes(m) /\ (IF m.dj > 0 THEN y - m.lat ELSE m.lat - y) = Parts * c[1]
  <2>1. CASE m.dj = Parts
    <3>1. y = m.lat + Parts * c[1] /\ m.lastLat = m.lat + Parts * (nj - 1) /\ m.dj > 0 /\ ~(m.dj < 0)
      BY <1>1, <1>3, <2>1
    <3> HIDE DEF y
    <3> QED BY <1>3, <1>6, <3>1 DEF Latitudes
  <2>2. CASE m.dj = -Parts
    <3>1. \A k \in Int : (-Parts) * k = -(Parts * k)
      BY <1>1
    <3>2. y = m.lat - Parts * c[1] /\ m.lastLat = m.lat - Parts * (nj - 1) /\ m.dj < 0 /\ ~(m.dj > 0)
      BY <1>1, <1>3, <1>4, <1>6, <2>2, <3>1
    <3> QED BY <1>3, <1>6, <3>2 DEF Latitudes
  <2> QED BY <1>3, <2>1, <2>2
<1> HIDE DEF x, y
<1>9. Interpolated(m, g, x, y) = ReadAt(m, g, x, y)
  BY <1>1, <1>2, <1>7, <1>8, ReadInside
<1>10. Column(m, x) = Parts * c[2] /\ Row(m, y) = Parts * c[1]
  <2>1. x \in Int /\ m.lon <= x /\ x < DataEnd(m)
    BY <1>1, <1>2, <1>7, <1>8, AtOnce
  <2> QED BY <1>1, <1>2, <1>7, <1>8, <2>1, InTheData, RowInTheData
<1>11. Whole(Column(m, x)) = c[2] /\ Rest(Column(m, x)) = 0 /\ Whole(Row(m, y)) = c[1] /\ Rest(Row(m, y)) = 0
  <2>1. /\ Parts * c[2] \in Nat /\ Parts * c[2] = Parts * c[2] + 0 /\ c[2] \in Int /\ 0 \in 0 .. Parts - 1
        /\ Parts * c[1] \in Nat /\ Parts * c[1] = Parts * c[1] + 0 /\ c[1] \in Int
    BY <1>1, <1>4, <1>6
  <2>2. Whole(Parts * c[2]) = c[2] /\ Rest(Parts * c[2]) = 0
    BY <2>1, CellAndRest, Zenon
  <2>3. Whole(Parts * c[1]) = c[1] /\ Rest(Parts * c[1]) = 0
    BY <2>1, CellAndRest, Zenon
  <2> QED BY <1>10, <2>2, <2>3
<1> DEFINE f == Corners(m, x, y)
<1>12. f[1] = c
  BY <1>4, <1>11 DEF Corners
<1> HIDE DEF f, g
<1>13. /\ \A k \in 1 .. 4 : f[k] \in Cells /\ g[f[k]] \in Int
       /\ Interpolated(m, g, x, y) = Blend(g[f[1]], g[f[2]], g[f[3]], g[f[4]], 0, 0)
  <2>1. ReadAt(m, g, x, y) # NOTDEF
    BY <1>9 DEF g, x, y
  <2> QED BY <1>1, <1>9, <1>11, <2>1, FourValues DEF f
<1>14. \A v, w \in {g[f[1]], g[f[2]], g[f[3]], g[f[4]]} : v - w <= 90
  BY <1>1, <1>13, NotdefAssumption DEF Level, g
<1>15. Interpolated(m, g, x, y) = Scale * g[f[1]]
  <2>1. g[f[1]] \in Int /\ g[f[2]] \in Int /\ g[f[3]] \in Int /\ g[f[4]] \in Int /\ 0 \in 0 .. Parts
    BY <1>1, <1>13
  <2>2. Blend(g[f[1]], g[f[2]], g[f[3]], g[f[4]], 0, 0) = Scale * g[f[1]]
    BY <1>14, <2>1, BlendAtPoint, Zenon
  <2> QED BY <1>13, <2>2
<1> QED BY <1>12, <1>15 DEF g, x, y

\* At each point of a grid, on every map and in either direction of the latitudes, the
\* chart shows the value the grid has there.
THEOREM NodesAreExact == GridSpec => []ExactAtNodes
BY GridAlways, GridInvExact, PTL

LEMMA GlobalData ==
  ASSUME Sized, NEW m \in Maps, m.di # 0
  PROVE  /\ Global(m) <=> DataEnd(m) - m.lon >= Circle
         /\ m.lon \in Int /\ m.lastLon \in Int /\ m.lon < m.lastLon /\ m.di = Parts /\ DataEnd(m) = m.lastLon + Parts
         /\ Unrolled(m) = m.lastLon
         /\ Parts \in Nat \ {0} /\ Circle \in Nat \ {0}
<1>1. /\ Parts \in Nat \ {0} /\ Circle \in Nat \ {0} /\ Circle % 2 = 0 /\ ni \in Nat /\ m.lon \in Int
      /\ m.lastLon = m.lon + Parts * (ni - 1) /\ m.lastLon \in Int /\ m.di = Parts /\ ni > 1
  BY CircleAssumption, MapParts DEF Sized
<1>2. Parts * (ni - 1) >= Parts /\ Parts * (ni - 1) \in Int
  BY <1>1, Multiples
<1>3. m.lon < m.lastLon /\ DataEnd(m) = m.lastLon + Parts
  BY <1>1, <1>2 DEF DataEnd
<1>4. Distance(m.lastLon - m.lon) = m.lastLon - m.lon /\ Distance(m.di) = Parts
  BY <1>1, <1>3 DEF Distance
<1>5. Global(m) <=> DataEnd(m) - m.lon >= Circle
  BY <1>1, <1>3, <1>4 DEF Global
<1>6. Circle \div 2 \in Int
  BY <1>1
<1>7. Unrolled(m) = m.lastLon
  BY <1>1, <1>3, <1>6 DEF Unrolled
<1> QED BY <1>1, <1>3, <1>5, <1>7

LEMMA Turns ==
  ASSUME NEW d \in Int
  PROVE  (d <= 0 => Circle * TurnsTo(d) = 0) /\ (d \in 1 .. Circle => Circle * TurnsTo(d) = Circle)
<1>0. Circle \in Nat \ {0}
  BY CircleAssumption
<1>1. ASSUME d <= 0 PROVE Circle * TurnsTo(d) = 0
  <2>1. TurnsTo(d) = 0 /\ Circle * 0 = 0
    BY <1>0, <1>1 DEF TurnsTo
  <2> QED BY <2>1
<1>2. ASSUME d \in 1 .. Circle PROVE Circle * TurnsTo(d) = Circle
  <2>1. (Circle * 1 + (d - 1)) \div Circle = 1
    <3>1. d - 1 \in Int /\ 0 <= d - 1 /\ d - 1 < Circle /\ 1 \in Int
      BY <1>0, <1>2
    <3> QED BY <1>0, <3>1, Quotient
  <2>2. d + Circle - 1 = Circle * 1 + (d - 1) /\ d > 0 /\ Circle * 1 = Circle
    BY <1>0, <1>2
  <2> QED BY <2>1, <2>2 DEF TurnsTo
<1> QED BY <1>1, <1>2

\* A turn away from the data, the code finds back to the same place.
LEMMA TurnedBack ==
  ASSUME Sized, NEW m \in Maps, m.di # 0, m.dj # 0, NEW x \in Longitudes(m), NEW y \in Latitudes(m),
         NEW turn \in {-Circle, Circle}, OneTurn(m), x + turn # DataEnd(m)
  PROVE  isPointInMap(m, Turned(m, x + turn, y), y) /\ Placed(m, x + turn, y) = x
<1>1. /\ Global(m) <=> DataEnd(m) - m.lon >= Circle
      /\ m.lon \in Int /\ m.lastLon \in Int /\ m.lon < m.lastLon /\ m.di = Parts /\ DataEnd(m) = m.lastLon + Parts
      /\ Unrolled(m) = m.lastLon
      /\ Parts \in Nat \ {0} /\ Circle \in Nat \ {0}
  BY GlobalData
<1>2. /\ x \in Int /\ m.lon <= x /\ x < DataEnd(m)
      /\ isPointInMap(m, x, y) /\ Turned(m, x, y) = x /\ Placed(m, x, y) = x
  BY AtOnce
<1>3. isYInMap(m, y)
  BY RowInTheData
<1>4. CASE Global(m)
  <2>1. isXInMap(m, x + turn)
    BY <1>4 DEF isXInMap
  <2>2. Turned(m, x + turn, y) = x + turn /\ isPointInMap(m, x + turn, y)
    BY <1>3, <2>1 DEF Turned, isPointInMap
  <2>3. DataEnd(m) = m.lon + Circle
    BY <1>1, <1>4 DEF OneTurn
  <2> DEFINE west == (x + turn) - Circle * TurnsTo((x + turn) - DataEnd(m))
  <2>4. Normalized(m, x + turn) = west + Circle * TurnsTo(m.lon - west)
    BY DEF Normalized
  <2>5. CASE turn = Circle
    <3>1. (x + turn) - DataEnd(m) \in 1 .. Circle
      BY <1>1, <1>2, <2>3, <2>5
    <3>2. west = x
      <4>1. Circle * TurnsTo((x + turn) - DataEnd(m)) = Circle
        BY <3>1, Turns
      <4> QED BY <1>1, <1>2, <2>5, <4>1
    <3> HIDE DEF west
    <3>3. Circle * TurnsTo(m.lon - west) = 0
      <4>1. m.lon - west \in Int /\ m.lon - west <= 0
        BY <1>1, <1>2, <3>2
      <4> QED BY <4>1, Turns
    <3> QED BY <1>2, <2>2, <2>4, <3>2, <3>3 DEF Placed
  <2>6. CASE turn = -Circle
    <3>1. (x + turn) - DataEnd(m) \in Int /\ (x + turn) - DataEnd(m) <= 0
      BY <1>1, <1>2, <2>3, <2>6
    <3>2. west = x - Circle
      <4>1. Circle * TurnsTo((x + turn) - DataEnd(m)) = 0
        BY <3>1, Turns
      <4> QED BY <1>1, <1>2, <2>6, <4>1
    <3> HIDE DEF west
    <3>3. Circle * TurnsTo(m.lon - west) = Circle
      <4>1. m.lon - west \in 1 .. Circle
        BY <1>1, <1>2, <2>3, <3>2
      <4> QED BY <4>1, Turns
    <3>4. west + Circle = x
      BY <1>1, <1>2, <3>2
    <3> QED BY <2>2, <2>4, <3>3, <3>4 DEF Placed
  <2> QED BY <2>5, <2>6
<1>5. CASE ~Global(m)
  <2>1. DataEnd(m) - m.lon < Circle /\ x <= m.lastLon
    BY <1>1, <1>2, <1>5 DEF Longitudes
  <2>2. ~isXInMap(m, x + turn)
    BY <1>1, <1>2, <1>5, <2>1 DEF isXInMap
  <2>3. ~isPointInMap(m, x + turn, y)
    BY <2>2 DEF isPointInMap
  <2>4. CASE turn = Circle
    <3>1. ~isXInMap(m, (x + turn) + Circle) /\ (x + turn) - Circle = x
      BY <1>1, <1>2, <1>5, <2>1, <2>4 DEF isXInMap
    <3>2. Turned(m, x + turn, y) = x
      <4>1. ~isPointInMap(m, (x + turn) + Circle, y)
        BY <3>1 DEF isPointInMap
      <4> QED BY <2>3, <3>1, <4>1 DEF Turned
    <3> QED BY <1>2, <3>2 DEF Placed
  <2>5. CASE turn = -Circle
    <3>1. (x + turn) + Circle = x
      BY <1>1, <1>2, <2>5
    <3>2. Turned(m, x + turn, y) = x
      BY <1>2, <2>3, <3>1 DEF Turned
    <3> QED BY <1>2, <3>2 DEF Placed
  <2> QED BY <2>4, <2>5
<1> QED BY <1>4, <1>5

LEMMA GridInvSame == GridInv => SameAfterATurn
<1> SUFFICES ASSUME GridInv, pass = "magnitude", NEW l \in DOMAIN grid, NEW m \in Maps,
                    NEW x \in Longitudes(m), NEW y \in Latitudes(m),
                    NEW turn \in {-Circle, Circle}, OneTurn(m), x + turn # DataEnd(m)
             PROVE  Interpolated(m, grid[l], x + turn, y) = Interpolated(m, grid[l], x, y)
  BY DEF SameAfterATurn, AtPoints
<1>1. Sized
  BY GridAtHand
<1>2. CASE m.di = 0 \/ m.dj = 0
  BY <1>2 DEF Interpolated
<1>3. CASE m.di # 0 /\ m.dj # 0
  <2>1. isPointInMap(m, Turned(m, x + turn, y), y) /\ Placed(m, x + turn, y) = x
    BY <1>1, <1>3, TurnedBack
  <2>2. isPointInMap(m, Turned(m, x, y), y) /\ Placed(m, x, y) = x
    BY <1>1, <1>3, AtOnce
  <2> QED BY <2>1, <2>2 DEF Interpolated
<1> QED BY <1>2, <1>3

\* A chart that asks for a point a turn further west or east gets the same answer, of
\* maps that cross the date line and of maps that go round the globe.
THEOREM TurnsDoNotMatter == GridSpec => []SameAfterATurn
BY GridAlways, GridInvSame, PTL

LEMMA CloserSwaps ==
  ASSUME NEW v \in Int, NEW w \in Int
  PROVE  /\ Closer(<<w, v>>) = <<Closer(<<v, w>>)[2], Closer(<<v, w>>)[1]>>
         /\ Closer(<<v, w>>)[1] \in Int /\ Closer(<<v, w>>)[2] \in Int
BY DEF Closer

\* From the other end of a cell, with its rows exchanged, the blend is the same.
LEMMA BlendFlips ==
  ASSUME NEW a \in Int, NEW b \in Int, NEW c \in Int, NEW d \in Int, NEW dx \in Int, NEW dy \in Int
  PROVE  Blend(b, a, d, c, dx, Parts - dy) = Blend(a, b, c, d, dx, dy)
<1> DEFINE p1 == Closer(<<c, d>>)
           p2 == Closer(<<a, b>>)
           p3 == Closer(<<p2[1], p1[1]>>)
           p4 == Closer(<<p2[2], p1[2]>>)
           hx == Hermite(dx)
           hy == Hermite(dy)
           x1 == (One - hx) * p3[1] + hx * p3[2]
           x2 == (One - hx) * p4[1] + hx * p4[2]
<1>1. /\ Closer(<<d, c>>) = <<p1[2], p1[1]>> /\ Closer(<<b, a>>) = <<p2[2], p2[1]>>
      /\ p1[1] \in Int /\ p1[2] \in Int /\ p2[1] \in Int /\ p2[2] \in Int
  BY CloserSwaps
<1>2. p3[1] \in Int /\ p3[2] \in Int /\ p4[1] \in Int /\ p4[2] \in Int
  <2> HIDE DEF p1, p2
  <2> QED BY <1>1, CloserSwaps
<1>3. Hermite(Parts - dy) = One - hy /\ hy \in Int /\ hx \in Int /\ One \in Int
  BY HermiteTurns
<1>4. Blend(a, b, c, d, dx, dy) = (One - hy) * x1 + hy * x2
  BY DEF Blend
<1>5. Blend(b, a, d, c, dx, Parts - dy) = (One - (One - hy)) * x2 + (One - hy) * x1
  <2> DEFINE q1 == Closer(<<d, c>>)
             q2 == Closer(<<b, a>>)
             q3 == Closer(<<q2[1], q1[1]>>)
             q4 == Closer(<<q2[2], q1[2]>>)
             h  == Hermite(Parts - dy)
  <2>1. Blend(b, a, d, c, dx, Parts - dy)
          = (One - h) * ((One - hx) * q3[1] + hx * q3[2]) + h * ((One - hx) * q4[1] + hx * q4[2])
    BY DEF Blend
  <2>2. q1 = <<p1[2], p1[1]>> /\ q2 = <<p2[2], p2[1]>> /\ h = One - hy
    BY <1>1, <1>3
  <2> HIDE DEF p1, p2, q1, q2, h
  <2>3. q3 = p4 /\ q4 = p3
    BY <2>2
  <2> HIDE DEF p3, p4, q3, q4, hx, hy
  <2> QED BY <2>1, <2>2, <2>3
<1> HIDE DEF p3, p4, hx, hy
<1>6. x1 \in Int /\ x2 \in Int
  BY <1>2, <1>3
<1> HIDE DEF x1, x2
<1>7. One - (One - hy) = hy
  BY <1>3
<1>8. (One - hy) * x1 \in Int /\ hy * x2 \in Int
  BY <1>3, <1>6
<1> QED BY <1>4, <1>5, <1>7, <1>8

\* The same map with its latitudes the other way.
LEMMA FlippedParts ==
  ASSUME Sized, NEW m \in Maps, m.di # 0, m.dj # 0, NEW x \in Longitudes(m), NEW y \in Latitudes(m)
  PROVE  LET f == Flipped(m) IN
         /\ isPointInMap(f, Turned(f, x, y), y) /\ Placed(f, x, y) = x /\ f.di # 0 /\ f.dj # 0
         /\ Column(f, x) = Column(m, x) /\ \A col : NextColumn(f, col) = NextColumn(m, col)
         /\ \A g, row, col : hasValue(f, g, row, col) = hasValue(m, g, row, col)
         /\ Row(f, y) = Parts * (nj - 1) - Row(m, y)
<1> DEFINE f == Flipped(m)
<1>1. /\ f.ni = m.ni /\ f.nj = m.nj /\ f.lon = m.lon /\ f.lastLon = m.lastLon /\ f.di = m.di
      /\ f.lat = m.lastLat /\ f.lastLat = m.lat /\ f.dj = -m.dj
  <2>1. \E p \in Places : m = MapOf(ni, nj, p.lon, p.lon + Parts * (ni - 1), p.lat, p.lat + p.dj * (nj - 1))
    BY DEF Maps
  <2> QED BY <2>1 DEF MapOf, Flipped
<1>2. /\ Parts \in Nat \ {0} /\ nj \in Nat /\ m.lat \in Int /\ nj > 1 /\ m.dj \in {Parts, -Parts}
      /\ m.lastLat = m.lat + m.dj * (nj - 1) /\ m.lastLat \in Int /\ y \in Int /\ isYInMap(m, y)
      /\ Row(m, y) = (IF m.dj > 0 THEN y - m.lat ELSE m.lat - y) /\ Parts * (nj - 1) \in Int
  BY CircleAssumption, MapParts, RowInTheData DEF Sized
<1> HIDE DEF f
<1>3. Global(f) = Global(m) /\ DataEnd(f) = DataEnd(m) /\ Unrolled(f) = Unrolled(m)
  BY <1>1 DEF Global, DataEnd, Unrolled
<1>4. isYInMap(f, y)
  BY <1>1, <1>2 DEF isYInMap
<1>5. isPointInMap(f, x, y)
  <2>1. isPointInMap(m, x, y)
    BY AtOnce
  <2> QED BY <1>1, <1>3, <1>4, <2>1 DEF isPointInMap, isXInMap
<1>6. Turned(f, x, y) = x /\ Placed(f, x, y) = x
  <2>1. Turned(f, x, y) = x
    BY <1>5 DEF Turned
  <2>2. Normalized(f, x) = Normalized(m, x)
    BY <1>1, <1>3 DEF Normalized
  <2>3. Normalized(m, x) = x
    BY AtOnce, InTheData
  <2> QED BY <2>1, <2>2, <2>3 DEF Placed
<1>7. Column(f, x) = Column(m, x) /\ \A col : NextColumn(f, col) = NextColumn(m, col)
  BY <1>1, <1>3 DEF Column, NextColumn
<1>8. \A g, row, col : hasValue(f, g, row, col) = hasValue(m, g, row, col)
  BY <1>1 DEF hasValue
<1>9. Row(f, y) = Parts * (nj - 1) - Row(m, y)
  <2>0. \A P, k \in Int : (-P) * k = -(P * k) /\ -(-P) = P
    OBVIOUS
  <2>1. CASE m.dj = Parts
    <3>1. f.dj = -Parts /\ ~(-Parts > 0) /\ -(-Parts) = Parts
      BY <1>1, <1>2, <2>1
    <3>2. Row(f, y) = (-Parts * (y - m.lastLat)) \div Parts
      BY <1>1, <3>1 DEF Row, InParts
    <3>3. -Parts * (y - m.lastLat) = Parts * (m.lastLat - y)
      BY <1>2
    <3>4. (Parts * (m.lastLat - y)) \div Parts = m.lastLat - y
      <4>1. m.lastLat - y \in Int /\ Parts \in Nat \ {0}
        BY <1>2
      <4> QED BY <4>1, ExactQuotient, Zenon
    <3>5. m.lastLat = m.lat + Parts * (nj - 1) /\ Row(m, y) = y - m.lat
      BY <1>2, <2>1
    <3> QED BY <1>2, <3>2, <3>3, <3>4, <3>5
  <2>2. CASE m.dj = -Parts
    <3>1. f.dj = Parts /\ Parts > 0 /\ ~(m.dj > 0)
      BY <1>1, <1>2, <2>2
    <3>2. Row(f, y) = (Parts * (y - m.lastLat)) \div Parts
      BY <1>1, <3>1 DEF Row, InParts
    <3>3. (Parts * (y - m.lastLat)) \div Parts = y - m.lastLat
      <4>1. y - m.lastLat \in Int /\ Parts \in Nat \ {0}
        BY <1>2
      <4> QED BY <4>1, ExactQuotient, Zenon
    <3>4. m.lastLat = m.lat - Parts * (nj - 1) /\ Row(m, y) = m.lat - y
      BY <1>2, <2>0, <2>2, <3>1
    <3> QED BY <1>2, <3>2, <3>3, <3>4
  <2> QED BY <1>2, <2>1, <2>2
<1>10. f.di # 0 /\ f.dj # 0
  BY <1>1, <1>2
<1> QED BY <1>5, <1>6, <1>7, <1>8, <1>9, <1>10 DEF f

LEMMA GridInvFree == GridInv => OrientationFree
<1> SUFFICES ASSUME GridInv, pass = "magnitude", NEW l \in DOMAIN grid, NEW m \in Maps,
                    NEW x \in Longitudes(m), NEW y \in Latitudes(m), Rest(Row(m, y)) # 0
             PROVE  Interpolated(Flipped(m), FlippedGrid(grid[l]), x, y) = Interpolated(m, grid[l], x, y)
  BY DEF OrientationFree, AtPoints
<1> DEFINE f == Flipped(m)
           g == grid[l]
           G == FlippedGrid(g)
<1>1. Sized /\ g \in [Cells -> Values] /\ Parts \in Nat \ {0} /\ ni \in Nat /\ nj \in Nat
  BY GridAtHand, CircleAssumption DEF Sized
<1>2. CASE m.di = 0 \/ m.dj = 0
  <2>1. f.di = m.di /\ f.dj = -m.dj
    <3>1. \E p \in Places : m = MapOf(ni, nj, p.lon, p.lon + Parts * (ni - 1), p.lat, p.lat + p.dj * (nj - 1))
      BY DEF Maps
    <3> QED BY <3>1 DEF MapOf, Flipped
  <2> QED BY <1>2, <2>1 DEF Interpolated
<1>3. CASE m.di # 0 /\ m.dj # 0
  <2>1. /\ isPointInMap(f, Turned(f, x, y), y) /\ Placed(f, x, y) = x /\ f.di # 0 /\ f.dj # 0
        /\ Column(f, x) = Column(m, x) /\ \A col : NextColumn(f, col) = NextColumn(m, col)
        /\ \A h, row, col : hasValue(f, h, row, col) = hasValue(m, h, row, col)
        /\ Row(f, y) = Parts * (nj - 1) - Row(m, y)
    BY <1>1, <1>3, FlippedParts
  <2>2. Interpolated(f, G, x, y) = ReadAt(f, G, x, y)
    BY <2>1 DEF Interpolated, ReadAt
  <2>3. Interpolated(m, g, x, y) = ReadAt(m, g, x, y)
    BY <1>1, <1>3, ReadInside
  <2> DEFINE row == Whole(Row(m, y))
             r   == Rest(Row(m, y))
             col == Whole(Column(m, x))
             nxt == NextColumn(m, col)
             dx  == Rest(Column(m, x))
  <2>4. /\ row \in Nat /\ r \in 1 .. Parts - 1 /\ Row(m, y) = Parts * row + r
        /\ Row(m, y) \in Nat /\ Row(m, y) <= Parts * (nj - 1) /\ Parts * (nj - 1) \in Int /\ nj > 1
    BY <1>1, <1>3, RowInTheData, CellAndRest
  <2>5. /\ Column(m, x) \in Nat /\ col \in Nat /\ dx \in 0 .. Parts - 1 /\ nxt \in Nat
    <3>1. x \in Int /\ m.lon <= x /\ x < DataEnd(m) /\ m.lon \in Int
      BY <1>1, <1>3, AtOnce, MapParts
    <3>2. Column(m, x) \in Nat
      BY <1>1, <1>3, <3>1, InTheData
    <3>3. col \in Nat /\ dx \in 0 .. Parts - 1
      BY <3>2, CellAndRest
    <3> QED BY <3>2, <3>3 DEF NextColumn
  <2> HIDE DEF row, r, col, nxt, dx, f, G, g
  <2>6. row + 1 <= nj - 1
    <3>1. Parts * ((nj - 1) - row) = Parts * (nj - 1) - Parts * row
      BY <1>1, <2>4
    <3>2. Parts * ((nj - 1) - row) > 0
      BY <1>1, <2>4, <3>1
    <3>3. ~((nj - 1) - row <= 0)
      <4>1. \A k \in Int : k <= 0 => Parts * k <= 0
        BY <1>1
      <4> QED BY <1>1, <2>4, <3>2, <4>1
    <3> QED BY <1>1, <2>4, <3>3
  <2>7. Whole(Row(f, y)) = nj - 2 - row /\ Rest(Row(f, y)) = Parts - r
    <3>1. Parts * (nj - 2 - row) + (Parts - r) = Parts * (nj - 1) - (Parts * row + r)
      BY <1>1, <2>4
    <3>2. Row(f, y) = Parts * (nj - 2 - row) + (Parts - r) /\ Row(f, y) \in Nat
      BY <2>1, <2>4, <3>1
    <3>3. nj - 2 - row \in Int /\ Parts - r \in 0 .. Parts - 1
      BY <1>1, <2>4
    <3> QED BY <3>2, <3>3, CellAndRest
  <2>8. /\ Corners(m, x, y)[1] = <<row, col>> /\ Corners(m, x, y)[2] = <<row + 1, col>>
        /\ Corners(m, x, y)[3] = <<row, nxt>> /\ Corners(m, x, y)[4] = <<row + 1, nxt>>
    BY DEF Corners, row, col, nxt
  <2>9. /\ Corners(f, x, y)[1] = <<nj - 2 - row, col>> /\ Corners(f, x, y)[2] = <<nj - 1 - row, col>>
        /\ Corners(f, x, y)[3] = <<nj - 2 - row, nxt>> /\ Corners(f, x, y)[4] = <<nj - 1 - row, nxt>>
    <3>1. nj - 2 - row + 1 = nj - 1 - row
      BY <1>1, <2>4
    <3>2. Whole(Column(f, x)) = col /\ NextColumn(f, col) = nxt
      BY <2>1 DEF col, nxt
    <3> QED BY <2>7, <3>1, <3>2 DEF Corners
  <2>10. ASSUME NEW k \in {col, nxt}
         PROVE  /\ hasValue(f, G, nj - 2 - row, k) <=> hasValue(m, g, row + 1, k)
                /\ hasValue(f, G, nj - 1 - row, k) <=> hasValue(m, g, row, k)
                /\ hasValue(m, g, row, k) => G[<<nj - 1 - row, k>>] = g[<<row, k>>] /\ g[<<row, k>>] \in Int
                /\ hasValue(m, g, row + 1, k) => G[<<nj - 2 - row, k>>] = g[<<row + 1, k>>] /\ g[<<row + 1, k>>] \in Int
    <3>0. m.ni = ni /\ m.nj = nj
      BY <1>1, MapParts
    <3>1. /\ nj - 2 - row \in 0 .. nj - 1 /\ nj - 1 - row \in 0 .. nj - 1 /\ row \in 0 .. nj - 1 /\ row + 1 \in 0 .. nj - 1
          /\ nj - 1 - (nj - 2 - row) = row + 1 /\ nj - 1 - (nj - 1 - row) = row
      BY <1>1, <2>4, <2>6
    <3>2. ASSUME k \in 0 .. ni - 1
          PROVE  /\ G[<<nj - 2 - row, k>>] = g[<<row + 1, k>>] /\ G[<<nj - 1 - row, k>>] = g[<<row, k>>]
                 /\ g[<<row, k>>] \in Values /\ g[<<row + 1, k>>] \in Values
      <4>1. \A q \in 0 .. nj - 1 : <<q, k>> \in Cells
        BY <3>2 DEF Cells, CellsOf, Rows, Cols
      <4>2. G[<<nj - 2 - row, k>>] = g[<<nj - 1 - (nj - 2 - row), k>>]
        BY <3>1, <4>1 DEF G, FlippedGrid
      <4>3. G[<<nj - 1 - row, k>>] = g[<<nj - 1 - (nj - 1 - row), k>>]
        BY <3>1, <4>1 DEF G, FlippedGrid
      <4> QED BY <1>1, <3>1, <4>1, <4>2, <4>3
    <3> QED BY <2>1, <3>0, <3>1, <3>2 DEF hasValue, Values
  <2>11. (\A k \in 1 .. 4 : hasValue(f, G, Corners(f, x, y)[k][1], Corners(f, x, y)[k][2]))
           <=> \A k \in 1 .. 4 : hasValue(m, g, Corners(m, x, y)[k][1], Corners(m, x, y)[k][2])
    <3>1. \A k \in 1 .. 4 : k = 1 \/ k = 2 \/ k = 3 \/ k = 4
      OBVIOUS
    <3>2. (\A k \in 1 .. 4 : hasValue(f, G, Corners(f, x, y)[k][1], Corners(f, x, y)[k][2]))
            <=> /\ hasValue(f, G, nj - 2 - row, col) /\ hasValue(f, G, nj - 1 - row, col)
                /\ hasValue(f, G, nj - 2 - row, nxt) /\ hasValue(f, G, nj - 1 - row, nxt)
      BY <2>9, <3>1
    <3>3. (\A k \in 1 .. 4 : hasValue(m, g, Corners(m, x, y)[k][1], Corners(m, x, y)[k][2]))
            <=> /\ hasValue(m, g, row, col) /\ hasValue(m, g, row + 1, col)
                /\ hasValue(m, g, row, nxt) /\ hasValue(m, g, row + 1, nxt)
      BY <2>8, <3>1
    <3> QED BY <2>10, <3>2, <3>3
  <2>12. CASE \A k \in 1 .. 4 : hasValue(m, g, Corners(m, x, y)[k][1], Corners(m, x, y)[k][2])
    <3>1. /\ hasValue(m, g, row, col) /\ hasValue(m, g, row + 1, col)
          /\ hasValue(m, g, row, nxt) /\ hasValue(m, g, row + 1, nxt)
      BY <2>8, <2>12
    <3> DEFINE a == g[<<row, col>>]
               b == g[<<row + 1, col>>]
               c == g[<<row, nxt>>]
               d == g[<<row + 1, nxt>>]
    <3>2. /\ a \in Int /\ b \in Int /\ c \in Int /\ d \in Int
          /\ G[<<nj - 1 - row, col>>] = a /\ G[<<nj - 2 - row, col>>] = b
          /\ G[<<nj - 1 - row, nxt>>] = c /\ G[<<nj - 2 - row, nxt>>] = d
      BY <2>10, <3>1
    <3>3. ReadAt(m, g, x, y) = Blend(a, b, c, d, dx, r)
      BY <2>8, <2>12 DEF ReadAt, dx, r
    <3>4. ReadAt(f, G, x, y) = Blend(b, a, d, c, dx, Parts - r)
      <4>1. Rest(Column(f, x)) = dx
        BY <2>1 DEF dx
      <4> HIDE DEF a, b, c, d
      <4> QED BY <2>7, <2>9, <2>11, <2>12, <3>2, <4>1 DEF ReadAt
    <3> HIDE DEF a, b, c, d
    <3>5. dx \in Int /\ r \in Int
      BY <2>4, <2>5
    <3>6. Blend(b, a, d, c, dx, Parts - r) = Blend(a, b, c, d, dx, r)
      <4>1. a \in Int /\ b \in Int /\ c \in Int /\ d \in Int
        BY <3>2
      <4> QED BY ONLY <3>5, <4>1, BlendFlips
    <3> QED BY <2>2, <2>3, <3>3, <3>4, <3>6 DEF f, G, g
  <2>13. CASE ~\A k \in 1 .. 4 : hasValue(m, g, Corners(m, x, y)[k][1], Corners(m, x, y)[k][2])
    <3>1. ReadAt(m, g, x, y) = NOTDEF /\ ReadAt(f, G, x, y) = NOTDEF
      BY <2>11, <2>13 DEF ReadAt
    <3> QED BY <2>2, <2>3, <3>1 DEF f, G, g
  <2> QED BY <2>12, <2>13
<1> QED BY <1>2, <1>3

\* Between its rows a field has the same values whether its file stores it from the
\* north or from the south.
THEOREM OrientationDoesNotMatter == GridSpec => []OrientationFree
BY GridAlways, GridInvFree, PTL

\* Reading a grid whose columns have moved one place is reading the next column.
LEMMA ReadMoved ==
  ASSUME Sized, NEW m \in Maps, m.di # 0, Global(m), NEW g \in [Cells -> Values], NEW x, NEW z, NEW y,
         Whole(Column(m, x)) \in 0 .. ni - 1, Whole(Column(m, z)) = (Whole(Column(m, x)) + 1) % ni,
         Rest(Column(m, x)) = Rest(Column(m, z)),
         Whole(Row(m, y)) \in Int
  PROVE  ReadAt(m, MovedGrid(g), x, y) = ReadAt(m, g, z, y)
<1> DEFINE G == MovedGrid(g)
           row == Whole(Row(m, y))
           col == Whole(Column(m, x))
           next(k) == (k + 1) % ni
<1>1. ni \in Nat \ {0} /\ ni > 1 /\ m.ni = ni /\ m.nj = nj /\ nj \in Nat
  BY MapParts DEF Sized
<1>2. ASSUME NEW k \in 0 .. ni - 1
      PROVE  next(k) = (IF k + 1 < ni THEN k + 1 ELSE 0) /\ next(k) \in 0 .. ni - 1 /\ NextColumn(m, k) = next(k)
  <2>1. next(k) = IF k + 1 < ni THEN k + 1 ELSE 0
    BY <1>1
  <2> QED BY <1>1, <2>1 DEF NextColumn
<1> HIDE DEF next
<1>3. ASSUME NEW k \in 0 .. ni - 1, NEW q \in Int
      PROVE  hasValue(m, G, q, k) = hasValue(m, g, q, next(k))
             /\ (hasValue(m, G, q, k) => G[<<q, k>>] = g[<<q, next(k)>>])
  <2>1. CASE q \in 0 .. nj - 1
    <3>1. <<q, k>> \in Cells /\ <<q, k>>[1] = q /\ <<q, k>>[2] = k
      BY <2>1 DEF Cells, CellsOf, Rows, Cols
    <3>2. G[<<q, k>>] = g[<<q, next(k)>>]
      BY <3>1 DEF G, MovedGrid, next
    <3> HIDE DEF G
    <3> QED BY <1>1, <1>2, <2>1, <3>2 DEF hasValue
  <2>2. CASE q \notin 0 .. nj - 1
    BY <1>1, <2>2 DEF hasValue
  <2> QED BY <2>1, <2>2
<1>4. /\ Corners(m, x, y)[1] = <<row, col>> /\ Corners(m, x, y)[2] = <<row + 1, col>>
      /\ Corners(m, x, y)[3] = <<row, next(col)>> /\ Corners(m, x, y)[4] = <<row + 1, next(col)>>
  BY <1>2 DEF Corners
<1>5. /\ Corners(m, z, y)[1] = <<row, next(col)>> /\ Corners(m, z, y)[2] = <<row + 1, next(col)>>
      /\ Corners(m, z, y)[3] = <<row, next(next(col))>> /\ Corners(m, z, y)[4] = <<row + 1, next(next(col))>>
  <2>1. Whole(Column(m, z)) = next(col)
    BY DEF next
  <2>2. next(col) \in 0 .. ni - 1
    BY <1>2
  <2>3. NextColumn(m, next(col)) = next(next(col))
    BY <1>2, <2>2
  <2> QED BY <2>1, <2>3 DEF Corners
<1>6. col \in 0 .. ni - 1 /\ next(col) \in 0 .. ni - 1 /\ row \in Int /\ row + 1 \in Int
  BY <1>2
<1> HIDE DEF G, row, col
<1>7. ASSUME NEW p, NEW q, NEW a \in Int, NEW k \in 0 .. ni - 1, p = <<a, k>>, q = <<a, next(k)>>
      PROVE  /\ hasValue(m, G, p[1], p[2]) <=> hasValue(m, g, q[1], q[2])
             /\ hasValue(m, G, p[1], p[2]) => G[p] = g[q]
  <2>1. p[1] = a /\ p[2] = k /\ q[1] = a /\ q[2] = next(k)
    BY <1>7
  <2> QED BY <1>3, <1>7, <2>1
<1> DEFINE p == Corners(m, x, y)
           q == Corners(m, z, y)
<1>same. ASSUME NEW k \in 1 .. 4
         PROVE  /\ hasValue(m, G, p[k][1], p[k][2]) <=> hasValue(m, g, q[k][1], q[k][2])
                /\ hasValue(m, G, p[k][1], p[k][2]) => G[p[k]] = g[q[k]]
  <2> HIDE DEF p, q
  <2>1. /\ p[1] = <<row, col>> /\ p[2] = <<row + 1, col>>
        /\ p[3] = <<row, next(col)>> /\ p[4] = <<row + 1, next(col)>>
        /\ q[1] = <<row, next(col)>> /\ q[2] = <<row + 1, next(col)>>
        /\ q[3] = <<row, next(next(col))>> /\ q[4] = <<row + 1, next(next(col))>>
    BY <1>4, <1>5 DEF p, q
  <2>2. \E a \in {row, row + 1}, c \in {col, next(col)} : p[k] = <<a, c>> /\ q[k] = <<a, next(c)>>
    <3>1. k = 1 \/ k = 2 \/ k = 3 \/ k = 4
      OBVIOUS
    <3> QED BY <2>1, <3>1
  <2>3. PICK a \in Int, c \in 0 .. ni - 1 : p[k] = <<a, c>> /\ q[k] = <<a, next(c)>>
    BY <1>6, <2>2
  <2> QED BY <1>7, <2>3
<1>8. CASE \A k \in 1 .. 4 : hasValue(m, G, p[k][1], p[k][2])
  <2> HIDE DEF p, q
  <2>1. \A k \in 1 .. 4 : hasValue(m, g, q[k][1], q[k][2])
    BY <1>same, <1>8
  <2>2. G[p[1]] = g[q[1]] /\ G[p[2]] = g[q[2]] /\ G[p[3]] = g[q[3]] /\ G[p[4]] = g[q[4]]
    BY <1>same, <1>8
  <2>3. ReadAt(m, G, x, y) = Blend(G[p[1]], G[p[2]], G[p[3]], G[p[4]], Rest(Column(m, x)), Rest(Row(m, y)))
    BY <1>8 DEF ReadAt, p
  <2>4. ReadAt(m, g, z, y) = Blend(g[q[1]], g[q[2]], g[q[3]], g[q[4]], Rest(Column(m, z)), Rest(Row(m, y)))
    BY <2>1 DEF ReadAt, q
  <2> QED BY <2>2, <2>3, <2>4 DEF G
<1>9. CASE ~\A k \in 1 .. 4 : hasValue(m, G, p[k][1], p[k][2])
  <2> HIDE DEF p, q
  <2>1. ~\A k \in 1 .. 4 : hasValue(m, g, q[k][1], q[k][2])
    BY <1>same, <1>9
  <2>2. ReadAt(m, G, x, y) = NOTDEF
    BY <1>9 DEF ReadAt, p
  <2>3. ReadAt(m, g, z, y) = NOTDEF
    BY <2>1 DEF ReadAt, q
  <2> QED BY <2>2, <2>3 DEF G
<1> QED BY <1>8, <1>9

LEMMA GridInvSeam == GridInv => SeamIsNowhere
<1> SUFFICES ASSUME GridInv, pass = "magnitude", NEW l \in DOMAIN grid, NEW m \in Maps,
                    NEW x \in Longitudes(m), NEW y \in Latitudes(m),
                    Global(m), OneTurn(m), x + m.di # DataEnd(m)
             PROVE  Interpolated(m, MovedGrid(grid[l]), x, y) = Interpolated(m, grid[l], x + m.di, y)
  BY DEF SeamIsNowhere, AtPoints
<1> DEFINE g == grid[l]
<1>1. Sized /\ g \in [Cells -> Values] /\ ni \in Nat \ {0}
  BY GridAtHand DEF Sized
<1>2. CASE m.di = 0 \/ m.dj = 0
  BY <1>2 DEF Interpolated
<1>3. CASE m.di # 0 /\ m.dj # 0
  <2>1. /\ m.lon \in Int /\ m.di = Parts /\ Parts \in Nat \ {0} /\ Circle \in Nat \ {0}
        /\ DataEnd(m) = m.lon + Circle
        /\ x \in Int /\ m.lon <= x /\ x < DataEnd(m)
    <3>1. DataEnd(m) - m.lon >= Circle /\ m.lon \in Int /\ DataEnd(m) = m.lastLon + Parts /\ m.lastLon \in Int
          /\ m.di = Parts /\ Parts \in Nat \ {0} /\ Circle \in Nat \ {0}
      BY <1>1, <1>3, GlobalData
    <3>2. x \in Int /\ m.lon <= x /\ x < DataEnd(m)
      BY <1>1, <1>3, AtOnce
    <3> QED BY <3>1, <3>2 DEF OneTurn
  <2>2. DataEnd(m) = m.lon + Parts * ni /\ Column(m, x) = x - m.lon /\ Parts * ni \in Int /\ ni > 1
    BY <1>1, <1>3, <2>1, InTheData
  <2> DEFINE col == Whole(x - m.lon)
             r   == Rest(x - m.lon)
             z   == IF x + Parts < DataEnd(m) THEN x + Parts ELSE x + Parts - Circle
  <2>3. col \in Nat /\ r \in 0 .. Parts - 1 /\ x - m.lon = Parts * col + r /\ x - m.lon \in Nat
    <3>1. x - m.lon \in Nat
      BY <2>1
    <3> QED BY <3>1, CellAndRest
  <2> HIDE DEF col, r
  \* The column to the right of the last one is the first.
  <2>4. col \in 0 .. ni - 1
    <3>1. Parts * (ni - col) = Parts * ni - Parts * col /\ Parts * (ni - col) > 0
      BY <1>1, <2>1, <2>2, <2>3
    <3>2. ni - col >= 1
      <4>1. ni - col \in Int
        BY <1>1, <2>3
      <4> QED BY <2>1, <3>1, <4>1, PositiveFactor, Zenon
    <3> QED BY <1>1, <2>3, <3>2
  <2>5. /\ z \in Int /\ m.lon <= z /\ z < DataEnd(m)
        /\ z - m.lon = Parts * ((col + 1) % ni) + r /\ (col + 1) % ni \in 0 .. ni - 1
    <3>1. Parts * (col + 1) = Parts * col + Parts /\ Parts * 0 = 0
      BY <2>1, <2>3
    <3>2. CASE x + Parts < DataEnd(m)
      <4>1. col + 1 < ni
        <5>1. Parts * (ni - (col + 1)) = Parts * ni - Parts * (col + 1)
          BY <1>1, <2>1, <2>3
        <5>2. Parts * (ni - (col + 1)) > 0
          BY <2>1, <2>2, <2>3, <3>1, <3>2, <5>1
        <5>3. ni - (col + 1) >= 1
          <6>1. ni - (col + 1) \in Int
            BY <1>1, <2>3
          <6> QED BY <2>1, <5>2, <6>1, PositiveFactor, Zenon
        <5> QED BY <1>1, <2>3, <5>3
      <4>2. (col + 1) % ni = col + 1
        BY <1>1, <2>3, <4>1
      <4>3. z = x + Parts
        BY <3>2
      <4>4. z - m.lon = Parts * (col + 1) + r
        BY <2>1, <2>3, <3>1, <4>3
      <4>5. col + 1 \in 0 .. ni - 1 /\ z \in Int /\ m.lon <= z /\ z < DataEnd(m)
        BY <1>1, <2>1, <2>3, <3>2, <4>1, <4>3
      <4> QED BY <4>2, <4>4, <4>5
    <3>3. CASE x + Parts > DataEnd(m)
      <4>1. col + 1 = ni
        <5>1. Parts * (ni - (col + 1)) = Parts * ni - Parts * (col + 1) /\ Parts * (ni - (col + 1)) \in Int
          BY <1>1, <2>1, <2>3
        <5>2. Parts * (ni - (col + 1)) < Parts
          BY <2>1, <2>2, <2>3, <3>1, <3>3, <5>1
        <5>3. ~(ni - (col + 1) >= 1)
          BY <1>1, <2>1, <2>3, <5>2, Multiples
        <5> QED BY <1>1, <2>3, <2>4, <5>3
      <4>2. (col + 1) % ni = 0
        BY <1>1, <4>1
      <4>3. z = x + Parts - Circle
        BY <2>1, <2>2, <3>3
      <4>4. Parts * col + Parts = Parts * ni
        BY <3>1, <4>1
      <4>5. z - m.lon = r
        BY <2>1, <2>2, <2>3, <4>3, <4>4
      <4>6. z - m.lon = Parts * 0 + r
        BY <2>3, <3>1, <4>5
      <4>7. 0 \in 0 .. ni - 1
        BY <1>1
      <4>8. z \in Int /\ m.lon <= z /\ z < DataEnd(m)
        <5>1. z \in Int
          BY <2>1, <4>3
        <5>2. r < Parts /\ Parts <= Parts * ni
          BY <1>1, <2>1, <2>3, Multiples
        <5> HIDE DEF z
        <5> QED BY <2>1, <2>2, <2>3, <4>5, <5>1, <5>2
      <4> QED BY <4>2, <4>6, <4>7, <4>8
    <3> QED BY <2>1, <2>2, <3>2, <3>3
  <2>6. Placed(m, x + m.di, y) = z /\ isPointInMap(m, Turned(m, x + m.di, y), y)
    <3>1. isPointInMap(m, x + Parts, y)
      BY <1>1, <1>3, RowInTheData DEF isPointInMap, isXInMap
    <3>2. Turned(m, x + m.di, y) = x + Parts /\ isPointInMap(m, Turned(m, x + m.di, y), y)
      BY <2>1, <3>1 DEF Turned
    <3>3. Normalized(m, x + Parts) = z
      <4>1. CASE x + Parts < DataEnd(m)
        <5>1. x + Parts \in Int /\ m.lon <= x + Parts /\ z = x + Parts
          BY <2>1, <4>1
        <5> QED BY <1>1, <1>3, <4>1, <5>1, InTheData
      <4>2. CASE x + Parts > DataEnd(m)
        <5> DEFINE west == (x + Parts) - Circle * TurnsTo((x + Parts) - DataEnd(m))
        <5>1. Normalized(m, x + Parts) = west + Circle * TurnsTo(m.lon - west)
          BY DEF Normalized
        <5>2. (x + Parts) - DataEnd(m) \in 1 .. Circle /\ z = (x + Parts) - Circle
          <6>1. Parts <= Circle
            <7>1. Parts * ni >= Parts
              BY <1>1, <2>1, Multiples
            <7> QED BY <2>1, <2>2, <7>1
          <6> QED BY <2>1, <2>2, <4>2, <6>1
        <5>3. west = z
          BY <5>2, Turns
        <5> HIDE DEF west, z
        <5>4. Circle * TurnsTo(m.lon - west) = 0
          <6>1. m.lon - west \in Int /\ m.lon - west <= 0
            BY <2>1, <2>5, <5>3
          <6> QED BY <6>1, Turns
        <5> QED BY <2>5, <5>1, <5>3, <5>4
      <4> QED BY <2>1, <2>2, <4>1, <4>2
    <3> QED BY <3>2, <3>3 DEF Placed
  <2> HIDE DEF z, g
  <2>7. Interpolated(m, g, x + m.di, y) = ReadAt(m, g, z, y)
    BY <1>3, <2>6 DEF Interpolated, ReadAt
  <2>8. Interpolated(m, MovedGrid(g), x, y) = ReadAt(m, MovedGrid(g), x, y)
    BY <1>1, <1>3, ReadInside
  <2>9. Column(m, z) = z - m.lon
    BY <1>1, <1>3, <2>5, InTheData
  <2>10. Whole(Column(m, z)) = (col + 1) % ni /\ Rest(Column(m, z)) = r
    <3>1. z - m.lon \in Nat /\ (col + 1) % ni \in Int
      BY <2>1, <2>5
    <3>2. \A k \in Int, q \in 0 .. Parts - 1 :
            z - m.lon = Parts * k + q => Whole(z - m.lon) = k /\ Rest(z - m.lon) = q
      BY <3>1, CellAndRest, Zenon
    <3>3. Whole(z - m.lon) = (col + 1) % ni /\ Rest(z - m.lon) = r
      BY <2>3, <2>5, <3>1, <3>2, Zenon
    <3> QED BY <2>9, <3>3
  <2>11. Whole(Row(m, y)) \in Int
    <3>1. Row(m, y) \in Nat
      BY <1>1, <1>3, RowInTheData
    <3> QED BY <3>1, CellAndRest
  <2>12. Whole(Column(m, x)) = col /\ Rest(Column(m, x)) = r
    BY <2>2 DEF col, r
  <2>13. ReadAt(m, MovedGrid(g), x, y) = ReadAt(m, g, z, y)
    BY <1>1, <1>3, <2>4, <2>10, <2>11, <2>12, ReadMoved
  <2> QED BY <2>7, <2>8, <2>13 DEF g
<1> QED BY <1>2, <1>3

\* A grid that goes once round the globe has no seam between its last column and its first.
THEOREM NoSeam == GridSpec => []SeamIsNowhere
BY GridAlways, GridInvSeam, PTL

=============================================================================

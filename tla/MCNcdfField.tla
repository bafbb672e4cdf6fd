----------------------------- MODULE MCNcdfField -----------------------------
(* Small instance of NcdfField: files of up to three variables, and grids of *)
(* three by four points and less, with every gap of up to three points.      *)
EXTENDS NcdfField

CONSTANTS target, alt, long1, long2, name1, name2, other

MCQuery == [target |-> target, alts |-> <<alt>>, longs |-> <<long1, long2>>, names |-> <<name1, name2>>]

Variables == [std : {target, alt, NoText}, long : {long1, long2, NoText}, name : {name1, name2, other}]

MCNcFiles ==
  {f \in UNION {[1 .. n -> Variables] : n \in 0 .. 3} :
     \A v, w \in DOMAIN f : f[v].name = f[w].name => v = w}

Ramp == <<0, 16, 4, 24, 8, 0, 20, 4, 12, 28, 8, 16>>

\* The current: v also lacks the fifth point, which u may have.
Gaps(n) == {g \in SUBSET (0 .. n - 1) : Cardinality(g) <= 3}

Current(w, h) ==
  {[ni |-> w, nj |-> h,
    raw |-> [u |-> [c \in 0 .. w * h - 1 |-> IF c \in g THEN NOTDEF ELSE Ramp[c + 1]],
             v |-> [c \in 0 .. w * h - 1 |-> IF c \in g \ {4} \/ c = 1 THEN NOTDEF ELSE 4 * c]]] :
   g \in Gaps(w * h)}

\* The temperature: a front of any shape, with one gap or none.
Temperature(w, h) ==
  {[ni |-> w, nj |-> h,
    raw |-> [sst |-> [c \in 0 .. w * h - 1 |-> IF c = gap THEN NOTDEF ELSE IF c \in warm THEN 8 ELSE 0]]] :
   warm \in SUBSET (0 .. w * h - 1), gap \in {w * h, 4, 0}}

MCFields ==
  UNION {Current(4, 3), Current(3, 4), Current(2, 4), Current(1, 3), Temperature(3, 3), Temperature(2, 3)}

MCPlaces == {[lon |-> 0, lat |-> 0, dj |-> 3], [lon |-> -4, lat |-> 6, dj |-> -3]}
=============================================================================

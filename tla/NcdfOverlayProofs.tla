-------------------------- MODULE NcdfOverlayProofs --------------------------
(* Proofs about NcdfOverlay: whatever is loaded, switched and painted in     *)
(* whatever order, no paint shows anything of another step.                  *)
EXTENDS NcdfOverlay, TLAPS

CachingTypes == [stale : SUBSET Caches, built : [Caches -> Data \cup {NoData}], lut : Luts,
                 drawn : SUBSET [cache : Caches, of : Data, lut : Luts,
                                 tool : {"shader", "fixed"}, data : Data]]

Fresh(s, c) == c \notin s.stale /\ s.built[c] # NoData

\* A cache that is not marked is of the step on the chart, the isolines exist then, and
\* the lookup texture is of that step as soon as one layer's texture is.
Current(s) ==
  /\ \A c \in Caches : Fresh(s, c) => s.built[c] = data
  /\ "iso" \notin s.stale => s.built["iso"] # NoData
  /\ (\E c \in GridLayers : Fresh(s, c)) => s.lut = NoLut \/ s.lut.of = data

\* What a paint has drawn so far is of that step, and so was the lookup texture.
DrawnRight(s) ==
  \A p \in s.drawn :
    /\ p.of = data /\ p.data = data
    /\ p.tool = "shader" => p.lut = NoLut \/ p.lut.of = data

PaintInv(s) == s \in CachingTypes /\ Current(s) /\ DrawnRight(s)

OverlayInv ==
  /\ TypeOK /\ Current(Caching)
  /\ ready => data # NoData
  /\ FrameIsCurrent /\ LutIsOfCurrentStep

-----------------------------------------------------------------------------
LEMMA Names ==
  /\ GridLayers \subseteq Caches /\ "iso" \in Caches /\ "iso" \notin GridLayers
  /\ NoLut \in Luts /\ \A l \in GridLayers : \A d \in Data : Lut(l, d) \in Luts /\ Lut(l, d).of = d
BY DEF Caches, GridLayers, Luts, Lut

\* A coloured layer is painted.
LEMMA RenderKeeps ==
  ASSUME NEW s, PaintInv(s), NEW l \in GridLayers, NEW r \in Outcomes,
         NEW tool \in {"shader", "fixed"}, data \in Data, NoData \notin Data
  PROVE  PaintInv(RenderGridOverlay(s, l, r, tool))
<1> DEFINE d == DropTexture(s, l)
           t == MakeTexture(d, l, r)
<1>0. /\ s.stale \subseteq Caches /\ s.built \in [Caches -> Data \cup {NoData}] /\ s.lut \in Luts
      /\ s.drawn \subseteq [cache : Caches, of : Data, lut : Luts,
                            tool : {"shader", "fixed"}, data : Data]
      /\ l \in Caches /\ l # "iso" /\ data # NoData
  BY Names DEF PaintInv, CachingTypes
<1>1. /\ d \in CachingTypes /\ Current(d) /\ d.drawn = s.drawn
      /\ l \notin d.stale
  <2>1. CASE l \in s.stale
    <3>1. d = [s EXCEPT !.stale = @ \ {l}, !.built[l] = NoData]
      BY <2>1 DEF DropTexture
    <3>a. d = [stale |-> s.stale \ {l}, built |-> [s.built EXCEPT ![l] = NoData],
               lut |-> s.lut, drawn |-> s.drawn]
      BY <3>1 DEF PaintInv, CachingTypes
    <3>b. [s.built EXCEPT ![l] = NoData] \in [Caches -> Data \cup {NoData}]
      BY <1>0
    <3>2. /\ d.stale = s.stale \ {l} /\ d.built = [s.built EXCEPT ![l] = NoData]
          /\ d.lut = s.lut /\ d.drawn = s.drawn /\ d \in CachingTypes
      <4> HIDE DEF d
      <4> QED BY <1>0, <3>a, <3>b DEF CachingTypes
    <3>3. \A c \in Caches : Fresh(d, c) => c # l /\ Fresh(s, c) /\ d.built[c] = s.built[c]
      BY <1>0, <3>2 DEF Fresh
    <3>4. Current(d)
      BY <1>0, <3>2, <3>3, Names DEF PaintInv, Current
    <3> HIDE DEF d
    <3> QED BY <3>2, <3>4
  <2>2. CASE l \notin s.stale
    BY <2>2 DEF DropTexture, PaintInv
  <2> QED BY <2>1, <2>2
<1> HIDE DEF d
<1>2. d.built \in [Caches -> Data \cup {NoData}] /\ d.stale \subseteq Caches /\ d.lut \in Luts
  BY <1>1 DEF CachingTypes
<1>3. /\ t \in CachingTypes /\ Current(t) /\ t.drawn = s.drawn /\ l \notin t.stale
      /\ t.built[l] # NoData => t.built[l] = data /\ (t.lut = NoLut \/ t.lut.of = data)
  <2>1. CASE d.built[l] # NoData
    <3>1. t = d /\ Fresh(d, l)
      BY <1>1, <2>1 DEF MakeTexture, Fresh
    <3> QED BY <1>0, <1>1, <3>1 DEF Current
  <2>2. CASE d.built[l] = NoData /\ r = "no texture"
    <3>1. t = [d EXCEPT !.lut = NoLut]
      BY <2>2 DEF MakeTexture
    <3>2. /\ t.built = d.built /\ t.stale = d.stale /\ t.lut = NoLut /\ t.drawn = d.drawn
          /\ t \in CachingTypes
      BY <1>1, <3>1, Names DEF CachingTypes
    <3>3. Current(t)
      BY <1>1, <3>2 DEF Current, Fresh
    <3> HIDE DEF t
    <3> QED BY <1>1, <2>2, <3>2, <3>3
  <2>3. CASE d.built[l] = NoData /\ r # "no texture"
    <3>1. t = [d EXCEPT !.built[l] = data, !.lut = Lut(l, data)]
      BY <2>3 DEF MakeTexture, MakeLut
    <3>a. t = [stale |-> d.stale, built |-> [d.built EXCEPT ![l] = data],
               lut |-> Lut(l, data), drawn |-> d.drawn]
      BY <1>1, <3>1 DEF CachingTypes
    <3>b. [d.built EXCEPT ![l] = data] \in [Caches -> Data \cup {NoData}]
      BY <1>0, <1>2
    <3>2. /\ t.built = [d.built EXCEPT ![l] = data] /\ t.stale = d.stale
          /\ t.lut = Lut(l, data) /\ t.lut.of = data /\ t.drawn = d.drawn
          /\ t \in CachingTypes
      <4> HIDE DEF t
      <4> QED BY <1>0, <1>1, <1>2, <3>a, <3>b, Names DEF CachingTypes
    <3>3. \A c \in Caches : t.built[c] = IF c = l THEN data ELSE d.built[c]
      BY <1>0, <1>2, <3>2
    <3>4. Current(t)
      BY <1>0, <1>1, <3>2, <3>3, Names DEF Current, Fresh
    <3> HIDE DEF t
    <3> QED BY <1>0, <1>1, <3>2, <3>3, <3>4
  <2> QED BY <2>1, <2>2, <2>3
<1> HIDE DEF t
<1>4. CASE ~Shown(l)
  BY <1>4 DEF RenderGridOverlay
<1>5. CASE Shown(l) /\ t.built[l] # NoData /\ r # "no tiles"
  <2> DEFINE p == Draw(l, t, tool)
             u == [t EXCEPT !.drawn = @ \cup {p}]
  <2>1. RenderGridOverlay(s, l, r, tool) = u
    BY <1>5 DEF RenderGridOverlay, t, d
  <2>2. /\ p.of = data /\ p.data = data /\ (p.lut = NoLut \/ p.lut.of = data)
        /\ p \in [cache : Caches, of : Data, lut : Luts, tool : {"shader", "fixed"}, data : Data]
    BY <1>0, <1>3, <1>5 DEF Draw, CachingTypes
  <2>3. /\ u.stale = t.stale /\ u.built = t.built /\ u.lut = t.lut /\ u.drawn = s.drawn \cup {p}
    BY <1>3 DEF CachingTypes
  <2>4. u \in CachingTypes
    <3> HIDE DEF p
    <3> QED BY <1>0, <1>3, <2>2 DEF CachingTypes
  <2>5. Current(u)
    <3> HIDE DEF u
    <3> QED BY <1>3, <2>3 DEF Current, Fresh
  <2>6. DrawnRight(u)
    <3> HIDE DEF u, p
    <3> QED BY <2>2, <2>3 DEF PaintInv, DrawnRight
  <2> QED BY <2>1, <2>4, <2>5, <2>6 DEF PaintInv
<1>6. CASE Shown(l) /\ ~(t.built[l] # NoData /\ r # "no tiles")
  <2>1. RenderGridOverlay(s, l, r, tool) = t
    BY <1>6 DEF RenderGridOverlay, t, d
  <2> QED BY <1>3, <2>1 DEF PaintInv, DrawnRight
<1> QED BY <1>4, <1>5, <1>6

\* The isolines are painted, or only computed.
LEMMA IsoKeeps ==
  ASSUME NEW s, PaintInv(s), NEW gl \in BOOLEAN, data \in Data, NoData \notin Data
  PROVE  PaintInv(RenderSeaTempIsoLines(s, gl))
<1> DEFINE t == IF "iso" \in s.stale
                THEN [s EXCEPT !.stale = @ \ {"iso"}, !.built["iso"] = data] ELSE s
<1>0. /\ s.stale \subseteq Caches /\ s.built \in [Caches -> Data \cup {NoData}] /\ s.lut \in Luts
      /\ s.drawn \subseteq [cache : Caches, of : Data, lut : Luts,
                            tool : {"shader", "fixed"}, data : Data]
      /\ data # NoData
  BY DEF PaintInv, CachingTypes
<1>1. /\ t \in CachingTypes /\ Current(t) /\ t.drawn = s.drawn /\ t.built["iso"] = data
  <2>1. CASE "iso" \in s.stale
    <3>1. /\ t.stale = s.stale \ {"iso"} /\ t.built = [s.built EXCEPT !["iso"] = data]
          /\ t.lut = s.lut /\ t.drawn = s.drawn /\ t \in CachingTypes
      BY <1>0, <2>1, Names DEF PaintInv, CachingTypes
    <3>2. \A c \in Caches : t.built[c] = IF c = "iso" THEN data ELSE s.built[c]
      BY <1>0, <3>1, Names
    <3> HIDE DEF t
    <3>3. Current(t)
      BY <1>0, <3>1, <3>2, Names DEF PaintInv, Current, Fresh
    <3> QED BY <3>1, <3>2, <3>3, Names
  <2>2. CASE "iso" \notin s.stale
    BY <2>2, Names DEF PaintInv, Current, Fresh
  <2> QED BY <2>1, <2>2
<1> HIDE DEF t
<1>2. CASE ~Shown("iso")
  BY <1>2 DEF RenderSeaTempIsoLines
<1>3. CASE Shown("iso") /\ gl
  <2> DEFINE p == Draw("iso", t, "fixed")
             u == [t EXCEPT !.drawn = @ \cup {p}]
  <2>1. RenderSeaTempIsoLines(s, gl) = u
    BY <1>3 DEF RenderSeaTempIsoLines, t
  <2>2. /\ p.of = data /\ p.data = data /\ p.tool = "fixed"
        /\ p \in [cache : Caches, of : Data, lut : Luts, tool : {"shader", "fixed"}, data : Data]
    BY <1>0, <1>1, Names DEF Draw, CachingTypes
  <2>3. /\ u.stale = t.stale /\ u.built = t.built /\ u.lut = t.lut /\ u.drawn = s.drawn \cup {p}
    BY <1>1 DEF CachingTypes
  <2>4. u \in CachingTypes
    <3> HIDE DEF p
    <3> QED BY <1>0, <1>1, <2>2 DEF CachingTypes
  <2>5. Current(u)
    <3> HIDE DEF u
    <3> QED BY <1>1, <2>3 DEF Current, Fresh
  <2>6. DrawnRight(u)
    <3> HIDE DEF u, p
    <3> QED BY <2>2, <2>3 DEF PaintInv, DrawnRight
  <2> QED BY <2>1, <2>4, <2>5, <2>6 DEF PaintInv
<1>4. CASE Shown("iso") /\ ~gl
  <2>1. RenderSeaTempIsoLines(s, gl) = t
    BY <1>4 DEF RenderSeaTempIsoLines, t
  <2> QED BY <1>1, <2>1 DEF PaintInv, DrawnRight
<1> QED BY <1>2, <1>3, <1>4

-----------------------------------------------------------------------------
\* What a paint ends with.
LEMMA PaintEnds ==
  ASSUME OverlayInv, NEW s, PaintInv(s), Becomes(s), TryShader, UNCHANGED <<data, layers, ready, on>>
  PROVE  OverlayInv'
<1>1. /\ stale' = s.stale /\ built' = s.built /\ lut' = s.lut /\ frame' = s.drawn
      /\ data' = data /\ layers' = layers /\ ready' = ready /\ on' = on
      /\ shader' \in BOOLEAN /\ attempted' \in BOOLEAN
  BY DEF Becomes, TryShader, OverlayInv, TypeOK
<1>2. TypeOK'
  BY <1>1 DEF PaintInv, CachingTypes, OverlayInv, TypeOK
<1>3. Current(Caching)'
  BY <1>1 DEF PaintInv, Current, Fresh, Caching
<1>4. FrameIsCurrent' /\ LutIsOfCurrentStep'
  BY <1>1 DEF PaintInv, DrawnRight, FrameIsCurrent, LutIsOfCurrentStep
<1> QED BY <1>1, <1>2, <1>3, <1>4 DEF OverlayInv

\* What a paint begins with.
LEMMA PaintBegins == OverlayInv => PaintInv(Caching)
BY DEF OverlayInv, PaintInv, DrawnRight, TypeOK, Caching, CachingTypes

LEMMA NewFactoryIsRight ==
  ASSUME data = NoData, layers = {}, ready = FALSE, stale = {"iso"}, built = [c \in Caches |-> NoData],
         lut \in {NoLut, Unset}, shader = FALSE, frame = {}, on \subseteq Switches, attempted \in BOOLEAN
  PROVE  OverlayInv
BY Names DEF OverlayInv, TypeOK, Current, Fresh, Caching, Luts, FrameIsCurrent, LutIsOfCurrentStep

\* Every event keeps the invariant.
LEMMA OverlayInvStep == OverlayInv /\ [Next]_vars => OverlayInv'
<1> SUFFICES ASSUME OverlayInv, [Next]_vars PROVE OverlayInv'
  OBVIOUS
<1>t. TypeOK /\ Current(Caching) /\ (ready => data # NoData)
  BY DEF OverlayInv
<1>e. ASSUME frame' = {} PROVE FrameIsCurrent' /\ LutIsOfCurrentStep'
  BY <1>e DEF FrameIsCurrent, LutIsOfCurrentStep
<1>1. CASE setData
  <2>1. /\ data' \in Data /\ layers' \subseteq GridLayers /\ ready' = TRUE /\ stale' = Caches
        /\ frame' = {} /\ UNCHANGED <<on, built, lut, shader, attempted>>
    BY <1>1 DEF setData, Feed!Load
  <2>2. Current(Caching)'
    BY <2>1, Names DEF Current, Fresh, Caching
  <2>3. TypeOK'
    BY <1>t, <2>1 DEF TypeOK
  <2> QED BY <1>e, <2>1, <2>2, <2>3, OverlayAssumption DEF OverlayInv
<1>2. CASE reset
  <2>1. /\ ready' = FALSE /\ layers' \in {layers, {}} /\ data' = data /\ frame' = {}
        /\ UNCHANGED <<on, stale, built, lut, shader, attempted>>
    BY <1>2 DEF reset, Feed!Clear
  <2>2. Current(Caching)'
    BY <1>t, <2>1 DEF Current, Fresh, Caching
  <2>3. TypeOK'
    BY <1>t, <2>1 DEF TypeOK
  <2> QED BY <1>e, <2>1, <2>2, <2>3 DEF OverlayInv
<1>3. CASE Switch
  <2>1. /\ on' \subseteq Switches /\ frame' = {}
        /\ UNCHANGED <<data, layers, ready, stale, built, lut, shader, attempted>>
    BY <1>3 DEF Switch
  <2>2. Current(Caching)'
    BY <1>t, <2>1 DEF Current, Fresh, Caching
  <2>3. TypeOK'
    BY <1>t, <2>1 DEF TypeOK
  <2> QED BY <1>e, <1>t, <2>1, <2>2, <2>3 DEF OverlayInv
<1>p. ASSUME Renders PROVE data \in Data /\ NoData \notin Data
  BY <1>p, <1>t, OverlayAssumption DEF Renders, TypeOK
<1>4. CASE PaintGL
  <2>1. Renders /\ TryShader /\ UNCHANGED <<data, layers, ready, on>>
    BY <1>4 DEF PaintGL
  <2> DEFINE tool == IF shader' THEN "shader" ELSE "fixed"
  <2>2. PICK r \in [GridLayers -> Outcomes] :
          Becomes(RenderGridOverlay(RenderSeaTempIsoLines(
            RenderGridOverlay(RenderGridOverlay(Caching, "current", r["current"], tool), "sst", r["sst"], tool),
            TRUE), "salinity", r["salinity"], tool))
    BY <1>4 DEF PaintGL
  <2> DEFINE s1 == RenderGridOverlay(Caching, "current", r["current"], tool)
             s2 == RenderGridOverlay(s1, "sst", r["sst"], tool)
             s3 == RenderSeaTempIsoLines(s2, TRUE)
             s4 == RenderGridOverlay(s3, "salinity", r["salinity"], tool)
  <2>3. /\ tool \in {"shader", "fixed"} /\ \A l \in GridLayers : r[l] \in Outcomes
        /\ "current" \in GridLayers /\ "sst" \in GridLayers /\ "salinity" \in GridLayers
    BY DEF GridLayers
  <2> HIDE DEF tool
  <2>4. PaintInv(s1)
    BY <1>p, <2>1, <2>3, PaintBegins, RenderKeeps
  <2> HIDE DEF s1
  <2>5. PaintInv(s2)
    BY <1>p, <2>1, <2>3, <2>4, RenderKeeps
  <2> HIDE DEF s2
  <2>6. PaintInv(s3)
    BY <1>p, <2>1, <2>5, IsoKeeps
  <2> HIDE DEF s3
  <2>7. PaintInv(s4)
    BY <1>p, <2>1, <2>3, <2>6, RenderKeeps
  <2>8. Becomes(s4)
    BY <2>2 DEF s1, s2, s3
  <2> HIDE DEF s4
  <2> QED BY <2>1, <2>7, <2>8, PaintEnds
<1>5. CASE PaintDC
  <2>1. /\ Renders /\ TryShader /\ UNCHANGED <<data, layers, ready, on>>
        /\ Becomes(RenderSeaTempIsoLines(Caching, FALSE))
    BY <1>5 DEF PaintDC
  <2>2. PaintInv(RenderSeaTempIsoLines(Caching, FALSE))
    BY <1>p, <2>1, PaintBegins, IsoKeeps
  <2> QED BY <2>1, <2>2, PaintEnds
<1>6. CASE DeInit
  <2>1. /\ data' = NoData /\ layers' = {} /\ ready' = FALSE /\ stale' = {"iso"}
        /\ built' = [c \in Caches |-> NoData] /\ lut' \in {NoLut, Unset} /\ shader' = FALSE
        /\ frame' = {} /\ on' = on /\ attempted' \in {attempted, FALSE}
    BY <1>6 DEF DeInit, Feed!Forget
  <2>2. Current(Caching)'
    BY <2>1, Names DEF Current, Fresh, Caching
  <2>3. TypeOK'
    BY <1>t, <2>1, Names DEF TypeOK, Luts
  <2> QED BY <1>e, <2>1, <2>2, <2>3 DEF OverlayInv
<1>7. CASE UNCHANGED vars
  BY <1>7 DEF vars, OverlayInv, TypeOK, Current, Fresh, Caching, FrameIsCurrent, LutIsOfCurrentStep
<1> QED BY <1>1, <1>2, <1>3, <1>4, <1>5, <1>6, <1>7 DEF Next

\* Whatever is loaded, switched, painted and lost to a lack of memory in whatever order,
\* a paint draws textures and lines of the step on the chart, and the shader maps its
\* values through no lookup texture of another step (ncdftexture.cpp:248).
THEOREM OverlayIsRight == Spec => [](TypeOK /\ FrameIsCurrent /\ LutIsOfCurrentStep)
<1>1. Init => OverlayInv
  BY NewFactoryIsRight DEF Init, NewFactory, Feed!FeedInit
<1> QED BY <1>1, OverlayInvStep, PTL DEF Spec, OverlayInv
=============================================================================

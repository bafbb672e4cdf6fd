----------------------------- MODULE NcdfOverlay -----------------------------
(***************************************************************************)
(* The caches of ncdfOverlayFactory (src/src/ncdfoverlayfactory.cpp and    *)
(* src/src/ncdftexture.cpp): a texture for each coloured layer, the isoline *)
(* segments, and the one colour lookup texture that all layers share.      *)
(* setData only marks the caches; the next paint that can, rebuilds them.  *)
(* A paint comes from the host, with an OpenGL canvas or with a wxDC, at   *)
(* any time between two handlers of the dialog.                            *)
(***************************************************************************)
EXTENDS FiniteSets, Naturals

CONSTANTS
  Data,     \* the time steps whose grids are put on the chart
  Thin,     \* those with fewer than two rows or columns
  NoData    \* stands for "not built"

GridLayers == {"current", "sst", "salinity"}
Caches     == GridLayers \cup {"iso"}
Switches   == {"force", "sst", "iso", "salinity"}

ASSUME OverlayAssumption ==
  /\ Thin \subseteq Data
  /\ NoData \notin Data

VARIABLES
  data,       \* the step the grids hold, NoData before the first setData
  layers,     \* the layers whose grids exist
  ready,      \* m_bReadyToRender
  on,         \* the m_bShow* flags of the layers below
  stale,      \* the caches whose m_bNeeds*Rebuild is set
  built,      \* the step each cache was built from, NoData if it does not exist
  lut,        \* m_glColorLUT and m_bHasColorLUT
  shader,     \* m_useShader
  attempted,  \* s_shaderInitAttempted
  frame       \* what the paint just done drew

vars == <<data, layers, ready, on, stale, built, lut, shader, attempted, frame>>

\* The events by which the dialog reaches the factory; NcdfSession causes no others.
Feed == INSTANCE NcdfFeed WITH Layers <- GridLayers

-----------------------------------------------------------------------------
(* The lookup texture maps the normalised values of one layer in one step    *)
(* to colours.  The constructor sets neither the flag nor the name: a new    *)
(* factory may believe that it has one.                                      *)

Lut(l, d) == [layer |-> l, of |-> d]
NoLut     == Lut("none", NoData)
Unset     == Lut("unset", NoData)

NewFactory ==
  /\ Feed!FeedInit
  /\ stale = {"iso"}
  /\ built = [c \in Caches |-> NoData]
  /\ lut \in {NoLut, Unset}
  /\ shader = FALSE
  /\ frame = {}

Init == NewFactory /\ on \in SUBSET Switches /\ attempted = FALSE

\* ncdfOverlayFactory::setData, called by readncdfFile once the grids are built
setData ==
  /\ Feed!Load
  /\ stale' = Caches
  /\ frame' = {}
  /\ UNCHANGED <<on, built, lut, shader, attempted>>

\* ncdfOverlayFactory::reset; the dialog has freed the grids before, or it closes
\* and keeps them
reset ==
  /\ Feed!Clear
  /\ frame' = {}
  /\ UNCHANGED <<on, stale, built, lut, shader, attempted>>

\* The dialog and its check boxes (NcdfLayers) may leave any flags.
Switch ==
  /\ on' \in SUBSET Switches
  /\ frame' = {}
  /\ UNCHANGED <<data, layers, ready, stale, built, lut, shader, attempted>>

-----------------------------------------------------------------------------
(* A paint.  The caches it works on are a record, which each layer's        *)
(* rendering takes and returns; memory for a texture or for the tile grid   *)
(* may run out.                                                             *)

Outcomes == {"ok", "no texture", "no tiles"}

\* The switch that shows cache c, and the layer that c is computed from.
SwitchOf(c) == IF c = "current" THEN "force" ELSE c
LayerOf(c)  == IF c = "iso" THEN "sst" ELSE c

Shown(c) == SwitchOf(c) \in on /\ LayerOf(c) \in layers

Draw(c, s, tool) ==
  [cache |-> c, of |-> s.built[c], lut |-> s.lut, tool |-> tool, data |-> data]

\* The texture is dropped when it is marked.
DropTexture(s, l) ==
  IF l \in s.stale
  THEN [s EXCEPT !.stale = @ \ {l}, !.built[l] = NoData]
  ELSE s

MakeLutBeforeTexture(s, l) == Lut(l, s.built[l])
MakeLutOnce(s, l)          == IF s.lut = NoLut THEN Lut(l, data) ELSE s.lut

\* Whichever layer gets a new texture replaces the lookup texture of all of them.
MakeLut(s, l) == Lut(l, data)

\* A missing texture takes the lookup texture with it, and both are made again.
MakeTexture(s, l, r) ==
  IF s.built[l] # NoData THEN s
  ELSE IF r = "no texture" THEN [s EXCEPT !.lut = NoLut]
  ELSE [s EXCEPT !.built[l] = data, !.lut = MakeLut(s, l)]

\* RenderGridOverlay with an OpenGL canvas; tool is the shader or fixed functions
RenderGridOverlay(s, l, r, tool) ==
  IF ~Shown(l) THEN s
  ELSE LET t == MakeTexture(DropTexture(s, l), l, r) IN
       IF t.built[l] # NoData /\ r # "no tiles"
       THEN [t EXCEPT !.drawn = @ \cup {Draw(l, t, tool)}]
       ELSE t

\* RenderSeaTempIsoLines; only an OpenGL canvas gets the lines
RenderSeaTempIsoLines(s, gl) ==
  IF ~Shown("iso") THEN s
  ELSE LET t == IF "iso" \in s.stale
                THEN [s EXCEPT !.stale = @ \ {"iso"}, !.built["iso"] = data]
                ELSE s IN
       IF gl THEN [t EXCEPT !.drawn = @ \cup {Draw("iso", t, "fixed")}] ELSE t

Caching == [stale |-> stale, built |-> built, lut |-> lut, drawn |-> {}]

BecomesConsuming(s) ==
  stale' = s.stale \ GridLayers /\ built' = s.built /\ lut' = s.lut /\ frame' = s.drawn

Becomes(s) == stale' = s.stale /\ built' = s.built /\ lut' = s.lut /\ frame' = s.drawn

\* DoRenderncdfOverlay goes past its guards.  Its last one asks for some m_bShow*
\* flag; the arrows or the particles may be on, so on may be empty.
Renders == ready /\ layers # {} /\ data \notin Thin

\* The first paint of the process tries the shaders, whatever it paints on.
TryShader ==
  /\ attempted' = TRUE
  /\ shader' \in IF shader \/ attempted THEN {shader} ELSE BOOLEAN

PaintGL ==
  /\ Renders
  /\ TryShader
  /\ \E r \in [GridLayers -> Outcomes] :
        LET tool == IF shader' THEN "shader" ELSE "fixed"
            s1 == RenderGridOverlay(Caching, "current", r["current"], tool)
            s2 == RenderGridOverlay(s1, "sst", r["sst"], tool)
            s3 == RenderSeaTempIsoLines(s2, TRUE)
        IN Becomes(RenderGridOverlay(s3, "salinity", r["salinity"], tool))
  /\ UNCHANGED <<data, layers, ready, on>>

\* With a wxDC no texture is touched, but the isolines are computed.
PaintDC ==
  /\ Renders
  /\ TryShader
  /\ Becomes(RenderSeaTempIsoLines(Caching, FALSE))
  /\ UNCHANGED <<data, layers, ready, on>>

\* DeInit and Init: a new factory; s_shaderInitAttempted survives unless the host
\* unloads the library.
DeInit ==
  /\ Feed!Forget
  /\ stale' = {"iso"}
  /\ built' = [c \in Caches |-> NoData]
  /\ lut' \in {NoLut, Unset}
  /\ shader' = FALSE
  /\ frame' = {}
  /\ attempted' \in {attempted, FALSE}
  /\ UNCHANGED on

Next ==
  \/ setData
  \/ reset
  \/ Switch
  \/ PaintGL
  \/ PaintDC
  \/ DeInit

Spec == Init /\ [][Next]_vars
-----------------------------------------------------------------------------
(* Properties.                                                              *)

Luts == [layer : GridLayers, of : Data] \cup {NoLut, Unset}

\* Every variable holds a value of its type.
TypeOK ==
  /\ data \in Data \cup {NoData}
  /\ layers \subseteq GridLayers
  /\ {ready, shader, attempted} \subseteq BOOLEAN
  /\ on \subseteq Switches
  /\ stale \subseteq Caches
  /\ built \in [Caches -> Data \cup {NoData}]
  /\ lut \in Luts
  /\ frame \subseteq [cache : Caches, of : Data, lut : Luts,
                      tool : {"shader", "fixed"}, data : Data]

\* Textures and isolines are rebuilt by whichever paint comes next, on whichever
\* surface, with whichever layers are on; a layer switched on long after its step
\* was read, or a paint that ran out of memory, never draws an older step.
FrameIsCurrent == \A p \in frame : p.of = p.data

\* The shader never maps a step's values through the lookup texture of another
\* step, nor through the one a new factory only believes it has.
LutIsOfCurrentStep ==
  \A p \in frame : p.tool = "shader" /\ p.lut # NoLut => p.lut.of = p.data

\* ncdftexture.cpp:33 and :70 give the sea temperature and the salinity a colour map
\* each, and ncdftexture.cpp:248 bakes the one of the layer being built into the
\* lookup texture: what the shader draws of a layer is then in that layer's colours.
LutMapsDrawnLayer ==
  \A p \in frame : p.tool = "shader" /\ p.cache # "iso" /\ p.lut # NoLut =>
    p.lut.layer = p.cache
=============================================================================

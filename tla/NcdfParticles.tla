---------------------------- MODULE NcdfParticles ----------------------------
(***************************************************************************)
(* The particle animation of ncdfOverlayFactory (src/src/ncdfparticle.cpp): *)
(* the particles with the ring buffers of their trails, and the one-shot   *)
(* timer, the update flag and the burst counter that keep them moving.     *)
(* Where a particle is does not matter here: each update only decides      *)
(* whether it moves, halts, leaves the viewport or dies.  A node of a trail *)
(* keeps when it was given its position instead of the position itself.    *)
(***************************************************************************)
EXTENDS Integers, Sequences, FiniteSets

CONSTANTS
  History,      \* history_size: nodes of a trail
  MaxDuration,  \* max_duration
  RunCount,     \* run_count: updates between two moves of a particle
  Burst,        \* updates that setData forces
  Total,        \* total_particles for the data
  RemoveShare,  \* 16
  SpawnShare,   \* 64
  Global        \* the data goes round the Earth: any longitude has a value

ASSUME ParticlesAssumption ==
  /\ {History, MaxDuration, RunCount, RemoveShare, SpawnShare} \subseteq Nat \ {0}
  /\ MaxDuration >= 2
  /\ Burst \in Nat /\ Total \in Nat
  /\ Global \in BOOLEAN

VARIABLES
  on,         \* m_bShowParticles
  drawable,   \* the factory is ready and RenderParticles passes its guards
  particles,  \* m_Particles
  update,     \* m_bUpdateParticles
  burst,      \* m_particleBurstCount
  timer,      \* m_tParticleTimer is running
  refresh     \* a Refresh of the canvas has not been painted yet

vars == <<on, drawable, particles, update, burst, timer, refresh>>

-----------------------------------------------------------------------------
(* A particle.  Each node of its trail has the age at which the particle    *)
(* was there, or it is erased: its longitude is -10000.                     *)

Nodes == 0 .. History - 1

Erased == -History

Cleared == [n \in Nodes |-> Erased]

\* The trail of a new particle is filled at once, as if it had moved already.
Spawn(age, run) ==
  [run |-> run, age |-> age, pos |-> History - 1, size |-> History,
   when |-> [n \in Nodes |-> age - (History - 1 - n)], did |-> "spawned"]

Uncapped(n) == n

Capped(n) == IF n > History THEN History ELSE n

\* The next node of the ring is written.
Advance(p) == [p EXCEPT !.age = @ + 1,
                        !.size = Capped(@ + 1),
                        !.pos = (@ + 1) % History]

\* What an update may do to a particle whose turn it is: it halts near its end
\* and where there is no current.
Outcomes(p) ==
  LET tired == p.age + 1 >= MaxDuration - History
      lost  == p.when[p.pos] = Erased /\ ~Global
  IN {"halted"} \cup {o \in {"moved", "recycled"} : ~tired /\ ~lost}

\* A particle that leaves the viewport is put back into it.  Its new position is
\* then erased with the old trail: p and n.m_Pos are the same memory.
RecycleKeepsTrail(p) == [p EXCEPT !.size = 1, !.pos = 0, !.did = "recycled"]

Recycle(p) == [p EXCEPT !.size = 1, !.pos = 0, !.when = Cleared, !.did = "recycled"]

Act(p, o) ==
  IF o = "recycled" THEN Recycle(p)
  ELSE [p EXCEPT !.when[p.pos] = IF o = "moved" THEN p.age ELSE Erased, !.did = o]

Due(p)  == p.run + 1 >= RunCount

Dies(p) == Due(p) /\ p.age > MaxDuration

Step(p, o) ==
  IF Due(p) THEN Act(Advance([p EXCEPT !.run = 0]), o) ELSE [p EXCEPT !.run = @ + 1]

\* The surplus is removed, a sixteenth of it at a time.
Trimmed(ps) ==
  IF Len(ps) > Total
  THEN SubSeq(ps, 1, Len(ps) - (Len(ps) - Total) \div RemoveShare)
  ELSE ps

RoomIgnoringPresent(ps) == Total \div SpawnShare

\* How many new particles an update tries to find a place for.
Room(ps) == IF Len(ps) >= Total THEN 0 ELSE (Total - Len(ps)) \div SpawnShare

Living(ps) == {i \in DOMAIN ps : ~Dies(ps[i])}

\* Which of them come to be where: the place of a dead particle is taken by the last one,
\* if that lives, or else the one before it, and so on.
Refilled(ps, at) ==
  /\ \A k \in DOMAIN at \cap Living(ps) : at[k] = k
  /\ \A k, l \in DOMAIN at : k # l => at[k] # at[l]
  /\ \A k, l \in DOMAIN at \ Living(ps) : k < l => at[k] > at[l]

\* One pass over all particles: the dead go, the others take their turn, and new ones
\* are added at the end.
Updates(ps, new) ==
  \E o \in [DOMAIN ps -> {"moved", "halted", "recycled"}],
     at \in [1 .. Cardinality(Living(ps)) -> Living(ps)] :
    /\ \A i \in DOMAIN ps : o[i] \in Outcomes(ps[i])
    /\ Refilled(ps, at)
    /\ LET kept == Trimmed([k \in DOMAIN at |-> Step(ps[at[k]], o[at[k]])])
       IN \E n \in 0 .. Room(kept) : \E age \in [1 .. n -> 0 .. MaxDuration \div 2 - 1] :
            new = kept \o [i \in 1 .. n |-> Spawn(age[i], (i - 1) % RunCount)]

-----------------------------------------------------------------------------
Init ==
  /\ on \in BOOLEAN
  /\ drawable = FALSE
  /\ particles = <<>>
  /\ update = TRUE /\ burst = 0
  /\ timer = FALSE /\ refresh = FALSE

\* setData, and the RequestRefresh that follows it
setData ==
  /\ drawable' \in BOOLEAN
  /\ particles' = <<>>
  /\ update' = TRUE /\ burst' = Burst
  /\ refresh' = TRUE
  /\ UNCHANGED <<on, timer>>

\* The factory is reset: nothing is painted before the next setData.
reset ==
  /\ drawable
  /\ drawable' = FALSE
  /\ UNCHANGED <<on, particles, update, burst, timer, refresh>>

\* onParticlesClick
onParticlesClick ==
  /\ on' = ~on
  /\ refresh' = TRUE
  /\ UNCHANGED <<drawable, particles, update, burst, timer>>

\* The end of RenderParticles.
StartTimerWithParticles == timer' = (timer \/ particles' # <<>>)

StartTimer == timer' = TRUE

RenderParticles ==
  /\ drawable /\ on
  /\ refresh' = FALSE
  /\ burst' = IF burst > 0 THEN burst - 1 ELSE 0
  /\ update' = FALSE
  /\ IF update \/ burst > 0 THEN Updates(particles, particles') ELSE UNCHANGED particles
  /\ StartTimer
  /\ UNCHANGED <<on, drawable>>

\* A paint that does not reach RenderParticles.  When the factory is ready and the
\* particles are switched off it clears them, unless nothing else is switched on.
PaintWithout ==
  /\ ~(drawable /\ on)
  /\ refresh' = FALSE
  /\ particles' \in {particles} \cup {<<>> : d \in {drawable} \cap {TRUE}}
  /\ UNCHANGED <<on, drawable, update, burst, timer>>

Paint == RenderParticles \/ PaintWithout

\* The timer's handler: the next paint updates the particles.
TimerFires ==
  /\ timer
  /\ timer' = FALSE
  /\ update' = TRUE
  /\ refresh' = TRUE
  /\ UNCHANGED <<on, drawable, particles, burst>>

\* DeInit and Init: the factory's destructor stops the timer.
DeInit ==
  /\ drawable' = FALSE
  /\ particles' = <<>>
  /\ update' = TRUE /\ burst' = 0
  /\ timer' = FALSE
  /\ UNCHANGED <<on, refresh>>

Next == setData \/ reset \/ onParticlesClick \/ Paint \/ TimerFires \/ DeInit

\* A timer that runs expires, and the host paints a canvas that asked for it.
Fairness == WF_vars(TimerFires) /\ WF_vars(refresh /\ Paint)

Spec == Init /\ [][Next]_vars /\ Fairness
-----------------------------------------------------------------------------
(* Properties.                                                              *)

Did == {"spawned", "moved", "halted", "recycled"}

\* Every variable holds a value of its type; no particle outlives max_duration by
\* more than the turn that finds it out.
TypeOK ==
  /\ {on, drawable, update, timer, refresh} \subseteq BOOLEAN
  /\ burst \in 0 .. Burst
  /\ particles \in Seq([run : 0 .. RunCount - 1, age : 0 .. MaxDuration + 1, pos : Nodes,
                        size : 1 .. History, when : [Nodes -> Erased .. MaxDuration + 1], did : Did])

\* The drawing loop goes from m_HistoryPos down to node 0, and on from the last node of
\* the ring if m_HistorySize reaches it: so many nodes behind the first.
Behind(p) == IF p.size < History THEN p.pos ELSE History - 1

Back(p, n) == (p.pos + History - n) % History

\* A trail is drawn in the order of time (ncdfparticle.cpp:267): the k-th node behind the
\* first has the position of k turns ago, or is erased; and every node that is not drawn
\* is erased.  No line joins two positions out of order, across the end of the ring, or
\* from before the particle was recycled.
TrailIsInOrder ==
  \A i \in DOMAIN particles : \A n \in Nodes :
    LET p == particles[i] IN
    p.when[n] \in {Erased} \cup {p.age - k : k \in {Back(p, n)} \cap (0 .. Behind(p))}

\* Whatever the order of updates, deaths and spawns, there are never more particles
\* than the data calls for: the surplus that the code removes never arises.
PopulationBounded == Len(particles) <= Total

\* The animation never freezes: while the particles stay on and there is a current
\* to draw, paints go on updating them, although the timer fires only once each time
\* it is started, and only a paint that draws them starts it.
AnimationGoesOn ==
  []<>~(on /\ drawable) \/ []<><<RenderParticles /\ update>>_vars

\* ncdfparticle.cpp:126 says of a particle that leaves the viewport: "respawn
\* off-screen particles within viewport".  It is then visible there.
RecycledIsVisible ==
  \A i \in DOMAIN particles :
    particles[i].did = "recycled" => particles[i].when[particles[i].pos] # Erased
=============================================================================

------------------------- MODULE NcdfParticlesProofs -------------------------
(* Proofs about NcdfParticles: the trails and the number of the particles,  *)
(* for trails of any length, any number of particles and any life.          *)
EXTENDS NcdfParticles, FiniteSetTheorems, SequenceTheorems, TLAPS

Particle == [run : 0 .. RunCount - 1, age : 0 .. MaxDuration + 1, pos : Nodes,
             size : 1 .. History, when : [Nodes -> Erased .. MaxDuration + 1], did : Did]

\* What TrailIsInOrder says of node n of a particle.
InOrder(p, n) ==
  p.when[n] = Erased \/ (Back(p, n) \in 0 .. Behind(p) /\ p.when[n] = p.age - Back(p, n))

\* Until the ring is full, a trail ends where the ring does not yet go on.
Fills(p) == p.size < History => p.pos = p.size - 1

Sound == {p \in Particle : Fills(p) /\ \A n \in Nodes : InOrder(p, n)}

SwitchesOK == {on, drawable, update, timer, refresh} \subseteq BOOLEAN /\ burst \in 0 .. Burst

ParticlesInv == SwitchesOK /\ particles \in Seq(Sound) /\ PopulationBounded

-----------------------------------------------------------------------------
(* One particle.                                                            *)

\* How far behind the first node another is.
LEMMA BackIs ==
  ASSUME NEW p, NEW n \in Nodes, p.pos \in Nodes
  PROVE  Back(p, n) = IF n <= p.pos THEN p.pos - n ELSE p.pos + History - n
<1>1. p.pos \in 0 .. History - 1 /\ n \in 0 .. History - 1 /\ History \in Nat \ {0}
  BY ParticlesAssumption DEF Nodes
<1> DEFINE d == p.pos + History - n
<1>2. CASE n <= p.pos
  <2>1. d = 1 * History + (p.pos - n) /\ p.pos - n \in 0 .. History - 1
    BY <1>1, <1>2
  <2>2. d % History = p.pos - n
    <3> DEFINE r == p.pos - n
    <3>1. d = History + r /\ r \in 0 .. History - 1
      BY <2>1, <1>1
    <3> HIDE DEF d, r
    <3>2. (History + r) % History = r
      BY <3>1, <1>1, SMTT(30)
    <3> QED BY <3>1, <3>2 DEF r
  <2> QED BY <1>2, <2>2 DEF Back
<1>3. CASE ~(n <= p.pos)
  <2>1. d \in 0 .. History - 1
    BY <1>1, <1>3
  <2>2. d % History = d
    <3> HIDE DEF d
    <3> QED BY <1>1, <2>1, SMTT(30)
  <2> QED BY <1>3, <2>2 DEF Back
<1> QED BY <1>2, <1>3

\* A new particle's trail is full, each node a turn older than the one after it.
LEMMA SpawnIsSound ==
  ASSUME NEW age \in 0 .. MaxDuration \div 2 - 1, NEW run \in 0 .. RunCount - 1
  PROVE  Spawn(age, run) \in Sound
<1> DEFINE p == Spawn(age, run)
<1>1. age \in 0 .. MaxDuration + 1 /\ age \in Int
  BY ParticlesAssumption
<1>2. History - 1 \in Nodes /\ History \in 1 .. History /\ "spawned" \in Did
  BY ParticlesAssumption DEF Nodes, Did
<1>3. [n \in Nodes |-> age - (History - 1 - n)] \in [Nodes -> Erased .. MaxDuration + 1]
  BY <1>1, ParticlesAssumption DEF Nodes, Erased
<1>4. p \in Particle
  BY <1>1, <1>2, <1>3 DEF Spawn, Particle
<1>5. p.pos = History - 1 /\ p.size = History /\ p.age = age
      /\ \A n \in Nodes : p.when[n] = age - (History - 1 - n)
  BY DEF Spawn
<1> HIDE DEF p
<1>6. ASSUME NEW n \in Nodes PROVE InOrder(p, n)
  <2>1. n \in 0 .. History - 1 /\ History \in Nat
    BY ParticlesAssumption DEF Nodes
  <2>2. Back(p, n) = History - 1 - n
    BY <1>2, <1>5, <2>1, BackIs
  <2>3. Behind(p) = History - 1
    BY <1>5, <2>1 DEF Behind
  <2> QED BY <1>1, <1>5, <2>1, <2>2, <2>3 DEF InOrder
<1>7. Fills(p)
  BY <1>5, ParticlesAssumption DEF Fills
<1> QED BY <1>4, <1>6, <1>7 DEF Sound, p

\* The ring turns by a node: every other is a turn further behind, and still drawn if
\* it was.
LEMMA AdvanceIsSound ==
  ASSUME NEW p \in Sound, p.age <= MaxDuration
  PROVE  /\ Advance(p) \in Particle /\ Fills(Advance(p))
         /\ \A n \in Nodes \ {Advance(p).pos} : InOrder(Advance(p), n)
<1> DEFINE q == Advance(p)
<1>1. p \in Particle /\ Fills(p) /\ \A n \in Nodes : InOrder(p, n)
  BY DEF Sound
<1>2. p.pos \in 0 .. History - 1 /\ p.size \in 1 .. History /\ p.age \in 0 .. MaxDuration
      /\ History \in Nat \ {0}
  BY <1>1, ParticlesAssumption DEF Particle, Nodes
<1>3. q.age = p.age + 1 /\ q.size = Capped(p.size + 1)
      /\ q.pos = (p.pos + 1) % History /\ q.when = p.when
  BY <1>1 DEF Particle, Advance
<1>4. Capped(p.size + 1) \in 1 .. History
      /\ Capped(p.size + 1) = IF p.size = History THEN History ELSE p.size + 1
  BY <1>2 DEF Capped
<1>5. (p.pos + 1) % History = IF p.pos = History - 1 THEN 0 ELSE p.pos + 1
  <2> DEFINE x == p.pos + 1
  <2>1. x \in 1 .. History /\ (x = History <=> p.pos = History - 1)
    BY <1>2
  <2> HIDE DEF x
  <2>2. x % History = IF x = History THEN 0 ELSE x
    <3>1. CASE x = History
      <4>1. History % History = 0
        BY <1>2, SMTT(30)
      <4> QED BY <3>1, <4>1
    <3>2. CASE x # History
      BY <1>2, <2>1, <3>2, SMTT(30)
    <3> QED BY <3>1, <3>2
  <2> QED BY <2>1, <2>2 DEF x
<1>6. q \in Particle
  <2>1. p.age + 1 \in 0 .. MaxDuration + 1 /\ (p.pos + 1) % History \in Nodes
    BY <1>2, <1>5, ParticlesAssumption DEF Nodes
  <2>2. Advance(p) = [p EXCEPT !.age = p.age + 1, !.size = Capped(p.size + 1),
                               !.pos = (p.pos + 1) % History]
    BY <1>1 DEF Advance, Particle
  <2> QED BY <1>1, <1>4, <2>1, <2>2 DEF Particle
<1> HIDE DEF q
<1>7. Fills(q)
  BY <1>1, <1>2, <1>3, <1>4, <1>5 DEF Fills
<1>8. ASSUME NEW n \in Nodes \ {q.pos} PROVE InOrder(q, n)
  <2>1. n \in 0 .. History - 1 /\ q.pos \in Nodes /\ p.pos \in Nodes
    BY <1>1, <1>2, <1>6 DEF Nodes, Particle
  <2>2. Back(p, n) = IF n <= p.pos THEN p.pos - n ELSE p.pos + History - n
    BY <2>1, BackIs
  <2>3. Back(q, n) = IF n <= q.pos THEN q.pos - n ELSE q.pos + History - n
    BY <2>1, BackIs
  <2>4. Back(q, n) = Back(p, n) + 1 /\ Back(q, n) \in 0 .. History - 1
    BY <1>2, <1>3, <1>5, <2>1, <2>2, <2>3
  <2>5. Behind(q) = IF p.size < History THEN p.pos + 1 ELSE History - 1
    BY <1>1, <1>2, <1>3, <1>4, <1>5 DEF Behind, Fills
  <2>6. Behind(p) = IF p.size < History THEN p.pos ELSE History - 1
    BY DEF Behind
  <2>7. Back(p, n) \in 0 .. Behind(p) => Back(q, n) \in 0 .. Behind(q)
    BY <1>2, <2>2, <2>1, <2>4, <2>5, <2>6
  <2>8. p.age - Back(p, n) = q.age - Back(q, n)
    BY <1>2, <1>3, <2>1, <2>2, <2>4
  <2>9. InOrder(p, n)
    BY <1>1
  <2> QED BY <1>3, <2>7, <2>8, <2>9 DEF InOrder
<1> QED BY <1>6, <1>7, <1>8 DEF q

\* The new first node gets a position or is erased; or the whole trail is.
LEMMA ActIsSound ==
  ASSUME NEW p \in Particle, NEW o \in {"moved", "halted", "recycled"},
         Fills(p), \A n \in Nodes \ {p.pos} : InOrder(p, n)
  PROVE  Act(p, o) \in Sound
<1>1. CASE o = "recycled"
  <2>1. 0 \in Nodes /\ 1 \in 1 .. History /\ Cleared \in [Nodes -> Erased .. MaxDuration + 1]
        /\ \A n \in Nodes : Cleared[n] = Erased
    BY ParticlesAssumption DEF Nodes, Cleared, Erased
  <2>2. Act(p, o) \in Particle
    BY <1>1, <2>1 DEF Act, Recycle, Particle, Did
  <2>3. Act(p, o).pos = 0 /\ Act(p, o).size = 1 /\ Act(p, o).when = Cleared
    BY <1>1 DEF Act, Recycle, Particle
  <2>4. Fills(Act(p, o))
    BY <2>3 DEF Fills
  <2>5. \A n \in Nodes : InOrder(Act(p, o), n)
    BY <2>1, <2>3 DEF InOrder
  <2> QED BY <2>2, <2>4, <2>5 DEF Sound
<1>2. CASE o # "recycled"
  <2> DEFINE a == IF o = "moved" THEN p.age ELSE Erased
  <2>1. a \in Erased .. MaxDuration + 1 /\ o \in Did
    BY ParticlesAssumption DEF Did, Particle, Erased
  <2>2. Act(p, o) = [p EXCEPT !.when[p.pos] = a, !.did = o]
    BY <1>2 DEF Act
  <2> HIDE DEF a
  <2>3. [p.when EXCEPT ![p.pos] = a] \in [Nodes -> Erased .. MaxDuration + 1]
    BY <2>1 DEF Particle
  <2>4. Act(p, o) = [p EXCEPT !.when = [p.when EXCEPT ![p.pos] = a], !.did = o]
    BY <2>2 DEF Particle
  <2>5. Act(p, o) \in Particle
    BY <2>1, <2>3, <2>4 DEF Particle
  <2>6. /\ Act(p, o).pos = p.pos /\ Act(p, o).size = p.size /\ Act(p, o).age = p.age
        /\ Act(p, o).when = [p.when EXCEPT ![p.pos] = a]
    BY <2>4 DEF Particle
  <2>7. ASSUME NEW n \in Nodes PROVE InOrder(Act(p, o), n)
    <3>1. Back(Act(p, o), n) = Back(p, n) /\ Behind(Act(p, o)) = Behind(p)
      BY <2>6 DEF Back, Behind
    <3>2. CASE n = p.pos
      <4>1. p.pos \in 0 .. History - 1 /\ p.size \in 1 .. History /\ p.age \in Int
            /\ History \in Nat \ {0}
        BY ParticlesAssumption DEF Nodes, Particle
      <4>2. Back(p, n) = 0
        BY <3>2, <4>1, BackIs DEF Nodes
      <4>3. 0 \in 0 .. Behind(p)
        BY <4>1 DEF Behind
      <4>4. Act(p, o).when[n] = a
        BY <2>6, <3>2 DEF Particle
      <4> QED BY <2>6, <3>1, <4>1, <4>2, <4>3, <4>4 DEF InOrder, a
    <3>3. CASE n # p.pos
      <4>1. Act(p, o).when[n] = p.when[n] /\ InOrder(p, n)
        BY <2>6, <3>3 DEF Particle
      <4> QED BY <2>6, <3>1, <4>1 DEF InOrder
    <3> QED BY <3>2, <3>3
  <2>8. Fills(Act(p, o))
    BY <2>6 DEF Fills
  <2> QED BY <2>5, <2>7, <2>8 DEF Sound
<1> QED BY <1>1, <1>2

\* A particle that outlives the update has a sound trail after it.
LEMMA StepIsSound ==
  ASSUME NEW p \in Sound, NEW o \in {"moved", "halted", "recycled"}, ~Dies(p)
  PROVE  Step(p, o) \in Sound
<1>0. p \in Particle /\ p.run \in 0 .. RunCount - 1
  BY DEF Sound, Particle
<1>1. ASSUME NEW run \in 0 .. RunCount - 1 PROVE [p EXCEPT !.run = run] \in Sound
  <2> DEFINE q == [p EXCEPT !.run = run]
  <2>1. q \in Particle /\ q.age = p.age /\ q.pos = p.pos /\ q.size = p.size /\ q.when = p.when
    BY <1>0 DEF Particle
  <2> HIDE DEF q
  <2>2. Fills(q) /\ \A n \in Nodes : InOrder(q, n)
    BY <2>1 DEF Sound, Fills, InOrder, Back, Behind
  <2>3. q \in Sound
    BY <2>1, <2>2 DEF Sound
  <2> QED BY <2>3 DEF q
<1>2. CASE Due(p)
  <2> DEFINE q == [p EXCEPT !.run = 0]
  <2>1. q \in Sound /\ q.age = p.age
    BY <1>0, <1>1, ParticlesAssumption DEF Particle
  <2>2. q.age <= MaxDuration
    BY <1>0, <1>2, <2>1, ParticlesAssumption DEF Dies, Particle
  <2>3. Step(p, o) = Act(Advance(q), o)
    BY <1>2 DEF Step
  <2> HIDE DEF q
  <2> QED BY <2>1, <2>2, <2>3, AdvanceIsSound, ActIsSound
<1>3. CASE ~Due(p)
  <2>1. p.run + 1 \in 0 .. RunCount - 1
    BY <1>0, <1>3, ParticlesAssumption DEF Due
  <2>2. Step(p, o) = [p EXCEPT !.run = p.run + 1]
    BY <1>0, <1>3 DEF Step, Particle
  <2> QED BY <1>1, <2>1, <2>2
<1> QED BY <1>2, <1>3

-----------------------------------------------------------------------------
(* One pass over all of them.                                               *)

\* Those that live are no more than there are.
LEMMA LivingAreFewer ==
  ASSUME NEW ps \in Seq(Sound)
  PROVE  Cardinality(Living(ps)) \in 0 .. Len(ps)
<1>1. DOMAIN ps = 1 .. Len(ps) /\ Len(ps) \in Nat
  OBVIOUS
<1>2. IsFiniteSet(1 .. Len(ps)) /\ Cardinality(1 .. Len(ps)) = Len(ps)
  BY <1>1, FS_Interval
<1>3. Living(ps) \subseteq 1 .. Len(ps)
  BY <1>1 DEF Living
<1> QED BY <1>1, <1>2, <1>3, FS_Subset, FS_CardinalityType

\* An update leaves sound particles, and adds no more than there is room for.
LEMMA UpdatesAreSound ==
  ASSUME NEW ps \in Seq(Sound), Len(ps) <= Total, NEW new, Updates(ps, new)
  PROVE  new \in Seq(Sound) /\ Len(new) <= Total
<1> DEFINE c == Cardinality(Living(ps))
<1>0. c \in Nat /\ c <= Len(ps) /\ Len(ps) \in Nat /\ Total \in Nat
  BY LivingAreFewer, ParticlesAssumption
<1>1. PICK o \in [DOMAIN ps -> {"moved", "halted", "recycled"}],
           at \in [1 .. c -> Living(ps)] :
         LET kept == Trimmed([k \in DOMAIN at |-> Step(ps[at[k]], o[at[k]])])
         IN \E n \in 0 .. Room(kept) : \E age \in [1 .. n -> 0 .. MaxDuration \div 2 - 1] :
              new = kept \o [i \in 1 .. n |-> Spawn(age[i], (i - 1) % RunCount)]
  BY DEF Updates
<1> DEFINE stepped == [k \in DOMAIN at |-> Step(ps[at[k]], o[at[k]])]
           kept == Trimmed(stepped)
<1> HIDE DEF c
<1>2. stepped \in Seq(Sound) /\ Len(stepped) = c
  <2>1. ASSUME NEW k \in 1 .. c PROVE Step(ps[at[k]], o[at[k]]) \in Sound
    <3>1. at[k] \in DOMAIN ps /\ ~Dies(ps[at[k]])
      BY DEF Living
    <3>2. ps[at[k]] \in Sound /\ o[at[k]] \in {"moved", "halted", "recycled"}
      BY <3>1, ElementOfSeq
    <3> QED BY <3>1, <3>2, StepIsSound
  <2>2. stepped \in [1 .. c -> Sound]
    BY <2>1
  <2> HIDE DEF stepped
  <2> QED BY <1>0, <2>2, IsASeq, LenProperties
<1>3. kept = stepped
  BY <1>0, <1>2 DEF Trimmed
<1>4. PICK n \in 0 .. Room(kept) : \E age \in [1 .. n -> 0 .. MaxDuration \div 2 - 1] :
        new = kept \o [i \in 1 .. n |-> Spawn(age[i], (i - 1) % RunCount)]
  BY <1>1
<1>5. PICK age \in [1 .. n -> 0 .. MaxDuration \div 2 - 1] :
        new = kept \o [i \in 1 .. n |-> Spawn(age[i], (i - 1) % RunCount)]
  BY <1>4
<1> DEFINE born == [i \in 1 .. n |-> Spawn(age[i], (i - 1) % RunCount)]
<1> HIDE DEF stepped, kept
<1>6. n \in Nat /\ c + n <= Total
  <2>1. Room(kept) = IF c >= Total THEN 0 ELSE (Total - c) \div SpawnShare
    BY <1>2, <1>3 DEF Room
  <2>2. c < Total => (Total - c) \div SpawnShare <= Total - c /\ (Total - c) \div SpawnShare \in Nat
    <3> SUFFICES ASSUME c < Total
                 PROVE  (Total - c) \div SpawnShare <= Total - c /\ (Total - c) \div SpawnShare \in Nat
      OBVIOUS
    <3> DEFINE t == Total - c
               q == t \div SpawnShare
    <3>1. t \in Nat /\ SpawnShare \in Nat /\ SpawnShare >= 1
      BY <1>0, ParticlesAssumption
    <3> HIDE DEF t
    <3>2. q \in Int /\ SpawnShare * q <= t /\ q >= 0
      BY <3>1, SMTT(30)
    <3>3. q <= SpawnShare * q
      <4> HIDE DEF q
      <4> QED BY <3>1, <3>2, SMTT(30)
    <3> QED BY <3>1, <3>2, <3>3 DEF t
  <2> QED BY <1>0, <2>1, <2>2
<1>7. born \in Seq(Sound) /\ Len(born) = n
  <2>1. ASSUME NEW i \in 1 .. n PROVE Spawn(age[i], (i - 1) % RunCount) \in Sound
    <3>1. (i - 1) % RunCount \in 0 .. RunCount - 1
      BY <1>6, ParticlesAssumption
    <3> QED BY <3>1, SpawnIsSound
  <2>2. born \in [1 .. n -> Sound]
    BY <2>1
  <2> HIDE DEF born
  <2> QED BY <1>6, <2>2, IsASeq, LenProperties
<1> QED
  <2> HIDE DEF born
  <2>1. new = kept \o born
    BY <1>5 DEF born
  <2> QED BY <1>0, <1>2, <1>3, <1>6, <1>7, <2>1, ConcatProperties

-----------------------------------------------------------------------------
LEMMA ParticlesInvInit == Init => ParticlesInv
<1> SUFFICES ASSUME Init PROVE ParticlesInv
  OBVIOUS
<1>1. particles \in Seq(Sound) /\ Len(particles) = 0
  BY EmptySeq DEF Init
<1>2. PopulationBounded
  BY <1>1, ParticlesAssumption DEF PopulationBounded
<1>3. burst \in 0 .. Burst
  BY ParticlesAssumption DEF Init
<1> QED BY <1>1, <1>2, <1>3 DEF Init, ParticlesInv, SwitchesOK

LEMMA ParticlesInvStep == ParticlesInv /\ [Next]_vars => ParticlesInv'
<1> SUFFICES ASSUME ParticlesInv, [Next]_vars PROVE ParticlesInv'
  OBVIOUS
<1> USE DEF ParticlesInv, SwitchesOK
<1>0. ASSUME particles' = <<>> PROVE (particles \in Seq(Sound) /\ PopulationBounded)'
  <2>1. particles' \in Seq(Sound) /\ Len(particles') = 0
    BY <1>0, EmptySeq
  <2> QED BY <2>1, ParticlesAssumption DEF PopulationBounded
<1>1. CASE setData
  BY <1>0, <1>1, ParticlesAssumption DEF setData
<1>2. CASE reset
  BY <1>2 DEF reset, PopulationBounded
<1>3. CASE onParticlesClick
  BY <1>3 DEF onParticlesClick, PopulationBounded
<1>4. CASE RenderParticles
  <2>1. (particles \in Seq(Sound) /\ PopulationBounded)'
    <3>1. CASE Updates(particles, particles')
      BY <3>1, UpdatesAreSound DEF PopulationBounded
    <3>2. CASE UNCHANGED particles
      BY <3>2 DEF PopulationBounded
    <3> QED BY <1>4, <3>1, <3>2 DEF RenderParticles
  <2>a. (burst \in 0 .. Burst)'
    BY <1>4, ParticlesAssumption DEF RenderParticles
  <2>2. SwitchesOK'
    BY <1>4, <2>a DEF RenderParticles, StartTimer
  <2> QED BY <2>1, <2>2
<1>5. CASE PaintWithout
  <2>0. particles' = particles \/ particles' = <<>>
    BY <1>5 DEF PaintWithout
  <2>1. (particles \in Seq(Sound) /\ PopulationBounded)'
    BY <1>0, <2>0 DEF PopulationBounded
  <2> QED BY <1>5, <2>1 DEF PaintWithout
<1>6. CASE TimerFires
  BY <1>6 DEF TimerFires, PopulationBounded
<1>7. CASE DeInit
  <2>1. (burst \in 0 .. Burst)'
    BY <1>7, ParticlesAssumption DEF DeInit
  <2> QED BY <1>0, <1>7, <2>1 DEF DeInit
<1>8. CASE UNCHANGED vars
  BY <1>8 DEF vars, PopulationBounded
<1> QED BY <1>1, <1>2, <1>3, <1>4, <1>5, <1>6, <1>7, <1>8 DEF Next, Paint

LEMMA ParticlesAlways == Spec => []ParticlesInv
BY ParticlesInvInit, ParticlesInvStep, PTL DEF Spec

\* Every particle stays a particle: its node is one of the ring's, its trail no longer
\* than the ring, and it dies at its first turn after max_duration.
THEOREM ParticlesAreTyped == Spec => []TypeOK
<1>1. ParticlesInv => TypeOK
  <2>1. Seq(Sound) \subseteq Seq(Particle)
    BY SeqMonotonic DEF Sound
  <2> QED BY <2>1 DEF ParticlesInv, SwitchesOK, TypeOK, Particle
<1> QED BY <1>1, ParticlesAlways, PTL

\* Every trail is drawn in the order of time and what is not drawn is erased, for rings of
\* any length and whatever befalls the particle: it moves, halts, is put back into the
\* viewport or replaced (ncdfparticle.cpp:267).
THEOREM TrailsStayInOrder == Spec => []TrailIsInOrder
<1>1. ParticlesInv => TrailIsInOrder
  <2> SUFFICES ASSUME ParticlesInv, NEW i \in DOMAIN particles, NEW n \in Nodes
               PROVE  LET p == particles[i] IN
                      p.when[n] \in {Erased} \cup {p.age - k : k \in {Back(p, n)} \cap (0 .. Behind(p))}
    BY DEF TrailIsInOrder
  <2>1. particles[i] \in Sound
    BY ElementOfSeq DEF ParticlesInv
  <2>2. InOrder(particles[i], n)
    BY <2>1 DEF Sound
  <2> QED BY <2>2 DEF InOrder
<1> QED BY <1>1, ParticlesAlways, PTL

\* There are never more particles than the data calls for.
THEOREM PopulationStaysBounded == Spec => []PopulationBounded
<1>1. ParticlesInv => PopulationBounded
  BY DEF ParticlesInv
<1> QED BY <1>1, ParticlesAlways, PTL

\* What AnimationGoesOn rests on: while particles are to be drawn, either a paint is
\* asked for, and it will start the timer, or the timer runs, and it will ask for one.
AnimationIsPending == on /\ drawable => refresh \/ timer

THEOREM AnimationNeverStalls == Spec => []AnimationIsPending
<1>1. Init => AnimationIsPending
  BY DEF Init, AnimationIsPending
<1>2. AnimationIsPending /\ [Next]_vars => AnimationIsPending'
  BY DEF AnimationIsPending, Next, vars, setData, reset, onParticlesClick, Paint, RenderParticles,
         StartTimer, PaintWithout, TimerFires, DeInit
<1> QED BY <1>1, <1>2, PTL DEF Spec
=============================================================================

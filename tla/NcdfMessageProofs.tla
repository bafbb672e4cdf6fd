------------------------- MODULE NcdfMessageProofs -------------------------
(***************************************************************************)
(* Proofs about NcdfMessage, for any files with any numbers of steps and   *)
(* layers.  The argument forgets which block a pointer points to: a memory *)
(* is sound as long as every pointer has a block of its own, and then the  *)
(* places that have one, and the tags, are all that the invariants and the *)
(* operators need.                                                         *)
(***************************************************************************)
EXTENDS NcdfMessage, TLAPS

AllBlocks == UNION {Blocks(p) : p \in Places}
Tags      == [file : Files \cup {NULL}, flags : SUBSET Flagged]
Memories  == [live : SUBSET AllBlocks, ptr : [Places -> AllBlocks \cup {NULL}], tag : [Slots -> Tags]]

Full(w) == {p \in Places : w.ptr[p] # NULL}

\* Each pointer that is set points to a live block made for it, and what no pointer
\* points to are coordinates.
Good(w) ==
  /\ w \in Memories
  /\ \A p \in Full(w) : w.ptr[p] \in Blocks(p) /\ w.ptr[p] \in w.live
  /\ \A b \in w.live : b[2] = "coordinates" \/ \E p \in Full(w) : w.ptr[p] = b

LEMMA BlockOfPlace ==
  ASSUME NEW p \in Places, NEW b \in Blocks(p)
  PROVE  /\ p = <<p[1], p[2]>> /\ p[1] \in Slots /\ p[2] \in Arrays
         /\ b[1] = p[1] /\ b[2] = p[2] /\ b # NULL /\ b \in AllBlocks
BY NullAssumption DEF Places, Blocks, AllBlocks

\* Two places never share a block.
LEMMA BlocksApart ==
  ASSUME NEW p \in Places, NEW q \in Places, NEW b, b \in Blocks(p), b \in Blocks(q)
  PROVE  p = q
BY BlockOfPlace

LEMMA Replaced ==
  ASSUME NEW A, NEW B, NEW C, NEW w \in [live : A, ptr : B, tag : C], NEW l, NEW g, NEW d,
         d = [w EXCEPT !.live = l, !.ptr = g]
  PROVE  d = [live |-> l, ptr |-> g, tag |-> w.tag]
OBVIOUS

LEMMA AllocGood ==
  ASSUME NEW w, Good(w), NEW P \in SUBSET Places,
         \A p \in P : p \in Full(w) => p[2] = "coordinates"
  PROVE  /\ Good(Alloc(w, P))
         /\ Full(Alloc(w, P)) = Full(w) \cup P
         /\ Alloc(w, P).tag = w.tag
<1> DEFINE v == Alloc(w, P)
           new == {Block(w, p) : p \in P}
<1>1. w \in Memories
  BY DEF Good
<1>2. ASSUME NEW p \in P PROVE Block(w, p) \in Blocks(p) /\ Block(w, p) \in AllBlocks /\ Block(w, p) # NULL
  BY <1>2, NullAssumption DEF Block, Blocks, AllBlocks
<1>3. Updated(w.ptr, [p \in P |-> Block(w, p)]) = [p \in Places |-> IF p \in P THEN Block(w, p) ELSE w.ptr[p]]
  BY <1>1 DEF Updated, Memories
<1>4. v = [live |-> w.live \cup new,
           ptr |-> [p \in Places |-> IF p \in P THEN Block(w, p) ELSE w.ptr[p]],
           tag |-> w.tag]
  <2> DEFINE g == [p \in Places |-> IF p \in P THEN Block(w, p) ELSE w.ptr[p]]
  <2>1. v = [w EXCEPT !.live = w.live \cup new, !.ptr = g]
    BY <1>3 DEF Alloc
  <2> HIDE DEF v, g, new
  <2>2. v = [live |-> w.live \cup new, ptr |-> g, tag |-> w.tag]
    BY <1>1, <2>1, Replaced DEF Memories
  <2> QED BY <2>2 DEF g
<1>5. /\ v.live = w.live \cup new /\ v.tag = w.tag
      /\ \A p \in Places : v.ptr[p] = IF p \in P THEN Block(w, p) ELSE w.ptr[p]
  BY <1>4
<1>6. v \in Memories
  <2>1. w.live \cup new \in SUBSET AllBlocks
    BY <1>1, <1>2 DEF Memories
  <2>2. [p \in Places |-> IF p \in P THEN Block(w, p) ELSE w.ptr[p]] \in [Places -> AllBlocks \cup {NULL}]
    BY <1>1, <1>2 DEF Memories
  <2> QED BY <1>1, <1>4, <2>1, <2>2 DEF Memories
<1> HIDE DEF v
<1>7. Full(v) = Full(w) \cup P
  BY <1>2, <1>5 DEF Full
<1>8. ASSUME NEW p \in Full(v) PROVE v.ptr[p] \in Blocks(p) /\ v.ptr[p] \in v.live
  <2>1. CASE p \in P
    BY <1>2, <1>5, <2>1
  <2>2. CASE p \notin P
    BY <1>5, <1>7, <1>8, <2>2 DEF Good, Full
  <2> QED BY <2>1, <2>2
<1>9. ASSUME NEW b \in v.live, b[2] # "coordinates" PROVE \E p \in Full(v) : v.ptr[p] = b
  <2>1. CASE b \in new
    BY <1>5, <1>7, <2>1
  <2>2. CASE b \notin new
    <3>1. PICK p \in Full(w) : w.ptr[p] = b
      BY <1>5, <1>9, <2>2 DEF Good
    <3>2. p \in Places /\ b[2] = p[2]
      BY <3>1, BlockOfPlace DEF Good, Full
    <3>3. p \notin P
      BY <1>9, <3>1, <3>2
    <3> QED BY <1>5, <1>7, <3>1, <3>2, <3>3
  <2> QED BY <2>1, <2>2
<1> QED BY <1>5, <1>6, <1>7, <1>8, <1>9 DEF Good, v

LEMMA FreeGood ==
  ASSUME NEW w, Good(w), NEW P \in SUBSET Places
  PROVE  Good(Free(w, P)) /\ Full(Free(w, P)) = Full(w) \ P /\ Free(w, P).tag = w.tag
<1> DEFINE v == Free(w, P)
           old == {w.ptr[p] : p \in P}
<1>1. w \in Memories
  BY DEF Good
<1>3. Updated(w.ptr, [p \in P |-> NULL]) = [p \in Places |-> IF p \in P THEN NULL ELSE w.ptr[p]]
  BY <1>1 DEF Updated, Memories
<1>4. v = [live |-> w.live \ old,
           ptr |-> [p \in Places |-> IF p \in P THEN NULL ELSE w.ptr[p]],
           tag |-> w.tag]
  <2> DEFINE g == [p \in Places |-> IF p \in P THEN NULL ELSE w.ptr[p]]
  <2>1. v = [w EXCEPT !.live = w.live \ old, !.ptr = g]
    BY <1>3 DEF Free
  <2> HIDE DEF v, g, old
  <2>2. v = [live |-> w.live \ old, ptr |-> g, tag |-> w.tag]
    BY <1>1, <2>1, Replaced DEF Memories
  <2> QED BY <2>2 DEF g
<1>5. /\ v.live = w.live \ old /\ v.tag = w.tag
      /\ \A p \in Places : v.ptr[p] = IF p \in P THEN NULL ELSE w.ptr[p]
  BY <1>4
<1>6. v \in Memories
  <2>1. w.live \ old \in SUBSET AllBlocks
    BY <1>1 DEF Memories
  <2>2. [p \in Places |-> IF p \in P THEN NULL ELSE w.ptr[p]] \in [Places -> AllBlocks \cup {NULL}]
    BY <1>1 DEF Memories
  <2> QED BY <1>1, <1>4, <2>1, <2>2 DEF Memories
<1> HIDE DEF v
<1>7. Full(v) = Full(w) \ P
  BY <1>5 DEF Full
<1>8. ASSUME NEW p \in Full(v) PROVE v.ptr[p] \in Blocks(p) /\ v.ptr[p] \in v.live
  <2>1. p \in Full(w) /\ p \notin P /\ p \in Places /\ v.ptr[p] = w.ptr[p]
    BY <1>5, <1>7, <1>8 DEF Full
  <2>2. w.ptr[p] \in Blocks(p) /\ w.ptr[p] \in w.live /\ w.ptr[p] # NULL
    BY <2>1 DEF Good, Full
  <2>3. w.ptr[p] \notin old
    <3>1. SUFFICES ASSUME NEW q \in P, w.ptr[q] = w.ptr[p] PROVE FALSE
      OBVIOUS
    <3>2. q \in Full(w) /\ q \in Places
      BY <2>2, <3>1 DEF Full
    <3>3. w.ptr[p] \in Blocks(q)
      BY <3>1, <3>2 DEF Good
    <3> QED BY <2>1, <2>2, <3>2, <3>3, BlocksApart
  <2> QED BY <1>5, <2>1, <2>2, <2>3
<1>9. ASSUME NEW b \in v.live, b[2] # "coordinates" PROVE \E p \in Full(v) : v.ptr[p] = b
  <2>1. PICK p \in Full(w) : w.ptr[p] = b
    BY <1>5, <1>9 DEF Good
  <2>2. p \notin P /\ p \in Places
    BY <1>5, <1>9, <2>1 DEF Full
  <2> QED BY <1>5, <1>7, <2>1, <2>2
<1> QED BY <1>5, <1>6, <1>7, <1>8, <1>9 DEF Good, v

-----------------------------------------------------------------------------
(* From here on only what a message has, and what its tag says.             *)

Has(w, s, a) == w.ptr[s, a] # NULL

LEMMA FullHas ==
  ASSUME NEW w, NEW s \in Slots, NEW a \in Arrays
  PROVE  <<s, a>> \in Full(w) <=> Has(w, s, a)
BY DEF Full, Has, Places

LEMMA PlaceParts ==
  ASSUME NEW p \in Places PROVE p[1] \in Slots /\ p[2] \in Arrays /\ p = <<p[1], p[2]>>
BY DEF Places

LEMMA ArrayNames ==
  /\ ValueArrays \subseteq Arrays /\ "coordinates" \in Arrays /\ "coordinates" \notin ValueArrays
  /\ Flagged \subseteq ValueArrays /\ \A a \in Arrays : a = "coordinates" \/ a \in ValueArrays
  /\ \A n \in 1 .. 4 : CurrentArrays[n] \in ValueArrays /\ CurrentArrays[n] \notin Flagged
BY DEF Arrays, ValueArrays, Flagged, CurrentArrays

LEMMA SlotNames ==
  /\ scratch \in Slots /\ myData \in Slots /\ message \in Slots
  /\ scratch # myData /\ scratch # message /\ myData # message
  /\ \A k \in Indices : Entry(k) \in Slots /\ Saved(k) \in Slots
  /\ \A k, m : /\ Entry(k) # Saved(m)
               /\ Entry(k) \notin {scratch, myData, message} /\ Saved(k) \notin {scratch, myData, message}
               /\ (Entry(k) = Entry(m) => k = m) /\ (Saved(k) = Saved(m) => k = m)
BY DEF Slots, scratch, myData, message, Entry, Saved

\* Only the tags change.
LEMMA Retagged ==
  ASSUME NEW w, Good(w), NEW t \in [Slots -> Tags], NEW v, v = [w EXCEPT !.tag = t]
  PROVE  Good(v) /\ v.tag = t /\ v.ptr = w.ptr /\ v.live = w.live
<1>1. v = [live |-> w.live, ptr |-> w.ptr, tag |-> t]
  BY DEF Good, Memories
<1>2. v.tag = t /\ v.ptr = w.ptr /\ v.live = w.live
  BY <1>1
<1>3. v \in Memories
  BY <1>1 DEF Good, Memories
<1> QED BY <1>2, <1>3 DEF Good, Full

LEMMA MarkGood ==
  ASSUME NEW w, Good(w), NEW s \in Slots, NEW f \in Files \cup {NULL}, NEW flags \in SUBSET Flagged,
         NEW v, v = Mark(w, s, f, flags)
  PROVE  /\ Good(v) /\ v.ptr = w.ptr
         /\ \A x \in Slots : v.tag[x] = IF x = s THEN [file |-> f, flags |-> flags] ELSE w.tag[x]
<1> DEFINE t == Updated(w.tag, [x \in {s} |-> [file |-> f, flags |-> flags]])
<1>1. w.tag \in [Slots -> Tags]
  BY DEF Good, Memories
<1>2. t = [x \in Slots |-> IF x = s THEN [file |-> f, flags |-> flags] ELSE w.tag[x]]
  BY <1>1 DEF Updated
<1>3. [file |-> f, flags |-> flags] \in Tags
  BY DEF Tags
<1>4. t \in [Slots -> Tags]
  BY <1>1, <1>2, <1>3
<1>5. v = [w EXCEPT !.tag = t]
  BY DEF Mark
<1>6. Good(v) /\ v.tag = t /\ v.ptr = w.ptr
  <2> HIDE DEF t
  <2> QED BY <1>4, <1>5, Retagged
<1> QED BY <1>2, <1>6

\* Arrays are given to places that have none, or that have coordinates.
LEMMA AllocHas ==
  ASSUME NEW w, Good(w), NEW P \in SUBSET Places, NEW v, v = Alloc(w, P),
         \A p \in P : p[2] \in ValueArrays => ~Has(w, p[1], p[2])
  PROVE  /\ Good(v) /\ v.tag = w.tag
         /\ \A s \in Slots, a \in Arrays : Has(v, s, a) <=> Has(w, s, a) \/ <<s, a>> \in P
<1>1. ASSUME NEW p \in P, p \in Full(w) PROVE p[2] = "coordinates"
  BY <1>1, PlaceParts, FullHas, ArrayNames
<1>2. Good(v) /\ v.tag = w.tag /\ Full(v) = Full(w) \cup P
  BY <1>1, AllocGood
<1> QED BY <1>2, FullHas

LEMMA FreeHas ==
  ASSUME NEW w, Good(w), NEW P \in SUBSET Places, NEW v, v = Free(w, P)
  PROVE  /\ Good(v) /\ v.tag = w.tag
         /\ \A s \in Slots, a \in Arrays : Has(v, s, a) <=> Has(w, s, a) /\ <<s, a>> \notin P
<1>1. Good(v) /\ v.tag = w.tag /\ Full(v) = Full(w) \ P
  BY FreeGood
<1> QED BY <1>1, FullHas

LEMMA clearHas ==
  ASSUME NEW w, Good(w), NEW S \in SUBSET Slots, NEW v, v = clear(w, S)
  PROVE  /\ Good(v) /\ v.tag = w.tag
         /\ \A s \in Slots, a \in Arrays : Has(v, s, a) <=> Has(w, s, a) /\ ~(s \in S /\ a \in ValueArrays)
<1> DEFINE P == S \X ValueArrays
<1>1. P \in SUBSET Places
  BY ArrayNames DEF Places
<1>2. v = Free(w, P)
  BY DEF clear
<1>3. \A s \in Slots, a \in Arrays : <<s, a>> \in P <=> s \in S /\ a \in ValueArrays
  OBVIOUS
<1> HIDE DEF P
<1>4. /\ Good(v) /\ v.tag = w.tag
      /\ \A s \in Slots, a \in Arrays : Has(v, s, a) <=> Has(w, s, a) /\ <<s, a>> \notin P
  BY <1>1, <1>2, FreeHas
<1> QED BY <1>3, <1>4

LEMMA freeAllHas ==
  ASSUME NEW w, Good(w), NEW S \in SUBSET Slots, NEW v, v = freeAll(w, S)
  PROVE  /\ Good(v) /\ v.tag = w.tag
         /\ \A s \in Slots, a \in Arrays : Has(v, s, a) <=> Has(w, s, a) /\ s \notin S
<1> DEFINE P == S \X Arrays
<1>1. P \in SUBSET Places
  BY DEF Places
<1>2. v = Free(w, P)
  BY DEF freeAll
<1>3. \A s \in Slots, a \in Arrays : <<s, a>> \in P <=> s \in S
  OBVIOUS
<1> HIDE DEF P
<1>4. /\ Good(v) /\ v.tag = w.tag
      /\ \A s \in Slots, a \in Arrays : Has(v, s, a) <=> Has(w, s, a) /\ <<s, a>> \notin P
  BY <1>1, <1>2, FreeHas
<1> QED BY <1>3, <1>4

\* Copies lose nothing if they do not overwrite values.
LEMMA copyFromHas ==
  ASSUME NEW w, Good(w), NEW from, DOMAIN from \subseteq Slots, \A s \in DOMAIN from : from[s] \in Slots,
         \A s \in DOMAIN from, a \in ValueArrays : Has(w, s, a) => ~Has(w, from[s], a),
         NEW v, v = copyFrom(w, from)
  PROVE  /\ Good(v)
         /\ \A x \in Slots : v.tag[x] = IF x \in DOMAIN from THEN w.tag[from[x]] ELSE w.tag[x]
         /\ \A s \in Slots, a \in Arrays :
              Has(v, s, a) <=> Has(w, s, a) \/ (s \in DOMAIN from /\ Has(w, from[s], a))
<1> DEFINE P == {p \in (DOMAIN from) \X Arrays : w.ptr[from[p[1]], p[2]] # NULL}
           u == Alloc(w, P)
           t == Tagged(w, from)
<1>1. P \in SUBSET Places
  BY DEF Places
<1>2. ASSUME NEW p \in P, p[2] \in ValueArrays PROVE ~Has(w, p[1], p[2])
  BY <1>2 DEF Has
<1>3. /\ Good(u) /\ u.tag = w.tag
      /\ \A s \in Slots, a \in Arrays : Has(u, s, a) <=> Has(w, s, a) \/ <<s, a>> \in P
  <2> HIDE DEF P
  <2> QED BY <1>1, <1>2, AllocHas
<1>4. \A s \in Slots, a \in Arrays : <<s, a>> \in P <=> s \in DOMAIN from /\ Has(w, from[s], a)
  BY DEF Has
<1>5. w.tag \in [Slots -> Tags]
  BY DEF Good, Memories
<1>6. t = [x \in Slots |-> IF x \in DOMAIN from THEN w.tag[from[x]] ELSE w.tag[x]]
  BY <1>5 DEF Tagged, Updated
<1>7. t \in [Slots -> Tags]
  BY <1>5, <1>6
<1>8. v = [u EXCEPT !.tag = t]
  BY DEF copyFrom
<1> HIDE DEF P, u, t
<1>9. Good(v) /\ v.tag = t /\ v.ptr = u.ptr
  BY <1>3, <1>7, <1>8, Retagged
<1>10. \A s \in Slots, a \in Arrays : Has(v, s, a) <=> Has(u, s, a)
  BY <1>9 DEF Has
<1>11. \A x \in Slots : v.tag[x] = IF x \in DOMAIN from THEN w.tag[from[x]] ELSE w.tag[x]
  BY <1>6, <1>9
<1>12. \A s \in Slots, a \in Arrays : Has(v, s, a) <=> Has(w, s, a) \/ <<s, a>> \in P
  BY <1>3, <1>10
<1>13. \A s \in Slots, a \in Arrays :
         Has(v, s, a) <=> Has(w, s, a) \/ (s \in DOMAIN from /\ Has(w, from[s], a))
  BY <1>4, <1>12
<1> QED BY <1>9, <1>11, <1>13
LEMMA AssignHas ==
  ASSUME NEW w, Good(w), NEW to \in Slots, NEW s \in Slots, to # s, NEW v, v = Assign(w, to, s)
  PROVE  /\ Good(v)
         /\ \A x \in Slots : v.tag[x] = IF x = to THEN w.tag[s] ELSE w.tag[x]
         /\ \A x \in Slots, a \in Arrays : x # to => (Has(v, x, a) <=> Has(w, x, a))
         /\ \A a \in ValueArrays : Has(v, to, a) <=> Has(w, s, a)
         /\ Has(v, to, "coordinates") <=> Has(w, to, "coordinates") \/ Has(w, s, "coordinates")
<1> DEFINE u == clear(w, {to})
           from == [x \in {to} |-> s]
<1>1. /\ Good(u) /\ u.tag = w.tag
      /\ \A x \in Slots, a \in Arrays : Has(u, x, a) <=> Has(w, x, a) /\ ~(x \in {to} /\ a \in ValueArrays)
  <2> HIDE DEF u
  <2>1. {to} \in SUBSET Slots
    OBVIOUS
  <2> QED BY <2>1, clearHas DEF u
<1>2. v = copyFrom(u, from)
  BY DEF Assign
<1>3. DOMAIN from = {to} /\ from[to] = s
  OBVIOUS
<1> HIDE DEF u, from
<1>4. \A x \in DOMAIN from, a \in ValueArrays : Has(u, x, a) => ~Has(u, from[x], a)
  BY <1>1, <1>3, ArrayNames
<1>5. /\ Good(v)
      /\ \A x \in Slots : v.tag[x] = IF x \in DOMAIN from THEN u.tag[from[x]] ELSE u.tag[x]
      /\ \A x \in Slots, a \in Arrays :
           Has(v, x, a) <=> Has(u, x, a) \/ (x \in DOMAIN from /\ Has(u, from[x], a))
  BY <1>1, <1>2, <1>3, <1>4, copyFromHas
<1> QED BY <1>1, <1>3, <1>5, ArrayNames

LEMMA ConstructHas ==
  ASSUME NEW w, Good(w), NEW from, DOMAIN from \subseteq Slots, \A s \in DOMAIN from : from[s] \in Slots,
         \A s \in DOMAIN from, a \in Arrays : ~Has(w, s, a),
         NEW v, v = Construct(w, from)
  PROVE  /\ Good(v)
         /\ \A x \in Slots : v.tag[x] = IF x \in DOMAIN from THEN w.tag[from[x]] ELSE w.tag[x]
         /\ \A s \in Slots, a \in Arrays :
              Has(v, s, a) <=> IF s \in DOMAIN from THEN Has(w, from[s], a) ELSE Has(w, s, a)
<1> DEFINE g == Updated(w.ptr, [p \in (DOMAIN from) \X Arrays |-> NULL])
<1>1. w.ptr \in [Places -> AllBlocks \cup {NULL}]
  BY DEF Good, Memories
<1>2. ASSUME NEW p \in (DOMAIN from) \X Arrays PROVE w.ptr[p] = NULL
  <2>1. p[1] \in DOMAIN from /\ p[2] \in Arrays /\ p = <<p[1], p[2]>>
    OBVIOUS
  <2>2. ~Has(w, p[1], p[2])
    BY <2>1
  <2>3. w.ptr[<<p[1], p[2]>>] = NULL
    BY <2>2 DEF Has
  <2> QED BY <2>1, <2>3
<1>3. g = [p \in Places |-> IF p \in (DOMAIN from) \X Arrays THEN NULL ELSE w.ptr[p]]
  BY <1>1 DEF Updated
<1>4. g = [p \in Places |-> w.ptr[p]]
  BY <1>2, <1>3
<1>5. g = w.ptr
  BY <1>1, <1>4
<1>6. [w EXCEPT !.ptr = g] = w
  BY <1>5 DEF Good, Memories
<1>7. v = copyFrom(w, from)
  BY <1>6 DEF Construct
<1>8. \A s \in DOMAIN from, a \in ValueArrays : Has(w, s, a) => ~Has(w, from[s], a)
  BY ArrayNames
<1> HIDE DEF g
<1>9. /\ Good(v)
      /\ \A x \in Slots : v.tag[x] = IF x \in DOMAIN from THEN w.tag[from[x]] ELSE w.tag[x]
      /\ \A s \in Slots, a \in Arrays :
           Has(v, s, a) <=> Has(w, s, a) \/ (s \in DOMAIN from /\ Has(w, from[s], a))
  BY <1>7, <1>8, copyFromHas
<1>10. ASSUME NEW s \in Slots, NEW a \in Arrays
       PROVE  Has(v, s, a) <=> IF s \in DOMAIN from THEN Has(w, from[s], a) ELSE Has(w, s, a)
  <2>1. Has(v, s, a) <=> Has(w, s, a) \/ (s \in DOMAIN from /\ Has(w, from[s], a))
    BY <1>9
  <2>2. s \in DOMAIN from => ~Has(w, s, a)
    OBVIOUS
  <2> QED BY <2>1, <2>2
<1> QED BY <1>9, <1>10

\* At the end of an action the blocks are named anew, and only coordinates are lost.
LEMMA Settled ==
  ASSUME NEW w, Good(w), Settle(w), lost \subseteq {"coordinates"}
  PROVE  /\ Good(mem') /\ mem'.tag = w.tag /\ lost' \subseteq {"coordinates"}
         /\ \A s \in Slots, a \in Arrays : Has(mem', s, a) <=> Has(w, s, a)
<1> DEFINE held == {w.ptr[p] : p \in DOMAIN w.ptr}
           l == {Name(b, held) : b \in w.live \cap held}
           g == [p \in DOMAIN w.ptr |-> Name(w.ptr[p], held)]
           m == [w EXCEPT !.live = l, !.ptr = g]
<1>1. mem' = m /\ lost' = lost \cup {b[2] : b \in w.live \ held}
  <2>1. mem' = Renamed(w, held) /\ lost' = lost \cup LostBy(w, held)
    BY DEF Settle
  <2> HIDE DEF held
  <2> QED BY <2>1 DEF Renamed, LostBy
<1>2. w \in Memories /\ DOMAIN w.ptr = Places
  BY DEF Good, Memories
<1>3. m = [live |-> l, ptr |-> g, tag |-> w.tag]
  <2> HIDE DEF l, g, m, held
  <2>1. m = [w EXCEPT !.live = l, !.ptr = g]
    BY DEF m
  <2> QED BY <1>2, <2>1, Replaced DEF Memories
<1>4. m.live = l /\ m.ptr = g /\ m.tag = w.tag
  BY <1>3
<1>5. ASSUME NEW p \in Full(w)
      PROVE  /\ p \in Places /\ w.ptr[p] \in w.live /\ w.ptr[p] \in held
             /\ Name(w.ptr[p], held) \in Blocks(p) /\ Name(w.ptr[p], held) # NULL /\ Name(w.ptr[p], held) \in AllBlocks
  <2>1. p \in Places /\ w.ptr[p] \in Blocks(p) /\ w.ptr[p] \in w.live /\ w.ptr[p] \in held
    BY <1>2 DEF Good, Full
  <2>2. w.ptr[p][1] = p[1] /\ w.ptr[p][2] = p[2]
    BY <2>1, BlockOfPlace
  <2>3. <<p[1], p[2], 0>> \in Blocks(p)
    BY DEF Blocks
  <2>4. Name(w.ptr[p], held) \in Blocks(p)
    BY <2>1, <2>2, <2>3 DEF Name
  <2> HIDE DEF held
  <2> QED BY <2>1, <2>4, BlockOfPlace
<1>6. ASSUME NEW p \in Places PROVE g[p] = Name(w.ptr[p], held) /\ (g[p] # NULL <=> w.ptr[p] # NULL)
  <2>1. CASE w.ptr[p] = NULL
    BY <1>2, <2>1 DEF Name
  <2>2. CASE w.ptr[p] # NULL
    <3>1. p \in Full(w)
      BY <2>2 DEF Full
    <3>2. g[p] = Name(w.ptr[p], held)
      BY <1>2
    <3> HIDE DEF g, held
    <3> QED BY <1>5, <2>2, <3>1, <3>2
  <2> QED BY <2>1, <2>2
<1>7. ASSUME NEW b \in w.live \cap held PROVE \E p \in Full(w) : w.ptr[p] = b
  <2>1. PICK p \in Places : w.ptr[p] = b
    BY <1>2
  <2>2. b \in AllBlocks
    BY <1>2 DEF Memories
  <2>3. b # NULL
    BY <2>2, BlockOfPlace DEF AllBlocks
  <2> QED BY <2>1, <2>3 DEF Full
<1>8. m \in Memories
  <2>1. l \in SUBSET AllBlocks
    <3> SUFFICES ASSUME NEW b \in w.live \cap held PROVE Name(b, held) \in AllBlocks
      OBVIOUS
    <3> HIDE DEF held
    <3> QED BY <1>5, <1>7
  <2>2. ASSUME NEW p \in Places PROVE g[p] \in AllBlocks \cup {NULL}
    <3> HIDE DEF g, held
    <3>1. CASE p \in Full(w)
      BY <1>5, <1>6, <3>1
    <3>2. CASE p \notin Full(w)
      BY <1>6, <3>2 DEF Full
    <3> QED BY <3>1, <3>2
  <2>3. g \in [Places -> AllBlocks \cup {NULL}]
    BY <1>2, <2>2
  <2> HIDE DEF l, g, m
  <2> QED BY <1>2, <1>3, <2>1, <2>3 DEF Memories
<1>9. Full(m) = Full(w)
  <2> HIDE DEF m, g, l
  <2> QED BY <1>4, <1>6 DEF Full
<1>10. ASSUME NEW p \in Full(w) PROVE m.ptr[p] \in Blocks(p) /\ m.ptr[p] \in m.live
  <2>1. p \in Places /\ Name(w.ptr[p], held) \in Blocks(p) /\ w.ptr[p] \in w.live \cap held
    <3> HIDE DEF held
    <3> QED BY <1>5
  <2>2. Name(w.ptr[p], held) \in l
    BY <2>1
  <2>3. m.ptr[p] = Name(w.ptr[p], held)
    <3> HIDE DEF m, g, l, held
    <3> QED BY <1>4, <1>6, <2>1
  <2> HIDE DEF m, g, l, held
  <2> QED BY <1>4, <2>1, <2>2, <2>3
<1>11. ASSUME NEW c \in m.live PROVE \E p \in Full(w) : m.ptr[p] = c
  <2>1. PICK b \in w.live \cap held : c = Name(b, held)
    <3>1. c \in l
      <4> HIDE DEF m, l
      <4> QED BY <1>4
    <3> QED BY <3>1
  <2> HIDE DEF m, g, l, held
  <2>2. PICK p \in Full(w) : w.ptr[p] = b
    BY <1>7
  <2>3. m.ptr[p] = Name(w.ptr[p], held)
    BY <1>4, <1>6, <1>5
  <2> QED BY <2>1, <2>2, <2>3
<1>12. \A b \in w.live \ held : b[2] = "coordinates"
  BY <1>2 DEF Good, Full
<1>13. \A s \in Slots, a \in Arrays : Has(m, s, a) <=> Has(w, s, a)
  <2> HIDE DEF m, g, l, held
  <2> QED BY <1>9, FullHas
<1> HIDE DEF m, g, l
<1>14. Good(m)
  BY <1>8, <1>9, <1>10, <1>11 DEF Good
<1>15. lost' \subseteq {"coordinates"}
  BY <1>1, <1>12
<1> HIDE DEF held
<1> QED BY <1>1, <1>4, <1>13, <1>14, <1>15
-----------------------------------------------------------------------------
(* Reading a message's values.                                              *)

Current == {CurrentArrays[n] : n \in 1 .. 4}

\* The current is whole or missing, and the flags tell the temperature and salinity.
Whole(w, s)    == (\A a \in Current : Has(w, s, a)) \/ (\A a \in Current : ~Has(w, s, a))
Truthful(w, s) == w.tag[s].flags = {a \in Flagged : Has(w, s, a)}
Used(w, s)     == Has(w, s, "coordinates") /\ w.tag[s].file \in Files
Unused(w, s)   == \A a \in Arrays : ~Has(w, s, a)

\* v is w, but for the values and flags of s.
ReadFrom(v, w, s) ==
  /\ Good(v) /\ Whole(v, s) /\ Truthful(v, s) /\ Used(v, s)
  /\ \A x \in Slots \ {s} : v.tag[x] = w.tag[x] /\ \A a \in Arrays : Has(v, x, a) <=> Has(w, x, a)

LEMMA CurrentNames == Current \subseteq ValueArrays /\ Current \cap Flagged = {} /\ "coordinates" \notin Current
BY ArrayNames DEF Current

LEMMA EmptiedRead ==
  ASSUME NEW w, Good(w), NEW s \in Slots, Used(w, s), NEW v, v = Emptied(w, s)
  PROVE  /\ ReadFrom(v, w, s) /\ \A a \in ValueArrays : ~Has(v, s, a)
         /\ v.tag[s].file = w.tag[s].file
<1> DEFINE u == clear(w, {s})
           f == w.tag[s].file
           none == {}
<1>1. /\ Good(u) /\ u.tag = w.tag
      /\ \A x \in Slots, a \in Arrays : Has(u, x, a) <=> Has(w, x, a) /\ ~(x \in {s} /\ a \in ValueArrays)
  <2>1. {s} \in SUBSET Slots
    OBVIOUS
  <2> QED BY <2>1, clearHas
<1>2. v = Mark(u, s, f, none)
  BY DEF Emptied
<1> HIDE DEF u, f, none
<1>3. /\ Good(v) /\ v.ptr = u.ptr
      /\ \A x \in Slots : v.tag[x] = IF x = s THEN [file |-> f, flags |-> none] ELSE u.tag[x]
  <2>1. f \in Files \cup {NULL} /\ none \in SUBSET Flagged
    BY DEF Used, f, none
  <2> QED BY <1>1, <1>2, <2>1, MarkGood
<1>4. \A x \in Slots, a \in Arrays : Has(v, x, a) <=> Has(u, x, a)
  BY <1>3 DEF Has
<1>5. v.tag[s] = [file |-> f, flags |-> none]
  BY <1>3
<1>6. \A a \in ValueArrays : ~Has(v, s, a)
  BY <1>1, <1>4, ArrayNames
<1>7. Whole(v, s) /\ Truthful(v, s)
  BY <1>5, <1>6, CurrentNames, ArrayNames DEF Whole, Truthful, none
<1>8. Used(v, s)
  BY <1>1, <1>4, <1>5, ArrayNames DEF Used, f
<1>9. \A x \in Slots \ {s} : v.tag[x] = w.tag[x] /\ \A a \in Arrays : Has(v, x, a) <=> Has(w, x, a)
  BY <1>1, <1>3, <1>4
<1> QED BY <1>3, <1>5, <1>6, <1>7, <1>8, <1>9 DEF ReadFrom, f

\* Whatever was allocated for the current is given back.
LEMMA RolledBackRead ==
  ASSUME NEW w, NEW s \in Slots, NEW u, ReadFrom(u, w, s), \A a \in ValueArrays : ~Has(u, s, a),
         NEW n \in 1 .. 4, NEW v, v = RolledBack(u, s, n)
  PROVE  ReadFrom(v, w, s)
<1> DEFINE made == {s} \X {CurrentArrays[m] : m \in 1 .. n - 1}
           t == Alloc(u, made)
<1>1. made \in SUBSET Places
  BY ArrayNames DEF Places
<1>2. \A p \in made : p[2] \in ValueArrays /\ p[1] = s
  BY ArrayNames
<1>3. v = Free(t, made)
  BY DEF RolledBack
<1> HIDE DEF made
<1>4. /\ Good(t) /\ t.tag = u.tag
      /\ \A x \in Slots, a \in Arrays : Has(t, x, a) <=> Has(u, x, a) \/ <<x, a>> \in made
  BY <1>1, <1>2, AllocHas DEF ReadFrom
<1> HIDE DEF t
<1>5. /\ Good(v) /\ v.tag = t.tag
      /\ \A x \in Slots, a \in Arrays : Has(v, x, a) <=> Has(t, x, a) /\ <<x, a>> \notin made
  BY <1>1, <1>3, <1>4, FreeHas
<1>6. ASSUME NEW x \in Slots, NEW a \in Arrays PROVE Has(v, x, a) <=> Has(u, x, a)
  <2>1. <<x, a>> \in made => x = s /\ a \in ValueArrays
    BY <1>2
  <2> QED BY <1>4, <1>5, <2>1
<1>7. v.tag = u.tag
  BY <1>4, <1>5
<1> QED BY <1>5, <1>6, <1>7, CurrentNames, ArrayNames DEF ReadFrom, Whole, Truthful, Used

\* The arrays that the flags tell of are allocated with the current, if it has that.
LEMMA ReadReads ==
  ASSUME NEW w, NEW s \in Slots, NEW u, ReadFrom(u, w, s), \A a \in ValueArrays : ~Has(u, s, a),
         NEW flags \in SUBSET Flagged, NEW v, v = Read(u, s, flags)
  PROVE  ReadFrom(v, w, s)
<1> DEFINE some == IF HasCurrent(u.tag[s].file) THEN Current ELSE {}
           P == {s} \X (some \cup flags)
           t == Alloc(u, P)
<1>1. P \in SUBSET Places /\ \A p \in P : p[1] = s /\ p[2] \in ValueArrays
  BY CurrentNames, ArrayNames DEF Places
<1>2. v = Mark(t, s, u.tag[s].file, flags)
  BY DEF Read, Current
<1>3. \A x \in Slots, a \in Arrays : <<x, a>> \in P <=> x = s /\ (a \in some \/ a \in flags)
  OBVIOUS
<1>4. some = Current \/ some = {}
  OBVIOUS
<1> HIDE DEF P, some
<1>5. /\ Good(t) /\ t.tag = u.tag
      /\ \A x \in Slots, a \in Arrays : Has(t, x, a) <=> Has(u, x, a) \/ <<x, a>> \in P
  BY <1>1, AllocHas DEF ReadFrom
<1> HIDE DEF t
<1>6. /\ Good(v) /\ v.ptr = t.ptr
      /\ \A x \in Slots : v.tag[x] = IF x = s THEN [file |-> u.tag[s].file, flags |-> flags] ELSE t.tag[x]
  BY <1>2, <1>5, MarkGood DEF ReadFrom, Used
<1>7. \A x \in Slots, a \in Arrays : Has(v, x, a) <=> Has(t, x, a)
  BY <1>6 DEF Has
<1>8. v.tag[s] = [file |-> u.tag[s].file, flags |-> flags]
  BY <1>6
<1>9. \A a \in ValueArrays : Has(v, s, a) <=> a \in some \/ a \in flags
  BY <1>3, <1>5, <1>7, ArrayNames
<1>10. Whole(v, s)
  BY <1>4, <1>9, CurrentNames DEF Whole
<1>11. Truthful(v, s)
  BY <1>4, <1>8, <1>9, CurrentNames, ArrayNames DEF Truthful
<1>12. Used(v, s)
  <2>1. Has(u, s, "coordinates") /\ u.tag[s].file \in Files
    BY DEF Used, ReadFrom
  <2>2. Has(v, s, "coordinates")
    BY <1>5, <1>7, <2>1, ArrayNames
  <2> QED BY <1>8, <2>1, <2>2 DEF Used
<1>13. \A x \in Slots \ {s} : v.tag[x] = w.tag[x] /\ \A a \in Arrays : Has(v, x, a) <=> Has(w, x, a)
  BY <1>3, <1>5, <1>6, <1>7 DEF ReadFrom
<1> QED BY <1>6, <1>10, <1>11, <1>12, <1>13 DEF ReadFrom

\* Every outcome, success or failure.
LEMMA AnyRead ==
  ASSUME NEW w, Good(w), NEW s \in Slots, Used(w, s), NEW r \in readTimeStepData(w, s)
  PROVE  ReadFrom(r.mem, w, s)
<1> DEFINE v == Emptied(w, s)
<1>1. ReadFrom(v, w, s) /\ (\A a \in ValueArrays : ~Has(v, s, a)) /\ v.tag[s].file = w.tag[s].file
  BY EmptiedRead
<1>2. w.ptr[s, "coordinates"] # NULL
  <2>1. Has(w, s, "coordinates")
    BY DEF Used
  <2> QED BY <2>1, Zenon DEF Has
<1> HIDE DEF v
<1>3. \/ r = Failed(v)
      \/ \E n \in 1 .. 4 : r = Failed(RolledBack(v, s, n))
      \/ \E flags \in SUBSET (Cached \cap Flagged) : r = [mem |-> Read(v, s, flags), read |-> TRUE]
  BY <1>2 DEF readTimeStepData, v
<1>4. CASE r = Failed(v)
  BY <1>1, <1>4 DEF Failed
<1>5. ASSUME NEW n \in 1 .. 4, r = Failed(RolledBack(v, s, n)) PROVE ReadFrom(r.mem, w, s)
  BY <1>1, <1>5, RolledBackRead DEF Failed
<1>6. ASSUME NEW flags \in SUBSET (Cached \cap Flagged), r = [mem |-> Read(v, s, flags), read |-> TRUE]
      PROVE  ReadFrom(r.mem, w, s)
  <2>1. flags \in SUBSET Flagged /\ r.mem = Read(v, s, flags)
    BY <1>6
  <2> QED BY <1>1, <2>1, ReadReads
<1> QED BY <1>3, <1>4, <1>5, <1>6
-----------------------------------------------------------------------------
(* The memory while there are n entries, m saved ones, and grids of so many *)
(* rows.                                                                    *)

Counted(w, At(_), n) == \A k \in Indices : IF k <= n THEN Used(w, At(k)) ELSE Unused(w, At(k))

WellKept(w, n, m, rows) ==
  /\ Good(w)
  /\ \A s \in Slots : Whole(w, s)
  /\ Truthful(w, message)
  /\ Counted(w, Entry, n)
  /\ Counted(w, Saved, m)
  /\ rows # 0 => w.tag[message].file \in Files /\ rows = Rows[w.tag[message].file]

LEMMA NumbersOfIndices == Indices \subseteq Nat \ {0}
BY FilesAssumption DEF Indices

\* A slot whose tag and arrays are the same is in the same state.
LEMMA SameSlot ==
  ASSUME NEW w, NEW v, NEW s \in Slots, NEW x \in Slots, v.tag[s] = w.tag[x],
         \A a \in Arrays : Has(v, s, a) <=> Has(w, x, a)
  PROVE  /\ Whole(v, s) <=> Whole(w, x)
         /\ Truthful(v, s) <=> Truthful(w, x)
         /\ Used(v, s) <=> Used(w, x)
         /\ Unused(v, s) <=> Unused(w, x)
BY CurrentNames, ArrayNames DEF Whole, Truthful, Used, Unused

\* ... and one whose values alone are gone.
LEMMA ValuesGone ==
  ASSUME NEW w, NEW v, NEW s \in Slots, v.tag[s] = w.tag[s],
         \A a \in Arrays : Has(v, s, a) <=> Has(w, s, a) /\ a \notin ValueArrays
  PROVE  /\ Whole(v, s)
         /\ Used(w, s) => Used(v, s)
         /\ Unused(w, s) => Unused(v, s)
BY CurrentNames, ArrayNames DEF Whole, Used, Unused

LEMMA NothingLeft ==
  ASSUME NEW v, NEW s \in Slots, \A a \in Arrays : ~Has(v, s, a)
  PROVE  Whole(v, s) /\ Unused(v, s)
BY CurrentNames, ArrayNames DEF Whole, Unused

\* Slots other than the message and the entries and saved ones may change.
LEMMA KeptIfSame ==
  ASSUME NEW w, NEW n, NEW m, NEW r, WellKept(w, n, m, r), NEW v, Good(v),
         NEW S, S \subseteq {scratch, myData}, \A s \in S : Whole(v, s),
         \A s \in Slots \ S : v.tag[s] = w.tag[s] /\ \A a \in Arrays : Has(v, s, a) <=> Has(w, s, a)
  PROVE  WellKept(v, n, m, r)
<1>1. \A s \in Slots : Whole(v, s)
  BY SameSlot DEF WellKept
<1>2. Truthful(v, message) /\ v.tag[message] = w.tag[message]
  BY SlotNames, SameSlot DEF WellKept
<1>3. ASSUME NEW k \in Indices PROVE IF k <= n THEN Used(v, Entry(k)) ELSE Unused(v, Entry(k))
  <2>1. Entry(k) \in Slots \ S
    BY SlotNames
  <2>2. IF k <= n THEN Used(w, Entry(k)) ELSE Unused(w, Entry(k))
    BY DEF WellKept, Counted
  <2> QED BY <2>1, <2>2, SameSlot
<1>4. ASSUME NEW k \in Indices PROVE IF k <= m THEN Used(v, Saved(k)) ELSE Unused(v, Saved(k))
  <2>1. Saved(k) \in Slots \ S
    BY SlotNames
  <2>2. IF k <= m THEN Used(w, Saved(k)) ELSE Unused(w, Saved(k))
    BY DEF WellKept, Counted
  <2> QED BY <2>1, <2>2, SameSlot
<1> QED BY <1>1, <1>2, <1>3, <1>4 DEF WellKept, Counted

LEMMA SettledKept ==
  ASSUME NEW w, NEW n, NEW m, NEW r, WellKept(w, n, m, r), Settle(w), lost \subseteq {"coordinates"}
  PROVE  WellKept(mem', n, m, r) /\ lost' \subseteq {"coordinates"}
<1>1. /\ Good(mem') /\ mem'.tag = w.tag /\ lost' \subseteq {"coordinates"}
      /\ \A s \in Slots, a \in Arrays : Has(mem', s, a) <=> Has(w, s, a)
  BY Settled DEF WellKept
<1> DEFINE v == mem'
<1>2. Good(v) /\ \A s \in Slots : v.tag[s] = w.tag[s] /\ \A a \in Arrays : Has(v, s, a) <=> Has(w, s, a)
  BY <1>1
<1> HIDE DEF v
<1>3. WellKept(v, n, m, r)
  <2> DEFINE S == {}
  <2>1. S \subseteq {scratch, myData} /\ (\A s \in S : Whole(v, s)) /\ Slots \ S = Slots
    OBVIOUS
  <2> HIDE DEF S
  <2> QED BY <1>2, <2>1, KeptIfSame
<1> QED BY <1>1, <1>3 DEF v

\* clear leaves an entry in use, and the message is never cleared alone.
LEMMA ClearedKept ==
  ASSUME NEW w, NEW n, NEW m, NEW r, WellKept(w, n, m, r),
         NEW s \in Slots, s # message, NEW v, v = clear(w, {s})
  PROVE  WellKept(v, n, m, r)
<1>1. /\ Good(v) /\ v.tag = w.tag
      /\ \A x \in Slots, a \in Arrays : Has(v, x, a) <=> Has(w, x, a) /\ ~(x \in {s} /\ a \in ValueArrays)
  <2>1. {s} \in SUBSET Slots
    OBVIOUS
  <2> QED BY <2>1, clearHas DEF WellKept
<1>2. ASSUME NEW x \in Slots
      PROVE  /\ Whole(v, x) /\ (Used(w, x) => Used(v, x)) /\ (Unused(w, x) => Unused(v, x))
  <2>1. CASE x = s
    BY <1>1, <2>1, ValuesGone
  <2>2. CASE x # s
    BY <1>1, <2>2, SameSlot DEF WellKept
  <2> QED BY <2>1, <2>2
<1>3. Truthful(v, message)
  BY <1>1, SlotNames, SameSlot DEF WellKept
<1>4. Counted(v, Entry, n) /\ Counted(v, Saved, m)
  BY <1>2, SlotNames DEF WellKept, Counted
<1> QED BY <1>1, <1>2, <1>3, <1>4 DEF WellKept

\* freeAll leaves nothing in the slots S.
LEMMA FreedState ==
  ASSUME NEW w, Good(w), \A s \in Slots : Whole(w, s), NEW S \in SUBSET Slots, NEW v, v = freeAll(w, S)
  PROVE  /\ Good(v) /\ v.tag = w.tag
         /\ \A s \in Slots : Whole(v, s)
         /\ \A s \in S : Unused(v, s)
         /\ \A s \in Slots \ S : \A a \in Arrays : Has(v, s, a) <=> Has(w, s, a)
<1>1. /\ Good(v) /\ v.tag = w.tag
      /\ \A s \in Slots, a \in Arrays : Has(v, s, a) <=> Has(w, s, a) /\ s \notin S
  BY freeAllHas
<1>2. \A s \in Slots \ S : \A a \in Arrays : Has(v, s, a) <=> Has(w, s, a)
  BY <1>1
<1>3. \A s \in S : Whole(v, s) /\ Unused(v, s)
  BY <1>1, NothingLeft
<1>4. \A s \in Slots \ S : Whole(v, s)
  BY <1>1, <1>2, SameSlot
<1> QED BY <1>1, <1>2, <1>3, <1>4

LEMMA EntriesFreed ==
  ASSUME NEW w, NEW n \in Nat, NEW m, NEW r, WellKept(w, n, m, r), 1 .. n \subseteq Indices,
         NEW v, v = freeAll(w, Vector(Entry, n))
  PROVE  WellKept(v, 0, m, r)
<1> DEFINE S == Vector(Entry, n)
<1>1. S \in SUBSET Slots /\ message \notin S /\ \A k \in Indices : Saved(k) \notin S
  BY SlotNames DEF Vector
<1>2. \A k \in Indices : Entry(k) \in S <=> k <= n
  BY SlotNames, NumbersOfIndices DEF Vector
<1> HIDE DEF S
<1>3. /\ Good(v) /\ v.tag = w.tag
      /\ \A s \in Slots : Whole(v, s)
      /\ \A s \in S : Unused(v, s)
      /\ \A s \in Slots \ S : \A a \in Arrays : Has(v, s, a) <=> Has(w, s, a)
  BY <1>1, FreedState DEF WellKept, S
<1>4. Truthful(v, message)
  BY <1>1, <1>3, SlotNames, SameSlot DEF WellKept
<1>5. ASSUME NEW k \in Indices PROVE IF k <= m THEN Used(v, Saved(k)) ELSE Unused(v, Saved(k))
  BY <1>1, <1>3, SlotNames, SameSlot DEF WellKept, Counted
<1>6. ASSUME NEW k \in Indices PROVE IF k <= 0 THEN Used(v, Entry(k)) ELSE Unused(v, Entry(k))
  <2>0. ~(k <= 0)
    <3>1. k \in Nat \ {0}
      BY NumbersOfIndices
    <3> QED BY <3>1
  <2>1. CASE k <= n
    BY <1>2, <1>3, <2>0, <2>1
  <2>2. CASE ~(k <= n)
    <3>1. Entry(k) \in Slots \ S /\ Unused(w, Entry(k))
      BY <1>2, <2>2, SlotNames DEF WellKept, Counted
    <3>2. Unused(v, Entry(k))
      BY <1>3, <3>1, SameSlot
    <3> QED BY <2>0, <3>2
  <2> QED BY <2>1, <2>2
<1> QED BY <1>3, <1>4, <1>5, <1>6 DEF WellKept, Counted

LEMMA SavedFreed ==
  ASSUME NEW w, NEW n, NEW m \in Nat, NEW r, WellKept(w, n, m, r), 1 .. m \subseteq Indices,
         NEW v, v = freeAll(w, Vector(Saved, m))
  PROVE  WellKept(v, n, 0, r)
<1> DEFINE S == Vector(Saved, m)
<1>1. S \in SUBSET Slots /\ message \notin S /\ \A k \in Indices : Entry(k) \notin S
  BY SlotNames DEF Vector
<1>2. \A k \in Indices : Saved(k) \in S <=> k <= m
  BY SlotNames, NumbersOfIndices DEF Vector
<1> HIDE DEF S
<1>3. /\ Good(v) /\ v.tag = w.tag
      /\ \A s \in Slots : Whole(v, s)
      /\ \A s \in S : Unused(v, s)
      /\ \A s \in Slots \ S : \A a \in Arrays : Has(v, s, a) <=> Has(w, s, a)
  BY <1>1, FreedState DEF WellKept, S
<1>4. Truthful(v, message)
  BY <1>1, <1>3, SlotNames, SameSlot DEF WellKept
<1>5. ASSUME NEW k \in Indices PROVE IF k <= n THEN Used(v, Entry(k)) ELSE Unused(v, Entry(k))
  BY <1>1, <1>3, SlotNames, SameSlot DEF WellKept, Counted
<1>6. ASSUME NEW k \in Indices PROVE IF k <= 0 THEN Used(v, Saved(k)) ELSE Unused(v, Saved(k))
  <2>0. ~(k <= 0)
    <3>1. k \in Nat \ {0}
      BY NumbersOfIndices
    <3> QED BY <3>1
  <2>1. CASE k <= m
    BY <1>2, <1>3, <2>0, <2>1
  <2>2. CASE ~(k <= m)
    <3>1. Saved(k) \in Slots \ S /\ Unused(w, Saved(k))
      BY <1>2, <2>2, SlotNames DEF WellKept, Counted
    <3>2. Unused(v, Saved(k))
      BY <1>3, <3>1, SameSlot
    <3> QED BY <2>0, <3>2
  <2> QED BY <2>1, <2>2
<1> QED BY <1>3, <1>4, <1>5, <1>6 DEF WellKept, Counted
-----------------------------------------------------------------------------
(* Copies of a vector, of an entry and of what is shown.                    *)

\* The state of the slots after they were copied from others.
LEMMA CopiesState ==
  ASSUME NEW w, Good(w), \A s \in Slots : Whole(w, s),
         NEW from, DOMAIN from \subseteq Slots, \A s \in DOMAIN from : from[s] \in Slots,
         \A s \in DOMAIN from : Unused(w, s), NEW v, v = Construct(w, from)
  PROVE  /\ Good(v) /\ \A s \in Slots : Whole(v, s)
         /\ \A s \in DOMAIN from : v.tag[s] = w.tag[from[s]]
         /\ \A s \in DOMAIN from : Used(w, from[s]) => Used(v, s)
         /\ \A s \in Slots \ DOMAIN from :
              v.tag[s] = w.tag[s] /\ \A a \in Arrays : Has(v, s, a) <=> Has(w, s, a)
<1>1. \A s \in DOMAIN from, a \in Arrays : ~Has(w, s, a)
  BY DEF Unused
<1>2. /\ Good(v)
      /\ \A x \in Slots : v.tag[x] = IF x \in DOMAIN from THEN w.tag[from[x]] ELSE w.tag[x]
      /\ \A s \in Slots, a \in Arrays :
           Has(v, s, a) <=> IF s \in DOMAIN from THEN Has(w, from[s], a) ELSE Has(w, s, a)
  BY <1>1, ConstructHas
<1>3. ASSUME NEW s \in DOMAIN from
      PROVE  v.tag[s] = w.tag[from[s]] /\ \A a \in Arrays : Has(v, s, a) <=> Has(w, from[s], a)
  BY <1>2
<1>4. ASSUME NEW s \in Slots \ DOMAIN from
      PROVE  v.tag[s] = w.tag[s] /\ \A a \in Arrays : Has(v, s, a) <=> Has(w, s, a)
  BY <1>2
<1>5. ASSUME NEW s \in Slots PROVE Whole(v, s)
  <2>1. CASE s \in DOMAIN from
    <3>1. v.tag[s] = w.tag[from[s]] /\ (\A a \in Arrays : Has(v, s, a) <=> Has(w, from[s], a)) /\ from[s] \in Slots
      BY <1>3, <2>1
    <3>2. Whole(v, s) <=> Whole(w, from[s])
      BY <3>1, SameSlot
    <3> QED BY <3>1, <3>2
  <2>2. CASE s \notin DOMAIN from
    BY <1>4, <2>2, SameSlot
  <2> QED BY <2>1, <2>2
<1>6. ASSUME NEW s \in DOMAIN from, Used(w, from[s]) PROVE Used(v, s)
  <2>1. v.tag[s] = w.tag[from[s]] /\ (\A a \in Arrays : Has(v, s, a) <=> Has(w, from[s], a))
    BY <1>3
  <2>2. s \in Slots /\ from[s] \in Slots
    OBVIOUS
  <2>3. Used(v, s) <=> Used(w, from[s])
    BY <2>1, <2>2, SameSlot
  <2> QED BY <1>6, <2>3
<1> QED BY <1>2, <1>3, <1>4, <1>5, <1>6

\* addChildren saves the n entries.
LEMMA SaveKept ==
  ASSUME NEW w, NEW n \in Nat, NEW r, WellKept(w, n, 0, r), 1 .. n \subseteq Indices,
         NEW v, v = Construct(w, [s \in Vector(Saved, n) |-> Entry(s[2])])
  PROVE  WellKept(v, n, n, r)
<1> DEFINE from == [s \in Vector(Saved, n) |-> Entry(s[2])]
<1>1. \A k \in Indices : (Saved(k) \in DOMAIN from <=> k <= n) /\ Entry(k) \notin DOMAIN from
  BY SlotNames, NumbersOfIndices DEF Vector
<1>2. \A k \in Indices : k <= n => from[Saved(k)] = Entry(k)
  BY <1>1, NumbersOfIndices DEF Saved
<1>3. \A s \in DOMAIN from : \E k \in Indices : s = Saved(k) /\ from[s] = Entry(k) /\ k <= n /\ ~(k <= 0)
  BY DEF Vector, Saved
<1>4. DOMAIN from \subseteq Slots /\ message \notin DOMAIN from
  BY SlotNames DEF Vector
<1>5. v = Construct(w, from)
  OBVIOUS
<1> HIDE DEF from
<1>6. \A s \in DOMAIN from : from[s] \in Slots /\ Unused(w, s)
  BY <1>3, SlotNames DEF WellKept, Counted
<1>7. /\ Good(v) /\ \A s \in Slots : Whole(v, s)
      /\ \A s \in DOMAIN from : Used(w, from[s]) => Used(v, s)
      /\ \A s \in Slots \ DOMAIN from :
           v.tag[s] = w.tag[s] /\ \A a \in Arrays : Has(v, s, a) <=> Has(w, s, a)
  BY <1>4, <1>5, <1>6, CopiesState DEF WellKept
<1>8. Truthful(v, message) /\ v.tag[message] = w.tag[message]
  <2>1. message \in Slots /\ message \in Slots \ DOMAIN from
    BY <1>4, SlotNames
  <2>2. v.tag[message] = w.tag[message] /\ \A a \in Arrays : Has(v, message, a) <=> Has(w, message, a)
    BY <1>7, <2>1
  <2>3. Truthful(v, message) <=> Truthful(w, message)
    BY <2>1, <2>2, SameSlot
  <2> QED BY <2>2, <2>3 DEF WellKept
<1>9. ASSUME NEW k \in Indices PROVE IF k <= n THEN Used(v, Entry(k)) ELSE Unused(v, Entry(k))
  <2>1. Entry(k) \in Slots /\ Entry(k) \in Slots \ DOMAIN from
    BY <1>1, SlotNames
  <2>2. v.tag[Entry(k)] = w.tag[Entry(k)] /\ \A a \in Arrays : Has(v, Entry(k), a) <=> Has(w, Entry(k), a)
    BY <1>7, <2>1
  <2>3. (Used(v, Entry(k)) <=> Used(w, Entry(k))) /\ (Unused(v, Entry(k)) <=> Unused(w, Entry(k)))
    BY <2>1, <2>2, SameSlot
  <2> QED BY <2>3 DEF WellKept, Counted
<1>10. ASSUME NEW k \in Indices PROVE IF k <= n THEN Used(v, Saved(k)) ELSE Unused(v, Saved(k))
  <2>1. CASE k <= n
    BY <1>1, <1>2, <1>7, <2>1 DEF WellKept, Counted
  <2>2. CASE ~(k <= n)
    <3>1. Saved(k) \in Slots \ DOMAIN from
      BY <1>1, <2>2, SlotNames
    <3>2. Unused(w, Saved(k))
      <4>1. k \in Nat \ {0} /\ ~(k <= 0)
        BY NumbersOfIndices
      <4> QED BY <4>1 DEF WellKept, Counted
    <3> QED BY <1>7, <2>2, <3>1, <3>2, SameSlot
  <2> QED BY <2>1, <2>2
<1> QED BY <1>7, <1>8, <1>9, <1>10 DEF WellKept, Counted

\* ... and takes them back into the empty vector.
LEMMA RestoreKept ==
  ASSUME NEW w, NEW m \in Nat, NEW r, WellKept(w, 0, m, r), 1 .. m \subseteq Indices,
         NEW v, v = Construct(w, [s \in Vector(Entry, m) |-> Saved(s[2])])
  PROVE  WellKept(v, m, m, r)
<1> DEFINE from == [s \in Vector(Entry, m) |-> Saved(s[2])]
<1>1. \A k \in Indices : (Entry(k) \in DOMAIN from <=> k <= m) /\ Saved(k) \notin DOMAIN from
  BY SlotNames, NumbersOfIndices DEF Vector
<1>2. \A k \in Indices : k <= m => from[Entry(k)] = Saved(k)
  BY <1>1, NumbersOfIndices DEF Entry
<1>3. \A s \in DOMAIN from : \E k \in Indices : s = Entry(k) /\ from[s] = Saved(k) /\ k <= m /\ ~(k <= 0)
  BY DEF Vector, Entry
<1>4. DOMAIN from \subseteq Slots /\ message \notin DOMAIN from
  BY SlotNames DEF Vector
<1>5. v = Construct(w, from)
  OBVIOUS
<1> HIDE DEF from
<1>6. \A s \in DOMAIN from : from[s] \in Slots /\ Unused(w, s)
  BY <1>3, SlotNames DEF WellKept, Counted
<1>7. /\ Good(v) /\ \A s \in Slots : Whole(v, s)
      /\ \A s \in DOMAIN from : Used(w, from[s]) => Used(v, s)
      /\ \A s \in Slots \ DOMAIN from :
           v.tag[s] = w.tag[s] /\ \A a \in Arrays : Has(v, s, a) <=> Has(w, s, a)
  BY <1>4, <1>5, <1>6, CopiesState DEF WellKept
<1>8. Truthful(v, message) /\ v.tag[message] = w.tag[message]
  <2>1. message \in Slots /\ message \in Slots \ DOMAIN from
    BY <1>4, SlotNames
  <2>2. v.tag[message] = w.tag[message] /\ \A a \in Arrays : Has(v, message, a) <=> Has(w, message, a)
    BY <1>7, <2>1
  <2>3. Truthful(v, message) <=> Truthful(w, message)
    BY <2>1, <2>2, SameSlot
  <2> QED BY <2>2, <2>3 DEF WellKept
<1>9. ASSUME NEW k \in Indices PROVE IF k <= m THEN Used(v, Saved(k)) ELSE Unused(v, Saved(k))
  <2>1. Saved(k) \in Slots /\ Saved(k) \in Slots \ DOMAIN from
    BY <1>1, SlotNames
  <2>2. v.tag[Saved(k)] = w.tag[Saved(k)] /\ \A a \in Arrays : Has(v, Saved(k), a) <=> Has(w, Saved(k), a)
    BY <1>7, <2>1
  <2>3. (Used(v, Saved(k)) <=> Used(w, Saved(k))) /\ (Unused(v, Saved(k)) <=> Unused(w, Saved(k)))
    BY <2>1, <2>2, SameSlot
  <2> QED BY <2>3 DEF WellKept, Counted
<1>10. ASSUME NEW k \in Indices PROVE IF k <= m THEN Used(v, Entry(k)) ELSE Unused(v, Entry(k))
  <2>1. CASE k <= m
    BY <1>1, <1>2, <1>7, <2>1 DEF WellKept, Counted
  <2>2. CASE ~(k <= m)
    <3>1. Entry(k) \in Slots \ DOMAIN from
      BY <1>1, <2>2, SlotNames
    <3>2. Unused(w, Entry(k))
      <4>1. k \in Nat \ {0} /\ ~(k <= 0)
        BY NumbersOfIndices
      <4> QED BY <4>1 DEF WellKept, Counted
    <3> QED BY <1>7, <2>2, <3>1, <3>2, SameSlot
  <2> QED BY <2>1, <2>2
<1> QED BY <1>7, <1>8, <1>9, <1>10 DEF WellKept, Counted

\* Reading into myData or into an entry in use.
LEMMA ReadKept ==
  ASSUME NEW w, NEW n, NEW m, NEW r, WellKept(w, n, m, r), NEW s \in Slots, NEW v, ReadFrom(v, w, s),
         s = myData \/ \E k \in Indices : k <= n /\ s = Entry(k)
  PROVE  WellKept(v, n, m, r)
<1>1. s # message /\ \A k \in Indices : s # Saved(k)
  BY SlotNames
<1>2. /\ Good(v) /\ Whole(v, s) /\ Used(v, s)
      /\ \A x \in Slots \ {s} : v.tag[x] = w.tag[x] /\ \A a \in Arrays : Has(v, x, a) <=> Has(w, x, a)
  BY DEF ReadFrom
<1>3. \A x \in Slots : Whole(v, x)
  BY <1>2, SameSlot DEF WellKept
<1>4. Truthful(v, message) /\ v.tag[message] = w.tag[message]
  BY <1>1, <1>2, SlotNames, SameSlot DEF WellKept
<1>5. ASSUME NEW k \in Indices PROVE IF k <= n THEN Used(v, Entry(k)) ELSE Unused(v, Entry(k))
  <2>1. CASE s = Entry(k)
    BY <1>2, <2>1, SlotNames
  <2>2. CASE s # Entry(k)
    BY <1>2, <2>2, SlotNames, SameSlot DEF WellKept, Counted
  <2> QED BY <2>1, <2>2
<1>6. ASSUME NEW k \in Indices PROVE IF k <= m THEN Used(v, Saved(k)) ELSE Unused(v, Saved(k))
  BY <1>1, <1>2, SlotNames, SameSlot DEF WellKept, Counted
<1> QED BY <1>2, <1>3, <1>4, <1>5, <1>6 DEF WellKept, Counted

LEMMA AssignedKept ==
  ASSUME NEW w, NEW n, NEW m, NEW r, WellKept(w, n, m, r), NEW k \in Indices, k <= n,
         NEW v, v = Assign(w, myData, Entry(k))
  PROVE  WellKept(v, n, m, r) /\ Used(v, myData)
<1>1. myData \in Slots /\ Entry(k) \in Slots /\ myData # Entry(k) /\ Used(w, Entry(k))
  BY SlotNames DEF WellKept, Counted
<1>2. /\ Good(v)
      /\ \A x \in Slots : v.tag[x] = IF x = myData THEN w.tag[Entry(k)] ELSE w.tag[x]
      /\ \A x \in Slots, a \in Arrays : x # myData => (Has(v, x, a) <=> Has(w, x, a))
      /\ \A a \in ValueArrays : Has(v, myData, a) <=> Has(w, Entry(k), a)
      /\ Has(v, myData, "coordinates") <=> Has(w, myData, "coordinates") \/ Has(w, Entry(k), "coordinates")
  BY <1>1, AssignHas DEF WellKept
<1>3. Used(v, myData)
  BY <1>1, <1>2 DEF Used
<1>4. Whole(v, myData)
  <2>1. Whole(w, Entry(k))
    BY <1>1 DEF WellKept
  <2> QED BY <1>2, <2>1, CurrentNames DEF Whole
<1>5. {myData} \subseteq {scratch, myData}
  OBVIOUS
<1>6. \A s \in Slots \ {myData} : v.tag[s] = w.tag[s] /\ \A a \in Arrays : Has(v, s, a) <=> Has(w, s, a)
  BY <1>2
<1>7. WellKept(v, n, m, r)
  <2> DEFINE S == {myData}
  <2>1. S \subseteq {scratch, myData} /\ \A s \in S : Whole(v, s)
    BY <1>4
  <2>2. \A s \in Slots \ S : v.tag[s] = w.tag[s] /\ \A a \in Arrays : Has(v, s, a) <=> Has(w, s, a)
    BY <1>6
  <2> HIDE DEF S
  <2> QED BY <1>2, <2>1, <2>2, KeptIfSame
<1> QED BY <1>3, <1>7
\* myMessage gets the values and flags of the message s that was read.
LEMMA ShownKept ==
  ASSUME NEW w, NEW n, NEW m, NEW r, WellKept(w, n, m, r),
         NEW s \in Slots, s # message, Used(w, s), Truthful(w, s), NEW v, v = Shown(w, s)
  PROVE  WellKept(v, n, m, Rows[w.tag[s].file])
<1> DEFINE P == {<<message, "coordinates">>}
           u == Free(w, P)
<1>1. P \in SUBSET Places
  BY SlotNames, ArrayNames DEF Places
<1>2. \A x \in Slots, a \in Arrays : <<x, a>> \in P <=> x = message /\ a = "coordinates"
  OBVIOUS
<1>3. v = Assign(u, message, s)
  BY DEF Shown
<1> HIDE DEF P
<1>4. /\ Good(u) /\ u.tag = w.tag
      /\ \A x \in Slots, a \in Arrays : Has(u, x, a) <=> Has(w, x, a) /\ <<x, a>> \notin P
  BY <1>1, FreeHas DEF WellKept
<1> HIDE DEF u
<1>5. /\ Good(v)
      /\ \A x \in Slots : v.tag[x] = IF x = message THEN u.tag[s] ELSE u.tag[x]
      /\ \A x \in Slots, a \in Arrays : x # message => (Has(v, x, a) <=> Has(u, x, a))
      /\ \A a \in ValueArrays : Has(v, message, a) <=> Has(u, s, a)
  <2>1. message \in Slots /\ message # s
    BY SlotNames
  <2> QED BY <1>3, <1>4, <2>1, AssignHas
<1>6. \A x \in Slots \ {message} : v.tag[x] = w.tag[x] /\ \A a \in Arrays : Has(v, x, a) <=> Has(w, x, a)
  BY <1>2, <1>4, <1>5
<1>7. v.tag[message] = w.tag[s] /\ \A a \in ValueArrays : Has(v, message, a) <=> Has(w, s, a)
  BY <1>2, <1>4, <1>5, SlotNames, ArrayNames
<1>8. Whole(v, message) /\ Truthful(v, message)
  <2>1. Whole(w, s)
    BY DEF WellKept
  <2> QED BY <1>7, <2>1, CurrentNames, ArrayNames DEF Whole, Truthful
<1>9. \A x \in Slots : Whole(v, x)
  BY <1>6, <1>8, SameSlot DEF WellKept
<1>10. ASSUME NEW x \in Slots \ {message}
       PROVE  (Used(v, x) <=> Used(w, x)) /\ (Unused(v, x) <=> Unused(w, x))
  BY <1>6, SameSlot
<1>11. Counted(v, Entry, n) /\ Counted(v, Saved, m)
  BY <1>10, SlotNames DEF WellKept, Counted
<1>12. v.tag[message].file \in Files
  BY <1>7 DEF Used
<1> QED BY <1>5, <1>7, <1>8, <1>9, <1>11, <1>12 DEF WellKept

LEMMA readncdfFileKept ==
  ASSUME NEW w, NEW n, NEW m, WellKept(w, n, m, gridRows), lost \subseteq {"coordinates"},
         NEW s \in Slots, s # message, Used(w, s), Truthful(w, s), readncdfFile(w, s)
  PROVE  WellKept(mem', n, m, gridRows') /\ lost' \subseteq {"coordinates"}
<1>1. CASE HasValues(w, s)
  <2>1. Settle(Shown(w, s)) /\ gridRows' = Rows[w.tag[s].file]
    BY <1>1 DEF readncdfFile
  <2> DEFINE v == Shown(w, s)
             r == Rows[w.tag[s].file]
  <2>2. WellKept(v, n, m, r)
    BY ShownKept
  <2>3. Settle(v) /\ gridRows' = r
    BY <2>1
  <2> HIDE DEF v, r
  <2> QED BY <2>2, <2>3, SettledKept
<1>2. CASE ~HasValues(w, s)
  <2>1. Settle(w) /\ gridRows' = gridRows
    BY <1>2 DEF readncdfFile
  <2> QED BY <2>1, SettledKept
<1> QED BY <1>1, <1>2

LEMMA ReadToMyDataKept ==
  ASSUME NEW w, NEW n, NEW m, WellKept(w, n, m, gridRows), lost \subseteq {"coordinates"},
         NEW k \in Indices, k <= n, NEW b, ReadToMyData(w, k, b)
  PROVE  WellKept(mem', n, m, gridRows') /\ lost' \subseteq {"coordinates"}
<1> DEFINE u == Assign(w, myData, Entry(k))
<1>1. WellKept(u, n, m, gridRows) /\ Used(u, myData)
  BY AssignedKept
<1>2. PICK r \in readTimeStepData(u, myData) :
        IF r.read \/ b THEN readncdfFile(r.mem, myData) ELSE Settle(r.mem) /\ UNCHANGED gridRows
  BY DEF ReadToMyData
<1> HIDE DEF u
<1> DEFINE v == r.mem
<1>3. ReadFrom(v, u, myData)
  BY <1>1, <1>2, AnyRead, SlotNames DEF WellKept
<1>4. readncdfFile(v, myData) \/ (Settle(v) /\ gridRows' = gridRows)
  BY <1>2
<1> HIDE DEF v
<1>5. WellKept(v, n, m, gridRows)
  BY <1>1, <1>3, ReadKept, SlotNames
<1>6. Used(v, myData) /\ Truthful(v, myData)
  BY <1>3 DEF ReadFrom
<1>7. CASE readncdfFile(v, myData)
  BY <1>5, <1>6, <1>7, readncdfFileKept, SlotNames
<1>8. CASE Settle(v) /\ gridRows' = gridRows
  BY <1>5, <1>8, SettledKept
<1> QED BY <1>4, <1>7, <1>8

LEMMA readDataKept ==
  ASSUME NEW w, NEW n, NEW m, WellKept(w, n, m, gridRows), lost \subseteq {"coordinates"},
         NEW k \in Indices, k <= n, NEW r \in readTimeStepData(w, Entry(k)),
         readncdfFile(r.mem, Entry(k)) \/ (Settle(r.mem) /\ gridRows' = gridRows)
  PROVE  WellKept(mem', n, m, gridRows') /\ lost' \subseteq {"coordinates"}
<1> DEFINE v == r.mem
<1>1. Entry(k) \in Slots /\ Entry(k) # message /\ Used(w, Entry(k)) /\ Good(w)
  BY SlotNames DEF WellKept, Counted
<1>2. ReadFrom(v, w, Entry(k))
  BY <1>1, AnyRead
<1>3. readncdfFile(v, Entry(k)) \/ (Settle(v) /\ gridRows' = gridRows)
  OBVIOUS
<1> HIDE DEF v
<1>4. WellKept(v, n, m, gridRows)
  BY <1>1, <1>2, ReadKept
<1>5. Used(v, Entry(k)) /\ Truthful(v, Entry(k))
  BY <1>2 DEF ReadFrom
<1>6. CASE readncdfFile(v, Entry(k))
  BY <1>1, <1>4, <1>5, <1>6, readncdfFileKept
<1>7. CASE Settle(v) /\ gridRows' = gridRows
  BY <1>4, <1>7, SettledKept
<1> QED BY <1>3, <1>6, <1>7

\* nc_get pushes a copy of the scratch message, which has new coordinates.
LEMMA PushedKept ==
  ASSUME NEW w, NEW n \in Nat, NEW m, NEW r, WellKept(w, n, m, r), n + 1 \in Indices,
         NEW f \in Files, NEW flags \in SUBSET Flagged, NEW v,
         v = Construct(Alloc(Mark(clear(w, {scratch}), scratch, f, flags), {<<scratch, "coordinates">>}),
                       [s \in {Entry(n + 1)} |-> scratch])
  PROVE  WellKept(v, n + 1, m, r)
<1> DEFINE S == {scratch}
           c == clear(w, {scratch})
           t == Mark(c, scratch, f, flags)
           P == {<<scratch, "coordinates">>}
           u == Alloc(t, P)
           from == [s \in {Entry(n + 1)} |-> scratch]
<1>1. scratch \in Slots /\ scratch # message /\ S \subseteq {scratch, myData}
  BY SlotNames
<1>2. WellKept(c, n, m, r)
  BY <1>1, ClearedKept
<1>3. v = Construct(u, from)
  OBVIOUS
<1>4. DOMAIN from = {Entry(n + 1)} /\ from[Entry(n + 1)] = scratch
  OBVIOUS
<1>5. P \in SUBSET Places /\ (\A p \in P : p[2] \notin ValueArrays)
  BY <1>1, ArrayNames DEF Places
<1>6. \A x \in Slots, a \in Arrays : <<x, a>> \in P <=> x = scratch /\ a = "coordinates"
  OBVIOUS
<1> HIDE DEF c, P, from
<1>7. /\ Good(t) /\ t.ptr = c.ptr
      /\ \A x \in Slots : t.tag[x] = IF x = scratch THEN [file |-> f, flags |-> flags] ELSE c.tag[x]
  BY <1>1, <1>2, MarkGood DEF WellKept
<1>8. \A x \in Slots, a \in Arrays : Has(t, x, a) <=> Has(c, x, a)
  BY <1>7 DEF Has
<1> HIDE DEF t
<1>9. /\ Good(u) /\ u.tag = t.tag
      /\ \A x \in Slots, a \in Arrays : Has(u, x, a) <=> Has(t, x, a) \/ <<x, a>> \in P
  BY <1>5, <1>7, AllocHas
<1> HIDE DEF u
<1>10. Whole(u, scratch)
  <2>1. Whole(c, scratch)
    BY <1>1, <1>2 DEF WellKept
  <2> QED BY <1>1, <1>6, <1>8, <1>9, <2>1, CurrentNames, ArrayNames DEF Whole
<1>11. Used(u, scratch)
  <2>1. u.tag[scratch] = [file |-> f, flags |-> flags]
    BY <1>1, <1>7, <1>9
  <2>2. Has(u, scratch, "coordinates")
    BY <1>1, <1>6, <1>9, ArrayNames
  <2> QED BY <2>1, <2>2 DEF Used
<1>12. \A s \in Slots \ S : u.tag[s] = c.tag[s] /\ \A a \in Arrays : Has(u, s, a) <=> Has(c, s, a)
  BY <1>6, <1>7, <1>8, <1>9
<1>13. \A s \in S : Whole(u, s)
  BY <1>10
<1> HIDE DEF S
<1>14. WellKept(u, n, m, r)
  BY <1>1, <1>2, <1>9, <1>12, <1>13, KeptIfSame
<1>15. Entry(n + 1) \in Slots /\ Entry(n + 1) # message /\ Unused(u, Entry(n + 1))
  <2>1. ~(n + 1 <= n)
    OBVIOUS
  <2> QED BY <1>14, <2>1, SlotNames DEF WellKept, Counted
<1>16. /\ Good(v) /\ \A s \in Slots : Whole(v, s)
       /\ Used(v, Entry(n + 1))
       /\ \A s \in Slots \ {Entry(n + 1)} :
            v.tag[s] = u.tag[s] /\ \A a \in Arrays : Has(v, s, a) <=> Has(u, s, a)
  <2>1. /\ Good(v) /\ \A s \in Slots : Whole(v, s)
        /\ \A s \in DOMAIN from : Used(u, from[s]) => Used(v, s)
        /\ \A s \in Slots \ DOMAIN from :
             v.tag[s] = u.tag[s] /\ \A a \in Arrays : Has(v, s, a) <=> Has(u, s, a)
    <3>1. /\ DOMAIN from \subseteq Slots /\ \A s \in DOMAIN from : from[s] \in Slots
          /\ \A s \in DOMAIN from : Unused(u, s)
      BY <1>1, <1>4, <1>15
    <3>2. Good(u) /\ \A s \in Slots : Whole(u, s)
      BY <1>14 DEF WellKept
    <3> QED BY <1>3, <3>1, <3>2, CopiesState
  <2> QED BY <1>4, <1>11, <2>1
<1>17. ASSUME NEW s \in Slots \ {Entry(n + 1)}
       PROVE  /\ Truthful(v, s) <=> Truthful(u, s)
              /\ Used(v, s) <=> Used(u, s)
              /\ Unused(v, s) <=> Unused(u, s)
  BY <1>16, SameSlot
<1>18. Truthful(v, message) /\ v.tag[message] = u.tag[message]
  BY <1>14, <1>15, <1>16, <1>17, SlotNames DEF WellKept
<1>19. ASSUME NEW k \in Indices PROVE IF k <= n + 1 THEN Used(v, Entry(k)) ELSE Unused(v, Entry(k))
  <2>1. CASE k = n + 1
    BY <1>16, <2>1
  <2>2. CASE k # n + 1
    <3>1. Entry(k) \in Slots \ {Entry(n + 1)}
      BY <2>2, SlotNames
    <3>2. k <= n + 1 <=> k <= n
      BY <2>2, NumbersOfIndices
    <3>3. IF k <= n THEN Used(u, Entry(k)) ELSE Unused(u, Entry(k))
      BY <1>14 DEF WellKept, Counted
    <3> QED BY <1>17, <3>1, <3>2, <3>3
  <2> QED BY <2>1, <2>2
<1>20. ASSUME NEW k \in Indices PROVE IF k <= m THEN Used(v, Saved(k)) ELSE Unused(v, Saved(k))
  <2>1. Saved(k) \in Slots \ {Entry(n + 1)}
    BY SlotNames
  <2>2. IF k <= m THEN Used(u, Saved(k)) ELSE Unused(u, Saved(k))
    BY <1>14 DEF WellKept, Counted
  <2> QED BY <1>17, <2>1, <2>2
<1> QED BY <1>14, <1>16, <1>18, <1>19, <1>20 DEF WellKept, Counted
-----------------------------------------------------------------------------
(* The inductive invariant.                                                 *)

IInv ==
  /\ WellKept(mem, size, saved.size, gridRows)
  /\ size \in Nat /\ 1 .. size \subseteq Indices
  /\ saved.size \in Nat /\ 1 .. saved.size \subseteq Indices
  /\ call.who # "none" => call.file \in Files
  /\ call.who = "step node" => call.want \in Indices
  /\ call.who # "addChildren" => saved.size = 0
  /\ lost \subseteq {"coordinates"}

\* What the handlers do to the memory, apart from the numbers they keep.
Keeps == WellKept(mem', size', saved'.size, gridRows') /\ lost' \subseteq {"coordinates"}

LEMMA NothingKept == WellKept(NoMemory, 0, 0, 0)
<1> DEFINE w == NoMemory
<1>1. /\ w.live = {} /\ w.ptr = [p \in Places |-> NULL] /\ w.tag = [s \in Slots |-> Unnamed]
      /\ w = [live |-> w.live, ptr |-> w.ptr, tag |-> w.tag]
  BY DEF NoMemory
<1>2. Unnamed \in Tags /\ Unnamed.flags = {}
  BY DEF Unnamed, Tags
<1>3. w \in Memories
  BY <1>1, <1>2 DEF Memories
<1>4. \A s \in Slots, a \in Arrays : ~Has(w, s, a)
  <2> SUFFICES ASSUME NEW s \in Slots, NEW a \in Arrays PROVE ~Has(w, s, a)
    OBVIOUS
  <2>1. <<s, a>> \in Places
    BY DEF Places
  <2>2. w.ptr[<<s, a>>] = NULL
    BY <1>1, <2>1
  <2> QED BY <2>2 DEF Has
<1> HIDE DEF w
<1>5. Good(w)
  <2>1. Full(w) = {}
    BY <1>4, FullHas, PlaceParts DEF Full
  <2> QED BY <1>1, <1>3, <2>1 DEF Good
<1>6. \A s \in Slots : Whole(w, s) /\ Unused(w, s)
  BY <1>4, NothingLeft
<1>7. Truthful(w, message)
  BY <1>1, <1>2, <1>4, SlotNames, ArrayNames DEF Truthful
<1>8. Counted(w, Entry, 0) /\ Counted(w, Saved, 0)
  <2> SUFFICES ASSUME NEW k \in Indices
               PROVE  ~(k <= 0) /\ Unused(w, Entry(k)) /\ Unused(w, Saved(k))
    BY DEF Counted
  <2>1. k \in Nat \ {0}
    BY NumbersOfIndices
  <2> QED BY <1>6, <2>1, SlotNames
<1> QED BY <1>5, <1>6, <1>7, <1>8 DEF WellKept, w

LEMMA CallsKept ==
  ASSUME IInv, NEW n \in Nat, 1 .. n \subseteq Indices, NEW w, WellKept(w, size, n, gridRows),
         NEW who, NEW f, NEW k, Calls(who, f, k, w)
  PROVE  WellKept(mem', 0, n, gridRows) /\ lost' \subseteq {"coordinates"}
<1> DEFINE v == freeAll(w, Vector(Entry, size))
<1>1. WellKept(v, 0, n, gridRows)
  BY EntriesFreed DEF IInv
<1>2. Settle(v)
  BY DEF Calls
<1> HIDE DEF v
<1> QED BY <1>1, <1>2, SettledKept DEF IInv

\* Grids that are gone leave no demand on the message.
LEMMA NoGridsKept ==
  ASSUME NEW w, NEW n, NEW m, NEW r, WellKept(w, n, m, r)
  PROVE  WellKept(w, n, m, 0)
BY DEF WellKept

LEMMA ClearedBefore ==
  ASSUME IInv, call = Idle, NEW k
  PROVE  saved.size = 0 /\ WellKept(Cleared(k), size, 0, gridRows)
<1>1. saved.size = 0
  BY DEF IInv, Idle
<1>2. CASE last \in 1 .. size /\ last # k
  <2>1. Cleared(k) = clear(mem, {Entry(last)})
    BY <1>2 DEF Cleared
  <2>2. Entry(last) \in Slots /\ Entry(last) # message
    BY <1>2, SlotNames DEF IInv
  <2> QED BY <1>1, <2>1, <2>2, ClearedKept DEF IInv
<1>3. CASE ~(last \in 1 .. size /\ last # k)
  BY <1>1, <1>3 DEF Cleared, IInv
<1> QED BY <1>1, <1>2, <1>3

LEMMA addChildrenStep ==
  ASSUME IInv, NEW f \in Files, addChildren(f) PROVE IInv'
<1>1. saved.size = 0
  BY DEF addChildren, IInv, Idle
<1> DEFINE w == Construct(mem, [s \in Vector(Saved, size) |-> Entry(s[2])])
<1>2. WellKept(w, size, size, gridRows)
  BY <1>1, SaveKept DEF IInv
<1>3. /\ Calls("addChildren", f, 0, w) /\ saved' = [size |-> size, last |-> last]
      /\ gridRows' = gridRows
  BY DEF addChildren
<1> HIDE DEF w
<1>4. WellKept(mem', 0, size, gridRows) /\ lost' \subseteq {"coordinates"}
  BY <1>2, <1>3, CallsKept DEF IInv
<1>5. size' = 0 /\ call' = [who |-> "addChildren", file |-> f, want |-> 0] /\ saved'.size = size
  BY <1>3 DEF Calls
<1>6. size' \in Nat /\ 1 .. size' \subseteq Indices /\ saved'.size \in Nat /\ 1 .. saved'.size \subseteq Indices
  <2>1. size \in Nat /\ 1 .. size \subseteq Indices
    BY DEF IInv
  <2>2. 1 .. 0 \subseteq Indices
    OBVIOUS
  <2> QED BY <1>5, <2>1, <2>2
<1>7. WellKept(mem', size', saved'.size, gridRows')
  BY <1>3, <1>4, <1>5
<1>8. call'.who = "addChildren" /\ call'.file \in Files
  BY <1>5
<1> QED BY <1>4, <1>6, <1>7, <1>8 DEF IInv

LEMMA SelectFileStep ==
  ASSUME IInv, NEW f \in Files, SelectFile(f) PROVE IInv'
<1>1. saved.size = 0
  BY DEF SelectFile, IInv, Idle
<1>2. Calls("file node", f, 0, mem) /\ saved' = saved /\ gridRows' = gridRows
  BY DEF SelectFile
<1>3. WellKept(mem', 0, saved.size, gridRows) /\ lost' \subseteq {"coordinates"}
  BY <1>2, CallsKept DEF IInv
<1>4. size' = 0 /\ call' = [who |-> "file node", file |-> f, want |-> 0]
  BY <1>2 DEF Calls
<1> QED BY <1>1, <1>2, <1>3, <1>4 DEF IInv

LEMMA SwitchFileStep ==
  ASSUME IInv, NEW f \in Files, NEW k \in Indices, SwitchFile(f, k) PROVE IInv'
<1>1. saved.size = 0
  BY DEF SwitchFile, IInv, Idle
<1>2. Calls("step node", f, k, mem) /\ saved' = saved /\ gridRows' = 0
  BY DEF SwitchFile
<1>3. WellKept(mem', 0, saved.size, 0) /\ lost' \subseteq {"coordinates"}
  <2>1. WellKept(mem', 0, saved.size, gridRows) /\ lost' \subseteq {"coordinates"}
    BY <1>2, CallsKept DEF IInv
  <2> DEFINE v == mem'
  <2>2. WellKept(v, 0, saved.size, gridRows)
    BY <2>1
  <2> HIDE DEF v
  <2>3. WellKept(v, 0, saved.size, 0)
    BY <2>2, NoGridsKept
  <2> QED BY <2>1, <2>3 DEF v
<1>4. size' = 0 /\ call' = [who |-> "step node", file |-> f, want |-> k]
  BY <1>2 DEF Calls
<1> QED BY <1>1, <1>2, <1>3, <1>4 DEF IInv

LEMMA nc_getFailsStep ==
  ASSUME IInv, nc_getFails PROVE IInv'
<1> DEFINE n == saved.size
           w == IF call.who = "addChildren"
                THEN Construct(mem, [s \in Vector(Entry, saved.size) |-> Saved(s[2])]) ELSE mem
           v == freeAll(w, Vector(Saved, saved.size))
<1>1. /\ size = 0 /\ Settle(v) /\ size' = saved.size /\ call' = Idle /\ saved' = Nobody
      /\ gridRows' = gridRows
  BY DEF nc_getFails
<1>2. n \in Nat /\ 1 .. n \subseteq Indices /\ WellKept(mem, 0, n, gridRows)
  BY <1>1 DEF IInv
<1>3. WellKept(w, n, n, gridRows)
  <2>1. CASE call.who = "addChildren"
    BY <1>2, <2>1, RestoreKept
  <2>2. CASE call.who # "addChildren"
    BY <1>2, <2>2 DEF IInv
  <2> QED BY <2>1, <2>2
<1>4. WellKept(v, n, 0, gridRows)
  <2> HIDE DEF w
  <2> QED BY <1>2, <1>3, SavedFreed
<1> HIDE DEF w, v
<1>5. WellKept(mem', n, 0, gridRows) /\ lost' \subseteq {"coordinates"}
  BY <1>1, <1>4, SettledKept DEF IInv
<1>6. saved'.size = 0 /\ call'.who = "none" /\ 1 .. 0 \subseteq Indices
  BY <1>1 DEF Nobody, Idle
<1> QED BY <1>1, <1>2, <1>5, <1>6 DEF IInv

LEMMA nc_getStepStep ==
  ASSUME IInv, nc_getStep PROVE IInv'
<1> DEFINE f == call.file
           flags == Layers[f] \cap Flagged
           v == Construct(Alloc(Mark(clear(mem, {scratch}), scratch, f, flags), {<<scratch, "coordinates">>}),
                          [s \in {Entry(size + 1)} |-> scratch])
<1>1. /\ call.who # "none" /\ size < Steps[f] /\ Settle(v) /\ size' = size + 1
      /\ call' = call /\ saved' = saved /\ gridRows' = gridRows
  BY DEF nc_getStep
<1>2. f \in Files /\ Steps[f] \in Nat /\ size \in Nat
  BY <1>1, FilesAssumption DEF IInv
<1>3. size + 1 \in Indices
  <2>1. size + 1 \in 1 .. Steps[f]
    BY <1>1, <1>2
  <2> QED BY <1>2, <2>1 DEF Indices
<1>4. WellKept(v, size + 1, saved.size, gridRows)
  <2>1. WellKept(mem, size, saved.size, gridRows)
    BY DEF IInv
  <2> HIDE DEF f
  <2> QED BY <1>2, <1>3, <2>1, PushedKept
<1> HIDE DEF v
<1>5. WellKept(mem', size + 1, saved.size, gridRows) /\ lost' \subseteq {"coordinates"}
  BY <1>1, <1>4, SettledKept DEF IInv
<1>6. 1 .. size + 1 \subseteq Indices
  <2> SUFFICES ASSUME NEW k \in 1 .. size + 1 PROVE k \in Indices
    OBVIOUS
  <2>1. k = size + 1 \/ k \in 1 .. size
    BY <1>2
  <2> QED BY <1>3, <2>1 DEF IInv
<1>7. WellKept(mem', size', saved'.size, gridRows')
  BY <1>1, <1>5
<1>8. size' \in Nat /\ 1 .. size' \subseteq Indices
  BY <1>1, <1>2, <1>6
<1> QED BY <1>1, <1>5, <1>7, <1>8 DEF IInv
LEMMA nc_getReturnsStep ==
  ASSUME IInv, nc_getReturns PROVE IInv'
<1>1. call' = Idle /\ saved' = Nobody /\ size' = size
  BY DEF nc_getReturns
<1>2. saved'.size = 0 /\ call'.who = "none" /\ 1 .. 0 \subseteq Indices
  BY <1>1 DEF Nobody, Idle
<1>3. WellKept(mem', size, 0, gridRows') /\ lost' \subseteq {"coordinates"}
  <2>1. CASE call.who = "step node" /\ call.want <= size
    <3>1. ReadToMyData(mem, call.want, FALSE)
      BY <2>1 DEF nc_getReturns
    <3>2. call.want \in Indices /\ saved.size = 0
      BY <2>1 DEF IInv
    <3> QED BY <2>1, <3>1, <3>2, ReadToMyDataKept DEF IInv
  <2>2. CASE ~(call.who = "step node" /\ call.want <= size)
    <3> DEFINE v == freeAll(mem, Vector(Saved, saved.size))
    <3>1. Settle(v) /\ (gridRows' = 0 \/ gridRows' = gridRows)
      BY <2>2 DEF nc_getReturns
    <3>2. WellKept(v, size, 0, gridRows)
      BY SavedFreed DEF IInv
    <3> HIDE DEF v
    <3>3. WellKept(v, size, 0, gridRows')
      BY <3>1, <3>2, NoGridsKept
    <3> DEFINE r == gridRows'
    <3>4. WellKept(v, size, 0, r)
      BY <3>3
    <3> HIDE DEF r
    <3>5. WellKept(mem', size, 0, r) /\ lost' \subseteq {"coordinates"}
      BY <3>1, <3>4, SettledKept DEF IInv
    <3> QED BY <3>5 DEF r
  <2> QED BY <2>1, <2>2
<1>4. WellKept(mem', size', saved'.size, gridRows')
  BY <1>1, <1>2, <1>3
<1>5. size' \in Nat /\ 1 .. size' \subseteq Indices
  BY <1>1 DEF IInv
<1>6. saved'.size \in Nat /\ 1 .. saved'.size \subseteq Indices
  BY <1>2
<1> QED BY <1>2, <1>3, <1>4, <1>5, <1>6 DEF IInv

LEMMA SelectedStep ==
  ASSUME IInv, NEW k \in Indices, SelectStep(k) \/ OnTimeline(k) PROVE IInv'
<1>1. PICK b \in BOOLEAN : ReadToMyData(Cleared(k), k, b)
  BY DEF SelectStep, OnTimeline
<1>2. call = Idle /\ k <= size /\ size' = size /\ call' = call /\ saved' = saved
  BY DEF SelectStep, OnTimeline
<1>3. saved.size = 0 /\ WellKept(Cleared(k), size, 0, gridRows)
  BY <1>2, ClearedBefore
<1>4. WellKept(mem', size, 0, gridRows') /\ lost' \subseteq {"coordinates"}
  <2> DEFINE w == Cleared(k)
  <2>1. WellKept(w, size, 0, gridRows) /\ ReadToMyData(w, k, b)
    BY <1>1, <1>3
  <2> HIDE DEF w
  <2> QED BY <1>2, <2>1, ReadToMyDataKept DEF IInv
<1> QED BY <1>2, <1>3, <1>4 DEF IInv

LEMMA readDataStep ==
  ASSUME IInv, NEW k \in Indices, readData(k) PROVE IInv'
<1> DEFINE w == Cleared(0)
<1>1. call = Idle /\ k <= size /\ size' = size /\ call' = call /\ saved' = saved
  BY DEF readData
<1>2. PICK r \in readTimeStepData(w, Entry(k)) :
        readncdfFile(r.mem, Entry(k)) \/ (Settle(r.mem) /\ gridRows' = gridRows)
  BY DEF readData
<1>3. saved.size = 0 /\ WellKept(w, size, 0, gridRows)
  BY <1>1, ClearedBefore
<1> HIDE DEF w
<1>4. WellKept(mem', size, 0, gridRows') /\ lost' \subseteq {"coordinates"}
  BY <1>1, <1>2, <1>3, readDataKept DEF IInv
<1> QED BY <1>1, <1>3, <1>4 DEF IInv

LEMMA DestroyStep ==
  ASSUME IInv, Destroy PROVE IInv'
<1> DEFINE u == freeAll(mem, Slots)
           t == NoMemory.tag
           v == [u EXCEPT !.tag = t]
<1>1. /\ Settle(v) /\ size' = 0 /\ gridRows' = 0 /\ call' = call /\ saved' = saved /\ call = Idle
  BY DEF Destroy
<1>2. saved.size = 0 /\ call.who = "none"
  BY <1>1 DEF IInv, Idle
<1>3. /\ Good(u) /\ \A s \in Slots, a \in Arrays : ~Has(u, s, a)
  BY freeAllHas DEF IInv, WellKept
<1>4. t = [s \in Slots |-> Unnamed] /\ Unnamed \in Tags /\ Unnamed.flags = {}
  BY DEF NoMemory, Unnamed, Tags
<1>5. t \in [Slots -> Tags]
  BY <1>4
<1> HIDE DEF u, t
<1>6. Good(v) /\ v.tag = t /\ v.ptr = u.ptr
  <2> DEFINE x == v
  <2>1. x = [u EXCEPT !.tag = t]
    OBVIOUS
  <2> HIDE DEF x
  <2>2. Good(x) /\ x.tag = t /\ x.ptr = u.ptr
    BY <1>3, <1>5, <2>1, Retagged
  <2> QED BY <2>2 DEF x
<1> HIDE DEF v
<1>7. \A s \in Slots, a \in Arrays : ~Has(v, s, a)
  <2>1. \A s \in Slots, a \in Arrays : Has(v, s, a) <=> Has(u, s, a)
    BY <1>6 DEF Has
  <2> QED BY <1>3, <2>1
<1>8. WellKept(v, 0, 0, 0)
  <2>1. \A s \in Slots : Whole(v, s) /\ Unused(v, s)
    BY <1>7, NothingLeft
  <2>2. Truthful(v, message)
    BY <1>4, <1>6, <1>7, SlotNames, ArrayNames DEF Truthful
  <2>3. Counted(v, Entry, 0) /\ Counted(v, Saved, 0)
    <3> SUFFICES ASSUME NEW k \in Indices
                 PROVE  ~(k <= 0) /\ Unused(v, Entry(k)) /\ Unused(v, Saved(k))
      BY DEF Counted
    <3>1. k \in Nat \ {0}
      BY NumbersOfIndices
    <3> QED BY <2>1, <3>1, SlotNames
  <2> QED BY <1>6, <2>1, <2>2, <2>3 DEF WellKept
<1>9. WellKept(mem', 0, 0, 0) /\ lost' \subseteq {"coordinates"}
  BY <1>1, <1>8, SettledKept DEF IInv
<1>10. WellKept(mem', size', saved'.size, gridRows')
  BY <1>1, <1>2, <1>9
<1>11. size' \in Nat /\ 1 .. size' \subseteq Indices
  BY <1>1
<1>12. saved'.size \in Nat /\ 1 .. saved'.size \subseteq Indices
  BY <1>1, <1>2
<1> QED BY <1>1, <1>2, <1>9, <1>10, <1>11, <1>12 DEF IInv

LEMMA Start == Init => IInv
<1> SUFFICES ASSUME Init PROVE IInv
  OBVIOUS
<1>1. /\ mem = NoMemory /\ size = 0 /\ saved.size = 0 /\ call.who = "none" /\ gridRows = 0 /\ lost = {}
  BY DEF Init, Nobody, Idle
<1>2. WellKept(mem, size, saved.size, gridRows)
  BY <1>1, NothingKept
<1>3. 1 .. size \subseteq Indices /\ 1 .. saved.size \subseteq Indices
  BY <1>1
<1> QED BY <1>1, <1>2, <1>3 DEF IInv

LEMMA Step == IInv /\ [Next]_vars => IInv'
<1> SUFFICES ASSUME IInv, [Next]_vars PROVE IInv'
  OBVIOUS
<1>1. CASE UNCHANGED vars
  BY <1>1 DEF IInv, vars
<1>2. CASE Next
  BY <1>2, addChildrenStep, SelectFileStep, SwitchFileStep, nc_getFailsStep, nc_getStepStep,
     nc_getReturnsStep, SelectedStep, readDataStep, DestroyStep DEF Next
<1> QED BY <1>1, <1>2

-----------------------------------------------------------------------------
(* What the invariant says of the five properties.                          *)

LEMMA Consequences ==
  ASSUME IInv
  PROVE  /\ OwnsWhatItPointsTo
         /\ CurrentAllOrNothing
         /\ OnlyCoordinatesAreLost
         /\ FlagsTellTheArrays
         /\ GridsFitTheMessage
<1>1. Good(mem) /\ DOMAIN mem.ptr = Places
  BY DEF IInv, WellKept, Good, Memories
<1>2. OwnsWhatItPointsTo
  <2>1. {p \in DOMAIN mem.ptr : mem.ptr[p] # NULL} = Full(mem)
    BY <1>1 DEF Full
  <2>2. \A p \in Full(mem) : mem.ptr[p] \in mem.live
    BY <1>1 DEF Good
  <2>3. ASSUME NEW p \in Full(mem), NEW q \in Full(mem), mem.ptr[p] = mem.ptr[q] PROVE p = q
    <3>1. p \in Places /\ q \in Places /\ mem.ptr[p] \in Blocks(p) /\ mem.ptr[p] \in Blocks(q)
      BY <1>1, <2>3 DEF Good, Full
    <3> QED BY <3>1, BlocksApart
  <2> QED BY <2>1, <2>2, <2>3 DEF OwnsWhatItPointsTo
<1>3. CurrentAllOrNothing
  <2> SUFFICES ASSUME NEW s \in Slots
               PROVE  Held(mem, s) \cap Current = {} \/ Held(mem, s) \cap Current = Current
    BY DEF CurrentAllOrNothing, Current
  <2>1. \A a \in Current : a \in Held(mem, s) <=> Has(mem, s, a)
    BY CurrentNames, ArrayNames DEF Held, Has
  <2>2. Whole(mem, s)
    BY DEF IInv, WellKept
  <2> QED BY <2>1, <2>2 DEF Whole
<1>4. FlagsTellTheArrays
  <2>1. \A a \in Flagged : a \in Held(mem, message) <=> Has(mem, message, a)
    BY ArrayNames DEF Held, Has
  <2>2. Truthful(mem, message)
    BY DEF IInv, WellKept
  <2> QED BY <2>1, <2>2 DEF Truthful, FlagsTellTheArrays
<1>5. GridsFitTheMessage
  BY NullAssumption DEF IInv, WellKept, GridsFitTheMessage
<1>6. OnlyCoordinatesAreLost
  BY DEF IInv, OnlyCoordinatesAreLost
<1> QED BY <1>2, <1>3, <1>4, <1>5, <1>6

\* Whatever the handlers copy, save, restore, clear and destroy, for any files: no array
\* is used after it was freed or freed twice, and nothing but coordinates is lost.
THEOREM MemoryIsOwned == Spec => [](OwnsWhatItPointsTo /\ OnlyCoordinatesAreLost)
<1>1. IInv => OwnsWhatItPointsTo /\ OnlyCoordinatesAreLost
  BY Consequences
<1> QED BY <1>1, Start, Step, PTL DEF Spec

\* At whichever allocation a reading failed, and wherever the message was copied since:
\* the current is whole or missing, the flags of the message that is shown tell its
\* arrays, and the grids have the rows they are freed by.
THEOREM MessagesAreWhole == Spec => [](CurrentAllOrNothing /\ FlagsTellTheArrays /\ GridsFitTheMessage)
<1>1. IInv => CurrentAllOrNothing /\ FlagsTellTheArrays /\ GridsFitTheMessage
  BY Consequences
<1> QED BY <1>1, Start, Step, PTL DEF Spec
=============================================================================

---------------------------- MODULE NcdfMessage ----------------------------
(***************************************************************************)
(* The memory of the time steps.  A step is an ncdfDataMessage             *)
(* (src/include/ncdf_reader.h), which owns its coordinates and its values   *)
(* and is copied by value: nc_get pushes copies of one scratch message into *)
(* myDataVector, addChildren saves the whole vector, the handlers copy an   *)
(* entry to myData and read its values there, and readncdfFile copies that *)
(* to myMessage (src/src/ncdf.cpp, ncdf_reader.cpp).                        *)
(*                                                                         *)
(* A block of memory is named after the array it was made for; the third    *)
(* component tells it from the one that array had before.  What no message *)
(* points to at the end of an action is lost for good.  The copies a vector *)
(* makes of its entries when it grows are not modelled, as they leave every *)
(* array where it belongs; nor is a copy that runs out of memory, which the *)
(* code does not look for.                                                 *)
(***************************************************************************)
EXTENDS Integers

CONSTANTS
  Files,     \* the NetCDF files
  Steps,     \* Steps[f]: the number of time steps
  Rows,      \* Rows[f]: noPointsMeridian
  Layers,    \* Layers[f]: which of "current", "sst", "salinity" it has
  NULL

CurrentArrays == <<"ucurr", "vcurr", "uvlats", "uvlons">>   \* in the order of allocation
Flagged       == {"sst", "salinity"}
ValueArrays   == {CurrentArrays[n] : n \in 1 .. 4} \cup Flagged
Arrays        == {"coordinates"} \cup ValueArrays

ASSUME FilesAssumption ==
  /\ Steps \in [Files -> Nat] /\ Rows \in [Files -> Nat \ {0}]
  /\ \A f \in Files : Layers[f] \subseteq {"current"} \cup Flagged

\* The messages: myncdfData, myData, myMessage, and the entries of two vectors.
scratch  == <<"myncdfData", 0>>
myData   == <<"myData", 0>>
message  == <<"myMessage", 0>>
Entry(k) == <<"myDataVector", k>>
Saved(k) == <<"savedVector", k>>

Indices == UNION {1 .. Steps[f] : f \in Files}
Slots   == {scratch, myData, message} \cup {Entry(k) : k \in Indices} \cup {Saved(k) : k \in Indices}

Places == Slots \X Arrays

\* The blocks that may be made for a place's array.
Blocks(p) == {<<p[1], p[2], 0>>, <<p[1], p[2], 1>>}

ASSUME NullAssumption == NULL \notin Files /\ \A p \in Places : NULL \notin Blocks(p)

VARIABLES
  mem,      \* live: the blocks; ptr: the arrays' pointers; tag: file and flags
  size,     \* myDataVector.size()
  last,     \* m_lastSelectedTimeIndex + 1
  ids,      \* the file whose variable ids are cached
  call,     \* the nc_get that is running: its caller, file and the step wanted
  saved,    \* savedVector.size() and savedIndex + 1
  gridRows, \* the rows of the grids, 0 when there are none
  lost      \* the arrays that memory was lost for

vars == <<mem, size, last, ids, call, saved, gridRows, lost>>

Idle    == [who |-> "none", file |-> NULL, want |-> 0]
Nobody  == [size |-> 0, last |-> 0]
Unnamed == [file |-> NULL, flags |-> {}]

-----------------------------------------------------------------------------
(* Messages.  An operator takes the memory w and returns it changed; P is a *)
(* set of places <<message, array>>.                                        *)

Held(w, s) == {a \in Arrays : w.ptr[s, a] # NULL}

\* f with the values of g where g has any
Updated(f, g) == [x \in DOMAIN f |-> IF x \in DOMAIN g THEN g[x] ELSE f[x]]

\* calloc overwrites the pointer, whatever it pointed to.
Block(w, p) == <<p[1], p[2], IF w.ptr[p] = <<p[1], p[2], 0>> THEN 1 ELSE 0>>

Alloc(w, P) ==
  [w EXCEPT !.live = @ \cup {Block(w, p) : p \in P},
            !.ptr = Updated(@, [p \in P |-> Block(w, p)])]

Free(w, P) ==
  [w EXCEPT !.live = @ \ {w.ptr[p] : p \in P},
            !.ptr = Updated(@, [p \in P |-> NULL])]

clearNoTemperature(w, S) == Free(w, S \X (ValueArrays \ {"sst"}))

\* clear leaves the coordinates alone.
clear(w, S) == Free(w, S \X ValueArrays)

freeAll(w, S) == Free(w, S \X Arrays)

Tagged(w, from) == Updated(w.tag, [s \in DOMAIN from |-> w.tag[from[s]]])

\* A copy of the pointers instead of the arrays.
copyPointers(w, from) ==
  [w EXCEPT !.tag = Tagged(w, from),
            !.ptr = Updated(@, [p \in (DOMAIN from) \X Arrays |-> w.ptr[from[p[1]], p[2]]])]

\* copyFrom for each message s of DOMAIN from: an array that from[s] has not is left alone.
copyFrom(w, from) ==
  LET P == {p \in (DOMAIN from) \X Arrays : w.ptr[from[p[1]], p[2]] # NULL} IN
  [Alloc(w, P) EXCEPT !.tag = Tagged(w, from)]

\* operator=
Assign(w, to, s) ==
  IF to = s THEN w ELSE copyFrom(clear(w, {to}), [x \in {to} |-> s])

\* The copy constructor, for all entries of a vector: they begin with no arrays.
Construct(w, from) ==
  copyFrom([w EXCEPT !.ptr = Updated(@, [p \in (DOMAIN from) \X Arrays |-> NULL])], from)

Vector(At(_), n) == {At(k) : k \in 1 .. n}

-----------------------------------------------------------------------------
(* readTimeStepData(w.s): what it may make of the message, and whether it   *)
(* returns true.                                                           *)

Mark(w, s, f, flags) ==
  [w EXCEPT !.tag = Updated(@, [x \in {s} |-> [file |-> f, flags |-> flags]])]

EmptiedButFlags(w, s) == clear(w, {s})

Emptied(w, s) == Mark(clear(w, {s}), s, w.tag[s].file, {})

\* An allocation for the current fails: those before it are given back.
NoRollback(w, s, n) == Alloc(w, {s} \X {CurrentArrays[m] : m \in 1 .. n - 1})

RolledBack(w, s, n) ==
  LET made == {s} \X {CurrentArrays[m] : m \in 1 .. n - 1} IN Free(Alloc(w, made), made)

Cached == IF ids = NULL THEN {} ELSE Layers[ids]

\* The current is searched again in the file when the cache has none.
HasCurrent(f) == "current" \in Cached \cup Layers[f]

Read(w, s, flags) ==
  LET current == IF HasCurrent(w.tag[s].file) THEN {CurrentArrays[n] : n \in 1 .. 4} ELSE {} IN
  Mark(Alloc(w, {s} \X (current \cup flags)), s, w.tag[s].file, flags)

Failed(w) == [mem |-> w, read |-> FALSE]

readTimeStepData(w, s) ==
  IF w.ptr[s, "coordinates"] = NULL THEN {Failed(w)}
  ELSE LET v == Emptied(w, s) IN
       {Failed(v)}
         \cup (IF HasCurrent(w.tag[s].file) THEN {Failed(RolledBack(v, s, n)) : n \in 1 .. 4} ELSE {})
         \cup {[mem |-> Read(v, s, flags), read |-> TRUE] : flags \in SUBSET (Cached \cap Flagged)}

-----------------------------------------------------------------------------
(* readncdfFile(w.s): the grids and their message, if there are any values. *)

HasValues(w, s) == {"ucurr", "vcurr"} \subseteq Held(w, s) \/ "sst" \in Held(w, s)
                     \/ "salinity" \in Held(w, s) \/ w.tag[s].flags # {}

\* myMessage's coordinates are freed before the assignment, which would lose them.
Shown(w, s) == Assign(Free(w, {<<message, "coordinates">>}), message, s)

\* A block takes the first of its two names as soon as that is free.
Name(b, held) == IF b # NULL /\ <<b[1], b[2], 0>> \notin held THEN <<b[1], b[2], 0>> ELSE b

Renamed(w, held) ==
  [w EXCEPT !.live = {Name(b, held) : b \in @ \cap held},
            !.ptr = [p \in DOMAIN w.ptr |-> Name(w.ptr[p], held)]]

LostBy(w, held) == {b[2] : b \in w.live \ held}

Settle(memory) ==
  \E w \in {memory} : \E held \in {{w.ptr[p] : p \in DOMAIN w.ptr}} :   \* computed once
    mem' = Renamed(w, held) /\ lost' = lost \cup LostBy(w, held)

readncdfFileAnyway(w, s) ==
  /\ Settle(Shown(w, s))
  /\ gridRows' = IF HasValues(w, s) THEN Rows[w.tag[s].file] ELSE gridRows

readncdfFile(w, s) ==
  IF HasValues(w, s)
  THEN Settle(Shown(w, s)) /\ gridRows' = Rows[w.tag[s].file]
  ELSE Settle(w) /\ UNCHANGED gridRows

-----------------------------------------------------------------------------
NoMemory ==
  [live |-> {}, ptr |-> [p \in Places |-> NULL], tag |-> [s \in Slots |-> Unnamed]]

Init ==
  /\ mem = NoMemory
  /\ size = 0 /\ last = 0 /\ ids = NULL /\ call = Idle /\ saved = Nobody
  /\ gridRows = 0 /\ lost = {}

\* nc_get empties the vector before it opens the file.
Calls(who, f, k, w) ==
  /\ Settle(freeAll(w, Vector(Entry, size)))
  /\ size' = 0 /\ last' = 0
  /\ call' = [who |-> who, file |-> f, want |-> k]
  /\ UNCHANGED ids

\* addChildren saves the vector.
addChildren(f) ==
  /\ call = Idle
  /\ Calls("addChildren", f, 0, Construct(mem, [s \in Vector(Saved, size) |-> Entry(s[2])]))
  /\ saved' = [size |-> size, last |-> last]
  /\ UNCHANGED gridRows

\* A file node is selected.
SelectFile(f) ==
  /\ call = Idle
  /\ Calls("file node", f, 0, mem)
  /\ UNCHANGED <<saved, gridRows>>

\* A step of another file is selected: the grids are freed first.
SwitchFile(f, k) ==
  /\ call = Idle
  /\ Calls("step node", f, k, mem)
  /\ gridRows' = 0
  /\ UNCHANGED saved

\* It fails, before or after it has cached the variable ids.
nc_getFails ==
  /\ call.who # "none" /\ size = 0
  /\ ids' \in {ids, call.file}
  /\ LET w == IF call.who = "addChildren"
              THEN Construct(mem, [s \in Vector(Entry, saved.size) |-> Saved(s[2])]) ELSE mem
     IN Settle(freeAll(w, Vector(Saved, saved.size)))
  /\ size' = saved.size /\ last' = saved.last
  /\ call' = Idle /\ saved' = Nobody
  /\ UNCHANGED gridRows

\* One turn of its loop over the time steps.
nc_getStep ==
  /\ call.who # "none" /\ size < Steps[call.file]
  /\ ids' = call.file
  /\ LET f == call.file
         w == Mark(clear(mem, {scratch}), scratch, f, Layers[f] \cap Flagged)
     IN Settle(Construct(Alloc(w, {<<scratch, "coordinates">>}), [s \in {Entry(size + 1)} |-> scratch]))
  /\ size' = size + 1
  /\ UNCHANGED <<last, call, saved, gridRows>>

\* myData is an entry's copy and gets its values.
ReadToMyData(w, k, showFailed) ==
  \E r \in readTimeStepData(Assign(w, myData, Entry(k)), myData) :
    IF r.read \/ showFailed THEN readncdfFile(r.mem, myData)
                            ELSE Settle(r.mem) /\ UNCHANGED gridRows

Cleared(k) == IF last \in 1 .. size /\ last # k THEN clear(mem, {Entry(last)}) ELSE mem

\* It returns 0 to its caller, who then goes on.
nc_getReturns ==
  /\ call.who # "none" /\ size = Steps[call.file]
  /\ ids' = call.file
  /\ call' = Idle /\ saved' = Nobody
  /\ UNCHANGED size
  /\ IF call.who = "step node" /\ call.want <= size
     THEN ReadToMyData(mem, call.want, FALSE) /\ last' = call.want
     ELSE /\ Settle(freeAll(mem, Vector(Saved, saved.size)))
          /\ gridRows' = IF call.who = "file node" /\ size > 0 THEN 0 ELSE gridRows
          /\ UNCHANGED last

\* A step of the same file is selected.
SelectStep(k) ==
  /\ call = Idle /\ k <= size
  /\ ReadToMyData(Cleared(k), k, FALSE)
  /\ last' = k
  /\ UNCHANGED <<size, ids, call, saved>>

OnTimeline(k) ==
  /\ call = Idle /\ k <= size /\ k # last
  /\ ReadToMyData(Cleared(k), k, TRUE)
  /\ last' = k
  /\ UNCHANGED <<size, ids, call, saved>>

\* onPrev and onNext read a step into the vector itself.
readData(k) ==
  /\ call = Idle /\ k <= size
  /\ \E r \in readTimeStepData(Cleared(0), Entry(k)) :
       IF r.read THEN readncdfFile(r.mem, Entry(k)) /\ last' = k
                 ELSE Settle(r.mem) /\ UNCHANGED <<gridRows, last>>
  /\ UNCHANGED <<size, ids, call, saved>>

\* The dialog is destroyed with all its messages, and made anew.
Destroy ==
  /\ call = Idle
  /\ LET w == freeAll(mem, Slots) IN Settle([w EXCEPT !.tag = NoMemory.tag])
  /\ size' = 0 /\ last' = 0 /\ ids' = NULL /\ gridRows' = 0
  /\ UNCHANGED <<call, saved>>

Next ==
  \/ \E f \in Files : addChildren(f) \/ SelectFile(f)
  \/ \E f \in Files : \E k \in Indices : SwitchFile(f, k)
  \/ nc_getFails \/ nc_getStep \/ nc_getReturns
  \/ \E k \in Indices : SelectStep(k) \/ OnTimeline(k) \/ readData(k)
  \/ Destroy

Spec == Init /\ [][Next]_vars
-----------------------------------------------------------------------------
(* Properties.                                                              *)

\* Every array of every message is memory that has not been freed, and no two arrays
\* share any: no use after free and no double free, whatever copies are made, saved,
\* restored, cleared and destroyed.
OwnsWhatItPointsTo ==
  LET used == {p \in DOMAIN mem.ptr : mem.ptr[p] # NULL} IN
  /\ \A p \in used : mem.ptr[p] \in mem.live
  /\ \A p, q \in used : mem.ptr[p] = mem.ptr[q] => p = q

\* A message has the current's four arrays or none of them, at whichever of the
\* allocations reading it failed and wherever it has been copied since.
CurrentAllOrNothing ==
  \A s \in Slots :
    LET held == Held(mem, s) \cap {CurrentArrays[n] : n \in 1 .. 4} IN held = {} \/ held = {CurrentArrays[n] : n \in 1 .. 4}

\* No values are ever lost, only coordinates: "clear() is used for reassignment ...
\* where copyFrom() will immediately overwrite these pointers" (ncdf_reader.h:43), which
\* is how a step that is selected and each step that is listed lose those before.  This is
\* about the arrays of the messages; the grids are counted by their rows alone.
OnlyCoordinatesAreLost == lost \subseteq {"coordinates"}

\* The message that the grids are made from says it has temperature or salinity exactly
\* if it holds the array: readncdfFile makes a layer's grid if either says so.
FlagsTellTheArrays == mem.tag[message].flags = Held(mem, message) \cap Flagged

\* The grids' rows are freed by myMessage's count of them, at five places: it is the
\* count they were made with, even after a message that shows nothing.
GridsFitTheMessage ==
  gridRows # 0 => mem.tag[message].file # NULL /\ gridRows = Rows[mem.tag[message].file]
=============================================================================

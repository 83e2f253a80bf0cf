------------------------------- MODULE GcHeap -------------------------------
(***************************************************************************)
(* The garbage-collected heap of nuzo-vm (gc.rs, gc/alloc.rs, gc/mark.rs,  *)
(* gc/sweep.rs, gc/heap.rs) and the safe point of the VM that promotes     *)
(* objects from the scratch area (variable_ops.rs).                        *)
(*                                                                         *)
(* An object lives in a slot of a chunk, in a slot of the scratch area, or *)
(* in the reference-counted pool, and is named by its index.  The pool     *)
(* owns the indices of the first chunks: chunk 0 is never allocated from,  *)
(* the others below FirstActive are placeholders.                          *)
(*                                                                         *)
(* An index is written <<c, o>> for slot o of chunk c; the scratch area    *)
(* has the number Scratch, above every chunk, and the pool is chunk 0.     *)
(* An object has one reference (a box, an array of one element).  At most  *)
(* one object of a run, any one, is watched: it and the references made to *)
(* it say so (no part of the program), so that the properties can tell     *)
(* whether a reference still finds the object it was made for.             *)
(*                                                                         *)
(* Sizes in bytes are abstracted: they decide when a collection runs and   *)
(* whether it is a minor or a deep one, and both are left open.  (A major  *)
(* collection never runs: it is chosen by major_gc_count, which only major *)
(* collections raise; and deep ones set back the ages that would make a    *)
(* chunk cold.)  The incremental paths (pace_incremental) do nothing       *)
(* between collections, as collect() leaves the phase Idle.                *)
(***************************************************************************)
EXTENDS Integers, Sequences, FiniteSets, FiniteSetsExt, Functions

CONSTANTS
    Regs,          \* registers, the roots
    Nil, Empty,    \* a value that is no reference; a slot without an object
    K,             \* slots of a chunk, GC_CHUNK_SIZE
    S,             \* slots of the scratch area, SCRATCH_CAP
    FirstActive,   \* GC_FIRST_ACTIVE_CHUNK
    MaxChunks,     \* bound of the model: chunks ever made, chunk 0 aside
    MaxMade, MaxStored, \* bounds of the model: objects made, objects changed
    HarmCap        \* bound of the model: harms after which it still goes on

Scratch == MaxChunks + 1
Slots   == 0 .. K - 1
Index   == ((0 .. MaxChunks) \X Slots) \cup ({Scratch} \X (0 .. S - 1))
Reference == [at : Index, watched : BOOLEAN]
Ref     == Reference \cup {Nil}
Object  == [watched : BOOLEAN, ref : Ref]

ASSUME GcAssumption ==
    /\ K \in Nat \ {0} /\ S \in Nat
    /\ FirstActive \in Nat \ {0} /\ MaxChunks \in Nat /\ FirstActive <= MaxChunks
    /\ HarmCap \in Nat /\ MaxMade \in Nat /\ MaxStored \in Nat
    /\ Nil # Empty /\ Empty \notin Object /\ Nil \notin Reference

VARIABLES
    chunks,        \* Gc::chunks without chunk 0
    active,        \* active_chunk
    scratch,       \* scratch_data
    scratch_top,
    pool,          \* the reference of the pool's one object
    regs,
    phase,         \* "run", "safe" (in a safe point) or "panicked"
    left, remap,   \* of a safe point: what is to be promoted, what went where
    made, stored,  \* objects made and changed so far
    watching,      \* whether one of the objects made is watched
    harm           \* what has happened that may lose objects (no program state)

vars == <<chunks, active, scratch, scratch_top, pool, regs, phase, left, remap, made, stored, watching, harm>>

IsScratch(at) == at[1] = Scratch

NewChunk == [data |-> [o \in Slots |-> Empty], top |-> 0, free |-> {}, alive |-> 0,
             gen |-> 0, dirty |-> {}]

----------------------------------------------------------------------------
(* scratch_aware_get: the object an index finds, for the VM.  The scratch   *)
(* area is read without a look at scratch_top.                             *)
ObjectAt(cs, scr, pl, at) ==
    CASE IsScratch(at) -> scr[at[2]]
      [] at[1] = 0 -> [watched |-> FALSE, ref |-> pl]
      [] at[1] \in DOMAIN cs -> cs[at[1]].data[at[2]]
      [] OTHER -> Empty

RefsOf(o) == IF o = Empty \/ o.ref = Nil THEN {} ELSE {o.ref}

(* What is reached from the indices in from by steps of next.              *)
Reach(from, next) ==
    LET reach[s \in SUBSET Index] ==
          LET more == s \cup UNION {next[at] : at \in s}
          IN  IF more = s THEN s ELSE reach[more]
    IN  reach[from]

(* Marking.  mark_index ignores the indices that belong to the pool;       *)
(* process_wave_front_step follows the reference of the object it finds,   *)
(* in the scratch area only below scratch_top, and not in the slots that    *)
(* scratch_mark_epoch says it has seen: those of this mark_epoch, a number  *)
(* of 8 bits that comes back after 256 collections.                        *)
Markable(refs) == {r.at : r \in {q \in refs : q.at[1] >= FirstActive}}

Followed(scr, seen, at) ==
    CASE IsScratch(at) ->
           IF at[2] < scratch_top /\ at[2] \notin seen THEN Markable(RefsOf(scr[at[2]])) ELSE {}
      [] at[1] \in DOMAIN chunks -> Markable(RefsOf(chunks[at[1]].data[at[2]]))
      [] OTHER -> {}

(* The references collect() starts from: the registers, the dirty slots of *)
(* tenured chunks, and in a deep collection every object of those.         *)
Tenured == {c \in DOMAIN chunks : chunks[c].gen >= 1}

Remembered(deep) ==
    UNION {RefsOf(chunks[at[1]].data[at[2]]) :
             at \in {t \in Tenured \X Slots :
                       t[2] \in chunks[t[1]].dirty \/ (deep /\ t[2] < chunks[t[1]].top)}}

Rooted(rs) == {rs[r] : r \in Regs} \ {Nil}

Marked(scr, seen, deep) ==
    Reach(Markable(Rooted(regs) \cup Remembered(deep)), [at \in Index |-> Followed(scr, seen, at)])

(* Gc::sweep of one chunk: the free list is rebuilt from every unmarked     *)
(* slot, those that were free before included, and alive_count goes down   *)
(* by as many.                                                             *)
MutListed(ch, dead) == ch.free
Listed(ch, dead) == dead

MutAliveAfter(ch, dead) == ch.alive
AliveAfter(ch, dead) ==
    IF ch.alive > Cardinality(dead) THEN ch.alive - Cardinality(dead) ELSE 0

Resets(ch, dead) == ch.top = K /\ AliveAfter(ch, dead) = 0

Dead(ch, marks) == {o \in Slots : o < ch.top /\ o \notin marks}

Cleared(ch, dead) == [o \in Slots |-> IF o \in dead THEN Empty ELSE ch.data[o]]

Swept(ch, marks) ==
    LET dead == Dead(ch, marks)
    IN  [ch EXCEPT !.data  = Cleared(ch, dead),
                   !.alive = AliveAfter(ch, dead),
                   !.free  = IF Resets(ch, dead) THEN {} ELSE Listed(ch, dead),
                   !.top   = IF Resets(ch, dead) THEN 0 ELSE ch.top,
                   !.dirty = {}]

(* A minor collection promotes a nursery chunk of which more than 0.4      *)
(* (GC_PROMOTE_SURVIVAL_RATIO) survived.                                   *)
Aged(ch, deep) ==
    IF ~deep /\ ch.gen = 0 /\ ch.top > 0 /\ 5 * ch.alive > 2 * ch.top
    THEN [ch EXCEPT !.gen = 1] ELSE ch

(* Gc::collect                                                             *)
MarksIn(marked, c) == {at[2] : at \in {m \in marked : m[1] = c}}

Collected(marked, deep) ==
    [c \in DOMAIN chunks |-> Aged(Swept(chunks[c], MarksIn(marked, c)), deep)]

(* A chunk is reset (all its slots handed out again) with objects in it.   *)
ResetsLive(marked) ==
    \E c \in DOMAIN chunks :
        LET dead == Dead(chunks[c], MarksIn(marked, c))
        IN  Resets(chunks[c], dead) /\ \E o \in Slots \ dead : chunks[c].data[o] # Empty

----------------------------------------------------------------------------
(* Allocation.  The active chunk, if it has a free slot or one never used;  *)
(* or the next nursery chunk that has, in cyclic order after it, where      *)
(* only chunk 0 is passed over; or a new chunk.                            *)
HasSlot(ch) == ch.free # {} \/ ch.top < K

Turn(c, cs, a) == (c - a - 1) % (Len(cs) + 1)

Candidates(cs) == {c \in DOMAIN cs : cs[c].gen = 0 /\ HasSlot(cs[c])}

ChunkFor(cs, a) ==
    IF HasSlot(cs[a]) THEN a
    ELSE IF Candidates(cs) = {} THEN Len(cs) + 1
    ELSE CHOOSE c \in Candidates(cs) :
            \A d \in Candidates(cs) : Turn(c, cs, a) <= Turn(d, cs, a)

(* The head of the free list, which is in ascending order, before a slot    *)
(* above top.                                                              *)
SlotOf(ch) == IF ch.free # {} THEN Min(ch.free) ELSE ch.top

MutTaken(ch, o) == ch.free
Taken(ch, o) == ch.free \ {o}

Filled(ch, o, obj) ==
    [ch EXCEPT !.data[o] = obj, !.alive = @ + 1, !.free = Taken(ch, o),
               !.top = IF ch.free # {} THEN @ ELSE @ + 1]

Placed(cs, a, obj) ==
    LET c     == ChunkFor(cs, a)
        grown == [d \in DOMAIN cs \cup {c} |-> IF d \in DOMAIN cs THEN cs[d] ELSE NewChunk]
        o     == SlotOf(grown[c])
    IN  [chunks |-> [grown EXCEPT ![c] = Filled(grown[c], o, obj)], at |-> <<c, o>>]

(* alloc_with_size(obj): the outcomes, with or without a collection first.  *)
(* A collection while an object is in hand (loses) may free what only that *)
(* object, or the ones placed just before, refer to.  How many collections *)
(* have run is left open, so any slots of the scratch area may be taken    *)
(* for seen.                                                               *)
Cycles == {<<"none", {}>>} \cup ({"minor", "deep"} \X SUBSET (0 .. scratch_top - 1))

Outcome(obj, scr, loses, cycle) ==
    LET collects == cycle[1] # "none"
        deep     == cycle[1] = "deep"
        marked   == Marked(scr, cycle[2], deep)
        placed   == Placed(IF collects THEN Collected(marked, deep) ELSE chunks, active, obj)
    IN  [chunks |-> placed.chunks,
         at     |-> placed.at,
         harm   |-> harm \cup (IF placed.at[1] < FirstActive THEN {"low"} ELSE {})
                         \cup (IF collects /\ ResetsLive(marked) THEN {"reset"} ELSE {})
                         \cup (IF collects /\ loses THEN {"mid"} ELSE {})
                         \cup (IF cycle[2] # {} THEN {"epoch"} ELSE {})]

Outcomes(obj, scr, loses) ==
    {out \in {Outcome(obj, scr, loses, cycle) : cycle \in Cycles} : out.at[1] <= MaxChunks}

Allocates(out) == chunks' = out.chunks /\ active' = out.at[1] /\ harm' = out.harm

(* What the program can reach, and whether a new object may be the watched  *)
(* one.                                                                    *)
Reached(cs, scr, pl, rs) ==
    Reach({v.at : v \in Rooted(rs)}, [at \in Index |-> {v.at : v \in RefsOf(ObjectAt(cs, scr, pl, at))}])

Live == Reached(chunks, scratch, pool, regs)

LiveRefs == Rooted(regs) \cup UNION {RefsOf(ObjectAt(chunks, scratch, pool, at)) : at \in Live}

Watch == IF watching THEN {FALSE} ELSE BOOLEAN

----------------------------------------------------------------------------
(* The VM's instructions.                                                  *)

Running == phase = "run" /\ Cardinality(harm) <= HarmCap

safeVars == <<left, remap>>
madeVars == <<made, stored, watching>>

heapVars == <<chunks, active, scratch, scratch_top, pool, safeVars, madeVars, harm>>

Makes(w) ==
    /\ made < MaxMade /\ made' = made + 1
    /\ w \in Watch /\ watching' = (watching \/ w)
    /\ UNCHANGED stored

Stores == stored < MaxStored /\ stored' = stored + 1 /\ UNCHANGED <<made, watching>>

(* allocate_box, op_slicechain_new: a new object of the GC heap, whose      *)
(* reference is a register's value or none.                                *)
Alloc(r, v) ==
    /\ Running
    /\ \E w \in BOOLEAN :
      /\ Makes(w)
      /\ \E out \in Outcomes([watched |-> w, ref |-> v], scratch, FALSE) :
           /\ Allocates(out)
           /\ regs' = [regs EXCEPT ![r] = [at |-> out.at, watched |-> w]]
    /\ UNCHANGED <<scratch, scratch_top, pool, phase, safeVars>>

(* alloc_scratch, from op_array_new, op_range_new, op_set_index, SetProp    *)
AllocScratch(r, v) ==
    /\ Running /\ scratch_top < S
    /\ \E w \in BOOLEAN :
         /\ Makes(w)
         /\ scratch' = [scratch EXCEPT ![scratch_top] = [watched |-> w, ref |-> v]]
         /\ regs' = [regs EXCEPT ![r] = [at |-> <<Scratch, scratch_top>>, watched |-> w]]
    /\ scratch_top' = scratch_top + 1
    /\ UNCHANGED <<chunks, active, pool, phase, safeVars, harm>>

(* With the area full alloc_scratch answers an index of the heap, which     *)
(* from_scratch_index refuses.                                             *)
ScratchFull(v) ==
    /\ Running /\ scratch_top = S
    /\ \E w \in BOOLEAN :
      /\ Makes(w)
      /\ \E out \in Outcomes([watched |-> w, ref |-> v], scratch, FALSE) : Allocates(out)
    /\ phase' = "panicked"
    /\ UNCHANGED <<scratch, scratch_top, pool, regs, safeVars>>

(* A constant: the object of the pool (a closure made before the VM was).   *)
LoadConst(r) ==
    /\ Running
    /\ regs' = [regs EXCEPT ![r] = [at |-> <<0, 0>>, watched |-> FALSE]]
    /\ UNCHANGED <<heapVars, phase>>

(* A register gets a number, another register's value, or an element.      *)
Move(r, v) ==
    /\ Running
    /\ regs' = [regs EXCEPT ![r] = v]
    /\ UNCHANGED <<heapVars, phase>>

Found(r) == ObjectAt(chunks, scratch, pool, regs[r].at)

Load(r, q) ==
    /\ Running /\ regs[q] # Nil /\ Found(q) # Empty
    /\ regs' = [regs EXCEPT ![r] = Found(q).ref]
    /\ UNCHANGED <<heapVars, phase>>

(* op_set_index_mut, set_box, op_capture: through scratch_aware_get_mut,    *)
(* which marks nothing dirty.                                              *)
Store(r, v) ==
    /\ Running /\ regs[r] # Nil /\ Found(r) # Empty
    /\ Stores
    /\ LET at == regs[r].at
       IN  \/ /\ IsScratch(at)
              /\ scratch' = [scratch EXCEPT ![at[2]].ref = v] /\ UNCHANGED <<chunks, pool, harm>>
           \/ /\ at[1] = 0
              /\ pool' = v
              /\ harm' = harm \cup (IF v = Nil \/ v.at[1] = 0 THEN {} ELSE {"pool"})
              /\ UNCHANGED <<chunks, scratch>>
           \/ /\ at[1] \in DOMAIN chunks
              /\ chunks' = [chunks EXCEPT ![at[1]].data[at[2]].ref = v]
              /\ UNCHANGED <<scratch, pool, harm>>
    /\ UNCHANGED <<active, scratch_top, regs, phase, safeVars>>

(* op_slicechain_append, through Gc::get_mut: the slot of a tenured chunk   *)
(* becomes dirty.  (The string it appends is no reference.)                *)
Soiled(cs, at) ==
    IF cs[at[1]].gen >= 1 THEN [cs EXCEPT ![at[1]].dirty = @ \cup {at[2]}] ELSE cs

Touch(r) ==
    /\ Running /\ regs[r] # Nil
    /\ regs[r].at[1] \in DOMAIN chunks /\ Found(r) # Empty
    /\ Stores
    /\ chunks' = Soiled(chunks, regs[r].at)
    /\ UNCHANGED <<active, scratch, scratch_top, pool, regs, phase, safeVars, harm>>

----------------------------------------------------------------------------
(* The safe point, at a loop's back edge.  Only what the registers refer   *)
(* to in the scratch area is promoted, in any order (a HashSet).           *)
SafePoint ==
    /\ Running /\ scratch_top > 0
    /\ left' = {v.at[2] : v \in {w \in Rooted(regs) : IsScratch(w.at) /\ w.at[2] < scratch_top}}
    /\ remap' = <<>>
    /\ phase' = "safe"
    /\ UNCHANGED <<chunks, active, scratch, scratch_top, pool, regs, madeVars, harm>>

Promote(i) ==
    /\ phase = "safe" /\ i \in left
    /\ left' = left \ {i}
    /\ scratch' = [scratch EXCEPT ![i] = Empty]
    /\ \E out \in Outcomes(scratch[i], [scratch EXCEPT ![i] = Empty],
                           remap # <<>> \/ scratch[i].ref # Nil) :
         /\ Allocates(out)
         /\ remap' = [j \in DOMAIN remap \cup {i} |-> IF j = i THEN out.at ELSE remap[j]]
    /\ UNCHANGED <<scratch_top, pool, regs, phase, madeVars>>

(* try_remap; remap_scratch_indices of the promoted objects, through        *)
(* get_mut_if_present.                                                     *)
Remapped(v) ==
    IF v # Nil /\ IsScratch(v.at) /\ v.at[2] \in DOMAIN remap
    THEN [v EXCEPT !.at = remap[v.at[2]]] ELSE v

Targets(c) == {o \in Slots : \E i \in DOMAIN remap : remap[i] = <<c, o>>}

MutRewritten(ch, os) == ch
Rewritten(ch, os) ==
    [ch EXCEPT !.data  = [o \in Slots |->
                            IF o \in os /\ ch.data[o] # Empty
                            THEN [ch.data[o] EXCEPT !.ref = Remapped(@)] ELSE ch.data[o]],
               !.dirty = IF ch.gen >= 1 THEN @ \cup os ELSE @]

(* An object that was not promoted, or whose scratch object was not: its    *)
(* reference into the scratch area stays.                                  *)
Strands(at) ==
    \E v \in RefsOf(ObjectAt(chunks, scratch, pool, at)) :
        IsScratch(v.at) /\ (v.at[2] \notin DOMAIN remap \/ at \notin Range(remap))

SafePointEnds ==
    /\ phase = "safe" /\ left = {}
    /\ chunks' = [c \in DOMAIN chunks |-> Rewritten(chunks[c], Targets(c))]
    /\ regs' = [r \in Regs |-> Remapped(regs[r])]
    /\ scratch_top' = 0
    /\ phase' = "run" /\ remap' = <<>>
    /\ harm' = harm \cup (IF \E at \in Reached(chunks', scratch, pool, regs') : Strands(at)
                          THEN {"inner"} ELSE {})
    /\ UNCHANGED <<active, scratch, pool, left, madeVars>>

----------------------------------------------------------------------------
Init ==
    /\ chunks = [c \in 1 .. FirstActive |-> NewChunk]
    /\ active = FirstActive
    /\ scratch = [i \in 0 .. S - 1 |-> Empty] /\ scratch_top = 0
    /\ pool = Nil
    /\ regs = [r \in Regs |-> Nil]
    /\ phase = "run" /\ left = {} /\ remap = <<>>
    /\ made = 0 /\ stored = 0 /\ watching = FALSE
    /\ harm = {}

Held == {regs[r] : r \in Regs} \cup {Nil}   \* what an instruction may take

Next ==
    \/ \E v \in Held :
         \/ \E r \in Regs : Alloc(r, v) \/ AllocScratch(r, v) \/ Move(r, v) \/ Store(r, v)
         \/ ScratchFull(v)
    \/ \E r \in Regs : LoadConst(r) \/ Touch(r) \/ (\E q \in Regs : Load(r, q))
    \/ SafePoint \/ (\E i \in left : Promote(i)) \/ SafePointEnds

Spec == Init /\ [][Next]_vars
----------------------------------------------------------------------------
(* Types: alive_count stays within the chunk, the active chunk exists, and  *)
(* a safe point promotes into chunks.                                      *)
ChunkType ==
    [data : [Slots -> Object \cup {Empty}], top : 0 .. K, free : SUBSET Slots, alive : 0 .. K,
     gen : {0, 1}, dirty : SUBSET Slots]

TypeOK ==
    /\ chunks \in Seq(ChunkType) /\ active \in DOMAIN chunks /\ Len(chunks) <= MaxChunks
    /\ scratch \in [0 .. S - 1 -> Object \cup {Empty}] /\ scratch_top \in 0 .. S
    /\ pool \in Ref /\ regs \in [Regs -> Ref]
    /\ phase \in {"run", "safe", "panicked"}
    /\ left \subseteq 0 .. S - 1
    /\ DOMAIN remap \subseteq 0 .. S - 1 /\ \A i \in DOMAIN remap : remap[i][1] \in DOMAIN chunks
    /\ made \in 0 .. MaxMade /\ stored \in 0 .. MaxStored /\ watching \in BOOLEAN
    /\ harm \subseteq {"low", "reset", "mid", "inner", "pool", "epoch"}

(* The free list of a chunk holds slots below top that hold no object, so   *)
(* that no allocation from it overwrites one; whatever else goes wrong.    *)
FreeListSound ==
    \A c \in DOMAIN chunks : \A o \in chunks[c].free :
        o < chunks[c].top /\ chunks[c].data[o] = Empty

(* alive_count, which decides promotion and the reuse of a whole chunk,     *)
(* never counts an object that is not there.                               *)
Occupied(ch) == {o \in Slots : o < ch.top /\ ch.data[o] # Empty}

AliveAtMost == \A c \in DOMAIN chunks : chunks[c].alive <= Cardinality(Occupied(chunks[c]))

(* Every reference the program can reach finds the object it was made for:  *)
(* the collector frees and moves nothing that is still in use.             *)
RefsTrue ==
    phase = "run" => \A v \in LiveRefs :
        LET obj == ObjectAt(chunks, scratch, pool, v.at) IN obj # Empty /\ obj.watched = v.watched

(* ... in every run in which none of these has happened: an object placed   *)
(* in a placeholder chunk; a chunk reset with objects in it; a collection  *)
(* while a safe point holds objects no root refers to; a safe point that   *)
(* leaves a reference into the scratch area in an object; a heap reference *)
(* stored in an object of the pool; a slot of the scratch area taken for    *)
(* seen.  There is no other way to lose one.                               *)
KeptUnlessHarmed == harm = {} => RefsTrue

(* No slot is lost: one below top holds an object or is free.              *)
NoSlotLost ==
    harm = {} => \A c \in DOMAIN chunks : \A o \in Slots :
        o < chunks[c].top => (chunks[c].data[o] = Empty <=> o \in chunks[c].free)

----------------------------------------------------------------------------
(* "GC allocation starts from GC_FIRST_ACTIVE_CHUNK, ensuring that          *)
(* global_idx >= HEAP_POOL_INDEX_LIMIT for all GC-managed objects" (gc.rs). *)
AbovePool ==
    \A c \in DOMAIN chunks : c < FirstActive => \A o \in Slots : chunks[c].data[o] = Empty
=============================================================================

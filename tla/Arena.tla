-------------------------------- MODULE Arena --------------------------------
(***************************************************************************)
(* The frame arenas of nuzo-vm (arena.rs) and what pop_frame does with     *)
(* them (call_dispatch.rs).                                                *)
(*                                                                         *)
(* The arrays, ranges and dictionaries that a function makes go to the     *)
(* arena of its frame.  There is one vector of objects for all frames, and *)
(* a bump pointer that counts the bytes they would take.  A value names an *)
(* arena object by its place in that vector.  When the frame ends, its     *)
(* objects are dropped, unless one is found to have escaped: then all are  *)
(* promoted to the heap of the collector, and the values that name them    *)
(* are rewritten.                                                          *)
(*                                                                         *)
(* An object has one reference and takes ObjSize bytes.  Every object has  *)
(* a number of its own and every value says which it was made for (no part *)
(* of the program), so that the properties can tell whether it still finds *)
(* that one.  The heap loses nothing here: that is the subject of GcHeap.  *)
(* Each activation has its window of registers, as FrameStack shows.       *)
(***************************************************************************)
EXTENDS Integers, Sequences, SequencesExt, FiniteSets

CONSTANTS
    Vars,          \* global variables
    Width,         \* registers of a window
    Nil,           \* a value that names no object
    ObjSize,       \* bytes of an object: size_of_val + size_estimate
    FrameBytes,    \* max_frame_arena_size
    RegionBytes,   \* max_region_size
    MaxDepth,      \* bound of the model: frames, those left by failed calls included
    MaxMade, MaxStored, \* bounds of the model: objects made, objects changed
    HarmCap        \* bound of the model: harms after which it still goes on

Regs == 1 .. Width
Ids  == 1 .. MaxMade

Named == [home : {"arena", "heap"}, idx : 0 .. MaxMade, obj : Ids]
Value == Named \cup {Nil}

ArenaFrameState == [start : Nat, top : Nat, obj_start : Nat, obj_count : Nat, made : Seq(Ids)]

ASSUME ArenaAssumption ==
    /\ Width \in Nat \ {0} /\ ObjSize \in Nat \ {0}
    /\ FrameBytes \in Nat /\ RegionBytes \in Nat
    /\ MaxDepth \in Nat /\ MaxMade \in Nat /\ MaxStored \in Nat /\ HarmCap \in Nat
    /\ Nil \notin Named

VARIABLES
    frames,        \* RegionAllocator::frame_stack; made (no part of the program) are its objects
    objects,       \* RegionAllocator::objects: the number and the reference of each
    global_top,
    metas,         \* of frame_metas: the arena, and the register the result goes to
    windows,       \* the registers, the script's window first
    globals,
    heap,          \* the collector's objects, by number
    phase,         \* "run", "halted" or "failed" script; "host" call of a function
    made, stored,  \* objects made and changed so far
    harm           \* what has happened that may lose objects (no program state)

regionVars == <<frames, objects, global_top>>
vars == <<regionVars, metas, windows, globals, heap, phase, made, stored, harm>>

InArena(v) == v # Nil /\ v.home = "arena"
OnHeap(id) == [home |-> "heap", idx |-> 0, obj |-> id]

----------------------------------------------------------------------------
(* scratch_aware_get: the object a value finds.                            *)
NoObject == [id |-> 0, ref |-> Nil]

ObjectOf(v) ==
    IF v.home = "heap" THEN [id |-> v.obj, ref |-> heap[v.obj]]
    ELSE IF v.idx < Len(objects) THEN objects[v.idx + 1]
    ELSE NoObject

Finds(v) == ObjectOf(v).id = v.obj

(* What the program can reach.                                             *)
Registers == UNION {Range(windows[w]) : w \in DOMAIN windows}
Roots     == (Registers \cup Range(globals)) \ {Nil}

ReachedFrom(vs) ==
    LET reach[s \in SUBSET Named] ==
          LET more == s \cup ({ObjectOf(v).ref : v \in s} \cap Named)
          IN  IF more = s THEN s ELSE reach[more]
    IN  reach[vs]

Live == ReachedFrom(Roots)

----------------------------------------------------------------------------
(* RegionAllocator.                                                        *)

(* allocate: the room left in the frame and in the region.                 *)
Fits(f) ==
    /\ f.top + ObjSize <= FrameBytes
    /\ f.start + f.top + ObjSize <= RegionBytes

FirstObject(f) == IF f.obj_count = 0 THEN Len(objects) ELSE f.obj_start

(* allocate_object, for the frame with arena a (numbered from 0).          *)
AllocateObject(a, obj) ==
    LET f == frames[a + 1]
    IN  /\ a < Len(frames) /\ Fits(f)
        /\ frames' = [frames EXCEPT ![a + 1] =
                        [@ EXCEPT !.top = f.top + ObjSize, !.obj_start = FirstObject(f),
                                  !.obj_count = f.obj_count + 1, !.made = Append(f.made, obj.id)]]
        /\ objects' = Append(objects, obj)
        /\ global_top' = f.start + f.top + ObjSize

(* begin_frame                                                             *)
BeginFrame ==
    /\ frames' = Append(frames, [start |-> global_top, top |-> 0, obj_start |-> Len(objects),
                                 obj_count |-> 0, made |-> <<>>])
    /\ UNCHANGED <<objects, global_top>>

(* end_frame, which drops the objects of the frame if none escaped.        *)
MutDroppedNone(f) == objects
MutDroppedMore(f) == IF f.obj_count > 0 THEN SubSeq(objects, 1, f.obj_start - 1) ELSE objects
Dropped(f) == IF f.obj_count > 0 THEN SubSeq(objects, 1, f.obj_start) ELSE objects

EndFrame(a, left) ==
    /\ global_top' = frames[a + 1].start
    /\ objects' = left
    /\ frames'  = SubSeq(frames, 1, a)

----------------------------------------------------------------------------
(* The end of a frame (pop_frame).  ws are the windows of its callers.     *)

(* frame_objects: the places of the frame's objects.                       *)
PlacesOf(f) == {i \in 0 .. Len(objects) - 1 : i >= f.obj_start /\ i < f.obj_start + f.obj_count}

(* check_arena_escape looks for a register below the frame's base that     *)
(* names one of its objects.  It compares the place of an object in the    *)
(* vector with the bytes of the frame.                                     *)
Escapes(f, ws) ==
    \E w \in DOMAIN ws, r \in Regs :
        InArena(ws[w][r]) /\ ws[w][r].idx \in f.start .. f.start + f.top - 1

(* promote_arena_range: the frame's objects go to the heap, and the        *)
(* callers' registers and the globals that name them are rewritten.        *)
MutRewrittenNot(places, v) == v
Rewritten(places, v) ==
    IF InArena(v) /\ v.idx \in places THEN OnHeap(objects[v.idx + 1].id) ELSE v

(* take_arena_object, for each of them from the last to the first.         *)
Without(f) ==
    SubSeq(objects, 1, f.obj_start) \o SubSeq(objects, f.obj_start + f.obj_count + 1, Len(objects))

Promote(places, ws) ==
    /\ heap' = [id \in DOMAIN heap \cup {objects[i + 1].id : i \in places} |->
                   IF id \in DOMAIN heap THEN heap[id]
                   ELSE (CHOOSE o \in Range(objects) : o.id = id).ref]
    /\ windows' = [w \in DOMAIN ws |-> [r \in Regs |-> Rewritten(places, ws[w][r])]]
    /\ globals' = [x \in Vars |-> Rewritten(places, globals[x])]

(* How an object may come to be lost when its frame ends: a register of a  *)
(* caller names it and is not noticed, only something else names it, or it *)
(* is promoted while another object names it.                              *)
HarmOfReturn(f, ws) ==
    LET places   == PlacesOf(f)
        naming   == {v \in Named : v.home = "arena" /\ v.idx \in places}
        callers  == UNION {Range(ws[w]) : w \in DOMAIN ws}
        others   == ReachedFrom((callers \cup Range(globals)) \ {Nil})
        inside   == {ObjectOf(v).ref : v \in others}
    IN  IF Escapes(f, ws) THEN (IF naming \cap inside # {} THEN {"inner"} ELSE {})
        ELSE {k \in {"range", "outer"} :
                 \/ k = "range" /\ naming \cap callers # {}
                 \/ k = "outer" /\ naming \cap (Range(globals) \cup inside) # {}}

PopFrame(ws) ==
    LET a == Last(metas).arena
        f == frames[a + 1]
        escape == Escapes(f, ws)
    IN  /\ IF escape /\ PlacesOf(f) # {}
           THEN Promote(PlacesOf(f), ws)
           ELSE windows' = ws /\ UNCHANGED <<heap, globals>>
        /\ EndFrame(a, IF escape THEN Without(f) ELSE Dropped(f))
        /\ metas' = Front(metas)
        /\ harm'  = harm \cup HarmOfReturn(f, ws)

----------------------------------------------------------------------------
(* The instructions.                                                       *)
Running ==
    /\ Cardinality(harm) <= HarmCap
    /\ \/ phase = "run"
       \/ phase = "host" /\ Len(windows) > 1

Top      == Len(windows)
Reg(r)   == windows[Top][r]
SetReg(r, v) == windows' = [windows EXCEPT ![Top][r] = v]

(* op_array_new, op_range_new, set_prop_slow: to the arena of the running  *)
(* frame, or to the collector (try_alloc_arena).  An object starts empty.  *)
ArenaHere == metas # <<>> /\ Fits(frames[Last(metas).arena + 1])

ArrayNew(r) ==
    /\ Running /\ made < MaxMade
    /\ made' = made + 1
    /\ IF ArenaHere
       THEN /\ AllocateObject(Last(metas).arena, [id |-> made', ref |-> Nil])
            /\ SetReg(r, [home |-> "arena", idx |-> Len(objects), obj |-> made'])
            /\ UNCHANGED heap
       ELSE /\ heap' = [id \in DOMAIN heap \cup {made'} |-> IF id = made' THEN Nil ELSE heap[id]]
            /\ SetReg(r, OnHeap(made'))
            /\ UNCHANGED regionVars
    /\ UNCHANGED <<metas, globals, phase, stored, harm>>

(* op_set_index_mut: the object that r's value finds, in place.            *)
SetIndexMut(r, s) ==
    /\ Running /\ stored < MaxStored
    /\ Reg(r) # Nil /\ ObjectOf(Reg(r)) # NoObject
    /\ IF Reg(r).home = "heap"
       THEN heap' = [heap EXCEPT ![Reg(r).obj] = Reg(s)] /\ UNCHANGED objects
       ELSE objects' = [objects EXCEPT ![Reg(r).idx + 1].ref = Reg(s)] /\ UNCHANGED heap
    /\ stored' = stored + 1
    /\ UNCHANGED <<frames, global_top, metas, windows, globals, phase, made, harm>>

(* The value of another register, of a global, or inside an object.        *)
Sources(r) == Range(globals) \cup
                (IF Reg(r) = Nil THEN {} ELSE {Reg(r), ObjectOf(Reg(r)).ref})

Load(r, s) ==
    /\ Running
    /\ \E v \in Sources(s) : v # Reg(r) /\ SetReg(r, v)
    /\ UNCHANGED <<regionVars, metas, globals, heap, phase, made, stored, harm>>

StoreGlobal(x, r) ==
    /\ Running
    /\ globals' = [globals EXCEPT ![x] = Reg(r)]
    /\ UNCHANGED <<regionVars, metas, windows, heap, phase, made, stored, harm>>

(* push_frame_with_base, for a function that gets the value of register s  *)
(* and whose result goes to r.                                             *)
Window(v) == [q \in Regs |-> IF q = 1 THEN v ELSE Nil]

Call(r, s) ==
    /\ Running /\ Len(metas) < MaxDepth
    /\ BeginFrame
    /\ metas'   = Append(metas, [arena |-> Len(frames), into |-> [window |-> Top, reg |-> r]])
    /\ windows' = Append(windows, Window(Reg(s)))
    /\ UNCHANGED <<globals, heap, phase, made, stored, harm>>

(* op_return: the result is in its register before the frame goes.         *)
Return(s) ==
    /\ Running /\ metas # <<>>
    /\ LET into == Last(metas).into
       IN  PopFrame([Front(windows) EXCEPT ![into.window][into.reg] = Reg(s)])
    /\ UNCHANGED <<phase, made, stored>>

Halt ==
    /\ phase = "run" /\ metas = <<>>
    /\ phase' = "halted"
    /\ UNCHANGED <<regionVars, metas, windows, globals, heap, made, stored, harm>>

(* An instruction of the script fails: all stays as it is.                 *)
Fail ==
    /\ phase = "run"
    /\ phase' = "failed"
    /\ UNCHANGED <<regionVars, metas, windows, globals, heap, made, stored, harm>>

----------------------------------------------------------------------------
(* The host (call_global_function).  The function's result goes to the     *)
(* script's first register.  A failed call drops its registers, and leaves *)
(* its frames and their arenas.                                            *)
HostCall ==
    /\ phase = "halted" /\ Len(metas) < MaxDepth
    /\ BeginFrame
    /\ metas'   = Append(metas, [arena |-> Len(frames), into |-> [window |-> 1, reg |-> 1]])
    /\ windows' = Append(windows, Window(Nil))
    /\ phase'   = "host"
    /\ UNCHANGED <<globals, heap, made, stored, harm>>

HostFail ==
    /\ phase = "host" /\ Len(windows) > 1
    /\ windows' = <<windows[1]>>
    /\ phase'   = "halted"
    /\ UNCHANGED <<regionVars, metas, globals, heap, made, stored, harm>>

HostDone ==
    /\ phase = "host" /\ Len(windows) = 1
    /\ phase' = "halted"
    /\ UNCHANGED <<regionVars, metas, windows, globals, heap, made, stored, harm>>

(* reset_registers_and_frames, for another script.  The globals stay.      *)

Fresh == <<[r \in Regs |-> Nil]>>

Run ==
    /\ phase \in {"halted", "failed"}
    /\ frames' = <<>> /\ objects' = <<>> /\ global_top' = 0
    /\ metas'   = <<>>
    /\ windows' = Fresh
    /\ phase'   = "run"
    /\ harm'    = harm \cup
          (IF \E v \in ReachedFrom(Range(globals) \ {Nil}) : InArena(v) THEN {"reset"} ELSE {})
    /\ UNCHANGED <<globals, heap, made, stored>>

Init ==
    /\ frames = <<>> /\ objects = <<>> /\ global_top = 0
    /\ metas = <<>> /\ windows = Fresh
    /\ globals = [x \in Vars |-> Nil]
    /\ heap = [id \in {} |-> Nil]
    /\ phase = "run"
    /\ made = 0 /\ stored = 0 /\ harm = {}

Next ==
    \/ \E r, s \in Regs : Load(r, s) \/ SetIndexMut(r, s) \/ Call(r, s)
    \/ \E r \in Regs : ArrayNew(r) \/ Return(r)
    \/ \E x \in Vars, r \in Regs : StoreGlobal(x, r)
    \/ Halt \/ Fail \/ HostCall \/ HostFail \/ HostDone \/ Run

Spec == Init /\ [][Next]_vars
----------------------------------------------------------------------------
(* The types of the state, and where each result goes.                     *)
TypeOK ==
    /\ frames \in Seq(ArenaFrameState)
    /\ \A i \in DOMAIN objects : objects[i].id \in Ids /\ objects[i].ref \in Value
    /\ global_top \in 0 .. RegionBytes
    /\ \A i \in DOMAIN metas :
         /\ metas[i].arena \in Nat /\ metas[i].into.reg \in Regs
         /\ metas[i].into.window \in Nat \ {0}
    /\ windows \in Seq([Regs -> Value]) \ {<<>>}
    /\ globals \in [Vars -> Value]
    /\ DOMAIN heap \subseteq Ids /\ \A id \in DOMAIN heap : heap[id] \in Value
    /\ phase \in {"run", "halted", "failed", "host"}
    /\ made \in 0 .. MaxMade /\ stored \in 0 .. MaxStored
    /\ harm \subseteq {"range", "outer", "inner", "reset"}

(* The frames' arenas partition the bytes and the objects, in the order of *)
(* the calls, each frame on the stack has its own, and its objects are     *)
(* where its values look for them.  So, whatever has escaped, any sequence *)
(* of returns, promotions and failed calls leaves nothing behind of the    *)
(* frames that ended and moves nothing of the others (arena.rs,            *)
(* begin_frame to end_frame; call_dispatch.rs, pop_frame).                 *)
FramesInPlace ==
    LET end(i)  == frames[i].start + frames[i].top
        objectsOf(i) == [k \in 1 .. frames[i].obj_count |->
                            IF frames[i].obj_start + k \in DOMAIN objects
                            THEN objects[frames[i].obj_start + k].id ELSE 0]
    IN  /\ [i \in DOMAIN metas |-> metas[i].arena] = [i \in DOMAIN frames |-> i - 1]
        /\ \A i \in DOMAIN frames :
             /\ frames[i].start = IF i = 1 THEN 0 ELSE end(i - 1)
             /\ objectsOf(i) = frames[i].made
        /\ global_top = IF frames = <<>> THEN 0 ELSE end(Len(frames))
        /\ \A k \in DOMAIN objects : \E i \in DOMAIN frames :
             k - frames[i].obj_start \in 1 .. frames[i].obj_count

(* A value that the program can reach finds the object it was made for,    *)
(* unless one of the four things in HarmOfReturn and Run has happened.     *)
KeptUnlessHarmed == harm = {} => \A v \in Live : Finds(v)

(* "Detects whether an arena object escapes to an outer frame" (call_      *)
(* dispatch.rs): a value that a function returns finds its object.  It     *)
(* need not.                                                               *)
ReturnedFind == [][\A s \in Regs :
    Return(s) /\ Reg(s) # Nil /\ Finds(Reg(s)) =>
        \A into \in {Last(metas).into} : Finds(windows[into.window][into.reg])']_vars

(* "Promotes the objects of the frame and rewrites every value that        *)
(* references them" (call_dispatch.rs): nothing that can be reached names  *)
(* the old place of a promoted object.  It may, inside another object.     *)
AllRewritten == \A v \in Live : InArena(v) => v.obj \notin DOMAIN heap
=============================================================================

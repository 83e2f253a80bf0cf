----------------------------- MODULE ArenaProofs -----------------------------
(***************************************************************************)
(* The arenas of the frames stay in place, for every size of object, frame  *)
(* and region, every number of registers and globals, and every sequence    *)
(* of calls, returns, promotions and failed calls of the host; and what     *)
(* the program reaches is lost in no other way than those that harm lists.  *)
(*                                                                         *)
(* Inv is inductive: the types, how many windows and frames there are, and  *)
(* that the frames partition the bytes (Bytes) and the objects (Placed)     *)
(* in the order of the calls.                                              *)
(***************************************************************************)
EXTENDS Arena, FunctionTheorems, FiniteSetTheorems, SequenceTheorems, WellFoundedInduction, TLAPS

Object == [id : Ids, ref : Value]
Into   == [window : Nat \ {0}, reg : Regs]
Meta   == [arena : Nat, into : Into]

\* The values there can be: one that names an object of the heap finds it.
Held == {v \in Value : v # Nil /\ v.home = "heap" => v.obj \in DOMAIN heap}

Contents ==
  /\ objects \in Seq([id : Ids, ref : Held])
  /\ windows \in Seq([Regs -> Held])
  /\ globals \in [Vars -> Held]
  /\ heap \in [DOMAIN heap -> Held]
  /\ DOMAIN heap \subseteq 1 .. made

Control ==
  /\ frames \in Seq(ArenaFrameState)
  /\ metas \in Seq(Meta)
  /\ phase \in {"run", "halted", "failed", "host"}
  /\ made \in 0 .. MaxMade /\ stored \in 0 .. MaxStored
  /\ harm \subseteq {"range", "outer", "inner", "reset"}

\* A failed call of the host leaves its frames and drops its windows.
Depths ==
  /\ Len(metas) = Len(frames)
  /\ \A i \in 1 .. Len(metas) : metas[i].arena = i - 1
  /\ phase \in {"run", "failed"} => Len(windows) = Len(metas) + 1
  /\ phase = "host" => Len(windows) >= 1 /\ Len(windows) <= Len(metas) + 1
  /\ phase = "halted" => Len(windows) = 1

End(fs, i) == IF i = 0 THEN 0 ELSE fs[i].start + fs[i].top

\* The bytes of the frames stand one above the other.
Bytes(fs, top) ==
  /\ \A i \in 1 .. Len(fs) : fs[i].start = End(fs, i - 1)
  /\ top = End(fs, Len(fs)) /\ top <= RegionBytes

\* So do their objects, and every object is of a frame.
Placed(fs, os) ==
  /\ \A i \in 1 .. Len(fs) :
       /\ fs[i].obj_start + fs[i].obj_count <= Len(os)
       /\ Len(fs[i].made) = fs[i].obj_count
       /\ \A k \in 1 .. fs[i].obj_count : os[fs[i].obj_start + k].id = fs[i].made[k]
  /\ \A i, j \in 1 .. Len(fs) : i < j => fs[i].obj_start + fs[i].obj_count <= fs[j].obj_start
  /\ \A k \in 1 .. Len(os) :
       \E i \in 1 .. Len(fs) : fs[i].obj_start < k /\ k <= fs[i].obj_start + fs[i].obj_count

\* No two objects have one number, and none is in the arena and on the heap.
Numbered ==
  /\ Len(objects) <= made
  /\ \A k \in 1 .. Len(objects) : objects[k].id \in 1 .. made /\ objects[k].id \notin DOMAIN heap
  /\ \A j, k \in 1 .. Len(objects) : j # k => objects[j].id # objects[k].id

Inv == Contents /\ Control /\ Depths /\ Bytes(frames, global_top) /\ Placed(frames, objects) /\ Numbered

USE ArenaAssumption

-----------------------------------------------------------------------------
(* Types                                                                   *)

\* What a value finds.
LEMMA ObjectOfType ==
  ASSUME Contents, NEW v \in Held, v # Nil
  PROVE  /\ ObjectOf(v).ref \in Held /\ Nil \in Held /\ v \in Named
         /\ v.home = "heap" => ObjectOf(v) = [id |-> v.obj, ref |-> heap[v.obj]]
         /\ v.home # "heap" => /\ v.home = "arena" /\ v.idx \in Nat
                               /\ v.idx < Len(objects) => /\ v.idx + 1 \in 1 .. Len(objects)
                                                          /\ ObjectOf(v) = objects[v.idx + 1]
                               /\ ~(v.idx < Len(objects)) => ObjectOf(v) = NoObject
         /\ ObjectOf(v).id = v.obj => v.home = "heap" \/ v.idx < Len(objects)
<1>1. v \in Named /\ Nil \in Held /\ v.idx \in Nat /\ v.obj \in Nat /\ v.obj # 0
      /\ v.home \in {"arena", "heap"}
  BY DEF Held, Value, Named, Ids
<1>2. CASE v.home = "heap"
  <2>1. v.obj \in DOMAIN heap
    BY <1>2 DEF Held
  <2>2. heap[v.obj] \in Held
    BY <2>1 DEF Contents
  <2> QED
    BY <1>1, <1>2, <2>2 DEF ObjectOf
<1>3. CASE v.home # "heap" /\ v.idx < Len(objects)
  <2>1. Len(objects) \in Nat /\ v.idx + 1 \in 1 .. Len(objects)
    BY <1>1, <1>3, LenProperties, SMTT(30) DEF Contents
  <2>2. objects[v.idx + 1] \in [id : Ids, ref : Held]
    BY <2>1, ElementOfSeq DEF Contents
  <2> QED
    BY <1>1, <1>3, <2>1, <2>2 DEF ObjectOf
<1>4. CASE v.home # "heap" /\ ~(v.idx < Len(objects))
  BY <1>1, <1>4 DEF ObjectOf, NoObject
<1> QED
  BY <1>2, <1>3, <1>4

\* The heap only grows, so what was a value remains one.
LEMMA HeldStays ==
  ASSUME DOMAIN heap \subseteq DOMAIN heap'
  PROVE  Held \subseteq Held'
  BY DEF Held

\* A register of the running code.
LEMMA RegType ==
  ASSUME Contents, windows # <<>>, NEW r \in Regs
  PROVE  Reg(r) \in Held /\ Top \in 1 .. Len(windows) /\ Len(windows) \in Nat
         /\ windows[Top] \in [Regs -> Held]
<1>1. Len(windows) \in Nat /\ Len(windows) > 0
  BY EmptySeq, LenProperties DEF Contents
<1>2. windows[Top] \in [Regs -> Held]
  BY <1>1, ElementOfSeq DEF Top, Contents
<1> QED
  BY <1>1, <1>2 DEF Top, Reg

\* Another value in a register.
LEMMA SetRegType ==
  ASSUME windows \in Seq([Regs -> Held]), windows # <<>>, Held \subseteq Held',
         NEW r \in Regs, NEW v \in Held', SetReg(r, v)
  PROVE  windows' \in Seq([Regs -> Held']) /\ Len(windows') = Len(windows)
<1>1. windows \in Seq([Regs -> Held'])
  BY SeqMonotonic
<1>2. Len(windows) \in Nat /\ Top \in 1 .. Len(windows)
  BY EmptySeq, LenProperties DEF Top
<1>3. windows[Top] \in [Regs -> Held']
  BY <1>1, <1>2, ElementOfSeq
<1>4. windows' = [windows EXCEPT ![Top] = [windows[Top] EXCEPT ![r] = v]]
  BY DEF SetReg
<1> QED
  BY <1>1, <1>2, <1>3, <1>4, ExceptSeq

-----------------------------------------------------------------------------
(* The actions                                                             *)

LEMMA InitInv == Init => Inv
<1> SUFFICES ASSUME Init
             PROVE  Inv
  OBVIOUS
<1> USE DEF Init
<1>1. Nil \in Held
  BY DEF Held, Value
<1>2. Contents
  <2>1. [r \in Regs |-> Nil] \in [Regs -> Held]
    BY <1>1
  <2> QED
    BY <1>1, <2>1, EmptySeq DEF Contents, Fresh
<1>3. Control /\ Depths
  BY EmptySeq DEF Control, Depths, Fresh
<1>4. Bytes(frames, global_top) /\ Placed(frames, objects) /\ Numbered
  BY EmptySeq DEF Bytes, Placed, Numbered, End
<1> QED
  BY <1>2, <1>3, <1>4 DEF Inv

\* A step that leaves arenas and heap alone.
LEMMA ApartInv ==
  ASSUME Inv, UNCHANGED <<regionVars, heap, made, metas, stored, harm>>,
         windows' \in Seq([Regs -> Held]), globals' \in [Vars -> Held],
         phase' \in {"run", "halted", "failed", "host"}, Depths'
  PROVE  Inv'
<1>1. Held' = Held
  BY DEF Held
<1>2. Contents'
  BY <1>1 DEF Inv, Contents, regionVars
<1>3. Control'
  BY DEF Inv, Control, regionVars
<1>4. Bytes(frames, global_top)' /\ Placed(frames, objects)' /\ Numbered'
  BY DEF Inv, Bytes, End, Placed, Numbered, regionVars
<1> QED
  BY <1>2, <1>3, <1>4 DEF Inv

LEMMA ApartSteps ==
  ASSUME Inv,
         \/ \E r, s \in Regs : Load(r, s)
         \/ \E x \in Vars, r \in Regs : StoreGlobal(x, r)
         \/ Halt \/ Fail \/ HostFail \/ HostDone
  PROVE  Inv'
<1> USE DEF Inv
<1>1. /\ windows \in Seq([Regs -> Held]) /\ globals \in [Vars -> Held] /\ Len(windows) \in Nat
      /\ phase \in {"run", "halted", "failed", "host"}
      /\ Len(metas) \in Nat
  BY LenProperties DEF Contents, Control
<1>2. ASSUME phase \in {"run", "host"}
      PROVE  windows # <<>>
  BY <1>1, <1>2, EmptySeq DEF Depths
<1>3. Nil \in Held /\ (heap' = heap => Held' = Held)
  BY DEF Held, Value
<1>4. ASSUME NEW r \in Regs, NEW s \in Regs, Load(r, s)
      PROVE  Inv'
  <2>1. windows # <<>>
    BY <1>2, <1>4 DEF Load, Running
  <2>2. PICK v \in Sources(s) : SetReg(r, v)
    BY <1>4 DEF Load
  <2>3. Reg(s) \in Held
    BY <2>1, RegType
  <2>4. Range(globals) \subseteq Held
    BY <1>1 DEF Range
  <2>5. v \in Held
    BY <2>2, <2>3, <2>4, ObjectOfType DEF Sources
  <2>6. UNCHANGED <<regionVars, metas, globals, heap, phase, made, stored, harm>>
    BY <1>4 DEF Load
  <2>7. windows' \in Seq([Regs -> Held]) /\ Len(windows') = Len(windows)
    BY <1>1, <1>3, <2>1, <2>2, <2>5, <2>6, SetRegType
  <2>8. Depths'
    BY <2>6, <2>7 DEF Depths, regionVars
  <2> QED
    BY <1>1, <2>6, <2>7, <2>8, ApartInv
<1>5. ASSUME NEW x \in Vars, NEW r \in Regs, StoreGlobal(x, r)
      PROVE  Inv'
  <2>1. windows # <<>>
    BY <1>2, <1>5 DEF StoreGlobal, Running
  <2>2. Reg(r) \in Held
    BY <2>1, RegType
  <2>3. globals' \in [Vars -> Held]
    BY <1>1, <1>5, <2>2 DEF StoreGlobal
  <2>4. UNCHANGED <<regionVars, metas, windows, heap, phase, made, stored, harm>>
    BY <1>5 DEF StoreGlobal
  <2>5. Depths'
    BY <2>4 DEF Depths, regionVars
  <2> QED
    BY <1>1, <2>3, <2>4, <2>5, ApartInv
<1>6. CASE Halt \/ Fail
  <2>1. UNCHANGED <<regionVars, metas, windows, globals, heap, made, stored, harm>>
    BY <1>6 DEF Halt, Fail
  <2>2. phase = "run" /\ (phase' = "failed" \/ (phase' = "halted" /\ metas = <<>>))
    BY <1>6 DEF Halt, Fail
  <2>3. Depths'
    BY <2>1, <2>2, EmptySeq, <1>1 DEF Depths, regionVars
  <2> QED
    BY <1>1, <2>1, <2>2, <2>3, ApartInv
<1>7. CASE HostFail
  <2>1. UNCHANGED <<regionVars, metas, globals, heap, made, stored, harm>>
        /\ windows' = <<windows[1]>> /\ phase' = "halted" /\ Len(windows) > 1
    BY <1>7 DEF HostFail
  <2>2. windows' \in Seq([Regs -> Held]) /\ Len(windows') = 1
    <3>1. windows[1] \in [Regs -> Held]
      BY <1>1, <2>1, ElementOfSeq
    <3> QED
      BY <2>1, <3>1
  <2>3. Depths'
    BY <2>1, <2>2 DEF Depths, regionVars
  <2> QED
    BY <1>1, <2>1, <2>2, <2>3, ApartInv
<1>8. CASE HostDone
  <2>1. UNCHANGED <<regionVars, metas, windows, globals, heap, made, stored, harm>>
        /\ phase' = "halted" /\ Len(windows) = 1
    BY <1>8 DEF HostDone
  <2>2. Depths'
    BY <2>1 DEF Depths, regionVars
  <2> QED
    BY <1>1, <2>1, <2>2, ApartInv
<1> QED
  BY <1>4, <1>5, <1>6, <1>7, <1>8

\* begin_frame: an empty frame on top.
LEMMA BeginFrameInv ==
  ASSUME Inv, BeginFrame
  PROVE  /\ frames' \in Seq(ArenaFrameState) /\ Len(frames') = Len(frames) + 1
         /\ Bytes(frames', global_top') /\ Placed(frames', objects')
<1> USE DEF Inv
<1> DEFINE f == [start |-> global_top, top |-> 0, obj_start |-> Len(objects),
                 obj_count |-> 0, made |-> <<>>]
           n == Len(frames)
<1>1. /\ frames \in Seq(ArenaFrameState) /\ n \in Nat /\ Len(objects) \in Nat
      /\ \A i \in 1 .. n : frames[i] \in ArenaFrameState
  BY LenProperties, ElementOfSeq DEF Control, Contents
<1>2. frames' = Append(frames, f) /\ UNCHANGED <<objects, global_top>>
  BY DEF BeginFrame
<1>3. global_top \in Nat
  <2>1. CASE n = 0
    BY <2>1 DEF Bytes, End
  <2>2. CASE n # 0
    <3>1. frames[n] \in ArenaFrameState
      BY <1>1, <2>2
    <3> QED
      BY <2>2, <3>1 DEF Bytes, End, ArenaFrameState
  <2> QED
    BY <2>1, <2>2
<1>4. f \in ArenaFrameState
  BY <1>1, <1>3, EmptySeq DEF ArenaFrameState
<1> HIDE DEF f
<1>5. /\ frames' \in Seq(ArenaFrameState) /\ Len(frames') = n + 1 /\ frames'[n + 1] = f
      /\ \A i \in 1 .. n : frames'[i] = frames[i]
  BY <1>1, <1>2, <1>4, AppendProperties
<1>6. /\ f.start = global_top /\ f.top = 0 /\ f.obj_start = Len(objects) /\ f.obj_count = 0
      /\ f.made = <<>>
  BY DEF f
<1>7. Bytes(frames', global_top')
  <2>1. \A i \in 0 .. n : End(frames', i) = End(frames, i)
    BY <1>1, <1>5 DEF End
  <2>2. \A i \in 1 .. n : frames'[i].start = End(frames', i - 1)
    BY <1>1, <1>5, <2>1 DEF Bytes
  <2>3. frames'[n + 1].start = End(frames', n)
    BY <1>1, <1>5, <1>6, <2>1 DEF Bytes
  <2>4. End(frames', n + 1) = global_top
    BY <1>1, <1>3, <1>5, <1>6 DEF End
  <2> QED
    BY <1>1, <1>2, <1>5, <2>2, <2>3, <2>4 DEF Bytes
<1>8. Placed(frames', objects')
  <2>1. \A i \in 1 .. n + 1 : i = n + 1 \/ i \in 1 .. n
    BY <1>1
  <2>2. \A i \in 1 .. n : frames[i].obj_start \in Nat /\ frames[i].obj_count \in Nat
    BY <1>1 DEF ArenaFrameState
  <2>3. \A i \in 1 .. n + 1 :
         /\ frames'[i].obj_start + frames'[i].obj_count <= Len(objects)
         /\ Len(frames'[i].made) = frames'[i].obj_count
         /\ \A k \in 1 .. frames'[i].obj_count :
               objects[frames'[i].obj_start + k].id = frames'[i].made[k]
    <3> SUFFICES ASSUME NEW i \in 1 .. n + 1
                 PROVE  /\ frames'[i].obj_start + frames'[i].obj_count <= Len(objects)
                        /\ Len(frames'[i].made) = frames'[i].obj_count
                        /\ \A k \in 1 .. frames'[i].obj_count :
                              objects[frames'[i].obj_start + k].id = frames'[i].made[k]
      OBVIOUS
    <3>1. CASE i = n + 1
      BY <3>1, <1>1, <1>5, <1>6, EmptySeq
    <3>2. CASE i \in 1 .. n
      BY <3>2, <1>5 DEF Placed
    <3> QED
      BY <2>1, <3>1, <3>2
  <2>4. \A i, j \in 1 .. n + 1 : i < j =>
           frames'[i].obj_start + frames'[i].obj_count <= frames'[j].obj_start
    <3> SUFFICES ASSUME NEW i \in 1 .. n + 1, NEW j \in 1 .. n + 1, i < j
                 PROVE  frames'[i].obj_start + frames'[i].obj_count <= frames'[j].obj_start
      OBVIOUS
    <3>1. i \in 1 .. n
      BY <1>1
    <3>2. CASE j = n + 1
      BY <3>1, <3>2, <1>5, <1>6 DEF Placed
    <3>3. CASE j \in 1 .. n
      BY <3>1, <3>3, <1>5 DEF Placed
    <3> QED
      BY <2>1, <3>2, <3>3
  <2>5. \A k \in 1 .. Len(objects) : \E i \in 1 .. n :
           frames[i].obj_start < k /\ k <= frames[i].obj_start + frames[i].obj_count
    BY DEF Placed
  <2>6. \A k \in 1 .. Len(objects) : \E i \in 1 .. n + 1 :
           frames'[i].obj_start < k /\ k <= frames'[i].obj_start + frames'[i].obj_count
    <3> SUFFICES ASSUME NEW k \in 1 .. Len(objects)
                 PROVE  \E i \in 1 .. n + 1 : /\ frames'[i].obj_start < k
                                              /\ k <= frames'[i].obj_start + frames'[i].obj_count
      OBVIOUS
    <3>1. PICK i \in 1 .. n : frames[i].obj_start < k /\ k <= frames[i].obj_start + frames[i].obj_count
      BY <2>5
    <3>2. i \in 1 .. n + 1
      BY <1>1
    <3> QED
      BY <3>1, <3>2, <1>5
  <2> QED
    BY <1>2, <1>5, <2>3, <2>4, <2>6 DEF Placed
<1> QED
  BY <1>5, <1>7, <1>8

LEMMA CallSteps ==
  ASSUME Inv, (\E r, s \in Regs : Call(r, s)) \/ HostCall
  PROVE  Inv'
<1> USE DEF Inv
<1>1. PICK into \in Into, v \in Held :
        /\ metas' = Append(metas, [arena |-> Len(frames), into |-> into])
        /\ windows' = Append(windows, Window(v))
  <2>1. ASSUME NEW r \in Regs, NEW s \in Regs, Call(r, s)
        PROVE  \E into \in Into, v \in Held :
                 /\ metas' = Append(metas, [arena |-> Len(frames), into |-> into])
                 /\ windows' = Append(windows, Window(v))
    <3>1. windows # <<>>
      <4>1. Len(metas) \in Nat
        BY LenProperties DEF Control
      <4> QED
        BY <2>1, <4>1, EmptySeq DEF Call, Running, Depths
    <3>2. Reg(s) \in Held /\ Top \in Nat \ {0}
      BY <3>1, RegType
    <3>3. [window |-> Top, reg |-> r] \in Into
      BY <3>2 DEF Into
    <3> QED
      BY <2>1, <3>2, <3>3 DEF Call
  <2>2. CASE HostCall
    <3>1. 1 \in Regs
      BY DEF Regs
    <3>2. [window |-> 1, reg |-> 1] \in Into /\ Nil \in Held
      BY <3>1 DEF Into, Held, Value
    <3> QED
      BY <2>2, <3>2 DEF HostCall
  <2> QED
    BY <2>1, <2>2
<1>2. /\ BeginFrame /\ UNCHANGED <<globals, heap, made, stored, harm>>
      /\ phase' \in {"run", "host"}
      /\ \/ phase \in {"run", "host"} /\ phase' = phase
         \/ phase = "halted" /\ phase' = "host"
  BY DEF Call, HostCall, Running
<1>3. /\ frames' \in Seq(ArenaFrameState) /\ Len(frames') = Len(frames) + 1
      /\ Bytes(frames', global_top') /\ Placed(frames', objects')
  BY <1>2, BeginFrameInv
<1>4. Held' = Held /\ Nil \in Held /\ UNCHANGED objects
  BY <1>2 DEF Held, Value, BeginFrame
<1>5. Window(v) \in [Regs -> Held]
  BY <1>4 DEF Window
<1>6. /\ windows \in Seq([Regs -> Held]) /\ metas \in Seq(Meta) /\ Len(frames) \in Nat
      /\ Len(windows) \in Nat /\ Len(metas) \in Nat
  BY LenProperties DEF Contents, Control
<1>7. windows' \in Seq([Regs -> Held]) /\ Len(windows') = Len(windows) + 1
  BY <1>1, <1>5, <1>6, AppendProperties
<1>8. /\ metas' \in Seq(Meta) /\ Len(metas') = Len(metas) + 1
      /\ \A i \in 1 .. Len(metas) : metas'[i] = metas[i]
      /\ metas'[Len(metas) + 1].arena = Len(frames)
  <2> DEFINE m == [arena |-> Len(frames), into |-> into]
  <2>1. m \in Meta /\ m.arena = Len(frames)
    BY <1>6 DEF Meta
  <2> HIDE DEF m
  <2>2. metas' = Append(metas, m)
    BY <1>1 DEF m
  <2> QED
    BY <1>6, <2>1, <2>2, AppendProperties
<1>9. Depths'
  <2>1. \A i \in 1 .. Len(metas) + 1 : i = Len(metas) + 1 \/ i \in 1 .. Len(metas)
    BY <1>6
  <2>2. \A i \in 1 .. Len(metas) + 1 : metas'[i].arena = i - 1
    BY <1>6, <1>8, <2>1 DEF Depths
  <2> QED
    BY <1>2, <1>3, <1>6, <1>7, <1>8, <2>2 DEF Depths
<1>10. Contents'
  BY <1>2, <1>4, <1>7 DEF Contents
<1>11. Control'
  BY <1>2, <1>3, <1>8 DEF Control
<1>12. Numbered'
  BY <1>2, <1>4 DEF Numbered
<1> QED
  BY <1>3, <1>9, <1>10, <1>11, <1>12

\* allocate_object: a new object, in the frame on top.
LEMMA AllocateInv ==
  ASSUME Inv, metas # <<>>, NEW obj \in [id : Ids, ref : Held],
         AllocateObject(Last(metas).arena, obj)
  PROVE  /\ Len(frames) \in Nat \ {0} /\ Last(metas).arena + 1 = Len(frames)
         /\ frames' \in Seq(ArenaFrameState) /\ Len(frames') = Len(frames)
         /\ Bytes(frames', global_top') /\ Placed(frames', objects')
<1> USE DEF Inv
<1> DEFINE n == Len(frames)
           f == frames[n]
           g == [f EXCEPT !.top = f.top + ObjSize, !.obj_start = FirstObject(f),
                          !.obj_count = f.obj_count + 1, !.made = Append(f.made, obj.id)]
           m == Len(objects)
<1>1. /\ frames \in Seq(ArenaFrameState) /\ metas \in Seq(Meta) /\ Len(metas) = n
      /\ objects \in Seq([id : Ids, ref : Held]) /\ n \in Nat /\ m \in Nat
      /\ \A i \in 1 .. n : frames[i] \in ArenaFrameState
  BY LenProperties, ElementOfSeq DEF Control, Contents, Depths
<1>2. n \in Nat \ {0} /\ Last(metas).arena + 1 = n
  <2>1. n # 0
    BY <1>1, EmptySeq
  <2>2. Last(metas).arena = n - 1
    BY <1>1, <2>1 DEF Last, Depths
  <2> QED
    BY <1>1, <2>1, <2>2
<1>3. /\ f \in ArenaFrameState
      /\ f.start \in Nat /\ f.top \in Nat /\ f.obj_start \in Nat /\ f.obj_count \in Nat
      /\ f.made \in Seq(Ids)
  BY <1>1, <1>2, SMTT(30) DEF ArenaFrameState
<1>4. /\ frames' = [frames EXCEPT ![n] = g] /\ Fits(f)
      /\ objects' = Append(objects, obj)
      /\ global_top' = f.start + f.top + ObjSize
  BY <1>2 DEF AllocateObject
<1>5. /\ g \in ArenaFrameState
      /\ g.start = f.start /\ g.top = f.top + ObjSize /\ g.obj_start = FirstObject(f)
      /\ g.obj_count = f.obj_count + 1 /\ g.made = Append(f.made, obj.id)
  <2> DEFINE t == f.top + ObjSize
             o == FirstObject(f)
             c == f.obj_count + 1
             ids == Append(f.made, obj.id)
  <2>1. o \in Nat
    BY <1>1, <1>3 DEF FirstObject
  <2>2. ids \in Seq(Ids)
    BY <1>3, AppendProperties
  <2>3. t \in Nat /\ c \in Nat
    BY <1>3
  <2>4. g = [f EXCEPT !.top = t, !.obj_start = o, !.obj_count = c, !.made = ids]
    OBVIOUS
  <2>5. f \in ArenaFrameState
    BY <1>3
  <2> HIDE DEF f, g, t, o, c, ids
  <2>6. /\ g \in ArenaFrameState /\ g.start = f.start /\ g.top = t /\ g.obj_start = o
        /\ g.obj_count = c /\ g.made = ids
    BY <2>1, <2>2, <2>3, <2>4, <2>5 DEF ArenaFrameState
  <2> QED
    BY <2>6 DEF t, o, c, ids
<1> HIDE DEF g, f, n, m
<1>n. n \in Nat /\ n # 0 /\ m \in Nat
  BY <1>1, <1>2
<1>6. /\ frames' \in Seq(ArenaFrameState) /\ Len(frames') = n /\ frames'[n] = g
      /\ \A i \in 1 .. n : i # n => frames'[i] = frames[i]
  BY <1>1, <1>2, <1>4, <1>5, ExceptSeq, SMTT(30) DEF n
<1>7. /\ Len(objects') = m + 1 /\ objects'[m + 1] = obj
      /\ \A k \in 1 .. m : objects'[k] = objects[k]
  BY <1>1, <1>4, AppendProperties DEF m
<1>8. Bytes(frames', global_top')
  <2>1. \A i \in 0 .. n - 1 : End(frames', i) = End(frames, i)
    BY <1>1, <1>2, <1>6, SMTT(30) DEF End
  <2>2. \A i \in 1 .. n : frames'[i].start = frames[i].start
    BY <1>5, <1>6 DEF f
  <2>3. \A i \in 1 .. n : frames'[i].start = End(frames', i - 1)
    BY <1>1, <1>2, <2>1, <2>2 DEF Bytes, n
  <2>4. global_top' = End(frames', n)
    <3>1. End(frames', n) = g.start + g.top
      BY <1>n, <1>6 DEF End
    <3> QED
      BY <1>3, <1>4, <1>5, <3>1
  <2>5. global_top' <= RegionBytes
    BY <1>4 DEF Fits
  <2> QED
    BY <1>6, <2>3, <2>4, <2>5 DEF Bytes
<1>9. \A i \in 1 .. n : /\ frames[i].obj_start \in Nat /\ frames[i].obj_count \in Nat
                        /\ frames[i].obj_start + frames[i].obj_count <= m
  BY <1>1 DEF ArenaFrameState, Placed, n, m
<1>k. f.obj_start + f.obj_count <= m
  BY <1>n, <1>9 DEF f
<1>10. f.obj_count # 0 => f.obj_start + f.obj_count = m
  <2>1. SUFFICES ASSUME f.obj_count # 0, f.obj_start + f.obj_count < m
                 PROVE  FALSE
    BY <1>n, <1>3, <1>k
  <2>2. m \in 1 .. m
    BY <1>n, <1>3, <2>1
  <2>3. PICK i \in 1 .. n : frames[i].obj_start < m /\ m <= frames[i].obj_start + frames[i].obj_count
    BY <2>2 DEF Placed, n, m
  <2>4. CASE i = n
    <3>1. m <= f.obj_start + f.obj_count
      BY <2>3, <2>4 DEF f
    <3> QED
      BY <2>1, <3>1, <1>n, <1>3
  <2>5. CASE i # n
    <3>1. i < n
      BY <1>n, <2>5
    <3>2. frames[i].obj_start + frames[i].obj_count <= f.obj_start
      BY <3>1, <1>2 DEF Placed, n, f
    <3>3. frames[i].obj_start \in Nat /\ frames[i].obj_count \in Nat
      BY <1>9
    <3> QED
      BY <3>2, <3>3, <2>1, <2>3, <1>n, <1>3
  <2> QED
    BY <2>4, <2>5
<1>11. g.obj_start + g.obj_count = m + 1 /\ (f.obj_count # 0 => g.obj_start = f.obj_start)
       /\ (f.obj_count = 0 => g.obj_start = m)
  <2>1. FirstObject(f) = IF f.obj_count = 0 THEN m ELSE f.obj_start
    BY DEF FirstObject, m
  <2> QED
    <3>1. CASE f.obj_count = 0
      BY <3>1, <2>1, <1>n, <1>5
    <3>2. CASE f.obj_count # 0
      <4>1. g.obj_start = f.obj_start /\ g.obj_count = f.obj_count + 1
        BY <3>2, <2>1, <1>5
      <4>2. f.obj_start + f.obj_count = m
        BY <3>2, <1>10
      <4>3. f.obj_start \in Nat /\ f.obj_count \in Nat
        BY <1>3
      <4> QED
        BY <3>2, <4>1, <4>2, <4>3
    <3> QED
      BY <3>1, <3>2
<1>12. Placed(frames', objects')
  <2>1. \A i \in 1 .. n :
         /\ frames'[i].obj_start + frames'[i].obj_count <= m + 1
         /\ Len(frames'[i].made) = frames'[i].obj_count
         /\ \A k \in 1 .. frames'[i].obj_count :
               objects'[frames'[i].obj_start + k].id = frames'[i].made[k]
    <3> SUFFICES ASSUME NEW i \in 1 .. n
                 PROVE  /\ frames'[i].obj_start + frames'[i].obj_count <= m + 1
                        /\ Len(frames'[i].made) = frames'[i].obj_count
                        /\ \A k \in 1 .. frames'[i].obj_count :
                              objects'[frames'[i].obj_start + k].id = frames'[i].made[k]
      OBVIOUS
    <3>1. /\ Len(frames[i].made) = frames[i].obj_count
          /\ \A k \in 1 .. frames[i].obj_count :
                objects[frames[i].obj_start + k].id = frames[i].made[k]
      BY DEF Placed, n
    <3>2. ASSUME NEW k \in 1 .. frames[i].obj_count
          PROVE  objects'[frames[i].obj_start + k].id = frames[i].made[k]
      <4>1. frames[i].obj_start + k \in 1 .. m
        BY <1>1, <1>9, SMTT(30)
      <4> QED
        BY <3>1, <4>1, <1>7
    <3>3. CASE i # n
      <4>1. frames[i].obj_start + frames[i].obj_count <= m + 1
        BY <1>n, <1>9
      <4> QED
        BY <3>1, <3>2, <3>3, <4>1, <1>6
    <3>4. CASE i = n
      <4>1. Len(g.made) = f.obj_count + 1 /\ g.made[f.obj_count + 1] = obj.id
            /\ \A k \in 1 .. f.obj_count : g.made[k] = f.made[k]
        BY <3>1, <3>4, <1>3, <1>5, AppendProperties DEF f
      <4>2. ASSUME NEW k \in 1 .. f.obj_count + 1
            PROVE  objects'[g.obj_start + k].id = g.made[k]
        <5>1. CASE k = f.obj_count + 1
          BY <5>1, <4>1, <1>7, <1>11, <1>5
        <5>2. CASE k # f.obj_count + 1
          <6>1. k \in 1 .. f.obj_count /\ f.obj_count # 0
            BY <5>2, <1>3
          <6> QED
            BY <6>1, <4>1, <3>2, <3>4, <1>11 DEF f
        <5> QED
          BY <5>1, <5>2
      <4> QED
        BY <3>4, <4>1, <4>2, <1>5, <1>6, <1>11, <1>n, SMTT(30)
    <3> QED
      BY <3>3, <3>4
  <2>2. \A i, j \in 1 .. n : i < j =>
           frames'[i].obj_start + frames'[i].obj_count <= frames'[j].obj_start
    <3> SUFFICES ASSUME NEW i \in 1 .. n, NEW j \in 1 .. n, i < j
                 PROVE  frames'[i].obj_start + frames'[i].obj_count <= frames'[j].obj_start
      OBVIOUS
    <3>1. i # n /\ frames'[i] = frames[i]
      BY <1>2, <1>6
    <3>2. frames[i].obj_start + frames[i].obj_count <= frames[j].obj_start
      BY DEF Placed, n
    <3>3. CASE j # n
      BY <3>1, <3>2, <3>3, <1>6
    <3>4. CASE j = n
      BY <3>1, <3>2, <3>4, <1>6, <1>9, <1>11 DEF f
    <3> QED
      BY <3>3, <3>4
  <2>3. \A k \in 1 .. m + 1 : \E i \in 1 .. n :
           frames'[i].obj_start < k /\ k <= frames'[i].obj_start + frames'[i].obj_count
    <3> SUFFICES ASSUME NEW k \in 1 .. m + 1
                 PROVE  \E i \in 1 .. n : /\ frames'[i].obj_start < k
                                          /\ k <= frames'[i].obj_start + frames'[i].obj_count
      OBVIOUS
    <3>1. CASE k = m + 1
      <4>1. g.obj_start <= m
        BY <1>n, <1>k, <1>11, <1>3
      <4>2. n \in 1 .. n /\ m + 1 <= g.obj_start + g.obj_count /\ g.obj_start < m + 1
        BY <4>1, <1>n, <1>11, <1>3, <1>5, <1>10
      <4> QED
        BY <3>1, <4>2, <1>6
    <3>2. CASE k # m + 1
      <4>1. k \in 1 .. m
        BY <3>2, <1>1
      <4>2. PICK i \in 1 .. n : frames[i].obj_start < k /\ k <= frames[i].obj_start + frames[i].obj_count
        BY <4>1 DEF Placed, n, m
      <4>3. CASE i # n
        BY <4>2, <4>3, <1>6
      <4>4. CASE i = n
        <5>1. f.obj_count # 0
          BY <4>1, <4>2, <4>4, <1>3 DEF f
        <5> QED
          BY <5>1, <4>1, <4>2, <4>4, <1>3, <1>5, <1>6, <1>11 DEF f
      <4> QED
        BY <4>3, <4>4
    <3> QED
      BY <3>1, <3>2
  <2> QED
    BY <1>6, <1>7, <2>1, <2>2, <2>3 DEF Placed
<1> QED
  BY <1>2, <1>6, <1>8, <1>12 DEF n

LEMMA ArrayNewInv ==
  ASSUME Inv, NEW r \in Regs, ArrayNew(r)
  PROVE  Inv'
<1> USE DEF Inv
<1> DEFINE new == made + 1
<1>1. /\ new \in Ids /\ made \in Nat /\ new \notin DOMAIN heap /\ Nil \in Held
      /\ made' = new /\ new <= MaxMade /\ made < MaxMade
  BY SMTT(30) DEF ArrayNew, Contents, Control, Ids, Held, Value
<1>2. UNCHANGED <<metas, globals, phase, stored, harm>>
  BY DEF ArrayNew
<1>3. /\ objects \in Seq([id : Ids, ref : Held]) /\ windows \in Seq([Regs -> Held])
      /\ Len(objects) \in Nat /\ Len(windows) \in Nat /\ Len(metas) \in Nat
      /\ globals \in [Vars -> Held] /\ heap \in [DOMAIN heap -> Held] /\ DOMAIN heap \subseteq 1 .. made
      /\ Len(objects) <= made
  BY LenProperties DEF Contents, Control, Numbered
<1>4. windows # <<>>
  BY <1>3, EmptySeq DEF ArrayNew, Running, Depths
<1>5. CASE ArenaHere
  <2> DEFINE obj == [id |-> new, ref |-> Nil]
             v   == [home |-> "arena", idx |-> Len(objects), obj |-> new]
  <2>1. /\ AllocateObject(Last(metas).arena, obj) /\ SetReg(r, v) /\ UNCHANGED heap
    BY <1>1, <1>5 DEF ArrayNew
  <2>2. Held' = Held /\ Held \subseteq Held'
    BY <2>1 DEF Held
  <2>3. obj \in [id : Ids, ref : Held]
    BY <1>1
  <2>4. v \in Held /\ v \in Held'
    <3>1. Len(objects) \in 0 .. MaxMade
      BY <1>1, <1>3
    <3>2. v \in Named /\ v.home = "arena"
      BY <1>1, <3>1 DEF Named
    <3> QED
      BY <2>2, <3>2 DEF Held, Value
  <2>5. obj.id = new
    OBVIOUS
  <2> HIDE DEF obj, v
  <2>6. /\ Len(frames') = Len(frames) /\ frames' \in Seq(ArenaFrameState)
        /\ Bytes(frames', global_top') /\ Placed(frames', objects')
    BY <1>5, <2>1, <2>3, AllocateInv DEF ArenaHere
  <2>7. /\ objects' = Append(objects, obj) /\ objects' \in Seq([id : Ids, ref : Held])
        /\ Len(objects') = Len(objects) + 1 /\ objects'[Len(objects) + 1] = obj
        /\ \A k \in 1 .. Len(objects) : objects'[k] = objects[k]
    BY <1>3, <2>1, <2>3, AppendProperties DEF AllocateObject
  <2>8. windows' \in Seq([Regs -> Held']) /\ Len(windows') = Len(windows)
    BY <1>3, <1>4, <2>1, <2>2, <2>4, SetRegType
  <2>9. Contents'
    BY <1>1, <1>2, <1>3, <2>1, <2>2, <2>7, <2>8, SMTT(30) DEF Contents
  <2>10. Control'
    BY <1>1, <1>2, <2>6 DEF Control
  <2>11. Depths'
    BY <1>2, <2>6, <2>8 DEF Depths
  <2>12. Numbered'
    <3>1. \A k \in 1 .. Len(objects) + 1 : k = Len(objects) + 1 \/ k \in 1 .. Len(objects)
      BY <1>3
    <3>2. \A k \in 1 .. Len(objects) : /\ objects'[k].id \in 1 .. made /\ objects'[k].id # new
                                       /\ objects'[k].id \notin DOMAIN heap
      BY <1>1, <2>7 DEF Numbered
    <3>3. \A k \in 1 .. Len(objects') : /\ objects'[k].id \in 1 .. made'
                                        /\ objects'[k].id \notin DOMAIN heap'
      BY <1>1, <2>1, <2>5, <2>7, <3>1, <3>2
    <3>4. \A j, k \in 1 .. Len(objects) : j # k => objects'[j].id # objects'[k].id
      BY <2>7 DEF Numbered
    <3>5. \A j, k \in 1 .. Len(objects') : j # k => objects'[j].id # objects'[k].id
      BY <2>5, <2>7, <3>1, <3>2, <3>4
    <3>6. Len(objects') <= made'
      BY <1>1, <1>3, <2>7
    <3> HIDE DEF new
    <3> QED
      BY <3>3, <3>5, <3>6 DEF Numbered
  <2> QED
    BY <2>6, <2>9, <2>10, <2>11, <2>12
<1>6. CASE ~ArenaHere
  <2>1. /\ heap' = [id \in DOMAIN heap \cup {new} |-> IF id = new THEN Nil ELSE heap[id]]
        /\ SetReg(r, OnHeap(new)) /\ UNCHANGED regionVars
    BY <1>1, <1>6 DEF ArrayNew
  <2>2. DOMAIN heap' = DOMAIN heap \cup {new} /\ Held \subseteq Held'
    BY <2>1, HeldStays
  <2>3. OnHeap(new) \in Held'
    <3>1. OnHeap(new) \in Named /\ OnHeap(new).obj = new
      BY <1>1 DEF OnHeap, Named
    <3> QED
      BY <2>2, <3>1 DEF Held, Value
  <2>4. windows' \in Seq([Regs -> Held']) /\ Len(windows') = Len(windows)
    BY <1>3, <1>4, <2>1, <2>2, <2>3, SetRegType
  <2>5. Contents'
    <3>1. objects \in Seq([id : Ids, ref : Held'])
      <4>1. [id : Ids, ref : Held] \subseteq [id : Ids, ref : Held']
        BY <2>2
      <4> QED
        BY <1>3, <4>1, SeqMonotonic, ZenonT(60)
    <3>2. globals \in [Vars -> Held']
      BY <1>3, <2>2
    <3>3. heap' \in [DOMAIN heap' -> Held']
      <4>1. \A id \in DOMAIN heap \cup {new} : (IF id = new THEN Nil ELSE heap[id]) \in Held'
        BY <1>1, <1>3, <2>2
      <4> QED
        BY <2>1, <4>1
    <3>4. DOMAIN heap' \subseteq 1 .. made'
      BY <1>1, <1>3, <2>2
    <3> QED
      BY <1>2, <2>1, <2>4, <3>1, <3>2, <3>3, <3>4 DEF Contents, regionVars
  <2>6. Control'
    BY <1>1, <1>2, <2>1 DEF Control, regionVars
  <2>7. Depths'
    BY <1>2, <2>1, <2>4 DEF Depths, regionVars
  <2>8. Bytes(frames', global_top') /\ Placed(frames', objects')
    BY <2>1 DEF regionVars
  <2>9. Numbered'
    BY <1>1, <1>3, <2>1, <2>2, SMTT(30) DEF Numbered, regionVars
  <2> QED
    BY <2>5, <2>6, <2>7, <2>8, <2>9
<1> QED
  BY <1>5, <1>6

LEMMA SetIndexMutInv ==
  ASSUME Inv, NEW r \in Regs, NEW s \in Regs, SetIndexMut(r, s)
  PROVE  Inv'
<1> USE DEF Inv
<1>1. /\ objects \in Seq([id : Ids, ref : Held]) /\ windows \in Seq([Regs -> Held])
      /\ Len(objects) \in Nat /\ Len(windows) \in Nat /\ Len(metas) \in Nat
      /\ globals \in [Vars -> Held] /\ heap \in [DOMAIN heap -> Held] /\ DOMAIN heap \subseteq 1 .. made
  BY LenProperties DEF Contents, Control
<1>2. windows # <<>>
  BY <1>1, EmptySeq DEF SetIndexMut, Running, Depths
<1>3. /\ Reg(s) \in Held /\ Reg(r) \in Held /\ Reg(r) # Nil /\ ObjectOf(Reg(r)) # NoObject
      /\ UNCHANGED <<frames, global_top, metas, windows, globals, phase, made, harm>>
      /\ stored' = stored + 1 /\ stored < MaxStored
  BY <1>2, RegType DEF SetIndexMut
<1>4. /\ heap' \in [DOMAIN heap -> Held] /\ objects' \in Seq([id : Ids, ref : Held])
      /\ Len(objects') = Len(objects)
      /\ \A k \in 1 .. Len(objects) : objects'[k].id = objects[k].id
  <2>1. CASE Reg(r).home = "heap"
    BY <1>1, <1>3, <2>1 DEF SetIndexMut
  <2>2. CASE Reg(r).home # "heap"
    <3> DEFINE i == Reg(r).idx + 1
               o == [objects[i] EXCEPT !.ref = Reg(s)]
    <3>1. i \in 1 .. Len(objects)
      BY <1>3, <2>2, ObjectOfType
    <3>2. objects' = [objects EXCEPT ![i] = o] /\ UNCHANGED heap
      BY <1>3, <2>2 DEF SetIndexMut
    <3>3. objects[i] \in [id : Ids, ref : Held]
      BY <1>1, <3>1, ElementOfSeq
    <3>4. o \in [id : Ids, ref : Held] /\ o.id = objects[i].id
      BY <1>3, <3>3
    <3> HIDE DEF i, o
    <3>5. /\ objects' \in Seq([id : Ids, ref : Held]) /\ Len(objects') = Len(objects)
          /\ \A k \in 1 .. Len(objects) : objects'[k] = IF k = i THEN o ELSE objects[k]
      BY <1>1, <3>1, <3>2, <3>4, ExceptSeq
    <3> QED
      BY <1>1, <3>2, <3>4, <3>5
  <2> QED
    BY <2>1, <2>2
<1>5. DOMAIN heap' = DOMAIN heap /\ Held' = Held
  BY <1>1, <1>4 DEF Held
<1>6. Contents'
  BY <1>1, <1>3, <1>4, <1>5 DEF Contents
<1>7. Control' /\ Depths'
  BY <1>3 DEF Control, Depths
<1>8. Bytes(frames', global_top')
  BY <1>3
<1>9. Placed(frames', objects')
  <2>1. \A i \in 1 .. Len(frames) : \A k \in 1 .. frames[i].obj_count :
           objects'[frames[i].obj_start + k].id = objects[frames[i].obj_start + k].id
    <3> SUFFICES ASSUME NEW i \in 1 .. Len(frames), NEW k \in 1 .. frames[i].obj_count
                 PROVE  frames[i].obj_start + k \in 1 .. Len(objects)
      BY <1>4
    <3>1. frames[i] \in ArenaFrameState
      BY ElementOfSeq DEF Control
    <3>2. /\ frames[i].obj_start \in Nat /\ frames[i].obj_count \in Nat
          /\ frames[i].obj_start + frames[i].obj_count <= Len(objects)
      <4>1. frames[i].obj_start + frames[i].obj_count <= Len(objects)
        BY DEF Placed
      <4> QED
        BY <3>1, <4>1 DEF ArenaFrameState
    <3>3. Len(objects) \in Nat
      BY <1>1
    <3> QED
      BY <3>2, <3>3
  <2> QED
    BY <1>3, <1>4, <2>1, ZenonT(60) DEF Placed
<1>10. Numbered'
  BY <1>3, <1>4, <1>5 DEF Numbered
<1> QED
  BY <1>6, <1>7, <1>8, <1>9, <1>10

-----------------------------------------------------------------------------
(* The end of a frame                                                      *)

TopFrame   == frames[Len(frames)]
Callers(s) == [Front(windows) EXCEPT ![Last(metas).into.window][Last(metas).into.reg] = Reg(s)]

\* The objects of the frame on top are the last ones.
LEMMA TopFrameFacts ==
  ASSUME Inv, Len(frames) # 0
  PROVE  LET f == TopFrame
             low == FirstObject(f)
         IN  /\ Len(frames) \in Nat /\ Len(objects) \in Nat /\ low \in Nat /\ low <= Len(objects)
             /\ f \in ArenaFrameState
             /\ f.obj_count = 0 => low = Len(objects)
             /\ f.obj_count # 0 => low = f.obj_start
             /\ f.obj_start + f.obj_count <= Len(objects)
             /\ f.obj_count # 0 => f.obj_start + f.obj_count = Len(objects)
             /\ PlacesOf(f) = low .. Len(objects) - 1
             /\ \A i \in 1 .. Len(frames) - 1 : frames[i].obj_start + frames[i].obj_count <= low
<1> USE DEF Inv
<1> DEFINE n == Len(frames)
           m == Len(objects)
           f == TopFrame
           low == FirstObject(f)
<1>1. n \in Nat /\ n # 0 /\ m \in Nat
  BY LenProperties DEF Control, Contents
<1>2. \A i \in 1 .. n : frames[i] \in ArenaFrameState
  BY ElementOfSeq DEF Control
<1>3. /\ f \in ArenaFrameState /\ f = frames[n]
      /\ f.obj_start \in Nat /\ f.obj_count \in Nat
  BY <1>1, <1>2 DEF TopFrame, ArenaFrameState
<1>4. low = IF f.obj_count = 0 THEN m ELSE f.obj_start
  BY DEF FirstObject
<1>5. \A i \in 1 .. n : /\ frames[i].obj_start + frames[i].obj_count <= m
                        /\ frames[i].obj_start \in Nat /\ frames[i].obj_count \in Nat
  BY <1>2 DEF Placed, ArenaFrameState
<1>6. \A i, j \in 1 .. n : i < j => frames[i].obj_start + frames[i].obj_count <= frames[j].obj_start
  BY DEF Placed
<1>7. \A k \in 1 .. m : \E i \in 1 .. n :
         frames[i].obj_start < k /\ k <= frames[i].obj_start + frames[i].obj_count
  BY DEF Placed
<1>8. PlacesOf(f) = {i \in 0 .. m - 1 : i >= f.obj_start /\ i < f.obj_start + f.obj_count}
  BY DEF PlacesOf
<1> HIDE DEF n, m, f, low
<1>9. f.obj_start + f.obj_count <= m
  BY <1>1, <1>3, <1>5
<1>10. ASSUME f.obj_count # 0
       PROVE  f.obj_start + f.obj_count = m
  <2>1. SUFFICES ASSUME f.obj_start + f.obj_count < m
                 PROVE  FALSE
    BY <1>1, <1>3, <1>9
  <2>2. m \in 1 .. m
    BY <1>1, <1>3, <2>1
  <2>3. PICK i \in 1 .. n : frames[i].obj_start < m /\ m <= frames[i].obj_start + frames[i].obj_count
    BY <2>2, <1>7
  <2>4. i # n
    BY <1>1, <1>3, <2>1, <2>3
  <2>5. i < n /\ n \in 1 .. n
    BY <1>1, <2>4
  <2>6. frames[i].obj_start + frames[i].obj_count <= f.obj_start
    BY <1>3, <1>6, <2>5
  <2>7. m <= f.obj_start
    <3> DEFINE e == frames[i].obj_start + frames[i].obj_count
    <3>1. e \in Nat /\ m <= e /\ e <= f.obj_start
      BY <1>5, <2>3, <2>6
    <3> HIDE DEF e
    <3> QED
      BY <3>1, <1>1, <1>3
  <2> QED
    BY <1>1, <1>3, <2>1, <2>7
<1>11. low \in Nat /\ low <= m /\ (f.obj_count = 0 => low = m) /\ (f.obj_count # 0 => low = f.obj_start)
  BY <1>1, <1>3, <1>4, <1>9
<1>12. PlacesOf(f) = low .. m - 1
  <2>1. CASE f.obj_count = 0
    BY <2>1, <1>1, <1>3, <1>8, <1>11
  <2>2. CASE f.obj_count # 0
    <3>1. f.obj_start + f.obj_count = m /\ low = f.obj_start
      BY <2>2, <1>10, <1>11
    <3> QED
      BY <3>1, <1>1, <1>3, <1>8
  <2> QED
    BY <2>1, <2>2
<1>13. ASSUME NEW i \in 1 .. n - 1
       PROVE  frames[i].obj_start + frames[i].obj_count <= low
  <2>1. i \in 1 .. n /\ n \in 1 .. n /\ i < n
    BY <1>1
  <2>2. frames[i].obj_start + frames[i].obj_count <= f.obj_start
        /\ frames[i].obj_start + frames[i].obj_count <= m
    BY <2>1, <1>3, <1>5, <1>6
  <2> QED
    BY <2>2, <1>11
<1> QED
  BY <1>1, <1>3, <1>9, <1>10, <1>11, <1>12, <1>13 DEF n, m, f, low

\* Both ways to drop them leave the objects below.
LEMMA LeftObjects ==
  ASSUME Inv, Len(frames) # 0, NEW left,
         left = Without(TopFrame) \/ left = Dropped(TopFrame)
  PROVE  /\ left \in Seq([id : Ids, ref : Held])
         /\ Len(left) = FirstObject(TopFrame)
         /\ \A k \in 1 .. FirstObject(TopFrame) : left[k] = objects[k]
<1> DEFINE m == Len(objects)
           f == TopFrame
           low == FirstObject(f)
           S == [id : Ids, ref : Held]
           a == SubSeq(objects, 1, f.obj_start)
           b == SubSeq(objects, f.obj_start + f.obj_count + 1, m)
<1>1. objects \in Seq(S) /\ \A k \in 1 .. m : objects[k] \in S
  BY ElementOfSeq DEF Inv, Contents
<1>2. /\ m \in Nat /\ low \in Nat /\ low <= m
      /\ f \in ArenaFrameState
      /\ f.obj_count = 0 => low = m
      /\ f.obj_count # 0 => low = f.obj_start
      /\ f.obj_start + f.obj_count <= m
      /\ f.obj_count # 0 => f.obj_start + f.obj_count = m
  BY TopFrameFacts
<1>3. f.obj_start \in Nat /\ f.obj_count \in Nat
  BY <1>2 DEF ArenaFrameState
<1>4. Without(f) = a \o b /\ Dropped(f) = IF f.obj_count > 0 THEN a ELSE objects
  BY DEF Without, Dropped
<1> HIDE DEF m, f, low, S
<1>5. /\ a \in Seq(S) /\ Len(a) = f.obj_start
      /\ \A k \in 1 .. f.obj_start : a[k] = objects[k]
  <2>1. \A k \in 1 .. f.obj_start : objects[k] \in S
    BY <1>1, <1>2, <1>3
  <2>2. /\ a \in Seq(S) /\ Len(a) = IF 1 <= f.obj_start THEN f.obj_start - 1 + 1 ELSE 0
        /\ \A k \in 1 .. f.obj_start - 1 + 1 : a[k] = objects[1 + k - 1]
    BY <2>1, <1>3, SubSeqProperties
  <2> HIDE DEF a
  <2>3. \A k \in 1 .. f.obj_start : 1 + k - 1 = k /\ k \in 1 .. f.obj_start - 1 + 1
    BY <1>3
  <2> QED
    BY <2>2, <2>3, <1>3
<1>6. /\ b \in Seq(S) /\ Len(b) = m - (f.obj_start + f.obj_count)
      /\ \A k \in 1 .. m - (f.obj_start + f.obj_count) :
            b[k] = objects[f.obj_start + f.obj_count + k]
  <2> DEFINE c == f.obj_start + f.obj_count + 1
  <2>1. c \in Nat /\ c >= 1 /\ c <= m + 1
    BY <1>2, <1>3
  <2>2. b = SubSeq(objects, c, m)
    OBVIOUS
  <2>3. c = f.obj_start + f.obj_count + 1
    OBVIOUS
  <2> HIDE DEF b, c
  <2>4. \A k \in c .. m : objects[k] \in S
    BY <1>1, <1>2, <2>1
  <2>5. /\ b \in Seq(S) /\ Len(b) = (IF c <= m THEN m - c + 1 ELSE 0)
        /\ \A k \in 1 .. m - c + 1 : b[k] = objects[c + k - 1]
    BY <2>1, <2>2, <2>4, <1>2, SubSeqProperties
  <2>6. \A k \in 1 .. m - (f.obj_start + f.obj_count) :
           k \in 1 .. m - c + 1 /\ c + k - 1 = f.obj_start + f.obj_count + k
    BY <1>2, <1>3, <2>3
  <2>7. Len(b) = m - (f.obj_start + f.obj_count)
    BY <1>2, <1>3, <2>1, <2>3, <2>5
  <2> QED
    BY <2>5, <2>6, <2>7
<1> HIDE DEF a, b
<1>7. /\ a \o b \in Seq(S) /\ Len(a \o b) = Len(a) + Len(b)
      /\ \A k \in 1 .. Len(a) + Len(b) : (a \o b)[k] = IF k <= Len(a) THEN a[k] ELSE b[k - Len(a)]
  BY <1>5, <1>6, ConcatProperties, ZenonT(60)
<1>8. CASE f.obj_count = 0
  <2>1. Len(a) + Len(b) = m /\ low = m /\ Len(a) = f.obj_start /\ Len(b) = m - f.obj_start
    BY <1>2, <1>3, <1>5, <1>6, <1>8
  <2>2. ASSUME NEW k \in 1 .. m
        PROVE  (a \o b)[k] = objects[k]
    <3>1. CASE k <= f.obj_start
      <4>1. k \in 1 .. f.obj_start /\ k \in 1 .. Len(a) + Len(b)
        BY <3>1, <2>1, <1>3
      <4>2. (a \o b)[k] = a[k]
        BY <4>1, <3>1, <2>1, <1>7
      <4> QED
        BY <4>1, <4>2, <1>5
    <3>2. CASE k > f.obj_start
      <4>1. /\ k - f.obj_start \in 1 .. m - (f.obj_start + f.obj_count)
            /\ f.obj_start + f.obj_count + (k - f.obj_start) = k
            /\ ~(k <= f.obj_start) /\ k \in 1 .. Len(a) + Len(b)
        BY <3>2, <2>1, <1>2, <1>3, <1>8, SMTT(30)
      <4>2. (a \o b)[k] = b[k - f.obj_start]
        BY <4>1, <2>1, <1>7
      <4> QED
        BY <4>1, <4>2, <1>6
    <3>3. k <= f.obj_start \/ k > f.obj_start
      BY <1>2, <1>3
    <3> QED
      BY <3>1, <3>2, <3>3, Zenon
  <2>3. left = a \o b \/ left = objects
    BY <1>3, <1>4, <1>8 DEF f
  <2> QED
    BY <2>1, <2>2, <2>3, <1>1, <1>7 DEF m, f, low, S
<1>9. CASE f.obj_count # 0
  <2>1. Len(b) = 0 /\ low = f.obj_start /\ Len(a) = low
    BY <1>2, <1>3, <1>5, <1>6, <1>9
  <2>2. left = a \o b \/ left = a
    BY <1>3, <1>4, <1>9 DEF f
  <2>3. \A k \in 1 .. low : (a \o b)[k] = a[k] /\ a[k] = objects[k]
    BY <2>1, <1>2, <1>5, <1>7
  <2>4. Len(a \o b) = low
    BY <2>1, <1>2, <1>7
  <2> QED
    BY <2>1, <2>2, <2>3, <2>4, <1>5, <1>7 DEF f, low, S
<1> QED
  BY <1>8, <1>9

\* The windows of the callers, the result in its register.
LEMMA ReturnFacts ==
  ASSUME Inv, NEW s \in Regs, Return(s)
  PROVE  /\ Len(frames) \in Nat \ {0} /\ Last(metas).arena + 1 = Len(frames)
         /\ frames[Last(metas).arena + 1] = TopFrame
         /\ Len(windows) \in Nat /\ Len(windows) > 1 /\ windows # <<>>
         /\ Reg(s) \in Held
         /\ PopFrame(Callers(s)) /\ UNCHANGED <<phase, made, stored>>
         /\ Callers(s) \in Seq([Regs -> Held]) /\ Len(Callers(s)) = Len(windows) - 1
         /\ \A w \in 1 .. Len(windows) - 1 : \A q \in Regs :
               Callers(s)[w][q] \in {windows[w][q], Reg(s)}
<1> USE DEF Inv
<1>1. /\ windows \in Seq([Regs -> Held]) /\ Len(windows) \in Nat /\ Len(metas) \in Nat
      /\ frames \in Seq(ArenaFrameState) /\ Len(frames) = Len(metas) /\ metas \in Seq(Meta)
  BY LenProperties DEF Contents, Control, Depths
<1>2. Len(metas) # 0
  BY <1>1, EmptySeq DEF Return
<1>3. Last(metas).arena = Len(metas) - 1
  BY <1>1, <1>2 DEF Last, Depths
<1>4. Len(windows) > 1 /\ windows # <<>>
  BY <1>1, <1>2, EmptySeq DEF Return, Running, Depths
<1>5. Reg(s) \in Held
  BY <1>4, RegType
<1>6. PopFrame(Callers(s)) /\ UNCHANGED <<phase, made, stored>>
  BY DEF Return, Callers
<1> DEFINE F == Front(windows)
           w0 == Last(metas).into.window
           r0 == Last(metas).into.reg
           k == Len(windows) - 1
<1>7. /\ F \in Seq([Regs -> Held]) /\ Len(F) = k
      /\ \A w \in 1 .. k : F[w] = windows[w]
  <2>1. \A w \in 1 .. k : windows[w] \in [Regs -> Held]
    BY <1>1, ElementOfSeq
  <2>2. /\ F \in Seq([Regs -> Held]) /\ Len(F) = IF 1 <= k THEN k - 1 + 1 ELSE 0
        /\ \A w \in 1 .. k - 1 + 1 : F[w] = windows[1 + w - 1]
    BY <1>1, <2>1, SubSeqProperties DEF Front
  <2> HIDE DEF F
  <2> QED
    BY <1>1, <1>4, <2>2
<1> HIDE DEF F
<1>8. Callers(s) = [F EXCEPT ![w0] = [F[w0] EXCEPT ![r0] = Reg(s)]]
  BY DEF Callers, F
<1>9. k \in Nat /\ DOMAIN F = 1 .. k
  BY <1>1, <1>4, <1>7, LenProperties
<1> HIDE DEF w0, r0, k
<1>10. CASE w0 \in 1 .. k
  <2> DEFINE e == [F[w0] EXCEPT ![r0] = Reg(s)]
  <2>1. F[w0] \in [Regs -> Held]
    BY <1>7, <1>10, ElementOfSeq
  <2>2. e \in [Regs -> Held] /\ \A q \in Regs : e[q] \in {F[w0][q], Reg(s)}
    BY <1>5, <2>1
  <2> HIDE DEF e
  <2>3. Callers(s) = [F EXCEPT ![w0] = e]
    BY <1>8 DEF e
  <2>4. /\ Callers(s) \in Seq([Regs -> Held]) /\ Len(Callers(s)) = k
        /\ \A w \in 1 .. k : Callers(s)[w] = IF w = w0 THEN e ELSE F[w]
    BY <1>7, <1>10, <2>2, <2>3, ExceptSeq
  <2>5. \A w \in 1 .. k : \A q \in Regs : Callers(s)[w][q] \in {windows[w][q], Reg(s)}
    BY <1>7, <2>2, <2>4
  <2> QED
    BY <1>1, <1>2, <1>3, <1>4, <1>5, <1>6, <2>4, <2>5 DEF TopFrame, k
<1>11. CASE w0 \notin 1 .. k
  <2>1. Callers(s) = F
    <3>1. Callers(s) = [w \in 1 .. k |-> F[w]]
      BY <1>8, <1>9, <1>11
    <3>2. F = [w \in 1 .. k |-> F[w]]
      BY <1>7, <1>9
    <3> QED
      BY <3>1, <3>2
  <2> QED
    BY <1>1, <1>2, <1>3, <1>4, <1>5, <1>6, <1>7, <2>1 DEF TopFrame, k
<1> QED
  BY <1>10, <1>11

\* What the end of the frame leaves.
LEMMA PoppedArena ==
  ASSUME Inv, NEW s \in Regs, Return(s)
  PROVE  /\ objects' \in Seq([id : Ids, ref : Held])
         /\ Len(objects') = FirstObject(TopFrame)
         /\ \A k \in 1 .. FirstObject(TopFrame) : objects'[k] = objects[k]
         /\ frames' \in Seq(ArenaFrameState) /\ Len(frames') = Len(frames) - 1
         /\ \A i \in 1 .. Len(frames) - 1 : frames'[i] = frames[i]
         /\ global_top' = TopFrame.start
         /\ metas' \in Seq(Meta) /\ Len(metas') = Len(metas) - 1
         /\ \A i \in 1 .. Len(metas) - 1 : metas'[i] = metas[i]
         /\ harm' = harm \cup HarmOfReturn(TopFrame, Callers(s))
<1> USE DEF Inv
<1> DEFINE n == Len(frames)
           f == TopFrame
<1>1. /\ n \in Nat \ {0} /\ Last(metas).arena + 1 = n /\ frames[Last(metas).arena + 1] = f
      /\ PopFrame(Callers(s))
  BY ReturnFacts
<1>2. /\ frames \in Seq(ArenaFrameState) /\ metas \in Seq(Meta) /\ Len(metas) = n
  BY DEF Control, Depths
<1>3. Last(metas).arena = n - 1
  <2>1. Last(metas).arena = n - 1
    BY <1>1, <1>2 DEF Last, Depths
  <2> QED
    BY <2>1
<1>4. /\ global_top' = f.start
      /\ objects' = (IF Escapes(f, Callers(s)) THEN Without(f) ELSE Dropped(f))
      /\ frames' = SubSeq(frames, 1, n - 1)
      /\ metas' = SubSeq(metas, 1, n - 1)
      /\ harm' = harm \cup HarmOfReturn(f, Callers(s))
  BY <1>1, <1>2, <1>3 DEF PopFrame, EndFrame, Front
<1>5. /\ objects' \in Seq([id : Ids, ref : Held])
      /\ Len(objects') = FirstObject(f)
      /\ \A k \in 1 .. FirstObject(f) : objects'[k] = objects[k]
  BY <1>1, <1>4, LeftObjects
<1> HIDE DEF f, n
<1>6. n - 1 \in Nat /\ n - 1 - 1 + 1 = n - 1 /\ (~(1 <= n - 1) => n - 1 = 0)
      /\ \A i \in 1 .. n - 1 : 1 + i - 1 = i /\ i \in 1 .. n
  BY <1>1
<1>7. /\ frames' \in Seq(ArenaFrameState) /\ Len(frames') = n - 1
      /\ \A i \in 1 .. n - 1 : frames'[i] = frames[i]
  <2>1. \A i \in 1 .. n - 1 : frames[i] \in ArenaFrameState
    BY <1>2, <1>6, ElementOfSeq DEF n
  <2>2. /\ frames' \in Seq(ArenaFrameState)
        /\ Len(frames') = IF 1 <= n - 1 THEN n - 1 - 1 + 1 ELSE 0
        /\ \A i \in 1 .. n - 1 - 1 + 1 : frames'[i] = frames[1 + i - 1]
    BY <1>4, <1>6, <2>1, SubSeqProperties
  <2> QED
    BY <1>6, <2>2
<1>8. /\ metas' \in Seq(Meta) /\ Len(metas') = n - 1
      /\ \A i \in 1 .. n - 1 : metas'[i] = metas[i]
  <2>1. \A i \in 1 .. n - 1 : metas[i] \in Meta
    BY <1>2, <1>6, ElementOfSeq DEF n
  <2>2. /\ metas' \in Seq(Meta)
        /\ Len(metas') = IF 1 <= n - 1 THEN n - 1 - 1 + 1 ELSE 0
        /\ \A i \in 1 .. n - 1 - 1 + 1 : metas'[i] = metas[1 + i - 1]
    BY <1>4, <1>6, <2>1, SubSeqProperties
  <2> QED
    BY <1>6, <2>2
<1> QED
  BY <1>2, <1>4, <1>5, <1>7, <1>8 DEF f, n

\* What a promoted object leaves on the heap, and in the values that named it.
LEMMA PromoteFacts ==
  ASSUME Inv, NEW places \in SUBSET (0 .. Len(objects) - 1), NEW ws \in Seq([Regs -> Held]),
         Promote(places, ws)
  PROVE  /\ DOMAIN heap' = DOMAIN heap \cup {objects[i + 1].id : i \in places}
         /\ Held \subseteq Held'
         /\ heap' \in [DOMAIN heap' -> Held'] /\ DOMAIN heap' \subseteq 1 .. made
         /\ \A id \in DOMAIN heap : heap'[id] = heap[id]
         /\ \A i \in places : heap'[objects[i + 1].id] = objects[i + 1].ref
         /\ windows' \in Seq([Regs -> Held']) /\ Len(windows') = Len(ws)
         /\ \A w \in 1 .. Len(ws) : \A r \in Regs : windows'[w][r] = Rewritten(places, ws[w][r])
         /\ globals' \in [Vars -> Held']
         /\ \A x \in Vars : globals'[x] = Rewritten(places, globals[x])
<1> USE DEF Inv
<1> DEFINE ids == {objects[i + 1].id : i \in places}
           Ref(id) == (CHOOSE o \in Range(objects) : o.id = id).ref
<1>1. /\ heap' = [id \in DOMAIN heap \cup ids |-> IF id \in DOMAIN heap THEN heap[id] ELSE Ref(id)]
      /\ windows' = [w \in DOMAIN ws |-> [r \in Regs |-> Rewritten(places, ws[w][r])]]
      /\ globals' = [x \in Vars |-> Rewritten(places, globals[x])]
  BY DEF Promote
<1>2. /\ objects \in Seq([id : Ids, ref : Held]) /\ Len(objects) \in Nat
      /\ \A k \in 1 .. Len(objects) : objects[k] \in [id : Ids, ref : Held]
      /\ globals \in [Vars -> Held] /\ heap \in [DOMAIN heap -> Held] /\ DOMAIN heap \subseteq 1 .. made
  BY LenProperties, ElementOfSeq DEF Contents
<1>3. \A i \in places : i + 1 \in 1 .. Len(objects)
  BY <1>2
<1>4. ASSUME NEW i \in places
      PROVE  /\ Ref(objects[i + 1].id) = objects[i + 1].ref
             /\ objects[i + 1].id \notin DOMAIN heap /\ objects[i + 1].id \in 1 .. made
  <2> DEFINE o == CHOOSE o \in Range(objects) : o.id = objects[i + 1].id
  <2>1. objects[i + 1] \in Range(objects)
    BY <1>2, <1>3, LenProperties DEF Range
  <2>2. o \in Range(objects) /\ o.id = objects[i + 1].id
    BY <2>1
  <2> HIDE DEF o
  <2>3. PICK k \in 1 .. Len(objects) : o = objects[k]
    BY <1>2, <2>2, LenProperties DEF Range
  <2>4. k = i + 1
    BY <1>3, <2>2, <2>3 DEF Numbered
  <2> QED
    BY <1>3, <2>3, <2>4 DEF Numbered, o
<1> HIDE DEF Ref
<1>5. DOMAIN heap' = DOMAIN heap \cup ids /\ Held \subseteq Held'
  BY <1>1, HeldStays
<1>6. /\ \A id \in DOMAIN heap : heap'[id] = heap[id]
      /\ \A i \in places : heap'[objects[i + 1].id] = objects[i + 1].ref
  BY <1>1, <1>4
<1>7. \A id \in DOMAIN heap' : heap'[id] \in Held'
  <2> SUFFICES ASSUME NEW id \in DOMAIN heap'
               PROVE  heap'[id] \in Held
    BY <1>5
  <2>1. CASE id \in DOMAIN heap
    BY <2>1, <1>2, <1>6
  <2>2. CASE id \in ids
    <3>1. PICK i \in places : id = objects[i + 1].id
      BY <2>2
    <3> QED
      BY <3>1, <1>2, <1>3, <1>6
  <2> QED
    BY <1>5, <2>1, <2>2
<1>8. heap' \in [DOMAIN heap' -> Held'] /\ DOMAIN heap' \subseteq 1 .. made
  <2>1. heap' = [id \in DOMAIN heap' |-> heap'[id]]
    BY <1>1
  <2>2. ids \subseteq 1 .. made
    BY <1>4
  <2> QED
    BY <1>2, <1>5, <1>7, <2>1, <2>2
<1>9. ASSUME NEW v \in Held
      PROVE  Rewritten(places, v) \in Held'
  <2>1. CASE InArena(v) /\ v.idx \in places
    <3> DEFINE id == objects[v.idx + 1].id
    <3>1. id \in Ids /\ id \in DOMAIN heap'
      BY <1>2, <1>3, <1>5, <2>1
    <3> HIDE DEF id
    <3>2. Rewritten(places, v) = [home |-> "heap", idx |-> 0, obj |-> id]
      BY <2>1 DEF Rewritten, OnHeap, id
    <3>3. [home |-> "heap", idx |-> 0, obj |-> id] \in Named
      BY <3>1 DEF Named
    <3> QED
      BY <3>1, <3>2, <3>3 DEF Held, Value
  <2>2. CASE ~(InArena(v) /\ v.idx \in places)
    BY <1>5, <2>2 DEF Rewritten
  <2> QED
    BY <2>1, <2>2
<1>10. /\ windows' \in Seq([Regs -> Held']) /\ Len(windows') = Len(ws)
       /\ \A w \in 1 .. Len(ws) : \A r \in Regs : windows'[w][r] = Rewritten(places, ws[w][r])
  <2>1. Len(ws) \in Nat /\ DOMAIN ws = 1 .. Len(ws)
    BY LenProperties
  <2>2. windows' = [w \in 1 .. Len(ws) |-> [r \in Regs |-> Rewritten(places, ws[w][r])]]
    BY <1>1, <2>1
  <2>3. \A w \in 1 .. Len(ws) : [r \in Regs |-> Rewritten(places, ws[w][r])] \in [Regs -> Held']
    <3> SUFFICES ASSUME NEW w \in 1 .. Len(ws)
                 PROVE  [r \in Regs |-> Rewritten(places, ws[w][r])] \in [Regs -> Held']
      OBVIOUS
    <3>1. ws[w] \in [Regs -> Held]
      BY ElementOfSeq
    <3> QED
      BY <1>9, <3>1
  <2>4. windows' \in [1 .. Len(ws) -> [Regs -> Held']]
    BY <2>2, <2>3
  <2>5. windows' \in Seq([Regs -> Held']) /\ Len(windows') = Len(ws)
    BY <2>1, <2>4, SeqDef, LenProperties
  <2> QED
    BY <2>2, <2>5
<1>11. globals' \in [Vars -> Held'] /\ \A x \in Vars : globals'[x] = Rewritten(places, globals[x])
  BY <1>1, <1>2, <1>9
<1> QED
  BY <1>5, <1>6, <1>8, <1>10, <1>11

\* The objects and frames that are left, and what names them.
LEMMA ReturnInv ==
  ASSUME Inv, NEW s \in Regs, Return(s)
  PROVE  Inv'
<1> USE DEF Inv
<1> DEFINE n == Len(frames)
           m == Len(objects)
           f == TopFrame
           low == FirstObject(f)
           places == PlacesOf(f)
           ws == Callers(s)
<1>1. /\ n \in Nat \ {0} /\ frames[Last(metas).arena + 1] = f
      /\ Len(windows) \in Nat /\ Len(windows) > 1
      /\ PopFrame(ws) /\ UNCHANGED <<phase, made, stored>>
      /\ ws \in Seq([Regs -> Held]) /\ Len(ws) = Len(windows) - 1
  BY ReturnFacts
<1>2. /\ m \in Nat /\ low \in Nat /\ low <= m
      /\ f \in ArenaFrameState
      /\ f.obj_count = 0 => low = m
      /\ f.obj_count # 0 => low = f.obj_start
      /\ places = low .. m - 1
      /\ \A i \in 1 .. n - 1 : frames[i].obj_start + frames[i].obj_count <= low
  BY <1>1, TopFrameFacts
<1>3. /\ objects' \in Seq([id : Ids, ref : Held]) /\ Len(objects') = low
      /\ \A k \in 1 .. low : objects'[k] = objects[k]
      /\ frames' \in Seq(ArenaFrameState) /\ Len(frames') = n - 1
      /\ \A i \in 1 .. n - 1 : frames'[i] = frames[i]
      /\ global_top' = f.start
      /\ metas' \in Seq(Meta) /\ Len(metas') = Len(metas) - 1
      /\ \A i \in 1 .. Len(metas) - 1 : metas'[i] = metas[i]
      /\ harm' = harm \cup HarmOfReturn(f, ws)
  BY PoppedArena
<1>4. /\ globals \in [Vars -> Held] /\ heap \in [DOMAIN heap -> Held] /\ DOMAIN heap \subseteq 1 .. made
      /\ frames \in Seq(ArenaFrameState)
      /\ \A i \in 1 .. n : frames[i] \in ArenaFrameState
  BY ElementOfSeq DEF Contents, Control
<1>5. \/ Promote(places, ws)
      \/ windows' = ws /\ UNCHANGED <<heap, globals>>
  BY <1>1 DEF PopFrame
<1>6. f = frames[n]
  BY DEF TopFrame
<1> HIDE DEF n, m, f, low, places, ws
<1>7. n - 1 \in Nat /\ n \in 1 .. n /\ \A i \in 1 .. n - 1 : i \in 1 .. n /\ i # n /\ i - 1 \in 0 .. n - 1
  BY <1>1
<1>8. /\ Held \subseteq Held' /\ heap' \in [DOMAIN heap' -> Held'] /\ DOMAIN heap' \subseteq 1 .. made
      /\ windows' \in Seq([Regs -> Held']) /\ Len(windows') = Len(ws)
      /\ globals' \in [Vars -> Held']
      /\ \A id \in DOMAIN heap' : id \in DOMAIN heap \/ \E i \in low .. m - 1 : id = objects[i + 1].id
  <2>1. CASE Promote(places, ws)
    <3>1. places \in SUBSET (0 .. Len(objects) - 1)
      BY <1>2 DEF m
    <3>2. /\ DOMAIN heap' = DOMAIN heap \cup {objects[i + 1].id : i \in places}
          /\ Held \subseteq Held' /\ heap' \in [DOMAIN heap' -> Held'] /\ DOMAIN heap' \subseteq 1 .. made
          /\ windows' \in Seq([Regs -> Held']) /\ Len(windows') = Len(ws)
          /\ globals' \in [Vars -> Held']
      BY <1>1, <2>1, <3>1, PromoteFacts
    <3>3. places = low .. m - 1
      BY <1>2
    <3> QED
      BY <3>2, <3>3
  <2>2. CASE windows' = ws /\ UNCHANGED <<heap, globals>>
    <3>1. Held' = Held
      BY <2>2 DEF Held
    <3> QED
      BY <1>1, <1>4, <2>2, <3>1
  <2> QED
    BY <1>5, <2>1, <2>2
<1>9. Contents'
  <2>1. [id : Ids, ref : Held] \subseteq [id : Ids, ref : Held']
    BY <1>8
  <2>2. objects' \in Seq([id : Ids, ref : Held'])
    BY <1>3, <2>1, SeqMonotonic, ZenonT(60)
  <2> QED
    BY <1>1, <1>8, <2>2 DEF Contents
<1>10. Control'
  <2>1. HarmOfReturn(f, ws) \subseteq {"range", "outer", "inner", "reset"}
    BY DEF HarmOfReturn
  <2> QED
    BY <1>1, <1>3, <2>1 DEF Control
<1>11. Depths'
  <2>1. Len(metas) = n /\ Len(windows') = Len(windows) - 1
    BY <1>1, <1>8 DEF Depths, n
  <2>2. \A i \in 1 .. n - 1 : metas'[i].arena = i - 1
    BY <1>3, <1>7, <2>1 DEF Depths
  <2>3. phase \in {"run", "host"}
    <3>1. Running
      BY DEF Return
    <3> QED
      BY <3>1 DEF Running
  <2>4. CASE phase = "run"
    BY <2>1, <2>2, <2>4, <1>1, <1>3 DEF Depths
  <2>5. CASE phase = "host"
    <3>1. Len(windows) <= n + 1
      BY <2>1, <2>5 DEF Depths
    <3>2. Len(windows') >= 1 /\ Len(windows') <= n - 1 + 1
      BY <2>1, <3>1, <1>1
    <3> QED
      BY <2>1, <2>2, <2>5, <3>2, <1>1, <1>3 DEF Depths
  <2> QED
    BY <2>3, <2>4, <2>5
<1>12. Bytes(frames', global_top')
  <2>1. \A i \in 0 .. n - 1 : End(frames', i) = End(frames, i)
    BY <1>3, <1>7 DEF End
  <2>2. \A i \in 1 .. n : frames[i].start = End(frames, i - 1)
    BY DEF Bytes, n
  <2>3. \A i \in 1 .. n - 1 : frames'[i].start = End(frames', i - 1)
    BY <1>3, <1>7, <2>1, <2>2
  <2>4. global_top' = End(frames', n - 1)
    BY <1>3, <1>6, <1>7, <2>1, <2>2
  <2>5. f.start + f.top = global_top /\ global_top <= RegionBytes
    BY <1>1, <1>6 DEF Bytes, End, n
  <2>6. f.start \in Nat /\ f.top \in Nat
    BY <1>2 DEF ArenaFrameState
  <2>7. f.start <= RegionBytes
    BY <2>5, <2>6
  <2> QED
    BY <1>3, <2>3, <2>4, <2>7 DEF Bytes
<1>13. Placed(frames', objects')
  <2>1. \A i \in 1 .. n : /\ frames[i].obj_start \in Nat /\ frames[i].obj_count \in Nat
                          /\ Len(frames[i].made) = frames[i].obj_count
                          /\ \A k \in 1 .. frames[i].obj_count :
                                objects[frames[i].obj_start + k].id = frames[i].made[k]
    BY <1>4 DEF ArenaFrameState, Placed, n
  <2>2. \A i \in 1 .. n - 1 : \A k \in 1 .. frames[i].obj_count :
           objects'[frames[i].obj_start + k] = objects[frames[i].obj_start + k]
    <3> SUFFICES ASSUME NEW i \in 1 .. n - 1, NEW k \in 1 .. frames[i].obj_count
                 PROVE  frames[i].obj_start + k \in 1 .. low
      BY <1>3
    <3>1. frames[i].obj_start \in Nat /\ frames[i].obj_count \in Nat
      BY <1>7, <2>1
    <3>2. frames[i].obj_start + frames[i].obj_count <= low /\ low \in Nat
      BY <1>2
    <3> QED
      BY <3>1, <3>2
  <2>3. \A i \in 1 .. n - 1 :
         /\ frames'[i].obj_start + frames'[i].obj_count <= low
         /\ Len(frames'[i].made) = frames'[i].obj_count
         /\ \A k \in 1 .. frames'[i].obj_count :
               objects'[frames'[i].obj_start + k].id = frames'[i].made[k]
    <3> SUFFICES ASSUME NEW i \in 1 .. n - 1
                 PROVE  /\ frames'[i].obj_start + frames'[i].obj_count <= low
                        /\ Len(frames'[i].made) = frames'[i].obj_count
                        /\ \A k \in 1 .. frames'[i].obj_count :
                              objects'[frames'[i].obj_start + k].id = frames'[i].made[k]
      OBVIOUS
    <3>1. i \in 1 .. n /\ frames[i].obj_start + frames[i].obj_count <= low
      BY <1>2, <1>7
    <3>2. frames'[i] = frames[i]
      BY <1>3
    <3>3. Len(frames[i].made) = frames[i].obj_count
      BY <3>1, <2>1
    <3>4. ASSUME NEW k \in 1 .. frames[i].obj_count
          PROVE  objects'[frames[i].obj_start + k].id = frames[i].made[k]
      <4>1. objects'[frames[i].obj_start + k] = objects[frames[i].obj_start + k]
        BY <2>2
      <4>2. objects[frames[i].obj_start + k].id = frames[i].made[k]
        BY <3>1, <2>1
      <4> QED
        BY <4>1, <4>2
    <3> QED
      BY <3>1, <3>2, <3>3, <3>4
  <2>4. \A i, j \in 1 .. n : i < j => frames[i].obj_start + frames[i].obj_count <= frames[j].obj_start
    BY DEF Placed, n
  <2>5. \A i, j \in 1 .. n - 1 : i < j =>
           frames'[i].obj_start + frames'[i].obj_count <= frames'[j].obj_start
    BY <1>3, <1>7, <2>4
  <2>6. ASSUME NEW k \in 1 .. low
        PROVE  \E i \in 1 .. n - 1 : /\ frames'[i].obj_start < k
                                     /\ k <= frames'[i].obj_start + frames'[i].obj_count
    <3>1. k \in 1 .. m
      BY <1>2
    <3>2. PICK i \in 1 .. n : frames[i].obj_start < k /\ k <= frames[i].obj_start + frames[i].obj_count
      BY <3>1 DEF Placed, n, m
    <3>3. i # n
      <4>1. f.obj_start \in Nat /\ f.obj_count \in Nat
        BY <1>2 DEF ArenaFrameState
      <4>2. CASE f.obj_count = 0
        BY <4>1, <4>2, <3>2, <1>6
      <4>3. CASE f.obj_count # 0
        <5>1. f.obj_start = low
          BY <4>3, <1>2
        <5> QED
          BY <5>1, <3>2, <1>2, <1>6
      <4> QED
        BY <4>2, <4>3
    <3>4. i \in 1 .. n - 1
      BY <3>3, <1>1
    <3> QED
      BY <3>2, <3>4, <1>3
  <2> QED
    BY <1>3, <2>3, <2>5, <2>6 DEF Placed
<1>14. Numbered'
  <2>1. \A k \in 1 .. low : k \in 1 .. m /\ \A i \in low .. m - 1 : i + 1 \in 1 .. m /\ i + 1 # k
    BY <1>2
  <2>2. /\ \A k \in 1 .. m : objects[k].id \in 1 .. made /\ objects[k].id \notin DOMAIN heap
        /\ \A j, k \in 1 .. m : j # k => objects[j].id # objects[k].id
        /\ m <= made /\ made \in Nat
    BY DEF Numbered, Control, m
  <2>3. \A k \in 1 .. low : objects'[k].id \in 1 .. made /\ objects'[k].id \notin DOMAIN heap'
    <3> SUFFICES ASSUME NEW k \in 1 .. low, objects[k].id \in DOMAIN heap'
                 PROVE  FALSE
      BY <1>3, <2>1, <2>2
    <3>1. PICK i \in low .. m - 1 : objects[k].id = objects[i + 1].id
      BY <1>8, <2>1, <2>2
    <3> QED
      BY <3>1, <2>1, <2>2
  <2>4. \A j, k \in 1 .. low : j # k => objects'[j].id # objects'[k].id
    <3>1. \A k \in 1 .. low : k \in 1 .. m /\ objects'[k] = objects[k]
      BY <1>3, <2>1
    <3> QED
      BY <3>1, <2>2
  <2>5. low <= made
    BY <1>2, <2>2
  <2> QED
    BY <1>1, <1>3, <2>3, <2>4, <2>5 DEF Numbered
<1> QED
  BY <1>9, <1>10, <1>11, <1>12, <1>13, <1>14

\* reset_registers_and_frames
LEMMA RunInv ==
  ASSUME Inv, Run
  PROVE  Inv'
<1> USE DEF Inv
<1>1. /\ frames' = <<>> /\ objects' = <<>> /\ global_top' = 0 /\ metas' = <<>>
      /\ windows' = Fresh /\ phase' = "run"
      /\ UNCHANGED <<globals, heap, made, stored>>
      /\ harm' \subseteq harm \cup {"reset"}
  BY DEF Run
<1>2. Held' = Held /\ Nil \in Held
  BY <1>1 DEF Held, Value
<1>3. Contents'
  <2>1. [r \in Regs |-> Nil] \in [Regs -> Held]
    BY <1>2
  <2>2. windows' \in Seq([Regs -> Held]) /\ objects' \in Seq([id : Ids, ref : Held])
    BY <1>1, <2>1, EmptySeq DEF Fresh
  <2> QED
    BY <1>1, <1>2, <2>2 DEF Contents
<1>4. Control' /\ Depths'
  BY <1>1, EmptySeq DEF Control, Depths, Fresh
<1>5. Bytes(frames', global_top') /\ Placed(frames', objects') /\ Numbered'
  <2>1. made \in Nat
    BY DEF Control
  <2> QED
    BY <1>1, <2>1, EmptySeq DEF Bytes, Placed, Numbered, End
<1> QED
  BY <1>3, <1>4, <1>5

LEMMA StepInv == Inv /\ [Next]_vars => Inv'
<1> SUFFICES ASSUME Inv, [Next]_vars
             PROVE  Inv'
  OBVIOUS
<1>1. CASE UNCHANGED vars
  <2>1. Held' = Held
    BY <1>1 DEF Held, vars
  <2> QED
    BY <1>1, <2>1 DEF vars, regionVars, Inv, Contents, Control, Depths, Bytes, End, Placed, Numbered
<1>2. ASSUME NEW r \in Regs, NEW s \in Regs, Load(r, s) \/ SetIndexMut(r, s) \/ Call(r, s)
      PROVE  Inv'
  BY <1>2, ApartSteps, SetIndexMutInv, CallSteps
<1>3. ASSUME NEW r \in Regs, ArrayNew(r) \/ Return(r)
      PROVE  Inv'
  BY <1>3, ArrayNewInv, ReturnInv
<1>4. CASE \/ \E x \in Vars, r \in Regs : StoreGlobal(x, r)
           \/ Halt \/ Fail \/ HostCall \/ HostFail \/ HostDone \/ Run
  BY <1>4, ApartSteps, CallSteps, RunInv
<1> QED
  BY <1>1, <1>2, <1>3, <1>4 DEF Next

LEMMA AlwaysInv == Spec => []Inv
<1>1. Init => Inv
  BY InitInv
<1>2. Inv /\ [Next]_vars => Inv'
  BY StepInv
<1> QED
  BY <1>1, <1>2, PTL DEF Spec

(* The types and places that the runs check.                                *)

LEMMA InvTypes == Inv => TypeOK
<1> SUFFICES ASSUME Inv
             PROVE  TypeOK
  OBVIOUS
<1> USE DEF Inv
<1>1. /\ frames \in Seq(ArenaFrameState) /\ metas \in Seq(Meta)
      /\ objects \in Seq([id : Ids, ref : Held]) /\ windows \in Seq([Regs -> Held])
      /\ globals \in [Vars -> Held] /\ heap \in [DOMAIN heap -> Held] /\ DOMAIN heap \subseteq 1 .. made
      /\ made \in 0 .. MaxMade
  BY DEF Control, Contents
<1>2. Held \subseteq Value
  BY DEF Held
<1>3. \A i \in DOMAIN objects : objects[i].id \in Ids /\ objects[i].ref \in Value
  <2>1. \A i \in DOMAIN objects : objects[i] \in [id : Ids, ref : Held]
    BY <1>1, LenProperties, ElementOfSeq
  <2> QED
    BY <2>1, <1>2
<1>4. global_top \in 0 .. RegionBytes
  <2>1. Len(frames) \in Nat /\ \A i \in 1 .. Len(frames) : frames[i] \in ArenaFrameState
    BY <1>1, LenProperties, ElementOfSeq
  <2>2. End(frames, Len(frames)) \in Nat
    BY <2>1 DEF End, ArenaFrameState
  <2> QED
    BY <2>2 DEF Bytes
<1>5. \A i \in DOMAIN metas : /\ metas[i].arena \in Nat /\ metas[i].into.reg \in Regs
                              /\ metas[i].into.window \in Nat \ {0}
  <2>1. \A i \in DOMAIN metas : metas[i] \in Meta
    BY <1>1, LenProperties, ElementOfSeq
  <2> QED
    BY <2>1 DEF Meta, Into
<1>6. windows \in Seq([Regs -> Value]) \ {<<>>}
  <2>1. [Regs -> Held] \subseteq [Regs -> Value]
    BY <1>2
  <2>2. windows \in Seq([Regs -> Value])
    BY <1>1, <2>1, SeqMonotonic
  <2>3. windows # <<>>
    <3>1. Len(metas) \in Nat /\ Len(windows) \in Nat
      BY <1>1, LenProperties
    <3>2. phase \in {"run", "failed"} \/ phase = "host" \/ phase = "halted"
      BY DEF Control
    <3>3. CASE phase \in {"run", "failed"}
      <4>1. Len(windows) = Len(metas) + 1
        BY <3>3 DEF Depths
      <4> QED
        BY <3>1, <4>1, EmptySeq
    <3>4. CASE phase \in {"host", "halted"}
      <4>1. phase = "host" => Len(windows) >= 1
        BY DEF Depths
      <4>2. phase = "halted" => Len(windows) = 1
        BY DEF Depths
      <4>3. Len(windows) >= 1
        BY <3>4, <4>1, <4>2
      <4> QED
        BY <4>3, EmptySeq
    <3> QED
      BY <3>2, <3>3, <3>4
  <2> QED
    BY <2>2, <2>3
<1>7. globals \in [Vars -> Value] /\ \A id \in DOMAIN heap : heap[id] \in Value
  BY <1>1, <1>2
<1>8. DOMAIN heap \subseteq Ids
  BY <1>1 DEF Ids
<1> QED
  BY <1>1, <1>3, <1>4, <1>5, <1>6, <1>7, <1>8 DEF TypeOK, Control

LEMMA InvInPlace == Inv => FramesInPlace
<1> SUFFICES ASSUME Inv
             PROVE  FramesInPlace
  OBVIOUS
<1> USE DEF Inv
<1> DEFINE n == Len(frames)
           m == Len(objects)
           objectsOf(i) == [k \in 1 .. frames[i].obj_count |->
                              IF frames[i].obj_start + k \in DOMAIN objects
                              THEN objects[frames[i].obj_start + k].id ELSE 0]
<1>1. /\ frames \in Seq(ArenaFrameState) /\ metas \in Seq(Meta) /\ Len(metas) = n
      /\ objects \in Seq([id : Ids, ref : Held]) /\ n \in Nat /\ m \in Nat
      /\ DOMAIN frames = 1 .. n /\ DOMAIN metas = 1 .. n /\ DOMAIN objects = 1 .. m
      /\ \A i \in 1 .. n : frames[i] \in ArenaFrameState
  BY LenProperties, ElementOfSeq DEF Control, Contents, Depths
<1>2. [i \in DOMAIN metas |-> metas[i].arena] = [i \in DOMAIN frames |-> i - 1]
  BY <1>1 DEF Depths
<1>3. \A i \in 1 .. n : frames[i].start = IF i = 1 THEN 0 ELSE frames[i - 1].start + frames[i - 1].top
  <2>1. \A i \in 1 .. n : frames[i].start = End(frames, i - 1) /\ (i - 1 = 0 <=> i = 1)
    BY <1>1 DEF Bytes
  <2> QED
    BY <2>1 DEF End
<1>4. ASSUME NEW i \in 1 .. n
      PROVE  objectsOf(i) = frames[i].made
  <2> DEFINE count == frames[i].obj_count
             ids   == frames[i].made
  <2>1. ids \in Seq(Ids) /\ count \in Nat /\ frames[i].obj_start \in Nat
    BY <1>1 DEF ArenaFrameState
  <2>2. Len(ids) = count /\ frames[i].obj_start + count <= m
        /\ \A k \in 1 .. count : objects[frames[i].obj_start + k].id = ids[k]
    BY DEF Placed
  <2>3. ids = [k \in 1 .. count |-> ids[k]]
    BY <2>1, <2>2, LenProperties
  <2>4. \A k \in 1 .. count : frames[i].obj_start + k \in DOMAIN objects
    BY <1>1, <2>1, <2>2
  <2> HIDE DEF ids, count
  <2> QED
    BY <2>2, <2>3, <2>4 DEF ids, count
<1>5. global_top = IF frames = <<>> THEN 0 ELSE frames[n].start + frames[n].top
  <2>1. frames = <<>> <=> n = 0
    BY <1>1, EmptySeq
  <2> QED
    BY <2>1 DEF Bytes, End
<1>6. ASSUME NEW k \in 1 .. m
      PROVE  \E i \in 1 .. n : k - frames[i].obj_start \in 1 .. frames[i].obj_count
  <2>1. PICK i \in 1 .. n : frames[i].obj_start < k /\ k <= frames[i].obj_start + frames[i].obj_count
    BY DEF Placed
  <2>2. frames[i].obj_start \in Nat /\ frames[i].obj_count \in Nat
    BY <1>1 DEF ArenaFrameState
  <2>3. k - frames[i].obj_start \in 1 .. frames[i].obj_count
    BY <1>1, <2>1, <2>2
  <2> QED
    BY <2>3
<1> QED
  BY <1>1, <1>2, <1>3, <1>4, <1>5, <1>6 DEF FramesInPlace

(* TypeOK: the registers, globals, objects and arenas are what the code      *)
(* declares them to be, after any sequence of calls and returns.             *)
THEOREM ArenaTypes == Spec => []TypeOK
<1>1. Inv => TypeOK
  BY InvTypes
<1> QED
  BY <1>1, AlwaysInv, PTL

(* FramesInPlace: whatever has escaped, been promoted or failed, the arenas  *)
(* of the frames partition the bytes and the objects in the order of the     *)
(* calls, and the objects of each are where its values look for them         *)
(* (arena.rs, begin_frame to end_frame; call_dispatch.rs, pop_frame).        *)
THEOREM ArenaFrames == Spec => []FramesInPlace
<1>1. Inv => FramesInPlace
  BY InvInPlace
<1> QED
  BY <1>1, AlwaysInv, PTL

-----------------------------------------------------------------------------
(* What is reached.  The recursion of ReachedFrom ends because the values    *)
(* are finitely many.                                                        *)

\* A set of naturals with an element has a least one.
LEMMA LeastNat ==
  ASSUME NEW T \in SUBSET Nat, T # {}
  PROVE  \E n \in T : \A m \in T : n <= m
<1>1. PICK n \in T : \A m \in T : ~ <<m, n>> \in OpToRel(<, Nat)
  BY NatLessThanWellFounded, WFMin
<1>2. \A m \in T : ~ (m < n)
  BY <1>1 DEF OpToRel
<1> QED
  BY <1>2

LEMMA NamedFinite == IsFiniteSet(Named)
<1> DEFINE P == {"arena", "heap"} \X ((0 .. MaxMade) \X Ids)
           f == [p \in P |-> [home |-> p[1], idx |-> p[2][1], obj |-> p[2][2]]]
<1>1. IsFiniteSet({"arena", "heap"})
  <2>1. IsFiniteSet({"arena"})
    BY FS_Singleton
  <2>2. IsFiniteSet({"arena"} \cup {"heap"})
    BY <2>1, FS_AddElement
  <2>3. {"arena"} \cup {"heap"} = {"arena", "heap"}
    OBVIOUS
  <2> QED
    BY <2>2, <2>3
<1>2. IsFiniteSet(0 .. MaxMade) /\ IsFiniteSet(Ids)
  <2>1. 0 \in Int /\ 1 \in Int /\ MaxMade \in Int
    OBVIOUS
  <2> QED
    BY <2>1, FS_Interval DEF Ids
<1>3. IsFiniteSet(P)
  BY <1>1, <1>2, FS_Product
<1>4. f \in Surjection(P, Named)
  <2>1. f \in [P -> Named]
    BY DEF Named
  <2>2. ASSUME NEW v \in Named
        PROVE  \E p \in P : f[p] = v
    <3> DEFINE p == <<v.home, <<v.idx, v.obj>>>>
    <3>1. p \in P
      BY DEF Named
    <3>2. f[p] = v
      BY <3>1 DEF Named
    <3> QED
      BY <3>1, <3>2
  <2> QED
    BY <2>1, <2>2 DEF Surjection
<1> HIDE DEF P, f
<1> QED
  BY <1>3, <1>4, FS_Surjection

Closed(t) == \A v \in t : ObjectOf(v).ref \in Named => ObjectOf(v).ref \in t
Least(s)  == {v \in Named : \A t \in SUBSET Named : s \subseteq t /\ Closed(t) => v \in t}
Grown(s)  == s \cup ({ObjectOf(v).ref : v \in s} \cap Named)

LEMMA GrownFacts ==
  ASSUME NEW s \in SUBSET Named
  PROVE  /\ Grown(s) \in SUBSET Named /\ s \subseteq Grown(s)
         /\ Grown(s) = s => Least(s) = s
         /\ Least(Grown(s)) = Least(s)
<1>1. Grown(s) \in SUBSET Named /\ s \subseteq Grown(s)
  BY DEF Grown
<1>2. ASSUME Grown(s) = s
      PROVE  Least(s) = s
  <2>1. Closed(s)
    BY <1>2 DEF Grown, Closed
  <2> QED
    BY <2>1 DEF Least
<1>3. ASSUME NEW t \in SUBSET Named, Closed(t)
      PROVE  s \subseteq t <=> Grown(s) \subseteq t
  BY <1>3 DEF Closed, Grown
<1>4. Least(Grown(s)) = Least(s)
  BY <1>3 DEF Least
<1> QED
  BY <1>1, <1>2, <1>4

LEMMA ReachIsLeast ==
  ASSUME NEW from \in SUBSET Named
  PROVE  ReachedFrom(from) = Least(from)
<1> DEFINE Step(r) == [s \in SUBSET Named |-> IF Grown(s) = s THEN s ELSE r[Grown(s)]]
           reach   == CHOOSE r : r = Step(r)
           least   == [s \in SUBSET Named |-> Least(s)]
<1>1. ReachedFrom(from) = reach[from]
  BY DEF ReachedFrom, Grown
<1>2. least = Step(least)
  BY GrownFacts
<1>3. reach = Step(reach)
  BY <1>2
<1> HIDE DEF reach
<1> DEFINE wrong == {s \in SUBSET Named : reach[s] # Least(s)}
           Missing(s) == Cardinality(Named \ s)
           counts == {Missing(s) : s \in wrong}
<1>4. \A s \in SUBSET Named : Missing(s) \in Nat
  BY NamedFinite, FS_Subset, FS_CardinalityType
<1>5. wrong = {}
  <2> SUFFICES ASSUME wrong # {}
               PROVE  FALSE
    OBVIOUS
  <2>1. counts \in SUBSET Nat /\ counts # {}
    BY <1>4
  <2>2. PICK n \in counts : \A m \in counts : n <= m
    BY <2>1, LeastNat
  <2>3. PICK s \in wrong : n = Missing(s)
    BY <2>2
  <2> DEFINE more == Grown(s)
  <2>4. more \in SUBSET Named /\ s \in SUBSET Named /\ s \subseteq more
    BY GrownFacts
  <2>5. reach[s] = IF more = s THEN s ELSE reach[more]
    BY <1>3, <2>4
  <2>6. more # s
    BY <2>4, <2>5, GrownFacts
  <2>7. reach[more] # Least(more)
    BY <2>4, <2>5, <2>6, GrownFacts
  <2> HIDE DEF more
  <2>8. Missing(more) \in counts
    BY <2>4, <2>7
  <2>9. Missing(more) < Missing(s)
    <3>1. Named \ more \subseteq Named \ s /\ Named \ more # Named \ s
      BY <2>4, <2>6
    <3>2. IsFiniteSet(Named \ s) /\ Named \ more \in SUBSET (Named \ s)
      <4>1. Named \ s \in SUBSET Named
        OBVIOUS
      <4> QED
        BY <3>1, <4>1, NamedFinite, FS_Subset
    <3>3. Cardinality(Named \ more) <= Cardinality(Named \ s)
          /\ (Cardinality(Named \ more) = Cardinality(Named \ s) => Named \ more = Named \ s)
      BY <3>1, <3>2, FS_Subset
    <3>4. Missing(more) \in Nat /\ Missing(s) \in Nat
      BY <1>4, <2>4
    <3>5. Missing(more) <= Missing(s) /\ Missing(more) # Missing(s)
      BY <3>1, <3>3
    <3> HIDE DEF Missing
    <3> QED
      BY <3>4, <3>5
  <2>10. n <= Missing(more) /\ n = Missing(s) /\ n \in Nat /\ Missing(more) \in Nat
    BY <1>4, <2>2, <2>3, <2>4, <2>8
  <2> HIDE DEF Missing
  <2> QED
    BY <2>9, <2>10
<1> QED
  BY <1>1, <1>5

\* The least set with those it starts from that holds what its values name.
LEMMA ReachFacts ==
  ASSUME NEW from \in SUBSET Named
  PROVE  /\ from \subseteq ReachedFrom(from) /\ ReachedFrom(from) \in SUBSET Named
         /\ Closed(ReachedFrom(from))
         /\ \A t \in SUBSET Named : from \subseteq t /\ Closed(t) => ReachedFrom(from) \subseteq t
<1>1. ReachedFrom(from) = Least(from)
  BY ReachIsLeast
<1>2. Closed(Least(from))
  <2> SUFFICES ASSUME NEW v \in Least(from), ObjectOf(v).ref \in Named, NEW t \in SUBSET Named,
                      from \subseteq t, Closed(t)
               PROVE  ObjectOf(v).ref \in t
    BY DEF Closed, Least
  <2>1. v \in t
    BY DEF Least
  <2> QED
    BY <2>1 DEF Closed
<1> QED
  BY <1>1, <1>2 DEF Least

-----------------------------------------------------------------------------
(* What is kept: as long as nothing has happened that harm lists, there is   *)
(* a set of values with all that the registers and the globals hold, each    *)
(* of which finds its object, and with what that object names.               *)
Sound(L) == \A v \in L : v \in Held /\ Finds(v) /\ ObjectOf(v).ref \in L \cup {Nil}
Kept     == harm = {} => \E L \in SUBSET Named : Roots \subseteq L /\ Sound(L)

Registered(ws) == UNION {Range(ws[w]) : w \in DOMAIN ws}

\* A value is in a register, or not.
LEMMA InRegister ==
  ASSUME NEW V, NEW ws \in Seq([Regs -> V])
  PROVE  /\ \A v \in Registered(ws) : \E w \in 1 .. Len(ws), r \in Regs : v = ws[w][r]
         /\ \A w \in 1 .. Len(ws) : \A r \in Regs : ws[w][r] \in Registered(ws)
<1>1. DOMAIN ws = 1 .. Len(ws) /\ \A w \in 1 .. Len(ws) : ws[w] \in [Regs -> V]
  BY LenProperties, ElementOfSeq
<1> QED
  BY <1>1 DEF Registered, Range

LEMMA RootsNamed ==
  ASSUME Contents
  PROVE  /\ Roots = (Registered(windows) \cup Range(globals)) \ {Nil}
         /\ Roots \in SUBSET Named
         /\ \A w \in 1 .. Len(windows) : \A r \in Regs : windows[w][r] \in Roots \cup {Nil}
         /\ \A x \in Vars : globals[x] \in Roots \cup {Nil}
<1>1. Roots = (Registered(windows) \cup Range(globals)) \ {Nil}
  BY DEF Roots, Registers, Registered
<1>2. Registered(windows) \subseteq Held
  <2> SUFFICES ASSUME NEW v \in Registered(windows)
               PROVE  v \in Held
    OBVIOUS
  <2>1. PICK w \in 1 .. Len(windows), r \in Regs : v = windows[w][r]
    BY InRegister DEF Contents
  <2>2. windows[w] \in [Regs -> Held]
    BY ElementOfSeq DEF Contents
  <2> QED
    BY <2>1, <2>2
<1>3. Range(globals) \subseteq Held
  BY DEF Range, Contents
<1>4. Held \subseteq Named \cup {Nil}
  BY DEF Held, Value
<1>5. \A w \in 1 .. Len(windows) : \A r \in Regs : windows[w][r] \in Registered(windows)
  BY InRegister DEF Contents
<1>6. \A x \in Vars : globals[x] \in Range(globals)
  BY DEF Range, Contents
<1> QED
  BY <1>1, <1>2, <1>3, <1>4, <1>5, <1>6

\* Where a value of the next state comes from.
LEMMA RootsNext ==
  ASSUME Inv', NEW L,
         \A w \in 1 .. Len(windows') : \A r \in Regs : windows'[w][r] \in L \cup {Nil},
         \A x \in Vars : globals'[x] \in L \cup {Nil}
  PROVE  Roots' \subseteq L
<1> SUFFICES ASSUME NEW v \in Roots'
             PROVE  v \in L
  OBVIOUS
<1>1. v # Nil /\ (v \in Registered(windows') \/ v \in Range(globals'))
  BY DEF Roots, Registers, Registered
<1>2. windows' \in Seq([Regs -> Held']) /\ globals' \in [Vars -> Held']
  BY DEF Inv, Contents
<1>3. CASE v \in Registered(windows')
  <2>1. \E w \in 1 .. Len(windows'), r \in Regs : v = windows'[w][r]
    <3>1. DOMAIN windows' = 1 .. Len(windows')
          /\ \A w \in 1 .. Len(windows') : windows'[w] \in [Regs -> Held']
      BY <1>2, LenProperties, ElementOfSeq
    <3> QED
      BY <3>1, <1>3 DEF Registered, Range
  <2>2. PICK w \in 1 .. Len(windows'), r \in Regs : v = windows'[w][r]
    BY <2>1
  <2> QED
    BY <1>1, <2>2
<1>4. CASE v \in Range(globals')
  BY <1>1, <1>2, <1>4 DEF Range
<1> QED
  BY <1>1, <1>3, <1>4

LEMMA SameSound ==
  ASSUME NEW L, Sound(L), UNCHANGED <<objects, heap>>
  PROVE  Sound(L)'
BY DEF Sound, Held, Finds, ObjectOf, NoObject

LEMMA KeptReached == Inv /\ Kept => KeptUnlessHarmed
<1> SUFFICES ASSUME Inv, Kept, harm = {}
             PROVE  \A v \in Live : Finds(v)
  BY DEF KeptUnlessHarmed
<1>1. PICK L \in SUBSET Named : Roots \subseteq L /\ Sound(L)
  BY DEF Kept
<1>2. Closed(L)
  BY <1>1 DEF Sound, Closed, ArenaAssumption
<1>3. Roots \in SUBSET Named
  BY RootsNamed DEF Inv
<1>4. Live \subseteq L
  BY <1>1, <1>2, <1>3, ReachFacts DEF Live
<1> QED
  BY <1>1, <1>4 DEF Sound

LEMMA InitKept == Init => Kept
<1> SUFFICES ASSUME Init
             PROVE  Kept
  OBVIOUS
<1>1. Inv
  BY InitInv
<1>2. Registered(windows) \subseteq {Nil}
  <2> SUFFICES ASSUME NEW v \in Registered(windows)
               PROVE  v = Nil
    OBVIOUS
  <2>1. PICK w \in 1 .. Len(windows), r \in Regs : v = windows[w][r]
    BY <1>1, InRegister DEF Inv, Contents
  <2>2. Len(windows) = 1 /\ windows[1] = [q \in Regs |-> Nil]
    BY DEF Init, Fresh
  <2> QED
    BY <2>1, <2>2
<1>3. Range(globals) \subseteq {Nil}
  BY DEF Init, Range
<1>4. Roots = {}
  BY <1>1, <1>2, <1>3, RootsNamed DEF Inv
<1> QED
  BY <1>4 DEF Kept, Sound

\* A step that leaves objects and heap alone, and puts in a register or a global
\* what was in one, or what the object of one names.
LEMMA ApartKept ==
  ASSUME Inv, Kept, Inv', UNCHANGED <<objects, heap, harm>>,
         \A L \in SUBSET Named : Roots \subseteq L /\ Sound(L) =>
           /\ \A w \in 1 .. Len(windows') : \A r \in Regs : windows'[w][r] \in L \cup {Nil}
           /\ \A x \in Vars : globals'[x] \in L \cup {Nil}
  PROVE  Kept'
<1> SUFFICES ASSUME harm = {}
             PROVE  \E L \in SUBSET Named : Roots' \subseteq L /\ Sound(L)'
  BY DEF Kept
<1>1. PICK L \in SUBSET Named : Roots \subseteq L /\ Sound(L)
  BY DEF Kept
<1>2. Roots' \subseteq L
  BY <1>1, RootsNext
<1>3. Sound(L)'
  BY <1>1, SameSound
<1> QED
  BY <1>2, <1>3

\* What the running code reads is kept, and what its object names.
LEMMA ReadKept ==
  ASSUME Inv, windows # <<>>, NEW L, Roots \subseteq L, Sound(L), NEW r \in Regs
  PROVE  /\ Reg(r) \in L \cup {Nil}
         /\ Reg(r) # Nil => ObjectOf(Reg(r)).ref \in L \cup {Nil}
<1>1. Top \in 1 .. Len(windows)
  BY RegType DEF Inv
<1>2. Reg(r) \in L \cup {Nil}
  BY <1>1, RootsNamed DEF Reg, Inv
<1> QED
  BY <1>2 DEF Sound

LEMMA ApartStepsKept ==
  ASSUME Inv, Kept,
         \/ \E r, s \in Regs : Load(r, s) \/ Call(r, s)
         \/ \E x \in Vars, r \in Regs : StoreGlobal(x, r)
         \/ Halt \/ Fail \/ HostCall \/ HostFail \/ HostDone
  PROVE  Kept'
<1>1. Inv'
  BY ApartSteps, CallSteps
<1>2. UNCHANGED <<objects, heap, harm>>
  BY DEF Load, Call, StoreGlobal, Halt, Fail, HostCall, HostFail, HostDone, BeginFrame, regionVars
<1> SUFFICES ASSUME NEW L \in SUBSET Named, Roots \subseteq L, Sound(L)
             PROVE  /\ \A w \in 1 .. Len(windows') : \A r \in Regs : windows'[w][r] \in L \cup {Nil}
                    /\ \A x \in Vars : globals'[x] \in L \cup {Nil}
  BY <1>1, <1>2, ApartKept
<1>3. /\ \A w \in 1 .. Len(windows) : \A r \in Regs : windows[w][r] \in L \cup {Nil}
      /\ \A x \in Vars : globals[x] \in L \cup {Nil}
  BY RootsNamed DEF Inv
<1>4. /\ windows \in Seq([Regs -> Held]) /\ globals \in [Vars -> Held] /\ Len(windows) \in Nat
      /\ Len(metas) \in Nat
  BY LenProperties DEF Inv, Contents, Control
<1>5. ASSUME phase \in {"run", "host"}
      PROVE  windows # <<>>
  BY <1>4, <1>5, EmptySeq DEF Inv, Depths
<1>6. ASSUME NEW v, windows' = Append(windows, Window(v)), v \in L \cup {Nil}
      PROVE  \A w \in 1 .. Len(windows') : \A r \in Regs : windows'[w][r] \in L \cup {Nil}
  <2> SUFFICES ASSUME NEW w \in 1 .. Len(windows'), NEW r \in Regs
               PROVE  windows'[w][r] \in L \cup {Nil}
    OBVIOUS
  <2> DEFINE e == Window(v)
  <2>1. e[r] \in L \cup {Nil}
    BY <1>6 DEF Window
  <2> HIDE DEF e
  <2>2. windows' = Append(windows, e)
    BY <1>6 DEF e
  <2>3. /\ Len(windows') = Len(windows) + 1 /\ windows'[Len(windows) + 1] = e
        /\ \A i \in 1 .. Len(windows) : windows'[i] = windows[i]
    BY <1>4, <2>2
  <2>4. w = Len(windows) + 1 \/ w \in 1 .. Len(windows)
    BY <1>4, <2>3
  <2> QED
    BY <1>3, <2>1, <2>3, <2>4
<1>7. ASSUME NEW r \in Regs, NEW s \in Regs, Load(r, s)
      PROVE  /\ \A w \in 1 .. Len(windows') : \A q \in Regs : windows'[w][q] \in L \cup {Nil}
             /\ \A x \in Vars : globals'[x] \in L \cup {Nil}
  <2>1. windows # <<>>
    BY <1>5, <1>7 DEF Load, Running
  <2>2. PICK v \in Sources(s) : SetReg(r, v)
    BY <1>7 DEF Load
  <2>3. v \in L \cup {Nil}
    <3>1. Range(globals) \subseteq L \cup {Nil}
      BY <1>3, <1>4 DEF Range
    <3> QED
      BY <2>1, <2>2, <3>1, ReadKept DEF Sources
  <2>4. Top \in 1 .. Len(windows) /\ windows[Top] \in [Regs -> Held]
    BY <2>1, RegType DEF Inv
  <2>5. windows' = [windows EXCEPT ![Top] = [windows[Top] EXCEPT ![r] = v]]
    BY <2>2 DEF SetReg
  <2>6. Len(windows') = Len(windows)
        /\ \A w \in 1 .. Len(windows) : windows'[w] = IF w = Top THEN [windows[Top] EXCEPT ![r] = v]
                                                     ELSE windows[w]
    BY <1>4, <2>4, <2>5, LenProperties
  <2>7. \A q \in Regs : [windows[Top] EXCEPT ![r] = v][q] \in {v, windows[Top][q]}
    BY <2>4
  <2>8. UNCHANGED globals
    BY <1>7 DEF Load
  <2> QED
    BY <1>3, <2>3, <2>4, <2>6, <2>7, <2>8
<1>8. ASSUME NEW x \in Vars, NEW r \in Regs, StoreGlobal(x, r)
      PROVE  /\ \A w \in 1 .. Len(windows') : \A q \in Regs : windows'[w][q] \in L \cup {Nil}
             /\ \A y \in Vars : globals'[y] \in L \cup {Nil}
  <2>1. windows # <<>>
    BY <1>5, <1>8 DEF StoreGlobal, Running
  <2>2. Reg(r) \in L \cup {Nil}
    BY <2>1, ReadKept
  <2>3. globals' = [globals EXCEPT ![x] = Reg(r)] /\ UNCHANGED windows
    BY <1>8 DEF StoreGlobal
  <2> QED
    BY <1>3, <1>4, <2>2, <2>3
<1>9. ASSUME NEW r \in Regs, NEW s \in Regs, Call(r, s)
      PROVE  /\ \A w \in 1 .. Len(windows') : \A q \in Regs : windows'[w][q] \in L \cup {Nil}
             /\ \A x \in Vars : globals'[x] \in L \cup {Nil}
  <2>1. windows # <<>>
    BY <1>5, <1>9 DEF Call, Running
  <2>2. Reg(s) \in L \cup {Nil}
    BY <2>1, ReadKept
  <2>3. windows' = Append(windows, Window(Reg(s))) /\ UNCHANGED globals
    BY <1>9 DEF Call
  <2> QED
    BY <1>3, <1>6, <2>2, <2>3
<1>10. CASE HostCall
  <2>1. windows' = Append(windows, Window(Nil)) /\ UNCHANGED globals
    BY <1>10 DEF HostCall
  <2> QED
    BY <1>3, <1>6, <2>1
<1>11. CASE HostFail
  <2>1. windows' = <<windows[1]>> /\ UNCHANGED globals /\ 1 \in 1 .. Len(windows)
    BY <1>4, <1>11 DEF HostFail
  <2>2. Len(windows') = 1 /\ windows'[1] = windows[1]
    BY <2>1
  <2> QED
    BY <1>3, <2>1, <2>2
<1>12. CASE Halt \/ Fail \/ HostDone
  BY <1>3, <1>12 DEF Halt, Fail, HostDone
<1> QED
  BY <1>7, <1>8, <1>9, <1>10, <1>11, <1>12

\* A new object, and the value that names it.
LEMMA ArrayNewKept ==
  ASSUME Inv, Kept, NEW r \in Regs, ArrayNew(r)
  PROVE  Kept'
<1>1. Inv'
  BY ArrayNewInv
<1>2. UNCHANGED <<globals, harm>> /\ made' = made + 1
  BY DEF ArrayNew
<1> SUFFICES ASSUME harm = {}
             PROVE  \E L \in SUBSET Named : Roots' \subseteq L /\ Sound(L)'
  BY <1>2 DEF Kept
<1>3. PICK L \in SUBSET Named : Roots \subseteq L /\ Sound(L)
  BY DEF Kept
<1>4. /\ \A w \in 1 .. Len(windows) : \A q \in Regs : windows[w][q] \in L \cup {Nil}
      /\ \A x \in Vars : globals[x] \in L \cup {Nil}
  BY <1>3, RootsNamed DEF Inv
<1>5. /\ windows \in Seq([Regs -> Held]) /\ globals \in [Vars -> Held] /\ Len(windows) \in Nat
      /\ objects \in Seq([id : Ids, ref : Held]) /\ Len(objects) \in Nat /\ Len(metas) \in Nat
      /\ made \in Nat /\ Len(objects) <= made /\ DOMAIN heap \subseteq 1 .. made /\ made < MaxMade
  BY LenProperties, SMTT(30) DEF Inv, Contents, Control, Numbered, ArrayNew
<1>6. windows # <<>>
  BY <1>5, EmptySeq DEF Inv, Depths, ArrayNew, Running
<1>7. Top \in 1 .. Len(windows) /\ windows[Top] \in [Regs -> Held]
  BY <1>6, RegType DEF Inv
<1>8. ASSUME NEW v, SetReg(r, v)
      PROVE  Roots' \subseteq L \cup {v}
  <2>1. windows' = [windows EXCEPT ![Top] = [windows[Top] EXCEPT ![r] = v]]
    BY <1>8 DEF SetReg
  <2>2. Len(windows') = Len(windows)
        /\ \A w \in 1 .. Len(windows) : windows'[w] = IF w = Top THEN [windows[Top] EXCEPT ![r] = v]
                                                     ELSE windows[w]
    BY <1>5, <1>7, <2>1, LenProperties, SMTT(30)
  <2>3. \A q \in Regs : [windows[Top] EXCEPT ![r] = v][q] \in {v, windows[Top][q]}
    BY <1>7
  <2>4. \A w \in 1 .. Len(windows') : \A q \in Regs : windows'[w][q] \in L \cup {v} \cup {Nil}
    BY <1>4, <1>7, <2>2, <2>3
  <2>5. \A x \in Vars : globals'[x] \in L \cup {v} \cup {Nil}
    BY <1>2, <1>4
  <2> DEFINE M == L \cup {v}
  <2>6. /\ \A w \in 1 .. Len(windows') : \A q \in Regs : windows'[w][q] \in M \cup {Nil}
        /\ \A x \in Vars : globals'[x] \in M \cup {Nil}
    BY <2>4, <2>5
  <2> HIDE DEF M
  <2>7. Roots' \subseteq M
    BY <1>1, <2>6, RootsNext
  <2> QED
    BY <2>7 DEF M
<1>9. CASE ArenaHere
  <2>p. PICK new, obj, v : /\ new = made + 1 /\ obj = [id |-> new, ref |-> Nil]
                          /\ v = [home |-> "arena", idx |-> Len(objects), obj |-> new]
    OBVIOUS
  <2>1. AllocateObject(Last(metas).arena, obj) /\ SetReg(r, v) /\ UNCHANGED heap
    BY <1>2, <1>9, <2>p DEF ArrayNew
  <2>2. /\ Len(objects') = Len(objects) + 1 /\ objects'[Len(objects) + 1] = obj
        /\ \A k \in 1 .. Len(objects) : objects'[k] = objects[k]
    <3>1. objects' = Append(objects, obj)
      BY <2>1 DEF AllocateObject
    <3> QED
      BY <1>5, <3>1
  <2>3. v \in Named
    BY <1>5, <2>p DEF Named, Ids
  <2>4. v \in Held'
    BY <2>3, <2>p DEF Held, Value
  <2>5. ObjectOf(v)' = obj /\ obj.id = v.obj /\ obj.ref = Nil
    BY <1>5, <2>2, <2>p DEF ObjectOf
  <2>6. \A w \in L : w \in Held' /\ ObjectOf(w)' = ObjectOf(w)
    <3> SUFFICES ASSUME NEW w \in L
                 PROVE  w \in Held' /\ ObjectOf(w)' = ObjectOf(w)
      OBVIOUS
    <3>1. w \in Held /\ w # Nil /\ Finds(w) /\ w \in Named
      BY <1>3 DEF Sound
    <3>2. w \in Held'
      BY <2>1, <3>1 DEF Held
    <3>3. CASE w.home = "heap"
      BY <2>1, <3>2, <3>3 DEF ObjectOf
    <3>4. CASE w.home # "heap"
      <4>1. w.idx < Len(objects) /\ w.idx + 1 \in 1 .. Len(objects) /\ w.idx \in Nat
        BY <3>1, <3>4, ObjectOfType DEF Finds, Inv
      <4>2. w.idx < Len(objects')
        BY <1>5, <2>2, <4>1
      <4> QED
        BY <2>2, <3>2, <3>4, <4>1, <4>2 DEF ObjectOf
    <3> QED
      BY <3>3, <3>4
  <2>7. Sound(L \cup {v})'
    <3>1. \A w \in L : w \in Held' /\ Finds(w)' /\ ObjectOf(w).ref' \in L \cup {Nil}
      BY <1>3, <2>6 DEF Sound, Finds
    <3>2. v \in Held' /\ Finds(v)' /\ ObjectOf(v).ref' = Nil
      BY <2>4, <2>5 DEF Finds
    <3> QED
      BY <3>1, <3>2 DEF Sound
  <2>8. Roots' \subseteq L \cup {v}
    BY <1>8, <2>1
  <2> QED
    BY <2>3, <2>7, <2>8
<1>10. CASE ~ArenaHere
  <2>p. PICK new, v : new = made + 1 /\ v = OnHeap(new)
    OBVIOUS
  <2>1. /\ heap' = [id \in DOMAIN heap \cup {new} |-> IF id = new THEN Nil ELSE heap[id]]
        /\ SetReg(r, v) /\ UNCHANGED objects
    BY <1>2, <1>10, <2>p DEF ArrayNew, regionVars
  <2>2. v \in Named /\ v.home = "heap" /\ v.obj = new
    BY <1>5, <2>p DEF Named, Ids, OnHeap
  <2>3. DOMAIN heap' = DOMAIN heap \cup {new} /\ heap'[new] = Nil
        /\ \A id \in DOMAIN heap : heap'[id] = heap[id]
    BY <1>5, <2>1, <2>p
  <2>4. v \in Held' /\ ObjectOf(v)' = [id |-> new, ref |-> Nil]
    BY <2>2, <2>3 DEF Held, Value, ObjectOf
  <2>5. \A w \in L : w \in Held' /\ ObjectOf(w)' = ObjectOf(w)
    <3> SUFFICES ASSUME NEW w \in L
                 PROVE  w \in Held' /\ ObjectOf(w)' = ObjectOf(w)
      OBVIOUS
    <3>1. w \in Held /\ w # Nil /\ w \in Named
      BY <1>3 DEF Sound
    <3>2. w \in Held'
      BY <2>3, <3>1 DEF Held
    <3>3. w.home = "heap" => w.obj \in DOMAIN heap
      BY <3>1 DEF Held
    <3> QED
      BY <2>1, <2>3, <3>2, <3>3 DEF ObjectOf, NoObject
  <2>6. Sound(L \cup {v})'
    <3>1. \A w \in L : w \in Held' /\ Finds(w)' /\ ObjectOf(w).ref' \in L \cup {Nil}
      BY <1>3, <2>5 DEF Sound, Finds
    <3>2. v \in Held' /\ Finds(v)' /\ ObjectOf(v).ref' = Nil
      BY <2>2, <2>4 DEF Finds
    <3> QED
      BY <3>1, <3>2 DEF Sound
  <2>7. Roots' \subseteq L \cup {v}
    BY <1>8, <2>1
  <2> QED
    BY <2>2, <2>6, <2>7
<1> QED
  BY <1>9, <1>10

\* What is stored into an object was in a register.
LEMMA SetIndexMutKept ==
  ASSUME Inv, Kept, NEW r \in Regs, NEW s \in Regs, SetIndexMut(r, s)
  PROVE  Kept'
<1>1. Inv'
  BY SetIndexMutInv
<1>2. UNCHANGED <<globals, harm, windows>> /\ Reg(r) # Nil /\ ObjectOf(Reg(r)) # NoObject
  BY DEF SetIndexMut
<1> SUFFICES ASSUME harm = {}
             PROVE  \E L \in SUBSET Named : Roots' \subseteq L /\ Sound(L)'
  BY <1>2 DEF Kept
<1>3. PICK L \in SUBSET Named : Roots \subseteq L /\ Sound(L)
  BY DEF Kept
<1>4. Roots' = Roots
  BY <1>2 DEF Roots, Registers
<1>5. windows # <<>>
  <2>1. Len(metas) \in Nat
    BY LenProperties DEF Inv, Control
  <2> QED
    BY <2>1, EmptySeq DEF Inv, Depths, SetIndexMut, Running
<1>6. Reg(r) \in Held /\ Reg(s) \in L \cup {Nil} /\ Contents
  BY <1>3, <1>5, RegType, ReadKept DEF Inv
<1>7. /\ heap \in [DOMAIN heap -> Held] /\ objects \in Seq([id : Ids, ref : Held])
      /\ DOMAIN objects = 1 .. Len(objects)
      /\ \A k \in 1 .. Len(objects) : objects[k] \in [id : Ids, ref : Held]
  BY LenProperties, ElementOfSeq DEF Inv, Contents
<1>8. /\ DOMAIN heap' = DOMAIN heap /\ Len(objects') = Len(objects)
      /\ \A id \in DOMAIN heap : heap'[id] \in {heap[id], Reg(s)}
      /\ \A k \in 1 .. Len(objects) : /\ objects'[k].id = objects[k].id
                                      /\ objects'[k].ref \in {objects[k].ref, Reg(s)}
  <2>1. CASE Reg(r).home = "heap"
    BY <1>7, <2>1 DEF SetIndexMut
  <2>2. CASE Reg(r).home # "heap"
    <3> DEFINE i == Reg(r).idx + 1
               o == [objects[i] EXCEPT !.ref = Reg(s)]
    <3>1. i \in 1 .. Len(objects)
      BY <1>2, <1>6, <2>2, ObjectOfType
    <3>2. objects' = [objects EXCEPT ![i] = o] /\ UNCHANGED heap
      BY <2>2 DEF SetIndexMut
    <3>3. o.id = objects[i].id /\ o.ref = Reg(s) /\ o \in [id : Ids, ref : Value]
      <4>1. objects[i] \in [id : Ids, ref : Held]
        BY <1>7, <3>1
      <4>2. Reg(s) \in Value
        BY <1>6 DEF Value
      <4> QED
        BY <4>1, <4>2 DEF Held
    <3> HIDE DEF i, o
    <3>4. Len(objects') = Len(objects)
          /\ \A k \in 1 .. Len(objects) : objects'[k] = IF k = i THEN o ELSE objects[k]
      BY <1>7, <3>1, <3>2, LenProperties
    <3> QED
      BY <3>2, <3>3, <3>4
  <2> QED
    BY <2>1, <2>2
<1>9. ASSUME NEW v \in L
      PROVE  v \in Held' /\ Finds(v)' /\ ObjectOf(v).ref' \in L \cup {Nil}
  <2>1. v \in Held /\ Finds(v) /\ ObjectOf(v).ref \in L \cup {Nil} /\ v # Nil
    BY <1>3 DEF Sound
  <2>2. v \in Held'
    BY <1>8, <2>1 DEF Held
  <2>3. CASE v.home = "heap"
    <3>1. v.obj \in DOMAIN heap /\ ObjectOf(v) = [id |-> v.obj, ref |-> heap[v.obj]]
      BY <1>6, <2>1, <2>3, ObjectOfType DEF Held
    <3>2. ObjectOf(v)' = [id |-> v.obj, ref |-> heap'[v.obj]]
      BY <2>3 DEF ObjectOf
    <3> QED
      BY <1>6, <1>8, <2>1, <2>2, <3>1, <3>2 DEF Finds
  <2>4. CASE v.home # "heap"
    <3>1. v.idx < Len(objects) /\ v.idx + 1 \in 1 .. Len(objects) /\ ObjectOf(v) = objects[v.idx + 1]
      BY <1>6, <2>1, <2>4, ObjectOfType DEF Finds
    <3>2. ObjectOf(v)' = objects'[v.idx + 1]
      BY <1>8, <2>4, <3>1 DEF ObjectOf
    <3> QED
      BY <1>6, <1>8, <2>1, <2>2, <3>1, <3>2 DEF Finds
  <2> QED
    BY <2>3, <2>4
<1> QED
  BY <1>3, <1>4, <1>9 DEF Sound

\* What names one of the objects of the frame that ends.
Naming(places) == {v \in Named : v.home = "arena" /\ v.idx \in places}

\* What is reached when the frame is gone.
Others(ws) == ReachedFrom((Registered(ws) \cup Range(globals)) \ {Nil})

LEMMA ReturnOthers ==
  ASSUME Inv, Kept, harm = {}, NEW s \in Regs, Return(s)
  PROVE  /\ Others(Callers(s)) \in SUBSET Named /\ Sound(Others(Callers(s)))
         /\ \A w \in 1 .. Len(Callers(s)) : \A r \in Regs :
               Callers(s)[w][r] \in Others(Callers(s)) \cup {Nil}
         /\ \A x \in Vars : globals[x] \in Others(Callers(s)) \cup {Nil}
<1> DEFINE ws   == Callers(s)
           from == (Registered(ws) \cup Range(globals)) \ {Nil}
           M    == Others(ws)
<1>1. /\ ws \in Seq([Regs -> Held]) /\ Len(ws) = Len(windows) - 1 /\ Len(windows) \in Nat
      /\ windows # <<>>
      /\ \A w \in 1 .. Len(windows) - 1 : \A q \in Regs : ws[w][q] \in {windows[w][q], Reg(s)}
  BY ReturnFacts
<1> HIDE DEF ws
<1>2. PICK L \in SUBSET Named : Roots \subseteq L /\ Sound(L)
  BY DEF Kept
<1>3. /\ \A v \in Registered(ws) : \E w \in 1 .. Len(ws), r \in Regs : v = ws[w][r]
      /\ \A w \in 1 .. Len(ws) : \A r \in Regs : ws[w][r] \in Registered(ws)
  BY <1>1, InRegister
<1>4. /\ \A w \in 1 .. Len(windows) : \A r \in Regs : windows[w][r] \in L \cup {Nil}
      /\ \A x \in Vars : globals[x] \in L \cup {Nil}
      /\ Reg(s) \in L \cup {Nil}
  BY <1>1, <1>2, RootsNamed, ReadKept DEF Inv
<1>5. globals \in [Vars -> Held]
  BY DEF Inv, Contents
<1>6. from \subseteq L
  <2> SUFFICES ASSUME NEW v \in from
               PROVE  v \in L
    OBVIOUS
  <2>1. CASE v \in Registered(ws)
    <3>1. PICK w \in 1 .. Len(ws), r \in Regs : v = ws[w][r]
      BY <1>3, <2>1
    <3>2. w \in 1 .. Len(windows) - 1 /\ w \in 1 .. Len(windows)
      BY <1>1
    <3> QED
      BY <1>1, <1>4, <3>1, <3>2
  <2>2. CASE v \in Range(globals)
    BY <1>4, <1>5, <2>2 DEF Range
  <2> QED
    BY <2>1, <2>2
<1>7. Closed(L)
  BY <1>2 DEF Sound, Closed
<1>8. /\ M \in SUBSET Named /\ from \subseteq M /\ Closed(M) /\ M \subseteq L
  <2>1. from \in SUBSET Named
    BY <1>6
  <2>2. M = ReachedFrom(from)
    BY DEF Others
  <2> HIDE DEF from, M
  <2> QED
    BY <1>6, <1>7, <2>1, <2>2, ReachFacts
<1>9. Sound(M)
  <2> SUFFICES ASSUME NEW v \in M
               PROVE  v \in Held /\ Finds(v) /\ ObjectOf(v).ref \in M \cup {Nil}
    BY DEF Sound
  <2>1. v \in Held /\ Finds(v) /\ ObjectOf(v).ref \in L \cup {Nil}
    BY <1>2, <1>8 DEF Sound
  <2>2. ObjectOf(v).ref \in Named => ObjectOf(v).ref \in M
    BY <1>8 DEF Closed
  <2> QED
    BY <2>1, <2>2
<1>10. /\ \A w \in 1 .. Len(ws) : \A r \in Regs : ws[w][r] \in M \cup {Nil}
       /\ \A x \in Vars : globals[x] \in M \cup {Nil}
  <2>1. \A x \in Vars : globals[x] \in Range(globals)
    BY <1>5 DEF Range
  <2> HIDE DEF M
  <2> QED
    BY <1>3, <1>8, <2>1
<1> QED
  BY <1>8, <1>9, <1>10 DEF ws

\* Nothing that harm lists has happened: nobody else names the frame's objects,
\* or they are promoted and no object names them.
LEMMA NoHarm ==
  ASSUME NEW f, NEW ws, HarmOfReturn(f, ws) = {}
  PROVE  /\ Escapes(f, ws) => Naming(PlacesOf(f)) \cap {ObjectOf(v).ref : v \in Others(ws)} = {}
         /\ ~Escapes(f, ws) => Naming(PlacesOf(f)) \cap
              (Registered(ws) \cup Range(globals) \cup {ObjectOf(v).ref : v \in Others(ws)}) = {}
<1> DEFINE naming == Naming(PlacesOf(f))
           inside == {ObjectOf(v).ref : v \in Others(ws)}
           outer  == Range(globals) \cup inside
<1>1. HarmOfReturn(f, ws) =
        IF Escapes(f, ws) THEN (IF naming \cap inside # {} THEN {"inner"} ELSE {})
        ELSE {k \in {"range", "outer"} : \/ k = "range" /\ naming \cap Registered(ws) # {}
                                         \/ k = "outer" /\ naming \cap outer # {}}
  BY DEF HarmOfReturn, Naming, Others, Registered
<1>2. Escapes(f, ws) => naming \cap inside = {}
  BY <1>1
<1>3. ASSUME ~Escapes(f, ws)
      PROVE  naming \cap Registered(ws) = {} /\ naming \cap outer = {}
  <2> HIDE DEF naming, outer, inside
  <2>1. "range" \notin HarmOfReturn(f, ws) /\ "outer" \notin HarmOfReturn(f, ws)
    OBVIOUS
  <2> QED
    BY <1>1, <1>3, <2>1
<1> QED
  BY <1>2, <1>3

LEMMA ReturnKept ==
  ASSUME Inv, Kept, NEW s \in Regs, Return(s)
  PROVE  Kept'
<1> DEFINE n == Len(frames)
           m == Len(objects)
           f == TopFrame
           low == FirstObject(f)
           places == PlacesOf(f)
           ws == Callers(s)
<1>p. PICK M : M = Others(ws)
  OBVIOUS
<1> DEFINE inside == {ObjectOf(v).ref : v \in M}
<1>1. Inv'
  BY ReturnInv
<1>2. /\ n \in Nat \ {0} /\ frames[Last(metas).arena + 1] = f
      /\ PopFrame(ws) /\ ws \in Seq([Regs -> Held])
  BY ReturnFacts
<1>3. /\ m \in Nat /\ low \in Nat /\ low <= m /\ places = low .. m - 1
  BY <1>2, TopFrameFacts
<1>4. /\ Len(objects') = low /\ \A k \in 1 .. low : objects'[k] = objects[k]
      /\ harm' = harm \cup HarmOfReturn(f, ws)
  BY PoppedArena
<1> SUFFICES ASSUME harm' = {}
             PROVE  \E L \in SUBSET Named : Roots' \subseteq L /\ Sound(L)'
  BY DEF Kept
<1>5. harm = {} /\ HarmOfReturn(f, ws) = {}
  BY <1>4
<1>6. /\ M \in SUBSET Named /\ Sound(M)
      /\ \A w \in 1 .. Len(ws) : \A r \in Regs : ws[w][r] \in M \cup {Nil}
      /\ \A x \in Vars : globals[x] \in M \cup {Nil}
  BY <1>5, <1>p, ReturnOthers
<1>7. /\ Escapes(f, ws) => Naming(places) \cap inside = {}
      /\ ~Escapes(f, ws) => Naming(places) \cap (Registered(ws) \cup Range(globals) \cup inside) = {}
  BY <1>5, <1>p, NoHarm
<1>8. IF Escapes(f, ws) /\ places # {} THEN Promote(places, ws)
      ELSE windows' = ws /\ UNCHANGED <<heap, globals>>
  BY <1>2 DEF PopFrame
<1>9. M = ReachedFrom((Registered(ws) \cup Range(globals)) \ {Nil})
  BY <1>p DEF Others
<1>c. Contents /\ globals \in [Vars -> Held]
  BY DEF Inv, Contents
<1>o. /\ objects \in Seq([id : Ids, ref : Held])
      /\ \A k \in 1 .. m : objects[k].id \notin DOMAIN heap
  BY DEF Inv, Contents, Numbered
<1> HIDE DEF n, m, f, low, places, ws
<1>10. ASSUME NEW v \in M
       PROVE  /\ v \in Named /\ v # Nil /\ v \in Held /\ Finds(v) /\ ObjectOf(v).ref \in M \cup {Nil}
              /\ v.home = "heap" => v.obj \in DOMAIN heap
              /\ v.home = "heap" => ObjectOf(v) = [id |-> v.obj, ref |-> heap[v.obj]]
              /\ v.home # "heap" => /\ v.home = "arena" /\ v.idx \in Nat /\ v.idx < m
                                    /\ v.idx + 1 \in 1 .. m /\ ObjectOf(v) = objects[v.idx + 1]
  <2>1. v \in Named /\ v # Nil /\ v \in Held /\ Finds(v) /\ ObjectOf(v).ref \in M \cup {Nil}
    BY <1>6 DEF Sound
  <2>2. v.home = "heap" => v.obj \in DOMAIN heap
    BY <2>1 DEF Held
  <2> QED
    BY <2>1, <2>2, <1>c, ObjectOfType DEF Finds, m
\* A value that names none of them finds what it did.
<1>11. ASSUME NEW v \in M, v \notin Naming(places), DOMAIN heap \subseteq DOMAIN heap',
              \A id \in DOMAIN heap : heap'[id] = heap[id]
       PROVE  v \in Held' /\ ObjectOf(v)' = ObjectOf(v) /\ Finds(v)'
  <2>1. v \in Held'
    BY <1>10, <1>11, HeldStays
  <2>2. ObjectOf(v)' = ObjectOf(v)
    <3>1. CASE v.home = "heap"
      BY <1>10, <1>11, <3>1 DEF ObjectOf
    <3>2. CASE v.home # "heap"
      <4>1. /\ v.home = "arena" /\ v.idx \in Nat /\ v.idx < m /\ v \in Named
            /\ ObjectOf(v) = objects[v.idx + 1]
        BY <1>10, <3>2
      <4>2. v.idx \notin places
        BY <1>11, <4>1 DEF Naming
      <4>3. v.idx < low /\ v.idx + 1 \in 1 .. low
        BY <1>3, <4>1, <4>2
      <4>4. ObjectOf(v)' = objects'[v.idx + 1]
        BY <1>4, <3>2, <4>3 DEF ObjectOf
      <4> QED
        BY <1>4, <4>1, <4>3, <4>4
    <3> QED
      BY <3>1, <3>2
  <2> QED
    BY <1>10, <2>1, <2>2 DEF Finds
<1>12. CASE ~(Escapes(f, ws) /\ places # {})
  <2>1. windows' = ws /\ UNCHANGED <<heap, globals>>
    BY <1>8, <1>12
  <2>2. Naming(places) \cap (Registered(ws) \cup Range(globals) \cup inside) = {}
    <3>1. CASE places = {}
      BY <3>1 DEF Naming
    <3>2. CASE ~Escapes(f, ws)
      BY <1>7, <3>2
    <3> QED
      BY <1>12, <3>1, <3>2
  <2>3. M \cap Naming(places) = {}
    <3> DEFINE from == (Registered(ws) \cup Range(globals)) \ {Nil}
               t    == M \ Naming(places)
    <3>1. from \subseteq M
      <4> SUFFICES ASSUME NEW v \in from
                   PROVE  v \in M
        OBVIOUS
      <4>1. CASE v \in Registered(ws)
        <5>1. PICK w \in 1 .. Len(ws), r \in Regs : v = ws[w][r]
          BY <1>2, <4>1, InRegister
        <5> QED
          BY <5>1, <1>6
      <4>2. CASE v \in Range(globals)
        BY <1>6, <1>c, <4>2 DEF Range
      <4> QED
        BY <4>1, <4>2
    <3>2. from \subseteq t /\ from \in SUBSET Named /\ t \in SUBSET Named
      BY <1>6, <2>2, <3>1
    <3>3. Closed(t)
      <4> SUFFICES ASSUME NEW v \in t, ObjectOf(v).ref \in Named
                   PROVE  ObjectOf(v).ref \in t
        BY DEF Closed
      <4>1. ObjectOf(v).ref \in M /\ ObjectOf(v).ref \in inside
        BY <1>10
      <4> QED
        BY <2>2, <4>1
    <3>4. M = ReachedFrom(from)
      BY <1>9
    <3> HIDE DEF from, t
    <3>5. M \subseteq t
      BY <3>2, <3>3, <3>4, ReachFacts
    <3> QED
      BY <3>5 DEF t
  <2>4. Sound(M)'
    <3> SUFFICES ASSUME NEW v \in M
                 PROVE  v \in Held' /\ Finds(v)' /\ ObjectOf(v).ref' \in M \cup {Nil}
      BY DEF Sound
    <3>1. v \in Held' /\ ObjectOf(v)' = ObjectOf(v) /\ Finds(v)'
      BY <1>11, <2>1, <2>3
    <3> QED
      BY <1>10, <3>1
  <2>5. Roots' \subseteq M
    BY <1>1, <1>6, <2>1, RootsNext
  <2> QED
    BY <1>6, <2>4, <2>5
<1>13. CASE Escapes(f, ws) /\ places # {}
  <2> DEFINE R(v) == Rewritten(places, v)
  <2>p. PICK K : K = {R(v) : v \in M}
    OBVIOUS
  <2>1. Promote(places, ws) /\ Naming(places) \cap inside = {}
    BY <1>7, <1>8, <1>13
  <2>2. /\ DOMAIN heap' = DOMAIN heap \cup {objects[i + 1].id : i \in places}
        /\ \A id \in DOMAIN heap : heap'[id] = heap[id]
        /\ \A i \in places : heap'[objects[i + 1].id] = objects[i + 1].ref
        /\ Len(windows') = Len(ws)
        /\ \A w \in 1 .. Len(ws) : \A r \in Regs : windows'[w][r] = R(ws[w][r])
        /\ \A x \in Vars : globals'[x] = R(globals[x])
    <3>1. places \in SUBSET (0 .. Len(objects) - 1)
      BY <1>3 DEF m
    <3> QED
      BY <1>2, <2>1, <3>1, PromoteFacts
  <2>3. R(Nil) = Nil
    BY DEF Rewritten, InArena
  <2>4. ASSUME NEW v \in M, v \notin Naming(places)
        PROVE  R(v) = v
    BY <1>10, <2>4 DEF Rewritten, InArena, Naming
  <2>5. ASSUME NEW v \in M
        PROVE  ObjectOf(v).ref \in K \cup {Nil}
    <3>1. CASE ObjectOf(v).ref = Nil
      BY <3>1
    <3>2. CASE ObjectOf(v).ref # Nil
      <4>1. ObjectOf(v).ref \in M /\ ObjectOf(v).ref \notin Naming(places)
        BY <1>10, <2>1, <3>2
      <4> QED
        BY <2>4, <2>p, <4>1
    <3> QED
      BY <3>1, <3>2
  <2>6. ASSUME NEW v \in M, NEW u, u = R(v)
        PROVE  u \in Named /\ u \in Held' /\ Finds(u)' /\ ObjectOf(u).ref' \in K \cup {Nil}
    <3>1. CASE v \notin Naming(places)
      <4>1. v \in Held' /\ ObjectOf(v)' = ObjectOf(v) /\ Finds(v)'
        BY <1>11, <2>2, <3>1
      <4>2. ObjectOf(v).ref' \in K \cup {Nil}
        BY <2>5, <4>1
      <4>3. u = v
        BY <2>4, <2>6, <3>1
      <4> QED
        BY <1>10, <4>1, <4>2, <4>3
    <3>2. CASE v \in Naming(places)
      <4>1. v.home = "arena" /\ v.idx \in places /\ v # Nil
        BY <1>10, <3>2 DEF Naming
      <4>2. ObjectOf(v) = objects[v.idx + 1] /\ v.idx + 1 \in 1 .. m
        BY <1>10, <4>1
      <4>3. objects[v.idx + 1].id = v.obj /\ v.obj \in Ids
        BY <1>10, <4>2 DEF Finds, Named
      <4>4. u = OnHeap(v.obj)
        BY <2>6, <4>1, <4>3 DEF Rewritten, InArena
      <4>6. u \in Named /\ u.home = "heap" /\ u.obj = v.obj
        BY <4>3, <4>4 DEF OnHeap, Named, Ids
      <4>7. v.obj \in DOMAIN heap' /\ heap'[v.obj] = objects[v.idx + 1].ref
        BY <2>2, <4>1, <4>3
      <4>8. ObjectOf(u)' = [id |-> v.obj, ref |-> heap'[v.obj]]
        BY <4>6 DEF ObjectOf
      <4>9. u \in Held' /\ Finds(u)' /\ ObjectOf(u).ref' \in K \cup {Nil}
        <5>1. ObjectOf(v).ref \in K \cup {Nil}
          BY <2>5
        <5> QED
          BY <4>2, <4>6, <4>7, <4>8, <5>1 DEF Held, Value, Finds
      <4> QED
        BY <4>6, <4>9
    <3> QED
      BY <3>1, <3>2
  <2>7. K \in SUBSET Named /\ Sound(K)'
    <3>1. \A u \in K : u \in Named /\ u \in Held' /\ Finds(u)' /\ ObjectOf(u).ref' \in K \cup {Nil}
      BY <2>6, <2>p
    <3> QED
      BY <3>1 DEF Sound
  <2>8. Roots' \subseteq K
    <3>1. \A v \in M \cup {Nil} : R(v) \in K \cup {Nil}
      BY <2>3, <2>p
    <3>2. /\ \A w \in 1 .. Len(windows') : \A r \in Regs : windows'[w][r] \in K \cup {Nil}
          /\ \A x \in Vars : globals'[x] \in K \cup {Nil}
      BY <1>6, <2>2, <3>1
    <3> QED
      BY <1>1, <3>2, RootsNext
  <2> QED
    BY <2>7, <2>8
<1> QED
  BY <1>12, <1>13

\* Another script: what the globals reach is on the heap.
LEMMA RunKept ==
  ASSUME Inv, Kept, Run
  PROVE  Kept'
<1> DEFINE from == Range(globals) \ {Nil}
<1>1. Inv'
  BY RunInv
<1>2. /\ windows' = Fresh /\ UNCHANGED <<globals, heap>> /\ objects' = <<>>
      /\ harm' = harm \cup (IF \E v \in ReachedFrom(from) : InArena(v) THEN {"reset"} ELSE {})
  BY DEF Run
<1> SUFFICES ASSUME harm' = {}
             PROVE  \E L \in SUBSET Named : Roots' \subseteq L /\ Sound(L)'
  BY DEF Kept
<1>3. harm = {} /\ \A v \in ReachedFrom(from) : ~InArena(v)
  BY <1>2
<1>4. PICK L \in SUBSET Named : Roots \subseteq L /\ Sound(L)
  BY <1>3 DEF Kept
<1>5. globals \in [Vars -> Held] /\ \A x \in Vars : globals[x] \in L \cup {Nil}
  BY <1>4, RootsNamed DEF Inv, Contents
<1>6. from \subseteq L /\ Closed(L)
  BY <1>4, <1>5 DEF Sound, Closed, Range
<1>7. \A x \in Vars : globals[x] \in from \cup {Nil}
  BY <1>5 DEF Range
<1>8. PICK M : M = ReachedFrom(from)
  OBVIOUS
<1>9. M \in SUBSET Named /\ from \subseteq M /\ Closed(M) /\ M \subseteq L
  <2>1. from \in SUBSET Named
    BY <1>6
  <2> HIDE DEF from
  <2> QED
    BY <1>6, <1>8, <2>1, ReachFacts
<1>10. Sound(M)'
  <2> SUFFICES ASSUME NEW v \in M
               PROVE  v \in Held' /\ Finds(v)' /\ ObjectOf(v).ref' \in M \cup {Nil}
    BY DEF Sound
  <2>1. v \in Held /\ Finds(v) /\ ObjectOf(v).ref \in L \cup {Nil} /\ v # Nil /\ v \in Named
    BY <1>4, <1>9 DEF Sound
  <2>2. ObjectOf(v).ref \in M \cup {Nil}
    BY <1>9, <2>1 DEF Closed
  <2>3. v.home = "heap"
    BY <1>3, <1>8, <2>1 DEF InArena, Named
  <2>4. v \in Held' /\ ObjectOf(v)' = ObjectOf(v)
    BY <1>2, <2>1, <2>3 DEF Held, ObjectOf
  <2> QED
    BY <2>1, <2>2, <2>4 DEF Finds
<1>11. Roots' \subseteq M
  <2>1. \A w \in 1 .. Len(windows') : \A r \in Regs : windows'[w][r] = Nil
    BY <1>2 DEF Fresh
  <2>2. \A x \in Vars : globals'[x] \in M \cup {Nil}
    BY <1>2, <1>7, <1>9
  <2> QED
    BY <1>1, <2>1, <2>2, RootsNext
<1> QED
  BY <1>9, <1>10, <1>11

LEMMA StepKept == Inv /\ Kept /\ [Next]_vars => Kept'
<1> SUFFICES ASSUME Inv, Kept, [Next]_vars
             PROVE  Kept'
  OBVIOUS
<1>1. CASE UNCHANGED vars
  BY <1>1, SameSound DEF Kept, Roots, Registers, vars, regionVars
<1>2. ASSUME NEW r \in Regs, NEW s \in Regs, Load(r, s) \/ SetIndexMut(r, s) \/ Call(r, s)
      PROVE  Kept'
  BY <1>2, ApartStepsKept, SetIndexMutKept
<1>3. ASSUME NEW r \in Regs, ArrayNew(r) \/ Return(r)
      PROVE  Kept'
  BY <1>3, ArrayNewKept, ReturnKept
<1>4. CASE \/ \E x \in Vars, r \in Regs : StoreGlobal(x, r)
           \/ Halt \/ Fail \/ HostCall \/ HostFail \/ HostDone \/ Run
  BY <1>4, ApartStepsKept, RunKept
<1> QED
  BY <1>1, <1>2, <1>3, <1>4 DEF Next

(* KeptUnlessHarmed: a value that the program can reach finds the object it  *)
(* was made for, unless a value of a caller was overlooked or only another   *)
(* object or a global named it when its frame ended, it was promoted while   *)
(* another object named it, or the globals outlived the script               *)
(* (call_dispatch.rs, pop_frame; vm.rs, reset_registers_and_frames).         *)
THEOREM ArenaKept == Spec => []KeptUnlessHarmed
<1>1. Init => Kept
  BY InitKept
<1>2. Inv /\ Inv' /\ Kept /\ [Next]_vars => Kept'
  BY StepKept
<1>3. Inv /\ Kept => KeptUnlessHarmed
  BY KeptReached
<1> QED
  BY <1>1, <1>2, <1>3, AlwaysInv, PTL DEF Spec

=============================================================================

------------------------------- MODULE Machine -------------------------------
(***************************************************************************)
(* The instructions at work (nuzo-vm, dispatch_table.rs and dispatch/).    *)
(* Every frame has registers of its own behind its caller's (FrameStack    *)
(* has the arena, GlobalCache the caches in front of the globals, GcHeap   *)
(* the heap).  A closure, an array, a dict, a range and a string chain     *)
(* live on the heap and are known by their address; the closure of         *)
(* function k, which the compiler made a constant, is at address k, and    *)
(* the empty dicts the literals start from are behind the closures.        *)
(***************************************************************************)
EXTENDS Values, NuzoDict, SequencesExt

VARIABLES
  fns,      \* [functions -> [arity, captures, code]], 1 is the program itself
  frames,   \* the calls going on: fn, pc, regs, closure, ret
  globals,  \* [names -> values]
  heap,     \* the objects, by address
  trace,    \* what the host was called with
  status    \* "idle", "running", "halted" or "error"

machine == <<fns, frames, globals, heap, trace, status>>

Host == <<"host">>
IsRef(v) == TypeOf(v) = "ref"
Object(v) == IF IsRef(v) THEN heap[v[2]] ELSE [is |-> "none"]
IsClosure(v) == Object(v).is = "closure"
ClosureOf(k) == [is |-> "closure", fn |-> k, captured |-> <<>>, parent |-> 0]

NewDict == [is |-> "dict", table |-> EmptyDict]

(* The objects a program is loaded with. *)
Constants(code) ==
  UNION {{i[3][2] : i \in {j \in Range(code[k].code) : j[1] = "LoadK" /\ IsRef(j[3])}} : k \in DOMAIN code}
Loaded(code, a) == IF a \in Constants(code) THEN NewDict ELSE ClosureOf(a)

FirstFrame == [fn |-> 1, pc |-> 1, regs |-> <<>>, closure |-> 0, ret |-> 0]
Idle ==
  /\ fns = <<>> /\ frames = <<>> /\ heap = <<>> /\ trace = <<>> /\ status = "idle"
Start(code) ==
  /\ fns' = code
  /\ frames' = <<FirstFrame>>
  /\ heap' = [a \in 1..Max({0} \cup DOMAIN code \cup Constants(code)) |-> Loaded(code, a)]
  /\ status' = "running"
  /\ UNCHANGED <<globals, trace>>

Top == Last(frames)
Code == fns[Top.fn].code
Current == Code[Top.pc]
At(name) == status = "running" /\ Current[1] = name
(* A register nobody wrote holds nil. *)
R(r) == IF r \in DOMAIN Top.regs THEN Top.regs[r] ELSE NilValue

With(f, x, v) == [y \in DOMAIN f \cup {x} |-> IF y = x THEN v ELSE f[y]]
GoTo(pc) == frames' = [frames EXCEPT ![Len(frames)].pc = pc]
Advance == GoTo(Top.pc + 1)
Put(d, v) ==
  frames' = [frames EXCEPT ![Len(frames)].pc = @ + 1, ![Len(frames)].regs = With(@, d, v)]
Fail == status' = "error" /\ UNCHANGED <<fns, frames, globals, heap, trace>>
Result(d, v) ==
  IF v = ErrorValue THEN Fail
  ELSE Put(d, v) /\ UNCHANGED <<fns, globals, heap, trace, status>>
Make(d, object) ==
  /\ heap' = Append(heap, object)
  /\ Put(d, Ref(Len(heap) + 1))
  /\ UNCHANGED <<fns, globals, trace, status>>
Change(v, object) ==
  /\ heap' = [heap EXCEPT ![v[2]] = object]
  /\ Advance
  /\ UNCHANGED <<fns, globals, trace, status>>
-------------------------------------------------------------------------------
(* Registers and arithmetic *)
LoadK == At("LoadK") /\ Result(Current[2], Current[3])
Mov == At("Mov") /\ Result(Current[2], R(Current[3]))
Binary == At("Binary") /\ Result(Current[2], Apply(Current[3], R(Current[4]), R(Current[5])))
Unary == At("Unary") /\ Result(Current[2], ApplyUnary(Current[3], R(Current[4])))
StringBuild ==
  /\ At("StringBuild")
  /\ Result(Current[2], StrValue(FoldLeft(LAMBDA s, k : s \o Repr(R(Current[3] + k - 1)), "",
                                          [k \in 1..Current[4] |-> k])))

(* Control flow *)
Jmp == At("Jmp") /\ GoTo(Current[2]) /\ UNCHANGED <<fns, globals, heap, trace, status>>
Test ==
  /\ At("Test")
  /\ GoTo(IF Truthy(R(Current[2])) THEN Top.pc + 1 ELSE Current[3])
  /\ UNCHANGED <<fns, globals, heap, trace, status>>
Halt == At("Halt") /\ status' = "halted" /\ UNCHANGED <<fns, frames, globals, heap, trace>>

(* Globals *)
GetGlobal ==
  /\ At("GetGlobal")
  /\ Result(Current[2], IF Current[3] \in DOMAIN globals THEN globals[Current[3]] ELSE ErrorValue)
SetGlobal ==
  /\ At("SetGlobal")
  /\ globals' = With(globals, Current[3], R(Current[2]))
  /\ Advance
  /\ UNCHANGED <<fns, heap, trace, status>>

(* Calls: the callee stands before its arguments and gives its register    *)
(* to the result.                                                          *)
Arguments == [k \in 1..Current[3] |-> R(Current[2] + k)]
CallHost ==
  /\ At("Call") /\ R(Current[2]) = Host
  /\ trace' = Append(trace, Arguments)
  /\ Put(Current[2], NilValue)
  /\ UNCHANGED <<fns, globals, heap, status>>
CallClosure ==
  LET f == R(Current[2]) IN
  /\ At("Call") /\ IsClosure(f) /\ fns[Object(f).fn].arity = Current[3]
  /\ frames' = Append(frames, [fn |-> Object(f).fn, pc |-> 1, closure |-> f[2], ret |-> Current[2],
                               regs |-> [r \in 0..(Current[3] - 1) |-> R(Current[2] + r + 1)]])
  /\ UNCHANGED <<fns, globals, heap, trace, status>>
CallFails ==
  LET f == R(Current[2]) IN
  /\ At("Call") /\ f # Host
  /\ ~IsClosure(f) \/ (IsClosure(f) /\ fns[Object(f).fn].arity # Current[3])
  /\ Fail
Return ==
  LET caller == Len(frames) - 1
      value == R(Current[2]) IN
  /\ At("Return")
  /\ frames' = [SubSeq(frames, 1, caller)
                  EXCEPT ![caller].pc = @ + 1, ![caller].regs = With(@, Top.ret, value)]
  /\ UNCHANGED <<fns, globals, heap, trace, status>>

(* _op_initmodule, execute_module_toplevel: the top level of module m runs *)
(* once, marked by a global of its own, in a frame whose result goes to    *)
(* the script's first register.                                            *)
InitFlag(m) == "__init_flag__" \o ToString(m)
Initialised(m) == InitFlag(m) \in DOMAIN globals /\ globals[InitFlag(m)] = BoolValue(TRUE)
(* Mutant: the module is not marked. *)
MutMarked(m) == globals
Marked(m) == With(globals, InitFlag(m), BoolValue(TRUE))
InitModule ==
  LET m == Current[2] IN
  /\ At("InitModule") /\ ~Initialised(m)
  /\ globals' = Marked(m)
  /\ IF m \in DOMAIN fns
     THEN /\ frames' = Append(frames, [fn |-> m, pc |-> 1, closure |-> 0, ret |-> 0, regs |-> <<>>])
          /\ UNCHANGED status
     ELSE status' = "error" /\ UNCHANGED frames
  /\ UNCHANGED <<fns, heap, trace>>
InitAgain ==
  /\ At("InitModule") /\ Initialised(Current[2])
  /\ Advance
  /\ UNCHANGED <<fns, globals, heap, trace, status>>

(* Closures: the instruction loads the constant, Capture fills its object. *)
Closure == At("Closure") /\ Result(Current[2], Ref(Current[3]))
RECURSIVE Outer(_, _)
Outer(a, j) ==
  IF a = 0 THEN ErrorValue
  ELSE IF j \in DOMAIN heap[a].captured THEN heap[a].captured[j] ELSE Outer(heap[a].parent, j)
Captured ==
  IF Current[4] = "value" THEN R(Current[5])
  ELSE Outer(IF Object(R(Current[2])).parent = 0 THEN Top.closure
             ELSE Object(R(Current[2])).parent, Current[5])
Filled(captured, j, v) ==
  [k \in 1..Max({j, Len(captured)}) |->
     IF k = j THEN v ELSE IF k \in DOMAIN captured THEN captured[k] ELSE NilValue]
(* Mutant: a capture always goes to the first place. *)
MutCapture ==
  LET f == R(Current[2]) IN
  /\ At("Capture")
  /\ IF Captured = ErrorValue THEN Fail
     ELSE Change(f, [Object(f) EXCEPT !.captured = Filled(@, 1, Captured), !.parent = Top.closure])
Capture ==
  LET f == R(Current[2]) IN
  /\ At("Capture")
  /\ IF Captured = ErrorValue THEN Fail
     ELSE Change(f, [Object(f) EXCEPT !.captured = Filled(@, Current[3], Captured),
                                      !.parent = Top.closure])
GetCaptured ==
  LET captured == heap[Top.closure].captured IN
  /\ At("GetCaptured")
  /\ Result(Current[2], IF Current[3] \in DOMAIN captured THEN captured[Current[3]] ELSE ErrorValue)

(* Collections *)
ArrayNew == At("ArrayNew") /\ Make(Current[2], [is |-> "array", elements |-> [k \in 1..Current[3] |-> NilValue]])
RangeNew ==
  LET low == R(Current[3])
      high == R(Current[4]) IN
  /\ At("RangeNew")
  /\ IF ~(IsNum(low) /\ IsNum(high)) THEN Fail
     ELSE Make(Current[2], [is |-> "range", low |-> low[2],
                            length |-> Max({0, high[2] - low[2] + (IF Current[5] THEN 1 ELSE 0)})])
Element(object, i) ==
  CASE object.is = "array" /\ IsNum(i) ->
         IF i[2] + 1 \in DOMAIN object.elements THEN object.elements[i[2] + 1] ELSE ErrorValue
    [] object.is = "range" /\ IsNum(i) ->
         IF i[2] \in 0..(object.length - 1) THEN NumValue(object.low + i[2]) ELSE ErrorValue
    [] object.is = "dict" /\ IsStr(i) ->
         IF DictHas(object.table, i[2]) THEN DictGet(object.table, i[2]) ELSE NilValue
    [] OTHER -> ErrorValue
GetIndex == At("GetIndex") /\ Result(Current[2], Element(Object(R(Current[3])), R(Current[4])))
CanSet(v, i) ==
  \/ Object(v).is = "array" /\ IsNum(i) /\ i[2] >= 0
  \/ Object(v).is = "dict" /\ IsStr(i)
(* An array grows to the element that is set. *)
Updated(object, i, v) ==
  IF object.is = "dict" THEN [object EXCEPT !.table = DictInsert(@, i[2], v)]
  ELSE [object EXCEPT !.elements = Filled(@, i[2] + 1, v)]
SetIndex ==
  LET v == R(Current[2]) IN
  /\ At("SetIndex")
  /\ IF CanSet(v, R(Current[3]))
     THEN Make(Current[2], Updated(Object(v), R(Current[3]), R(Current[4])))
     ELSE Fail
SetIndexMut ==
  LET v == R(Current[2]) IN
  /\ At("SetIndexMut")
  /\ IF CanSet(v, R(Current[3])) THEN Change(v, Updated(Object(v), R(Current[3]), R(Current[4])))
     ELSE Fail
LengthOf(object) ==
  CASE object.is = "array" -> NumValue(Len(object.elements))
    [] object.is = "range" -> NumValue(object.length)
    [] object.is = "dict" -> NumValue(DictLen(object.table))
    [] OTHER -> ErrorValue
(* The length of a string is left out. *)
Length == At("Len") /\ Result(Current[2], LengthOf(Object(R(Current[3]))))

(* A property is the length of an array or nil; set, it makes a new dict.  *)
(* The inline cache in front of the first holds nothing but that length.   *)
GetProp ==
  LET object == Object(R(Current[3])) IN
  /\ At("GetProp")
  /\ Result(Current[2], IF object.is = "array" /\ Current[4] \in {"length", "len"} THEN LengthOf(object)
                        ELSE NilValue)
(* Mutant: the dict is changed where it is. *)
MutSetProp ==
  LET v == R(Current[2]) IN
  /\ At("SetProp")
  /\ IF Object(v).is = "dict" THEN Change(v, Updated(Object(v), StrValue(Current[3]), R(Current[4])))
     ELSE Advance /\ UNCHANGED <<fns, globals, heap, trace, status>>
SetProp ==
  LET object == Object(R(Current[2])) IN
  /\ At("SetProp")
  /\ IF object.is = "dict"
     THEN Make(Current[2], Updated(object, StrValue(Current[3]), R(Current[4])))
     ELSE Advance /\ UNCHANGED <<fns, globals, heap, trace, status>>

(* String chains *)
ChainNew == At("SliceChainNew") /\ Make(Current[2], [is |-> "chain", text |-> ""])
ChainAppend ==
  LET v == R(Current[2]) IN
  /\ At("SliceChainAppend")
  /\ Change(v, [Object(v) EXCEPT !.text = @ \o Repr(R(Current[3]))])
ChainFinish == At("SliceChainFinish") /\ Result(Current[2], StrValue(Object(R(Current[3])).text))

Step ==
  \/ LoadK \/ Mov \/ Binary \/ Unary \/ StringBuild
  \/ Jmp \/ Test \/ Halt
  \/ GetGlobal \/ SetGlobal
  \/ CallHost \/ CallClosure \/ CallFails \/ Return
  \/ InitModule \/ InitAgain
  \/ Closure \/ Capture \/ GetCaptured
  \/ ArrayNew \/ RangeNew \/ GetIndex \/ SetIndex \/ SetIndexMut \/ Length
  \/ GetProp \/ SetProp
  \/ ChainNew \/ ChainAppend \/ ChainFinish
-------------------------------------------------------------------------------
(* The registers an instruction reads. *)
Reads(i) ==
  CASE i[1] = "Mov" -> {i[3]}
    [] i[1] = "Binary" -> {i[4], i[5]}
    [] i[1] = "Unary" -> {i[4]}
    [] i[1] = "StringBuild" -> i[3]..(i[3] + i[4] - 1)
    [] i[1] \in {"Test", "SetGlobal", "Return"} -> {i[2]}
    [] i[1] = "Call" -> i[2]..(i[2] + i[3])
    [] i[1] = "Capture" -> {i[2]} \cup (IF i[4] = "value" THEN {i[5]} ELSE {})
    [] i[1] \in {"RangeNew", "GetIndex"} -> {i[3], i[4]}
    [] i[1] \in {"SetIndex", "SetIndexMut"} -> {i[2], i[3], i[4]}
    [] i[1] \in {"Len", "GetProp", "SliceChainFinish"} -> {i[3]}
    [] i[1] = "SetProp" -> {i[2], i[4]}
    [] i[1] = "SliceChainAppend" -> {i[2], i[3]}
    [] OTHER -> {}
===============================================================================

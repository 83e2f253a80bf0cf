----------------------------- MODULE FrameStack -----------------------------
(***************************************************************************)
(* The call frames of nuzo-vm (call_dispatch.rs, frame_v6.rs,              *)
(* frame_paging.rs and the call, return, tail-call and import handlers).   *)
(*                                                                         *)
(* A frame is kept in two halves: its FrameInfo (return address and base)  *)
(* in a fixed ring that overflows into a vector, and its FrameMeta         *)
(* (closure, caller chunk, result register) in another vector.  When the   *)
(* metas reach a threshold the oldest batch of both halves moves to a      *)
(* block on the heap and a trampoline takes their place; pop_frame brings  *)
(* the newest block back.  All windows lie in one register file.           *)
(*                                                                         *)
(* Sequences number from 1, registers from 0: register i is regs[i + 1].   *)
(* The values of frame_data (spill slots, none are emitted today) and the  *)
(* arenas of the frames are not modelled here.                             *)
(***************************************************************************)
EXTENDS Integers, Sequences, SequencesExt, FiniteSets

CONSTANTS
    Closures, Modules, Main,  \* bodies of code
    Argc,          \* arity, \in [Chunks -> Nat]
    Locals,        \* locals_count, \in [Chunks -> Nat]
    Vals, Nil,     \* register values
    Capacity, LowWatermark, SpillBatch,  \* FramePagingConfig
    RingSize,      \* FrameRing::CAPACITY, 64
    MaxStack,      \* max_stack_size
    MaxIp,         \* bound of the model: call sites executed by one activation
    RegCap,        \* bound of the model: registers left by refused host calls
    LeftCap        \* bound of the model: frames left by failed host calls

Chunks == Closures \cup Modules \cup {Main}
End    == MaxIp + 1    \* the instruction pointer after the script's Halt
None   == "none"
Tramp  == "tramp"      \* FrameKind::Trampoline, in place of a closure

ASSUME ChunkAssumption ==
    /\ Argc \in [Chunks -> Nat] /\ Locals \in [Chunks -> Nat]
    /\ \A c \in Modules \cup {Main} : Argc[c] = 0
    /\ Locals[Main] > 0
    /\ Main \notin Closures \cup Modules
    /\ {None, Tramp} \cap Chunks = {}

ASSUME PagerAssumption ==   \* the assertions of FramePager::new
    /\ Capacity \in Nat /\ LowWatermark \in Nat
    /\ SpillBatch \in 1 .. Capacity - 1

ASSUME BoundAssumption ==
    /\ RingSize \in Nat \ {0, 1} /\ MaxStack \in Nat /\ MaxIp \in Nat
    /\ RegCap \in Nat /\ LeftCap \in Nat
    /\ Nil \in Vals

Size == [c \in Chunks |-> Argc[c] + Locals[c]]

VARIABLES
    regs,          \* registers
    write_ptr,     \* register_write_ptr: the registers the GC scans
    ring, overflow,\* FrameInfos: frame_ring, frame_overflow.infos
    metas,         \* frame_metas
    spilled,       \* FramePager::spilled_blocks, the newest last
    depth,         \* FramePager::depth
    current_base,
    chunk, ip,     \* the code being run
    phase,         \* "run", "halted" or "failed" script; "host" call of a function
    saved,         \* what call_global_function restores
    imported       \* modules whose init flag is set (a global)

frameVars == <<ring, overflow, metas, spilled, depth, current_base>>
vars == <<regs, write_ptr, frameVars, chunk, ip, phase, saved, imported>>

Info == [base : Nat, ret : 0 .. End]
Meta == [closure : Chunks \cup {None, Tramp}, into : Nat, chunk : Chunks]
Saved == [ip : 0 .. End, base : Nat, chunk : Chunks, len : Nat]

TrampMeta == [closure |-> Tramp, into |-> 0, chunk |-> Main]
TrampInfo == [base |-> 0, ret |-> 0]

Running == phase \in {"run", "host"} /\ ip # End

Truncated(s, n) == SubSeq(s, 1, IF n < Len(s) THEN n ELSE Len(s))
Fill(n)         == [i \in 1 .. n |-> Nil]
Least(a, b)     == IF a < b THEN a ELSE b

----------------------------------------------------------------------------
(* FrameRing.  The head is a byte masked to the ring, so that a push into   *)
(* the last slot leaves an empty ring.                                     *)
MutRingFull(n) == n >= RingSize
RingFull(n) == n >= RingSize - 1

RingPush(r, info) == IF Len(r) + 1 = RingSize THEN <<>> ELSE Append(r, info)

(* FramePager::should_spill and spill_frames.  The ring is older than the  *)
(* overflow and is put before it; the bottom batch of both halves becomes  *)
(* a block.                                                                *)
ShouldSpill == Len(metas) + LowWatermark >= Capacity

Batch == Least(SpillBatch, Len(metas) - 1)

Spills == ShouldSpill /\ Batch > 0

AllInfos == ring \o overflow

Paged ==   \* the frame state that push_frame finds
    IF Spills
    THEN [ring     |-> <<>>,
          overflow |-> <<TrampInfo>> \o SubSeq(AllInfos, Batch + 1, Len(AllInfos)),
          metas    |-> <<TrampMeta>> \o SubSeq(metas, Batch + 1, Len(metas)),
          spilled  |-> Append(spilled, [infos |-> SubSeq(AllInfos, 1, Batch),
                                        metas |-> SubSeq(metas, 1, Batch)])]
    ELSE [ring |-> ring, overflow |-> overflow, metas |-> metas, spilled |-> spilled]

(* push_frame_with_base                                                    *)
PushFrame(info, meta) ==
    LET p == Paged
        ringDepth == Len(p.metas) - Len(p.overflow)
        toOverflow == RingFull(ringDepth) \/ p.overflow # <<>>
    IN  /\ ring'     = IF toOverflow THEN p.ring ELSE RingPush(p.ring, info)
        /\ overflow' = IF toOverflow THEN Append(p.overflow, info) ELSE p.overflow
        /\ metas'    = Append(p.metas, meta)
        /\ spilled'  = p.spilled
        /\ depth'    = depth + 1
        /\ current_base' = info.base

(* current_v6_info                                                         *)
TopInfo(r, o) == IF o # <<>> THEN Last(o) ELSE Last(r)

TopBase(r, o) == IF o # <<>> \/ r # <<>> THEN TopInfo(r, o).base ELSE 0

(* FramePager::restore_frames, when a trampoline is at the front, and      *)
(* record_pop                                                              *)
MutRestores(m) == Len(m) = 1 /\ m[1].closure = Tramp /\ spilled # <<>>
MutRestoresNot(m) == FALSE
Restores(m) == m # <<>> /\ m[1].closure = Tramp /\ spilled # <<>>

MutPopped == Len(metas) - 1
Popped == IF depth > 0 THEN depth - 1 ELSE 0

(* pop_frame.  The registers of the frame are dropped from file f, and the *)
(* base of the frame below is read before a block is brought back.         *)
PopFrame(f) ==
    LET info == TopInfo(ring, overflow)
        meta == Last(metas)
        r == IF overflow = <<>> THEN Front(ring) ELSE ring
        o == IF overflow = <<>> THEN overflow ELSE Front(overflow)
        m == Front(metas)
        block == Last(spilled)
    IN  /\ metas # <<>> /\ AllInfos # <<>>
        /\ depth' = Popped
        /\ current_base' = TopBase(r, o)
        /\ ring' = r
        /\ IF Restores(m)
           THEN /\ metas'    = block.metas \o Tail(m)
                /\ overflow' = block.infos \o (IF o = <<>> THEN o ELSE Tail(o))
                /\ spilled'  = Front(spilled)
           ELSE metas' = m /\ overflow' = o /\ UNCHANGED spilled
        /\ regs'      = Truncated(f, info.base)
        /\ write_ptr' = Len(regs')
        /\ ip'    = info.ret
        /\ chunk' = meta.chunk

----------------------------------------------------------------------------
(* The instructions.                                                       *)

MutRegister(r) == current_base + r - 1
Register(r) == current_base + r    \* the absolute number of a register

(* set_register, from any instruction that is not a call; compiled code    *)
(* stays in its window.                                                    *)
Store(r, v) ==
    /\ Running
    /\ Register(r) < Len(regs)
    /\ regs' = [regs EXCEPT ![Register(r) + 1] = v]
    /\ UNCHANGED <<write_ptr, frameVars, chunk, ip, phase, saved, imported>>

(* The frame of chunk c: base at the end of the register file, arguments   *)
(* and locals above it.                                                    *)
Activate(c, args, ret, meta) ==
    /\ PushFrame([base |-> Len(regs), ret |-> ret], meta)
    /\ regs'  = regs \o args \o Fill(Locals[c])
    /\ chunk' = c
    /\ ip'    = 0

Fits(c) == Len(regs) + Size[c] <= MaxStack

(* execute_normal_call_closure, execute_closure_fast: the function is in   *)
(* register r, its arguments above it.                                     *)
Call(c, r) ==
    /\ Running /\ ip < MaxIp
    /\ Fits(c)
    /\ Activate(c, SubSeq(regs, Register(r) + 2, Register(r) + 1 + Argc[c]), ip + 1,
                [closure |-> c, into |-> Register(r), chunk |-> chunk])
    /\ write_ptr' = Len(regs')
    /\ UNCHANGED <<phase, saved, imported>>

(* execute_module_toplevel, from InitModule: the flag is set before the    *)
(* module runs, the frame has no closure and its result goes to the        *)
(* script's register 0.                                                    *)
Import(m) ==
    /\ Running /\ ip < MaxIp
    /\ imported' = imported \cup {m}
    /\ IF m \in imported
       THEN ip' = ip + 1 /\ UNCHANGED <<regs, write_ptr, frameVars, chunk>>
       ELSE /\ Fits(m)
            /\ Activate(m, <<>>, ip + 1, [closure |-> None, into |-> 0, chunk |-> chunk])
            /\ write_ptr' = Len(regs')
    /\ UNCHANGED <<phase, saved>>

(* op_return                                                               *)
Return(v) ==
    /\ Running /\ metas # <<>>
    /\ LET into == Last(metas).into
       IN  /\ into < Len(regs)
           /\ PopFrame([regs EXCEPT ![into + 1] = v])
    /\ UNCHANGED <<phase, saved, imported>>

(* try_builtin_tail_call: the result of a builtin in tail position is      *)
(* delivered for the frame, if there is a register for it.                 *)
BuiltinTailCall(v) ==
    /\ Running /\ metas # <<>> /\ chunk # Main
    /\ LET into == Last(metas).into
       IN  PopFrame(IF into < Len(regs) THEN [regs EXCEPT ![into + 1] = v] ELSE regs)
    /\ UNCHANGED <<phase, saved, imported>>

(* apply_tco_reuse.  The arguments slide to the base, and what else the    *)
(* window held stays in it.                                                *)
Slid(r, n) == [i \in DOMAIN regs |->
                 IF i \in current_base + 1 .. current_base + n
                 THEN regs[i + r + 1] ELSE regs[i]]

OldLocals(c) == Len(regs) - current_base - Argc[c]
Outgrows(c)  == Locals[c] > OldLocals(c)

MutMarkAbove(c) == current_base + Argc[c]
MarkAbove(c)    == current_base + Size[c]

TailCall(c, r) ==
    /\ Running /\ metas # <<>> /\ chunk # Main
    /\ Register(r) + 1 + Argc[c] <= Len(regs)
    /\ Outgrows(c) => current_base + Size[c] <= MaxStack
    /\ regs' = Slid(r, Argc[c]) \o
                 (IF Outgrows(c) THEN Fill(Locals[c] - OldLocals(c)) ELSE <<>>)
    /\ write_ptr' = MarkAbove(c)
    /\ metas' = [metas EXCEPT ![Len(metas)].closure = c]
    /\ chunk' = c
    /\ ip'    = 0
    /\ UNCHANGED <<ring, overflow, spilled, depth, current_base, phase, saved, imported>>

(* op_halt, the script's last instruction                                  *)
Halt ==
    /\ Running /\ phase = "run" /\ chunk = Main
    /\ ip'    = End
    /\ phase' = "halted"
    /\ UNCHANGED <<regs, write_ptr, frameVars, chunk, saved, imported>>

(* An instruction returns Err.  Out of run() the frames stay where they    *)
(* are; out of call_global_function they stay too, and the rest of the     *)
(* state is put back.  InitModule may fail after it has set its flag, and  *)
(* a tail call that does not fit after it has moved its arguments.         *)
Restore ==
    /\ regs'  = Truncated(regs, saved.len)
    /\ ip'    = saved.ip
    /\ chunk' = saved.chunk
    /\ current_base' = saved.base
    /\ phase' = "halted"

Fail ==
    /\ Running
    /\ IF phase = "host"
       THEN Restore
       ELSE phase' = "failed" /\ UNCHANGED <<regs, ip, chunk, current_base>>
    /\ imported' \in {imported} \cup {imported \cup {m} : m \in Modules}
    /\ UNCHANGED <<write_ptr, ring, overflow, metas, spilled, depth, saved>>

TailCallFails(c, r) ==
    /\ Running /\ metas # <<>> /\ chunk # Main
    /\ Register(r) + 1 + Argc[c] <= Len(regs)
    /\ Outgrows(c) /\ current_base + Size[c] > MaxStack
    /\ write_ptr' = current_base + Argc[c]
    /\ IF phase = "host"
       THEN Restore
       ELSE phase' = "failed" /\ regs' = Slid(r, Argc[c]) /\ UNCHANGED <<ip, chunk, current_base>>
    /\ UNCHANGED <<ring, overflow, metas, spilled, depth, saved, imported>>

----------------------------------------------------------------------------
(* build_call_stack: the base it shows for the i-th meta in memory.        *)
MutTraceBase(i) ==
    LET ringDepth == Len(metas) - Len(overflow)
    IN  IF i <= ringDepth /\ i \in DOMAIN ring THEN ring[i].base
        ELSE IF i \in DOMAIN overflow THEN overflow[i].base ELSE 0

TraceBase(i) ==
    LET ringDepth == Len(metas) - Len(overflow)
        at(s, k)  == IF k \in DOMAIN s THEN s[k].base ELSE 0
    IN  IF metas[1].closure = Tramp \/ ringDepth = 0 THEN at(overflow, i)
        ELSE IF i <= ringDepth THEN at(ring, i)
        ELSE at(overflow, i - ringDepth)

----------------------------------------------------------------------------
(* The host.                                                               *)

(* call_global_function of a finished script.  The register file grows,    *)
(* register_write_ptr does not.                                            *)
HostCall(c, args) ==
    /\ phase = "halted" /\ depth <= LeftCap
    /\ Fits(c)
    /\ saved' = [ip |-> ip, base |-> current_base, chunk |-> chunk, len |-> Len(regs)]
    /\ Activate(c, args, ip, [closure |-> c, into |-> 0, chunk |-> chunk])
    /\ phase' = "host"
    /\ UNCHANGED <<write_ptr, imported>>

(* A call that does not fit leaves its arguments on the register file.     *)
HostRefused(c, args) ==
    /\ phase = "halted"
    /\ ~Fits(c)
    /\ Len(regs) + Argc[c] <= RegCap
    /\ regs' = regs \o args
    /\ UNCHANGED <<write_ptr, frameVars, chunk, ip, phase, saved, imported>>

(* The function has returned to the script, whose code is at its end, and  *)
(* run_inner leaves its loop.                                              *)
HostDone ==
    /\ phase = "host" /\ ip = End
    /\ Restore
    /\ UNCHANGED <<write_ptr, ring, overflow, metas, spilled, depth, saved, imported>>

(* run(), through reset_and_load_chunk, with another script                *)
Run ==
    /\ phase \in {"halted", "failed"}
    /\ regs'      = Fill(Locals[Main])
    /\ write_ptr' = Locals[Main]
    /\ ring' = <<>> /\ overflow' = <<>> /\ metas' = <<>> /\ spilled' = <<>>
    /\ depth' = 0 /\ current_base' = 0
    /\ chunk' = Main /\ ip' = 0
    /\ phase' = "run"
    /\ UNCHANGED <<saved, imported>>

Init ==
    /\ regs      = Fill(Locals[Main])
    /\ write_ptr = Locals[Main]
    /\ ring = <<>> /\ overflow = <<>> /\ metas = <<>> /\ spilled = <<>>
    /\ depth = 0 /\ current_base = 0
    /\ chunk = Main /\ ip = 0
    /\ phase = "run"
    /\ saved = [ip |-> 0, base |-> 0, chunk |-> Main, len |-> 0]
    /\ imported = {}

Tuples(n) == [1 .. n -> Vals]

Next ==
    \/ \E v \in Vals : Return(v) \/ BuiltinTailCall(v)
    \/ \E r \in 0 .. Size[chunk] - 1, v \in Vals : Store(r, v)
    \/ \E c \in Closures :
         \/ \E r \in 0 .. Size[chunk] - 1 - Argc[c] :
               Call(c, r) \/ TailCall(c, r) \/ TailCallFails(c, r)
         \/ \E args \in Tuples(Argc[c]) : HostCall(c, args) \/ HostRefused(c, args)
    \/ \E m \in Modules : Import(m)
    \/ Halt \/ Fail \/ HostDone \/ Run

Spec == Init /\ [][Next]_vars
----------------------------------------------------------------------------
(* The logical stack: the blocks, oldest first, then what is in memory,    *)
(* each without the trampoline at its bottom.  for_each_frame visits these *)
(* metas.                                                                  *)
RealInfos(is) == IF is # <<>> /\ Head(is) = TrampInfo THEN Tail(is) ELSE is
RealMetas(ms) == IF ms # <<>> /\ Head(ms).closure = Tramp THEN Tail(ms) ELSE ms

InfosOf(is, blocks) ==
    FlattenSeq([b \in DOMAIN blocks |-> RealInfos(blocks[b].infos)]) \o RealInfos(is)
MetasOf(ms, blocks) ==
    FlattenSeq([b \in DOMAIN blocks |-> RealMetas(blocks[b].metas)]) \o RealMetas(ms)

LogicalInfos == InfosOf(AllInfos, spilled)
LogicalMetas == MetasOf(metas, spilled)

(* The first frame of infos is that is not left over from a failed call:   *)
(* all of a script's, in a host call those from the host's own frame on.   *)
LiveFrom(is) ==
    CASE phase = "run" -> 1
      [] phase = "host" /\ ip # End -> Max({i \in DOMAIN is : is[i].ret = End})
      [] OTHER -> Len(is) + 1

(* The activations of CallStack, read off register file rs, for the live   *)
(* frames' infos and metas.  Activation 1 is the script's.                 *)
BaseOf(infos, k) == IF k = 1 THEN 0 ELSE infos[k - 1].base

WindowOf(rs, infos, k) ==
    SubSeq(rs, BaseOf(infos, k) + 1, IF k > Len(infos) THEN Len(rs) ELSE BaseOf(infos, k + 1))

OwnerOf(infos, d, k) == Max({j \in 1 .. k - 1 : BaseOf(infos, j) <= d})

ActivationOf(rs, infos, live, k) ==
    IF k = 1
    THEN [locals |-> WindowOf(rs, infos, 1), back |-> [chunk |-> Main, ip |-> End], into |-> <<1, 0>>]
    ELSE LET d == live[k - 1].into
             o == OwnerOf(infos, d, k)
         IN  [locals |-> WindowOf(rs, infos, k),
              back   |-> [chunk |-> live[k - 1].chunk, ip |-> infos[k - 1].ret],
              into   |-> <<o, d - BaseOf(infos, o)>>]

ActivationsOf(rs, infos, live) ==
    [k \in 1 .. Len(infos) + 1 |-> ActivationOf(rs, infos, live, k)]

Live(s) == SubSeq(s, LiveFrom(LogicalInfos), Len(s))

(* (the one element of the set, so that TLC evaluates the stack once)      *)
Activations ==
    IF phase = "failed" THEN <<>>
    ELSE CHOOSE a \in {ActivationsOf(regs, infos, live) :
                          infos \in {Live(LogicalInfos)}, live \in {Live(LogicalMetas)}} : TRUE

Calls == INSTANCE CallStack WITH
            frames <- Activations, code <- [chunk |-> chunk, ip |-> ip]

(* The flat register file, the two halves of the frames, the ring, the     *)
(* overflow and the paging together behave as a stack of separate windows: *)
(* a return resumes its own caller at its own call site, with every        *)
(* register but the result as the caller left it, however often frames     *)
(* were paged out and back in between.                                     *)
ImplementsCallStack == Calls!Spec

(* Types, and the ring within its slots.                                   *)
TypeOK ==
    /\ regs \in Seq(Vals) /\ write_ptr \in Nat
    /\ ring \in Seq(Info) /\ Len(ring) < RingSize /\ overflow \in Seq(Info)
    /\ metas \in Seq(Meta)
    /\ spilled \in Seq([infos : Seq(Info), metas : Seq(Meta)])
    /\ depth \in Nat /\ current_base \in Nat
    /\ chunk \in Chunks /\ ip \in 0 .. End
    /\ phase \in {"run", "halted", "failed", "host"}
    /\ saved \in Saved /\ imported \subseteq Modules

(* "frame_metas and ring + overflow are in step throughout push, pop,      *)
(* spill and restore" (variable_ops.rs, build_call_stack): the halves have *)
(* the same length and the same trampolines, in memory and in each block.  *)
InStep(infos, ms) ==
    /\ Len(infos) = Len(ms)
    /\ \A i \in DOMAIN ms : ms[i].closure = Tramp <=> infos[i] = TrampInfo

HalvesInStep ==
    /\ InStep(AllInfos, metas)
    /\ \A b \in DOMAIN spilled : InStep(spilled[b].infos, spilled[b].metas)

(* A trampoline stands only at the bottom, for a block, and is never what  *)
(* the next pop_frame takes (its debug_assert): there is always a frame    *)
(* above it, and it is resolved before the last of them goes.              *)
OnlyFirst(ms, present) == \A i \in DOMAIN ms : ms[i].closure = Tramp <=> i = 1 /\ present

TrampolinesAtBottom ==
    /\ OnlyFirst(metas, spilled # <<>>)
    /\ \A b \in DOMAIN spilled : OnlyFirst(spilled[b].metas, b > 1)
    /\ spilled # <<>> => Len(metas) > 1

(* The frames the GC visits (for_each_frame), in memory and paged out, are  *)
(* the frames pushed and not popped, as many as call_depth() counts.       *)
DepthIsFrames == depth = Len(LogicalMetas)

(* Registers are addressed from the base of the frame on top, although     *)
(* pop_frame reads it before it brings back a block.                       *)
BaseOfTop ==
    Running => current_base = IF LogicalInfos = <<>> THEN 0 ELSE Last(LogicalInfos).base

Shown == {i \in DOMAIN metas : metas[i].closure # Tramp}

(* An error's stack trace shows each frame with its own base, whether its  *)
(* info is in the ring, in the overflow or came back from a block.         *)
TraceBasesRight ==
    LET hidden == Len(LogicalInfos) - Cardinality(Shown)
        above(i) == Cardinality({j \in Shown : j <= i})
    IN  \A i \in Shown : TraceBase(i) = LogicalInfos[hidden + above(i)].base

(* The code that runs has its whole window in the register file, which is  *)
(* indexed without a check ("caller ensures index < len"), and in a script *)
(* also below the mark up to which the GC scans it, tail calls included.   *)
WindowEnd == current_base + Size[chunk]

WindowHeld ==
    /\ Running => WindowEnd <= Len(regs)
    /\ phase = "run" => WindowEnd <= write_ptr /\ write_ptr <= Len(regs)

----------------------------------------------------------------------------
(* What the code's texts say and the code does not do.                     *)

(* "a frame stack of fixed capacity" (frame_paging.rs, module comment).    *)
FitsCapacity == Len(metas) <= Capacity

(* "when functions return level by level and reach the trampoline, it      *)
(* brings the frames back" (frame_paging.rs): not while frames above it    *)
(* remain in memory.                                                       *)
RestoresAtTrampoline ==
    [][depth' = depth - 1 /\ Len(spilled') < Len(spilled) => Len(metas) = 2]_vars

(* "the module's OP_RETURN restores the caller's state" (helpers.rs): the  *)
(* return of an import changes no register of its caller.                  *)
ImportKeepsCaller ==
    [][metas # <<>> /\ Last(metas).closure = None /\ depth' = depth - 1 /\ phase' = phase
         => regs' = Truncated(regs, Last(LogicalInfos).base)]_vars

(* "Restore state" at the end of call_global_function (vm.rs): a finished  *)
(* call leaves no frame behind.                                            *)
HostCallLeavesNoFrame == phase = "halted" => metas = <<>>

(* "the caller must rewrite the root set (registers, ...)" (alloc.rs,      *)
(* safe_point): the window of the function the host calls is scanned.      *)
HostRegistersRooted == phase = "host" /\ Running => WindowEnd <= write_ptr

(* "the complete call stack" (nuzo-error, diagnostic.rs): an error's trace *)
(* shows every frame of the script.                                        *)
TraceComplete == phase = "run" => Cardinality(Shown) = depth
=============================================================================

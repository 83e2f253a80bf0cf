------------------------------ MODULE RegAlloc ------------------------------
(***************************************************************************)
(* Register allocation of the code generator: the pool (reg_pool.rs), the   *)
(* use counts that keep a value alive (value_tracker.rs, reg_manager.rs)    *)
(* and the shapes in which the emit_* functions of codegen.rs drive them    *)
(* while they turn one function's IR into instructions.                     *)
(*                                                                         *)
(* A step is one emit_op: the allocator's calls in their order and the      *)
(* effect of the emitted instructions on the registers. Registers hold      *)
(* names of values, not data: holds[r] = v says r carries the value v, and  *)
(* an instruction that finds another value in one of its operands computes  *)
(* Junk. Blocks are followed in emission order (the allocator sees no       *)
(* other); what a jump skips is the subject of module Compiler.             *)
(*                                                                         *)
(* consume_use returns a register to the free list when its region is Temp. *)
(* RegionsPersist says no value ever lives in such a register, so the       *)
(* branch is never taken and has no action here.                            *)
(***************************************************************************)
EXTENDS RegPool, FiniteSets

CONSTANTS
  Values,            \* the ValueRefs of the function
  Names,             \* names of SetLocal and GetLocal
  Junk,              \* a register nobody may rely on
  MaxFunctionLocals, \* MAX_FUNCTION_LOCALS
  MaxParams,         \* bound: parameters of a function
  MaxOperands,       \* bound: operands of an instruction, arguments of a call
  MaxUses            \* bound: uses counted for a value

ASSUME RegAssumption ==
  /\ MaxFunctionLocals \in Nat /\ MaxParams \in Nat
  /\ MaxOperands \in Nat /\ MaxUses \in Nat
  /\ Values \cap Names = {} /\ Junk \notin Values \cup Names

\* Calls place arguments behind the callee without asking the pool.
Registers == 0 .. MaxFunctionLocals + MaxOperands
Param(i) == <<"param", i>>
Contents == Values \cup Names \cup {Junk} \cup {Param(i) : i \in 0 .. MaxParams}
Operands == UNION {[1 .. k -> Values] : k \in 0 .. MaxOperands}

VARIABLES
  pool,    \* DualPool: top, peak, and temp_free with the next one last
  reg,     \* [values alive -> register], ValueTracker.slots
  left,    \* [values alive -> remaining_uses]
  region,  \* [Registers -> "none", "persist" or "temp"], reg_region
  local,   \* [names set -> register], local_map
  holds,   \* [Registers -> what the emitted code leaves there]
  params,  \* parameters of this function
  loaded,  \* parameters loaded so far
  reused,  \* history: a call with arguments took its window from temp_free
  failed   \* emission stopped with an error

vars == <<pool, reg, left, region, local, holds, params, loaded, reused, failed>>

Alive == DOMAIN reg

-----------------------------------------------------------------------------
(* Room in the pool: a register of either kind past the cursor *)

CanGrow(p, n) == p.top + n <= MaxFunctionLocals
CanTemp(p) == p.free # <<>> \/ CanGrow(p, 1)

-----------------------------------------------------------------------------
(* Uses *)

Count(vs, v) == Cardinality({i \in DOMAIN vs : vs[i] = v})

\* Every operand is alive, and count_usages saw these uses.
Ready(vs) == \A i \in DOMAIN vs : vs[i] \in Alive /\ Count(vs, vs[i]) <= left[vs[i]]

\* consume_use of each operand: who is still alive afterwards
Kept(vs) == {v \in Alive : Count(vs, v) = 0 \/ Count(vs, v) < left[v]}

Consume(vs) ==
  /\ reg' = [v \in Kept(vs) |-> reg[v]]
  /\ left' = [v \in Kept(vs) |-> left[v] - Count(vs, v)]

\* allocate_def after the operands vs: a value defined in another block keeps its register
Home(d, vs, p) == IF d \in Kept(vs) THEN reg[d] ELSE p.top
AfterDef(d, vs, p) == IF d \in Kept(vs) THEN p ELSE Grow(p, 1)

ConsumeAndDefine(vs, d, n, home) ==
  /\ reg' = [v \in Kept(vs) \cup {d} |-> IF v \in Kept(vs) THEN reg[v] ELSE home]
  /\ left' = [v \in Kept(vs) \cup {d} |-> IF v \in Kept(vs) THEN left[v] - Count(vs, v) ELSE n]

\* f with the entries of g in place of its own, and what such a g is made of
Put(f, g) == [r \in Registers |-> IF r \in DOMAIN g THEN g[r] ELSE f[r]]
Each(rs, what) == [r \in rs |-> what]

Right(vs) == \A i \in DOMAIN vs : holds[reg[vs[i]]] = vs[i]
Outcome(ok, v) == IF ok THEN v ELSE Junk

-----------------------------------------------------------------------------
(* The function: parameters first, then instructions *)

Start(k) ==
  [pool |-> NewPool, holds |-> [r \in Registers |-> IF r < k THEN Param(r) ELSE Junk]]

Init ==
  /\ params \in 0 .. MaxParams
  /\ pool = Start(params).pool
  /\ holds = Start(params).holds
  /\ reg = << >> /\ left = << >> /\ local = << >>
  /\ region = [r \in Registers |-> "none"]
  /\ loaded = 0 /\ reused = FALSE /\ failed = FALSE

\* generate_function of the next function: a manager of its own, an empty local_map
NextFunction ==
  /\ \E k \in 0 .. MaxParams :
       /\ params' = k
       /\ pool' = Start(k).pool
       /\ holds' = Start(k).holds
  /\ reg' = << >> /\ left' = << >> /\ local' = << >>
  /\ region' = [r \in Registers |-> "none"]
  /\ loaded' = 0 /\ reused' = FALSE /\ failed' = FALSE

\* LoadArg: the builder emits one per parameter before anything else.
LoadArg(d, n) ==
  /\ ~failed /\ loaded < params /\ d \notin Alive /\ CanGrow(pool, 1)
  /\ ConsumeAndDefine(<<>>, d, n, pool.top)
  /\ pool' = Grow(pool, 1)
  /\ region' = [region EXCEPT ![pool.top] = "persist"]
  /\ holds' = [holds EXCEPT ![pool.top] = Outcome(holds[loaded] = Param(loaded), d)]
  /\ loaded' = loaded + 1
  /\ UNCHANGED <<local, params, reused, failed>>

Emitting == ~failed /\ loaded = params

\* Operands, then a register for the result: loads, arithmetic, fields, indices,
\* ranges, Len, Select, GetGlobal, GetCapture, Closure, SliceChainFinish.
Compute(d, n, vs) ==
  /\ Emitting /\ d \notin Alive /\ Ready(vs) /\ CanGrow(pool, 1)
  /\ ConsumeAndDefine(vs, d, n, pool.top)
  /\ pool' = Grow(pool, 1)
  /\ region' = [region EXCEPT ![pool.top] = "persist"]
  /\ holds' = [holds EXCEPT ![pool.top] = Outcome(Right(vs), d)]
  /\ UNCHANGED <<local, params, loaded, reused, failed>>

\* Operands only: stores, Print, JumpIf, Return, Out, Capture, SliceChainAppend.
Effect(vs) ==
  /\ Emitting /\ vs # <<>> /\ Ready(vs)
  /\ Consume(vs)
  /\ UNCHANGED <<pool, region, local, holds, params, loaded, reused, failed>>

\* Mov: the only instruction that defines a value again.
Mov(d, n, s) ==
  /\ Emitting /\ d # s /\ Ready(<<s>>)
  /\ CanGrow(pool, 1) \/ d \in Alive
  /\ LET home == Home(d, <<s>>, pool) IN
       /\ ConsumeAndDefine(<<s>>, d, n, home)
       /\ pool' = AfterDef(d, <<s>>, pool)
       /\ region' = [region EXCEPT ![home] = IF d \in Kept(<<s>>) THEN @ ELSE "persist"]
       /\ holds' = [holds EXCEPT ![home] = Outcome(Right(<<s>>), d)]
  /\ UNCHANGED <<local, params, loaded, reused, failed>>

\* What the i-th argument Mov finds, after the callee and the arguments before it moved.
Moved(args, save, callee, i) ==
  LET r == reg[args[i]] IN
  CASE r = save -> callee
    [] r \in save + 1 .. save + i - 1 /\ args[r - save] # args[i] -> Junk
    [] OTHER -> holds[r]

\* Call: the callee to a temporary that is not given back, the arguments behind it.
Call(d, n, c, args) ==
  LET save == TempOf(pool)
      after == AfterTemp(pool)
      callee == holds[reg[c]]
      window == [r \in save + 1 .. save + Len(args) |-> Moved(args, save, callee, r - save)]
      ok == callee = c /\ \A i \in DOMAIN args : Moved(args, save, callee, i) = args[i]
  IN
  /\ Emitting /\ d \notin Alive /\ Ready(<<c>> \o args)
  /\ CanTemp(pool) /\ CanGrow(after, 1)
  /\ ConsumeAndDefine(<<c>> \o args, d, n, after.top)
  /\ pool' = Grow(after, 1)
  /\ region' = Put(Put(region, Each({save}, "temp")), Each({after.top}, "persist"))
  /\ holds' = Put(Put(holds, window), Each({save, after.top}, Outcome(ok, d)))
  /\ reused' = (reused \/ (pool.free # <<>> /\ args # <<>>))
  /\ UNCHANGED <<local, params, loaded, failed>>

\* Capture of a global: it passes through a temporary that is not given back.
CaptureGlobal(c) ==
  /\ Emitting /\ Ready(<<c>>) /\ CanTemp(pool)
  /\ Consume(<<c>>)
  /\ pool' = AfterTemp(pool)
  /\ region' = [region EXCEPT ![TempOf(pool)] = "temp"]
  /\ holds' = [holds EXCEPT ![TempOf(pool)] = Junk]
  /\ UNCHANGED <<local, params, loaded, reused, failed>>

\* SetLocal: the first one gives the name a register for good.
SetLocal(x, v) ==
  /\ Emitting /\ Ready(<<v>>) /\ Consume(<<v>>)
  /\ \/ /\ x \in DOMAIN local
        /\ holds' = [holds EXCEPT ![local[x]] = Outcome(Right(<<v>>), x)]
        /\ UNCHANGED <<pool, region, local>>
     \/ /\ x \notin DOMAIN local /\ CanTemp(pool)
        /\ local' = [y \in DOMAIN local \cup {x} |->
                       IF y \in DOMAIN local THEN local[y] ELSE TempOf(pool)]
        /\ pool' = AfterTemp(pool)
        /\ region' = [region EXCEPT ![TempOf(pool)] = "temp"]
        /\ holds' = [holds EXCEPT ![TempOf(pool)] = Outcome(Right(<<v>>), x)]
  /\ UNCHANGED <<params, loaded, reused, failed>>

GetLocal(d, n, x) ==
  /\ Emitting /\ d \notin Alive /\ x \in DOMAIN local /\ CanGrow(pool, 1)
  /\ ConsumeAndDefine(<<>>, d, n, pool.top)
  /\ pool' = Grow(pool, 1)
  /\ region' = [region EXCEPT ![pool.top] = "persist"]
  /\ holds' = [holds EXCEPT ![pool.top] = Outcome(holds[local[x]] = x, d)]
  /\ UNCHANGED <<local, params, loaded, reused, failed>>

\* ArrayNew: the result first, then a temporary for the index between a checkpoint
\* and its restore.
ArrayNew(d, n, vs) ==
  LET defined == Grow(pool, 1)
      idx == TempOf(defined)
      back == RestoreCheckpoint(ReleaseTemp(AfterTemp(defined), idx), SaveCheckpoint(defined))
      marked == Put(Put(region, Each({idx}, "temp")), Each({pool.top}, "persist"))
  IN
  /\ Emitting /\ d \notin Alive /\ Ready(vs) /\ CanGrow(pool, 1) /\ CanTemp(defined)
  /\ ConsumeAndDefine(vs, d, n, pool.top)
  /\ pool' = back
  /\ region' = Put(marked, Each({r \in Registers : r >= back.top}, "none"))
  /\ holds' = Put(Put(holds, Each({idx}, Junk)), Each({pool.top}, Outcome(Right(vs), d)))
  /\ UNCHANGED <<local, params, loaded, reused, failed>>

\* StringBuild: the result, then the operands side by side in a block that is freed at once.
StringBuild(d, n, vs) ==
  LET defined == Grow(pool, 1)
      start == defined.top
      block == start .. start + Len(vs) - 1
      moved == [r \in block |-> holds[reg[vs[r - start + 1]]]]
  IN
  /\ Emitting /\ d \notin Alive /\ vs # <<>> /\ Ready(vs)
  /\ CanGrow(pool, 1) /\ CanGrow(defined, Len(vs))
  /\ ConsumeAndDefine(vs, d, n, pool.top)
  /\ pool' = ReleaseBlock(Grow(defined, Len(vs)), start, Len(vs))
  /\ region' = Put(Put(region, Each({pool.top}, "persist")), Each(block, "none"))
  /\ holds' = Put(Put(holds, moved), Each({pool.top}, Outcome(Right(vs), d)))
  /\ UNCHANGED <<local, params, loaded, reused, failed>>

\* RegPoolExhausted, UndefinedValueRef or an undefined local: the error leaves emit_op.
Fail ==
  /\ ~failed
  /\ \/ ~CanGrow(pool, 1 + MaxOperands)
     \/ \E v \in Values : v \notin Alive
     \/ \E x \in Names : x \notin DOMAIN local
  /\ failed' = TRUE
  /\ UNCHANGED <<pool, reg, left, region, local, holds, params, loaded, reused>>

Next ==
  \/ \E d \in Values, n \in 0 .. MaxUses :
       \/ LoadArg(d, n)
       \/ \E s \in Values : Mov(d, n, s)
       \/ \E x \in Names : GetLocal(d, n, x)
       \/ \E vs \in Operands : \/ Compute(d, n, vs)
                               \/ ArrayNew(d, n, vs)
                               \/ StringBuild(d, n, vs)
                               \/ \E c \in Values : Call(d, n, c, vs)
  \/ \E vs \in Operands : Effect(vs)
  \/ \E v \in Values : CaptureGlobal(v) \/ \E x \in Names : SetLocal(x, v)
  \/ Fail
  \/ NextFunction

Spec == Init /\ [][Next]_vars

-----------------------------------------------------------------------------
(* Properties *)

Cursor == 0 .. MaxFunctionLocals

\* The shape of the state: the pool's cursors within MAX_FUNCTION_LOCALS, a register
\* and a count for every value alive.
TypeOK ==
  /\ pool \in [top : Cursor, peak : Cursor, free : Seq(Registers)]
  /\ pool.top <= pool.peak
  /\ Alive \subseteq Values /\ DOMAIN left = Alive
  /\ \A v \in Alive : reg[v] \in Registers /\ left[v] \in Nat
  /\ region \in [Registers -> {"none", "persist", "temp"}]
  /\ DOMAIN local \subseteq Names
  /\ \A x \in DOMAIN local : local[x] \in Registers
  /\ holds \in [Registers -> Contents]
  /\ params \in 0 .. MaxParams /\ loaded \in 0 .. params
  /\ reused \in BOOLEAN /\ failed \in BOOLEAN

\* One holder per register: no two values, no value and local, no two locals share one,
\* nobody's register is on the free list, and the free list has each register once.
\* This is what DualPool, the use counts and the emitters owe each other.
OneHolder ==
  /\ \A v \in Alive : reg[v] < pool.top
  /\ \A x \in DOMAIN local : local[x] < pool.top
  /\ \A i \in DOMAIN pool.free : pool.free[i] < pool.top
  /\ \A v, w \in Alive : reg[v] = reg[w] => v = w
  /\ \A x, y \in DOMAIN local : local[x] = local[y] => x = y
  /\ \A v \in Alive, x \in DOMAIN local : reg[v] # local[x]
  /\ \A v \in Alive, i \in DOMAIN pool.free : reg[v] # pool.free[i]
  /\ \A x \in DOMAIN local, i \in DOMAIN pool.free : local[x] # pool.free[i]
  /\ \A i, j \in DOMAIN pool.free : pool.free[i] = pool.free[j] => i = j

\* A value lives in a register of the persistent region, so consume_use never gives
\* one back to the free list.
RegionsPersist == \A v \in Alive : region[reg[v]] = "persist"

\* Every value with uses to come, and every local, is still in the register the
\* generator will read it from ("the registers' numbers have no order, reuse is safe",
\* release_temp_block).
LiveValuesKept ==
  /\ \A v \in Alive : left[v] > 0 => holds[reg[v]] = v
  /\ \A x \in DOMAIN local : holds[local[x]] = x

\* The part of it the generator delivers: all of it until a call with arguments takes
\* its window from the free list.
KeptUntilReuse == ~reused => LiveValuesKept
=============================================================================

# Verification of the Nuzo runtime

TLA+ models, TLC model checking and TLAPS proofs for
[nuzo_lang](../src/README.md), a scripting language written in Rust: a
compiler to a register bytecode and a virtual machine with a reference-counted
object pool, a tracing garbage collector and call frames that are paged to the
heap.  Paths below are relative to `src/crates/`.

The models are in four groups: the concurrent signals and their registry; the memory of
the running program (slabs, frames, arenas, collector); what the virtual machine caches and
the compiler allocates (globals, registers); and the whole way of a program
from its tokens to its end, through parser, IR, optimiser, code generator, hot
traces and dictionaries, compared with what the program means.

| module | models | its runs (distinct states) | proved |
|---|---|---|---|
| `Signal` | `nuzo-signal`: one signal shared by threads | 1 920 152; 188 099 with liveness | 10 theorems, the refinement among them |
| `TurboCache` | `nuzo-values/src/turboslab`: the slab allocator | 656 533 | 5 theorems |
| `FrameStack` | `nuzo-vm`: call frames, paging, the register file | 711 538; 83 984 with refinement | 6 theorems, the refinement among them |
| `GcHeap` | `nuzo-vm/src/gc`: the collector, the scratch area, the safe point | 228 763 | 5 theorems |
| `GlobalCache` | `nuzo-vm/src/dispatch/globals.rs`: both caches in front of the globals | 617 181 | 5 theorems, the refinement among them |
| `Arena` | `nuzo-vm/src/arena.rs` and `pop_frame`: the objects of a frame and their promotion | 1 734 272 | 3 theorems |
| `SignalBus` | `nuzo-signal/src/bus.rs`: the registry of named signals | 84 720, with liveness | 2 theorems |
| `RegAlloc`, `RegPool` | `nuzo-compiler`: the register pool and how the emitters drive it | 57 908 | 4 theorems |
| `Program` and the modules it stands on | `nuzo-frontend`, `nuzo-ir`, `nuzo-compiler` and the machine of `nuzo-vm`, over 580 programs | 89 062 | 3 theorems about the optimiser, 1 about dictionaries |

`SignalContract`, `CallStack` and `Globals` are the abstract specifications that
`Signal`, `FrameStack` and `GlobalCache` are shown to implement, `Meaning` the
reference the compiled programs are compared with.  `MC*.tla` with the `.cfg` files
are the instances for TLC, `*Proofs.tla` the proofs.  `PROJECT.json` lists components,
runs, mutants, the lines every definition models, findings, hazards and theorems.

To repeat the checks, in this directory:

    tlc -workers 2 -config SignalSolo.cfg MCSignal        # and the other .cfg files
    tlapm SignalProofs.tla                                # and the other *Proofs.tla


## 1. The system

### Components, their state and their operations

| component | state it keeps | operations | interacts with |
|---|---|---|---|
| signal (`nuzo-signal/src/signal.rs`, `slot.rs`) | slot vector, statistics vector, snapshot cache, one `connected` flag per connection, a thread-local `EMITTING` | connect, connect_once, disconnect (handle, drop, group, all), emit | runs its users' callbacks, which call it again; the GC announces allocations and collections with signals |
| signal bus (`bus.rs`) | a map from keys (a name and a type) to signals, a list of their names | register, get, list, clear | owns signals, two locks |
| slot statistics (`slot_stats.rs`), signal log (`log.rs`) | counters with decay; a ring of entries | record, decay, read | written by emit |
| slab allocator (`nuzo-values/src/turboslab`) | slabs with a bitmap and a counter, a stack and a partial slab per CPU bucket, lists of partial and full slabs, a window of recent allocations | alloc, reclaim_orphaned, free | `value.rs` calls it under the pool's lock; `Arc` counts decide what may be reclaimed |
| remote free stack (`remote_free.rs`) | a lock-free stack | push, pop, drain | the slabs |
| frame stack (`nuzo-vm/src/call_dispatch.rs`, `frame_v6.rs`, `frame_paging.rs`, `dispatch/calls.rs`, `dispatch/tail_call.rs`, `vm.rs`) | frame infos in a ring and an overflow, frame metas, blocks on the heap, depth, base, registers and the mark up to which they are scanned | call, tail call, return, import, halt, error, call_global_function, run | the GC reads it for roots; the host calls into it |
| register file (`elastic_register_file.rs`) | pages of registers | grow, truncate, unchecked index | frame stack, every instruction |
| garbage collector (`nuzo-vm/src/gc`) | chunks with slots, marks, free list, alive count, generation and dirty slots; the scratch area | alloc, alloc_scratch, get, get_mut, collect, safe_point | roots come from the VM (`variable_ops.rs`), references from the values |
| frame arena (`arena.rs`, `call_dispatch.rs`) | one vector of objects, a bump pointer, a segment per frame | begin, allocate, end, check for escapes, promote, reset | frame stack, GC |
| inline caches (`dispatch/globals.rs`, `dispatch/property.rs`, `cache.rs`, `vm_lic.rs`) | one vector of entries for all chunks; rewritten instructions; a property cache | look up, fill, invalidate | globals, properties and calls |
| hot traces (`vm_hot_trace.rs`, `vm.rs`; `trf.rs`, `tracer_state.rs`) | a counter and a state per loop head; recorded traces | count, register, run a batch in which some pairs of instructions are one | the back edge of loops |
| instruction dispatch (`dispatch_table.rs`, `dispatch/`) | none of its own | some 150 handlers | everything in the VM |
| values (`nuzo-core/src/tag.rs`, `tag_registry.rs`) | NaN-boxed bits | encode, decode | every component |
| dictionary (`nuzo-values/src/nuzo_dict.rs`) | a list of up to 8 entries, or a table with open addressing | get, insert, remove, upgrade, grow | the instructions for indices and properties |
| lexer, parser, AST; IR; code generation | blocks, locals, captures and loops of the function being built; registers and use counts of the one being emitted | source text to bytecode | the session, module resolver, register allocation |
| module resolver (`nuzo-ir/src/module_resolver.rs`, `builder.rs`) | the stack of modules being resolved, import records | resolve, merge | the file system, the IR, the lazy initialisation at run time |
| register allocation (`nuzo-compiler/src/reg_pool.rs`, ...) | registers in use, free and reserved | acquire, release, scopes | code generation |
| bytecode and opcodes | tables | read, write | compiler, VM |
| error collector (`nuzo-error`) | a concurrent queue with a capacity | report, drain, render | every component |
| builtins (`nuzo-helpers`) | none | strings, arrays, math, files | the VM |
| session and command line (`nuzo-run`) | a VM and a compiler | run a script, call a function | all |
| configuration (`nuzo-config`) | numbers | load, merge, validate | all |
| GUI, playground; build-time generators, class macros | | | the session; the build |

### How they interact

A **session** compiles a script and calls `VM::run`.  The VM's loop executes
handlers that work on one **register file**.  A call pushes a frame on the **frame
stack**, whose oldest frames move to blocks on the Rust heap once there are
many, and come back when the recursion unwinds.  The host may call a function of
the script afterwards (`call_global_function`), on the same registers and frames.

A value in a register is a number or an index.  The index names an object in
one of three places: the **pool** of the slab allocator (constants of the code,
and what values and builtins allocate for themselves), the **chunks** of the
collector, or the **scratch area** in front of it (arrays and ranges until the next
loop back edge).
At the back edge `gc_safe_point` promotes what the registers hold in the scratch
area and rewrites the references to it.  A collection may start at every
allocation; its roots are the registers below `register_write_ptr`, the globals, the
constants and the frames' closures.  Indices of the first chunks belong to the pool.

**Signals** tell observers what happens, collections for one.  They are the one
part that several threads use at once by design; the pool is global to the
process and lies under one read-write lock.

### What is hard about it

- *Re-entry and interleaving.*  A callback of an emit connects, disconnects and
  emits on the signal that runs it.  Two threads pass each other between the
  four guards that protect one connection.
- *Stale copies.*  Snapshots of the slots, windows of recent allocations, the
  mark up to which registers are scanned, the base that a return reads before a
  block comes back.
- *Two structures in step.*  Infos and metas, ring and overflow, bitmap and
  counter, slots and statistics, free list and chunk.
- *A step that fails half way.*  A callback that panics, a tail call that does not
  fit, a host call that fails, a collection in the middle of a safe point.
- *Limits.*  The ring's 64 slots, the paging threshold, a full slab, a full chunk,
  a full scratch area, an 8-bit epoch, a 16-bit version, a full dictionary.
- *Passes that must agree.*  A use that the builder counts, the generator consumes; a
  block one path skips defines what another reads; a register given back is still
  named in code emitted before; a loop that ran right 500 times changes its instructions.

Nothing is persisted and no message travels, so crash recovery and unreliable
delivery do not arise.  `PROJECT.json` lists 40 hazards, each at its line, with
the properties aimed at it.

### What makes each component correct

- *Signal*: an emit runs what was connected before it and still is, each once, in
  priority order, and nothing disconnected before; a once slot that succeeded never
  runs again; no operation blocks for ever.
- *Signal bus*: a name is listed exactly while its signal exists; no signal is replaced.
- *Slab allocator*: no live index is handed out twice, no slab is lost, an index
  just returned is not reclaimed before its owner holds it.
- *Remote free stack*: what is popped was pushed, once; nothing pushed is lost.
- *Frame stack*: a stack of separate windows, whatever is paged out.
- *Register file*: an index the code uses is below its length.
- *Collector*: every reference the program can reach finds its object, no slot is
  lost, no allocation overwrites an object.
- *Arena*: nothing that outlives its frame is dropped with it, and the frames below keep their objects in place.
- *Inline caches*: a hit gives what the slow path would give.
- *Dictionary*: what was put is found, and nothing else changes, at any size.
- *Module resolver*: dependencies come first, a cycle is reported, a lazy module runs once.
- *Register allocation*: a register in use is not handed out; a value stays where it
  will be read.
- *Parser*: a text is read as it was written, whatever line follows it.
- *IR, optimiser, code generation, dispatch, hot traces*: the program does what it
  means, at every optimisation and in every round of a loop.
- *Error collector*: what is reported is rendered once, up to the capacity.
- *Builtins, configuration*: functions of their input, which unit tests reach.


## 2. The plan

The order is that of what breaks worst: first the concurrent part and the memory
that everything stands on, then what is built on them, then the passes from text
to result.

| module | what it composes with | abstract specification | proved |
|---|---|---|---|
| `Signal` | | `SignalContract` | every safety property and the refinement |
| `TurboCache` | | | every property |
| `FrameStack` | register file, frames, paging in one | `CallStack` | every property and the refinement |
| `GcHeap` | chunks, scratch area, registers in one | | every property |
| `GlobalCache` | chunks and calls | `Globals` | every property and the refinement |
| `Arena` | segments, windows, globals and a heap that loses nothing | | every property |
| `SignalBus` | | | the maps in step, no signal replaced |
| `RegAlloc` | `RegPool` | | every property |
| `Program` | `Compiler` = `Parser`, `Modules` over `IrBuilder`, `IrOptimize`, `CodeGen` over `RegPool`; `HotTrace` over `Machine` over `Values`, `NuzoDict` | `Meaning` | folding in `IrOptimize`, insertion in `NuzoDict` |

What is left: the call-site caches of `vm_lic.rs` and the error collector (section 6).

Modules that are proved about declare no RECURSIVE operator; recursion is written
as a recursive function or a fold of the community modules.


## 3. The modules

Names follow the source.  An action is a whole handler or, where other threads may
run between, one lock section of it; "bound" in a comment on a constant marks what
the program does not have.  An operator whose name begins with `Mut` is a
deliberately wrong variant of the definition after it (a dropped guard, an off by
one, a forgotten reset): no specification uses it.  `PROJECT.json` names, for every
property, a variant with which TLC must find that property violated.

### Signal

State: `slots` is the vector of slots in emit order, `stats` the identities of the
entries beside it, `connected` the flag each `Connection` shares with its slot,
`snapshot_cache` the cached copy.  `slots_writer`, `cache_writer` and `cache_readers` are the guards that are
held across a step.  `pc` and `epc` are the two program counters of a thread: an
operation on the signal may run inside a callback of an emit.  `ran`, `began`, `fired`
and `missed` are history, for the properties only.

| code | actions |
|---|---|
| `connect_internal` | `ConnectAlloc`, `ConnectInsert`, `ConnectStats` |
| `invalidate_snapshot_cache` (`try_write`) | `InvalidateLock`, `InvalidateSkip`, `CacheClear` |
| `Connection::disconnect`, `Drop` | `Disconnect`, `DropConnection`, then `DisconnectRetain`, `DisconnectClear`, `CacheClear` |
| `disconnect_all` | `DisconnectAll`, `LowerFlag` per slot, `DisconnectAllClear`, `DisconnectAllStats` |
| `disconnect_by_group` | `DisconnectGroup`, `LowerFlag` per slot, `DisconnectGroupRetain`, `DisconnectGroupStats` |
| `emit_with_options`, `emit_direct` | `EmitBegin`, `EmitRefused`, `EmitRead`, the loop |
| `get_or_build_snapshot` | `CacheRead`, `CacheHeld`, `BuildSnapshot`, `StoreLock`, `StoreSkip`, `Store` |
| the loop of the three paths | `SkipSlot`, `InvokeSlot`, `CallbackOk`, `CallbackPanic`, `LoopDone` |
| `cleanup_once_slots`, `EmitGuard::drop` | `CleanupOnceSlots`, `LowerFlag` per slot, `CleanupRetain`, `CleanupStats`, `EmitFinish` |

A section that holds one lock and takes no other is one step, unless another
thread can see its middle: an emit reads the flags without the lock, so
`disconnect_all`, `disconnect_by_group` and the cleanup lower them one by one while they
hold `slots`.  connect and disconnect_by_group take `stats` while they hold `slots`, and
keep the writer in between.  The lock of the statistics is never held across a step, so that its
`try_write` in `emit_batch` is the predicate `StatsBusy`.  Not modelled: the log,
timings and poisoned locks (callbacks run with no lock held, and their panics are caught).

`SignalContract` says what a user sees: a connection goes from unknown to live to
spent and never back; an emit delivers to a connection that is live at that
moment, to none twice; what a once connection's success means when the emit ends.
The mapping reads it off the flags alone, so that slots, cache and locks are what
is shown not to matter.

### TurboCache

State: the bitmap (`occupied`) and counter of each slab, its owner and its remote
stack; each bucket's `local_stack` and `partial` slab; the bags `shared_partial` and
`full_slabs`; `recent`, the window spared by reclaim; `held`, the indices with an
`Arc` outside.  `lock` keeps the pool's write lock between the two halves of
`default_heap_alloc`.

`HeapReclaimFirst` and `HeapAlloc` are `default_heap_alloc`; `AllocLocal`, `AllocRefill`,
`AllocShared` and `AllocNew` the five steps of `TurboCache::alloc` (refill covers the
second and third); `HeapReclaim` is `heap_reclaim_orphaned`; `GetArc` and `DropArc`
what the program does with a value; `Free` the call that only tests make, which is
in `SpecWithFree` and not in `Spec`.  Stacks and lists are bags, from which any element
is popped: more behaviours than the code's, which pops the last.  Where the
code would unwrap `None` or its assertion would fail, `panicked` becomes true.

### FrameStack

State: `regs` and `write_ptr`; the two halves of the frames (`ring` and `overflow`;
`metas`), the blocks (`spilled`), `depth` and `current_base`; the code being run
(`chunk`, `ip`); `phase` and what `call_global_function` will restore (`saved`); the
flags of imported modules.  A chunk is its arity and its number of locals; an
instruction that moves no frame has no effect and is left out, and the instruction
pointer counts call sites.

| code | definitions |
|---|---|
| `push_frame_with_base`, `FramePager::spill_frames`, `FrameRing::push` | `PushFrame`, `Paged`, `RingPush` |
| `pop_frame`, `restore_frames`, `current_v6_info` | `PopFrame`, `Restores`, `TopInfo`, `TopBase` |
| `execute_normal_call_closure`, `execute_closure_fast` | `Call` |
| `apply_tco_reuse`, `try_builtin_tail_call` | `TailCall`, `TailCallFails`, `BuiltinTailCall` |
| `op_return`, `op_halt`, `InitModule` | `Return`, `Halt`, `Import` |
| an instruction that fails | `Fail` |
| `call_global_function`, `run` | `HostCall`, `HostRefused`, `HostDone`; `Run` |
| `build_call_stack` | `TraceBase` |

`CallStack` is what the compiler relies on: a list of separate windows, each with the
place where its caller goes on and the register its result goes to.  It has no
bases, ring, overflow, blocks or register file.  The refinement mapping cuts the
one register file into windows at the bases of the logical stack, which is the
blocks followed by what is in memory, each without the trampoline at its bottom.  Frames left behind by a
failed host call are skipped by it; `LiveFrom` finds the host's own.

### GcHeap

State: `chunks` (data, `top`, free list, `alive`, generation, dirty slots), `active`,
the scratch area, one object of the pool, the registers; `left` and `remap` while a
safe point runs.  An object has one reference.  At most one object of a behaviour,
any one, is *watched*, and references made to it say so: this is how a property can
tell that a reference finds the object it was made for and not another one in the
same slot, without an identity per object.

| code | definitions |
|---|---|
| `alloc_bump_fast`, `alloc_slow_path_inner` | `ChunkFor`, `SlotOf`, `Filled`, `Placed` |
| `Gc::collect`, `sweep`, promotion by age | `Marked`, `Swept`, `Aged`, `Collected` |
| `mark_index`, `process_wave_front_step` | `Markable`, `Followed` |
| `alloc`, `alloc_scratch` | `Alloc`, `AllocScratch`, `ScratchFull` |
| loads and stores of the handlers | `LoadConst`, `Move`, `Load`, `Store`, `Touch` |
| `gc_safe_point`, `Gc::safe_point` | `SafePoint`, `Promote`, `SafePointEnds` |

When a collection runs, and whether it is minor or deep, depends on sizes in bytes,
which are abstracted: it may run at any allocation.  Not modelled: `alloc_bulk` and
`alloc_uninit`, signals and statistics; major collections (chosen by a counter that
only major collections raise) and cold chunks (deep collections set back the age
that leads to them), which the code never reaches; the incremental paths, which find
the phase `Idle` between collections; and the arena's own path in `op_array_new`, which is in `Arena`.

**harm.**  The collector does lose objects, in six ways found while modelling.  Each
is recorded by the step in which it happens, from what that step does:

| tag | what happened | source (`nuzo-vm/src`) |
|---|---|---|
| `low` | an object was placed in a placeholder chunk, whose indices marking ignores | `gc/alloc.rs:150` |
| `reset` | a full chunk was reset with objects in it, since sweep counts free slots as freed again | `gc/sweep.rs:143` |
| `mid` | a safe point collected while it held objects that no root refers to | `gc/alloc.rs:303` |
| `inner` | a safe point left a reference into the scratch area in an object it did not promote | `gc/alloc.rs:326` |
| `pool` | a heap reference was stored in an object of the pool, which marking does not follow | `dispatch/capture.rs:34` |
| `epoch` | a slot of the scratch area was taken for seen, its 8-bit epoch having come round | `gc/mark.rs:262` |

`KeptUnlessHarmed` says that these are all the ways: without any, every reference
reachable from a register finds its object.  Each tag is needed: with `HarmCap = 1`,
so that a behaviour goes on after one of them, `RefsTrue` fails by each alone.  The
listed runs use `HarmCap = 0`.  `FreeListSound` and `AliveAtMost` do not mention harm:
they hold of the steps that do harm too.

### Arena

State: `frames` and `objects` (the arenas of all frames stand one after the other in one vector),
`global_top`, the bump pointer in bytes; of the frames on the stack what concerns the
arena (`metas`), the windows of registers, the globals, the collector's objects (`heap`).
A value names an arena object by its place in the vector.  Each object has a number
and each value says which it was made for, as history.

| code | definitions |
|---|---|
| `begin_frame`, `allocate_object`, `end_frame` | `BeginFrame`, `Fits`, `AllocateObject`, `Dropped`, `EndFrame` |
| `check_arena_escape`, `promote_arena_range` | `Escapes`, `Rewritten`, `Without`, `Promote` |
| `pop_frame`, `op_return` | `PopFrame`, `Return` |
| `try_alloc_arena` and the handlers that call it | `ArenaHere`, `ArrayNew` |
| stores and loads | `SetIndexMut`, `Load`, `StoreGlobal` |
| `call_global_function`, `reset_registers_and_frames` | `HostCall`, `HostFail`, `HostDone`, `Run` |

The escape check compares the place of an object with the frame's range of bytes; with
objects of two bytes here both are small numbers, and the comparison is the code's.
Objects are lost in four ways, recorded by the step in which it happens as in GcHeap:

| tag | what happened | source (`nuzo-vm/src`) |
|---|---|---|
| `range` | a register of a caller names an object of the frame, and its place is not in the byte range | `call_dispatch.rs:332` |
| `outer` | only a global, or an object elsewhere, names it, where the check does not look | `call_dispatch.rs:314` |
| `inner` | it is promoted, and a reference to it inside an object is not rewritten | `call_dispatch.rs:405` |
| `reset` | another script resets the region while globals lead into it | `vm.rs:284` |

Closures and strings never go to an arena.  `mark_escaped` is called by tests only.

### SignalBus

State: `signals`, the map on the keys that are registered, `names`, the list beside it;
of each thread its call, where it stands (`at`) and the lock with which it waits for
the other (`held`).  `orphaned` is history.

| code | actions |
|---|---|
| `register`, `register_legacy` | the first section and the second under it, `WithName`, `Registered` |
| `get` | the lookup; if nothing is found, the look at the names, `TypeMismatch` |
| `list_signals` | one section |
| `clear` | two sections, one after the other |

### GlobalCache

State: the names and values of the `GlobalScope` (`index`, `values`), the `versions`
that lag behind, the vector `entries` that all chunks share, the running activation
with its rewritten reads and the activations below it.  `answer` is what the last
read said.

| code | actions |
|---|---|
| `op_get_global` | `GetThroughEntry`, `GetByName`, `GetUndefined` |
| `op_get_global_cached` | `GetRewritten` |
| `op_set_global` | `SetThroughEntry`, `SetByName`, `SetNew` |
| `define_global`, `set_global_by_name` | `HostDefine` |
| change of chunk: call, tail call, return, load | `Call`, `TailCall`, `Return`, `Load` |

`Globals` is one table from names to values.  Its only liberty is `Refuse`, a read
that fails although its name is defined; `RefusesOnlyWornOut` says when that happens:
the version of the variable, or its index, no longer fits the 16 bits of the operand.

### RegAlloc and RegPool

`RegPool` is the pool as a record and its calls as operators; `CodeGen` uses them too.
`RegAlloc` drives them in every order the emitters of `codegen.rs` can: a step is one
`emit_op`.  Registers hold the names of values, not data: an instruction that finds
another value in one of its operands computes `Junk`.

| code | actions |
|---|---|
| `generate_function`, parameters | `NextFunction`, `LoadArg` |
| the emitters of one instruction | `Compute`, `Effect`, `Mov` |
| `emit_call_closure` | `Call`, `CaptureGlobal` |
| `emit_variable_access` | `SetLocal`, `GetLocal` |
| `emit_composite_types`, `emit_string_build` | `ArrayNew`, `StringBuild` |
| no register left | `Fail` |

### Program, and what it stands on

A program goes through `Program` in steps: `Parse`, `Lower`, `Generate`, each of which may
reject it, then one step per instruction or batch (`Run`).  The passes are
functions, so `Compiler!Compiled` computes their results once, when the instance is
built, and the steps hand them on; the tree, the tokens, the IR and the code are those of
the program in hand.

| module | models | definitions |
|---|---|---|
| `Syntax` | `ast.rs`: the nodes, and the tokens an author writes for them | constructors, `Desugar` |
| `Parser` | `parser.rs`: the recursive descent, one operator per function | `Expression`, `Level`, `Postfix`, `Primary`, `Statements`, ... |
| `Values` | what the operations answer for each kind of operand | `Apply`, `ApplyUnary`, `Truthy`, `Repr` |
| `Ir` | `types.rs`: operations, their operands | `Dest`, `Args`, `IsTerminator` |
| `IrBuilder` | `builder.rs`: blocks, locals, captures, loops, string chains | `Expr`, `Stmt`, `IfBranches`, `WhileLoop`, `Closure`, ... |
| `Modules` | imports: resolution, cycles, depth, clashes, merging | `BuildWithImports`, `Clashes`, `MergeRecord` |
| `IrOptimize` | `optimize.rs`, round by round | `FoldBinary`, `Identity`, `OptimizeBlock`, `WithoutDeadMoves` |
| `CodeGen` | `codegen.rs` with `usage_counter.rs`, `reg_manager.rs` | `CountUses`, `EmitOp`, `EmitCall`, `EmitSelect`, `Resolved` |
| `Passes` | the `?` of every loop over statements | `UntilError` |
| `Compiler` | `compiler.rs`: the passes in their order | `Compiled`, `Optimized` |
| `Machine` | the handlers of `dispatch_table.rs` and `dispatch/` | one action per instruction |
| `NuzoDict` | `nuzo_dict.rs`: both forms of a dictionary | `DictInsert`, `Grown`, `Upgraded`, `DictGet` |
| `HotTrace` | `vm_hot_trace.rs`, `run_inner`, `execute_hot_trace_batch` | `Profiled`, `Registered`, `Batch`, `FusedPair` |
| `Meaning` | what a tree means, by its structure alone | `MeaningOf` |
| `MCProgram` | the 580 programs | `MCCompilations` |

`Meaning` is the reference: it knows nothing of blocks, registers, constants,
captures by name, hot loops or hash tables.  `CodeKeepsMeaning` compares at the end the
calls of the host in their order, whether the run failed, and the globals.

*Pairs of a hot loop.*  Behind the opcode of a `LoadK` or `Mov` the handlers of a pair read five operands of
two bytes, and nothing skips the opcode between the second and the third.  `Straddling` is the register this
makes of two neighbours, `OffLeft` and `OffRight` the operands that are read.  A right operand other than
register 0 becomes a register from 256 on, which is nil, and a number with nil is an error.  Where the pair has
a value (the operand is register 0, or a string is added) the machine goes on at the last byte of the pair;
what it takes for instructions there is not modelled, and the program is "astray".
A program that ends in a pair has not kept its meaning (section 4, hot_loops).  In the run "program",
`CodeKeepsMeaning` says of it only that the host has heard nothing wrong until then, `NoStaleRead` leaves the
pair out, and `Terminates` ends at it.  The loops of the run that have no pair are compared in full.

Frames in `Machine` have registers of their own, since `FrameStack` shows that the one register
file gives each frame its window; globals are a table, since `GlobalCache` shows that
the caches give one; the heap never loses an object, which is the subject of
`GcHeap`.  These are the seams between the modules.

In `NuzoDict` a slot is free or has an entry.  The seven bits of the hash that
the program keeps in a byte beside each slot only save a comparison of keys, and are left out.

*What the programs avoid.*  While modelling the passes, disagreements between code
and meaning were found that ordinary programs can meet.  Three are told in section 4.  The rest
was found with other programs in the same model, or while reading, and the 580 programs avoid it:

- a construct with blocks of its own inside a branch or right operand that is used as
  a value, as in `a && (b || c)`;
- in the body of a function: a loop that assigns a parameter or a captured variable
  (locals are not merged at the head of a loop); `a[i] = v` and `o.f = v`,
  which are dropped; a `for` or a nested `if` with locals as last
  statement of a branch, which is refused; the variable of a `for`, which is
  captured as a global when the function is made;
- in `+` with strings: `1 + 2 + "x"` and `"x" + (1 + 2)`, whose chain is
  flattened; `s = s + ...` in a loop when `s` has a value before it, is read in the loop, or
  is appended to more than once;
- `break` with a value, which becomes nil; `match` without a matching arm, whose
  register is never written; `m[0][1] = 5`, which changes a copy;
- chained comparisons, whose middle is evaluated first and kept in a global;
- neutral operands of what is no number, as in `s + 0` (`OptimizedKeepsMeaning` in section 4; `NeutralOperands` says
  what exactly is lost);
- a plain global that a function reads: it is captured by value when the function is made, and must
  exist then; a variable of an outer function that the function between does not mention;
- `{}` in a loop or a function, one shared constant each time round; `??` and `==` of a
  collection and a scalar, which mean "contains";
- reading a field of a dictionary or the `length` of a string, which is always nil
  although `docs/language-spec.md:272` uses `user.name`, and `d.k = v`, which changes a copy in a register;
- a lazy module whose first use in the text is on a path that is not taken: `codegen.rs:541`
  emits the initialisation there and nowhere else;
- an eagerly imported module runs no top level, and its functions reach no builtin and no
  variable of their module; two modules with nameless functions, and a module
  imported along two ways, are refused as duplicates.

Not in the model at all: the lexer, `try` and `out` (the builder refuses them), strings
as indexed objects and their length, numbers that are not integers, negative
exponents, running out of registers, and whether a capture is mutable.


## 4. The runs

Every run explores its instance completely.  CHECK_DEADLOCK is FALSE for Signal,
TurboCache, GcHeap, RegAlloc and SignalBus, where a behaviour stops when a bound is used up (connections and
emits, slabs, objects, operations) or emission has failed; `OperationsReturn` is what says that a signal does not stop in the
middle of an operation.  FrameStack, Arena, GlobalCache and Program are checked for deadlock.

Every module states its types (`TypeOK`).  Those of TurboCache, RegAlloc and GlobalCache are
theorems and need no run, as is that of Arena; those of FrameStack and GcHeap are theorems too, and checked by theirs; those of Signal,
SignalBus and Program hold too, when added to their configurations, and are not listed.

### What holds

**signal_solo** (`SignalSolo.cfg`).  One thread, whose callbacks do all it does itself:
connect at two priorities, in a group or once, disconnect by hand or by drop,
disconnect groups and everything, emit; and panic, under both policies.
`EmittingGuard`, `RunsInOrder`, `OnceNeverRunsAgain`, `EmitDelivers`.
Three connections, so that a callback can change the vector before and behind the
slot that runs; two emits, so that the second may use what the first cached.  The
thresholds of the paths are 1 and 2, so that three slots take the batch path.
This shows that re-entry of every kind and at every point breaks none of them.
`EmitDelivers` holds for one thread only; with two, see `SignalRaces.cfg`.

**signal_pair** (`SignalPair.cfg`).  Two threads interleave at every lock section; both
connect and emit, one disconnects; slots may be once.  `HoldersNeverWait`,
`FlagsMatchSlots`, `OnceRetired`, `DeadNeverRuns`, `DirectDelivers`, `ImplementsContract`,
and with fairness `OperationsReturn`.  Two connections and two emits give every
order of snapshot, insertion, invalidation and store.  Callbacks do nothing and do
not panic here: signal_solo has them, as it has `disconnect_all` and `disconnect_by_group`
(with `disconnect_all`, which any thread may call for ever, a reader could starve and
`OperationsReturn` would need a fair lock; the safety properties are proved with them).
`HoldersNeverWait` is the absence of a cycle, and finer than `OperationsReturn`: it
fails as soon as a guard outlives the section it is for and its holder meets a lock
that somebody has, whether or not all of them stop.

**turbo_cache** (`TurboCache.cfg`).  Two buckets, three slabs of two slots, a window of
two.  `NoPanic`, `SlabPlacedOnce`, `PlaceMatchesRoom`,
`WindowAlive`.  Two slots are the fewest with which a slab is empty, partial and full;
three slabs let one be full, one partial and one adopted by the bucket that did not
make it, which is where a reclaimed slot must not return to its owner's stack.
Buckets are symmetric: nothing orders them.

**frame_stack** (`FrameStack.cfg`).  Registers hold one value only, so that the frames can
go deep: capacity 5, watermark 1, batches of 3, a ring of 3, a register file of 10.
`TypeOK`, `HalvesInStep`, `TrampolinesAtBottom`, `TraceBasesRight`,
`WindowHeld`.  The ring overflows, two blocks stand on each other, the first of a
whole batch and the second with a trampoline in it, and both come back.  `RegCap` and `LeftCap`
bound what refused and failed host calls leave behind.

**frame_calls** (`FrameCalls.cfg`).  Registers hold two values, so that a window that gets
another's register is told apart; capacity 3, batches of 2, a ring of 2.
`ImplementsCallStack`: calls, tail calls that grow and shrink their window, builtin
tail calls, imports, errors and host calls behave as on a stack of windows.

**gc_heap** (`GcHeap.cfg`).  Two registers, chunks and a scratch area of two slots, one
placeholder chunk, three objects and one store.  `TypeOK`, `FreeListSound`,
`KeptUnlessHarmed`, `NoSlotLost`.  Three objects make a scratch object that refers to
a heap object and back, and a safe point with two promotions.  Four objects (about
2.1 million states) were explored with the same result.  Registers are symmetric.

**arena** (`Arena.cfg`).  One global, windows of two registers, the script and two activations
above it, two objects, one store; `HarmCap = 1`, so that it goes on after something was lost.
`KeptUnlessHarmed`, `FramesInPlace`.  Two objects are the fewest with which the objects
of one frame stand above another's, one refers to the other, and one is promoted from under
the other.  With three objects, and either no globals or no harm (about 5 million states), the result was the
same; with these sizes of arenas only the third object finds one full and goes to the heap.

**signal_bus** (`SignalBus.cfg`).  Three threads, one name with two types, four operations.
`InStepUnlessOvertaken`, `NeverReplaced`, `OperationsReturn`.  Three threads are the
fewest with which one clears, one registers in between, and one looks.

**reg_alloc** (`RegAlloc.cfg`).  Three values and a name, five registers, at most one
parameter, two operands and two uses; values are symmetric.  `OneHolder`, `KeptUntilReuse`.
Three values are the fewest with which one lives through a call that places another
and its callee.  `KeptUntilReuse` speaks of the time before a call with arguments takes its window from the free
list: the window is as long as the arguments, the free register is one, and what lives behind it may be overwritten.

**global_cache** (`GlobalCache.cfg`).  Two variables, a script and two functions, one of
which numbers the names the other way round; calls two deep, and versions of one bit
where the program has 16.  `EntriesLeadToTheirName`,
`ReadsLeadToTheirName`, `RefusesOnlyWornOut`, `ImplementsGlobals`.  The second assignment to a variable
wears its version out.

**program** (`Program.cfg`).  580 programs, each from four initial sets of globals.
`ParsedAsWritten`, `CodeKeepsMeaning`, `NoStaleRead`, `Terminates`.
Pairs of binary operators in both nestings; loops of
each kind with loops, branches, `break` and `continue` in them, before and after the
counter; loops that become hot, without pairs and with pairs that fail or go astray; twelve bodies of functions under six uses, recursive ones
among them; closures in closures; matches, arrays, string chains; dictionaries of one
to four literal entries, written up to six times, with keys that collide and keys
that go round the end of the table; all pairs of a statement and a next line that could run on;
eager and lazy imports, nested, in loops of one and two, lost, with names that clash,
deeper than `MaxDepth`.  Bounds that stand for the program's: a loop is hot after 3 rounds (500), a trace has 5 to
16 instructions, there are 2 traces, modules nest 2 deep (100), a dictionary becomes a table
when a third entry comes (a ninth) with 4 slots (16), and grows when more than half full (7/8).  They
are small so that each threshold is passed; the hashes are chosen so that keys collide.
Programs are short because TLC evaluates the passes by recursion.

### What a text says and the code does not do

| run | property | what TLC finds |
|---|---|---|
| hot_loops | `HotLoopsKeepMeaning` | `b = b + 2` in a hot loop: the load of the 2 and the addition run as one, whose operands are read one byte off; the right one is a register nobody wrote, and the program ends with a type error.  So does a `loop { i = i + 1 ... }` of more than 500 rounds |

`PROJECT.json` ("findings") quotes the texts at their lines.  More properties state what a comment or
a test says and the code does not do.  Each is in its module beside the
others; to see it violated, give TLC the configuration named here with that property in place of
its own:

| configuration | property | what the text says, and what TLC finds |
|---|---|---|
| `ProgramAdders.cfg` | `ClosuresKeepTheirCaptures` | `closure_test.nuzo:88` expects 8 of `add5(3)`: two closures of one function expression are one object, and `add5` adds what `add10` was given |
| `ProgramAdders.cfg`, over `MCNeutral` | `OptimizedKeepsMeaning` | `optimize.rs:15`, "only what can be proved safe is optimised" and "what happens at run time must be kept": for `s = "w"`, `s + 0` is optimised to `s`, and the host gets "w", not "w0" |
| `Arena.cfg` | `ReturnedFind` | `call_dispatch.rs:310`, "detects whether arena objects escape to an outer frame": a function that has made an array calls one that makes and returns another, whose index lies below the bytes of that frame, and the array is dropped |
| | `AllRewritten` | `call_dispatch.rs:341`, "rewrites every Value that references" a promoted object: an element of an array is not rewritten |
| `SignalBus.cfg` | `NamesInStep` | `bus.rs:149`, names are kept in step with the map: a signal registered between the two halves of a clear stays and is never listed |
| | `MismatchMeansOtherType` | `bus.rs:292`, "the name exists, the type does not match": between the two halves no signal of that name exists at all |
| `FrameCalls.cfg` | `HostRegistersRooted` | `vm_tests.rs:2151`, the collector traces all roots: the window of a function called by the host lies above the mark up to which it scans |
| | `HostCallLeavesNoFrame` | a failed host call leaves its frames |
| | `ImportKeepsCaller` | the return of an imported module writes its result to register 0 of the script |
| `SignalRaces.cfg` | `MissedAtMostOnce` | "a new slot may be delayed by one emit": a snapshot stored by another emit, after a connect skipped its invalidation, keeps the slot out of two emits in a row, and out of all until the next change |
| | `OnceNeverRunsAgain`, two threads | two emits run one once slot |
| | `StatsAligned` | statistics and slots are out of step, since disconnect leaves `stats` alone and the once cleanup counts survivors |
| `GcHeap.cfg` | `AbovePool` | with the active chunk full, the search wraps round to the placeholder chunks, whose indices the pool owns |
| `GlobalCache.cfg` | `NeverRefused` | a read of a defined variable fails once its version no longer fits the operand |
| `TurboCache.cfg`, with `SpecWithFree` | `NoPanic` | a free on the CPU that made a full slab puts its slot on a stack without a partial slab, and the next allocation unwraps `None` (only tests call free) |

`FrameStack` also states `FitsCapacity`, `RestoresAtTrampoline` and `TraceComplete`, which the
comments of `frame_paging.rs` promise and unwinding a deep recursion breaks.

### Fairness

Three specifications have any.  `FairSpec` of Signal: weak fairness of `Progress(t)` for each thread,
all that a thread does once it has begun an operation.  Beginning one
(`Start`) is not fair: nothing makes a program emit.  The code justifies it so far: a
thread with a lock in hand is not suspended for ever, every loop runs over a
finite snapshot, callbacks return or panic (a callback that never returns would
hold up its own emit in any implementation), and `try_write` never waits.  For a
lock that others take again and again weak fairness would not be enough,
and `std::sync::RwLock` promises no more; the operations of a behaviour are
bounded, so the question does not arise in the instance, and `OperationsReturn`
shows the absence of deadlock and livelock, not of starvation by an endless stream of others.

`Spec` of SignalBus: weak fairness of what each thread does once it has begun an operation, for
the same reasons: each section ends, and the operations of a behaviour are bounded.

`Spec` of Program: weak fairness of `Work`, the next pass or instruction.  Compiler
and machine are one thread with no lock to wait for.  `Terminates` says that what
the 580 programs, all of which end by their meaning, are compiled to ends, or reaches a
pair of a hot loop that leaves it astray (two of the programs do).

The other modules have no liveness property: what they model is a call that
returns, or a program that may stop at any time.


## 5. The proofs

`tlapm` checks 22417 obligations in eight modules.  Forty-four theorems hold for every value of the
constants that satisfies the modules' assumptions.

| theorem | states | module |
|---|---|---|
| `SignalHoldersNeverWait`, `SignalEmittingGuard` | `HoldersNeverWait`, `EmittingGuard` | `SignalProofs` |
| `SignalFlagsMatchSlots`, `SignalRunsInOrder`, `SignalOnceRetired` | `FlagsMatchSlots`, `RunsInOrder`, `OnceRetired` | `SignalProofs` |
| `SignalDeadNeverRuns`, `SignalDirectDelivers` | the action properties `DeadNeverRuns`, `DirectDelivers` | `SignalProofs` |
| `SignalImplementsContract` | the refinement `ImplementsContract` | `SignalProofs` |
| `SignalOnceNeverRunsAgain`, `SignalEmitDelivers` | of one thread: `OnceNeverRunsAgain`, the action property `EmitDelivers` | `SignalProofs` |
| `SignalBusInStep`, `SignalBusNeverReplaced` | `InStepUnlessOvertaken`, the action property `NeverReplaced` | `SignalBusProofs` |
| `TurboTypes`, `TurboNoPanic`, `TurboSlabPlacedOnce` | `TypeOK`, `NoPanic`, `SlabPlacedOnce` | `TurboCacheProofs` |
| `TurboCounts`, `TurboWindowAlive` | `PlaceMatchesRoom` and `CountMatches`; `WindowAlive` | `TurboCacheProofs` |
| `FrameHalves`, `FrameTrampolines` | `HalvesInStep`, `TrampolinesAtBottom` | `FrameStackProofs` |
| `FrameWindows`, `FrameTypes` | `WindowHeld`, `TypeOK` | `FrameStackProofs` |
| `FrameTraces` | `TraceBasesRight` | `FrameStackProofs` |
| `FrameImplements` | the refinement `ImplementsCallStack` | `FrameStackProofs` |
| `GcFreeLists`, `GcCounts`, `GcTypes` | `FreeListSound`, `AliveAtMost`, `TypeOK` | `GcHeapProofs` |
| `GcKept`, `GcNoSlotLost` | `KeptUnlessHarmed`, `NoSlotLost` | `GcHeapProofs` |
| `ArenaTypes`, `ArenaFrames`, `ArenaKept` | `TypeOK`, `FramesInPlace`, `KeptUnlessHarmed` | `ArenaProofs` |
| `RegTypes`, `RegOneHolder`, `RegKeptUntilReuse`, `RegPersist` | `TypeOK`, `OneHolder`, `KeptUntilReuse`, `RegionsPersist` | `CompilerProofs` |
| `TypeCorrect`, `EntriesRight`, `ReadsRight`, `RefusalsExplained` | `TypeOK`, `EntriesLeadToTheirName`, `ReadsLeadToTheirName`, `RefusesOnlyWornOut` | `LookupProofs` |
| `Implements` | the refinement `ImplementsGlobals` | `LookupProofs` |
| `FoldedBinary`, `FoldedUnary` | what `FoldBinary` and `FoldUnary` put in place of an operation computes what the operation would | `CompilerProofs` |
| `NeutralOperands` | what `Identity` puts in place of an operation, for operands of every type: what is kept and what is lost | `CompilerProofs` |
| `TableKeeps` | inserting into a table of a dictionary | `LookupProofs` |

*Assumptions.*  `SignalAssumption`: bounds are natural numbers, the thresholds are in
order, the interval is not zero.  `TurboAssumption`: a slab has a slot.
`ChunkAssumption`: modules and the script take no arguments, the script has a
local, and is neither a function nor a module.  `PagerAssumption`: the assertions of
`FramePager::new`.  `BoundAssumption`: a ring of two slots or more.  `BusAssumption`: bounds are natural numbers. `GcAssumption`:
a chunk has a slot, chunk 0 is the pool's.  `CacheAssumption`: each chunk names a
variable at each index.  `RegAssumption`: bounds are natural numbers, values, names and junk
are distinct.  `ArenaAssumption`: windows and objects have a size, bounds are natural numbers, nil names nothing.  `DictAssumption`: capacities are powers of two, and a table that need not
grow has a free slot.  `TraceAssumption` only serves TLC.  Besides these, that names are distinct.  TLC
evaluates each of them in every run of its module.

**Signal.**  `Inv == ControlType /\ LockDiscipline /\ Nesting /\ EmittingGuard /\
DeadStaysDead`.  `LockDiscipline`, an auxiliary of the proofs, ties each guard to the
steps it is held at; with it `HoldersNeverWait` is a matter of program counters: no
step that holds a guard is one that blocks. `Nesting` (inside an emit, an
operation runs only from a callback or the final cleanup) is what keeps the
two program counters of a thread from passing each other, so that the flag
goes down only at the end.  `DeadStaysDead` says that what an emit noted as
disconnected when it began still is; with it, `MayInvoke` refuses every dead slot from
whatever snapshot, and `OnlyInvokeCalls` that no other step starts a callback.

`Delivery` is about the content.  A connection is `Placed` once it has reached the vector; until
then its id belongs to the one `connect` that made it, which has given nobody a handle yet
(`TargetsHeld`), so no disconnect can come before the insertion.  Vector, cached snapshot and what each emit
visited and has left are `Listed`: placed, none twice, by descending priority.  `connect` keeps
that since `partition_point` ends the prefix of slots whose priority is not lower, every removal
since `Retain` keeps order (`RetainFacts`).  What an emit
visited precedes what it has left (`Visiting`), so nothing is called twice and order holds
across the whole emit; `Retires` and `FiredSpent` follow once slots from the success of
the callback to the flag.  The steps of other threads are summed up in `Onward`: no connection is
forgotten, no flag goes up again, nothing comes back into the vector.  While flags go
down one by one (`LowerFlag`), what is `Leaving` is still in the vector, which nobody else may change
(`KeptWhenStill`, `LeavingKept`), so nothing leaves it with its flag up (`OutIsDown`).

The refinement follows from both invariants.  `ConnectAlloc` opens; a flag that goes down, by
`disconnect`, drop, group, all or the once cleanup, closes; `EmitBegin`, `InvokeSlot`,
`CallbackOk` or `CallbackPanic`, and `EmitFinish` begin, deliver, end the callback and end the emit; every other step
is a stutter.  That a delivery is not a second one is `Visiting`; that an emit ends with its
once slots spent is `Retires`.

Two properties fail for two threads and are proved of one (`Alone`), with callbacks that re-enter in
every way.  `Spends` (in `Delivery`): what fired before this emit began is disconnected.  `Fresh`:
outside of an operation the cached snapshot has every slot of the vector, since a
`try_write` with one thread only fails if that thread itself reads the cache, which it never
does while it connects; so an emit misses nothing.

**SignalBus.**  Both theorems rest on what a registration knows when it gets to its second
lock (`Registering`): it still holds the map, so its key is still not in it.  `Exclusive`
carries that over the steps of the others, and `Clearing` separates the time in which the
list may say more than the map; a registration that comes in that time is marked when the list goes.

**TurboCache.**  `Inv` is the conjunction of `TypeOK`, `NoPanic`, `LocalSound`, `SlabPlacedOnce`,
`PlaceMatchesRoom`, `CountMatches` and `UnmadeEmpty`.  Each is needed by another: a pop is safe since the
stack holds free slots of its slab; it still does after a reclaim since a
slab has one user; a slab that is taken over has room since its place matches its bitmap;
and that is decided by the counter.  `Windowed` adds that the window has just what was handed out last,
no index twice; an index in it is occupied, so no allocation gives it again, and reclaim passes it over.

**FrameStack.**  `Inv == Frames /\ Paging /\ Script`.  `HalvesInStep` is not inductive:
that an info is a trampoline exactly when its meta is needs that no real frame has
base 0, which comes from the script's own window (`Script`).
`TrampolinesAtBottom` is not inductive either: to bring a block back and find a
frame above the next trampoline, that block must hold two frames if it stands on
another, or, with batches of one, enough frames must stand above all blocks (`Paging`).
`PushKeeps` and `PopKeeps` are the two halves of the argument, about sequences only;
the rest carries them through the handlers.

`WindowHeld` is not inductive: a return takes the base, the chunk and the register of its caller from a frame, so the
window of every caller must lie below the base of its callee, and for the oldest frame in memory the
caller is in a block.  `Stacked` says it across all blocks, with the end of the window below each block
as witness: a trampoline adds nothing and hands that end on (`LinkedCut`, `LinkedJoin`).
Then a return, which truncates the registers to its own base, leaves the window it returns to whole.  `TypeOK` needs it too: a call copies its arguments from registers, and they are values
because they are within the register file.

`TraceBasesRight` and the refinement are about the logical stack, blocks and memory put together.  A
spill cuts a piece off its end in memory and puts it at the end of the blocks, a restore does the reverse, and either way the
stack stays as it is (`SpillLogical`; in `PopLogical` together with the pop); a push and a pop act on its last frame.  A trampoline stands for no
frame of it, which is where `TrampolinesAtBottom` comes in.  So the i-th frame from the top in
memory is the i-th from the top of the stack (`LogicalAt`), and its info is found in ring or overflow where
`TraceBase` looks (`TraceAt`).

For the refinement, `Logical` says that the stack is what failed host calls have left, which the program does not
see, and the live frames above it; that these and the register file are `Proper`: bases never descend, each
frame's result belongs into a register below its base; and that only the
oldest live frame was called by the script, or by the host.  `PushActivation` and `PopActivation` say what one
frame more or less is to the list of windows.  The second is the harder one: a return
writes its result into the flat register file, and that this is a register of just one window, the caller's own, and
leaves every other as it was, follows from the bases.
One lemma per action (`CallCalls`, `ReturnCalls`, `TailCallCalls`, ...) then gives the step of `CallStack`.

**GcHeap.**  `Inv == Heap(chunks) /\ Types /\ Promoting`.  Even `TypeOK` is not inductive:
`alive` stays within the chunk because it is at most the number of objects there,
and that is so because a slot taken from the free list was empty.  So `Good`, of one
chunk, joins the three, and the lemmas follow sweep, ageing, filling, the choice of
a chunk.  `Promoting` gives what a safe point takes out of the scratch area.  The
proof includes the steps that do harm.

`KeptUnlessHarmed` and `NoSlotLost` have an invariant of their own, `Safe`: while no harm is done, every slot below top is
an object's or free, never both (`Wholes`), and the heap is `Intact`.  What is reached through references is
defined by recursion on rounds of marking; the proof uses it only as the least set that is closed under
references (`ReachFacts`), so it is enough to give two closed sets.  One is `Firm`: every object of a chunk, garbage
included, every root, and what they lead to as marking follows it; no index of a chunk in it is
empty.  So marking meets no hole, whatever it marks survives, and what is swept is referred to
by nothing that stays.  The other is `Settled`: what the program reaches, each reference finding the object it was made for.  One
set would not do: garbage may refer to a slot of the scratch area that was used again, and marking
never notices.  During a safe point an index of the scratch area means the place its object went to (`Meant`);
with it both sets survive the promotions one by one, and the final rewriting makes the meaning literal.

**Arena.**  `Inv` is about places only: the bytes and the objects are parted among the frames in the order of
their calls (`Bytes`, `Placed`), so the objects of the frame on top are the end of the vector, and each stands where the frame that
made it put it; and no number is given twice (`Numbered`).  It holds of the steps that do harm too.  Since
promotion and dropping both cut off just the last frame's objects, no place below changes its meaning.

`KeptUnlessHarmed` is not inductive: what a step makes reachable need not have been so before.  `Kept`
says that while no harm is done there is a set of values (`Sound`) that has all roots, is closed under references, and in which every
value finds the object it was made for.  What is reached is defined by recursion; the proof shows that it is the
least such set (`ReachIsLeast`), so any other will do.  Before each step comes what the step reaches, and it
goes on with the values the step has made, without those of the frame that ends (if nothing was harmed, nothing that stays leads
to them) or, after a promotion, with each of them renamed to its object on the heap.

**RegAlloc.**  `IInv` is the four properties and `ParamsInPlace`: until the last parameter
is loaded, the cursor stands at the next one and the registers behind it hold what
the caller passed.  The four need each other: what is stored in a register
stays there (`KeptUntilReuse`) because no other value has it and it is not on the free
list (`OneHolder`), and it never gets onto that list because its region is
persistent (`RegionsPersist`).

**GlobalCache.**  `Safe` is `TypeOK`, the two properties about entries and reads, and that
two names never have one index (`OneNameEach`).  The refinement follows: an entry or a
rewritten read in use leads to the index of the name, so a read answers what
`scope` has, and an assignment changes it for no other name.  `RefusalsExplained` has an
invariant of its own (`Explained`), since the property is about the last answer.

**IrOptimize.**  The theorems are about the operators, for all values: every folding is what
`Apply` computes, and no operation that fails is folded.  `NeutralOperands` is
about what the optimiser does without knowing the types: an operation with a neutral operand keeps its value, or was an
error, which is lost, or joined a 0 to a text, and the 0 is lost.

**NuzoDict.**  `Sound`: every entry is where a search for its key ends.  `TableKeeps`: after
inserting into a table that need not grow, the key has its value, every other key
its old one or none, and the table is sound.  A search for another key stops where it
stopped, because the slot that was filled is either one it passed as occupied by a different
key or one where it would have ended, and then its key was not there.

*Only model-checked*: liveness (`OperationsReturn` of both modules, `Terminates`); `OnceNeverRunsAgain` and
`EmitDelivers` for more than one thread are false (section 4); everything about
whole programs (`ParsedAsWritten`, `CodeKeepsMeaning`, `NoStaleRead`), whose parser, generator and meaning are recursive; and that
a table made anew, by growth or by upgrade, has the
entries of the one before, which is an induction over them.

*Out of the prover's reach*: liveness under fairness and ENABLED; the induction theorems of the
library, whose parameter is an operator; modules with
RECURSIVE operators (`Parser`, `IrBuilder`, `CodeGen`, `Meaning` and what extends them).  Such facts stay with
TLC.  Where a recursive function had to be reasoned about, `Retain` of Signal, the rounds of marking in
GcHeap, what is reached in Arena and the blocks put together in FrameStack, the proofs take the least number at which a statement would fail (`LeastNat`) and refute it.


## 6. What is not modelled

- *Of the parts modelled*: poisoned locks, logs and statistics of use; the size-class
  table and `ArrayAllocCache` of the allocator, which only tests use; spill slots of frames (the compiler
  emits none today); sizes in bytes and the collector's
  signals; the caches of call sites; removal from dictionaries, which no instruction does, and the order in
  which they are walked; and what section 3 lists under Program.
- *Remote free stack*: lock-free, but every caller holds the pool's lock; `TurboCache` has it as a bag.
- *Lexer, serialisation, opcode tables*: character by character, byte by byte; their content is all there is.
- *Linear-scan allocation* (`allocator.rs`) is called by its tests only.
- *Left out*: slot statistics and the signal log are read by nothing
  else; the error collector of a VM is used by one thread and decides nothing; builtins are sequential or outside the program; configuration
  contributes its validated numbers, which are assumptions here; the GUI and the
  playground stand on the session; the generators and macros run at build time.
- *No property*: the hazards in `PROJECT.json` that have a note and no
  property.

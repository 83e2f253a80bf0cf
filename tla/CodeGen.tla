------------------------------- MODULE CodeGen -------------------------------
(***************************************************************************)
(* From intermediate code to instructions (nuzo-compiler, codegen.rs), one *)
(* function at a time and block after block.  An instruction is a tuple of *)
(* its name and its operands; positions stand for byte offsets, LoadK has  *)
(* its constant and not its index.  The generator is a record g:           *)
(*   code, starts     what was emitted, and where each block begins        *)
(*   pool, live, reg, left   the register manager (reg_manager.rs)         *)
(*   local            local_map                                            *)
(*   main, closures   is_main_function, the functions with a prototype     *)
(*   lazy, inited     lazy_symbol_map, emitted_lazy_modules                *)
(* RegAlloc has the pool that runs out; here it never does, and no value   *)
(* is in a temporary (RegAlloc's RegionsPersist).                          *)
(***************************************************************************)
EXTENDS Ir, Passes, RegPool, FiniteSetsExt, SequencesExt

NewGenerator(uses, main, closures, lazy) ==
  [code |-> <<>>, starts |-> <<>>, pool |-> NewPool, live |-> {}, reg |-> <<>>, left |-> <<>>, uses |-> uses,
   local |-> <<>>, main |-> main, closures |-> closures, lazy |-> lazy, inited |-> {}, err |-> FALSE]

(* usage_counter.rs: every use, and those in the head of a loop once more. *)
UsesOf(ops) == FlattenSeq([k \in DOMAIN ops |-> Args(ops[k])])
Successors(ops) ==
  IF ops # <<>> /\ OpName(Last(ops)) \in {"jump", "jumpif"} THEN Detail(Last(ops)) ELSE <<>>
RECURSIVE Walk(_, _, _, _)
Walk(blocks, w, k, path) ==
  FoldLeft(LAMBDA x, next :
             IF next \in path \cup {k} THEN [x EXCEPT !.heads = @ \cup {next}]
             ELSE IF next \in x.visited THEN x ELSE Walk(blocks, x, next, path \cup {k}),
           [w EXCEPT !.visited = @ \cup {k}], Successors(blocks[k]))
LoopHeads(blocks) == Walk(blocks, [visited |-> {}, heads |-> {}], 1, {}).heads
CountUses(blocks) ==
  LET heads == LoopHeads(blocks)
      uses == FlattenSeq([k \in DOMAIN blocks |->
                            UsesOf(blocks[k]) \o (IF k \in heads THEN UsesOf(blocks[k]) ELSE <<>>)]) IN
  [v \in Range(uses) |-> Cardinality({j \in DOMAIN uses : uses[j] = v})]

(* allocate_def and consume_use *)
RemainingUses(g, d) == IF d \in DOMAIN g.uses THEN g.uses[d] ELSE 0
Allocate(g, d) ==
  IF d \in g.live THEN g
  ELSE [g EXCEPT !.live = @ \cup {d}, !.reg = (d :> g.pool.top) @@ @,
                 !.left = (d :> RemainingUses(g, d)) @@ @, !.pool = Grow(@, 1)]
ConsumeUse(g, v) ==
  IF v \notin g.live THEN [g EXCEPT !.err = TRUE]
  ELSE IF g.left[v] > 1 THEN [g EXCEPT !.left[v] = @ - 1] ELSE [g EXCEPT !.live = @ \ {v}]

(* chunk.emit *)
Instructions(g, is) == [g EXCEPT !.code = @ \o is]
Moves(g, pairs) ==
  Instructions(g, LET moves == SelectSeq(pairs, LAMBDA m : m[1] # m[2]) IN
                  [k \in DOMAIN moves |-> <<"Mov", moves[k][1], moves[k][2]>>])
-------------------------------------------------------------------------------
(* The emitters.  used: the generator after the operands rs were consumed; *)
(* made: after the result got its register d.                              *)

(* Call: callee and arguments side by side in registers of their own. *)
(* Mutant: the arguments begin at the callee. *)
MutEmitCall(used, dest, callee, args) ==
  LET save == TempOf(used.pool)
      moved == Moves(Instructions([used EXCEPT !.pool = AfterTemp(@)], <<<<"Mov", save, callee>>>>),
                     [k \in DOMAIN args |-> <<save + k - 1, args[k]>>])
      called == Allocate(Instructions(moved, <<<<"Call", save, Len(args)>>>>), dest) IN
  Moves(called, <<<<called.reg[dest], save>>>>)
EmitCall(used, dest, callee, args) ==
  LET save == TempOf(used.pool)
      moved == Moves(Instructions([used EXCEPT !.pool = AfterTemp(@)], <<<<"Mov", save, callee>>>>),
                     [k \in DOMAIN args |-> <<save + k, args[k]>>])
      called == Allocate(Instructions(moved, <<<<"Call", save, Len(args)>>>>), dest) IN
  Moves(called, <<<<called.reg[dest], save>>>>)

(* Capture: what <<index, from, outer index, name>> *)
EmitCapture(used, rs, what) ==
  LET temp == TempOf(used.pool)
      asked == Instructions([used EXCEPT !.pool = AfterTemp(@)], <<<<"GetGlobal", temp, what[4]>>>>) IN
  CASE what[2] = "register" -> Instructions(used, <<<<"Capture", rs[1], what[1], "value", rs[2]>>>>)
    [] what[2] = "outer" -> Instructions(used, <<<<"Capture", rs[1], what[1], "outer", what[3]>>>>)
    [] what[2] = "global" -> Instructions(asked, <<<<"Capture", rs[1], what[1], "value", temp>>>>)

(* GetGlobal: the first read of a symbol of a lazy import, in the order of *)
(* the text, is preceded by the instruction that runs the module.          *)
(* try_emit_lazy_init_for_symbol *)
(* Mutant: the module is run behind the read. *)
MutEmitGetGlobal(made, d, x) ==
  IF x \notin DOMAIN made.lazy \/ made.lazy[x] \in made.inited
  THEN Instructions(made, <<<<"GetGlobal", d, x>>>>)
  ELSE Instructions([made EXCEPT !.inited = @ \cup {made.lazy[x]}],
                    <<<<"GetGlobal", d, x>>, <<"InitModule", made.lazy[x]>>>>)
EmitGetGlobal(made, d, x) ==
  IF x \notin DOMAIN made.lazy \/ made.lazy[x] \in made.inited
  THEN Instructions(made, <<<<"GetGlobal", d, x>>>>)
  ELSE Instructions([made EXCEPT !.inited = @ \cup {made.lazy[x]}],
                    <<<<"InitModule", made.lazy[x]>>, <<"GetGlobal", d, x>>>>)

EmitSetLocal(used, x, r) ==
  LET temp == TempOf(used.pool) IN
  IF x \in DOMAIN used.local THEN Moves(used, <<<<used.local[x], r>>>>)
  ELSE Instructions([used EXCEPT !.pool = AfterTemp(@),
                                 !.local = (x :> temp) @@ @],
                    <<<<"Mov", temp, r>>>>)

(* ArrayNew: the elements are set one by one, the index in a temporary. *)
EmitArray(made, d, rs) ==
  LET idx == TempOf(made.pool)
      Set(k) == <<<<"LoadK", idx, NumValue(k - 1)>>, <<"SetIndexMut", d, idx, rs[k]>>>> IN
  Instructions([made EXCEPT !.pool = RestoreCheckpoint(ReleaseTemp(AfterTemp(@), idx), SaveCheckpoint(@))],
               <<<<"ArrayNew", d, Len(rs)>>>> \o FlattenSeq([k \in DOMAIN rs |-> Set(k)]))

(* StringBuild: the parts side by side in a block that is given back. *)
EmitStringBuild(made, d, rs) ==
  LET start == made.pool.top
      n == Len(rs)
      moved == Moves([made EXCEPT !.pool = ReleaseBlock(Grow(@, n), start, n)],
                     [k \in DOMAIN rs |-> <<start + k - 1, rs[k]>>]) IN
  Instructions(moved, <<<<"StringBuild", d, start, n>>>>)

(* Select jumps within itself: no move is left out, whatever the registers. *)
(* Mutant: the jump over the second move is one short. *)
MutEmitSelect(made, d, rs) ==
  LET here == Len(made.code) IN
  Instructions(made, <<<<"Test", rs[1], here + 4>>, <<"Mov", d, rs[2]>>, <<"Jmp", here + 4>>,
                       <<"Mov", d, rs[3]>>>>)
EmitSelect(made, d, rs) ==
  LET here == Len(made.code) IN
  Instructions(made, <<<<"Test", rs[1], here + 4>>, <<"Mov", d, rs[2]>>, <<"Jmp", here + 5>>,
                       <<"Mov", d, rs[3]>>>>)

(* Jumps name blocks until resolve_jump_fixups. *)
EmitReturn(used, r) ==
  IF used.main THEN Instructions(Moves(used, <<<<0, r>>>>), <<<<"Halt">>>>)
  ELSE Instructions(used, <<<<"Return", r>>>>)

(* What needs no more than an instruction.  The empty dict is a constant   *)
(* like any other, an object of its own for each place in the code.        *)
EmptyConstant == <<"empty">>
Single(op, d, rs) ==
  LET what == Detail(op) IN
  CASE OpName(op) = "const" -> <<"LoadK", d, what>>
    [] OpName(op) = "bin" -> <<"Binary", d, what, rs[1], rs[2]>>
    [] OpName(op) = "un" -> <<"Unary", d, what, rs[1]>>
    [] OpName(op) = "closure" -> <<"Closure", d, what>>
    [] OpName(op) = "getcapture" -> <<"GetCaptured", d, what>>
    [] OpName(op) = "range" -> <<"RangeNew", d, rs[1], rs[2], what = "..">>
    [] OpName(op) = "indexget" -> <<"GetIndex", d, rs[1], rs[2]>>
    [] OpName(op) = "len" -> <<"Len", d, rs[1]>>
    [] OpName(op) = "objectnew" -> <<"LoadK", d, EmptyConstant>>
    [] OpName(op) = "getfield" -> <<"GetProp", d, rs[1], what>>
    [] OpName(op) = "setfield" -> <<"SetProp", rs[1], what, rs[2]>>
    [] OpName(op) = "chain" -> <<"SliceChainNew", d>>
    [] OpName(op) = "chainfinish" -> <<"SliceChainFinish", d, rs[1]>>
    [] OpName(op) = "setglobal" -> <<"SetGlobal", rs[1], what>>
    [] OpName(op) = "indexset" -> <<"SetIndex", rs[1], rs[2], rs[3]>>
    [] OpName(op) = "indexsetmut" -> <<"SetIndexMut", rs[1], rs[2], rs[3]>>
    [] OpName(op) = "chainappend" -> <<"SliceChainAppend", rs[1], rs[2]>>

(* emit_op *)
EmitOp(g, op) ==
  LET name == OpName(op)
      rs == [j \in DOMAIN Args(op) |-> g.reg[Args(op)[j]]]
      used == FoldLeft(ConsumeUse, g, Args(op))
      made == IF Dest(op) = NoValue THEN used ELSE Allocate(used, Dest(op))
      d == made.reg[Dest(op)]
      what == Detail(op)
      undefined == \/ \E j \in DOMAIN Args(op) : Args(op)[j] \notin g.live
                   \/ name = "getlocal" /\ what \notin DOMAIN g.local
                   \/ name = "closure" /\ what \notin g.closures IN
  IF undefined THEN [g EXCEPT !.err = TRUE]
  ELSE CASE name = "loadarg" -> Moves(made, <<<<d, what>>>>)
         [] name = "mov" -> Moves(made, <<<<d, rs[1]>>>>)
         [] name = "call" -> EmitCall(used, Dest(op), rs[1], Tail(rs))
         [] name = "capture" -> EmitCapture(used, rs, what)
         [] name = "getglobal" -> EmitGetGlobal(made, d, what)
         [] name = "setlocal" -> EmitSetLocal(used, what, rs[1])
         [] name = "getlocal" -> Instructions(made, <<<<"Mov", d, g.local[what]>>>>)
         [] name = "array" -> EmitArray(made, d, rs)
         [] name = "stringbuild" -> EmitStringBuild(made, d, rs)
         [] name = "select" -> EmitSelect(made, d, rs)
         [] name = "jump" -> Instructions(used, <<<<"JmpBlock", what[1]>>>>)
         [] name = "jumpif" -> Instructions(used, <<<<"TestBlock", rs[1], what[2]>>, <<"JmpBlock", what[1]>>>>)
         [] name = "return" -> EmitReturn(used, rs[1])
         [] OTHER -> Instructions(made, <<Single(op, IF Dest(op) = NoValue THEN 0 ELSE d, rs)>>)

(* resolve_jump_fixups *)
Resolved(code, starts) ==
  [k \in DOMAIN code |->
     CASE code[k][1] = "JmpBlock" -> <<"Jmp", starts[code[k][2]]>>
       [] code[k][1] = "TestBlock" -> <<"Test", code[k][2], starts[code[k][3]]>>
       [] OTHER -> code[k]]

(* generate_function *)
GenerateFunction(blocks, main, closures, lazy) ==
  LET EmitBlock(h, ops) == UntilError(EmitOp, [h EXCEPT !.starts = Append(@, Len(h.code) + 1)], ops)
      g == UntilError(EmitBlock, NewGenerator(CountUses(blocks), main, closures, lazy), blocks) IN
  [err |-> g.err, code |-> IF g.err THEN <<>> ELSE Resolved(g.code, g.starts)]

(* process_imports: the functions of a lazy import have a chunk of their   *)
(* own, here the numbers behind those of the program; symbols leads to the *)
(* top level of the module they belong to.                                 *)
WithLazyModules(fns, imports) ==
  FoldLeft(LAMBDA p, record :
             [fns |-> p.fns \o [k \in DOMAIN record.fns |-> Renumbered(record.fns[k], Len(p.fns))],
              symbols |-> [x \in Range(record.symbols) |-> Len(p.fns) + 1] @@ p.symbols],
           [fns |-> fns, symbols |-> <<>>], SelectSeq(imports, LAMBDA record : record.lazy))

(* generate, generate_sub_module_chunk: the inner functions have the       *)
(* higher numbers and come first; a function that fails has no prototype,  *)
(* and who refers to it fails too.                                         *)
RECURSIVE Registered(_, _, _)
Registered(fns, k, done) ==
  IF k = 1 THEN done
  ELSE LET made == GenerateFunction(fns[k].blocks, FALSE, DOMAIN done, <<>>)
           entry == [arity |-> Len(fns[k].params), captures |-> Len(fns[k].captures), code |-> made.code] IN
       Registered(fns, k - 1, IF made.err THEN done
                              ELSE [j \in DOMAIN done \cup {k} |-> IF j = k THEN entry ELSE done[j]])
WithConstants(fns) ==
  LET Empties(k, last) == {j \in 1..last : fns[k].code[j][1] = "LoadK" /\ fns[k].code[j][3] = EmptyConstant}
      Before(k) == MapThenSumSet(LAMBDA m : Cardinality(Empties(m, Len(fns[m].code))),
                                 {m \in DOMAIN fns : m < k})
      Address(k, j) == Max(DOMAIN fns) + Before(k) + Cardinality(Empties(k, j)) IN
  [k \in DOMAIN fns |->
     [fns[k] EXCEPT !.code =
        [j \in DOMAIN @ |-> IF j \in Empties(k, j) THEN <<"LoadK", @[j][2], Ref(Address(k, j))>> ELSE @[j]]]]
Generate(own, imports) ==
  LET all == WithLazyModules(own, imports)
      done == Registered(all.fns, Len(all.fns), <<>>)
      main == GenerateFunction(own[1].blocks, TRUE, DOMAIN done, all.symbols) IN
  [err |-> main.err,
   fns |-> WithConstants([j \in DOMAIN done \cup {1} |->
              IF j = 1 THEN [arity |-> 0, captures |-> 0, code |-> main.code] ELSE done[j]])]
===============================================================================

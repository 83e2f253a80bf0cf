------------------------------ MODULE IrBuilder ------------------------------
(***************************************************************************)
(* Lowering a tree to intermediate code (nuzo-ir, builder.rs).             *)
(*                                                                         *)
(* The builder is a record b that every operator takes and answers:        *)
(*   fns      functions so far: name, params, captures, blocks             *)
(*   cur, block   where operations are appended                            *)
(*   next, v  the next ValueRef, and the one the last expression gave      *)
(*   locals   <<name, ValueRef>>, the innermost last                       *)
(*   inFn, loops, captureStack, pending, known, chains, err                *)
(* A ValueRef nothing defines ("ghost") stands where a statement has no    *)
(* value.  Left out: try and out (the builder refuses them), and whether a *)
(* capture is mutable.  Modules has the imports.                           *)
(***************************************************************************)
EXTENDS Syntax, Ir, Passes, FiniteSetsExt

NewFunction(name, params, captures) ==
  [name |-> name, params |-> params, captures |-> captures, blocks |-> <<<<>>>>]
NewBuilder(globalNames) ==
  [fns |-> <<NewFunction("main", <<>>, <<>>)>>, cur |-> 1, block |-> 1, next |-> 1,
   v |-> NoValue, locals |-> <<>>, inFn |-> FALSE, loops |-> <<>>, captureStack |-> <<>>,
   pending |-> {}, known |-> globalNames, chains |-> <<>>, err |-> FALSE]

(* emit, and emit with a fresh dest *)
Emit(b, op) == [b EXCEPT !.fns[b.cur].blocks[b.block] = Append(@, op)]
Ghost(b) == [b EXCEPT !.v = b.next, !.next = @ + 1]
Give(b, name, args, what) == Ghost(Emit(b, IrOp(name, b.next, args, what)))
Do(b, name, args, what) == Emit(b, IrOp(name, NoValue, args, what))
MoveTo(b, d, v) == Emit(b, IrOp("mov", d, <<v>>, ""))
Const(b, v) == Give(b, "const", <<>>, v)
Refuse(b) == [b EXCEPT !.err = TRUE]

(* Basic blocks *)
Blocks(b) == b.fns[b.cur].blocks
LastBlock(b) == Len(Blocks(b))
NewBlocks(b, n) == [b EXCEPT !.fns[b.cur].blocks = @ \o [k \in 1..n |-> <<>>]]
At(b, k) == [b EXCEPT !.block = k]
Jump(b, k) == Do(b, "jump", <<>>, <<k>>)
JumpIf(b, c, yes, no) == Do(b, "jumpif", <<c>>, <<yes, no>>)
BlockTerminated(b) ==
  LET ops == Blocks(b)[b.block] IN ops # <<>> /\ IsTerminator(ops[Len(ops)])
UnlessTerminated(b, then) == IF BlockTerminated(b) THEN b ELSE then

(* Local variables: define_local, resolve_local, update_local_binding *)
Define(b, x, v) == [b EXCEPT !.locals = Append(@, <<x, v>>)]
Bindings(locals, x) == {k \in DOMAIN locals : locals[k][1] = x}
IsLocal(b, x) == Bindings(b.locals, x) # {}
BoundTo(locals, x) == locals[Max(Bindings(locals, x))][2]
Rebind(b, k, v) == [b EXCEPT !.locals[k][2] = v]
SetVariable(b, x, v) ==
  IF IsLocal(b, x)
  THEN Rebind(Do(b, "setlocal", <<v>>, x), Max(Bindings(b.locals, x)), v)
  ELSE Do(b, "setglobal", <<v>>, x)

(* find_capture_index, find_outer_capture_index *)
CaptureLevels(b, x) ==
  {k \in DOMAIN b.captureStack : \E j \in DOMAIN b.captureStack[k] : b.captureStack[k][j] = x}
CaptureIndex(names, x) == CHOOSE j \in DOMAIN names : names[j] = x

Ident(b, x) ==
  LET top == Len(b.captureStack) IN
  IF IsLocal(b, x) THEN [b EXCEPT !.v = BoundTo(b.locals, x)]
  ELSE IF top \in CaptureLevels(b, x)
  THEN Give(b, "getcapture", <<>>, CaptureIndex(b.captureStack[top], x))
  ELSE Give(b, "getglobal", <<>>, x)
-------------------------------------------------------------------------------
(* What a function body refers to. *)

(* FreeVarCollector: names in the order they are met, without entering the *)
(* bodies of functions; an assigned name is seen before its value.         *)
RECURSIVE Met(_, _, _)
MetAll(f, ns, outer) == FoldLeft(LAMBDA g, n : Met(g, n, outer), f, ns)
Met(f, n, outer) ==
  CASE Op(n) = "id" ->
         IF What(n) \in f.seen \cup outer THEN f
         ELSE [seen |-> f.seen \cup {What(n)}, free |-> Append(f.free, What(n))]
    [] Op(n) = "fn" ->
         [f EXCEPT !.seen = @ \cup Range(What(n)[2])
                              \cup (IF What(n)[1] = "" THEN {} ELSE {What(n)[1]})]
    [] Op(n) = "closure" -> [f EXCEPT !.seen = @ \cup Range(What(n))]
    [] Op(n) = "assign" ->
         IF Op(Kid(n, 1)) = "id"
         THEN Met([f EXCEPT !.seen = @ \cup {What(Kid(n, 1))}], Kid(n, 2), outer)
         ELSE MetAll(f, <<Kid(n, 2)>> \o Kids(Kid(n, 1)), outer)
    [] OTHER -> MetAll(f, Kids(n), outer)
FreeVariables(b, body) ==
  MetAll([seen |-> {}, free |-> <<>>], body,
         IF b.inFn THEN {} ELSE {b.locals[k][1] : k \in DOMAIN b.locals}).free

IsGlobalFunction(b, x) ==
  x \in b.pending \cup b.known \cup {b.fns[k].name : k \in 2..Len(b.fns)}

CapturesOf(b, name, params, body) ==
  SelectSeq(FreeVariables(b, body),
            LAMBDA x : x \notin Range(params) /\ x # name /\ ~IsGlobalFunction(b, x))

(* pre_scan_global_fns *)
RECURSIVE NamedIn(_)
NamedIn(n) ==
  CASE Op(n) = "fn" /\ What(n)[1] # "" -> {What(n)[1]}
    [] Op(n) = "closure" \/ (Op(n) = "fn" /\ What(n)[1] = "") ->
         UNION {NamedIn(IF Op(s) = "assign" THEN Kid(s, 2) ELSE s) : s \in Range(Kids(n))}
    [] OTHER -> {}
IsFunction(n) == Op(n) \in {"fn", "closure"}
GlobalFunctions(stmts) ==
  UNION {IF Op(s) # "assign" THEN NamedIn(s)
         ELSE NamedIn(Kid(s, 2))
              \cup (IF Op(Kid(s, 1)) = "id" /\ IsFunction(Kid(s, 2)) THEN {What(Kid(s, 1))} ELSE {})
         : s \in Range(stmts)}

(* flatten_add_chain, and what extract_self_concat_operands keeps of it *)
RECURSIVE Addends(_)
Addends(n) ==
  IF Op(n) = "bin" /\ What(n) = "+" THEN Addends(Kid(n, 1)) \o Addends(Kid(n, 2)) ELSE <<n>>
HasString(ns) == \E n \in Range(ns) : Op(n) = "str"
AppendsTo(x, value) == HasString(Addends(value)) /\ Id(x) \in Range(Addends(value))
Appended(x, value) == SelectSeq(Addends(value), LAMBDA n : n # Id(x))
-------------------------------------------------------------------------------
RECURSIVE Expr(_, _), Stmt(_, _), BlockExpr(_, _), Closure(_, _, _, _), LoopForever(_, _, _)

Stmts(b, stmts) == UntilError(Stmt, b, stmts)

(* Several expressions in their order, and the values they gave. *)
Exprs(b, es) ==
  UntilError(LAMBDA r, e : LET c == Expr(r.b, e) IN
                           [b |-> c, vs |-> Append(r.vs, c.v), err |-> c.err],
             [b |-> b, vs |-> <<>>, err |-> b.err], es)
GiveOf(b, name, es, what) == LET r == Exprs(b, es) IN Give(r.b, name, r.vs, what)

(* build_binary: a chain of three or more with a string literal is built   *)
(* at once, whatever its grouping.                                         *)
Binary(b, op, l, r) ==
  LET parts == Addends(Bin("+", l, r)) IN
  IF op = "+" /\ Len(parts) >= 3 /\ HasString(parts) THEN GiveOf(b, "stringbuild", parts, "")
  ELSE GiveOf(b, "bin", <<l, r>>, op)

(* build_and, build_or.  The second block is where they meet. *)
(* Mutant: the value of the left side is not kept. *)
MutShortCircuit(b, op, l, r) ==
  LET left == Expr(b, l)
      right == LastBlock(left) + 1
      meet == right + 1
      result == left.next
      made == [NewBlocks(left, 2) EXCEPT !.next = @ + 1]
      split == JumpIf(MoveTo(made, result, left.v), left.v,
                      IF op = "&&" THEN meet ELSE right, IF op = "&&" THEN right ELSE meet)
      other == Expr(At(split, right), r) IN
  [At(Jump(MoveTo(other, result, other.v), meet), meet) EXCEPT !.v = result]
ShortCircuit(b, op, l, r) ==
  LET left == Expr(b, l)
      right == LastBlock(left) + 1
      meet == right + 1
      result == left.next
      made == [NewBlocks(left, 2) EXCEPT !.next = @ + 1]
      split == JumpIf(MoveTo(made, result, left.v), left.v,
                      IF op = "&&" THEN right ELSE meet, IF op = "&&" THEN meet ELSE right)
      other == Expr(At(split, right), r) IN
  [At(Jump(MoveTo(other, result, other.v), meet), meet) EXCEPT !.v = result]

(* NullCoalesce *)
Coalesce(b, l, r) ==
  LET left == Expr(b, l)
      nil == Const(left, NilValue)
      isNil == Give(nil, "bin", <<left.v, nil.v>>, "==")
      result == isNil.next
      k == LastBlock(isNil)
      split == JumpIf([NewBlocks(isNil, 3) EXCEPT !.next = @ + 1], isNil.v, k + 1, k + 2)
      right == Expr(At(split, k + 1), r)
      chosen == Jump(MoveTo(right, result, right.v), k + 3)
      kept == Jump(MoveTo(At(chosen, k + 2), result, left.v), k + 3) IN
  [At(kept, k + 3) EXCEPT !.v = result]

(* merge_local_value *)
MergedValue(b, before, yes, no, x, c) ==
  LET inYes == Bindings(yes, x) # {}
      inNo == Bindings(no, x) # {} IN
  CASE inYes /\ inNo ->
         IF BoundTo(yes, x) = before /\ BoundTo(no, x) = before THEN [b EXCEPT !.v = before]
         ELSE Give(b, "select", <<c, BoundTo(yes, x), BoundTo(no, x)>>, "")
    [] inYes /\ ~inNo -> [b EXCEPT !.v = BoundTo(yes, x)]
    [] ~inYes /\ inNo -> [b EXCEPT !.v = BoundTo(no, x)]
    [] OTHER -> [b EXCEPT !.v = before]

(* merge_locals_for_if_merge: the locals of before the if, then those a    *)
(* branch brought.                                                         *)
(* Mutant: what the branches assigned is forgotten. *)
MutMergeLocals(b, before, yes, no, c) == [b EXCEPT !.locals = before]
MergeLocals(b, before, yes, no, c) ==
  LET all == before \o yes \o no
      known == {before[k][1] : k \in DOMAIN before}
      first == {k \in DOMAIN all : \/ k <= Len(before)
                                   \/ /\ all[k][1] \notin known
                                      /\ \A j \in 1..(k - 1) : all[j][1] # all[k][1]}
      merged == FoldLeft(LAMBDA r, k :
                           LET m == MergedValue(r.b, all[k][2], yes, no, all[k][1], c) IN
                           [b |-> m, locals |-> Append(r.locals, <<all[k][1], m.v>>)],
                         [b |-> b, locals |-> <<>>],
                         SetToSortSeq(first, LAMBDA j, k : j < k)) IN
  [merged.b EXCEPT !.locals = merged.locals]

(* build_if_expr *)
IfBranches(b, n) ==
  LET c == Expr(b, Kid(n, 1))
      k == LastBlock(c)
      meet == k + 3
      result == c.next
      split == [JumpIf(NewBlocks(c, 3), c.v, k + 1, k + 2) EXCEPT !.next = @ + 1]
      yes == BlockExpr(At(split, k + 1), Kids(Kid(n, 2)))
      afterYes == UnlessTerminated(yes, Jump(MoveTo(yes, result, yes.v), meet))
      else == At([afterYes EXCEPT !.locals = c.locals], k + 2)
      no == IF Len(Kids(n)) = 3 THEN Expr(else, Kid(n, 3)) ELSE Const(else, NilValue)
      afterNo == UnlessTerminated(no, Jump(MoveTo(no, result, no.v), meet))
      met == MergeLocals(At(afterNo, meet), c.locals, yes.locals, no.locals, c.v)
      nil == Const(met, NilValue)
      both == BlockTerminated(yes) /\ BlockTerminated(no) IN
  [(IF both THEN UnlessTerminated(met, Do(nil, "return", <<nil.v>>, "")) ELSE met)
     EXCEPT !.v = result]

(* The check of one arm of a match, in its block: on to body or to next. *)
ArmCheck(b, scrutinee, pattern, body, next) ==
  LET lit == Expr(b, pattern)
      same == Give(lit, "bin", <<scrutinee, lit.v>>, "==")
      low == Expr(b, Kid(pattern, 1))
      high == Expr(low, Kid(pattern, 2))
      above == Give(high, "bin", <<scrutinee, low.v>>, ">=")
      second == LastBlock(above) + 1
      split == At(JumpIf(NewBlocks(above, 1), above.v, second, next), second)
      below == Give(split, "bin", <<scrutinee, high.v>>, IF What(pattern) = ".." THEN "<=" ELSE "<") IN
  CASE Op(pattern) = "any" -> Jump(b, body)
    [] Op(pattern) = "bind" -> Jump(Define(b, What(pattern), scrutinee), body)
    [] Op(pattern) = "bin" -> JumpIf(below, below.v, body, next)
    [] OTHER -> JumpIf(same, same.v, body, next)

(* Match: all checks, then all bodies. *)
MatchArms(b, n) ==
  LET scrutinee == Expr(b, Kid(n, 1))
      arms == Tail(Kids(n))
      k == LastBlock(scrutinee)
      meet == k + 2 * Len(arms) + 1
      result == scrutinee.next
      Check(a) == k + 2 * a - 1
      Body(a) == k + 2 * a
      made == [NewBlocks(scrutinee, 2 * Len(arms) + 1) EXCEPT !.next = @ + 1]
      checked ==
        UntilError(LAMBDA c, a : ArmCheck(At(c, Check(a)), scrutinee.v, Kid(arms[a], 1), Body(a),
                                          IF a < Len(arms) THEN Check(a + 1) ELSE meet),
                   Jump(made, Check(1)), [a \in DOMAIN arms |-> a])
      bodies ==
        UntilError(LAMBDA c, a : LET e == Expr(At(c, Body(a)), Kid(arms[a], 2)) IN
                                 Jump(MoveTo(e, result, e.v), meet),
                   checked, [a \in DOMAIN arms |-> a]) IN
  [At(bodies, meet) EXCEPT !.v = result]

(* build_dict_literal: an empty one, then its entries in their order. *)
DictLiteral(b, n) ==
  LET made == Give(b, "objectnew", <<>>, "") IN
  [UntilError(LAMBDA c, entry : LET e == Expr(c, Kid(entry, 1)) IN
                                Do(e, "setfield", <<made.v, e.v>>, What(entry)),
              made, Kids(n)) EXCEPT !.v = made.v]

Literal(n) == IF Op(n) = "nil" THEN NilValue ELSE <<Op(n), What(n)>>

(* build_expr *)
Expr(b, n) ==
  LET op == Op(n) IN
  CASE op \in {"num", "str", "bool", "nil"} -> Const(b, Literal(n))
    [] op = "id" -> Ident(b, What(n))
    [] op = "bin" /\ What(n) \in {"&&", "||"} -> ShortCircuit(b, What(n), Kid(n, 1), Kid(n, 2))
    [] op = "bin" /\ What(n) = "??" -> Coalesce(b, Kid(n, 1), Kid(n, 2))
    [] op = "bin" /\ What(n) \in {"..", "..<"} -> GiveOf(b, "range", Kids(n), What(n))
    [] op = "bin" /\ What(n) \notin {"&&", "||", "??", "..", "..<"} ->
         Binary(b, What(n), Kid(n, 1), Kid(n, 2))
    [] op = "un" -> GiveOf(b, "un", Kids(n), What(n))
    [] op = "call" -> GiveOf(b, "call", Kids(n), "")
    [] op = "index" -> GiveOf(b, "indexget", Kids(n), "")
    [] op = "field" -> GiveOf(b, "getfield", Kids(n), What(n))
    [] op \in {"array", "tuple"} -> GiveOf(b, "array", Kids(n), "")
    [] op = "dict" -> DictLiteral(b, n)
    [] op = "block" -> BlockExpr(b, Kids(n))
    [] op = "if" -> IfBranches(b, n)
    [] op = "match" -> MatchArms(b, n)
    [] op = "fn" -> Closure(b, What(n)[1], What(n)[2], Kids(n))
    [] op = "closure" -> Closure(b, "", What(n), Kids(n))
    [] op = "while" -> Const(Stmt(b, n), NilValue)
    [] op = "loop" -> [LoopForever([b EXCEPT !.next = @ + 1], Kids(Kid(n, 1)), b.next) EXCEPT !.v = b.next]
    [] op \in {"break", "continue", "return", "for"} -> Ghost(Stmt(b, n))

(* build_block_expr *)
BlockExpr(b, stmts) ==
  UntilError(LAMBDA c, s : IF Op(s) = "assign" THEN [Stmt(c, s) EXCEPT !.v = c.v] ELSE Expr(c, s),
             Const(b, NilValue), stmts)

(* build_assign and, in a function body, build_stmt_in_fn: there the first *)
(* binding of the name is changed, and nothing is emitted for it or for a  *)
(* target that is no name.  A function assigned to a name is a global      *)
(* function while it is built.                                             *)
AssignedValue(b, target, value) ==
  LET c == Expr(IF Op(target) = "id" /\ IsFunction(value)
                THEN [b EXCEPT !.pending = @ \cup {What(target)}] ELSE b, value) IN
  IF Op(target) = "id" /\ IsFunction(value) THEN [c EXCEPT !.pending = @ \ {What(target)}] ELSE c

AssignInFunction(b, target, value) ==
  LET c == AssignedValue(b, target, value)
      x == What(target) IN
  CASE Op(target) # "id" -> c
    [] Op(target) = "id" /\ IsLocal(c, x) -> Rebind(c, Min(Bindings(c.locals, x)), c.v)
    [] OTHER -> Do(c, "setglobal", <<c.v>>, x)

AppendToChain(b, x, value) ==
  [FoldLeft(LAMBDA c, part : LET e == Expr(c, part) IN
                             Do(e, "chainappend", <<b.chains[x], e.v>>, ""),
            b, Appended(x, value)) EXCEPT !.v = b.chains[x]]

AssignTo(b, target, value) ==
  LET c == AssignedValue(b, target, value)
      place == Exprs(c, Kids(target))
      set == IF Op(Kid(target, 1)) = "id" THEN "indexsetmut" ELSE "indexset" IN
  CASE Op(target) = "id" /\ What(target) \in DOMAIN b.chains /\ AppendsTo(What(target), value) ->
         AppendToChain(b, What(target), value)
    [] Op(target) = "id" /\ ~(What(target) \in DOMAIN b.chains /\ AppendsTo(What(target), value)) ->
         SetVariable(c, What(target), c.v)
    [] Op(target) = "index" -> [Do(place.b, set, place.vs \o <<c.v>>, "") EXCEPT !.v = c.v]
    [] Op(target) = "field" ->
         [Do(place.b, "setfield", place.vs \o <<c.v>>, What(target)) EXCEPT !.v = c.v]

(* Loops.  A name the body appends strings to is built in a chain, made    *)
(* before the loop and assigned behind it.                                 *)
InLoop(b, exit, continue, result, stmts) ==
  LET body == Stmts([b EXCEPT !.loops = Append(@, [exit |-> exit, continue |-> continue,
                                                   result |-> result])], stmts) IN
  [body EXCEPT !.loops = SubSeq(@, 1, Len(@) - 1)]
Concatenated(stmts) ==
  FoldLeft(LAMBDA xs, s :
             IF /\ Op(s) = "assign" /\ Op(Kid(s, 1)) = "id" /\ AppendsTo(What(Kid(s, 1)), Kid(s, 2))
                /\ What(Kid(s, 1)) \notin Range(xs)
             THEN Append(xs, What(Kid(s, 1))) ELSE xs, <<>>, stmts)
StartChains(b, xs) ==
  FoldLeft(LAMBDA c, x : LET d == Give(c, "chain", <<>>, "") IN
                         [d EXCEPT !.chains = (x :> d.v) @@ @],
           b, xs)
FinishChains(b, xs) ==
  FoldLeft(LAMBDA c, x : LET d == Give(c, "chainfinish", <<c.chains[x]>>, "") IN
                         [SetVariable(d, x, d.v)
                            EXCEPT !.chains = [y \in DOMAIN @ \ {x} |-> @[y]]],
           b, SelectSeq(xs, LAMBDA x : x \in DOMAIN b.chains))

(* build_while_stmt: condition, body and exit blocks. *)
(* Mutant: a continue skips the condition. *)
MutWhileLoop(b, n) ==
  LET k == LastBlock(b)
      xs == Concatenated(Kids(Kid(n, 2)))
      c == Expr(At(Jump(StartChains(NewBlocks(b, 3), xs), k + 1), k + 1), Kid(n, 1))
      body == InLoop(At(JumpIf(c, c.v, k + 2, k + 3), k + 2), k + 3, k + 2, NoValue,
                     Kids(Kid(n, 2))) IN
  FinishChains(At(UnlessTerminated(body, Jump(body, k + 1)), k + 3), xs)
WhileLoop(b, n) ==
  LET k == LastBlock(b)
      xs == Concatenated(Kids(Kid(n, 2)))
      c == Expr(At(Jump(StartChains(NewBlocks(b, 3), xs), k + 1), k + 1), Kid(n, 1))
      body == InLoop(At(JumpIf(c, c.v, k + 2, k + 3), k + 2), k + 3, k + 1, NoValue,
                     Kids(Kid(n, 2))) IN
  FinishChains(At(UnlessTerminated(body, Jump(body, k + 1)), k + 3), xs)

(* build_loop_stmt: a loop with a result gives nil to whoever leaves it. *)
LoopForever(b, stmts, result) ==
  LET k == LastBlock(b)
      body == InLoop(At(Jump(NewBlocks(b, 2), k + 1), k + 1), k + 2, k + 1, result, stmts)
      out == At(UnlessTerminated(body, Jump(body, k + 1)), k + 2)
      nil == Const(out, NilValue) IN
  IF result = NoValue THEN out ELSE MoveTo(nil, result, nil.v)

(* build_for_in_stmt: init, condition, body, step and exit blocks; what    *)
(* the loop keeps is in names of its depth.                                *)
Hidden(b, what) == "__" \o what \o "_" \o ToString(Len(b.loops)) \o "__"
ForLoop(b, n) ==
  LET k == LastBlock(b)
      iter == Hidden(b, "iter")
      idx == Hidden(b, "idx")
      len == Hidden(b, "for_len")
      xs == Concatenated(Kids(Kid(n, 2)))
      Local(c, x, v) == Do(c, "setlocal", <<v>>, x)
      over == Expr(At(Jump(NewBlocks(b, 5), k + 1), k + 1), Kid(n, 1))
      zero == Const(Local(over, iter, over.v), NumValue(0))
      length == Give(Local(zero, idx, zero.v), "len", <<over.v>>, "")
      init == Jump(StartChains(Local(length, len, length.v), xs), k + 2)
      i1 == Give(At(init, k + 2), "getlocal", <<>>, idx)
      l1 == Give(i1, "getlocal", <<>>, len)
      less == Give(l1, "bin", <<i1.v, l1.v>>, "<")
      it == Give(At(JumpIf(less, less.v, k + 3, k + 5), k + 3), "getlocal", <<>>, iter)
      i2 == Give(it, "getlocal", <<>>, idx)
      element == Give(i2, "indexget", <<it.v, i2.v>>, "")
      bound == Define(Local(element, What(n), element.v), What(n), element.v)
      body == InLoop(bound, k + 5, k + 4, NoValue, Kids(Kid(n, 2)))
      outOfScope == [body EXCEPT !.locals = SubSeq(@, 1, Len(bound.locals))]
      i3 == Give(At(UnlessTerminated(outOfScope, Jump(outOfScope, k + 4)), k + 4),
                 "getlocal", <<>>, idx)
      one == Const(i3, NumValue(1))
      next == Give(one, "bin", <<i3.v, one.v>>, "+") IN
  FinishChains(At(Jump(Local(next, idx, next.v), k + 2), k + 5), xs)

BreakLoop(b, n) ==
  LET loop == b.loops[Len(b.loops)]
      e == Expr(b, Kid(n, 1)) IN
  IF b.loops = <<>> THEN Refuse(b)
  ELSE IF Kids(n) = <<>> THEN Jump(b, loop.exit)
  ELSE Jump(IF loop.result = NoValue THEN e ELSE MoveTo(e, loop.result, e.v), loop.exit)
ContinueLoop(b) == IF b.loops = <<>> THEN Refuse(b) ELSE Jump(b, b.loops[Len(b.loops)].continue)
ReturnFrom(b, n) ==
  LET e == IF Kids(n) = <<>> THEN Const(b, NilValue) ELSE Expr(b, Kid(n, 1)) IN
  IF ~b.inFn THEN Refuse(b) ELSE Do(e, "return", <<e.v>>, "")

(* build_stmt, build_expr_stmt *)
Stmt(b, n) ==
  CASE Op(n) = "assign" -> AssignTo(b, Kid(n, 1), Kid(n, 2))
    [] Op(n) = "while" -> WhileLoop(b, n)
    [] Op(n) = "loop" -> LoopForever(b, Kids(Kid(n, 1)), NoValue)
    [] Op(n) = "for" -> ForLoop(b, n)
    [] Op(n) = "break" -> BreakLoop(b, n)
    [] Op(n) = "continue" -> ContinueLoop(b)
    [] Op(n) = "return" -> ReturnFrom(b, n)
    [] Op(n) = "import" -> b
    [] OTHER -> Expr(b, n)
-------------------------------------------------------------------------------
(* build_block_statements_for_fn *)
FunctionBody(b, stmts) ==
  LET done == UntilError(LAMBDA c, s : IF Op(s) = "assign"
                                       THEN AssignInFunction(c, Kid(s, 1), Kid(s, 2)) ELSE Expr(c, s),
                         Ghost(b), stmts) IN
  IF stmts = <<>> THEN Const(done, NilValue) ELSE done

(* Where a captured variable is taken from. *)
CaptureInto(b, closure, j, x) ==
  LET levels == CaptureLevels(b, x) IN
  CASE IsLocal(b, x) -> Do(b, "capture", <<closure, BoundTo(b.locals, x)>>, <<j, "register", 0, x>>)
    [] ~IsLocal(b, x) /\ levels # {} ->
         Do(b, "capture", <<closure>>, <<j, "outer", CaptureIndex(b.captureStack[Max(levels)], x), x>>)
    [] OTHER -> Do(b, "capture", <<closure>>, <<j, "global", 0, x>>)

(* build_closure_expr: the function is built with locals of its own, then  *)
(* the closure is made and filled where the function stands.               *)
Closure(b, name, params, body) ==
  LET captures == CapturesOf(b, name, params, body)
      own == [b EXCEPT !.fns = Append(@, NewFunction(name, params, captures)),
                       !.cur = Len(b.fns) + 1, !.block = 1, !.inFn = TRUE, !.locals = <<>>,
                       !.captureStack = Append(@, captures)]
      withParams == FoldLeft(LAMBDA c, j : LET d == Give(c, "loadarg", <<>>, j - 1) IN
                                           Define(d, params[j], d.v),
                             own, [j \in DOMAIN params |-> j])
      withCaptures == FoldLeft(LAMBDA c, j : LET d == Give(c, "getcapture", <<>>, j) IN
                                             Define(d, captures[j], d.v),
                               withParams, [j \in DOMAIN captures |-> j])
      built == FunctionBody(withCaptures, body)
      ended == UnlessTerminated(built, Do(built, "return", <<built.v>>, ""))
      closure == ended.next
      back == [ended EXCEPT !.next = @ + 1, !.cur = b.cur, !.block = b.block, !.inFn = b.inFn,
                            !.locals = b.locals, !.captureStack = b.captureStack]
      filled == FoldLeft(LAMBDA c, j : CaptureInto(c, closure, j, captures[j]),
                         Emit(back, IrOp("closure", closure, <<>>, Len(b.fns) + 1)),
                         [j \in DOMAIN captures |-> j])
      stored == IF name = "" THEN filled
                ELSE Do(filled, IF IsLocal(filled, name) THEN "setlocal" ELSE "setglobal",
                        <<closure>>, name) IN
  [stored EXCEPT !.v = closure]

(* build_statements_with_last_expr: a loop or a jump does not change what  *)
(* the program answers.                                                    *)
Valueless == {"while", "loop", "break", "continue", "return", "for", "import"}
MainBody(b, stmts) ==
  LET done == UntilError(LAMBDA c, s : IF Op(s) \in Valueless THEN [Stmt(c, s) EXCEPT !.v = c.v]
                                       ELSE Stmt(c, s),
                         Ghost(b), stmts) IN
  IF \A s \in Range(stmts) : Op(s) \in Valueless THEN Const(done, NilValue) ELSE done
===============================================================================

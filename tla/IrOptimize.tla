------------------------------ MODULE IrOptimize ------------------------------
(***************************************************************************)
(* The optimizer (nuzo-ir, optimize.rs): constants are folded and neutral  *)
(* operands dropped block by block, what stands behind a terminator goes,  *)
(* then the moves of the whole function nobody reads.                      *)
(***************************************************************************)
EXTENDS Ir

Unfolded == <<"unfolded">>

(* Mutant: a division by zero is folded too. *)
MutFoldBinary(op, v, w) ==
  IF IsNum(v) /\ IsNum(w) /\ op \in Arithmetic
  THEN NumValue(IF op \in {"/", "%"} /\ w[2] = 0 THEN 0 ELSE Number(op, v[2], w[2]))
  ELSE Unfolded

FoldBinary(op, v, w) ==
  IF IsNum(v) /\ IsNum(w) /\ op \in Arithmetic
  THEN IF op \in {"/", "%"} /\ w[2] = 0 THEN Unfolded ELSE NumValue(Number(op, v[2], w[2]))
  ELSE IF IsNum(v) /\ IsNum(w) /\ op \in Orderings THEN BoolValue(Ordered(op, v[2], w[2]))
  ELSE IF IsStr(v) /\ IsStr(w) /\ op = "+" THEN StrValue(v[2] \o w[2])
  ELSE IF TypeOf(v) = TypeOf(w) /\ op \in Equalities THEN BoolValue((v = w) <=> (op = "=="))
  ELSE Unfolded

FoldUnary(op, v) ==
  IF op = "-" /\ IsNum(v) THEN NumValue(0 - v[2])
  ELSE IF op = "!" /\ IsBool(v) THEN BoolValue(~v[2]) ELSE Unfolded

(* known: a function from the values that are constants to the constants.  *)
Is(known, v, k) == v \in DOMAIN known /\ known[v] = NumValue(k)
Load(d, v) == IrOp("const", d, <<>>, v)
Move(d, v) == IrOp("mov", d, <<v>>, "")

(* The neutral operands of try_fold_binary. *)
Identity(op, d, l, r, known) ==
  IF op \in {"+", "-"} /\ Is(known, r, 0) THEN Move(d, l)
  ELSE IF op = "+" /\ Is(known, l, 0) THEN Move(d, r)
  ELSE IF op \in {"*", "/", "**"} /\ Is(known, r, 1) THEN Move(d, l)
  ELSE IF op = "*" /\ (Is(known, r, 0) \/ Is(known, l, 0)) THEN Load(d, NumValue(0))
  ELSE IF op = "*" /\ Is(known, l, 1) THEN Move(d, r)
  ELSE IF op = "**" /\ Is(known, r, 0) THEN Load(d, NumValue(1))
  ELSE IrOp("bin", d, <<l, r>>, op)

(* One operation of optimize_block. *)
Simplified(i, known) ==
  LET args == Args(i)
      folded ==
        CASE OpName(i) = "bin" /\ {args[1], args[2]} \subseteq DOMAIN known ->
               FoldBinary(Detail(i), known[args[1]], known[args[2]])
          [] OpName(i) = "un" /\ args[1] \in DOMAIN known -> FoldUnary(Detail(i), known[args[1]])
          [] OTHER -> Unfolded IN
  CASE folded # Unfolded -> Load(Dest(i), folded)
    [] folded = Unfolded /\ OpName(i) = "bin" ->
         Identity(Detail(i), Dest(i), args[1], args[2], known)
    [] OTHER -> i

Learned(known, i) ==
  IF OpName(i) = "const" /\ Dest(i) \notin DOMAIN known
  THEN [v \in DOMAIN known \cup {Dest(i)} |-> IF v = Dest(i) THEN Detail(i) ELSE known[v]]
  ELSE known

(* optimize_block: every constant of the block is known from its start.    *)
Constants(ops) ==
  LET loads == {k \in DOMAIN ops : OpName(ops[k]) = "const"} IN
  [v \in {Dest(ops[k]) : k \in loads} |-> Detail(ops[CHOOSE k \in loads : Dest(ops[k]) = v])]
Terminated(ops) == \E k \in DOMAIN ops : IsTerminator(ops[k])
FirstTerminator(ops) ==
  CHOOSE k \in DOMAIN ops : IsTerminator(ops[k]) /\ \A j \in 1..(k - 1) : ~IsTerminator(ops[j])
OptimizeBlock(ops) ==
  LET pass[k \in 0..Len(ops)] ==
        IF k = 0 THEN [known |-> Constants(ops), ops |-> <<>>]
        ELSE LET before == pass[k - 1]
                 i == Simplified(ops[k], before.known) IN
             [known |-> Learned(before.known, i), ops |-> Append(before.ops, i)]
      folded == pass[Len(ops)].ops IN
  IF Terminated(folded) THEN SubSeq(folded, 1, FirstTerminator(folded)) ELSE folded

(* remove_redundant_movs_function *)
UsedIn(blocks) ==
  UNION {UNION {{Args(blocks[b][k])[j] : j \in DOMAIN Args(blocks[b][k])}
                  : k \in DOMAIN blocks[b]} : b \in DOMAIN blocks}
WithoutDeadMoves(blocks) ==
  LET used == UsedIn(blocks)
      Needed(i) == OpName(i) = "mov" => Dest(i) # Args(i)[1] /\ Dest(i) \in used IN
  [b \in DOMAIN blocks |-> SelectSeq(blocks[b], Needed)]

OptimizeFunction(blocks) == WithoutDeadMoves([b \in DOMAIN blocks |-> OptimizeBlock(blocks[b])])
===============================================================================

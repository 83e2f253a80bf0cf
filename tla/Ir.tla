---------------------------------- MODULE Ir ----------------------------------
(***************************************************************************)
(* The intermediate code (nuzo-ir, types.rs).  A function is a sequence of *)
(* basic blocks, a block a sequence of operations                          *)
(*     <<name, dest, args, what>>                                          *)
(* that define the value dest (NoValue: none) from the values args; what   *)
(* holds the rest: the constant, the operator, the name, the index, the    *)
(* function, or for a jump the blocks it may go to.                        *)
(***************************************************************************)
EXTENDS Values

NoValue == 0

IrOp(name, dest, args, what) == <<name, dest, args, what>>
OpName(op) == op[1]
Dest(op) == op[2]
Args(op) == op[3]       \* src_value_refs
Detail(op) == op[4]

(* A function among others that come after the first n: the remapping of   *)
(* ir_func in merge_imported_functions.                                    *)
Renumbered(fn, n) ==
  [fn EXCEPT !.blocks =
     [k \in DOMAIN @ |-> [j \in DOMAIN @[k] |->
        LET op == @[k][j] IN
        IF OpName(op) = "closure" THEN IrOp("closure", Dest(op), Args(op), Detail(op) + n) ELSE op]]]

IsTerminator(op) == OpName(op) \in {"jump", "jumpif", "return"}
===============================================================================

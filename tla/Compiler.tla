------------------------------- MODULE Compiler -------------------------------
(***************************************************************************)
(* A program through the compiler (nuzo-compiler, compiler.rs:             *)
(* compile_with_bus_and_resolver): parsed, lowered with what it imports,   *)
(* optimised round by round, generated.  What it should be at its end      *)
(* stands beside it.                                                       *)
(***************************************************************************)
CONSTANTS
  Builtin,         \* the name of the host function
  InitialGlobals,  \* what earlier programs of the session left behind
  MaxDepth         \* MAX_DEPTH of resolve_imports

Frontend == INSTANCE Parser
Lowering == INSTANCE Modules
Optimizer == INSTANCE IrOptimize
Back == INSTANCE CodeGen
Reference == INSTANCE Meaning

(* optimize: another round as long as one changes something. *)
RECURSIVE Optimized(_)
Optimized(functions) ==
  LET round == [k \in DOMAIN functions |->
                  [functions[k] EXCEPT !.blocks = Optimizer!OptimizeFunction(@)]] IN
  IF round = functions THEN functions ELSE Optimized(round)

Parsed(p) == Frontend!Parse(Frontend!TextStatements(Frontend!Kids(p)))

(* Program p, with the modules there are, by path.                         *)
(*   source, parsed     the tree as it was written, and as it was read     *)
(*   refused, code      whether the builder refused it, the instructions   *)
(*   meaning            what it does, from each of the initial globals     *)
Compiled(p, modules) ==
  LET parsed == Parsed(p)
      built == Lowering!BuildWithImports(parsed.ast, {Builtin},
                 [path \in DOMAIN modules |-> Parsed(modules[path]).ast], <<>>, <<>>) IN
  [source |-> Frontend!Desugar(p), parsed |-> parsed, refused |-> built.err,
   code |-> IF built.err THEN [err |-> TRUE, fns |-> <<>>]
            ELSE Back!Generate(Optimized(built.fns), built.imports),
   meaning |-> [names \in InitialGlobals |-> Reference!MeaningOf(p, names, modules, MaxDepth)]]
===============================================================================

-------------------------------- MODULE Modules --------------------------------
(***************************************************************************)
(* Imports (nuzo-ir, builder.rs and module_resolver.rs).  The modules a    *)
(* program imports are built before it, each with its own imports, and     *)
(* their functions become functions and globals of the program; what is at *)
(* their top level stays behind, for InitModule if the import is lazy.     *)
(* sources: the parsed modules by resolved path.                           *)
(***************************************************************************)
EXTENDS IrBuilder

CONSTANT MaxDepth   \* MAX_DEPTH of resolve_imports

Imports(program) == SelectSeq(Kids(program), LAMBDA n : Op(n) = "import")
PathOf(n) == What(n)[1]
IsLazy(n) == What(n)[2]

(* ImportRecord; the alias is read by nothing. *)
ImportRecord(n, fns) ==
  [path |-> PathOf(n), lazy |-> IsLazy(n), fns |-> fns,
   symbols |-> [k \in 1..(Len(fns) - 1) |-> fns[k + 1].name]]

(* pre_scan_global_fns: own are the functions of the program, the builtins *)
(* for the first one.  Functions without a name all have the same.         *)
(* Mutant: names are compared within each import only. *)
MutClashes(records, own) ==
  \E k \in DOMAIN records : ~IsInjective(records[k].symbols) \/ Range(records[k].symbols) \cap own # {}
Clashes(records, own) ==
  LET symbols == FlattenSeq([k \in DOMAIN records |-> records[k].symbols]) IN
  ~IsInjective(symbols) \/ Range(symbols) \cap own # {}

(* merge_imported_functions: the closures of the merged functions lead to  *)
(* their new places, and the program begins by assigning them.             *)
MergeRecord(b, record) ==
  LET by == Len(b.fns) - 1
      Merged(c, k) ==
        LET made == Give([c EXCEPT !.fns = Append(@, Renumbered(record.fns[k], by))],
                         "closure", <<>>, k + by) IN
        Do(made, "setglobal", <<made.v>>, record.fns[k].name) IN
  FoldLeft(Merged, b, [k \in 1..(Len(record.fns) - 1) |-> k + 1])

(* build_with_imports, resolve_imports.  stack: the modules being built;   *)
(* cache: the functions of those that were, by path.                       *)
RECURSIVE BuildWithImports(_, _, _, _, _)
BuildWithImports(program, globalNames, sources, stack, cache) ==
  LET Unresolved(path) ==
        Len(stack) >= MaxDepth \/ path \notin DOMAIN sources \/ path \in Range(stack)
      Resolve(r, n) ==
        LET path == PathOf(n)
            module == IF path \in DOMAIN r.cache THEN [err |-> FALSE, fns |-> r.cache[path], cache |-> r.cache]
                      ELSE BuildWithImports(sources[path], {}, sources, Append(stack, path), r.cache) IN
        IF Unresolved(path) THEN [r EXCEPT !.err = TRUE]
        ELSE [records |-> Append(r.records, ImportRecord(n, module.fns)), err |-> module.err,
              cache |-> (path :> module.fns) @@ module.cache]
      resolved == UntilError(Resolve, [records |-> <<>>, err |-> FALSE, cache |-> cache], Imports(program))
      stmts == Kids(program)
      own == globalNames \cup GlobalFunctions(stmts)
      imported == UNION {Range(r.symbols) : r \in Range(resolved.records)}
      b == MainBody(FoldLeft(MergeRecord, NewBuilder(own \cup imported), resolved.records), stmts)
      ended == Do(b, "return", <<b.v>>, "") IN
  IF resolved.err \/ Clashes(resolved.records, own)
  THEN [err |-> TRUE, fns |-> <<>>, imports |-> <<>>, cache |-> cache]
  ELSE [err |-> b.err, fns |-> ended.fns, imports |-> resolved.records, cache |-> resolved.cache]
===============================================================================

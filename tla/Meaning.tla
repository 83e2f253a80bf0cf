------------------------------- MODULE Meaning -------------------------------
(***************************************************************************)
(* What a program means, read off its tree: the reference the compiled     *)
(* program is compared with.  An evaluation takes and gives a record s:    *)
(*   v        the value                                                    *)
(*   flow     "go", or how the evaluation is left: "break", "continue",    *)
(*            "return", "error"                                            *)
(*   globals, vars, arrays, trace                                          *)
(*   waiting  the lazy modules not run yet, by the names they offer        *)
(* A function is a value with the variables it was made with; a name that  *)
(* is no parameter, loop variable or binding of a match is global.         *)
(***************************************************************************)
EXTENDS Syntax, Values

Calm(names, waiting) == [v |-> NilValue, flow |-> "go", globals |-> names, vars |-> <<>>,
                         arrays |-> <<>>, trace |-> <<>>, waiting |-> waiting]
Is(s) == s.flow = "go"
Fails(s) == [s EXCEPT !.flow = "error"]
Gives(s, v) == IF v = ErrorValue THEN Fails(s) ELSE [s EXCEPT !.v = v]
Set(f, x, v) == [y \in DOMAIN f \cup {x} |-> IF y = x THEN v ELSE f[y]]
FunctionValue(name, params, body, vars) == <<"closure", name, params, body, vars>>
ArrayValue(a) == <<"array", a>>   \* and a dict: known by their place in the store
DictValue(a) == <<"dict", a>>
RangeValue(low, high) == <<"range", low, high>>
HostFunction == <<"host">>

(* What the host sees of a value. *)
Scalar(v) == TypeOf(v) \in {"num", "str", "bool", "nil"}
Shown(v) == IF Scalar(v) THEN v ELSE <<TypeOf(v)>>

Lookup(s, x) ==
  Gives(s, IF x \in DOMAIN s.vars THEN s.vars[x]
           ELSE IF x \in DOMAIN s.globals THEN s.globals[x] ELSE ErrorValue)
Store(s, x, v) ==
  IF x \in DOMAIN s.vars THEN [s EXCEPT !.vars = Set(@, x, v)]
  ELSE [s EXCEPT !.globals = Set(@, x, v)]

ElementOf(s, object, i) ==
  CASE TypeOf(object) = "dict" /\ IsStr(i) ->
         IF i[2] \in DOMAIN s.arrays[object[2]] THEN s.arrays[object[2]][i[2]] ELSE NilValue
    [] IsNum(i) /\ TypeOf(object) = "array" ->
         IF i[2] + 1 \in DOMAIN s.arrays[object[2]] THEN s.arrays[object[2]][i[2] + 1] ELSE ErrorValue
    [] IsNum(i) /\ TypeOf(object) = "range" ->
         IF i[2] >= 0 /\ object[2] + i[2] < object[3] THEN NumValue(object[2] + i[2]) ELSE ErrorValue
    [] OTHER -> ErrorValue
SizeOf(s, v) ==
  CASE TypeOf(v) = "array" -> Len(s.arrays[v[2]])
    [] TypeOf(v) = "range" -> IF v[3] > v[2] THEN v[3] - v[2] ELSE 0
    [] OTHER -> -1
Larger(j, k) == IF j > k THEN j ELSE k
Replaced(elements, j, v) ==
  [k \in 1..Larger(j, Len(elements)) |->
     IF k = j THEN v ELSE IF k \in DOMAIN elements THEN elements[k] ELSE NilValue]
ElementSet(s, object, i, v) ==
  IF TypeOf(object) = "array" /\ IsNum(i) /\ i[2] >= 0
  THEN [s EXCEPT !.arrays[object[2]] = Replaced(@, i[2] + 1, v)]
  ELSE IF TypeOf(object) = "dict" /\ IsStr(i) THEN [s EXCEPT !.arrays[object[2]] = Set(@, i[2], v)]
  ELSE Fails(s)
(* A later entry of a key replaces an earlier one. *)
DictOf(entries, vs) ==
  [k \in {What(e) : e \in Range(entries)} |->
     LET j == CHOOSE m \in DOMAIN entries : /\ What(entries[m]) = k
                                            /\ \A l \in DOMAIN entries : What(entries[l]) = k => l <= m
     IN vs[j]]
FieldOf(s, object, name) ==
  CASE TypeOf(object) = "dict" -> ElementOf(s, object, StrValue(name))
    [] TypeOf(object) = "array" /\ name \in {"length", "len"} -> NumValue(SizeOf(s, object))
    [] OTHER -> NilValue
RangeOf(s, low, high, what) ==
  IF IsNum(low) /\ IsNum(high)
  THEN Gives(s, RangeValue(low[2], high[2] + (IF what = ".." THEN 1 ELSE 0))) ELSE Fails(s)

(* Imports.  modules: what there is to import, by path. *)
ImportsOf(p) == SelectSeq(Kids(p), LAMBDA n : Op(n) = "import")
Paths(p) == {What(n)[1] : n \in Range(ImportsOf(p))}
FunctionsAt(p) == SelectSeq(Kids(p), LAMBDA n : Op(n) = "fn")
(* Every function inside a tree counts, those without a name too. *)
RECURSIVE NamesIn(_), Offered(_, _), Importable(_, _, _, _)
NamesIn(n) ==
  (IF Op(n) = "fn" THEN <<What(n)[1]>> ELSE IF Op(n) = "closure" THEN <<"">> ELSE <<>>)
    \o FlattenSeq([k \in DOMAIN Kids(n) |-> NamesIn(Kid(n, k))])
ImportedNames(p, modules) ==
  FlattenSeq([k \in DOMAIN ImportsOf(p) |-> Offered(modules[What(ImportsOf(p)[k])[1]], modules)])
Offered(p, modules) == ImportedNames(p, modules) \o NamesIn(p)
Clash(p, modules, taken) ==
  \/ ~IsInjective(ImportedNames(p, modules))
  \/ Range(ImportedNames(p, modules))
        \cap ({What(n)[1] : n \in Range(FunctionsAt(p))} \cup taken) # {}

(* No module is missing, no chain of imports is too long, as one that runs *)
(* in a circle is, and no name comes from two sides.                       *)
Importable(p, modules, taken, depth) ==
  /\ \A path \in Paths(p) :
       depth > 0 /\ path \in DOMAIN modules /\ Importable(modules[path], modules, {}, depth - 1)
  /\ ~Clash(p, modules, taken)

(* The functions of all imports are there from the beginning. *)
RECURSIVE ImportedFunctions(_, _)
ImportedFunctions(p, modules) ==
  UNION {Range(FunctionsAt(modules[path])) \cup ImportedFunctions(modules[path], modules) : path \in Paths(p)}
Imported(p, names, modules) ==
  LET made == ImportedFunctions(p, modules) IN
  [x \in {What(n)[1] : n \in made} |->
     LET n == CHOOSE k \in made : What(k)[1] = x IN FunctionValue(x, What(n)[2], Kids(n), <<>>)] @@ names
Waiting(p, modules) ==
  LET lazy == SelectSeq(ImportsOf(p), LAMBDA n : What(n)[2]) IN
  FoldLeft(LAMBDA w, n : LET module == modules[What(n)[1]] IN
                         [x \in Range(Offered(module, modules)) |-> module] @@ w, <<>>, lazy)
-------------------------------------------------------------------------------
RECURSIVE Eval(_, _), Repeat(_, _, _), Each(_, _, _, _, _), Arms(_, _, _, _)

(* One after the other, as long as nothing leaves. *)
InOrder(s, ns) == FoldLeft(LAMBDA t, n : IF Is(t) THEN Eval(t, n) ELSE t, s, ns)
ValuesOf(s, ns) ==
  FoldLeft(LAMBDA r, n : IF ~Is(r.s) THEN r
                         ELSE LET t == Eval(r.s, n) IN [s |-> t, vs |-> Append(r.vs, t.v)],
           [s |-> s, vs |-> <<>>], ns)
Then(s, Next(_)) == IF Is(s) THEN Next(s) ELSE s

(* What a lazy module offers is not used before its top level has run. *)
Ready(s, x) ==
  LET module == s.waiting[x]
      inside == InOrder([s EXCEPT !.vars = <<>>,
                                  !.waiting = [y \in {z \in DOMAIN @ : @[z] # module} |-> @[y]]],
                        Kids(module)) IN
  IF x \in DOMAIN s.vars \/ x \notin DOMAIN s.waiting THEN s ELSE [inside EXCEPT !.vars = s.vars]

Called(s, f, args) ==
  LET inside == InOrder([s EXCEPT !.v = NilValue,
                                  !.vars = [x \in DOMAIN f[5] \cup Range(f[3]) |->
                                              IF x \in Range(f[3])
                                              THEN args[CHOOSE j \in DOMAIN f[3] : f[3][j] = x]
                                              ELSE f[5][x]]], f[4]) IN
  [inside EXCEPT !.vars = s.vars, !.flow = IF @ = "return" THEN "go" ELSE @]
Apply2(s, f, args) ==
  CASE f = HostFunction -> [s EXCEPT !.trace = Append(@, [k \in DOMAIN args |-> Shown(args[k])]), !.v = NilValue]
    [] TypeOf(f) = "closure" -> IF Len(f[3]) = Len(args) THEN Called(s, f, args) ELSE Fails(s)
    [] OTHER -> Fails(s)

BodyOf(n, k) == Kids(Kid(n, k))
(* What a round of a loop leaves: go on, or out. *)
AfterRound(s) == IF s.flow = "continue" THEN [s EXCEPT !.flow = "go"] ELSE s
Left(s) == IF s.flow = "break" THEN [s EXCEPT !.flow = "go"] ELSE s
Repeat(s, c, body) ==
  LET asked == Eval(s, c)
      round == AfterRound(InOrder(asked, body)) IN
  IF ~Is(asked) \/ ~Truthy(asked.v) THEN asked
  ELSE IF Is(round) THEN Repeat(round, c, body) ELSE Left(round)
Each(s, x, over, k, body) ==
  LET round == AfterRound(InOrder([s EXCEPT !.vars = Set(@, x, ElementOf(s, over, NumValue(k)))], body)) IN
  IF k >= SizeOf(s, over) THEN s
  ELSE IF Is(round) THEN Each(round, x, over, k + 1, body) ELSE Left(round)
OutOf(s, before) == [s EXCEPT !.vars = [x \in DOMAIN before |-> @[x]]]

Fits(s, pattern, v) ==
  CASE Op(pattern) \in {"any", "bind"} -> TRUE
    [] Op(pattern) = "bin" ->
         LET low == Eval(s, Kid(pattern, 1)).v
             high == Eval(s, Kid(pattern, 2)).v IN
         /\ v[2] >= low[2]
         /\ v[2] <= high[2] - (IF What(pattern) = ".." THEN 0 ELSE 1)
    [] OTHER -> Eval(s, pattern).v = v
Arms(s, arms, v, k) ==
  LET pattern == Kid(arms[k], 1)
      inside == IF Op(pattern) = "bind" THEN [s EXCEPT !.vars = Set(@, What(pattern), v)] ELSE s IN
  IF k > Len(arms) THEN [s EXCEPT !.v = NilValue]
  ELSE IF Fits(s, pattern, v) THEN OutOf(Eval(inside, Kid(arms[k], 2)), s.vars)
  ELSE Arms(s, arms, v, k + 1)

Binding(n) == IF Op(n) = "nil" THEN NilValue ELSE <<Op(n), What(n)>>

Eval(s, n) ==
  LET op == Op(n)
      what == What(n)
      r == ValuesOf(s, Kids(n)) IN
  CASE op \in {"num", "str", "bool", "nil"} -> Gives(s, Binding(n))
    [] op = "id" -> Then(Ready(s, what), LAMBDA t : Lookup(t, what))
    [] op = "import" -> s
    [] op = "bin" /\ what = "&&" ->
         Then(Eval(s, Kid(n, 1)), LAMBDA t : IF Truthy(t.v) THEN Eval(t, Kid(n, 2)) ELSE t)
    [] op = "bin" /\ what = "||" ->
         Then(Eval(s, Kid(n, 1)), LAMBDA t : IF Truthy(t.v) THEN t ELSE Eval(t, Kid(n, 2)))
    [] op = "bin" /\ what = "??" ->
         Then(Eval(s, Kid(n, 1)), LAMBDA t : IF t.v = NilValue THEN Eval(t, Kid(n, 2)) ELSE t)
    [] op = "bin" /\ what \in {"..", "..<"} ->
         Then(r.s, LAMBDA t : RangeOf(t, r.vs[1], r.vs[2], what))
    [] op = "bin" /\ what \notin {"&&", "||", "??", "..", "..<"} ->
         Then(r.s, LAMBDA t : Gives(t, Apply(what, r.vs[1], r.vs[2])))
    [] op = "un" -> Then(r.s, LAMBDA t : Gives(t, ApplyUnary(what, r.vs[1])))
    [] op = "call" -> Then(r.s, LAMBDA t : Apply2(t, r.vs[1], Tail(r.vs)))
    [] op = "pipe" ->
         Then(Eval(s, Kid(n, 1)), LAMBDA t :
           LET right == Kid(n, 2)
               q == ValuesOf(t, IF Op(right) = "call" THEN Kids(right) ELSE <<right>>) IN
           Then(q.s, LAMBDA u : Apply2(u, q.vs[1], <<t.v>> \o Tail(q.vs))))
    [] op = "index" -> Then(r.s, LAMBDA t : Gives(t, ElementOf(t, r.vs[1], r.vs[2])))
    [] op = "array" ->
         Then(r.s, LAMBDA t : [t EXCEPT !.arrays = Append(@, r.vs), !.v = ArrayValue(Len(t.arrays) + 1)])
    [] op = "dict" ->
         Then(r.s, LAMBDA t : [t EXCEPT !.arrays = Append(@, DictOf(Kids(n), r.vs)),
                                        !.v = DictValue(Len(t.arrays) + 1)])
    [] op = "entry" -> r.s
    [] op = "field" -> Then(r.s, LAMBDA t : Gives(t, FieldOf(t, r.vs[1], what)))
    [] op \in {"fn", "closure"} ->
         LET name == IF op = "fn" THEN what[1] ELSE ""
             f == FunctionValue(name, IF op = "fn" THEN what[2] ELSE what, Kids(n), s.vars) IN
         IF name = "" THEN Gives(s, f) ELSE Gives(Store(s, name, f), f)
    [] op = "assign" ->
         LET target == Kid(n, 1) IN
         Then(Eval(s, Kid(n, 2)), LAMBDA t :
           IF Op(target) = "id" THEN Store(t, What(target), t.v)
           ELSE LET q == ValuesOf(t, Kids(target)) IN
                Then(q.s, LAMBDA u :
                  ElementSet(u, q.vs[1], IF Op(target) = "field" THEN StrValue(What(target)) ELSE q.vs[2], t.v)))
    [] op = "update" -> Eval(s, Assign(Kid(n, 1), Bin(what, Kid(n, 1), Kid(n, 2))))
    [] op = "block" -> InOrder([s EXCEPT !.v = NilValue], Kids(n))
    [] op = "if" ->
         Then(Eval(s, Kid(n, 1)), LAMBDA t :
           IF Truthy(t.v) THEN Eval(t, Kid(n, 2))
           ELSE IF Len(Kids(n)) = 3 THEN Eval(t, Kid(n, 3)) ELSE [t EXCEPT !.v = NilValue])
    [] op = "while" -> Repeat(s, Kid(n, 1), BodyOf(n, 2))
    [] op = "loop" -> Repeat(s, Bool(TRUE), BodyOf(n, 1))
    [] op = "for" ->
         Then(Eval(s, Kid(n, 1)), LAMBDA t :
           IF SizeOf(t, t.v) < 0 THEN Fails(t)
           ELSE OutOf(Each(t, what, t.v, 0, BodyOf(n, 2)), s.vars))
    [] op = "match" ->
         Then(Eval(s, Kid(n, 1)), LAMBDA t : Arms(t, Tail(Kids(n)), t.v, 1))
    [] op = "return" ->
         Then(InOrder([s EXCEPT !.v = NilValue], Kids(n)), LAMBDA t : [t EXCEPT !.flow = "return"])
    [] op \in {"break", "continue"} -> [s EXCEPT !.flow = op]

(* What can be seen of a program from outside.  A name of the host is taken. *)
MeaningOf(program, names, modules, depth) ==
  LET s == InOrder(Calm(Imported(program, names, modules), Waiting(program, modules)), Kids(program)) IN
  IF \/ ~Importable(program, modules, {x \in DOMAIN names : names[x] = HostFunction}, depth)
     \/ s.flow \in {"break", "continue", "return"} THEN [end |-> "stray"]
  ELSE [end |-> IF Is(s) THEN "halted" ELSE "error", trace |-> s.trace,
        globals |-> [x \in {y \in DOMAIN s.globals : Scalar(s.globals[y])} |-> s.globals[x]]]
===============================================================================

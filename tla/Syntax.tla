-------------------------------- MODULE Syntax --------------------------------
(***************************************************************************)
(* The tree of a program (nuzo-frontend, ast.rs) and how it is written.    *)
(* A node is <<op, what, kids>>; a statement of a block is a node too:     *)
(*   num str id bool nil      what: the literal or the name                *)
(*   bin un                   what: the operator, && || ?? .. included     *)
(*   call index field dict    kids: the callee and the arguments, ...      *)
(*   if while for loop match  kids: condition or subject, blocks, arms     *)
(*   return break continue    kids: the value, if there is one             *)
(*   fn closure               what: name and parameters; kids: statements  *)
(*   assign                   kids: target and value                       *)
(*   import                   what: the path, whether lazy, the alias      *)
(* A program as its author thinks of it has two more, which the parser     *)
(* replaces: pipe (l |> r) and update (a op= b).  Desugar says by what.    *)
(***************************************************************************)
EXTENDS Integers, Sequences, SequencesExt

Node(op, what, kids) == <<op, what, kids>>
Op(n) == n[1]
What(n) == n[2]
Kids(n) == n[3]
Kid(n, k) == n[3][k]

Num(k) == Node("num", k, <<>>)
Str(s) == Node("str", s, <<>>)
Id(x) == Node("id", x, <<>>)
Bool(b) == Node("bool", b, <<>>)
Nil == Node("nil", "", <<>>)
Bin(op, l, r) == Node("bin", op, <<l, r>>)
Un(op, e) == Node("un", op, <<e>>)
Call(callee, args) == Node("call", "", <<callee>> \o args)
Index(object, i) == Node("index", "", <<object, i>>)
Field(object, name) == Node("field", name, <<object>>)
Dictionary(entries) == Node("dict", "", entries)
Entry(key, value) == Node("entry", key, <<value>>)
Array(elements) == Node("array", "", elements)
Assign(target, value) == Node("assign", "", <<target, value>>)
Block(stmts) == Node("block", "", stmts)
Fn(name, params, body) == Node("fn", <<name, params>>, body)
If(c, yes, no) == Node("if", "", <<c, Block(yes), Block(no)>>)
When(c, yes) == Node("if", "", <<c, Block(yes)>>)
While(c, body) == Node("while", "", <<c, Block(body)>>)
For(x, over, body) == Node("for", x, <<over, Block(body)>>)
Loop(body) == Node("loop", "", <<Block(body)>>)
Match(e, arms) == Node("match", "", <<e>> \o arms)
Arm(pattern, body) == Node("arm", "", <<pattern, body>>)
Wild == Node("any", "", <<>>)
Bind(x) == Node("bind", x, <<>>)
Return(e) == Node("return", "", <<e>>)
Break == Node("break", "", <<>>)
Continue == Node("continue", "", <<>>)
ImportOf(path) == Node("import", <<path, FALSE, "">>, <<>>)
LazyImport(path) == Node("import", <<path, TRUE, "">>, <<>>)
Pipe(l, r) == Node("pipe", "", <<l, r>>)
Update(op, target, value) == Node("update", op, <<target, value>>)

(* The levels of the grammar (docs/language-spec.md), loosest first.  The  *)
(* levels between, comparison and power, do not join from the left.        *)
Levels == <<{"||"}, {"??"}, {"&&"}, {"==", "!=", "<", ">", "<=", ">="}, {"..", "..<"},
            {"+", "-"}, {"*", "/", "%"}, {"**"}>>
ComparisonLevel == 4
PowerLevel == 8
UnaryLevel == 9
PostfixLevel == 10
LevelOfOp(op) == CHOOSE level \in DOMAIN Levels : op \in Levels[level]
-------------------------------------------------------------------------------
(* Writing a tree: tokens <<kind, text>>, with parentheses where the       *)
(* levels ask for them and nowhere else.                                   *)
Sign(s) == <<<<s, "">>>>
Name(x) == <<<<"ident", x>>>>
InParens(tokens) == Sign("(") \o tokens \o Sign(")")
LevelOf(n) ==
  CASE Op(n) = "bin" -> LevelOfOp(What(n))
    [] Op(n) = "un" -> UnaryLevel
    [] Op(n) \in {"pipe", "closure"} -> 0
    [] OTHER -> PostfixLevel
BySign(parts, sign) ==
  FoldLeft(LAMBDA all, one : IF all = <<>> THEN one ELSE all \o Sign(sign) \o one, <<>>, parts)

(* Starts an expression statement may not begin with: they begin another   *)
(* kind of statement.                                                      *)
Openers == {"if", "while", "for", "loop", "match", "try", "return", "break", "continue", "fn", "{"}
(* A statement beginning so goes on with the expression before it.         *)
Continuers == {"(", "[", "-", ".", "..", "..<"}
Closed(n) == Op(n) \in {"if", "while", "for", "loop", "match", "block", "fn"}

RECURSIVE Text(_), TextStatements(_)
TextAt(n, level) == IF LevelOf(n) < level THEN InParens(Text(n)) ELSE Text(n)
TextAll(ns) == BySign([k \in DOMAIN ns |-> Text(ns[k])], ",")
TextBlock(stmts) == Sign("{") \o TextStatements(stmts) \o Sign("}")
TextNames(names) == InParens(BySign([k \in DOMAIN names |-> Name(names[k])], ","))
TextStatement(n) ==
  LET tokens == Text(n) IN
  IF tokens[1][1] \in Openers /\ Op(n) \in {"bin", "call", "index", "field", "pipe"}
  THEN InParens(tokens) ELSE tokens
TextStatements(ns) ==
  FoldLeft(LAMBDA all, k :
             LET tokens == TextStatement(ns[k])
                 apart == \/ k > 1 /\ ~Closed(ns[k - 1]) /\ tokens[1][1] \in Continuers
                          \/ k > 1 /\ Op(ns[k - 1]) \in {"return", "break"} /\ Kids(ns[k - 1]) = <<>>
             IN all \o (IF apart THEN Sign(";") ELSE <<>>) \o tokens,
           <<>>, [k \in DOMAIN ns |-> k])
Text(n) ==
  LET op == Op(n)
      level == LevelOf(n) IN
  CASE op = "num" -> <<<<"number", What(n)>>>>
    [] op = "str" -> <<<<"string", What(n)>>>>
    [] op \in {"id", "bind"} -> Name(What(n))
    [] op = "any" -> Name("_")
    [] op = "bool" -> Sign(IF What(n) THEN "true" ELSE "false")
    [] op = "nil" -> Sign("nil")
    [] op = "bin" ->
         TextAt(Kid(n, 1), IF level \in {ComparisonLevel, PowerLevel} THEN level + 1 ELSE level)
           \o Sign(What(n))
           \o TextAt(Kid(n, 2), IF level = PowerLevel THEN level ELSE level + 1)
    [] op = "un" -> Sign(What(n)) \o TextAt(Kid(n, 1), UnaryLevel)
    [] op = "call" -> TextAt(Kid(n, 1), PostfixLevel) \o InParens(TextAll(Tail(Kids(n))))
    [] op = "index" ->
         TextAt(Kid(n, 1), PostfixLevel) \o Sign("[") \o Text(Kid(n, 2)) \o Sign("]")
    [] op = "field" -> TextAt(Kid(n, 1), PostfixLevel) \o Sign(".") \o Name(What(n))
    [] op = "dict" -> Sign("{") \o TextAll(Kids(n)) \o Sign("}")
    [] op = "entry" -> Name(What(n)) \o Sign(":") \o Text(Kid(n, 1))
    [] op = "array" -> Sign("[") \o TextAll(Kids(n)) \o Sign("]")
    [] op = "pipe" -> TextAt(Kid(n, 1), 0) \o Sign("|>") \o TextAt(Kid(n, 2), 1)
    [] op = "closure" -> TextNames(What(n)) \o Sign("=>") \o TextBlock(Kids(n))
    [] op = "fn" ->
         Sign("fn") \o (IF What(n)[1] = "" THEN <<>> ELSE Name(What(n)[1]))
           \o TextNames(What(n)[2]) \o TextBlock(Kids(n))
    [] op = "assign" -> Text(Kid(n, 1)) \o Sign("=") \o Text(Kid(n, 2))
    [] op = "update" -> Text(Kid(n, 1)) \o Sign(What(n) \o "=") \o Text(Kid(n, 2))
    [] op = "block" -> TextBlock(Kids(n))
    [] op = "if" ->
         Sign("if") \o Text(Kid(n, 1)) \o Text(Kid(n, 2))
           \o (IF Len(Kids(n)) = 3 THEN Sign("else") \o Text(Kid(n, 3)) ELSE <<>>)
    [] op = "while" -> Sign("while") \o Text(Kid(n, 1)) \o Text(Kid(n, 2))
    [] op = "loop" -> Sign("loop") \o Text(Kid(n, 1))
    [] op = "for" -> Sign("for") \o Name(What(n)) \o Sign("in") \o Text(Kid(n, 1)) \o Text(Kid(n, 2))
    [] op = "match" ->
         Sign("match") \o InParens(Text(Kid(n, 1)))
           \o Sign("{") \o TextAll(Tail(Kids(n))) \o Sign("}")
    [] op = "arm" -> Text(Kid(n, 1)) \o Sign("=>") \o Text(Kid(n, 2))
    [] op = "import" ->
         (IF What(n)[2] THEN Sign("lazy") ELSE <<>>) \o Sign("import") \o <<<<"string", What(n)[1]>>>>
    [] op \in {"return", "break", "continue"} ->
         Sign(op) \o (IF Kids(n) = <<>> THEN <<>> ELSE Text(Kid(n, 1)))

(* What the parser makes of the two: a pipe passes its left side as the    *)
(* first argument, an update assigns to its target.                        *)
RECURSIVE Desugar(_)
Desugar(n) ==
  LET kids == [k \in DOMAIN Kids(n) |-> Desugar(Kid(n, k))] IN
  CASE Op(n) = "update" -> Assign(kids[1], Bin(What(n), kids[1], kids[2]))
    [] Op(n) = "pipe" ->
         IF Op(kids[2]) = "call" THEN Call(Kid(kids[2], 1), <<kids[1]>> \o Tail(Kids(kids[2])))
         ELSE Call(kids[2], <<kids[1]>>)
    [] OTHER -> Node(Op(n), What(n), kids)
===============================================================================

-------------------------------- MODULE Parser --------------------------------
(***************************************************************************)
(* The recursive descent parser (nuzo-frontend, parser.rs) over tokens     *)
(* <<kind, text>>: a keyword or a sign is its own kind, "number", "string" *)
(* and "ident" carry their text.  Nothing but the grammar separates        *)
(* statements: line ends are no tokens and semicolons are optional.        *)
(*                                                                         *)
(* Every parsing operator takes the tokens t and a position i and answers  *)
(* the position it stopped at and what it read.  Position 0 is a           *)
(* ParseError: no token is there, so an error answers itself all the way   *)
(* up.  The limit on nesting (MAX_PARSER_DEPTH) and source positions are   *)
(* left out.                                                               *)
(***************************************************************************)
EXTENDS Syntax, TLC

Found(i, n) == [at |-> i, ast |-> n]
ParseError == Found(0, Nil)

TokenAt(t, i) ==
  IF i = 0 THEN <<"error", "">> ELSE IF i > Len(t) THEN <<"eof", "">> ELSE t[i]
KindAt(t, i) == TokenAt(t, i)[1]
Is(t, i, kind) == KindAt(t, i) = kind
(* consume *)
After(t, i, kind) == IF Is(t, i, kind) THEN i + 1 ELSE 0

Comparisons == {"==", "!=", "<", ">", "<=", ">="}
(* The operators each level of the descent loops over, loosest first; the  *)
(* levels between, comparison, power and unary, are operators of their own.*)
OrLevel == 1
(* Mutant: ?? is looser than ||. *)
MutOpsOf(level) ==
  CASE level = 1 -> {"??"} [] level = 2 -> {"||"} [] level = 3 -> {"&&"}
    [] level = 5 -> {"..", "..<"} [] level = 6 -> {"+", "-"} [] level = 7 -> {"*", "/", "%"}
OpsOf(level) ==
  CASE level = 1 -> {"||"} [] level = 2 -> {"??"} [] level = 3 -> {"&&"}
    [] level = 5 -> {"..", "..<"} [] level = 6 -> {"+", "-"} [] level = 7 -> {"*", "/", "%"}

(* desugar_pipe: the left side becomes the first argument. *)
Piped(l, r) ==
  Node("call", "", IF Op(r) = "call" THEN <<Kid(r, 1), l>> \o Tail(Kids(r)) ELSE <<r, l>>)

IsTarget(n) == Op(n) \in {"id", "index", "field"}

RECURSIVE Names(_, _, _), Expression(_, _), PipeExpr(_, _), Arrow(_, _), Level(_, _, _),
  LeftAssociative(_, _, _), Links(_, _, _, _), Power(_, _), Unary(_, _), Postfix(_, _),
  Primary(_, _), Listed(_, _, _), Pairs(_, _, _), Arms(_, _, _), IfExpr(_, _),
  Statements(_, _, _), Pipeline(_, _)

(* parse_params, and the list try_arrow_params looks for: names up to a ")" *)
Names(t, i, kinds) ==
  IF KindAt(t, i) \notin kinds THEN [at |-> 0, names |-> <<>>]
  ELSE LET rest == Names(t, i + 2, kinds) IN
       IF Is(t, i + 1, ",")
       THEN [at |-> rest.at, names |-> <<TokenAt(t, i)[2]>> \o rest.names]
       ELSE [at |-> i + 1, names |-> <<TokenAt(t, i)[2]>>]
Params(t, i, kinds) ==
  IF Is(t, i, ")") THEN [at |-> i, names |-> <<>>] ELSE Names(t, i, kinds)

(* A comma-separated list of expressions. *)
Listed(t, i, before) ==
  LET e == Expression(t, i)
      now == Append(before, e.ast) IN
  IF Is(t, e.at, ",") THEN Listed(t, e.at + 1, now) ELSE [at |-> e.at, asts |-> now]
ListedUpTo(t, i, close) ==
  IF Is(t, i, close) THEN [at |-> i + 1, asts |-> <<>>]
  ELSE LET l == Listed(t, i, <<>>) IN [l EXCEPT !.at = After(t, l.at, close)]

(* block: declarations, each followed by any number of semicolons. *)
RECURSIVE SkipSemicolons(_, _)
SkipSemicolons(t, i) == IF Is(t, i, ";") THEN SkipSemicolons(t, i + 1) ELSE i

(* fn_declaration and the fn of an expression, from the name on. *)
Function(t, i, name) ==
  LET p == Params(t, After(t, i, "("), {"ident", "fn"})
      b == Statements(t, After(t, After(t, p.at, ")"), "{"), <<>>) IN
  Found(b.at, Fn(name, p.names, b.asts))

BlockAt(t, i) ==
  LET b == Statements(t, After(t, i, "{"), <<>>) IN Found(b.at, Block(b.asts))

IsDictLiteral(t, i) ==
  /\ Is(t, i, "{")
  /\ \/ Is(t, i + 1, "}")
     \/ KindAt(t, i + 1) \in {"ident", "string"} /\ Is(t, i + 2, ":")

MissingColon(t, i) ==
  /\ KindAt(t, i + 1) \in {"ident", "string"}
  /\ KindAt(t, i + 2) \in {"number", "string", "ident"}
  /\ KindAt(t, i + 3) \in {"}", ","}

(* return_stmt and break_stmt: no value before "}", ";" and the end. *)
Jump(t, i, op) ==
  IF KindAt(t, i) \in {"}", ";", "eof"} THEN Found(i, Node(op, "", <<>>))
  ELSE LET e == Expression(t, i) IN Found(e.at, Node(op, "", <<e.ast>>))

(* for_expr_stmt *)
ForIn(t, i) ==
  LET over == Expression(t, After(t, After(t, i, "ident"), "in"))
      body == BlockAt(t, over.at) IN
  Found(body.at, Node("for", TokenAt(t, i)[2], <<over.ast, body.ast>>))

WhileAt(t, i) ==
  LET c == Expression(t, i)
      b == BlockAt(t, c.at) IN
  Found(b.at, Node("while", "", <<c.ast, b.ast>>))

LoopAt(t, i) == LET b == BlockAt(t, i) IN Found(b.at, Node("loop", "", <<b.ast>>))

(* expr_statement: an expression, an assignment to it, or a compound one,  *)
(* which evaluates the target twice.                                       *)
Compound == "+=" :> "+" @@ "-=" :> "-" @@ "*=" :> "*" @@ "/=" :> "/"
ExprStatement(t, i) ==
  LET e == Expression(t, i)
      k == KindAt(t, e.at)
      v == Expression(t, e.at + 1) IN
  IF k \notin {"="} \cup DOMAIN Compound THEN e
  ELSE IF ~IsTarget(e.ast) THEN ParseError
  ELSE Found(v.at, Assign(e.ast, IF k = "=" THEN v.ast ELSE Bin(Compound[k], e.ast, v.ast)))

(* parse_import *)
Import(t, i, lazy) ==
  LET named == Is(t, i + 1, "as")
      end == IF named THEN After(t, i + 2, "ident") ELSE i + 1
      alias == IF named THEN TokenAt(t, i + 2)[2] ELSE "" IN
  IF KindAt(t, i) \notin {"string", "ident"} THEN ParseError
  ELSE Found(end, Node("import", <<TokenAt(t, i)[2], lazy, alias>>, <<>>))

Declaration(t, i) ==
  LET k == KindAt(t, i) IN
  CASE k = "import" -> Import(t, i + 1, FALSE)
    [] k = "lazy" -> Import(t, After(t, i + 1, "import"), TRUE)
    [] k = "fn" /\ ~Is(t, i + 1, "(") ->
         IF Is(t, i + 1, "ident") THEN Function(t, i + 2, TokenAt(t, i + 1)[2])
         ELSE Function(t, i + 1, "")
    [] k = "while" -> WhileAt(t, i + 1)
    [] k = "for" -> ForIn(t, i + 1)
    [] k \in {"return", "break"} -> Jump(t, i + 1, k)
    [] k = "continue" -> Found(i + 1, Node("continue", "", <<>>))
    [] k = "{" /\ ~IsDictLiteral(t, i) ->
         IF MissingColon(t, i) THEN ParseError ELSE BlockAt(t, i)
    [] k \in {"if", "loop", "try", "match"} -> Primary(t, i)
    [] OTHER -> ExprStatement(t, i)

Statements(t, i, before) ==
  LET s == Declaration(t, i) IN
  IF KindAt(t, i) \in {"}", "eof", "error"} THEN [at |-> After(t, i, "}"), asts |-> before]
  ELSE IF s.at = 0 THEN [at |-> 0, asts |-> before]
  ELSE Statements(t, SkipSemicolons(t, s.at), Append(before, s.ast))

(* parse: declarations to the end of the file. *)
RECURSIVE ProgramFrom(_, _, _)
ProgramFrom(t, i, before) ==
  LET s == Declaration(t, i) IN
  IF Is(t, i, "eof") THEN Found(i, Block(before))
  ELSE IF s.at = 0 THEN ParseError
  ELSE ProgramFrom(t, SkipSemicolons(t, s.at), Append(before, s.ast))
-------------------------------------------------------------------------------
(* pipe_expr *)
Pipeline(t, left) ==
  IF ~Is(t, left.at, "|>") THEN left
  ELSE LET r == Arrow(t, left.at + 1) IN Pipeline(t, Found(r.at, Piped(left.ast, r.ast)))
PipeExpr(t, i) ==
  LET left == Arrow(t, i) IN IF left.at = 0 THEN left ELSE Pipeline(t, left)
Expression(t, i) == PipeExpr(t, i)

(* arrow_body: an expression is returned. *)
ArrowBody(t, i, params) ==
  LET b == Statements(t, i + 1, <<>>)
      e == Expression(t, i) IN
  IF Is(t, i, "{") THEN Found(b.at, Node("closure", params, b.asts))
  ELSE Found(e.at, Node("closure", params, <<Node("return", "", <<e.ast>>)>>))

(* arrow_expr: what is no parameter list is read again as an expression. *)
Arrow(t, i) ==
  LET p == Params(t, i + 1, {"ident"}) IN
  IF Is(t, i, "ident") /\ Is(t, i + 1, "=>") THEN ArrowBody(t, i + 2, <<TokenAt(t, i)[2]>>)
  ELSE IF Is(t, i, "(") /\ Is(t, p.at, ")") /\ Is(t, p.at + 1, "=>")
  THEN ArrowBody(t, p.at + 2, p.names)
  ELSE Level(t, i, OrLevel)

(* or_expr, null_coalesce_expr, and_expr, range, addition, multiplication: *)
(* operands of the next level, joined from the left.                       *)
OperatorAt(t, i) == IF TokenAt(t, i) = <<"ident", "mod">> THEN "%" ELSE KindAt(t, i)
LeftAssociative(t, left, level) ==
  LET op == OperatorAt(t, left.at)
      r == Level(t, left.at + 1, level + 1) IN
  IF op \notin OpsOf(level) THEN left
  ELSE LeftAssociative(t, Found(r.at, Bin(op, left.ast, r.ast)), level)

(* comparison: one comparison is itself; of a chain the middle operands    *)
(* are assigned first, each to a name of its own (gen_tmp_name), and the   *)
(* comparisons joined by and.                                              *)
Links(t, i, ops, operands) ==
  LET r == Level(t, i + 1, ComparisonLevel + 1) IN
  IF KindAt(t, i) \notin Comparisons THEN [at |-> i, ops |-> ops, operands |-> operands]
  ELSE Links(t, r.at, Append(ops, KindAt(t, i)), Append(operands, r.ast))
Comparison(t, i) ==
  LET first == Level(t, i, ComparisonLevel + 1)
      l == Links(t, first.at, <<>>, <<first.ast>>)
      n == Len(l.ops)
      tmp(k) == Id("__nuzo_cmp_" \o ToString(i + k))
      side(k) == IF k \in {1, n + 1} THEN l.operands[k] ELSE tmp(k)
      joined[k \in 1..n] ==
        LET one == Bin(l.ops[k], side(k), side(k + 1)) IN
        IF k = 1 THEN one ELSE Bin("&&", joined[k - 1], one)
      saved == [k \in 1..(n - 1) |-> Assign(tmp(k + 1), l.operands[k + 1])] IN
  IF first.at = 0 \/ n = 0 THEN first
  ELSE Found(l.at, IF n = 1 THEN joined[1] ELSE Block(Append(saved, joined[n])))

Level(t, i, level) ==
  CASE level = ComparisonLevel -> Comparison(t, i)
    [] level = PowerLevel -> Power(t, i)
    [] OTHER -> LET left == Level(t, i, level + 1) IN
                IF left.at = 0 THEN left ELSE LeftAssociative(t, left, level)

(* power: its right operand is a power again. *)
Power(t, i) ==
  LET l == Unary(t, i)
      r == Power(t, l.at + 1) IN
  IF l.at # 0 /\ Is(t, l.at, "**") THEN Found(r.at, Bin("**", l.ast, r.ast)) ELSE l

Unary(t, i) ==
  LET e == Unary(t, i + 1)
      first == Primary(t, i) IN
  IF KindAt(t, i) \in {"-", "!"} THEN Found(e.at, Node("un", KindAt(t, i), <<e.ast>>))
  ELSE IF first.at = 0 THEN first ELSE Postfix(t, first)

(* call: a call, an index or a field of what stands before it, however far *)
(* the line breaks.                                                        *)
Postfix(t, e) ==
  LET args == ListedUpTo(t, e.at + 1, ")")
      index == Expression(t, e.at + 1) IN
  CASE Is(t, e.at, "(") -> Postfix(t, Found(args.at, Node("call", "", <<e.ast>> \o args.asts)))
    [] Is(t, e.at, "[") ->
         Postfix(t, Found(After(t, index.at, "]"), Node("index", "", <<e.ast, index.ast>>)))
    [] Is(t, e.at, ".") ->
         Postfix(t, Found(After(t, e.at + 1, "ident"),
                          Node("field", TokenAt(t, e.at + 1)[2], <<e.ast>>)))
    [] OTHER -> e

(* if_expr: what follows else is a block or an if. *)
IfExpr(t, i) ==
  LET c == Expression(t, i)
      yes == BlockAt(t, c.at)
      no == IF Is(t, yes.at + 1, "if") THEN IfExpr(t, yes.at + 2) ELSE BlockAt(t, yes.at + 1) IN
  IF Is(t, yes.at, "else") THEN Found(no.at, Node("if", "", <<c.ast, yes.ast, no.ast>>))
  ELSE Found(yes.at, Node("if", "", <<c.ast, yes.ast>>))

(* parse_match_pattern: a bare name binds, unless a range starts with it. *)
PatternEnd(t, i) ==
  IF Is(t, i, "-") /\ Is(t, i + 1, "number") THEN Found(i + 2, Num(0 - TokenAt(t, i + 1)[2]))
  ELSE Postfix(t, Primary(t, i))
Pattern(t, i) ==
  LET low == PatternEnd(t, i)
      high == PatternEnd(t, low.at + 1) IN
  CASE TokenAt(t, i) = <<"ident", "_">> -> Found(i + 1, Node("any", "", <<>>))
    [] TokenAt(t, i) # <<"ident", "_">> /\ Is(t, i, "ident") /\ ~(KindAt(t, i + 1) \in OpsOf(5)) ->
         Found(i + 1, Node("bind", TokenAt(t, i)[2], <<>>))
    [] OTHER ->
         IF KindAt(t, low.at) \in OpsOf(5)
         THEN Found(high.at, Bin(KindAt(t, low.at), low.ast, high.ast))
         ELSE IF Op(low.ast) \in {"num", "str", "bool", "nil"} THEN low ELSE ParseError

(* match_expr, from its first arm: a comma between arms, or after the last.*)
Arms(t, i, before) ==
  LET p == Pattern(t, i)
      e == Expression(t, After(t, p.at, "=>"))
      now == Append(before, Node("arm", "", <<p.ast, e.ast>>)) IN
  IF Is(t, i, "}") THEN [at |-> i, asts |-> before]
  ELSE IF Is(t, e.at, ",") THEN Arms(t, e.at + 1, now) ELSE [at |-> e.at, asts |-> now]
MatchExpr(t, i) ==
  LET e == Expression(t, After(t, i, "("))
      arms == Arms(t, After(t, After(t, e.at, ")"), "{"), <<>>) IN
  Found(After(t, arms.at, "}"), Node("match", "", <<e.ast>> \o arms.asts))

(* parse_try_expression *)
Try(t, i) ==
  LET body == BlockAt(t, i)
      caught == Is(t, body.at, "catch")
      name == After(t, body.at + 1, "(")
      handler == BlockAt(t, After(t, After(t, name, "ident"), ")"))
      end == IF caught THEN handler.at ELSE body.at
      kept == BlockAt(t, end + 1) IN
  Found(IF Is(t, end, "keep") THEN kept.at ELSE end,
        Node("try", IF caught THEN TokenAt(t, name)[2] ELSE "",
             <<body.ast>> \o (IF caught THEN <<handler.ast>> ELSE <<>>)
                          \o (IF Is(t, end, "keep") THEN <<kept.ast>> ELSE <<>>)))

(* The entries of a dict in braces. *)
Pairs(t, i, before) ==
  LET v == Expression(t, After(t, i + 1, ":"))
      now == Append(before, Node("entry", TokenAt(t, i)[2], <<v.ast>>)) IN
  IF KindAt(t, i) \notin {"ident", "string"} THEN [at |-> 0, asts |-> <<>>]
  ELSE IF Is(t, v.at, ",") THEN Pairs(t, v.at + 1, now) ELSE [at |-> v.at, asts |-> now]
Dict(t, i) ==
  LET pairs == IF Is(t, i, "}") THEN [at |-> i, asts |-> <<>>] ELSE Pairs(t, i, <<>>) IN
  Found(After(t, pairs.at, "}"), Node("dict", "", pairs.asts))

(* Parentheses around more than one expression make a tuple. *)
Parenthesised(t, i) ==
  LET l == Listed(t, i, <<>>) IN
  Found(After(t, l.at, ")"), IF Len(l.asts) = 1 THEN l.asts[1] ELSE Node("tuple", "", l.asts))

Primary(t, i) ==
  LET k == KindAt(t, i)
      text == TokenAt(t, i)[2] IN
  CASE k = "if" -> IfExpr(t, i + 1)
    [] k = "loop" -> LoopAt(t, i + 1)
    [] k = "try" -> Try(t, i + 1)
    [] k = "out" -> LET e == Expression(t, i + 1) IN Found(e.at, Node("out", "", <<e.ast>>))
    [] k = "match" -> MatchExpr(t, i + 1)
    [] k \in {"true", "false"} -> Found(i + 1, Bool(k = "true"))
    [] k = "nil" -> Found(i + 1, Nil)
    [] k = "number" -> Found(i + 1, Num(text))
    [] k = "string" -> Found(i + 1, Str(text))
    [] k = "ident" -> Found(i + 1, Id(text))
    [] k = "(" -> Parenthesised(t, i + 1)
    [] k = "[" -> LET l == ListedUpTo(t, i + 1, "]") IN Found(l.at, Node("array", "", l.asts))
    [] k = "{" -> Dict(t, i + 1)
    [] k = "fn" ->
         IF Is(t, i + 1, "(") THEN Function(t, i + 1, "")
         ELSE LET b == Statements(t, After(t, i + 1, "{"), <<>>) IN
              Found(b.at, Fn("", <<>>, b.asts))
    [] OTHER -> ParseError

Parse(t) == ProgramFrom(t, 1, <<>>)
===============================================================================

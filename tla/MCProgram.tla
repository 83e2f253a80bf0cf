------------------------------ MODULE MCProgram -------------------------------
EXTENDS Program

S == INSTANCE Syntax

MCInitialGlobals ==
  {[z \in {"a", "b", "f"} |-> CASE z = "a" -> NumValue(n) [] z = "b" -> v [] z = "f" -> Host] :
     n \in {0, 3}, v \in {NumValue(1), NilValue}}
MC == INSTANCE Compiler WITH Builtin <- "f", InitialGlobals <- MCInitialGlobals, MaxDepth <- 2

a == S!Id("a")
b == S!Id("b")
n1 == S!Num(1)
n2 == S!Num(2)
n3 == S!Num(3)
f(e) == S!Call(S!Id("f"), <<e>>)
Set(x, e) == S!Assign(S!Id(x), e)
Add(x, e) == S!Update("+", S!Id(x), e)
Plus(l, r) == S!Bin("+", l, r)

(* Expressions two operators deep.  A right operand with blocks of its own *)
(* below an operator with blocks is left out: the generator loses it.      *)
Short == {"||", "&&", "??"}
Ops == Short \cup {"==", "<", ">=", "..", "+", "-", "*", "%", "**"}
Deep ==
  {S!Bin(o, S!Bin(p, a, n2), b) : o \in Ops, p \in Ops \ {".."}}
    \cup {S!Bin(o, S!Bin("..", a, n2), b) : o \in Ops \ {"==", "??"}}
    \cup {S!Bin(o, a, S!Bin(p, b, n2)) : o \in Ops, p \in Ops \ (Short \cup {"-", ".."})}
    \cup {S!Bin(o, a, S!Bin("-", b, n2)) : o \in Ops \ {"**"}}
Asked == {<<f(e)>> : e \in Deep}


(* Rounds of a loop over a, which counts up to 3: what it does before and  *)
(* after it counts, loops and branches inside it included.                 *)
Less == S!Bin("<", a, n3)
Count == Set("a", Plus(a, n1))
At2(s) == S!When(S!Bin("==", a, n2), <<s>>)
Choice(yes, no) == S!If(S!Bin("==", a, n1), yes, no)
Range1(body) == S!For("i", S!Bin("..<", S!Num(0), a), body)
i == S!Id("i")
Simple ==
  {<<f(a)>>, <<At2(S!Break)>>, <<At2(S!Continue), f(a)>>,
   <<Choice(<<f(n1)>>, <<f(n2)>>)>>,
   <<Choice(<<Set("b", a)>>, <<f(b)>>), f(b)>>,
   <<f(S!If(Less, <<a>>, <<b>>))>>,
   <<Set("b", S!Bin("&&", b, Less))>>,
   <<S!Match(a, <<S!Arm(n1, f(n1)), S!Arm(S!Bin("..", n2, n3), f(n2)), S!Arm(S!Wild, f(n3))>>)>>,
   <<f(S!Match(a, <<S!Arm(S!Bin("..<", S!Num(0), n2), n1), S!Arm(S!Bind("x"), Plus(S!Id("x"), a))>>))>>}
Inner ==
  {<<Range1(<<f(i)>>), f(a)>>,
   <<Range1(<<S!When(S!Bin("==", i, n1), <<S!Break>>), f(i)>>)>>,
   <<Range1(<<S!When(S!Bin("==", i, n1), <<S!Continue>>), f(i)>>)>>,
   <<Set("b", n1), S!While(S!Bin("<", b, a), <<Add("b", n1)>>), f(b)>>,
   <<S!For("i", S!Array(<<a, b>>), <<f(i)>>)>>}
Loops ==
  {<<S!While(Less, s \o <<Count>> \o t), f(b)>> : s \in Inner \cup {<<>>}, t \in Simple}
    \cup {<<S!While(Less, <<Count>> \o s)>> : s \in Inner}
    \cup {<<S!Loop(<<Count, S!When(S!Un("!", Less), <<S!Break>>)>> \o s), f(a)>> : s \in Simple}
    \cup {<<S!While(Less, <<Count, S!When(S!Bin("==", a, n3), <<S!Continue>>), f(a)>>), f(a)>>,
          <<S!While(Less, <<Set("a", n3), S!Continue>>), f(a)>>}
    \cup {<<Range1(s), f(b)>> : s \in {<<At2(S!Break), f(i)>>, <<Choice(<<f(i)>>, <<f(n2)>>)>>}}


(* Loops that become hot.  Those that count down have no pair, as only a   *)
(* number added or multiplied is one; the others end in their first pair,  *)
(* and go astray where its right operand is register 0.                    *)
g(e) == S!Call(S!Id("g"), <<e>>)
x == S!Id("x")
Rounds(n, body) == <<Set("a", S!Num(n)), S!Loop(body), f(a)>>
CountDown == Set("a", S!Bin("-", a, n1))
AtZero == S!When(S!Bin("==", a, S!Num(0)), <<S!Break>>)
Hot ==
  {Rounds(6, <<CountDown>> \o body \o <<AtZero>>) :
     body \in {<<>>, <<f(a)>>, <<Plus(a, n1)>>, <<S!Bin("*", a, n2), f(S!Bin("-", a, n3))>>,
              <<Set("b", S!Bin("%", a, n2)), S!When(b, <<S!Continue>>)>>,
              <<S!For("i", S!Bin("..<", S!Num(0), n2), <<f(i)>>)>>}}
    \cup {<<Set("a", S!Num(6)),
            S!While(S!Bin(">", S!Bin("-", a, n1), S!Bin("-", n3, n2)), <<CountDown, f(a)>>), f(a)>>}
    \cup {<<S!Fn("g", <<"x">>, Rounds(6, <<CountDown, product, AtZero, f(a)>>)), f(g(n3))>> :
            product \in {Plus(n1, x), S!Bin("*", x, n2), Plus(S!Str("w"), x)}}

(* Functions: what is behind an if, a recursion, a loop; a call that does  *)
(* not fit; functions made by functions, each expression evaluated once.   *)
y == S!Id("y")
Down == g(S!Bin("-", x, n1))
Positive == S!Bin(">", x, S!Num(0))
Bodies ==
  {<<Plus(x, n1)>>, <<S!Return(Plus(x, b))>>, <<S!When(Positive, <<S!Return(n1)>>), n2>>,
   <<S!If(Positive, <<Plus(n1, Down)>>, <<S!Num(0)>>)>>,
   <<S!If(Positive, <<S!Return(S!Bin("*", x, Down))>>, <<f(x)>>), n1>>,
   <<f(x), S!When(Positive, <<f(Down)>>), x>>,
   <<S!Match(x, <<S!Arm(n1, n2), S!Arm(S!Wild, x)>>)>>,
   <<Set("b", x), S!Bin("%", n3, x)>>, <<S!Bin("||", x, n1)>>,
   <<S!When(Positive, <<Set("x", n3)>>), x>>,
   <<S!If(Positive, <<Set("x", Plus(x, n1))>>, <<f(x), Set("x", n2)>>), f(x), S!Bin("*", x, n2)>>,
   <<Set("b", n1), S!While(S!Bin("<", b, x), <<Add("b", n1)>>), S!Bin("-", b, x)>>}
Uses == {<<f(g(a))>>, <<f(Plus(g(n1), g(n2)))>>, <<Set("a", g(g(a))), f(a)>>,
         <<f(S!Pipe(n2, S!Id("g")))>>, <<f(S!Call(S!Id("g"), <<a, n1>>))>>, <<S!Call(a, <<n1>>)>>}
Two == S!Fn("h", <<"x", "y">>, <<S!Bin("-", x, y)>>)
h(d, e) == S!Call(S!Id("h"), <<d, e>>)
Piped == {<<Two, f(S!Pipe(a, S!Call(S!Id("h"), <<n2>>)))>>, <<Two, f(h(h(n3, a), h(b, n1)))>>}
Looping == <<S!For("i", S!Bin("..<", S!Num(0), x), <<S!When(S!Bin("==", i, n1), <<S!Return(i)>>), f(i)>>), x>>
Functions ==
  {<<S!Fn("g", <<"x">>, body)>> \o use : body \in Bodies, use \in Uses}
    \cup {<<Set("i", n3), S!Fn("g", <<"x">>, Looping)>> \o use : use \in Uses} \cup Piped
Maker(inner) == S!Fn("m", <<"x">>, <<S!Fn("", <<"y">>, inner)>>)
Closures ==
  {<<Maker(inner), Set("k", S!Call(S!Id("m"), <<n2>>)), f(S!Call(S!Id("k"), <<a>>)),
     f(S!Call(S!Id("k"), <<n1>>))>> :
       inner \in {<<S!Bin("-", x, y)>>, <<S!If(S!Bin("<", x, y), <<x>>, <<y>>)>>,
                  <<S!Bin("&&", y, x)>>,
                  <<Plus(x, S!Call(S!Fn("", <<"z">>, <<Plus(x, Plus(y, S!Id("z")))>>), <<n3>>))>>}}
    \cup {<<S!Fn("m", <<"x", "y">>, <<S!Fn("", <<"z">>, <<S!Bin("-", x, S!Bin("*", y, S!Id("z")))>>)>>),
            Set("k", S!Call(S!Id("m"), <<n3, n2>>)), f(S!Call(S!Id("k"), <<a>>))>>,
          <<Set("k", S!Node("closure", <<"x">>, <<S!Bin("*", x, n2)>>)),
            f(S!Pipe(a, S!Id("k"))), f(S!Pipe(S!Pipe(n3, S!Id("k")), S!Id("k")))>>}

(* Arrays and text *)
xs == S!Id("xs")
Word == S!Str("w")
Data ==
  {<<Set("xs", S!Array(<<a, b, n3>>)), S!Assign(S!Index(xs, e), f(n1))>> \o use :
     e \in {n1, a, S!Bin("-", n2, n1)},
     use \in {<<f(S!Index(xs, n1)), S!For("i", xs, <<f(i)>>)>>,
              <<S!Update("+", S!Index(xs, S!Num(0)), n2), f(S!Index(xs, S!Num(0)))>>,
              <<f(S!Index(xs, S!Num(9)))>>, <<f(S!Index(S!Index(S!Array(<<xs>>), S!Num(0)), n1))>>}}
    \cup {<<S!Assign(S!Index(S!Array(<<n1, n2>>), S!Num(0)), a), f(a)>>,
          <<f(S!Index(S!Bin("..", n1, n3), a))>>,
          <<f(Plus(Plus(Word, a), b))>>, <<f(Plus(a, Word)), f(Plus(Plus(Word, a), Plus(Word, b)))>>,
          <<Set("s", S!Str("")), S!While(Less, <<Count, Set("s", Plus(S!Id("s"), Word))>>), f(S!Id("s"))>>,
          <<Set("s", S!Str("")), Range1(<<Set("s", Plus(Plus(S!Id("s"), Word), i))>>), f(S!Id("s"))>>,
          <<f(S!Bin("/", a, b))>>, <<f(S!Bin("/", n1, S!Num(0)))>>,
          <<f(S!Bin("-", S!Bin("*", n2, n3), S!Bin("%", n3, n2)))>>, <<f(S!Bin("<", n1, n2)), f(S!Bin("==", Word, Word))>>, <<f(S!Un("-", a)), S!Un("-", b), f(a)>>, <<f(S!Un("!", a))>>, <<f(S!Id("none"))>>}

(* Dictionaries.  Two entries are few enough for a list, keys collide in   *)
(* tables of four and eight slots, and some go round the end.  Left out:   *)
(* reading a field of a dict and writing one, which the code never does.   *)
MCKeyHash == [k \in {"j", "k", "l", "m", "n", "jk"} |->
                CASE k \in {"j", "k"} -> 3 [] k = "l" -> 7 [] k = "m" -> 0 [] k = "n" -> 11 [] k = "jk" -> 2]
d == S!Id("d")
InD(k) == S!Index(d, S!Str(k))
Entries(ks) == [j \in DOMAIN ks |-> S!Entry(ks[j], S!Num(j))]
Make1(ks) == Set("d", S!Dictionary(Entries(ks)))
Write(ks) == [j \in DOMAIN ks |-> S!Assign(InD(ks[j]), Plus(a, S!Num(j)))]
Read(ks) == <<S!For("i", S!Array([j \in DOMAIN ks |-> S!Str(ks[j])]), <<f(S!Index(d, i))>>)>>
ReadAll == Read(<<"j", "k", "l">>) \o Read(<<"m", "n", "jk">>)
Dictionaries ==
  {<<Make1(ks)>> \o Write(more) \o ReadAll :
     ks \in {<<"j">>, <<"j", "k">>, <<"j", "k", "l">>, <<"l", "j", "l", "m">>},
     more \in {<<>>, <<"j", "j">>, <<"k", "l", "j">>, <<"l", "n", "jk", "k">>, <<"m", "l", "n", "k", "j", "n">>}}
    \cup {<<Make1(<<"j">>)>> \o use :
            use \in {<<Set("e", d), S!Assign(S!Index(S!Id("e"), S!Str("k")), n3), f(InD("k")), f(d)>>,
                    <<Set("s", S!Str("j")), S!Assign(S!Index(d, Plus(S!Id("s"), S!Str("k"))), n2), f(InD("jk"))>>,
                    <<f(S!Index(d, a))>>, <<S!Assign(S!Index(d, n1), a), f(n1)>>,
                    <<S!Update("*", InD("j"), n3), f(InD("j"))>>,
                    <<Set("a", S!Num(6)), S!Loop(<<CountDown, S!Assign(InD("k"), a), AtZero>>), f(InD("k"))>>,
                    <<S!For("i", S!Array(<<a, b, n3>>), <<S!Assign(InD("j"), i)>>), f(InD("j"))>>}}
    \cup {<<S!Fn("g", <<"x">>, <<S!Dictionary(<<S!Entry("j", x), S!Entry("k", Plus(x, n1))>>)>>),
            Set("d", g(n1)), Set("e", g(n2)), S!Assign(S!Index(S!Id("e"), S!Str("j")), a)>> \o Read(<<"j", "k">>),
          <<Set("d", S!Dictionary(<<S!Entry("j", S!Dictionary(Entries(<<"k">>))), S!Entry("m", S!Array(<<a, b>>))>>)),
            f(S!Index(InD("j"), S!Str("k"))), f(S!Index(InD("m"), n1)), f(InD("j"))>>,
          <<f(S!Index(S!Dictionary(Entries(<<"j", "k">>)), S!Str("k")))>>,
          <<S!Index(S!Dictionary(Entries(<<"j">>)), S!Str("j")), f(n1)>>,
          <<Set("xs", S!Array(<<a, b>>)), f(S!Field(xs, "length")), S!Assign(S!Index(xs, n3), a), f(S!Field(xs, "len"))>>}

(* Statements side by side: what one ends with and the next begins with.   *)
Ends == {<<a>>, <<Set("b", a)>>, <<S!Array(<<a>>)>>, <<S!When(Less, <<f(n1)>>)>>, <<f(n2)>>,
         <<S!Fn("g", <<"x">>, <<x, S!Return(x)>>)>>, <<Set("k", S!Fn("", <<>>, <<n1>>))>>,
         <<S!Node("block", "", <<f(n3)>>)>>}
Begins == {<<S!Un("-", a), f(a)>>, <<S!Index(S!Array(<<n1>>), S!Num(0))>>, <<S!Array(<<b>>)>>,
           <<S!Call(S!Fn("", <<>>, <<f(n3)>>), <<>>)>>, <<S!Bin("..", a, n2)>>,
           <<S!Bin("*", S!Bin("+", a, n1), n2)>>, <<S!Pipe(a, S!Id("f"))>>,
           <<S!If(Less, <<n1>>, <<n2>>)>>, <<S!Update("-", b, n1)>>}
Pairs == {s \o t : s \in Ends, t \in Begins}

(* Jumps out of nothing *)
Strays == {<<f(n1), S!Break>>, <<S!Continue>>, <<S!Return(a)>>}

(* Modules and programs that import them: one, two and deep in a chain,    *)
(* loops of one and two, names that clash, and lazy ones whose top level   *)
(* does what can be seen.  Left out: a first use that a run goes past and  *)
(* a second it comes to, as the code runs the module at the first only.    *)
q(e) == S!Call(S!Id("q"), <<e>>)
p(e) == S!Call(S!Id("p"), <<e>>)
s0 == S!Call(S!Id("s"), <<>>)
MCModules ==
  "one" :> S!Block(<<S!Fn("p", <<"x">>, <<Plus(x, n1)>>)>>)
    @@ "two" :> S!Block(<<S!ImportOf("one"), S!Fn("q", <<"x">>, <<S!Bin("*", p(x), n2)>>)>>)
    @@ "deep" :> S!Block(<<S!ImportOf("two"), S!Fn("r", <<"x">>, <<q(x)>>)>>)
    @@ "self" :> S!Block(<<S!ImportOf("self")>>)
    @@ "there" :> S!Block(<<S!ImportOf("back")>>) @@ "back" :> S!Block(<<S!ImportOf("there")>>)
    @@ "lost" :> S!Block(<<S!ImportOf("nowhere")>>)
    @@ "down" :> S!Block(<<S!Fn("q", <<"x">>, <<S!If(Positive, <<Plus(n1, q(S!Bin("-", x, n1)))>>, <<S!Num(0)>>)>>)>>)
    @@ "maker" :> S!Block(<<Maker(<<S!Bin("-", x, y)>>)>>)
    @@ "nameless" :> S!Block(<<S!Fn("v", <<>>, <<S!Fn("", <<>>, <<n1>>)>>)>>)
    @@ "host" :> S!Block(<<S!Fn("f", <<"x">>, <<x>>)>>)
    @@ "loud" :> S!Block(<<f(n1), Set("c", n2), S!Fn("q", <<"x">>, <<Plus(S!Id("c"), x)>>),
                           S!Fn("s", <<>>, <<f(n3), n1>>)>>)
    @@ "both" :> S!Block(<<S!ImportOf("one"), Set("c", p(n3)), f(S!Id("c")), S!Fn("s", <<>>, <<p(n1)>>)>>)
    @@ "bad" :> S!Block(<<f(n1), f(S!Id("none")), S!Fn("s", <<>>, <<n1>>)>>)
Eager ==
  {<<S!ImportOf(m), f(n1)>> : m \in DOMAIN MCModules \cup {"nowhere"}}
    \cup {<<S!ImportOf("one"), f(p(a))>>, <<f(p(n1)), S!ImportOf("one")>>,
          <<S!ImportOf("two"), f(q(n2)), f(p(a))>>, <<S!ImportOf("one"), S!ImportOf("two"), f(q(n2))>>,
          <<S!ImportOf("two"), S!Fn("p", <<"x">>, <<x>>), f(q(n1))>>, <<S!ImportOf("down"), S!ImportOf("two")>>,
          <<S!ImportOf("down"), S!ImportOf("one"), f(p(q(a)))>>, <<S!ImportOf("maker"), S!ImportOf("nameless")>>,
          <<S!ImportOf("nameless"), S!ImportOf("maker")>>,
          <<S!ImportOf("one"), S!ImportOf("maker"), Set("k", S!Call(S!Id("m"), <<n2>>)), f(S!Call(S!Id("k"), <<a>>))>>,
          <<S!ImportOf("one"), S!Fn("g", <<"x">>, <<p(p(x))>>), f(g(a))>>}
Lazily(m) == <<S!LazyImport(m), f(a)>>
Lazy ==
  {Lazily("loud") \o use :
     use \in {<<>>, <<f(q(n1)), f(S!Id("c")), s0>>, <<Set("a", n1), S!While(Less, <<Count, s0>>), f(q(a))>>,
              <<S!When(S!Bin("==", a, n3), <<s0>>), f(b)>>, <<s0, S!When(S!Bin("==", a, n3), <<f(q(n2))>>)>>,
              <<f(q(q(a)))>>, <<s0, S!Fn("g", <<"x">>, <<f(x), q(x)>>), f(g(a))>>,
              <<S!ImportOf("one"), f(p(n1)), f(q(n1))>>, Rounds(6, <<CountDown, f(q(a)), AtZero>>),
              Rounds(6, <<CountDown, S!Bin("-", a, n1), S!Bin("-", n3, n2), f(q(a)), AtZero>>),
              <<Set("k", S!Id("q")), f(S!Call(S!Id("k"), <<n3>>))>>}}
    \cup {Lazily("both") \o use : use \in {<<f(s0)>>, <<f(p(a)), f(S!Id("c"))>>}}
    \cup {Lazily("bad") \o <<s0>>, Lazily("bad"), Lazily("two") \o <<f(q(p(a)))>>, Lazily("self"),
          Lazily("loud") \o Lazily("both") \o <<S!ImportOf("down"), f(n1)>>,
          Lazily("loud") \o Lazily("bad"), Lazily("one") \o Lazily("loud") \o <<s0, f(p(q(n1)))>>}

MCSources == Asked \cup Loops \cup Hot \cup Functions \cup Closures \cup Data \cup Dictionaries \cup Pairs \cup Strays
MCCompilations ==
  LET Made(s) == MC!Compiled(S!Block(s), <<>>)
      Importing(s) == MC!Compiled(S!Block(s), MCModules) IN
  {Made(s) : s \in MCSources} \cup {Importing(s) : s \in Eager \cup Lazy}

(* make_adder of closure_test.nuzo (Test 6) with smaller numbers *)
Adders ==
  <<Set("m", S!Node("closure", <<"x">>, <<S!Return(S!Node("closure", <<"y">>, <<S!Return(Plus(x, y))>>))>>)),
    Set("add", S!Call(S!Id("m"), <<n1>>)), Set("more", S!Call(S!Id("m"), <<n2>>)),
    f(S!Call(S!Id("add"), <<n3>>)), f(S!Call(S!Id("more"), <<n3>>))>>
MCAdders == LET Made(s) == MC!Compiled(S!Block(s), <<>>) IN {Made(Adders)}

(* A loop that adds up, and is hot before it ends *)
Adding ==
  <<Set("a", S!Num(6)), Set("b", S!Num(0)),
    S!Loop(<<CountDown, Set("b", Plus(b, n2)), AtZero>>), f(b)>>
MCAdding == LET Made(s) == MC!Compiled(S!Block(s), <<>>) IN {Made(Adding)}

(* Adding 0 to what may be a text *)
Neutral == <<Set("s", Word), f(Plus(S!Id("s"), S!Num(0)))>>
MCNeutral == LET Made(s) == MC!Compiled(S!Block(s), <<>>) IN {Made(Neutral)}
===============================================================================

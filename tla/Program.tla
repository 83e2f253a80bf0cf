------------------------------- MODULE Program -------------------------------
(***************************************************************************)
(* A program from its text to its end: what module Compiler makes of it is *)
(* handed from pass to pass, loaded and run (nuzo-run and nuzo-compiler    *)
(* one after the other, in one thread).                                    *)
(***************************************************************************)
EXTENDS HotTrace

CONSTANT Compilations   \* the programs, as Compiler!Compiled describes them

VARIABLES
  program,  \* one of them
  names,    \* the globals it starts from
  stage     \* "text", "parsed", "lowered", "loaded" or "rejected"

compilation == <<program, names, stage>>
vars == <<machine, hot, compilation>>

Init ==
  /\ program \in Compilations
  /\ names \in DOMAIN program.meaning
  /\ stage = "text"
  /\ globals = names
  /\ Idle
  /\ traces = <<>> /\ batch = NoBatch

Pass(from, to, failed) ==
  /\ stage = from
  /\ stage' = IF failed THEN "rejected" ELSE to
  /\ UNCHANGED <<machine, hot, program, names>>

Parse == Pass("text", "parsed", program.parsed.at = 0)
Lower == Pass("parsed", "lowered", program.refused)
Generate ==
  /\ stage = "lowered"
  /\ IF program.code.err THEN stage' = "rejected" /\ UNCHANGED <<machine, hot>>
     ELSE stage' = "loaded" /\ Start(program.code.fns) /\ ColdStart
  /\ UNCHANGED <<program, names>>

Run == HotStep /\ UNCHANGED compilation

Ended == stage = "rejected" \/ status \in {"halted", "error", "astray"}

(* Loads and moves do not fail by themselves: a program that is at a pair  *)
(* when it ends has ended in it.                                           *)
EndedInPair == stage = "loaded" /\ Ended /\ AtPair

Work == Parse \/ Lower \/ Generate \/ Run
Next == Work \/ (Ended /\ UNCHANGED vars)

(* The compiler and the machine are one thread that is never interrupted.  *)
Spec == Init /\ [][Next]_vars /\ WF_vars(Work)
-------------------------------------------------------------------------------
(* The parser reads back what was written: no operator joins, and no line  *)
(* goes on, where the author did not mean it (parser.rs, the levels from   *)
(* expression to primary).                                                 *)
ParsedAsWritten == stage = "parsed" => program.parsed.ast = program.source

(* What the host was called with, an object by its kind. *)
Heard ==
  [k \in DOMAIN trace |->
     [j \in DOMAIN trace[k] |->
        IF IsRef(trace[k][j]) THEN <<Object(trace[k][j]).is>> ELSE trace[k][j]]]
Kept == {x \in DOMAIN globals : ~IsRef(globals[x]) /\ globals[x] # Host}
          \ {InitFlag(m) : m \in DOMAIN fns}

(* Lowering, optimizing, register allocation and the machine together keep *)
(* the meaning of the program: the same calls of the host in their order,  *)
(* the same error or none, the same globals.  What is rejected leaves a    *)
(* loop or a function it is not in.  Of a hot loop that ends in a pair run *)
(* as one, only what the host heard until then is what was meant.          *)
CodeKeepsMeaning ==
  Ended =>
    IF EndedInPair THEN IsPrefix(Heard, program.meaning[names].trace)
    ELSE program.meaning[names] =
           IF stage = "rejected" THEN [end |-> "stray"]
           ELSE [end |-> status, trace |-> Heard, globals |-> [x \in Kept |-> globals[x]]]

EndsAsMeant ==
  Ended => LET meant == program.meaning[names] IN status = meant.end /\ Heard = meant.trace

(* Two closures made by one function expression each keep what they took   *)
(* (closure_test.nuzo:88 expects 8 of add5(3), whatever add10 was given).  *)
ClosuresKeepTheirCaptures == EndsAsMeant

(* A loop that has become hot does what it did before (vm_hot_trace.rs:4:  *)
(* a batch runs the whole sequence and skips only fetching and dispatch).  *)
HotLoopsKeepMeaning == EndsAsMeant

(* An operation that is optimised away is one that could go (optimize.rs   *)
(* lines 15 and 16: only what is proved safe is optimised, and what        *)
(* happens at run time stays).                                             *)
OptimizedKeepsMeaning == EndsAsMeant

(* Every register an instruction reads was written in the same call: no    *)
(* path through the blocks comes past a value that only another path made. *)
(* A pair run as one reads other registers than its instructions name.     *)
NoStaleRead ==
  status = "running" /\ ~FusesHere => Reads(Current) \subseteq DOMAIN Top.regs

(* What is compiled ends: a loop that ends in the program ends here, or    *)
(* goes no further than a pair run as one.                                 *)
Terminates == <>Ended

(* Every jump of a loaded program stays in its function, and every object  *)
(* a call or a global knows is on the heap.                                *)
JumpsTo(i) == IF i[1] = "Jmp" THEN {i[2]} ELSE IF i[1] = "Test" THEN {i[3]} ELSE {}
TypeOK ==
  /\ stage \in {"text", "parsed", "lowered", "loaded", "rejected"}
  /\ status \in {"idle", "running", "halted", "error", "astray"}
  /\ stage = "loaded" <=> status # "idle"
  /\ \A k \in DOMAIN fns : \A j \in DOMAIN fns[k].code :
       JumpsTo(fns[k].code[j]) \subseteq DOMAIN fns[k].code
  /\ \A v \in Range(globals) \cup UNION {Range(frames[k].regs) : k \in DOMAIN frames} :
       IsRef(v) => v[2] \in DOMAIN heap
===============================================================================

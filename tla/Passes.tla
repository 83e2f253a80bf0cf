-------------------------------- MODULE Passes --------------------------------
(***************************************************************************)
(* What the passes of the compiler have in common: they take one thing     *)
(* after the other until one of them is an error (the ? of every loop).    *)
(* By halves, so that the evaluation nests no deeper than it must.         *)
(***************************************************************************)
EXTENDS Integers, Sequences

UntilError(Do(_, _), start, todo) ==
  LET RECURSIVE Taken(_, _, _)
      Taken(now, first, last) ==
        LET middle == (first + last) \div 2 IN
        IF now.err \/ first > last THEN now
        ELSE IF first = last THEN Do(now, todo[first])
        ELSE Taken(Taken(now, first, middle), middle + 1, last) IN
  Taken(start, 1, Len(todo))
===============================================================================

---------------------------- MODULE MCFrameStack ----------------------------
(* Small instances of FrameStack: a function of one argument, one of none, *)
(* one whose window never fits (only the host and a tail call get as far   *)
(* as moving its argument), and a module.                                  *)
EXTENDS FrameStack

CONSTANTS fn1, fn0, big, lib, main

MCClosures == {fn1, fn0, big}
MCModules  == {lib}
MCArgc   == (fn1 :> 1) @@ (fn0 :> 0) @@ (big :> 1) @@ (lib :> 0) @@ (main :> 0)
MCLocals == (fn1 :> 1) @@ (fn0 :> 1) @@ (big :> 9) @@ (lib :> 1) @@ (main :> 2)
=============================================================================

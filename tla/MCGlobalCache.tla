---------------------------- MODULE MCGlobalCache ----------------------------
(* Two names, in one order among the constants of the script and of g, and  *)
(* in the other among those of f.                                           *)
EXTENDS GlobalCache, TLC
CONSTANTS x, y, f, g, main
ConstNameAt == main :> <<x, y>> @@ f :> <<y, x>> @@ g :> <<x, y>>
==============================================================================

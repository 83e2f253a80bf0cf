------------------------------- MODULE MCArena -------------------------------
(* The instance of Arena.cfg: one global, windows of two registers, two      *)
(* activations beside the script's, two objects, one of them stored into.    *)
EXTENDS Arena
==============================================================================

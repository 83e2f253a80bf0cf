------------------------------ MODULE MCGcHeap ------------------------------
(* A small instance of GcHeap: chunks of two or three slots, one            *)
(* placeholder, two registers.                                             *)
EXTENDS GcHeap, TLC

Symmetric == Permutations(Regs)
=============================================================================

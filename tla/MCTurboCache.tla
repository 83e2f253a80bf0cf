---------------------------- MODULE MCTurboCache ----------------------------
(* A small instance of TurboCache: two buckets, slabs of two slots. *)
EXTENDS TurboCache, TLC

Buckets == Permutations(Cpus)

=============================================================================

------------------------------- MODULE RegPool -------------------------------
(***************************************************************************)
(* The register pool of the code generator (reg_pool.rs): a cursor that    *)
(* hands out registers in order, and the temporaries that were given back, *)
(* the next one last.  A pool is a record, an operation an operator.       *)
(***************************************************************************)
EXTENDS Integers, Sequences

NewPool == [top |-> 0, peak |-> 0, free |-> <<>>]
\* n registers from the cursor: acquire_persistent, acquire_temp_block
Grow(p, n) ==
  [top |-> p.top + n, peak |-> IF p.peak < p.top + n THEN p.top + n ELSE p.peak,
   free |-> p.free]

\* Mutant: the top of the free list is used but not popped.
MutAfterTemp(p) == IF p.free # <<>> THEN p ELSE Grow(p, 1)

\* acquire_temp answers TempOf(p) and leaves AfterTemp(p)
TempOf(p) == IF p.free # <<>> THEN p.free[Len(p.free)] ELSE p.top
AfterTemp(p) ==
  IF p.free # <<>> THEN [p EXCEPT !.free = SubSeq(@, 1, Len(@) - 1)] ELSE Grow(p, 1)

ReleaseTemp(p, r) == [p EXCEPT !.free = Append(@, r)]
ReleaseBlock(p, base, n) == [p EXCEPT !.free = @ \o [i \in 1 .. n |-> base + i - 1]]

SaveCheckpoint(p) == [top |-> p.top, len |-> Len(p.free)]

\* Mutant: the cursor goes back, the free list keeps what lies beyond it.
MutRestoreCheckpoint(p, cp) == [p EXCEPT !.top = cp.top]

RestoreCheckpoint(p, cp) ==
  [top |-> cp.top, peak |-> p.peak,
   free |-> SubSeq(p.free, 1, IF cp.len < Len(p.free) THEN cp.len ELSE Len(p.free))]
=============================================================================

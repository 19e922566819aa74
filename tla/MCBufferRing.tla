--------------------------- MODULE MCBufferRing ---------------------------
(* Model values and symmetry for the runs of BufferRing. *)
EXTENDS BufferRing, TLC

CONSTANTS t1, t2, t3

ThreeThreads == {t1, t2, t3}
TwoThreads == {t1, t2}
Symmetry == Permutations(Writers)
===========================================================================

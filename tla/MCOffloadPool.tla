--------------------------- MODULE MCOffloadPool ---------------------------
(* Model checking of OffloadPool: worker identities are interchangeable.     *)
EXTENDS OffloadPool, TLC

Symmetry == Permutations(Workers)
=============================================================================

------------------------------- MODULE MCHeap -------------------------------
(* Model checking of Heap: the bounds are in the .cfg files.                 *)
EXTENDS Heap
=============================================================================

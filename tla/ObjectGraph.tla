---------------------------- MODULE ObjectGraph ----------------------------
(***************************************************************************)
(* What a garbage-collected heap promises its program: an unbounded supply *)
(* of objects whose references change only when the program changes them.  *)
(* There is no arena, no free list and no collector; what the program can  *)
(* no longer reach is nobody's business, so edges are kept for reachable   *)
(* objects only.                                                           *)
(***************************************************************************)
EXTENDS Reachability

CONSTANTS
  Things,     \* identities of objects
  Frozen      \* the ones that never change once they exist

VARIABLES
  roots,      \* the objects the program holds
  edges       \* the references of every reachable object

vars == <<roots, edges>>

Reach == ReachableFrom(roots, edges)

\* The program holds R and has changed the references to E.
Becomes(R, E) == roots' = R /\ edges' = Kept(R, E)

Init == roots = {} /\ edges = [x \in Things |-> {}]

\* A new object, with references to objects the program can reach.
New(x, refs) ==
  /\ x \notin Reach
  /\ Becomes(roots \cup {x}, [edges EXCEPT ![x] = refs])

\* A mutable object refers to other reachable objects from now on.
Mutate(x, refs) ==
  /\ x \in Reach \ Frozen
  /\ Becomes(roots, [edges EXCEPT ![x] = refs])

\* The program takes hold of an object, or lets one go.
Hold(x) == x \in Reach /\ Becomes(roots \cup {x}, edges)
Release(x) == x \in roots /\ Becomes(roots \ {x}, edges)

Next ==
  \E x \in Things :
    \/ \E refs \in SUBSET Reach : New(x, refs) \/ Mutate(x, refs)
    \/ Hold(x) \/ Release(x)

Spec == Init /\ [][Next]_vars
=============================================================================

---------------------------- MODULE Reachability ----------------------------
(***************************************************************************)
(* What a set of roots keeps alive in a graph of references.  "holds" maps *)
(* every thing of the graph to the things it refers to.                    *)
(***************************************************************************)

Closed(S, holds) == \A x \in S : holds[x] \subseteq S

\* The least closed set that contains the roots.
ReachableFrom(R, holds) ==
  LET keeping == {S \in SUBSET DOMAIN holds : R \subseteq S /\ Closed(S, holds)}
  IN  {x \in DOMAIN holds : \A S \in keeping : x \in S}

\* The references of what R keeps alive, and none for anything else.
Kept(R, holds) ==
  LET reach == ReachableFrom(R, holds)
  IN  [x \in DOMAIN holds |-> IF x \in reach THEN holds[x] ELSE {}]
=============================================================================

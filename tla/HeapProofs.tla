----------------------------- MODULE HeapProofs -----------------------------
(***************************************************************************)
(* Proofs about Heap, for any number of slots, nodes and references: the   *)
(* type invariant, that nothing reachable is freed and nothing else kept,  *)
(* that the free list is exact and the arena no larger than it ever had to *)
(* be, and that the collected heap implements the unbounded ObjectGraph.   *)
(*                                                                         *)
(* The inductive invariant IInv adds Tricolor: while marking, what has been*)
(* scanned refers to marked things only and only reachable things are      *)
(* marked, so an empty work list means that exactly these are; while       *)
(* sweeping, that stays so and the slots passed hold marked cells only.    *)
(***************************************************************************)
EXTENDS Heap, TLAPS, FiniteSetTheorems, SequenceTheorems

Tricolor ==
  /\ phase = "run" => marked = {} /\ at = 1
  /\ phase = "mark" =>
       /\ roots \subseteq marked
       /\ marked \subseteq Reachable
       /\ \A x \in marked \ pending : holds[x] \subseteq marked
  /\ phase = "sweep" =>
       /\ pending = {}
       /\ marked = Reachable
       /\ \A c \in live : c < at => c \in marked

\* What exists outside a sweep, garbage included, refers to existing cells;
\* what is reachable does so always.
NothingFreedIsHeld ==
  /\ Reachable \cap Slots \subseteq live
  /\ phase # "sweep" => Existing \cap Slots \subseteq live

IInv ==
  /\ TypeOK
  /\ FreeListExact /\ ArenaIsHighWater
  /\ Tricolor /\ NothingFreedIsHeld

References == [Things -> SUBSET Things]

-----------------------------------------------------------------------------
(* Reachability: the least closed set.                                       *)

\* It contains the roots and is closed ...
LEMMA ReachIsClosed ==
  ASSUME NEW D, NEW h \in [D -> SUBSET D], NEW R \in SUBSET D
  PROVE  /\ ReachableFrom(R, h) \subseteq D
         /\ R \subseteq ReachableFrom(R, h)
         /\ Closed(ReachableFrom(R, h), h)
<1> DEFINE keeping == {S \in SUBSET DOMAIN h : R \subseteq S /\ Closed(S, h)}
           reach == {x \in DOMAIN h : \A S \in keeping : x \in S}
<1>1. DOMAIN h = D
  OBVIOUS
<1>2. ReachableFrom(R, h) = reach
  BY DEF ReachableFrom
<1>3. Closed(reach, h)
  <2> SUFFICES ASSUME NEW x \in reach, NEW y \in h[x] PROVE y \in reach
    BY DEF Closed
  <2>1. y \in D
    BY <1>1
  <2>2. ASSUME NEW S \in keeping PROVE y \in S
    BY DEF Closed
  <2> QED
    BY <1>1, <2>1, <2>2
<1> HIDE DEF keeping
<1>4. R \subseteq reach
  BY <1>1 DEF keeping
<1> QED
  BY <1>1, <1>2, <1>3, <1>4

\* ... and lies inside every other such set.
LEMMA ReachIsLeast ==
  ASSUME NEW D, NEW h \in [D -> SUBSET D], NEW R, NEW S \in SUBSET D,
         R \subseteq S, Closed(S, h)
  PROVE  ReachableFrom(R, h) \subseteq S
BY DEF ReachableFrom

\* More roots reach more.
LEMMA ReachGrows ==
  ASSUME NEW D, NEW h \in [D -> SUBSET D],
         NEW R \in SUBSET D, NEW Q \in SUBSET D, R \subseteq Q
  PROVE  ReachableFrom(R, h) \subseteq ReachableFrom(Q, h)
BY ReachIsClosed, ReachIsLeast

\* Two graphs that agree on a closed set around the roots agree on what these
\* reach, and on the references of it.
LEMMA ReachAgrees ==
  ASSUME NEW D, NEW g \in [D -> SUBSET D], NEW h \in [D -> SUBSET D],
         NEW S \in SUBSET D, NEW R, R \subseteq S, Closed(S, g),
         \A x \in S : g[x] = h[x]
  PROVE  /\ ReachableFrom(R, g) = ReachableFrom(R, h)
         /\ Kept(R, g) = Kept(R, h)
<1>1. R \in SUBSET D
  OBVIOUS
<1>2. Closed(S, h)
  BY DEF Closed
<1>3. ReachableFrom(R, g) \subseteq S /\ ReachableFrom(R, h) \subseteq S
  BY <1>2, ReachIsLeast
<1>4. Closed(ReachableFrom(R, g), h)
  <2>1. Closed(ReachableFrom(R, g), g)
    BY <1>1, ReachIsClosed
  <2> QED
    BY <1>3, <2>1 DEF Closed
<1>5. Closed(ReachableFrom(R, h), g)
  <2>1. Closed(ReachableFrom(R, h), h)
    BY <1>1, ReachIsClosed
  <2> QED
    BY <1>3, <2>1 DEF Closed
<1>6. ReachableFrom(R, h) \subseteq ReachableFrom(R, g)
  BY <1>1, <1>4, ReachIsClosed, ReachIsLeast
<1>7. ReachableFrom(R, g) \subseteq ReachableFrom(R, h)
  BY <1>1, <1>5, ReachIsClosed, ReachIsLeast
<1>8. ReachableFrom(R, g) = ReachableFrom(R, h)
  BY <1>6, <1>7
<1>9. Kept(R, g) = Kept(R, h)
  <2>1. ASSUME NEW x \in D
        PROVE  (IF x \in ReachableFrom(R, g) THEN g[x] ELSE {})
                 = (IF x \in ReachableFrom(R, h) THEN h[x] ELSE {})
    BY <1>3, <1>8
  <2> QED
    BY <2>1 DEF Kept
<1> QED
  BY <1>8, <1>9

\* Forgetting the references of the unreachable changes nothing reachable.
LEMMA KeptReaches ==
  ASSUME NEW D, NEW h \in [D -> SUBSET D], NEW R \in SUBSET D
  PROVE  /\ Kept(R, h) \in [D -> SUBSET D]
         /\ ReachableFrom(R, Kept(R, h)) = ReachableFrom(R, h)
         /\ \A x \in ReachableFrom(R, h) : Kept(R, h)[x] = h[x]
<1> DEFINE S == ReachableFrom(R, h)
<1>1. S \subseteq D /\ R \subseteq S /\ Closed(S, h)
  BY ReachIsClosed
<1>2. Kept(R, h) = [x \in D |-> IF x \in S THEN h[x] ELSE {}]
  BY DEF Kept
<1> HIDE DEF S
<1>3. Kept(R, h) \in [D -> SUBSET D]
  BY <1>2
<1>4. \A x \in S : h[x] = Kept(R, h)[x]
  BY <1>1, <1>2
<1>5. ReachableFrom(R, h) = ReachableFrom(R, Kept(R, h))
  BY <1>1, <1>3, <1>4, ReachAgrees
<1> QED
  BY <1>3, <1>4, <1>5 DEF S

-----------------------------------------------------------------------------
(* The free list, and counting slots.                                        *)

\* Taking the last entry of an exact list, as alloc does.
LEMMA FreePops ==
  ASSUME NEW S, NEW f \in Seq(S), f # <<>>, IsInjective(f)
  PROVE  /\ Last(f) \in ToSet(f)
         /\ ToSet(f) \subseteq S
         /\ Front(f) \in Seq(S)
         /\ IsInjective(Front(f))
         /\ ToSet(Front(f)) = ToSet(f) \ {Last(f)}
<1> DEFINE n == Len(f)
<1>1. n \in Nat \ {0} /\ DOMAIN f = 1 .. n /\ \A i \in 1 .. n : f[i] \in S
  BY EmptySeq, ElementOfSeq, LenProperties
<1>2. /\ Front(f) \in Seq(S)
      /\ Len(Front(f)) = n - 1
      /\ \A i \in 1 .. n - 1 : Front(f)[i] = f[i]
  <2>1. \A i \in 1 .. n - 1 : f[i] \in S
    BY <1>1
  <2>2. 1 \in Int /\ n - 1 \in Int
    BY <1>1
  <2> QED
    BY <1>1, <2>1, <2>2, SubSeqProperties DEF Front
<1>3. DOMAIN Front(f) = 1 .. n - 1
  BY <1>2, LenProperties
<1> HIDE DEF n
<1>4. Last(f) = f[n]
  BY DEF Last, n
<1>5. \A i, j \in 1 .. n : f[i] = f[j] => i = j
  BY <1>1 DEF IsInjective
<1>6. IsInjective(Front(f))
  BY <1>1, <1>2, <1>3, <1>5 DEF IsInjective
<1>7. ToSet(Front(f)) = ToSet(f) \ {Last(f)}
  <2>1. ToSet(f) = {f[i] : i \in 1 .. n}
    BY <1>1 DEF ToSet
  <2>2. ToSet(Front(f)) = {Front(f)[i] : i \in 1 .. n - 1}
    BY <1>3 DEF ToSet
  <2>3. {Front(f)[i] : i \in 1 .. n - 1} = {f[i] : i \in 1 .. n - 1}
    BY <1>2
  <2>4. {f[i] : i \in 1 .. n - 1} = {f[i] : i \in 1 .. n} \ {f[n]}
    <3>1. 1 .. n = (1 .. n - 1) \cup {n} /\ n \notin 1 .. n - 1
      BY <1>1
    <3>2. \A i \in 1 .. n - 1 : f[i] # f[n]
      BY <1>5, <3>1
    <3> QED
      BY <3>1, <3>2, Zenon
  <2> QED
    BY <1>4, <2>1, <2>2, <2>3, <2>4
<1>8. Last(f) \in ToSet(f) /\ ToSet(f) \subseteq S
  <2>1. n \in DOMAIN f /\ \A i \in DOMAIN f : f[i] \in S
    BY <1>1
  <2> QED
    BY <1>4, <2>1, Zenon DEF ToSet
<1> QED
  BY <1>2, <1>6, <1>7, <1>8, Zenon

\* Appending a slot that is not on the list, as the sweep does.
LEMMA FreePushes ==
  ASSUME NEW S, NEW f \in Seq(S), NEW x \in S, x \notin ToSet(f), IsInjective(f)
  PROVE  /\ Append(f, x) \in Seq(S)
         /\ IsInjective(Append(f, x))
         /\ ToSet(Append(f, x)) = ToSet(f) \cup {x}
<1> DEFINE n == Len(f)
           g == Append(f, x)
<1>1. n \in Nat /\ DOMAIN f = 1 .. n
  BY LenProperties
<1>2. /\ g \in Seq(S) /\ Len(g) = n + 1
      /\ \A i \in 1 .. n : g[i] = f[i]
      /\ g[n + 1] = x
  BY AppendProperties
<1>3. DOMAIN g = 1 .. n + 1
  BY <1>2, LenProperties
<1> HIDE DEF n, g
<1>4. \A i \in 1 .. n : f[i] # x
  BY <1>1 DEF ToSet
<1>5. \A i, j \in 1 .. n : f[i] = f[j] => i = j
  BY <1>1 DEF IsInjective
<1>6. IsInjective(g)
  <2> SUFFICES ASSUME NEW i \in 1 .. n + 1, NEW j \in 1 .. n + 1, g[i] = g[j]
               PROVE  i = j
    BY <1>3 DEF IsInjective
  <2>1. CASE i \in 1 .. n /\ j \in 1 .. n
    BY <1>2, <1>5, <2>1
  <2>2. CASE i = n + 1 /\ j \in 1 .. n
    BY <1>2, <1>4, <2>2
  <2>3. CASE i \in 1 .. n /\ j = n + 1
    BY <1>2, <1>4, <2>3
  <2>4. CASE i = n + 1 /\ j = n + 1
    BY <2>4
  <2> QED
    BY <1>1, <2>1, <2>2, <2>3, <2>4
<1>7. ToSet(g) = ToSet(f) \cup {x}
  <2>1. ToSet(g) = {g[i] : i \in 1 .. n + 1} /\ ToSet(f) = {f[i] : i \in 1 .. n}
    BY <1>1, <1>3 DEF ToSet
  <2>2. {g[i] : i \in 1 .. n + 1} = {f[i] : i \in 1 .. n} \cup {x}
    BY <1>1, <1>2
  <2> QED
    BY <2>1, <2>2
<1> QED
  BY <1>2, <1>6, <1>7 DEF g

\* A position in the arena stays one when the arena grows.
LEMMA RangeGrows ==
  ASSUME NEW m \in Nat, NEW n \in Nat, n >= m, NEW a \in 1 .. m + 1
  PROVE  a \in 1 .. n + 1 /\ 1 \in 1 .. n + 1
OBVIOUS

\* A set of slots is no larger than the arena, and a full one exactly as large.
LEMMA SlotsCounted ==
  ASSUME NEW n \in Nat, NEW S \in SUBSET (1 .. n)
  PROVE  /\ Cardinality(S) \in Nat
         /\ Cardinality(S) =< n
         /\ S = 1 .. n => Cardinality(S) = n
<1>1. IsFiniteSet(1 .. n) /\ Cardinality(1 .. n) = n
  BY FS_Interval
<1> QED
  BY <1>1, FS_Subset, FS_CardinalityType

-----------------------------------------------------------------------------
(* What holds of any state of the invariant.                                 *)

\* The heap is a graph: things that hold others, some of which are roots.
LEMMA Graphs ==
  ASSUME TypeOK
  PROVE  /\ holds \in References /\ roots \in SUBSET Things
         /\ live \in SUBSET Slots /\ Slots \subseteq Things
         /\ size \in Nat /\ 1 .. size \subseteq Slots
<1>1. size \in 0 .. MaxSlots /\ live \in SUBSET (1 .. size)
  BY DEF TypeOK
<1>2. size \in Nat /\ 1 .. size \subseteq Slots
  BY <1>1, SlotsAssumption DEF Slots
<1>3. Slots \subseteq Things
  BY DEF Things
<1> QED
  BY <1>1, <1>2, <1>3 DEF TypeOK, References

\* What is reachable exists, and so do the roots.
LEMMA Reaches ==
  ASSUME TypeOK
  PROVE  /\ Reachable \subseteq Things /\ Existing \subseteq Things
         /\ roots \subseteq Reachable /\ roots \cup live \subseteq Existing
         /\ Reachable \subseteq Existing
         /\ Closed(Reachable, holds) /\ Closed(Existing, holds)
<1>1. holds \in References /\ roots \in SUBSET Things /\ roots \cup live \in SUBSET Things
  BY Graphs
<1> QED
  BY <1>1, ReachIsClosed, ReachGrows DEF Reachable, Existing, References

\* Storing references to what is in a closed set adds at most the target to it.
LEMMA StoreCloses ==
  ASSUME NEW D, NEW h, NEW g, NEW S \in SUBSET D, Closed(S, h), NEW x \in D,
         g[x] \subseteq S, \A y \in D \ {x} : g[y] = h[y]
  PROVE  Closed(S \cup {x}, g)
BY DEF Closed

-----------------------------------------------------------------------------
(* Each part of the invariant survives every step.                           *)

\* Every step keeps the free list exact (alloc pops it, sweep pushes what it frees).
LEMMA StepFreeList ==
  ASSUME IInv, [Next]_vars
  PROVE  FreeListExact' /\ free' \in Seq(1 .. size') /\ live' \subseteq 1 .. size'
<1>1. /\ size \in Nat /\ live \subseteq 1 .. size /\ free \in Seq(1 .. size)
      /\ IsInjective(free) /\ ToSet(free) = (1 .. size) \ live
  BY Graphs DEF IInv, TypeOK, FreeListExact
<1>2. ASSUME NEW refs \in Operands, Alloc(refs)
      PROVE  FreeListExact' /\ free' \in Seq(1 .. size') /\ live' \subseteq 1 .. size'
  <2>1. CASE free = <<>>
    <3>1. size' = size + 1 /\ free' = <<>> /\ live' = live \cup {size + 1}
      BY <1>2, <2>1 DEF Alloc
    <3>2. ToSet(free) = {} /\ ToSet(free') = {}
      BY <2>1, <3>1 DEF ToSet
    <3>3. (1 .. size') \ live' = {} /\ live' \subseteq 1 .. size'
      BY <1>1, <3>1, <3>2
    <3>4. IsInjective(free') /\ free' \in Seq(1 .. size')
      BY <3>1, EmptySeq DEF IsInjective
    <3> QED
      BY <3>2, <3>3, <3>4 DEF FreeListExact
  <2>2. CASE free # <<>>
    <3>1. size' = size /\ free' = Front(free) /\ live' = live \cup {Last(free)}
      BY <1>2, <2>2 DEF Alloc
    <3>2. /\ Last(free) \in (1 .. size) \ live
          /\ Front(free) \in Seq(1 .. size) /\ IsInjective(Front(free))
          /\ ToSet(Front(free)) = ToSet(free) \ {Last(free)}
      BY <1>1, <2>2, FreePops
    <3>3. ToSet(Front(free)) = (1 .. size) \ (live \cup {Last(free)})
      BY <1>1, <3>2
    <3> QED
      BY <1>1, <3>1, <3>2, <3>3 DEF FreeListExact
  <2> QED
    BY <2>1, <2>2
<1>3. ASSUME Sweep
      PROVE  FreeListExact' /\ free' \in Seq(1 .. size') /\ live' \subseteq 1 .. size'
  <2>1. size' = size
    BY <1>3 DEF Sweep
  <2>2. CASE at \notin marked /\ at \in live
    <3>1. live' = live \ {at} /\ free' = Append(free, at)
      BY <1>3, <2>2 DEF Sweep
    <3>2. at \in 1 .. size /\ at \notin ToSet(free)
      BY <1>1, <2>2
    <3> QED
      BY <1>1, <2>1, <3>1, <3>2, FreePushes DEF FreeListExact
  <2>3. CASE ~(at \notin marked /\ at \in live)
    BY <1>1, <1>3, <2>1, <2>3 DEF Sweep, FreeListExact
  <2> QED
    BY <2>2, <2>3
<1>4. ASSUME UNCHANGED arena
      PROVE  FreeListExact' /\ free' \in Seq(1 .. size') /\ live' \subseteq 1 .. size'
  BY <1>1, <1>4 DEF FreeListExact, arena
<1>5. ASSUME NEW x \in Things, Scan(x) PROVE UNCHANGED arena
  BY <1>5 DEF Scan
<1>6. CASE UNCHANGED vars
  BY <1>4, <1>6 DEF vars
<1>7. CASE Mutator
  BY <1>2, <1>4, <1>7 DEF Mutator, NewNode, Mutate, Root, Unroot
<1>8. CASE Collect \/ StartSweep \/ EndSweep
  BY <1>4, <1>8 DEF Collect, StartSweep, EndSweep
<1> QED
  BY <1>3, <1>4, <1>5, <1>6, <1>7, <1>8 DEF Next, Collector

\* Every step keeps the arena as long as its high water, and never shorter.
LEMMA StepHighWater ==
  ASSUME IInv, [Next]_vars
  PROVE  ArenaIsHighWater' /\ size' \in 0 .. MaxSlots /\ size' >= size
<1>1. /\ size \in Nat /\ size \in 0 .. MaxSlots /\ size = peak
      /\ live \in SUBSET (1 .. size) /\ free \in Seq(1 .. size)
      /\ IsInjective(free) /\ ToSet(free) = (1 .. size) \ live
  BY Graphs DEF IInv, TypeOK, FreeListExact, ArenaIsHighWater
<1>2. live' \subseteq 1 .. size'
  BY StepFreeList
<1>3. ASSUME NEW refs \in Operands, Alloc(refs)
      PROVE  ArenaIsHighWater' /\ size' \in 0 .. MaxSlots /\ size' >= size
  <2>1. peak' = IF Cardinality(live') > peak THEN Cardinality(live') ELSE peak
    BY <1>3 DEF Alloc
  <2>2. CASE free = <<>>
    <3>1. size + 1 \in Slots /\ size' = size + 1 /\ live' = live \cup {size + 1}
      BY <1>3, <2>2 DEF Alloc
    <3>2. live = 1 .. size
      <4>1. ToSet(free) = {}
        BY <2>2 DEF ToSet
      <4> QED
        BY <1>1, <4>1
    <3>3. live' = 1 .. size + 1
      BY <1>1, <3>1, <3>2
    <3>4. Cardinality(live') = size + 1
      BY <1>1, <3>3, SlotsCounted
    <3>5. peak' = size + 1
      BY <1>1, <2>1, <3>4
    <3>6. size' \in 0 .. MaxSlots
      BY <1>1, <3>1, SlotsAssumption DEF Slots
    <3> QED
      BY <1>1, <3>1, <3>5, <3>6 DEF ArenaIsHighWater
  <2>3. CASE free # <<>>
    <3>1. size' = size
      BY <1>3, <2>3 DEF Alloc
    <3>2. Cardinality(live') \in Nat /\ Cardinality(live') =< size
      BY <1>1, <1>2, <3>1, SlotsCounted
    <3>3. peak' = size
      BY <1>1, <2>1, <3>2
    <3> QED
      BY <1>1, <3>1, <3>3 DEF ArenaIsHighWater
  <2> QED
    BY <2>2, <2>3
<1>4. ASSUME size' = size /\ peak' = peak
      PROVE  ArenaIsHighWater' /\ size' \in 0 .. MaxSlots /\ size' >= size
  BY <1>1, <1>4 DEF ArenaIsHighWater
<1>5. ASSUME NEW x \in Things, Scan(x) PROVE size' = size /\ peak' = peak
  BY <1>5 DEF Scan, arena
<1>6. CASE UNCHANGED vars
  BY <1>4, <1>6 DEF vars, arena
<1>7. CASE Mutator
  BY <1>3, <1>4, <1>7 DEF Mutator, NewNode, Mutate, Root, Unroot, arena
<1>8. CASE Collect \/ StartSweep \/ Sweep \/ EndSweep
  BY <1>4, <1>8 DEF Collect, StartSweep, Sweep, EndSweep, arena
<1> QED
  BY <1>4, <1>5, <1>6, <1>7, <1>8 DEF Next, Collector

\* The sweep takes nothing reachable, and what is reachable stays as it was.
LEMMA SweepSparesReachable ==
  ASSUME IInv, Sweep
  PROVE  /\ Reachable' = Reachable
         /\ Kept(roots', holds') = Kept(roots, holds)
         /\ holds' \in References
         /\ Reachable \cap Slots \subseteq live'
<1>1. /\ holds \in References /\ roots \in SUBSET Things
      /\ Reachable \in SUBSET Things /\ roots \subseteq Reachable
      /\ Closed(Reachable, holds)
  BY Graphs, Reaches DEF IInv
<1>2. marked = Reachable /\ Reachable \cap Slots \subseteq live
  BY DEF IInv, Tricolor, NothingFreedIsHeld, Sweep
<1>3. roots' = roots
  BY DEF Sweep
<1>4. holds' \in References /\ \A x \in Reachable : holds[x] = holds'[x]
  BY <1>1, <1>2 DEF Sweep, References
<1>5. /\ ReachableFrom(roots, holds) = ReachableFrom(roots, holds')
      /\ Kept(roots, holds) = Kept(roots, holds')
  BY <1>1, <1>4, ReachAgrees DEF References
<1>6. Reachable \cap Slots \subseteq live'
  BY <1>2 DEF Sweep
<1> QED
  BY <1>3, <1>4, <1>5, <1>6 DEF Reachable

\* Every step keeps the types.
LEMMA StepType ==
  ASSUME IInv, [Next]_vars
  PROVE  TypeOK'
<1>1. /\ TypeOK /\ holds \in References /\ roots \in SUBSET Things
      /\ live \in SUBSET Slots /\ Slots \subseteq Things /\ size \in Nat
      /\ Reachable \subseteq Things /\ Nodes \subseteq Things
  BY Graphs, Reaches DEF IInv, Things
<1>2. /\ size' \in 0 .. MaxSlots /\ live' \in SUBSET (1 .. size')
      /\ free' \in Seq(1 .. size') /\ peak' \in 0 .. MaxSlots
      /\ size' \in Nat /\ size' >= size
  BY StepFreeList, StepHighWater, SlotsAssumption DEF ArenaIsHighWater
<1> DEFINE Rest ==
      /\ holds' \in References /\ roots' \in SUBSET Things
      /\ phase' \in {"run", "mark", "sweep"}
      /\ marked' \in SUBSET Things /\ pending' \in SUBSET marked'
      /\ at' \in 1 .. size' + 1
<1>3. /\ phase \in {"run", "mark", "sweep"} /\ marked \in SUBSET Things
      /\ pending \in SUBSET marked /\ at \in 1 .. size + 1
      /\ at \in 1 .. size' + 1
  <2>1. /\ phase \in {"run", "mark", "sweep"} /\ marked \in SUBSET Things
        /\ pending \in SUBSET marked /\ at \in 1 .. size + 1
    BY <1>1 DEF TypeOK
  <2>2. at \in 1 .. size' + 1
    BY <1>1, <1>2, <2>1, RangeGrows
  <2> QED
    BY <2>1, <2>2
<1>4. ASSUME NEW refs \in Operands, Alloc(refs) PROVE Rest
  <2>1. refs \subseteq Things
    BY <1>1 DEF Operands
  <2>2. \E slot \in Things : /\ holds' = [holds EXCEPT ![slot] = refs]
                             /\ roots' = roots \cup {slot}
    BY <1>1, <1>4 DEF Alloc
  <2>3. holds' \in References /\ roots' \in SUBSET Things
    BY <1>1, <2>1, <2>2 DEF References
  <2> QED
    BY <1>3, <1>4, <2>3 DEF Alloc, mark
<1>5. ASSUME NEW refs \in Operands, NEW n \in Nodes, NewNode(n, refs) PROVE Rest
  <2>1. refs \subseteq Things /\ n \in Things
    BY <1>1 DEF Operands
  <2>2. holds' \in References /\ roots' \in SUBSET Things
    BY <1>1, <1>5, <2>1 DEF NewNode, References
  <2> QED
    BY <1>3, <1>5, <2>2 DEF NewNode, mark
<1>6. ASSUME NEW refs \in Operands, NEW c \in Slots, Mutate(c, refs) PROVE Rest
  <2>1. refs \subseteq Things /\ c \in Things
    BY <1>1 DEF Operands
  <2>2. holds' \in References
    BY <1>1, <1>6, <2>1 DEF Mutate, References
  <2> QED
    BY <1>1, <1>3, <1>6, <2>2 DEF Mutate, mark
<1>7. ASSUME NEW x \in Things, Root(x) \/ Unroot(x) PROVE Rest
  BY <1>1, <1>3, <1>7 DEF Root, Unroot, mark
<1>8. ASSUME Collect PROVE Rest
  BY <1>1, <1>3, <1>8 DEF Collect
<1>9. ASSUME NEW x \in Things, Scan(x) PROVE Rest
  <2>1. holds[x] \subseteq Things
    BY <1>1 DEF References
  <2> QED
    BY <1>1, <1>3, <1>9, <2>1 DEF Scan
<1>10. ASSUME StartSweep PROVE Rest
  <2>1. at' = 1 /\ at' \in 1 .. size' + 1
    BY <1>1, <1>2, <1>3, <1>10, RangeGrows DEF StartSweep
  <2> QED
    BY <1>1, <1>3, <1>10, <2>1 DEF StartSweep
<1>11. ASSUME Sweep PROVE Rest
  <2>1. at' \in 1 .. size' + 1
    BY <1>1, <1>2, <1>3, <1>11 DEF Sweep
  <2> QED
    BY <1>1, <1>3, <1>11, <2>1, SweepSparesReachable DEF Sweep
<1>12. ASSUME EndSweep PROVE Rest
  <2>1. pending = {}
    BY <1>12 DEF IInv, Tricolor, EndSweep
  <2>2. at' = 1 /\ at' \in 1 .. size' + 1
    BY <1>1, <1>2, <1>3, <1>12, RangeGrows DEF EndSweep
  <2> QED
    BY <1>1, <1>3, <1>12, <2>1, <2>2 DEF EndSweep
<1>13. ASSUME UNCHANGED vars PROVE Rest
  BY <1>1, <1>3, <1>13 DEF vars, mark
<1>14. Rest
  BY <1>4, <1>5, <1>6, <1>7, <1>8, <1>9, <1>10, <1>11, <1>12, <1>13
     DEF Next, Mutator, Collector
<1> QED
  BY <1>2, <1>14 DEF TypeOK, References

\* Every step keeps what is reachable in the arena.
LEMMA StepHeld ==
  ASSUME IInv, [Next]_vars
  PROVE  NothingFreedIsHeld'
<1>1. /\ holds \in References /\ roots \in SUBSET Things
      /\ live \in SUBSET Slots /\ Slots \subseteq Things
      /\ Reachable \subseteq Existing /\ Existing \in SUBSET Things
      /\ roots \cup live \subseteq Existing /\ roots \subseteq Reachable
      /\ Closed(Existing, holds) /\ Closed(Reachable, holds)
  BY Graphs, Reaches DEF IInv
<1>2. /\ holds' \in References /\ roots' \in SUBSET Things
      /\ live' \in SUBSET Things
  <2>1. TypeOK'
    BY StepType
  <2>2. live' \in SUBSET Slots
    BY <2>1, SlotsAssumption DEF TypeOK, Slots
  <2> QED
    BY <2>1, <2>2 DEF TypeOK, References, Things
<1>3. Reachable' \subseteq Existing'
  BY <1>2, ReachGrows DEF Reachable, Existing, References
<1>4. /\ Reachable \cap Slots \subseteq live
      /\ phase # "sweep" => Existing \cap Slots \subseteq live
  BY DEF IInv, NothingFreedIsHeld
<1>5. ASSUME Existing' \cap Slots \subseteq live' PROVE NothingFreedIsHeld'
  BY <1>3, <1>5 DEF NothingFreedIsHeld
<1>6. ASSUME phase = "run", NEW x \in Things, NEW refs \in Operands,
             holds' = [holds EXCEPT ![x] = refs], roots' \subseteq roots \cup {x},
             live' \subseteq live \cup {x}
      PROVE  Existing' \subseteq Existing \cup {x}
  <2>1. refs \in SUBSET Existing
    BY <1>1 DEF Operands
  <2>2. roots' \cup live' \subseteq Existing \cup {x}
    BY <1>1, <1>6
  <2>3. /\ holds \in [Things -> SUBSET Things] /\ x \in Things
        /\ holds' \in [Things -> SUBSET Things]
        /\ Existing \in SUBSET Things /\ Closed(Existing, holds)
    BY <1>1, <1>2, <1>6 DEF References
  <2>4. holds'[x] \subseteq Existing /\ \A y \in Things \ {x} : holds'[y] = holds[y]
    BY <1>6, <2>1, <2>3
  <2>5. Closed(Existing \cup {x}, holds')
    BY <2>3, <2>4, StoreCloses
  <2>6. Existing \cup {x} \in SUBSET Things
    BY <2>3
  <2>7. ReachableFrom(roots' \cup live', holds') \subseteq Existing \cup {x}
    BY <2>2, <2>3, <2>5, <2>6, ReachIsLeast
  <2> QED
    BY <2>7 DEF Existing
<1>7. ASSUME NEW refs \in Operands, Alloc(refs) PROVE NothingFreedIsHeld'
  <2>1. PICK slot \in Slots : /\ holds' = [holds EXCEPT ![slot] = refs]
                              /\ roots' = roots \cup {slot}
                              /\ live' = live \cup {slot}
    BY <1>7 DEF Alloc
  <2>2. phase = "run" /\ slot \in Things
    BY <1>1, <1>7 DEF Alloc
  <2>3. Existing' \subseteq Existing \cup {slot}
    BY <1>6, <2>1, <2>2
  <2> QED
    BY <1>4, <1>5, <2>1, <2>2, <2>3
<1>8. ASSUME NEW refs \in Operands, NEW n \in Nodes, NewNode(n, refs)
      PROVE  NothingFreedIsHeld'
  <2>1. /\ phase = "run" /\ n \in Things /\ n \notin Slots
        /\ holds' = [holds EXCEPT ![n] = refs]
        /\ roots' = roots \cup {n} /\ live' = live
    BY <1>8, NodesAssumption DEF NewNode, arena, Things
  <2>2. Existing' \subseteq Existing \cup {n}
    BY <1>6, <2>1
  <2> QED
    BY <1>4, <1>5, <2>1, <2>2
<1>9. ASSUME NEW refs \in Operands, NEW c \in Slots, Mutate(c, refs)
      PROVE  NothingFreedIsHeld'
  <2>1. /\ phase = "run" /\ c \in Things /\ c \in Existing
        /\ holds' = [holds EXCEPT ![c] = refs]
        /\ roots' = roots /\ live' = live
    BY <1>1, <1>9 DEF Mutate, arena
  <2>2. Existing' \subseteq Existing \cup {c}
    BY <1>6, <2>1
  <2> QED
    BY <1>4, <1>5, <2>1, <2>2
<1>10. ASSUME NEW x \in Things, Root(x) \/ Unroot(x) PROVE NothingFreedIsHeld'
  <2>1. /\ phase = "run" /\ holds' = holds /\ live' = live
        /\ roots' \cup live' \subseteq Existing
    BY <1>1, <1>10 DEF Root, Unroot, arena
  <2>2. Existing' \subseteq Existing
    BY <1>1, <2>1, ReachIsLeast DEF Existing, References
  <2> QED
    BY <1>4, <1>5, <2>1, <2>2
<1>11. ASSUME UNCHANGED <<holds, roots, live>>
       PROVE  Reachable' = Reachable /\ Existing' = Existing
  BY <1>11 DEF Reachable, Existing
<1>12. CASE Collect
  <2>1. UNCHANGED <<holds, roots, live>> /\ phase # "sweep"
    BY <1>12 DEF Collect, arena
  <2> QED
    BY <1>4, <1>5, <1>11, <2>1
<1>13. ASSUME NEW x \in Things, Scan(x) PROVE NothingFreedIsHeld'
  <2>1. UNCHANGED <<holds, roots, live>> /\ phase # "sweep"
    BY <1>13 DEF Scan, arena
  <2> QED
    BY <1>4, <1>5, <1>11, <2>1
<1>14. CASE StartSweep
  <2>1. UNCHANGED <<holds, roots, live>> /\ phase' = "sweep"
    BY <1>14 DEF StartSweep, arena
  <2> QED
    BY <1>4, <1>11, <2>1 DEF NothingFreedIsHeld
<1>15. CASE Sweep
  <2>1. Reachable' \cap Slots \subseteq live'
    BY <1>15, SweepSparesReachable
  <2>2. phase' = "sweep"
    BY <1>15 DEF Sweep
  <2> QED
    BY <2>1, <2>2 DEF NothingFreedIsHeld
<1>16. CASE EndSweep
  <2>1. UNCHANGED <<holds, roots, live>>
    BY <1>16 DEF EndSweep, arena
  <2>2. live \subseteq Reachable
    <3>1. live \subseteq 1 .. size /\ at > size /\ at \in 1 .. size + 1 /\ size \in Nat
      BY <1>16, Graphs DEF IInv, TypeOK, EndSweep
    <3>2. \A c \in live : c < at
      BY <3>1
    <3>3. marked = Reachable /\ \A c \in live : c < at => c \in marked
      BY <1>16 DEF IInv, Tricolor, EndSweep
    <3> QED
      BY <3>2, <3>3
  <2>3. Existing \subseteq Reachable
    BY <1>1, <2>2, ReachIsLeast DEF Existing, References
  <2> QED
    BY <1>4, <1>5, <1>11, <2>1, <2>3
<1>17. CASE UNCHANGED vars
  <2>1. UNCHANGED <<holds, roots, live, phase>>
    BY <1>17 DEF vars, arena
  <2> QED
    BY <1>4, <1>11, <2>1 DEF NothingFreedIsHeld
<1> QED
  BY <1>7, <1>8, <1>9, <1>10, <1>12, <1>13, <1>14, <1>15, <1>16, <1>17
     DEF Next, Mutator, Collector

\* Every step keeps what the collection has marked and swept so far right.
LEMMA StepTricolor ==
  ASSUME IInv, [Next]_vars
  PROVE  Tricolor'
<1>1. /\ Reachable \in SUBSET Things /\ roots \subseteq Reachable
      /\ holds \in References /\ Closed(Reachable, holds)
      /\ pending \subseteq marked /\ marked \in SUBSET Things
  BY Graphs, Reaches DEF IInv, TypeOK
<1>2. Tricolor
  BY DEF IInv
<1>3. ASSUME UNCHANGED <<roots, holds>> PROVE Reachable' = Reachable
  BY <1>3 DEF Reachable
<1>4. CASE Mutator
  <2>1. phase = "run" /\ UNCHANGED <<phase, marked, at>>
    BY <1>4 DEF Mutator, Alloc, NewNode, Mutate, Root, Unroot, mark
  <2> QED
    BY <1>2, <2>1 DEF Tricolor
<1>5. CASE Collect
  <2>1. /\ phase' = "mark" /\ marked' = roots /\ pending' = roots
        /\ UNCHANGED <<roots, holds>>
    BY <1>5 DEF Collect
  <2> QED
    BY <1>1, <1>3, <2>1 DEF Tricolor
<1>6. ASSUME NEW x \in Things, Scan(x) PROVE Tricolor'
  <2> DEFINE found == holds[x] \ marked
  <2>1. /\ phase = "mark" /\ x \in pending /\ UNCHANGED <<roots, holds, phase>>
        /\ marked' = marked \cup found /\ pending' = (pending \ {x}) \cup found
    BY <1>6 DEF Scan
  <2>2. /\ roots \subseteq marked /\ marked \subseteq Reachable
        /\ \A y \in marked \ pending : holds[y] \subseteq marked
    BY <1>2, <2>1 DEF Tricolor
  <2>3. found \subseteq Reachable
    BY <1>1, <2>1, <2>2 DEF Closed
  <2>4. \A y \in marked' \ pending' : holds[y] \subseteq marked'
    BY <2>1, <2>2
  <2> HIDE DEF found
  <2> QED
    BY <1>3, <2>1, <2>2, <2>3, <2>4 DEF Tricolor
<1>7. CASE StartSweep
  <2>1. /\ phase = "mark" /\ phase' = "sweep" /\ at' = 1
        /\ pending = {} /\ UNCHANGED <<live, roots, holds, marked, pending>>
    BY <1>7 DEF StartSweep, arena
  <2>2. roots \subseteq marked /\ marked \subseteq Reachable /\ Closed(marked, holds)
    BY <1>2, <2>1 DEF Tricolor, Closed
  <2>3. marked = Reachable
    BY <1>1, <2>2, ReachIsLeast DEF Reachable, References
  <2>4. \A c \in live : ~(c < 1)
    BY Graphs DEF IInv, TypeOK
  <2> QED
    BY <1>3, <2>1, <2>3, <2>4 DEF Tricolor
<1>8. CASE Sweep
  <2>1. /\ phase = "sweep" /\ UNCHANGED <<phase, marked, pending>>
        /\ at' = at + 1 /\ at \in Nat
        /\ live' = IF at \notin marked /\ at \in live THEN live \ {at} ELSE live
    BY <1>8, Graphs DEF Sweep, IInv, TypeOK
  <2>2. /\ pending = {} /\ marked = Reachable
        /\ \A c \in live : c < at => c \in marked
    BY <1>2, <2>1 DEF Tricolor
  <2>3. live \subseteq Nat
    BY Graphs DEF IInv, TypeOK
  <2>4. \A c \in live' : c < at + 1 => c \in marked
    BY <2>1, <2>2, <2>3
  <2>5. Reachable' = Reachable
    BY <1>8, SweepSparesReachable
  <2> QED
    BY <2>1, <2>2, <2>4, <2>5 DEF Tricolor
<1>9. CASE EndSweep
  BY <1>9 DEF EndSweep, Tricolor
<1>10. CASE UNCHANGED vars
  <2>1. UNCHANGED <<live, holds, roots, phase, marked, pending, at>>
    BY <1>10 DEF vars, arena, mark
  <2> QED
    BY <1>2, <1>3, <2>1 DEF Tricolor
<1> QED
  BY <1>4, <1>5, <1>6, <1>7, <1>8, <1>9, <1>10 DEF Next, Collector

-----------------------------------------------------------------------------
(* The theorems.                                                             *)

\* An empty heap satisfies the invariant.
LEMMA Initially ==
  ASSUME Init
  PROVE  IInv
<1>1. TypeOK
  BY SlotsAssumption, EmptySeq DEF Init, TypeOK
<1>2. FreeListExact /\ ArenaIsHighWater
  BY DEF Init, FreeListExact, ArenaIsHighWater, IsInjective, ToSet
<1>3. Tricolor
  BY DEF Init, Tricolor
<1>4. Existing \cap Slots \subseteq live /\ Reachable \cap Slots \subseteq live
  <2>1. holds \in [Things -> SUBSET Things] /\ Closed({}, holds)
    BY DEF Init, Closed
  <2>2. ReachableFrom({}, holds) \subseteq {}
    BY <2>1, ReachIsLeast
  <2>3. roots = {} /\ roots \cup live = {}
    BY DEF Init
  <2> QED
    BY <2>2, <2>3 DEF Existing, Reachable
<1> QED
  BY <1>1, <1>2, <1>3, <1>4 DEF IInv, NothingFreedIsHeld

\* The tricolor invariant and what it rests on hold in every state, whatever
\* the program stores between collections and whatever order the work list is
\* emptied in.
THEOREM Invariance == Spec => []IInv
<1>1. IInv /\ [Next]_vars => IInv'
  BY StepFreeList, StepHighWater, StepType, StepHeld, StepTricolor DEF IInv
<1> QED
  BY Initially, <1>1, PTL DEF Spec

\* Every variable keeps its type: the work list holds marked things only, and
\* the free list slots of the arena only.
THEOREM TypeCorrect == Spec => []TypeOK
<1>1. IInv => TypeOK
  BY DEF IInv
<1> QED
  BY <1>1, Invariance, PTL

\* No reachable cell is freed, at any step of any collection, and no surviving
\* cell refers to a hole (scan_cell's "live values never reference a swept
\* cell").
THEOREM NoDanglingHolds == Spec => []NoDangling
<1>1. ASSUME IInv PROVE NoDangling
  <2>1. pending \subseteq Reachable
    <3>1. pending \subseteq marked /\ phase \in {"run", "mark", "sweep"}
      BY <1>1 DEF IInv, TypeOK
    <3> QED
      BY <1>1, <3>1 DEF IInv, Tricolor
  <2> QED
    BY <1>1, <2>1 DEF IInv, NothingFreedIsHeld, NoDangling
<1> QED
  BY <1>1, Invariance, PTL

\* Every hole of the arena is on the free list exactly once, and nothing else.
THEOREM FreeListExactHolds == Spec => []FreeListExact
<1>1. IInv => FreeListExact
  BY DEF IInv
<1> QED
  BY <1>1, Invariance, PTL

\* The arena never grows while it has a hole: arena_slots is the largest number
\* of cells that were live at once.
THEOREM ArenaIsHighWaterHolds == Spec => []ArenaIsHighWater
<1>1. IInv => ArenaIsHighWater
  BY DEF IInv
<1> QED
  BY <1>1, Invariance, PTL

\* A collection ends with the reachable cells and no others, cycles included.
THEOREM CollectionIsPreciseHolds == Spec => CollectionIsPrecise
<1>1. ASSUME IInv, [Next]_vars, phase = "sweep", phase' = "run"
      PROVE  live' = Reachable' \cap Slots
  <2>1. EndSweep
    BY <1>1 DEF Next, Mutator, Collector, Alloc, NewNode, Mutate, Root, Unroot,
                Collect, Scan, StartSweep, Sweep, vars
  <2>2. UNCHANGED <<holds, roots, live>>
    BY <2>1 DEF EndSweep, arena
  <2>3. Reachable' = Reachable /\ live' = live
    BY <2>2 DEF Reachable
  <2>4. Reachable \cap Slots \subseteq live /\ live \in SUBSET Slots
    BY <1>1, Graphs DEF IInv, NothingFreedIsHeld
  <2>5. live \subseteq Reachable
    <3>1. live \subseteq 1 .. size /\ at > size /\ at \in 1 .. size + 1 /\ size \in Nat
      BY <1>1, <2>1, Graphs DEF IInv, TypeOK, EndSweep
    <3>2. \A c \in live : c < at
      BY <3>1
    <3>3. marked = Reachable /\ \A c \in live : c < at => c \in marked
      BY <1>1 DEF IInv, Tricolor
    <3> QED
      BY <3>2, <3>3
  <2> QED
    BY <2>3, <2>4, <2>5
<1>2. IInv /\ [Next]_vars
        => [phase = "sweep" /\ phase' = "run" => live' = Reachable' \cap Slots]_vars
  BY <1>1
<1> QED
  BY <1>2, Invariance, PTL DEF Spec, CollectionIsPrecise

-----------------------------------------------------------------------------
(* The heap implements the object graph.                                     *)

\* The abstract heap reaches what the detailed one does.
LEMMA SameReachability ==
  ASSUME NEW R, NEW h
  PROVE  /\ Graph!ReachableFrom(R, h) = ReachableFrom(R, h)
         /\ Graph!Kept(R, h) = Kept(R, h)
<1>1. Graph!ReachableFrom(R, h) = ReachableFrom(R, h)
  BY DEF Graph!ReachableFrom, ReachableFrom, Graph!Closed, Closed
<1> QED
  BY <1>1 DEF Graph!Kept, Kept

\* What the graph can reach is what the heap can.
LEMMA GraphReaches ==
  ASSUME TypeOK
  PROVE  /\ Graph!Reach = Reachable
         /\ Kept(roots, holds) \in References
         /\ \A x \in Reachable : Kept(roots, holds)[x] = holds[x]
<1>1. holds \in [Things -> SUBSET Things] /\ roots \in SUBSET Things
  BY Graphs DEF References
<1>2. Graph!Reach = ReachableFrom(roots, Kept(roots, holds))
  BY SameReachability DEF Graph!Reach
<1> QED
  BY <1>1, <1>2, KeptReaches DEF Reachable, References

\* A store into one thing, and a change of the roots by that thing only, is the
\* same store into the graph.
LEMMA StoreMaps ==
  ASSUME TypeOK, TypeOK', NEW x \in Things, NEW refs \in SUBSET Reachable,
         roots' \subseteq roots \cup {x}
  PROVE  holds' = [holds EXCEPT ![x] = refs] =>
           Kept(roots', holds') = Kept(roots', [Kept(roots, holds) EXCEPT ![x] = refs])
<1> DEFINE E == [Kept(roots, holds) EXCEPT ![x] = refs]
<1>1. /\ Reachable \in SUBSET Things /\ roots \subseteq Reachable
      /\ Closed(Reachable, holds) /\ holds \in References
      /\ holds' \in [Things -> SUBSET Things]
      /\ Kept(roots, holds) \in References
      /\ \A y \in Reachable : Kept(roots, holds)[y] = holds[y]
  BY Reaches, Graphs, GraphReaches DEF TypeOK, References
<1>2. Reachable \cup {x} \in SUBSET Things /\ roots' \subseteq Reachable \cup {x}
  BY <1>1
<1>3. /\ E \in [Things -> SUBSET Things] /\ E[x] = refs
      /\ \A y \in Reachable \ {x} : E[y] = holds[y]
  BY <1>1 DEF References
<1> HIDE DEF E
<1>4. ASSUME holds' = [holds EXCEPT ![x] = refs]
      PROVE  holds'[x] = refs /\ \A y \in Things \ {x} : holds'[y] = holds[y]
  BY <1>1, <1>4 DEF References
<1>5. ASSUME holds'[x] = refs, \A y \in Things \ {x} : holds'[y] = holds[y]
      PROVE  Kept(roots', holds') = Kept(roots', E)
  <2>1. Closed(Reachable \cup {x}, holds')
    BY <1>1, <1>5, StoreCloses
  <2>2. \A y \in Reachable \cup {x} : holds'[y] = E[y]
    BY <1>1, <1>3, <1>5
  <2> QED
    BY <1>1, <1>2, <1>3, <2>1, <2>2, ReachAgrees
<1> QED
  BY <1>4, <1>5 DEF E

\* Every step is one of the abstract heap, or none.
LEMMA StepMaps ==
  ASSUME IInv, [Next]_vars
  PROVE  [Graph!Next]_(Graph!vars)
<1>1. /\ TypeOK /\ TypeOK' /\ Slots \subseteq Things
      /\ Graph!Reach = Reachable /\ Reachable \in SUBSET Things
      /\ Reachable \subseteq Existing
      /\ Reachable \cap Slots \subseteq live
  BY StepType, Graphs, Reaches, GraphReaches DEF IInv, NothingFreedIsHeld
<1>2. ASSUME UNCHANGED <<roots, holds>> PROVE UNCHANGED Graph!vars
  BY <1>2 DEF Graph!vars
<1>3. ASSUME NEW refs \in Operands, Alloc(refs) PROVE Graph!Next
  <2>1. PICK slot \in Slots :
          /\ slot = IF free # <<>> THEN Last(free) ELSE size + 1
          /\ holds' = [holds EXCEPT ![slot] = refs]
          /\ roots' = roots \cup {slot}
    BY <1>3 DEF Alloc
  <2>2. slot \notin Reachable
    <3>1. /\ size \in Nat /\ live \subseteq 1 .. size /\ free \in Seq(1 .. size)
          /\ IsInjective(free) /\ ToSet(free) = (1 .. size) \ live
      BY Graphs DEF IInv, TypeOK, FreeListExact
    <3>2. CASE free = <<>>
      <4>1. size + 1 \notin live
        BY <3>1
      <4> QED
        BY <1>1, <2>1, <3>2, <4>1
    <3>3. CASE free # <<>>
      <4>1. Last(free) \notin live
        BY <3>1, <3>3, FreePops
      <4> QED
        BY <1>1, <2>1, <3>3, <4>1
    <3> QED
      BY <3>2, <3>3
  <2>3. refs \in SUBSET Reachable /\ slot \in Things
    BY <1>1 DEF Operands
  <2>4. Kept(roots', holds') = Kept(roots', [Kept(roots, holds) EXCEPT ![slot] = refs])
    BY <1>1, <2>1, <2>3, StoreMaps
  <2>5. Graph!New(slot, refs)
    BY <1>1, <2>1, <2>2, <2>4, SameReachability DEF Graph!New, Graph!Becomes
  <2> QED
    BY <1>1, <2>3, <2>5 DEF Graph!Next
<1>4. ASSUME NEW refs \in Operands, NEW n \in Nodes, NewNode(n, refs)
      PROVE  Graph!Next
  <2>1. /\ n \notin Reachable /\ n \in Things /\ refs \in SUBSET Reachable
        /\ holds' = [holds EXCEPT ![n] = refs] /\ roots' = roots \cup {n}
    BY <1>1, <1>4 DEF NewNode, Operands, Things
  <2>2. Kept(roots', holds') = Kept(roots', [Kept(roots, holds) EXCEPT ![n] = refs])
    BY <1>1, <2>1, StoreMaps
  <2>3. Graph!New(n, refs)
    BY <1>1, <2>1, <2>2, SameReachability DEF Graph!New, Graph!Becomes
  <2> QED
    BY <1>1, <2>1, <2>3 DEF Graph!Next
<1>5. ASSUME NEW refs \in Operands, NEW c \in Slots, Mutate(c, refs)
      PROVE  Graph!Next
  <2>1. /\ c \in Reachable \ Nodes /\ c \in Things /\ refs \in SUBSET Reachable
        /\ holds' = [holds EXCEPT ![c] = refs] /\ roots' = roots
    BY <1>1, <1>5, NodesAssumption DEF Mutate, Operands
  <2>2. Kept(roots', holds') = Kept(roots', [Kept(roots, holds) EXCEPT ![c] = refs])
    BY <1>1, <2>1, StoreMaps
  <2>3. Graph!Mutate(c, refs)
    BY <1>1, <2>1, <2>2, SameReachability DEF Graph!Mutate, Graph!Becomes
  <2> QED
    BY <1>1, <2>1, <2>3 DEF Graph!Next
<1>6. ASSUME NEW x \in Things, Root(x) \/ Unroot(x) PROVE Graph!Next
  <2>1. holds' = holds /\ roots' \subseteq Reachable
    BY <1>1, <1>6, Reaches DEF Root, Unroot
  <2>2. Kept(roots', holds) = Kept(roots', Kept(roots, holds))
    <3>1. /\ holds \in [Things -> SUBSET Things]
          /\ Kept(roots, holds) \in [Things -> SUBSET Things]
          /\ Closed(Reachable, holds)
          /\ \A y \in Reachable : holds[y] = Kept(roots, holds)[y]
      BY <1>1, Graphs, Reaches, GraphReaches DEF References
    <3> QED
      BY <1>1, <2>1, <3>1, ReachAgrees
  <2>3. Graph!Hold(x) \/ Graph!Release(x)
    BY <1>1, <1>6, <2>1, <2>2, SameReachability
       DEF Root, Unroot, Graph!Hold, Graph!Release, Graph!Becomes
  <2> QED
    BY <2>3 DEF Graph!Next
<1>7. CASE Sweep
  <2>1. roots' = roots /\ Kept(roots', holds') = Kept(roots, holds)
    BY <1>7, SweepSparesReachable DEF Sweep
  <2> QED
    BY <2>1 DEF Graph!vars
<1>8. CASE Collect \/ StartSweep \/ EndSweep
  BY <1>2, <1>8 DEF Collect, StartSweep, EndSweep
<1>9. ASSUME NEW x \in Things, Scan(x) PROVE UNCHANGED Graph!vars
  BY <1>2, <1>9 DEF Scan
<1>10. CASE UNCHANGED vars
  BY <1>2, <1>10 DEF vars
<1> QED
  BY <1>3, <1>4, <1>5, <1>6, <1>7, <1>8, <1>9, <1>10 DEF Next, Mutator, Collector

\* Seen by the program there is no collector: reused slots, cycles and garbage
\* included, every step is one of an unbounded object graph or invisible in it.
THEOREM Refinement == Spec => GraphSpec
<1>1. Init => Graph!Init
  <2> SUFFICES ASSUME Init PROVE Graph!Init
    OBVIOUS
  <2>1. roots = {} /\ holds = [x \in Things |-> {}]
    BY DEF Init
  <2>2. Kept(roots, holds) = [x \in Things |-> {}]
    BY <2>1 DEF Kept
  <2> QED
    BY <2>1, <2>2 DEF Graph!Init
<1>2. IInv /\ [Next]_vars => [Graph!Next]_(Graph!vars)
  BY StepMaps
<1> QED
  BY <1>1, <1>2, Invariance, PTL DEF Spec, GraphSpec, Graph!Spec
=============================================================================

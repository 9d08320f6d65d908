-------------------------------- MODULE Heap --------------------------------
(***************************************************************************)
(* The mark-and-sweep arena of the VM (brasa_vm/heap.rs).                  *)
(*                                                                         *)
(* A thing is an arena slot, whose cell can change after it was created,   *)
(* or a shared node (tuple, enum payload, closure, ...), frozen at         *)
(* construction and reference-counted; the collector walks through nodes   *)
(* to reach the cells they refer to.  A value without references (a number,*)
(* a string) is no thing.  The program ("mutator") moves values it can     *)
(* reach; a collection runs between two of its steps, one work-list entry  *)
(* and one swept slot at a time.                                           *)
(***************************************************************************)
EXTENDS Integers, Sequences, FiniteSets, SequencesExt, Reachability

CONSTANTS
  MaxSlots,   \* bound: how far the arena grows
  Nodes,      \* identities (addresses) of shared nodes
  Opaque,     \* the nodes retention_path does not look through
  MaxRefs     \* bound: how many references a thing holds

Slots == 1 .. MaxSlots
Things == Slots \cup Nodes

ASSUME SlotsAssumption == MaxSlots \in Nat
ASSUME NodesAssumption == Nodes \cap Slots = {} /\ Opaque \subseteq Nodes

VARIABLES
  size,       \* cells.len()
  live,       \* the slots whose cell is not Free
  free,       \* Heap.free, used as a stack
  holds,      \* the references of every thing
  roots,      \* what the root set of a safepoint holds
  phase,      \* between instructions, marking, or sweeping
  marked,     \* MarkState.marked and visited, empty outside a collection
  pending,    \* MarkState.pending
  at,         \* the next slot to sweep
  peak        \* history: the most cells that were live at once

arena == <<size, live, free>>
mark == <<marked, pending, at>>
vars == <<arena, holds, roots, phase, mark, peak>>

TypeOK ==
  /\ size \in 0 .. MaxSlots
  /\ live \in SUBSET (1 .. size)
  /\ free \in Seq(1 .. size)
  /\ holds \in [Things -> SUBSET Things]
  /\ roots \in SUBSET Things
  /\ phase \in {"run", "mark", "sweep"}
  /\ marked \in SUBSET Things
  /\ pending \in SUBSET marked
  /\ at \in 1 .. size + 1
  /\ peak \in 0 .. MaxSlots

Init ==
  /\ size = 0 /\ live = {} /\ free = <<>>
  /\ holds = [x \in Things |-> {}]
  /\ roots = {}
  /\ phase = "run"
  /\ marked = {} /\ pending = {} /\ at = 1
  /\ peak = 0

Reachable == ReachableFrom(roots, holds)

\* What still exists: a node lives as long as somebody refers to it, and a
\* cell, with what it holds, until it is swept.
Existing == ReachableFrom(roots \cup live, holds)

\* References an instruction may store: to values the program has.
Operands == {refs \in SUBSET Reachable : Cardinality(refs) =< MaxRefs}

-----------------------------------------------------------------------------
(* The program.                                                              *)

\* Faulty variant: the slot stays on the free list.
Alloc_KeepsEntry(refs) ==
  LET reuse == free # <<>>
      slot == IF reuse THEN Last(free) ELSE size + 1
  IN  /\ phase = "run"
      /\ slot \in Slots
      /\ size' = IF reuse THEN size ELSE slot
      /\ live' = live \cup {slot}
      /\ holds' = [holds EXCEPT ![slot] = refs]
      /\ roots' = roots \cup {slot}
      /\ peak' = IF Cardinality(live') > peak THEN Cardinality(live') ELSE peak
      /\ UNCHANGED <<free, phase, mark>>

\* alloc: the last free slot, or a new one at the end; the handle is pushed
\* where the program can reach it.
Alloc(refs) ==
  LET reuse == free # <<>>
      slot == IF reuse THEN Last(free) ELSE size + 1
  IN  /\ phase = "run"
      /\ slot \in Slots
      /\ size' = IF reuse THEN size ELSE slot
      /\ free' = IF reuse THEN Front(free) ELSE free
      /\ live' = live \cup {slot}
      /\ holds' = [holds EXCEPT ![slot] = refs]
      /\ roots' = roots \cup {slot}
      /\ peak' = IF Cardinality(live') > peak THEN Cardinality(live') ELSE peak
      /\ UNCHANGED <<phase, mark>>

\* A shared node: frozen here, at an address nothing existing has.
NewNode(n, refs) ==
  /\ phase = "run"
  /\ n \notin Existing
  /\ holds' = [holds EXCEPT ![n] = refs]
  /\ roots' = roots \cup {n}
  /\ UNCHANGED <<arena, phase, mark, peak>>

\* A cell changes: edit_vector, edit_map, edit_set, edit_scope, a field or
\* index assignment, a rebound name, a task's state.
Mutate(c, refs) ==
  /\ phase = "run"
  /\ c \in Reachable
  /\ holds' = [holds EXCEPT ![c] = refs]
  /\ UNCHANGED <<arena, roots, phase, mark, peak>>

\* A root slot gains a value the program can reach, or loses one.
Root(x) ==
  /\ phase = "run"
  /\ x \in Reachable
  /\ roots' = roots \cup {x}
  /\ UNCHANGED <<arena, holds, phase, mark, peak>>

Unroot(x) ==
  /\ phase = "run"
  /\ x \in roots
  /\ roots' = roots \ {x}
  /\ UNCHANGED <<arena, holds, phase, mark, peak>>

-----------------------------------------------------------------------------
(* collect.                                                                  *)

\* The roots are visited.  When it runs is a matter of the byte budget, which
\* is left open here: a collection may start between any two steps.
Collect ==
  /\ phase = "run"
  /\ phase' = "mark"
  /\ marked' = roots /\ pending' = roots
  /\ UNCHANGED <<arena, holds, roots, at, peak>>

\* Faulty variants: a thing is marked when it is scanned, not when it is found;
\* nodes are not walked through; what was reached before is enqueued again.
Scan_MarksLate(x) ==
  /\ phase = "mark"
  /\ x \in pending
  /\ marked' = marked \cup {x}
  /\ pending' = (pending \ {x}) \cup (holds[x] \ marked)
  /\ UNCHANGED <<arena, holds, roots, phase, at, peak>>

Scan_StopsAtNodes(x) ==
  LET found == IF x \in Slots THEN holds[x] \ marked ELSE {}
  IN  /\ phase = "mark"
      /\ x \in pending
      /\ marked' = marked \cup found
      /\ pending' = (pending \ {x}) \cup found
      /\ UNCHANGED <<arena, holds, roots, phase, at, peak>>

Scan_EnqueuesAgain(x) ==
  /\ phase = "mark"
  /\ x \in pending
  /\ marked' = marked \cup holds[x]
  /\ pending' = (pending \ {x}) \cup holds[x]
  /\ UNCHANGED <<arena, holds, roots, phase, at, peak>>

\* scan_cell and scan_shared: visit everything the entry refers to.  The order
\* in which the work list is emptied is left open.
Scan(x) ==
  LET found == holds[x] \ marked
  IN  /\ phase = "mark"
      /\ x \in pending
      /\ marked' = marked \cup found
      /\ pending' = (pending \ {x}) \cup found
      /\ UNCHANGED <<arena, holds, roots, phase, at, peak>>

StartSweep ==
  /\ phase = "mark"
  /\ pending = {}
  /\ phase' = "sweep"
  /\ at' = 1
  /\ UNCHANGED <<arena, holds, roots, marked, pending, peak>>

\* Faulty variants: holes go to the free list again; a mark is looked up one
\* slot off.
Sweep_PushesHoles ==
  /\ phase = "sweep"
  /\ at =< size
  /\ at' = at + 1
  /\ IF at \in marked
     THEN UNCHANGED <<live, free, holds>>
     ELSE /\ live' = live \ {at}
          /\ free' = Append(free, at)
          /\ holds' = [holds EXCEPT ![at] = {}]
  /\ UNCHANGED <<size, roots, phase, marked, pending, peak>>

Sweep_OffByOne ==
  /\ phase = "sweep"
  /\ at =< size
  /\ at' = at + 1
  /\ IF at + 1 \notin marked /\ at \in live
     THEN /\ live' = live \ {at}
          /\ free' = Append(free, at)
          /\ holds' = [holds EXCEPT ![at] = {}]
     ELSE UNCHANGED <<live, free, holds>>
  /\ UNCHANGED <<size, roots, phase, marked, pending, peak>>

\* One slot of the sweep: an unmarked cell becomes Free and reusable.
Sweep ==
  /\ phase = "sweep"
  /\ at =< size
  /\ at' = at + 1
  /\ IF at \notin marked /\ at \in live
     THEN /\ live' = live \ {at}
          /\ free' = Append(free, at)
          /\ holds' = [holds EXCEPT ![at] = {}]
     ELSE UNCHANGED <<live, free, holds>>
  /\ UNCHANGED <<size, roots, phase, marked, pending, peak>>

\* The end of collect.  MarkState.begin clears the marks before the next one
\* looks at them; they are dropped here, where they are last read.
EndSweep ==
  /\ phase = "sweep"
  /\ at > size
  /\ phase' = "run"
  /\ marked' = {} /\ at' = 1
  /\ UNCHANGED <<arena, holds, roots, pending, peak>>

-----------------------------------------------------------------------------
Mutator ==
  \/ \E refs \in Operands :
       \/ Alloc(refs)
       \/ \E n \in Nodes : NewNode(n, refs)
       \/ \E c \in Slots : Mutate(c, refs)
  \/ \E x \in Things : Root(x) \/ Unroot(x)

Collector ==
  \/ \E x \in Things : Scan(x)
  \/ StartSweep \/ Sweep \/ EndSweep

Next == Mutator \/ Collect \/ Collector

Spec == Init /\ [][Next]_vars

\* collect runs to its end once it has started.
FairSpec == Spec /\ WF_vars(Collector)

-----------------------------------------------------------------------------
(* What the heap promises.                                                   *)

\* Nothing the program can reach has been freed, at any point of a collection
\* ("live values never reference a swept cell", scan_cell), and outside one no
\* surviving cell, garbage included, refers to a hole.
NoDangling ==
  /\ Reachable \cap Slots \subseteq live
  /\ pending \cap Slots \subseteq live
  /\ phase # "sweep" => Existing \cap Slots \subseteq live

\* Every hole is on the free list exactly once, and nothing else is.
FreeListExact ==
  /\ IsInjective(free)
  /\ ToSet(free) = (1 .. size) \ live

\* "exactly the high-water mark of simultaneously live objects" (arena_slots).
ArenaIsHighWater == size = peak

\* A collection keeps what is reachable and nothing else ("on those Rc alone is
\* a precise collector"; the test unreachable_cycle_is_collected).
CollectionIsPrecise ==
  [][phase = "sweep" /\ phase' = "run" => live' = Reachable' \cap Slots]_vars

\* The work list runs dry although references form cycles (visit), and the
\* sweep ends.
CollectionEnds == phase # "run" ~> phase = "run"

\* Seen by the program there is no collector: see ObjectGraph.
Graph == INSTANCE ObjectGraph WITH
  Frozen <- Nodes,
  edges  <- Kept(roots, holds)

GraphSpec == Graph!Spec

\* "The chain of arena cells from a root to target, if one keeps it alive"
\* (retention_path): the walk of cells_of finds every cell that is kept alive.
Walked ==
  ReachableFrom(roots, [x \in Things |-> IF x \in Opaque THEN {} ELSE holds[x]])

EveryLiveCellHasAChain == phase = "run" => Reachable \cap Slots \subseteq Walked
=============================================================================

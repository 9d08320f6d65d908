----------------------------- MODULE HeapBudget -----------------------------
(***************************************************************************)
(* When the VM's heap collects: the byte accounting of brasa_vm/heap.rs.   *)
(*                                                                         *)
(* Every allocation and every change of a container's length is charged as *)
(* it happens; at a safepoint, between two instructions, the charges decide*)
(* whether to collect.  Which cells survive is the concern of Heap; here   *)
(* any subset may.                                                         *)
(***************************************************************************)
EXTENDS Integers, FiniteSets

CONSTANTS
  Cells,              \* arena slots
  MaxLen,             \* bound: value slots of one container
  MaxRoots,           \* bound: how many values a safepoint's roots hold
  MaxPressure,        \* bound: bytes allocated between two collections
  CELL_BYTES, SLOT_BYTES, GROWTH_FACTOR, MARK_AMORTIZATION,
  floor_bytes         \* Heap.floor_bytes: the configured initial budget

ASSUME CellsAssumption == IsFiniteSet(Cells)
ASSUME BoundsAssumption == MaxLen \in Nat /\ MaxRoots \in Nat /\ MaxPressure \in Nat
ASSUME BytesAssumption == CELL_BYTES \in Nat /\ SLOT_BYTES \in Nat /\ floor_bytes \in Nat
ASSUME FactorsAssumption == GROWTH_FACTOR = 2 /\ MARK_AMORTIZATION \in Nat \ {0}

VARIABLES
  len,                     \* value slots of each cell, Free for a hole
  threshold_bytes, live_bytes, since_collection_bytes, mark_floor_bytes,
  safepoint,               \* the budget was looked at and nothing ran since
  retained, rooted         \* history: bytes that survived the last collection,
                           \* and the bytes of its roots

budget == <<threshold_bytes, live_bytes, since_collection_bytes, mark_floor_bytes>>
last == <<retained, rooted>>
vars == <<len, budget, safepoint, last>>

Free == -1
Greater(a, b) == IF a > b THEN a ELSE b
Lesser(a, b) == IF a < b THEN a ELSE b

\* cell_bytes
CellBytes(l) == IF l = Free THEN 0 ELSE CELL_BYTES + l * SLOT_BYTES

\* collect's recount, the sum of cell_bytes over the arena: so many cells, and so
\* many value slots in them.
Taken(lens) == {c \in Cells : lens[c] # Free}
ValueSlots(lens) == {p \in Cells \X (1 .. MaxLen) : p[2] =< lens[p[1]]}
TotalBytes(lens) ==
  Cardinality(Taken(lens)) * CELL_BYTES + Cardinality(ValueSlots(lens)) * SLOT_BYTES

TypeOK ==
  /\ len \in [Cells -> {Free} \cup (0 .. MaxLen)]
  /\ threshold_bytes \in Nat /\ live_bytes \in Nat
  /\ since_collection_bytes \in Nat /\ mark_floor_bytes \in Nat
  /\ safepoint \in BOOLEAN
  /\ retained \in Nat /\ rooted \in Nat

Init ==
  /\ len = [c \in Cells |-> Free]
  /\ threshold_bytes = floor_bytes /\ mark_floor_bytes = floor_bytes
  /\ live_bytes = 0 /\ since_collection_bytes = 0
  /\ safepoint = FALSE
  /\ retained = 0 /\ rooted = 0

-----------------------------------------------------------------------------
(* What instructions do.                                                     *)

\* charge
Charge(bytes) ==
  /\ since_collection_bytes + bytes =< MaxPressure
  /\ live_bytes' = live_bytes + bytes
  /\ since_collection_bytes' = since_collection_bytes + bytes
  /\ UNCHANGED <<threshold_bytes, mark_floor_bytes>>

Alloc(c, l) ==
  /\ len[c] = Free
  /\ len' = [len EXCEPT ![c] = l]
  /\ Charge(CellBytes(l))
  /\ safepoint' = FALSE
  /\ UNCHANGED last

\* edit_vector and its siblings, with recharge: growth is charged, shrinking
\* releases live bytes only (saturating_sub).
Edit(c, l) ==
  /\ len[c] # Free
  /\ len' = [len EXCEPT ![c] = l]
  /\ IF l >= len[c]
     THEN Charge((l - len[c]) * SLOT_BYTES)
     ELSE /\ live_bytes' = Greater(live_bytes - (len[c] - l) * SLOT_BYTES, 0)
          /\ UNCHANGED <<threshold_bytes, since_collection_bytes, mark_floor_bytes>>
  /\ safepoint' = FALSE
  /\ UNCHANGED last

\* relax_mark_floor, when a native traversal has unrooted its values.
RelaxMarkFloor ==
  /\ mark_floor_bytes' =
       Lesser(mark_floor_bytes, Greater(live_bytes \div MARK_AMORTIZATION, floor_bytes))
  /\ safepoint' = FALSE
  /\ UNCHANGED <<len, threshold_bytes, live_bytes, since_collection_bytes, last>>

-----------------------------------------------------------------------------
(* A safepoint (Vm::execute).                                                *)

ShouldCollect ==
  live_bytes >= threshold_bytes /\ since_collection_bytes >= mark_floor_bytes

\* Faulty variant: the budget follows what was live before the sweep.
Collected_FromStaleTotal(survivors, root_bytes) ==
  LET swept == [c \in Cells |-> IF c \in survivors THEN len[c] ELSE Free]
      kept == TotalBytes(swept)
  IN  /\ len' = swept
      /\ live_bytes' = kept
      /\ threshold_bytes' = Greater(live_bytes * GROWTH_FACTOR, floor_bytes)
      /\ since_collection_bytes' = 0
      /\ mark_floor_bytes' =
           Greater((root_bytes + live_bytes) \div MARK_AMORTIZATION, floor_bytes)
      /\ retained' = kept /\ rooted' = root_bytes

\* collect's accounting: the survivors are measured anew and set the budgets.
Collected(survivors, root_bytes) ==
  LET swept == [c \in Cells |-> IF c \in survivors THEN len[c] ELSE Free]
      kept == TotalBytes(swept)
  IN  /\ len' = swept
      /\ live_bytes' = kept
      /\ threshold_bytes' = Greater(kept * GROWTH_FACTOR, floor_bytes)
      /\ since_collection_bytes' = 0
      /\ mark_floor_bytes' =
           Greater((root_bytes + kept) \div MARK_AMORTIZATION, floor_bytes)
      /\ retained' = kept /\ rooted' = root_bytes

Safepoint ==
  /\ ~safepoint
  /\ safepoint' = TRUE
  /\ IF ShouldCollect
     THEN \E survivors \in SUBSET Cells, n \in 0 .. MaxRoots :
            Collected(survivors, n * SLOT_BYTES)
     ELSE UNCHANGED <<len, budget, last>>

-----------------------------------------------------------------------------
Next ==
  \/ \E c \in Cells, l \in 0 .. MaxLen : Alloc(c, l) \/ Edit(c, l)
  \/ RelaxMarkFloor
  \/ Safepoint

Spec == Init /\ [][Next]_vars

-----------------------------------------------------------------------------
(* What the accounting promises.                                             *)

\* "Bounding it by live data keeps the allowance proportional to what the
\* program actually holds" (MARK_AMORTIZATION): whenever instructions go on
\* after a safepoint, the arena holds no more beyond what survived the last
\* collection than once that much again, the floor, or a share of what that
\* collection marked.  Neither condition of should_collect can postpone the
\* next collection past that, and no charge goes missing on the way.
FootprintBounded ==
  safepoint =>
    LET share == (rooted + retained) \div MARK_AMORTIZATION
    IN  TotalBytes(len) =< retained + Greater(retained, Greater(floor_bytes, share))
=============================================================================

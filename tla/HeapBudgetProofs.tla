-------------------------- MODULE HeapBudgetProofs --------------------------
(***************************************************************************)
(* The heap's byte accounting, for any arena, any sizes and any budgets:   *)
(* what is charged and released as it happens is, at every moment, exactly *)
(* what a recount of the arena would find; and the two conditions under    *)
(* which a collection is due bound what the arena can hold.                *)
(***************************************************************************)
EXTENDS HeapBudget, FiniteSetTheorems, FunctionTheorems, TLAPS

Lengths == {Free} \cup (0 .. MaxLen)

\* The charges are exact, so what was allocated since the last collection
\* bounds what the arena holds beyond that collection's survivors; and the two
\* budgets are no larger than that collection made them.
Accounted ==
  /\ live_bytes = TotalBytes(len)
  /\ live_bytes =< retained + since_collection_bytes
  /\ threshold_bytes = Greater(retained * GROWTH_FACTOR, floor_bytes)
  /\ mark_floor_bytes =< Greater((rooted + retained) \div MARK_AMORTIZATION, floor_bytes)

IInv == TypeOK /\ Accounted /\ FootprintBounded

-----------------------------------------------------------------------------
(* A recount.                                                                *)

\* The slots of one cell, as the recount counts them.
Own(c, l) == {<<c, i>> : i \in 1 .. l}

\* A cell of length l owns l slots.
LEMMA OwnSlots ==
  ASSUME NEW c, NEW l \in Lengths
  PROVE  /\ IsFiniteSet(Own(c, l))
         /\ Cardinality(Own(c, l)) = IF l = Free THEN 0 ELSE l
<1> DEFINE f == [i \in 1 .. l |-> <<c, i>>]
<1>1. l \in Int /\ l >= -1
  BY BoundsAssumption DEF Lengths, Free
<1>2. IsFiniteSet(1 .. l) /\ Cardinality(1 .. l) = IF l = Free THEN 0 ELSE l
  BY <1>1, FS_Interval DEF Free
<1>3. f \in Bijection(1 .. l, Own(c, l))
  <2>1. f \in [1 .. l -> Own(c, l)]
    BY DEF Own
  <2>2. \A i, j \in 1 .. l : f[i] = f[j] => i = j
    OBVIOUS
  <2>3. \A p \in Own(c, l) : \E i \in 1 .. l : f[i] = p
    BY DEF Own
  <2>. HIDE DEF f
  <2>. QED  BY <2>1, <2>2, <2>3, Fun_IsBij
<1>4. ExistsBijection(1 .. l, Own(c, l))
  BY <1>3 DEF ExistsBijection
<1>. QED  BY <1>2, <1>4, FS_Bijection

\* A recount after one cell changed is the recount before it with that cell's
\* bytes exchanged.
LEMMA Recounted ==
  ASSUME NEW lens \in [Cells -> Lengths], NEW c \in Cells, NEW l \in Lengths
  PROVE  /\ TotalBytes(lens) \in Nat
         /\ CellBytes(l) \in Nat /\ CellBytes(lens[c]) \in Nat
         /\ CellBytes(lens[c]) =< TotalBytes(lens)
         /\ TotalBytes([lens EXCEPT ![c] = l]) = TotalBytes(lens) - CellBytes(lens[c]) + CellBytes(l)
<1> DEFINE others == Taken(lens) \ {c}
           slots == {p \in ValueSlots(lens) : p[1] # c}
           taken(k) == IF k = Free THEN others ELSE others \cup {c}
           count(k) == IF k = Free THEN 0 ELSE 1
           own(k) == IF k = Free THEN 0 ELSE k
<1>1. IsFiniteSet(Cells) /\ IsFiniteSet(Cells \X (1 .. MaxLen)) /\ MaxLen \in Nat
  <2>1. MaxLen \in Nat /\ IsFiniteSet(1 .. MaxLen)
    BY BoundsAssumption, FS_Interval
  <2>. QED  BY <2>1, CellsAssumption, FS_Product
<1>2. /\ IsFiniteSet(others) /\ Cardinality(others) \in Nat
      /\ IsFiniteSet(slots) /\ Cardinality(slots) \in Nat
  <2>1. others \in SUBSET Cells /\ slots \in SUBSET (Cells \X (1 .. MaxLen))
    BY DEF Taken, ValueSlots
  <2>. QED  BY <1>1, <2>1, FS_Subset, FS_CardinalityType
<1>3. ASSUME NEW k \in Lengths, NEW some \in [Cells -> Lengths],
             some = [lens EXCEPT ![c] = k]
      PROVE  /\ Cardinality(Taken(some)) = Cardinality(others) + count(k)
             /\ Cardinality(ValueSlots(some)) = Cardinality(slots) + own(k)
  <2>1. Taken(some) = taken(k)
    BY <1>3 DEF Taken
  <2>2. c \notin others
    OBVIOUS
  <2>3. Cardinality(Taken(some)) = Cardinality(others) + count(k)
    <3>1. Cardinality(others \cup {c}) = Cardinality(others) + 1
      BY <1>2, <2>2, FS_AddElement
    <3>. QED  BY <1>2, <2>1, <3>1
  <2>4. ValueSlots(some) = slots \cup Own(c, k)
    <3>1. \A p : p \in ValueSlots(some) <=>
                   \E d \in Cells, i \in 1 .. MaxLen : p = <<d, i>> /\ i =< some[d]
      BY DEF ValueSlots
    <3>2. \A p : p \in slots <=>
                   \E d \in Cells, i \in 1 .. MaxLen : p = <<d, i>> /\ i =< lens[d] /\ d # c
      BY DEF ValueSlots
    <3>3. \A p : p \in Own(c, k) <=> \E i \in 1 .. MaxLen : p = <<c, i>> /\ i =< k
      BY <1>1 DEF Own, Lengths, Free
    <3>. QED  BY <1>3, <3>1, <3>2, <3>3
  <2>5. slots \cap Own(c, k) = {}
    BY DEF Own
  <2>6. IsFiniteSet(Own(c, k)) /\ Cardinality(Own(c, k)) = own(k)
    BY OwnSlots
  <2>7. Cardinality(slots \cup Own(c, k)) = Cardinality(slots) + own(k) - Cardinality({})
    <3>1. IsFiniteSet(slots)
      BY <1>2
    <3>. HIDE DEF slots, own
    <3>. QED  BY <2>5, <2>6, <3>1, FS_Union
  <2>8. own(k) \in Nat
    BY DEF Lengths
  <2>. QED  BY <1>2, <2>3, <2>4, <2>7, <2>8, FS_EmptySet
<1>4. /\ Cardinality(Taken(lens)) = Cardinality(others) + count(lens[c])
      /\ Cardinality(ValueSlots(lens)) = Cardinality(slots) + own(lens[c])
  <2>1. lens = [lens EXCEPT ![c] = lens[c]] /\ lens[c] \in Lengths
    OBVIOUS
  <2>. QED  BY <1>3, <2>1
<1>5. /\ Cardinality(Taken([lens EXCEPT ![c] = l])) = Cardinality(others) + count(l)
      /\ Cardinality(ValueSlots([lens EXCEPT ![c] = l])) = Cardinality(slots) + own(l)
  BY <1>3
<1> DEFINE n == Cardinality(others)
           m == Cardinality(slots)
<1>6. n \in Nat /\ m \in Nat /\ CELL_BYTES \in Nat /\ SLOT_BYTES \in Nat
  BY <1>2, BytesAssumption
<1>. HIDE DEF others, slots, n, m
<1>7. ASSUME NEW k \in Lengths
      PROVE  /\ (n + count(k)) * CELL_BYTES + (m + own(k)) * SLOT_BYTES
                  = (n * CELL_BYTES + m * SLOT_BYTES) + CellBytes(k)
             /\ CellBytes(k) \in Nat
  <2>1. CASE k = Free
    BY <1>6, <2>1 DEF CellBytes
  <2>2. CASE k # Free
    <3>1. k \in Nat
      BY <2>2 DEF Lengths
    <3>2. /\ (n + 1) * CELL_BYTES = n * CELL_BYTES + CELL_BYTES
          /\ (m + k) * SLOT_BYTES = m * SLOT_BYTES + k * SLOT_BYTES
          /\ k * SLOT_BYTES \in Nat /\ n * CELL_BYTES \in Nat /\ m * SLOT_BYTES \in Nat
      BY <1>6, <3>1
    <3>. QED  BY <1>6, <2>2, <3>1, <3>2 DEF CellBytes
  <2>. QED  BY <2>1, <2>2
<1>8. n * CELL_BYTES + m * SLOT_BYTES \in Nat
  BY <1>6
<1>9. lens[c] \in Lengths
  OBVIOUS
<1>10. TotalBytes(lens) = (n * CELL_BYTES + m * SLOT_BYTES) + CellBytes(lens[c])
  BY <1>4, <1>7, <1>9 DEF TotalBytes, n, m
<1>11. TotalBytes([lens EXCEPT ![c] = l]) = (n * CELL_BYTES + m * SLOT_BYTES) + CellBytes(l)
  BY <1>5, <1>7 DEF TotalBytes, n, m
<1>12. CellBytes(l) \in Nat /\ CellBytes(lens[c]) \in Nat
  BY <1>7, <1>9
<1>. QED  BY <1>8, <1>10, <1>11, <1>12

\* A recount of any arena is a number of bytes, and an empty one has none.
LEMMA RecountIsNatural ==
  ASSUME NEW lens \in [Cells -> Lengths]
  PROVE  /\ TotalBytes(lens) \in Nat
         /\ (\A c \in Cells : lens[c] = Free) => TotalBytes(lens) = 0
<1>1. IsFiniteSet(Cells) /\ IsFiniteSet(Cells \X (1 .. MaxLen))
  <2>1. IsFiniteSet(1 .. MaxLen)
    BY BoundsAssumption, FS_Interval
  <2>. QED  BY <2>1, CellsAssumption, FS_Product
<1>2. Taken(lens) \in SUBSET Cells /\ ValueSlots(lens) \in SUBSET (Cells \X (1 .. MaxLen))
  BY DEF Taken, ValueSlots
<1>3. Cardinality(Taken(lens)) \in Nat /\ Cardinality(ValueSlots(lens)) \in Nat
  BY <1>1, <1>2, FS_Subset, FS_CardinalityType
<1>4. TotalBytes(lens) \in Nat
  BY <1>3, BytesAssumption DEF TotalBytes
<1>5. ASSUME \A c \in Cells : lens[c] = Free PROVE TotalBytes(lens) = 0
  <2>1. Taken(lens) = {}
    BY <1>5 DEF Taken
  <2>2. ValueSlots(lens) = {}
    BY <1>5 DEF ValueSlots, Free
  <2>. QED  BY <2>1, <2>2, FS_EmptySet, BytesAssumption DEF TotalBytes
<1>. QED  BY <1>4, <1>5

\* A share of an amount of bytes.
LEMMA Shares ==
  ASSUME NEW b \in Nat
  PROVE  b \div MARK_AMORTIZATION \in Nat
<1>1. MARK_AMORTIZATION \in Nat \ {0}
  BY FactorsAssumption
<1>. QED  BY <1>1

-----------------------------------------------------------------------------
(* The accounting.                                                           *)

\* A cell grows, shrinks or appears: the charge is the difference in its bytes.
LEMMA ChargesAreExact ==
  ASSUME IInv, NEW c \in Cells, NEW l \in 0 .. MaxLen, Alloc(c, l) \/ Edit(c, l)
  PROVE  IInv'
<1>1. /\ TypeOK /\ Accounted /\ len \in [Cells -> Lengths] /\ l \in Lengths
      /\ len' = [len EXCEPT ![c] = l]
      /\ UNCHANGED <<threshold_bytes, mark_floor_bytes, retained, rooted>> /\ safepoint' = FALSE
  BY DEF IInv, TypeOK, Lengths, Alloc, Edit, Charge, last
<1>2. /\ TotalBytes(len) \in Nat /\ CellBytes(l) \in Nat /\ CellBytes(len[c]) \in Nat
      /\ CellBytes(len[c]) =< TotalBytes(len)
      /\ TotalBytes(len') = TotalBytes(len) - CellBytes(len[c]) + CellBytes(l)
  BY <1>1, Recounted
<1>3. /\ live_bytes' = live_bytes - CellBytes(len[c]) + CellBytes(l)
      /\ since_collection_bytes' \in Nat
      /\ live_bytes' =< retained + since_collection_bytes'
  <2>1. CASE Alloc(c, l)
    <3>1. CellBytes(len[c]) = 0
      BY <2>1 DEF Alloc, CellBytes
    <3>2. /\ live_bytes' = live_bytes + CellBytes(l)
          /\ since_collection_bytes' = since_collection_bytes + CellBytes(l)
      BY <2>1 DEF Alloc, Charge
    <3>. QED  BY <1>1, <1>2, <3>1, <3>2 DEF TypeOK, Accounted
  <2>2. CASE Edit(c, l)
    <3>1. len[c] \in Nat /\ l \in Nat /\ SLOT_BYTES \in Nat /\ CELL_BYTES \in Nat /\ len[c] # Free
      BY <1>1, <2>2, BytesAssumption DEF Edit, Lengths
    <3>2. /\ CellBytes(l) = CELL_BYTES + l * SLOT_BYTES
          /\ CellBytes(len[c]) = CELL_BYTES + len[c] * SLOT_BYTES
      BY <3>1 DEF CellBytes, Free
    <3>3. /\ (l - len[c]) * SLOT_BYTES = l * SLOT_BYTES - len[c] * SLOT_BYTES
          /\ (len[c] - l) * SLOT_BYTES = len[c] * SLOT_BYTES - l * SLOT_BYTES
          /\ l * SLOT_BYTES \in Nat /\ len[c] * SLOT_BYTES \in Nat
          /\ l >= len[c] => (l - len[c]) * SLOT_BYTES \in Nat
          /\ l < len[c] => (len[c] - l) * SLOT_BYTES \in Nat
      BY <3>1
    <3>4. CASE l >= len[c]
      <4>1. /\ live_bytes' = live_bytes + (l - len[c]) * SLOT_BYTES
            /\ since_collection_bytes' = since_collection_bytes + (l - len[c]) * SLOT_BYTES
        BY <2>2, <3>4 DEF Edit, Charge
      <4>. QED  BY <1>1, <1>2, <3>1, <3>2, <3>3, <3>4, <4>1 DEF TypeOK, Accounted
    <3>5. CASE ~(l >= len[c])
      <4>1. /\ live_bytes' = Greater(live_bytes - (len[c] - l) * SLOT_BYTES, 0)
            /\ since_collection_bytes' = since_collection_bytes
        BY <2>2, <3>5 DEF Edit
      <4>2. l < len[c]
        BY <3>1, <3>5
      <4>. QED  BY <1>1, <1>2, <3>1, <3>2, <3>3, <4>1, <4>2 DEF TypeOK, Accounted, Greater
    <3>. QED  BY <3>4, <3>5
  <2>. QED  BY <2>1, <2>2
<1>4. live_bytes' = TotalBytes(len') /\ live_bytes' \in Nat
  BY <1>1, <1>2, <1>3 DEF Accounted, TypeOK
<1>5. TypeOK'
  BY <1>1, <1>3, <1>4 DEF TypeOK, Lengths
<1>6. Accounted'
  BY <1>1, <1>3, <1>4 DEF Accounted
<1>7. FootprintBounded'
  BY <1>1 DEF FootprintBounded
<1>. QED  BY <1>5, <1>6, <1>7 DEF IInv

\* The floor a traversal relaxes goes down only.
LEMMA RelaxingKeeps ==
  ASSUME IInv, RelaxMarkFloor
  PROVE  IInv'
<1>1. /\ TypeOK /\ Accounted /\ floor_bytes \in Nat
      /\ UNCHANGED <<len, threshold_bytes, live_bytes, since_collection_bytes, retained, rooted>>
      /\ safepoint' = FALSE
  BY BytesAssumption DEF IInv, RelaxMarkFloor, last
<1>2. mark_floor_bytes' \in Nat /\ mark_floor_bytes' =< mark_floor_bytes
  <2>1. live_bytes \div MARK_AMORTIZATION \in Nat
    BY <1>1, Shares DEF TypeOK
  <2>2. mark_floor_bytes' =
          Lesser(mark_floor_bytes, Greater(live_bytes \div MARK_AMORTIZATION, floor_bytes))
    BY DEF RelaxMarkFloor
  <2>. QED  BY <1>1, <2>1, <2>2 DEF Lesser, Greater, TypeOK
<1>3. TypeOK'
  BY <1>1, <1>2 DEF TypeOK
<1>4. Accounted'
  <2> DEFINE top == Greater((rooted + retained) \div MARK_AMORTIZATION, floor_bytes)
  <2>1. (rooted + retained) \div MARK_AMORTIZATION \in Nat
    BY <1>1, Shares DEF TypeOK
  <2>2. top \in Nat /\ mark_floor_bytes =< top
    BY <1>1, <2>1 DEF Accounted, Greater
  <2>. HIDE DEF top
  <2>3. mark_floor_bytes' =< top
    BY <1>1, <1>2, <2>2 DEF TypeOK
  <2>. QED  BY <1>1, <2>3 DEF Accounted, top
<1>5. FootprintBounded'
  BY <1>1 DEF FootprintBounded
<1>. QED  BY <1>3, <1>4, <1>5 DEF IInv

\* A safepoint collects, or finds one of the two conditions not met: then the
\* live bytes are below the threshold, or what was allocated is below the floor.
LEMMA SafepointBounds ==
  ASSUME IInv, Safepoint
  PROVE  IInv'
<1> DEFINE share(r, k) == (r + k) \div MARK_AMORTIZATION
<1>1. TypeOK /\ Accounted /\ floor_bytes \in Nat /\ GROWTH_FACTOR = 2 /\ safepoint' = TRUE
  BY BytesAssumption, FactorsAssumption DEF IInv, Safepoint
<1>2. \A r, k \in Nat : share(r, k) \in Nat
  BY Shares
<1>3. CASE ShouldCollect
  <2>1. PICK survivors \in SUBSET Cells, n \in 0 .. MaxRoots : Collected(survivors, n * SLOT_BYTES)
    BY <1>3 DEF Safepoint
  <2> DEFINE swept == [c \in Cells |-> IF c \in survivors THEN len[c] ELSE Free]
             root_bytes == n * SLOT_BYTES
             kept == TotalBytes(swept)
  <2>2. swept \in [Cells -> Lengths]
    BY <1>1 DEF TypeOK, Lengths
  <2>3. kept \in Nat
    <3>. HIDE DEF swept
    <3>. QED  BY <2>2, RecountIsNatural
  <2>4. root_bytes \in Nat
    BY BytesAssumption, BoundsAssumption
  <2>5. /\ len' = swept /\ live_bytes' = kept
        /\ threshold_bytes' = Greater(kept * GROWTH_FACTOR, floor_bytes)
        /\ since_collection_bytes' = 0
        /\ mark_floor_bytes' = Greater(share(root_bytes, kept), floor_bytes)
        /\ retained' = kept /\ rooted' = root_bytes
    BY <2>1 DEF Collected
  <2>6. live_bytes' = TotalBytes(len')
    BY <2>5
  <2>. HIDE DEF swept, root_bytes, kept
  <2>7. share(root_bytes, kept) \in Nat
    BY <1>2, <2>3, <2>4
  <2>8. TypeOK'
    BY <1>1, <2>2, <2>3, <2>4, <2>5, <2>7 DEF TypeOK, Lengths, Greater
  <2>9. Accounted'
    BY <1>1, <2>3, <2>5, <2>6, <2>7 DEF Accounted, Greater
  <2>10. FootprintBounded'
    BY <1>1, <2>3, <2>5, <2>6, <2>7 DEF FootprintBounded, Greater
  <2>. QED  BY <2>8, <2>9, <2>10 DEF IInv
<1>4. CASE ~ShouldCollect
  <2>1. UNCHANGED <<len, threshold_bytes, live_bytes, since_collection_bytes, mark_floor_bytes,
                    retained, rooted>>
    BY <1>4 DEF Safepoint, budget, last
  <2>2. TypeOK' /\ Accounted'
    BY <1>1, <2>1 DEF TypeOK, Accounted
  <2>3. live_bytes < threshold_bytes \/ since_collection_bytes < mark_floor_bytes
    BY <1>1, <1>4 DEF ShouldCollect, TypeOK
  <2>4. share(rooted, retained) \in Nat
    BY <1>1, <1>2 DEF TypeOK
  <2>5. live_bytes =< retained + Greater(retained, Greater(floor_bytes, share(rooted, retained)))
    <3>. HIDE DEF share
    <3>1. mark_floor_bytes =< Greater(share(rooted, retained), floor_bytes)
      BY <1>1 DEF Accounted, share
    <3>2. retained * GROWTH_FACTOR = retained + retained
      BY <1>1 DEF TypeOK
    <3>. QED  BY <1>1, <2>3, <2>4, <3>1, <3>2 DEF TypeOK, Accounted, Greater
  <2>6. FootprintBounded'
    BY <1>1, <2>1, <2>5 DEF FootprintBounded, Accounted
  <2>. QED  BY <2>2, <2>6 DEF IInv
<1>. QED  BY <1>3, <1>4

\* The whole accounting holds as long as the program runs.
THEOREM Accounting == Spec => []IInv
<1>1. Init => IInv
  <2> SUFFICES ASSUME Init PROVE IInv
    OBVIOUS
  <2>1. /\ floor_bytes \in Nat /\ 0 \div MARK_AMORTIZATION \in Nat /\ GROWTH_FACTOR = 2
    BY BytesAssumption, FactorsAssumption, Shares
  <2>2. TypeOK
    BY <2>1 DEF Init, TypeOK
  <2>3. TotalBytes(len) = 0
    <3>1. len \in [Cells -> Lengths] /\ \A c \in Cells : len[c] = Free
      BY DEF Init, Lengths
    <3>. QED  BY <3>1, RecountIsNatural
  <2>4. rooted + retained = 0
    BY DEF Init
  <2>5. Accounted
    BY <2>1, <2>3, <2>4 DEF Init, Accounted, Greater
  <2>. QED  BY <2>2, <2>5 DEF Init, IInv, FootprintBounded
<1>2. IInv /\ [Next]_vars => IInv'
  <2> SUFFICES ASSUME IInv, [Next]_vars PROVE IInv'
    OBVIOUS
  <2>1. CASE UNCHANGED vars
    BY <2>1 DEF IInv, TypeOK, Accounted, FootprintBounded, vars, budget, last
  <2>. QED  BY <2>1, ChargesAreExact, RelaxingKeeps, SafepointBounds DEF Next
<1>. QED  BY <1>1, <1>2, PTL DEF Spec

\* What is charged and released, one allocation and one edit at a time, is what
\* a recount of the arena would find: no charge is lost or made twice, and the
\* saturating subtraction never saturates.
THEOREM ChargesAreTheRecount == Spec => [](live_bytes = TotalBytes(len))
<1>1. IInv => live_bytes = TotalBytes(len)
  BY DEF IInv, Accounted
<1>. QED  BY <1>1, Accounting, PTL

\* Whenever instructions go on after a safepoint, the arena holds a bounded
\* amount beyond what the last collection left.
THEOREM FootprintIsBounded == Spec => []FootprintBounded
<1>1. IInv => FootprintBounded
  BY DEF IInv
<1>. QED  BY <1>1, Accounting, PTL

=============================================================================

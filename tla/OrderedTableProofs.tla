------------------------- MODULE OrderedTableProofs -------------------------
(***************************************************************************)
(* Every lookup in a map or set is exact, for any keys, values and number  *)
(* of maps, and maps and sets are dictionaries in insertion order.         *)
(*                                                                         *)
(* The argument for the first: the index of a projectable key is its       *)
(* position or Nowhere, whatever the other keys are, and no key is there   *)
(* twice; every operation of a table keeps both, and so does every round   *)
(* of the loops that build tables out of others.  For the second: each     *)
(* operation does to the entries what the dictionary's does, and a loop    *)
(* under way has what the dictionary's recursion gives for the same number *)
(* of rounds.  That the recursion gives anything, for sequences of any     *)
(* length, is shown by a least number of rounds it would fail for (UpTo).  *)
(***************************************************************************)
EXTENDS OrderedTable, FiniteSetTheorems, SequenceTheorems, WellFoundedInduction, TLAPS

Entries == Seq(Keys \X Values)
Table == [entries : Entries, index : [Projectable -> Nat], unprojectable : Int]

Distinct(s) == \A i, j \in DOMAIN s : s[i][1] = s[j][1] => i = j

IndexIsExact(t) ==
  \A k \in Projectable :
    IF t.index[k] = Nowhere THEN \A i \in DOMAIN t.entries : t.entries[i][1] # k
    ELSE t.index[k] \in DOMAIN t.entries /\ t.entries[t.index[k]][1] = k

WellFormed(t) == t \in Table /\ Distinct(t.entries) /\ IndexIsExact(t)

Inserting ==
  /\ work \in [kind : {"insert"}, result : Table, pending : Entries]
  /\ WellFormed(work.result)

Keeping ==
  /\ work \in [kind : {"keep"}, kept : Entries, other : Table, keep_present : BOOLEAN,
               pending : Entries]
  /\ WellFormed(work.other)
  /\ Distinct(work.kept) /\ Distinct(work.pending)
  /\ \A i \in DOMAIN work.kept, j \in DOMAIN work.pending : work.kept[i][1] # work.pending[j][1]

TableInv ==
  /\ tables \in [Handles -> Table]
  /\ \A h \in Handles : WellFormed(tables[h])
  /\ work = NoWork \/ Inserting \/ Keeping

-----------------------------------------------------------------------------
(* The operations of one table.                                              *)

\* A lookup finds the position of its key, or Nowhere.
LEMMA PositionIsExact ==
  ASSUME NEW t, WellFormed(t), NEW k \in Keys
  PROVE  IF \E i \in DOMAIN t.entries : t.entries[i][1] = k
         THEN Position(t, k) \in DOMAIN t.entries /\ t.entries[Position(t, k)][1] = k
         ELSE Position(t, k) = Nowhere
<1>1. CASE t.unprojectable = 0 /\ k \in Projectable
  BY <1>1 DEF WellFormed, Table, IndexIsExact, Position, Nowhere, Entries
<1>2. CASE ~(t.unprojectable = 0 /\ k \in Projectable)
  <2>1. CASE \E i \in DOMAIN t.entries : t.entries[i][1] = k
    <3>1. PICK i \in DOMAIN t.entries : t.entries[i][1] = k
      BY <2>1
    <3>2. \A j \in 1 .. i - 1 : t.entries[j][1] # k
      BY <3>1 DEF WellFormed, Table, Distinct, Entries
    <3>3. Position(t, k) \in DOMAIN t.entries /\ t.entries[Position(t, k)][1] = k
      BY <1>2, <3>1, <3>2 DEF Position
    <3> QED BY <2>1, <3>3
  <2>2. CASE ~\E i \in DOMAIN t.entries : t.entries[i][1] = k
    BY <1>2, <2>2 DEF Position
  <2> QED BY <2>1, <2>2
<1> QED BY <1>1, <1>2

\* An empty table is well formed.
LEMMA EmptyIsWellFormed == WellFormed(EmptyTable)
BY DEF WellFormed, EmptyTable, Table, Entries, Distinct, IndexIsExact, Nowhere

\* Inserting keeps a table well formed.
LEMMA InsertedIsWellFormed ==
  ASSUME NEW t, WellFormed(t), NEW k \in Keys, NEW v \in Values
  PROVE  WellFormed(Inserted(t, k, v))
<1>0. t \in Table /\ t.entries \in Entries /\ t.index \in [Projectable -> Nat]
  BY DEF WellFormed, Table
<1>1. CASE HasKey(t, k)
  <2> DEFINE p == Position(t, k)
  <2>1. p \in DOMAIN t.entries /\ t.entries[p][1] = k
    BY <1>1, PositionIsExact DEF HasKey
  <2> DEFINE e == [t.entries EXCEPT ![p] = <<@[1], v>>]
  <2>2. Inserted(t, k, v) = [t EXCEPT !.entries = e]
    BY <1>0, <1>1 DEF Inserted, Table
  <2>3. e \in Entries /\ DOMAIN e = DOMAIN t.entries /\ Len(e) = Len(t.entries)
    BY <1>0, <2>1 DEF Entries
  <2>4. \A i \in DOMAIN t.entries : e[i][1] = t.entries[i][1]
    BY <1>0, <2>1 DEF Entries
  <2> HIDE DEF e, p
  <2>5. [t EXCEPT !.entries = e] \in Table
    BY <1>0, <2>3 DEF Table
  <2>6. Distinct(e)
    BY <2>3, <2>4 DEF WellFormed, Distinct
  <2>7. IndexIsExact([t EXCEPT !.entries = e])
    BY <1>0, <2>3, <2>4 DEF WellFormed, IndexIsExact, Table
  <2> QED BY <1>0, <2>2, <2>5, <2>6, <2>7 DEF WellFormed, Table
<1>2. CASE ~HasKey(t, k)
  <2> DEFINE e == Append(t.entries, <<k, v>>)
             ix == IF k \in Projectable THEN [t.index EXCEPT ![k] = Len(t.entries) + 1]
                   ELSE t.index
             n == IF k \in Projectable THEN t.unprojectable ELSE t.unprojectable + 1
  <2>1. Inserted(t, k, v) = [entries |-> e, index |-> ix, unprojectable |-> n]
    BY <1>2 DEF Inserted
  <2>2. \A i \in DOMAIN t.entries : t.entries[i][1] # k
    BY <1>0, <1>2, PositionIsExact DEF HasKey, Nowhere, Entries
  <2>3. /\ e \in Entries /\ Len(e) = Len(t.entries) + 1
        /\ \A i \in DOMAIN t.entries : e[i] = t.entries[i]
        /\ e[Len(t.entries) + 1] = <<k, v>>
    BY <1>0 DEF Entries
  <2>4. ix \in [Projectable -> Nat] /\ n \in Int
    BY <1>0 DEF Entries, Table
  <2>5. Distinct(e)
    <3> HIDE DEF e
    <3>1. SUFFICES ASSUME NEW i \in DOMAIN e, NEW j \in DOMAIN e, e[i][1] = e[j][1]
                   PROVE  i = j
      BY DEF Distinct
    <3>2. Distinct(t.entries) /\ DOMAIN t.entries = 1 .. Len(t.entries) /\ Len(t.entries) \in Nat
          /\ DOMAIN e = 1 .. Len(t.entries) + 1
      BY <1>0, <2>3 DEF WellFormed, Entries
    <3>3. CASE i \in DOMAIN t.entries /\ j \in DOMAIN t.entries
      BY <2>3, <3>1, <3>2, <3>3 DEF Distinct
    <3>4. CASE i = Len(t.entries) + 1 \/ j = Len(t.entries) + 1
      BY <2>2, <2>3, <3>1, <3>2, <3>4
    <3> QED BY <3>2, <3>3, <3>4
  <2>6. ASSUME NEW q \in Projectable
        PROVE IF ix[q] = Nowhere THEN \A i \in DOMAIN e : e[i][1] # q
              ELSE ix[q] \in DOMAIN e /\ e[ix[q]][1] = q
    <3>1. CASE q = k
      BY <1>0, <2>3, <3>1 DEF Nowhere, Entries
    <3>2. CASE q # k
      <4>1. ix[q] = t.index[q]
        BY <1>0, <3>2
      <4>2. IF t.index[q] = Nowhere THEN \A i \in DOMAIN t.entries : t.entries[i][1] # q
            ELSE t.index[q] \in DOMAIN t.entries /\ t.entries[t.index[q]][1] = q
        BY DEF WellFormed, IndexIsExact
      <4> QED BY <1>0, <2>3, <3>2, <4>1, <4>2 DEF Entries
    <3> QED BY <3>1, <3>2
  <2> HIDE DEF e, ix, n
  <2> QED BY <2>1, <2>3, <2>4, <2>5, <2>6 DEF WellFormed, Table, IndexIsExact
<1> QED BY <1>1, <1>2

\* Removing keeps a table well formed: the positions behind the removed entry
\* move with their entries.
LEMMA RemovedIsWellFormed ==
  ASSUME NEW t, WellFormed(t), NEW k \in Keys
  PROVE  WellFormed(Removed(t, k))
<1>0. t \in Table /\ t.entries \in Entries /\ t.index \in [Projectable -> Nat]
  BY DEF WellFormed, Table
<1>1. CASE ~HasKey(t, k)
  BY <1>1 DEF Removed
<1>2. CASE HasKey(t, k)
  <2> DEFINE x == Position(t, k)
             e == Without(t.entries, x)
             left == IF k \in Projectable THEN [t.index EXCEPT ![k] = Nowhere] ELSE t.index
             ix == [p \in Projectable |-> IF left[p] > x THEN left[p] - 1 ELSE left[p]]
             n == IF k \in Projectable THEN t.unprojectable ELSE t.unprojectable - 1
  <2>1. Removed(t, k) = [entries |-> e, index |-> ix, unprojectable |-> n]
    BY <1>2 DEF Removed
  <2>2. x \in DOMAIN t.entries /\ t.entries[x][1] = k
    BY <1>2, PositionIsExact DEF HasKey
  <2>3. x \in 1 .. Len(t.entries) /\ Len(t.entries) \in Nat
    BY <1>0, <2>2 DEF Entries
  <2> HIDE DEF x
  <2>4. /\ e \in Entries /\ Len(e) = Len(t.entries) - 1 /\ DOMAIN e = 1 .. Len(t.entries) - 1
        /\ \A i \in DOMAIN e : e[i] = IF i < x THEN t.entries[i] ELSE t.entries[i + 1]
    BY <1>0, <2>3 DEF Entries, Without
  <2>5. left \in [Projectable -> Nat]
    BY <1>0 DEF Nowhere
  <2>6. ix \in [Projectable -> Nat] /\ n \in Int
    BY <1>0, <2>3, <2>5 DEF Table
  <2>7. Distinct(e)
    <3> HIDE DEF e
    <3>1. SUFFICES ASSUME NEW i \in DOMAIN e, NEW j \in DOMAIN e, e[i][1] = e[j][1]
                   PROVE  i = j
      BY DEF Distinct
    <3> DEFINE old(m) == IF m < x THEN m ELSE m + 1
    <3>2. /\ old(i) \in DOMAIN t.entries /\ old(j) \in DOMAIN t.entries
          /\ e[i] = t.entries[old(i)] /\ e[j] = t.entries[old(j)]
      BY <1>0, <2>3, <2>4 DEF Entries
    <3>3. old(i) = old(j)
      BY <3>1, <3>2 DEF WellFormed, Distinct
    <3> QED BY <2>3, <2>4, <3>3
  <2>8. ASSUME NEW q \in Projectable
        PROVE IF ix[q] = Nowhere THEN \A i \in DOMAIN e : e[i][1] # q
              ELSE ix[q] \in DOMAIN e /\ e[ix[q]][1] = q
    <3>0. IF t.index[q] = Nowhere THEN \A i \in DOMAIN t.entries : t.entries[i][1] # q
          ELSE t.index[q] \in DOMAIN t.entries /\ t.entries[t.index[q]][1] = q
      BY DEF WellFormed, IndexIsExact
    <3>1. CASE q = k
      <4>1. ix[q] = Nowhere
        BY <1>0, <2>3, <3>1 DEF Nowhere
      <4>2. \A i \in DOMAIN t.entries : t.entries[i][1] = q => i = x
        BY <2>2, <3>1 DEF WellFormed, Distinct
      <4>3. \A i \in DOMAIN e : e[i][1] # q
        <5>1. x \in 1 .. Len(t.entries) /\ Len(t.entries) \in Nat /\ DOMAIN t.entries = 1 .. Len(t.entries)
          BY <1>0, <2>3 DEF Entries
        <5> HIDE DEF e
        <5>2. ASSUME NEW i \in DOMAIN e  PROVE e[i][1] # q
          <6>1. CASE i < x
            BY <2>4, <4>2, <5>1, <6>1
          <6>2. CASE ~(i < x)
            <7>1. i + 1 \in 1 .. Len(t.entries) /\ i + 1 # x
              BY <2>4, <5>1, <6>2
            <7> QED BY <2>4, <4>2, <5>1, <6>2, <7>1
          <6> QED BY <6>1, <6>2
        <5> QED BY <5>2
      <4> QED BY <4>1, <4>3
    <3>2. CASE q # k
      <4>1. left[q] = t.index[q]
        BY <1>0, <3>2
      <4>2. CASE t.index[q] = Nowhere
        <5>1. \A i \in DOMAIN e : e[i] = t.entries[i] \/ e[i] = t.entries[i + 1]
          BY <2>4
        <5>2. \A i \in DOMAIN e : i \in DOMAIN t.entries /\ i + 1 \in DOMAIN t.entries
          BY <1>0, <2>4 DEF Entries
        <5>3. \A i \in DOMAIN e : e[i][1] # q
          <6> HIDE DEF e
          <6> QED BY <3>0, <4>2, <5>1, <5>2
        <5>4. ix[q] = Nowhere
          BY <2>3, <4>1, <4>2 DEF Nowhere
        <5> QED BY <5>3, <5>4
      <4>3. CASE t.index[q] # Nowhere
        <5>1. t.index[q] \in 1 .. Len(t.entries) /\ t.index[q] # x
          BY <1>0, <2>2, <3>0, <3>2, <4>3 DEF Entries
        <5>2. ix[q] = IF t.index[q] > x THEN t.index[q] - 1 ELSE t.index[q]
          BY <4>1
        <5> HIDE DEF ix, e, left
        <5>3. CASE t.index[q] > x
          <6>1. ix[q] = t.index[q] - 1 /\ ix[q] \in DOMAIN e /\ ~(ix[q] < x)
            BY <2>3, <2>4, <5>1, <5>2, <5>3
          <6>2. e[ix[q]] = t.entries[ix[q] + 1] /\ ix[q] + 1 = t.index[q]
            BY <2>4, <5>1, <6>1
          <6>3. t.entries[t.index[q]][1] = q
            BY <3>0, <4>3
          <6> QED BY <2>3, <5>1, <5>3, <6>1, <6>2, <6>3 DEF Nowhere
        <5>4. CASE t.index[q] < x
          BY <2>3, <2>4, <3>0, <4>3, <5>1, <5>2, <5>4 DEF Nowhere
        <5> QED BY <2>3, <5>1, <5>3, <5>4
      <4> QED BY <4>2, <4>3
    <3> QED BY <3>1, <3>2
  <2> HIDE DEF e, ix, n
  <2> QED BY <2>1, <2>4, <2>6, <2>7, <2>8 DEF WellFormed, Table, IndexIsExact
<1> QED BY <1>1, <1>2

\* So does building a table from entries whose keys are distinct.
LEMMA FromDistinctIsWellFormed ==
  ASSUME NEW s \in Entries, Distinct(s)
  PROVE  WellFormed(FromDistinct(s))
<1> DEFINE found(k) == \E i \in DOMAIN s : s[i][1] = k
           last(k) == CHOOSE i \in DOMAIN s :
                        s[i][1] = k /\ \A j \in i + 1 .. Len(s) : s[j][1] # k
<1>1. ASSUME NEW k \in Projectable, found(k)
      PROVE last(k) \in DOMAIN s /\ s[last(k)][1] = k
  <2>1. PICK i \in DOMAIN s : s[i][1] = k
    BY <1>1
  <2>2. \A j \in i + 1 .. Len(s) : s[j][1] # k
    BY <2>1 DEF Distinct, Entries
  <2> QED BY <2>1, <2>2
<1>2. FromDistinct(s).index = [k \in Projectable |-> IF found(k) THEN last(k) ELSE Nowhere]
  BY DEF FromDistinct
<1>3. FromDistinct(s).entries = s
  BY DEF FromDistinct
<1>4. FromDistinct(s).unprojectable \in Int
  <2>1. Len(s) \in Nat /\ DOMAIN s = 1 .. Len(s)
    BY DEF Entries
  <2>2. IsFiniteSet({i \in DOMAIN s : s[i][1] \notin Projectable})
    <3>1. IsFiniteSet(DOMAIN s)
      BY <2>1, FS_Interval
    <3> QED BY <3>1, FS_Subset
  <2>3. FromDistinct(s).unprojectable = Cardinality({i \in DOMAIN s : s[i][1] \notin Projectable})
    BY DEF FromDistinct
  <2> QED BY <2>2, <2>3, FS_CardinalityType
<1>5. FromDistinct(s).index \in [Projectable -> Nat]
  BY <1>1, <1>2 DEF Nowhere, Entries
<1>6. FromDistinct(s) \in Table
  BY <1>3, <1>4, <1>5 DEF FromDistinct, Table
<1> HIDE DEF last
<1>7. IndexIsExact(FromDistinct(s))
  BY <1>1, <1>2, <1>3 DEF IndexIsExact, Nowhere, Entries
<1> QED BY <1>3, <1>6, <1>7 DEF WellFormed

-----------------------------------------------------------------------------
(* The program.                                                              *)

\* One round of a loop that inserts.
LEMMA InsertingRound ==
  ASSUME Inserting, work.pending # <<>>, WorkOnEntry
  PROVE  Inserting'
<1> DEFINE e == Head(work.pending)
<1>1. work.pending \in Seq(Keys \X Values) /\ work.kind = "insert" /\ work.result \in Table
  BY DEF Inserting, Entries
<1>2. e \in Keys \X Values /\ Tail(work.pending) \in Entries
  BY <1>1 DEF Entries
<1>3. e[1] \in Keys /\ e[2] \in Values
  BY <1>2
<1>4. work' = [work EXCEPT !.pending = Tail(work.pending),
                           !.result = Inserted(work.result, e[1], e[2])]
  BY <1>1 DEF WorkOnEntry
<1> HIDE DEF e
<1>5. WellFormed(Inserted(work.result, e[1], e[2]))
  BY <1>3, InsertedIsWellFormed DEF Inserting
<1>6. Inserted(work.result, e[1], e[2]) \in Table
  BY <1>5 DEF WellFormed
<1>7. /\ work' \in [kind : {"insert"}, result : Table, pending : Entries]
      /\ work'.result = Inserted(work.result, e[1], e[2])
  BY <1>1, <1>2, <1>4, <1>6 DEF Inserting
<1>8. WellFormed(work.result)'
  <2>1. WellFormed(work'.result)
    BY <1>5, <1>7
  <2> QED BY <2>1 DEF WellFormed, Table, Distinct, IndexIsExact
<1> QED BY <1>7, <1>8 DEF Inserting, Table, Entries

\* One round of a loop that filters.
LEMMA KeepingRound ==
  ASSUME Keeping, work.pending # <<>>, WorkOnEntry
  PROVE  Keeping'
<1> DEFINE e == Head(work.pending)
           rest == Tail(work.pending)
           kept == IF HasKey(work.other, e[1]) = work.keep_present
                   THEN Append(work.kept, e) ELSE work.kept
<1>1. /\ work.pending \in Seq(Keys \X Values) /\ work.kind = "keep"
      /\ work.kept \in Seq(Keys \X Values)
  BY DEF Keeping, Entries
<1>2. /\ e \in Keys \X Values /\ rest \in Entries /\ kept \in Entries
      /\ Len(work.pending) \in Nat \ {0}
  BY <1>1 DEF Entries
<1>3. work' = [work EXCEPT !.pending = rest, !.kept = kept]
  BY <1>1 DEF WorkOnEntry
<1>4. /\ DOMAIN rest = 1 .. Len(work.pending) - 1
      /\ \A i \in DOMAIN rest : rest[i] = work.pending[i + 1] /\ i + 1 \in DOMAIN work.pending
      /\ e = work.pending[1] /\ 1 \in DOMAIN work.pending
  BY <1>1, <1>2
<1>5. \A i \in DOMAIN kept :
        \/ i \in DOMAIN work.kept /\ kept[i] = work.kept[i]
        \/ i = Len(work.kept) + 1 /\ kept[i] = e
  <2>1. CASE kept = work.kept
    BY <2>1
  <2>2. CASE kept = Append(work.kept, e)
    BY <1>1, <2>2
  <2> QED BY <2>1, <2>2
<1> HIDE DEF e, rest, kept
<1>6. Distinct(rest)
  BY <1>1, <1>4 DEF Keeping, Distinct
<1>7. Distinct(kept)
  <2>1. SUFFICES ASSUME NEW i \in DOMAIN kept, NEW j \in DOMAIN kept, kept[i][1] = kept[j][1]
                 PROVE  i = j
    BY DEF Distinct
  <2> QED BY <1>4, <1>5, <2>1 DEF Keeping, Distinct
<1>8. \A i \in DOMAIN kept, j \in DOMAIN rest : kept[i][1] # rest[j][1]
  <2>1. SUFFICES ASSUME NEW i \in DOMAIN kept, NEW j \in DOMAIN rest
                 PROVE  kept[i][1] # rest[j][1]
    OBVIOUS
  <2>2. CASE i \in DOMAIN work.kept /\ kept[i] = work.kept[i]
    BY <1>4, <2>2 DEF Keeping
  <2>3. CASE kept[i] = e
    <3>1. j + 1 # 1 /\ rest[j] = work.pending[j + 1]
      BY <1>2, <1>4
    <3> QED BY <1>4, <2>3, <3>1 DEF Keeping, Distinct
  <2> QED BY <1>5, <2>2, <2>3
<1>9. /\ work' \in [kind : {"keep"}, kept : Entries, other : Table, keep_present : BOOLEAN,
                    pending : Entries]
      /\ work'.kept = kept /\ work'.pending = rest /\ work'.other = work.other
  BY <1>2, <1>3 DEF Keeping
<1>10. WellFormed(work.other)'
  <2>1. WellFormed(work'.other)
    BY <1>9 DEF Keeping
  <2> QED BY <2>1 DEF WellFormed, Table, Distinct, IndexIsExact
<1>11. Distinct(work.kept)' /\ Distinct(work.pending)'
  BY <1>6, <1>7, <1>9 DEF Distinct
<1> QED BY <1>8, <1>9, <1>10, <1>11 DEF Keeping, Table, Entries

\* The invariant holds of empty tables.
LEMMA InitHasTableInv == ASSUME TableInit PROVE TableInv
BY EmptyIsWellFormed DEF TableInit, TableInv, WellFormed

\* Every step keeps the invariant: operations, and rounds of the loops.
LEMMA NextKeepsTableInv ==
  ASSUME TableInv, [TableNext]_<<tables, work>>
  PROVE  TableInv'
<1> USE DEF TableInv
<1>0. \A t \in Table : WellFormed(t) => t.entries \in Entries /\ Distinct(t.entries)
  BY DEF WellFormed, Table
<1>1. ASSUME NEW h \in Handles, NEW k \in Keys, NEW v \in Values, MapInsert(h, k, v)
      PROVE  TableInv'
  <2>1. WellFormed(Inserted(tables[h], k, v))
    BY InsertedIsWellFormed
  <2> QED BY <1>1, <2>1 DEF MapInsert, Small, WellFormed
<1>2. ASSUME NEW h \in Handles, NEW k \in Keys, MapRemove(h, k)
      PROVE  TableInv'
  <2>1. WellFormed(Removed(tables[h], k))
    BY RemovedIsWellFormed
  <2> QED BY <1>2, <2>1 DEF MapRemove, WellFormed
<1>3. ASSUME NEW entries \in BoundedSeq(Keys \X Values, MaxLiteral), Literal(entries)
      PROVE  TableInv'
  <2>1. entries \in Entries
    BY <1>3 DEF BoundedSeq, SeqOf, Entries
  <2>2. Inserting'
    BY <1>3, <2>1, EmptyIsWellFormed DEF Literal, Inserting, WellFormed
  <2> QED BY <1>3, <2>2 DEF Literal
<1>4. ASSUME NEW h \in Handles, NEW other \in Handles, Merge(h, other)
      PROVE  TableInv'
  <2>1. Inserting'
    BY <1>0, <1>4 DEF Merge, Inserting, WellFormed
  <2> QED BY <1>4, <2>1 DEF Merge
<1>5. ASSUME NEW h \in Handles, NEW other \in Handles, NEW keep_present \in BOOLEAN,
             Filter(h, other, keep_present)
      PROVE  TableInv'
  <2>1. tables[h].entries \in Entries /\ Distinct(tables[h].entries)
    BY <1>0
  <2>2. work' \in [kind : {"keep"}, kept : Entries, other : Table, keep_present : BOOLEAN,
                   pending : Entries]
    BY <1>5, <2>1 DEF Filter, Entries
  <2>3. work'.kept = <<>> /\ work'.pending = tables[h].entries /\ work'.other = tables[other]
    BY <1>5 DEF Filter
  <2>4. Keeping'
    <3>1. WellFormed(work.other)'
      <4>1. WellFormed(work'.other)
        BY <2>3
      <4> QED BY <4>1 DEF WellFormed, Table, Distinct, IndexIsExact
    <3>2. Distinct(work.kept)' /\ Distinct(work.pending)'
      BY <2>1, <2>3 DEF Distinct
    <3>3. DOMAIN work'.kept = {}
      BY <2>3
    <3> QED BY <2>2, <3>1, <3>2, <3>3 DEF Keeping, Table, Entries
  <2> QED BY <1>5, <2>4 DEF Filter
<1>6. ASSUME WorkOnEntry
      PROVE  TableInv'
  BY <1>6, InsertingRound, KeepingRound DEF WorkOnEntry
<1>7. ASSUME NEW dest \in Handles, WorkDone(dest)
      PROVE  TableInv'
  <2>1. CASE Inserting
    BY <1>7, <2>1 DEF WorkDone, Inserting, WellFormed
  <2>2. CASE Keeping
    <3>1. WellFormed(FromDistinct(work.kept)) /\ work.kind = "keep"
      BY <2>2, FromDistinctIsWellFormed DEF Keeping
    <3> QED BY <1>7, <3>1 DEF WorkDone, WellFormed
  <2> QED BY <1>7, <2>1, <2>2 DEF WorkDone
<1>8. CASE UNCHANGED <<tables, work>>
  <2>1. UNCHANGED tables /\ UNCHANGED work
    BY <1>8
  <2>2. Inserting => Inserting'
    BY <2>1 DEF Inserting, WellFormed, Table, Distinct, IndexIsExact, Entries
  <2>3. Keeping => Keeping'
    <3>1. WellFormed(work.other) => WellFormed(work.other)'
      BY <2>1 DEF WellFormed, Table, Distinct, IndexIsExact
    <3>2. Distinct(work.kept) /\ Distinct(work.pending) => Distinct(work.kept)' /\ Distinct(work.pending)'
      BY <2>1 DEF Distinct
    <3> QED BY <2>1, <3>1, <3>2 DEF Keeping, Table, Entries
  <2> QED BY <2>1, <2>2, <2>3 DEF WellFormed, Table, Distinct, IndexIsExact, Entries
<1> QED BY <1>1, <1>2, <1>3, <1>4, <1>5, <1>6, <1>7, <1>8 DEF TableNext

\* In a well-formed table a lookup finds the entry of its key, and only that.
LEMMA TableInvIsExact == ASSUME TableInv PROVE LookupsAreExact
<1>1. ASSUME NEW h \in Handles PROVE Exact(tables[h])
  <2>1. WellFormed(tables[h])
    BY DEF TableInv
  <2> QED BY <2>1, PositionIsExact DEF Exact, WellFormed, Distinct
<1> QED BY <1>1 DEF LookupsAreExact

\* Whatever the program does, looking a key up answers what a scan of the
\* entries would, whether through the index or around it, and no key is there
\* twice (position, insert, remove and from_distinct_entries of table.rs).
THEOREM LookupsAreExactHolds == TableSpec => []LookupsAreExact
<1>1. TableSpec => []TableInv
  BY InitHasTableInv, NextKeepsTableInv, PTL DEF TableSpec
<1> QED BY <1>1, TableInvIsExact, PTL

-----------------------------------------------------------------------------
(* The dictionary of the specification, round by round.                      *)

\* What holds at 0, and at a number when it holds at the one before, holds up
\* to n.
LEMMA UpTo ==
  ASSUME NEW n \in Nat, NEW S, 0 \in S, \A i \in 1 .. n : i - 1 \in S => i \in S
  PROVE  \A i \in 0 .. n : i \in S
<1> DEFINE less == OpToRel(<, Nat)
           missing == {i \in 0 .. n : i \notin S}
<1>1. \A i, j \in Nat : i < j => <<i, j>> \in less
  BY DEF OpToRel
<1>2. IsWellFoundedOn(less, Nat)
  BY NatLessThanWellFounded
<1>3. missing \subseteq Nat
  OBVIOUS
<1> HIDE DEF less
<1>4. SUFFICES ASSUME missing # {} PROVE FALSE
  OBVIOUS
<1>5. PICK i \in missing : \A j \in missing : <<j, i>> \notin less
  BY <1>2, <1>3, <1>4, WFMin
<1>6. i \in 1 .. n /\ i - 1 \in 0 .. n /\ i - 1 < i /\ i - 1 \in Nat /\ i \in Nat
  BY <1>5
<1>7. i - 1 \notin missing
  BY <1>1, <1>5, <1>6
<1> QED BY <1>5, <1>6, <1>7

\* Putting an entry into a dictionary gives a dictionary.
LEMMA PutIsTyped ==
  ASSUME NEW d \in Entries, NEW e \in Keys \X Values
  PROVE  Dictionary!Put(d, e) \in Entries
<1>1. CASE Dictionary!Has(d, e[1])
  <2>1. Dictionary!Put(d, e) = [i \in 1 .. Len(d) |-> IF d[i][1] = e[1] THEN e ELSE d[i]]
    BY <1>1 DEF Dictionary!Put, Entries
  <2>2. \A i \in 1 .. Len(d) : d[i] \in Keys \X Values
    BY DEF Entries
  <2> QED BY <2>1, <2>2 DEF Entries
<1>2. CASE ~Dictionary!Has(d, e[1])
  BY <1>2 DEF Dictionary!Put, Entries
<1> QED BY <1>1, <1>2

\* The recursion of After has a solution, so After is one.
LEMMA AfterIsRecursive ==
  ASSUME NEW d \in Entries, NEW more \in Entries
  PROVE  Dictionary!After(d, more) =
           [i \in 0 .. Len(more) |->
              IF i = 0 THEN d ELSE Dictionary!Put(Dictionary!After(d, more)[i - 1], more[i])]
<1> DEFINE Rounds(f, n) == /\ f \in [0 .. n -> Entries]
                           /\ f[0] = d
                           /\ \A i \in 1 .. n : f[i] = Dictionary!Put(f[i - 1], more[i])
           solved == {n \in 0 .. Len(more) : \E f : Rounds(f, n)}
<1>0. Len(more) \in Nat /\ \A i \in 1 .. Len(more) : more[i] \in Keys \X Values
  BY DEF Entries
<1>1. 0 \in solved
  <2>1. Rounds([i \in 0 .. 0 |-> d], 0)
    OBVIOUS
  <2>2. \E f : Rounds(f, 0)
    BY <2>1
  <2> HIDE DEF Rounds
  <2> QED BY <1>0, <2>2
<1>2. ASSUME NEW n \in 1 .. Len(more), n - 1 \in solved PROVE n \in solved
  <2>1. PICK f : Rounds(f, n - 1)
    BY <1>2
  <2> DEFINE g == [i \in 0 .. n |-> IF i = n THEN Dictionary!Put(f[n - 1], more[n]) ELSE f[i]]
  <2>2. n \in Nat /\ n - 1 \in 0 .. n - 1 /\ \A i \in 0 .. n : i = n \/ i \in 0 .. n - 1
    BY <1>0
  <2>3. f \in [0 .. n - 1 -> Entries]
    BY <2>1
  <2>4. Dictionary!Put(f[n - 1], more[n]) \in Entries
    BY <1>0, <2>2, <2>3, PutIsTyped
  <2>5. g \in [0 .. n -> Entries]
    BY <2>2, <2>3, <2>4
  <2>6. g[0] = d
    BY <1>0, <2>1
  <2>7. ASSUME NEW i \in 1 .. n PROVE g[i] = Dictionary!Put(g[i - 1], more[i])
    <3>1. i - 1 \in 0 .. n /\ i - 1 # n /\ i \in 0 .. n
      BY <1>0
    <3>2. g[i - 1] = f[i - 1]
      BY <3>1
    <3>3. CASE i = n
      BY <3>1, <3>2, <3>3
    <3>4. CASE i # n
      <4>1. i \in 1 .. n - 1
        BY <1>0, <3>4
      <4>2. f[i] = Dictionary!Put(f[i - 1], more[i])
        BY <2>1, <4>1
      <4> QED BY <3>1, <3>2, <3>4, <4>2
    <3> QED BY <3>3, <3>4
  <2> HIDE DEF g
  <2>8. Rounds(g, n)
    BY <2>5, <2>6, <2>7
  <2> HIDE DEF Rounds
  <2> QED BY <1>0, <2>8
<1> HIDE DEF solved
<1>3. Len(more) \in solved
  BY <1>0, <1>1, <1>2, UpTo
<1>4. PICK f : Rounds(f, Len(more))
  BY <1>3 DEF solved
<1>5. f = [i \in 0 .. Len(more) |-> IF i = 0 THEN d ELSE Dictionary!Put(f[i - 1], more[i])]
  <2>1. f = [i \in 0 .. Len(more) |-> f[i]]
    BY <1>4
  <2>2. \A i \in 0 .. Len(more) : f[i] = IF i = 0 THEN d ELSE Dictionary!Put(f[i - 1], more[i])
    BY <1>0, <1>4
  <2> QED BY <2>1, <2>2
<1> HIDE DEF Rounds
<1> QED BY <1>5 DEF Dictionary!After

\* After, round by round, is a sequence of entries at each.
LEMMA AfterRounds ==
  ASSUME NEW d \in Entries, NEW more \in Entries
  PROVE  /\ Dictionary!After(d, more)[0] = d
         /\ \A i \in 1 .. Len(more) :
              Dictionary!After(d, more)[i] = Dictionary!Put(Dictionary!After(d, more)[i - 1], more[i])
<1> DEFINE after == Dictionary!After(d, more)
<1>1. after = [i \in 0 .. Len(more) |-> IF i = 0 THEN d ELSE Dictionary!Put(after[i - 1], more[i])]
  BY AfterIsRecursive
<1>2. Len(more) \in Nat
  BY DEF Entries
<1> HIDE DEF after
<1>3. after[0] = d
  BY <1>1, <1>2
<1>4. \A i \in 1 .. Len(more) : after[i] = Dictionary!Put(after[i - 1], more[i])
  BY <1>1, <1>2
<1> QED BY <1>3, <1>4 DEF after

\* The recursion of Selection has a solution, so Selection is one.
LEMMA SelectionIsRecursive ==
  ASSUME NEW d \in Entries, NEW K
  PROVE  Dictionary!Selection(d, K) =
           [i \in 0 .. Len(d) |->
              IF i = 0 THEN <<>>
              ELSE IF d[i][1] \in K THEN Append(Dictionary!Selection(d, K)[i - 1], d[i])
              ELSE Dictionary!Selection(d, K)[i - 1]]
<1> DEFINE Round(s, i) == IF d[i][1] \in K THEN Append(s, d[i]) ELSE s
           Rounds(f, n) == /\ f \in [0 .. n -> Entries]
                           /\ f[0] = <<>>
                           /\ \A i \in 1 .. n : f[i] = Round(f[i - 1], i)
           solved == {n \in 0 .. Len(d) : \E f : Rounds(f, n)}
<1>0. Len(d) \in Nat /\ \A i \in 1 .. Len(d) : d[i] \in Keys \X Values
  BY DEF Entries
<1>a. \A s \in Entries : \A i \in 1 .. Len(d) : Round(s, i) \in Entries
  BY <1>0 DEF Entries
<1>b. <<>> \in Entries
  BY DEF Entries
<1>1. 0 \in solved
  <2>1. Rounds([i \in 0 .. 0 |-> <<>>], 0)
    BY <1>b
  <2>2. \E f : Rounds(f, 0)
    BY <2>1
  <2> HIDE DEF Rounds
  <2> QED BY <1>0, <2>2
<1>c. \A s, i : Round(s, i) = IF d[i][1] \in K THEN Append(s, d[i]) ELSE s
  OBVIOUS
<1> HIDE DEF Round
<1>2. ASSUME NEW n \in 1 .. Len(d), n - 1 \in solved PROVE n \in solved
  <2>1. PICK f : Rounds(f, n - 1)
    BY <1>2
  <2> DEFINE g == [i \in 0 .. n |-> IF i = n THEN Round(f[n - 1], n) ELSE f[i]]
  <2>2. n \in Nat /\ n - 1 \in 0 .. n - 1 /\ \A i \in 0 .. n : i = n \/ i \in 0 .. n - 1
    BY <1>0
  <2>3. f \in [0 .. n - 1 -> Entries]
    BY <2>1
  <2>4. Round(f[n - 1], n) \in Entries
    BY <1>a, <2>2, <2>3
  <2>5. g \in [0 .. n -> Entries]
    BY <2>2, <2>3, <2>4
  <2>6. g[0] = <<>>
    BY <1>0, <2>1
  <2>7. ASSUME NEW i \in 1 .. n PROVE g[i] = Round(g[i - 1], i)
    <3>1. i - 1 \in 0 .. n /\ i - 1 # n /\ i \in 0 .. n
      BY <1>0
    <3>2. g[i - 1] = f[i - 1]
      BY <3>1
    <3>3. CASE i = n
      BY <3>1, <3>2, <3>3
    <3>4. CASE i # n
      <4>1. i \in 1 .. n - 1
        BY <1>0, <3>4
      <4>2. f[i] = Round(f[i - 1], i)
        BY <2>1, <4>1
      <4> QED BY <3>1, <3>2, <3>4, <4>2
    <3> QED BY <3>3, <3>4
  <2> HIDE DEF g
  <2>8. Rounds(g, n)
    BY <2>5, <2>6, <2>7
  <2> HIDE DEF Rounds
  <2> QED BY <1>0, <2>8
<1> HIDE DEF solved
<1>3. Len(d) \in solved
  BY <1>0, <1>1, <1>2, UpTo
<1>4. PICK f : Rounds(f, Len(d))
  BY <1>3 DEF solved
<1>5. f = [i \in 0 .. Len(d) |-> IF i = 0 THEN <<>> ELSE Round(f[i - 1], i)]
  <2>1. f = [i \in 0 .. Len(d) |-> f[i]]
    BY <1>4
  <2>2. \A i \in 0 .. Len(d) : f[i] = IF i = 0 THEN <<>> ELSE Round(f[i - 1], i)
    BY <1>0, <1>4
  <2> QED BY <2>1, <2>2
<1> HIDE DEF Rounds
<1>6. f = [i \in 0 .. Len(d) |->
            IF i = 0 THEN <<>> ELSE IF d[i][1] \in K THEN Append(f[i - 1], d[i]) ELSE f[i - 1]]
  BY <1>5, <1>c
<1> QED BY <1>6 DEF Dictionary!Selection

\* Selection, round by round, is a sequence of entries at each.
LEMMA SelectionRounds ==
  ASSUME NEW d \in Entries, NEW K
  PROVE  LET sel == Dictionary!Selection(d, K)
         IN  /\ sel[0] = <<>>
             /\ \A i \in 1 .. Len(d) :
                  sel[i] = IF d[i][1] \in K THEN Append(sel[i - 1], d[i]) ELSE sel[i - 1]
<1> DEFINE sel == Dictionary!Selection(d, K)
<1>1. sel = [i \in 0 .. Len(d) |->
              IF i = 0 THEN <<>> ELSE IF d[i][1] \in K THEN Append(sel[i - 1], d[i]) ELSE sel[i - 1]]
  BY SelectionIsRecursive
<1>2. Len(d) \in Nat
  BY DEF Entries
<1> HIDE DEF sel
<1>3. sel[0] = <<>>
  BY <1>1, <1>2
<1>4. \A i \in 1 .. Len(d) :
        sel[i] = IF d[i][1] \in K THEN Append(sel[i - 1], d[i]) ELSE sel[i - 1]
  <2>1. SUFFICES ASSUME NEW i \in 1 .. Len(d)
                 PROVE  sel[i] = IF d[i][1] \in K THEN Append(sel[i - 1], d[i]) ELSE sel[i - 1]
    OBVIOUS
  <2>2. i \in 0 .. Len(d) /\ i # 0
    BY <1>2
  <2>3. sel[i] = IF i = 0 THEN <<>>
                 ELSE IF d[i][1] \in K THEN Append(sel[i - 1], d[i]) ELSE sel[i - 1]
    BY <1>1, <2>2, Zenon
  <2> QED BY <2>2, <2>3
<1> QED BY <1>3, <1>4 DEF sel

-----------------------------------------------------------------------------
(* What the operations of a table do to its dictionary.                      *)

\* Inserting puts the entry.
LEMMA InsertedPuts ==
  ASSUME NEW t, WellFormed(t), NEW k \in Keys, NEW v \in Values
  PROVE  Inserted(t, k, v).entries = Dictionary!Put(t.entries, <<k, v>>)
<1>1. t \in Table /\ t.entries \in Entries /\ Distinct(t.entries)
  BY DEF WellFormed, Table
<1>2. DOMAIN t.entries = 1 .. Len(t.entries) /\ Len(t.entries) \in Nat
  BY <1>1 DEF Entries
<1>3. CASE HasKey(t, k)
  <2> DEFINE p == Position(t, k)
             e == [t.entries EXCEPT ![p] = <<@[1], v>>]
  <2>1. p \in DOMAIN t.entries /\ t.entries[p][1] = k
    BY <1>3, PositionIsExact DEF HasKey
  <2>2. Inserted(t, k, v).entries = e
    BY <1>1, <1>3 DEF Inserted, Table
  <2>3. Dictionary!Has(t.entries, k)
    BY <2>1 DEF Dictionary!Has
  <2> DEFINE put == [i \in DOMAIN t.entries |-> IF t.entries[i][1] = k THEN <<k, v>> ELSE t.entries[i]]
  <2>4. Dictionary!Put(t.entries, <<k, v>>) = put
    BY <2>3 DEF Dictionary!Put
  <2>5. \A i \in DOMAIN t.entries : (t.entries[i][1] = k) = (i = p)
    BY <1>1, <2>1 DEF Distinct
  <2> HIDE DEF p
  <2>6. e = [i \in DOMAIN t.entries |-> IF i = p THEN <<t.entries[p][1], v>> ELSE t.entries[i]]
    BY <1>1, <1>2, <2>1 DEF Entries
  <2>7. e = put
    BY <2>1, <2>5, <2>6
  <2> QED BY <2>2, <2>4, <2>7
<1>4. CASE ~HasKey(t, k)
  <2>1. ~Dictionary!Has(t.entries, k)
    BY <1>2, <1>4, PositionIsExact DEF HasKey, Nowhere, Dictionary!Has
  <2> QED BY <1>4, <2>1 DEF Inserted, Dictionary!Put
<1> QED BY <1>3, <1>4

\* Looking a key up finds whether its dictionary has it.
LEMMA LookupsFindKeys ==
  ASSUME NEW t, WellFormed(t), NEW k \in Keys
  PROVE  HasKey(t, k) <=> Dictionary!Has(t.entries, k)
<1>1. DOMAIN t.entries = 1 .. Len(t.entries) /\ Len(t.entries) \in Nat
  BY DEF WellFormed, Table, Entries
<1> QED BY <1>1, PositionIsExact DEF HasKey, Nowhere, Dictionary!Has

\* Selecting all entries but the one at x, or all when x is past the end.
LEMMA SelectDropsOne ==
  ASSUME NEW d \in Entries, NEW K, NEW x \in 1 .. Len(d) + 1,
         \A i \in 1 .. Len(d) : d[i][1] \in K <=> i # x
  PROVE  Dictionary!Select(d, K) = IF x = Len(d) + 1 THEN d ELSE Without(d, x)
<1> DEFINE n == Len(d)
           sel == Dictionary!Selection(d, K)
           top(i) == IF i < x THEN i ELSE i - 1
           part(i) == [j \in 1 .. top(i) |-> IF j < x THEN d[j] ELSE d[j + 1]]
           agree == {i \in 0 .. n : sel[i] = part(i)}
<1>1. n \in Nat /\ x \in Nat /\ x >= 1 /\ d \in Seq(Keys \X Values)
  BY DEF Entries
<1>2. /\ sel[0] = <<>>
      /\ \A i \in 1 .. n : sel[i] = IF d[i][1] \in K THEN Append(sel[i - 1], d[i]) ELSE sel[i - 1]
  BY SelectionRounds
<1> HIDE DEF sel, n
<1>n. n = Len(d)
  BY DEF n
<1>3. 0 \in agree
  <2>1. top(0) = 0
    BY <1>1
  <2>2. part(0) = <<>>
    BY <2>1
  <2> QED BY <1>1, <1>2, <2>2
<1>4. ASSUME NEW i \in 1 .. n, i - 1 \in agree PROVE i \in agree
  <2>1. sel[i - 1] = part(i - 1) /\ i \in Nat /\ i >= 1 /\ i =< n
    BY <1>1, <1>4
  <2>2. CASE i = x
    <3>1. sel[i] = sel[i - 1] /\ top(i) = top(i - 1)
      BY <1>1, <1>2, <1>n, <2>1, <2>2
    <3> QED BY <1>1, <2>1, <3>1
  <2>3. CASE i # x
    <3>1. sel[i] = Append(part(i - 1), d[i])
      BY <1>2, <1>n, <2>1, <2>3
    <3>2. top(i) = top(i - 1) + 1 /\ top(i - 1) \in Nat /\ d[i] = IF top(i) < x THEN d[top(i)] ELSE d[top(i) + 1]
      BY <1>1, <2>1, <2>3
    <3>3. part(i - 1) \in Seq(Keys \X Values) /\ Len(part(i - 1)) = top(i - 1)
      <4>1. \A j \in 1 .. top(i - 1) : (IF j < x THEN d[j] ELSE d[j + 1]) \in Keys \X Values
        BY <1>1, <1>n, <2>1
      <4> QED BY <3>2, <4>1
    <3>4. d[i] \in Keys \X Values
      BY <1>1, <1>n, <2>1
    <3> DEFINE m == top(i - 1)
               old == part(i - 1)
    <3>5. m \in Nat /\ top(i) = m + 1
      BY <3>2
    <3>6. \A j \in 1 .. m : old[j] = IF j < x THEN d[j] ELSE d[j + 1]
      OBVIOUS
    <3>7. part(i) = [j \in 1 .. m + 1 |-> IF j < x THEN d[j] ELSE d[j + 1]]
      BY <3>5
    <3>8. d[i] = IF m + 1 < x THEN d[m + 1] ELSE d[m + 2]
      BY <3>2, <3>5
    <3>9. old \in Seq(Keys \X Values) /\ Len(old) = m
      BY <3>3
    <3> HIDE DEF m, old
    <3>10. Append(old, d[i]) = [j \in 1 .. m + 1 |-> IF j < x THEN d[j] ELSE d[j + 1]]
      <4>1. Append(old, d[i]) = [j \in 1 .. m + 1 |-> IF j = m + 1 THEN d[i] ELSE old[j]]
        BY <3>4, <3>5, <3>9
      <4>2. \A j \in 1 .. m + 1 :
              (IF j = m + 1 THEN d[i] ELSE old[j]) = (IF j < x THEN d[j] ELSE d[j + 1])
        BY <3>5, <3>6, <3>8
      <4> QED BY <4>1, <4>2
    <3>11. sel[i] = Append(old, d[i])
      BY <3>1 DEF old
    <3> HIDE DEF part
    <3>12. sel[i] = part(i)
      BY <3>7, <3>10, <3>11
    <3> QED BY <2>1, <3>12
  <2> QED BY <2>2, <2>3
<1> HIDE DEF agree
<1>5. n \in agree
  <2>1. \A i \in 1 .. n : i - 1 \in agree => i \in agree
    BY <1>4
  <2>2. \A i \in 0 .. n : i \in agree
    BY <1>1, <1>3, <2>1, UpTo
  <2> QED BY <1>1, <2>2
<1>6. sel[n] = part(n)
  BY <1>5 DEF agree
<1>7. CASE x = n + 1
  <2>1. part(n) = [j \in 1 .. n |-> d[j]]
    BY <1>1, <1>7
  <2>2. d = [j \in 1 .. n |-> d[j]]
    BY <1>1, <1>n
  <2> QED BY <1>6, <1>7, <1>n, <2>1, <2>2 DEF sel, Dictionary!Select
<1>8. CASE x # n + 1
  <2>1. part(n) = [j \in 1 .. n - 1 |-> IF j < x THEN d[j] ELSE d[j + 1]]
    BY <1>1, <1>8, <1>n
  <2> QED BY <1>6, <1>8, <1>n, <2>1 DEF sel, Dictionary!Select, Without
<1> QED BY <1>7, <1>8

\* Removing a key leaves the entries of the others.
LEMMA RemovedSelects ==
  ASSUME NEW t, WellFormed(t), NEW k \in Keys
  PROVE  Removed(t, k).entries = Dictionary!Select(t.entries, Keys \ {k})
<1> DEFINE d == t.entries
<1>1. d \in Entries /\ Distinct(d)
  BY DEF WellFormed, Table
<1>2. /\ DOMAIN d = 1 .. Len(d) /\ Len(d) \in Nat
      /\ \A i \in 1 .. Len(d) : d[i][1] \in Keys
  BY <1>1 DEF Entries
<1>3. CASE HasKey(t, k)
  <2> DEFINE x == Position(t, k)
  <2>1. x \in DOMAIN d /\ d[x][1] = k
    BY <1>3, PositionIsExact DEF HasKey
  <2>2. \A i \in 1 .. Len(d) : d[i][1] \in Keys \ {k} <=> i # x
    BY <1>1, <1>2, <2>1 DEF Distinct
  <2>3. Removed(t, k).entries = Without(d, x)
    BY <1>3 DEF Removed
  <2>4. x \in 1 .. Len(d) + 1 /\ x # Len(d) + 1
    BY <1>2, <2>1
  <2> HIDE DEF x, d
  <2> QED BY <1>1, <2>2, <2>3, <2>4, SelectDropsOne DEF d
<1>4. CASE ~HasKey(t, k)
  <2>1. \A i \in DOMAIN d : d[i][1] # k
    BY <1>4, LookupsFindKeys DEF Dictionary!Has
  <2>2. \A i \in 1 .. Len(d) : d[i][1] \in Keys \ {k} <=> i # Len(d) + 1
    BY <1>2, <2>1
  <2>3. Removed(t, k).entries = d
    BY <1>4 DEF Removed
  <2> HIDE DEF d
  <2>4. Len(d) + 1 \in 1 .. Len(d) + 1
    BY <1>2
  <2> QED BY <1>1, <2>2, <2>3, <2>4, SelectDropsOne DEF d
<1> QED BY <1>3, <1>4

-----------------------------------------------------------------------------
(* The program, as its dictionaries.                                         *)

\* What is left of a sequence after n of its elements.
LEMMA Rest ==
  ASSUME NEW s \in Entries, NEW n \in 0 .. Len(s)
  PROVE  LET rest == SubSeq(s, n + 1, Len(s))
         IN  IF rest = <<>> THEN n = Len(s)
             ELSE /\ n + 1 \in 1 .. Len(s) /\ Head(rest) = s[n + 1]
                  /\ Tail(rest) = SubSeq(s, n + 2, Len(s))
<1> DEFINE rest == SubSeq(s, n + 1, Len(s))
<1>1. s \in Seq(Keys \X Values) /\ Len(s) \in Nat /\ n \in Nat /\ n =< Len(s)
  BY DEF Entries
<1>2. rest \in Seq(Keys \X Values) /\ Len(rest) = Len(s) - n
  BY <1>1
<1> HIDE DEF rest
<1>4. CASE rest = <<>>
  <2>1. n = Len(s)
    BY <1>1, <1>2, <1>4
  <2> QED BY <1>4, <2>1 DEF rest
<1>5. CASE rest # <<>>
  <2>1. Len(s) - n >= 1
    BY <1>1, <1>2, <1>5
  <2>2. n + 1 \in 1 .. Len(s) /\ Len(s) \in n + 1 .. Len(s)
    BY <1>1, <2>1
  <2>3. Head(rest) = s[n + 1] /\ Tail(rest) = SubSeq(s, n + 1 + 1, Len(s))
    BY <1>1, <2>2, HeadTailOfSubSeq DEF rest
  <2>4. n + 1 + 1 = n + 2
    BY <1>1
  <2> QED BY <1>5, <2>2, <2>3, <2>4 DEF rest
<1> QED BY <1>4, <1>5

Promised(d, more) ==
  \/ d = <<>> /\ more \in BoundedSeq(Keys \X Values, MaxLiteral)
  \/ \E h, g \in Handles : d = tables[h].entries /\ more = tables[g].entries

PuttingAll ==
  /\ work.kind = "insert"
  /\ \E d, more \in Entries :
       /\ Promised(d, more)
       /\ \E n \in 0 .. Len(more) :
            /\ work.result.entries = Dictionary!After(d, more)[n]
            /\ work.pending = SubSeq(more, n + 1, Len(more))

Wanted(d) == IF work.keep_present THEN Dictionary!KeysOf(d) ELSE Keys \ Dictionary!KeysOf(d)

Selecting ==
  /\ work.kind = "keep"
  /\ \E h, g \in Handles :
       /\ work.other = tables[g]
       /\ \E n \in 0 .. Len(tables[h].entries) :
            /\ work.kept = Dictionary!Selection(tables[h].entries, Wanted(tables[g].entries))[n]
            /\ work.pending = SubSeq(tables[h].entries, n + 1, Len(tables[h].entries))

\* What a loop has so far is what the dictionaries would have after as many
\* rounds.
Underway == work = NoWork \/ PuttingAll \/ Selecting

\* A round of a loop that inserts is a round of After.
LEMMA PuttingRound ==
  ASSUME TableInv, PuttingAll, WorkOnEntry
  PROVE  PuttingAll'
<1>0. Inserting
  BY DEF TableInv, PuttingAll, NoWork, Keeping, WorkOnEntry
<1>1. PICK d \in Entries, more \in Entries :
        /\ Promised(d, more)
        /\ \E n \in 0 .. Len(more) :
             /\ work.result.entries = Dictionary!After(d, more)[n]
             /\ work.pending = SubSeq(more, n + 1, Len(more))
  BY DEF PuttingAll
<1>2. PICK n \in 0 .. Len(more) : /\ work.result.entries = Dictionary!After(d, more)[n]
                                  /\ work.pending = SubSeq(more, n + 1, Len(more))
  BY <1>1
<1> DEFINE e == more[n + 1]
<1>3. /\ n + 1 \in 1 .. Len(more) /\ Head(work.pending) = e
      /\ Tail(work.pending) = SubSeq(more, n + 2, Len(more))
  BY <1>2, Rest DEF WorkOnEntry
<1>4. /\ e[1] \in Keys /\ e[2] \in Values /\ e = <<e[1], e[2]>>
      /\ Len(more) \in Nat /\ n \in Nat
  BY <1>3 DEF Entries
<1> HIDE DEF e
<1>5. work' = [work EXCEPT !.pending = Tail(@), !.result = Inserted(@, e[1], e[2])]
  BY <1>3 DEF WorkOnEntry, PuttingAll
<1>6. Inserted(work.result, e[1], e[2]).entries = Dictionary!Put(work.result.entries, e)
  BY <1>0, <1>4, InsertedPuts DEF Inserting
<1>7. Dictionary!After(d, more)[n + 1] = Dictionary!Put(Dictionary!After(d, more)[n], e)
  <2>1. Dictionary!After(d, more)[n + 1] =
          Dictionary!Put(Dictionary!After(d, more)[n + 1 - 1], more[n + 1])
    BY <1>3, AfterRounds
  <2>2. n + 1 - 1 = n
    BY <1>4
  <2> QED BY <2>1, <2>2 DEF e
<1>8. /\ work'.kind = "insert" /\ work'.result = Inserted(work.result, e[1], e[2])
      /\ work'.pending = Tail(work.pending)
  BY <1>0, <1>5 DEF Inserting
<1>9. work'.result.entries = Dictionary!After(d, more)[n + 1]
  BY <1>2, <1>6, <1>7, <1>8
<1>10. work'.pending = SubSeq(more, (n + 1) + 1, Len(more)) /\ n + 1 \in 0 .. Len(more)
  <2>1. (n + 1) + 1 = n + 2
    BY <1>4
  <2>2. n + 1 \in 0 .. Len(more)
    BY <1>3, <1>4
  <2>3. work'.pending = SubSeq(more, n + 2, Len(more))
    BY <1>3, <1>8
  <2> QED BY <2>1, <2>2, <2>3, Zenon
<1>11. Promised(d, more)'
  BY <1>1 DEF WorkOnEntry, Promised
<1> QED BY <1>8, <1>9, <1>10, <1>11 DEF PuttingAll

\* A round of a loop that filters is a round of Selection.
LEMMA SelectingRound ==
  ASSUME TableInv, Selecting, WorkOnEntry
  PROVE  Selecting'
<1>0. Keeping
  BY DEF TableInv, Selecting, NoWork, Inserting, WorkOnEntry
<1>1. PICK h \in Handles, g \in Handles :
        /\ work.other = tables[g]
        /\ \E n \in 0 .. Len(tables[h].entries) :
             /\ work.kept = Dictionary!Selection(tables[h].entries, Wanted(tables[g].entries))[n]
             /\ work.pending = SubSeq(tables[h].entries, n + 1, Len(tables[h].entries))
  BY DEF Selecting
<1> DEFINE d == tables[h].entries
           K == Wanted(tables[g].entries)
<1>2. PICK n \in 0 .. Len(d) : /\ work.kept = Dictionary!Selection(d, K)[n]
                               /\ work.pending = SubSeq(d, n + 1, Len(d))
  BY <1>1
<1>3. d \in Entries /\ WellFormed(tables[g])
  BY DEF TableInv, WellFormed, Table
<1> DEFINE e == d[n + 1]
           sel == Dictionary!Selection(d, K)
<1>u. tables' = tables
  BY DEF WorkOnEntry
<1> HIDE DEF d, K
<1>4. /\ n + 1 \in 1 .. Len(d) /\ Head(work.pending) = e
      /\ Tail(work.pending) = SubSeq(d, n + 2, Len(d))
  BY <1>2, <1>3, Rest DEF WorkOnEntry
<1>5. e[1] \in Keys /\ Len(d) \in Nat /\ n \in Nat
  BY <1>3, <1>4 DEF Entries
<1> HIDE DEF e
<1>6. work' = [work EXCEPT !.pending = Tail(@),
                           !.kept = IF HasKey(work.other, e[1]) = work.keep_present
                                    THEN Append(@, e) ELSE @]
  BY <1>4 DEF WorkOnEntry, Selecting
<1>7. work.keep_present \in BOOLEAN
  BY <1>0 DEF Keeping
<1>8. (HasKey(work.other, e[1]) = work.keep_present) <=> e[1] \in K
  <2>1. HasKey(work.other, e[1]) <=> e[1] \in Dictionary!KeysOf(tables[g].entries)
    BY <1>1, <1>3, <1>5, LookupsFindKeys DEF Dictionary!KeysOf
  <2>2. HasKey(work.other, e[1]) \in BOOLEAN
    BY DEF HasKey
  <2> QED BY <1>5, <1>7, <2>1, <2>2 DEF K, Wanted
<1>9. sel[n + 1] = IF e[1] \in K THEN Append(sel[n], e) ELSE sel[n]
  <2> HIDE DEF sel
  <2>1. \A i \in 1 .. Len(d) :
          sel[i] = IF d[i][1] \in K THEN Append(sel[i - 1], d[i]) ELSE sel[i - 1]
    BY <1>3, SelectionRounds DEF sel
  <2>2. n + 1 - 1 = n
    BY <1>5
  <2> QED BY <1>4, <2>1, <2>2 DEF e
<1>10. /\ work'.kind = "keep" /\ work'.other = work.other /\ work'.pending = Tail(work.pending)
       /\ work'.keep_present = work.keep_present
       /\ work'.kept = IF e[1] \in K THEN Append(work.kept, e) ELSE work.kept
  <2>1. \E kept : work' = [work EXCEPT !.pending = Tail(work.pending), !.kept = kept]
                  /\ kept = IF e[1] \in K THEN Append(work.kept, e) ELSE work.kept
    BY <1>6, <1>8
  <2>2. PICK kept : /\ work' = [work EXCEPT !.pending = Tail(work.pending), !.kept = kept]
                    /\ kept = IF e[1] \in K THEN Append(work.kept, e) ELSE work.kept
    BY <2>1
  <2> QED BY <1>0, <2>2 DEF Keeping
<1>11. work'.kept = sel[n + 1]
  BY <1>2, <1>9, <1>10
<1>12. work'.pending = SubSeq(d, (n + 1) + 1, Len(d)) /\ n + 1 \in 0 .. Len(d)
  <2>1. (n + 1) + 1 = n + 2
    BY <1>5
  <2> QED BY <1>4, <1>5, <1>10, <2>1
<1> HIDE DEF sel
<1>13. d = tables'[h].entries /\ work'.other = tables'[g]
  BY <1>1, <1>10, <1>u DEF d
<1>14. sel = Dictionary!Selection(tables'[h].entries, (IF work'.keep_present
              THEN Dictionary!KeysOf(tables'[g].entries)
              ELSE Keys \ Dictionary!KeysOf(tables'[g].entries)))
  BY <1>10, <1>u DEF sel, d, K, Wanted
<1> QED BY <1>10, <1>11, <1>12, <1>13, <1>14 DEF Selecting, Wanted

\* Every step leaves the work done so far a prefix of the work asked for.
LEMMA NextKeepsUnderway ==
  ASSUME TableInv, Underway, [TableNext]_<<tables, work>>
  PROVE  Underway'
<1>1. ASSUME NEW entries \in BoundedSeq(Keys \X Values, MaxLiteral), Literal(entries)
      PROVE  PuttingAll'
  <2>1. entries \in Entries /\ <<>> \in Entries
    BY <1>1 DEF BoundedSeq, SeqOf, Entries
  <2>2. /\ work'.kind = "insert" /\ work'.result.entries = <<>> /\ work'.pending = entries
    BY <1>1 DEF Literal, EmptyTable
  <2>3. Dictionary!After(<<>>, entries)[0] = <<>>
    BY <2>1, AfterRounds
  <2>4. work'.pending = SubSeq(entries, 0 + 1, Len(entries)) /\ 0 \in 0 .. Len(entries)
    BY <2>1, <2>2 DEF Entries
  <2>5. Promised(<<>>, entries)'
    BY <1>1 DEF Promised
  <2> QED BY <2>1, <2>2, <2>3, <2>4, <2>5 DEF PuttingAll
<1>2. ASSUME NEW h \in Handles, NEW other \in Handles, Merge(h, other)
      PROVE  PuttingAll'
  <2>0. tables[h].entries \in Entries /\ tables[other].entries \in Entries
    BY DEF TableInv, WellFormed, Table
  <2>1. PICK d \in Entries, more \in Entries : d = tables[h].entries /\ more = tables[other].entries
    BY <2>0
  <2>2. work'.kind = "insert" /\ work'.result.entries = d /\ work'.pending = more
    BY <1>2, <2>1 DEF Merge
  <2>3. Promised(d, more)'
    BY <1>2, <2>1 DEF Merge, Promised
  <2>4. Dictionary!After(d, more)[0] = d
    BY <2>1, AfterRounds
  <2>5. work'.pending = SubSeq(more, 0 + 1, Len(more)) /\ 0 \in 0 .. Len(more)
    BY <2>1, <2>2 DEF Entries
  <2> QED BY <2>1, <2>2, <2>3, <2>4, <2>5 DEF PuttingAll
<1>3. ASSUME NEW h \in Handles, NEW other \in Handles, NEW keep_present \in BOOLEAN,
             Filter(h, other, keep_present)
      PROVE  Selecting'
  <2> DEFINE d == tables[h].entries
  <2>1. d \in Entries /\ tables' = tables
    BY <1>3 DEF TableInv, WellFormed, Table, Filter
  <2>2. /\ work'.kind = "keep" /\ work'.kept = <<>> /\ work'.pending = d
        /\ work'.other = tables[other]
    BY <1>3 DEF Filter
  <2>d. d = tables'[h].entries /\ tables'[other] = tables[other]
    BY <2>1
  <2> HIDE DEF d
  <2>3. \A K : Dictionary!Selection(d, K)[0] = <<>>
    BY <2>1, SelectionRounds
  <2>4. work'.pending = SubSeq(d, 0 + 1, Len(d)) /\ 0 \in 0 .. Len(d)
    BY <2>1, <2>2 DEF Entries
  <2> DEFINE K == IF work'.keep_present THEN Dictionary!KeysOf(tables'[other].entries)
                  ELSE Keys \ Dictionary!KeysOf(tables'[other].entries)
  <2>5. work'.kept = Dictionary!Selection(d, K)[0]
    BY <2>2, <2>3
  <2> QED BY <2>2, <2>4, <2>5, <2>d DEF Selecting, Wanted
<1>4. ASSUME WorkOnEntry PROVE Underway'
  BY <1>4, PuttingRound, SelectingRound DEF Underway, WorkOnEntry
<1>5. ASSUME NEW dest \in Handles, WorkDone(dest) PROVE Underway'
  BY <1>5 DEF WorkDone, Underway
<1>6. ASSUME NEW h \in Handles, NEW k \in Keys, MapRemove(h, k) PROVE Underway'
  BY <1>6 DEF MapRemove, Underway
<1>7. ASSUME NEW h \in Handles, NEW k \in Keys, NEW v \in Values, MapInsert(h, k, v)
      PROVE  Underway'
  BY <1>7 DEF MapInsert, Small, Underway
<1>8. CASE UNCHANGED <<tables, work>>
  <2>1. UNCHANGED tables /\ UNCHANGED work
    BY <1>8
  <2>2. PuttingAll => PuttingAll'
    BY <2>1 DEF PuttingAll, Promised
  <2>3. Selecting => Selecting'
    BY <2>1 DEF Selecting, Wanted
  <2> QED BY <2>1, <2>2, <2>3 DEF Underway
<1> QED BY <1>1, <1>2, <1>3, <1>4, <1>5, <1>6, <1>7, <1>8 DEF TableNext, Underway

\* Every step of the tables is a step of their dictionaries, or none.
LEMMA StepIsDictionaryStep ==
  ASSUME TableInv, Underway, [TableNext]_<<tables, work>>
  PROVE  [Dictionary!DictionaryNext]_([h \in Handles |-> tables[h].entries])
<1> DEFINE dicts == [h \in Handles |-> tables[h].entries]
           same == tables' = tables
<1>0. tables \in [Handles -> Table] /\ \A h \in Handles : WellFormed(tables[h])
  BY DEF TableInv
<1>1. ASSUME same PROVE dicts' = dicts
  BY <1>1
<1>2. ASSUME NEW h \in Handles, NEW t, tables' = [tables EXCEPT ![h] = t]
      PROVE  dicts' = [dicts EXCEPT ![h] = t.entries]
  BY <1>0, <1>2
<1>b. Dictionary!BoundedSeq(Keys \X Values, MaxLiteral) = BoundedSeq(Keys \X Values, MaxLiteral)
  BY DEF BoundedSeq, SeqOf, Dictionary!BoundedSeq, Dictionary!SeqOf
<1> DEFINE to(h, d) == dicts' = [dicts EXCEPT ![h] = d]
           Step(h, g, dest) ==
             \/ \E k \in Keys, v \in Values : to(h, Dictionary!Put(dicts[h], <<k, v>>))
             \/ \E k \in Keys : to(h, Dictionary!Select(dicts[h], Keys \ {k}))
             \/ \E literal \in Dictionary!BoundedSeq(Keys \X Values, MaxLiteral) :
                  to(dest, Dictionary!PutAll(<<>>, literal))
             \/ to(dest, Dictionary!PutAll(dicts[h], dicts[g]))
             \/ to(dest, Dictionary!Select(dicts[h], Dictionary!KeysOf(dicts[g])))
             \/ to(dest, Dictionary!Select(dicts[h], Keys \ Dictionary!KeysOf(dicts[g])))
<1>s. (\E h, g, dest \in Handles : Step(h, g, dest)) => Dictionary!DictionaryNext
  BY Zenon DEF Dictionary!DictionaryNext, Dictionary!Becomes
<1>d. \A h \in Handles : dicts[h] = tables[h].entries
  OBVIOUS
<1> HIDE DEF dicts
<1>3. ASSUME NEW h \in Handles, NEW k \in Keys, NEW v \in Values, MapInsert(h, k, v)
      PROVE  Dictionary!DictionaryNext
  <2>1. tables' = [tables EXCEPT ![h] = Inserted(tables[h], k, v)]
    BY <1>0, <1>3 DEF MapInsert
  <2>2. dicts' = [dicts EXCEPT ![h] = Inserted(tables[h], k, v).entries]
    BY <1>2, <2>1
  <2>3. Inserted(tables[h], k, v).entries = Dictionary!Put(tables[h].entries, <<k, v>>)
    BY <1>0, InsertedPuts
  <2>4. to(h, Dictionary!Put(dicts[h], <<k, v>>))
    BY <1>d, <2>2, <2>3
  <2>5. Step(h, h, h)
    BY <2>4
  <2> HIDE DEF Step
  <2> QED BY <1>s, <2>5
<1>4. ASSUME NEW h \in Handles, NEW k \in Keys, MapRemove(h, k)
      PROVE  Dictionary!DictionaryNext
  <2>1. tables' = [tables EXCEPT ![h] = Removed(tables[h], k)]
    BY <1>0, <1>4 DEF MapRemove
  <2>2. dicts' = [dicts EXCEPT ![h] = Removed(tables[h], k).entries]
    BY <1>2, <2>1
  <2>3. Removed(tables[h], k).entries = Dictionary!Select(tables[h].entries, Keys \ {k})
    BY <1>0, RemovedSelects
  <2>4. to(h, Dictionary!Select(dicts[h], Keys \ {k}))
    BY <1>d, <2>2, <2>3
  <2>5. Step(h, h, h)
    BY <2>4
  <2> HIDE DEF Step
  <2> QED BY <1>s, <2>5
<1>5. ASSUME NEW dest \in Handles, WorkDone(dest)
      PROVE  Dictionary!DictionaryNext
  <2>1. CASE PuttingAll
    <3>1. PICK d \in Entries, more \in Entries :
            /\ Promised(d, more)
            /\ \E n \in 0 .. Len(more) : /\ work.result.entries = Dictionary!After(d, more)[n]
                                         /\ work.pending = SubSeq(more, n + 1, Len(more))
      BY <2>1 DEF PuttingAll
    <3>2. PICK n \in 0 .. Len(more) : /\ work.result.entries = Dictionary!After(d, more)[n]
                                      /\ work.pending = SubSeq(more, n + 1, Len(more))
      BY <3>1
    <3>3. n = Len(more)
      BY <1>5, <3>2, Rest DEF WorkDone
    <3>4. work.result.entries = Dictionary!PutAll(d, more)
      BY <3>2, <3>3 DEF Dictionary!PutAll
    <3>5. tables' = [tables EXCEPT ![dest] = work.result]
      BY <1>5, <2>1 DEF WorkDone, PuttingAll
    <3>6. dicts' = [dicts EXCEPT ![dest] = Dictionary!PutAll(d, more)]
      <4>1. dicts' = [dicts EXCEPT ![dest] = work.result.entries]
        BY <1>2, <3>5
      <4> QED BY <3>4, <4>1
    <3>7. CASE d = <<>> /\ more \in BoundedSeq(Keys \X Values, MaxLiteral)
      <4>1. \E literal \in Dictionary!BoundedSeq(Keys \X Values, MaxLiteral) :
              to(dest, Dictionary!PutAll(<<>>, literal))
        BY <1>b, <3>6, <3>7
      <4>2. Step(dest, dest, dest)
        BY <4>1
      <4> HIDE DEF Step
      <4> QED BY <1>s, <4>2
    <3>8. CASE \E h, g \in Handles : d = tables[h].entries /\ more = tables[g].entries
      <4>1. PICK h \in Handles, g \in Handles : d = tables[h].entries /\ more = tables[g].entries
        BY <3>8
      <4>2. to(dest, Dictionary!PutAll(dicts[h], dicts[g]))
        BY <1>d, <3>6, <4>1
      <4>3. Step(h, g, dest)
        BY <4>2
      <4> HIDE DEF Step
      <4> QED BY <1>s, <4>3
    <3> QED BY <3>1, <3>7, <3>8 DEF Promised
  <2>2. CASE Selecting
    <3>1. PICK h \in Handles, g \in Handles :
            /\ work.other = tables[g]
            /\ \E n \in 0 .. Len(tables[h].entries) :
                 /\ work.kept = Dictionary!Selection(tables[h].entries, Wanted(tables[g].entries))[n]
                 /\ work.pending = SubSeq(tables[h].entries, n + 1, Len(tables[h].entries))
      BY <2>2 DEF Selecting
    <3>2. PICK n \in 0 .. Len(tables[h].entries) :
            /\ work.kept = Dictionary!Selection(tables[h].entries, Wanted(tables[g].entries))[n]
            /\ work.pending = SubSeq(tables[h].entries, n + 1, Len(tables[h].entries))
      BY <3>1
    <3>3. tables[h].entries \in Entries
      BY <1>0 DEF Table
    <3>4. n = Len(tables[h].entries)
      BY <1>5, <3>2, <3>3, Rest DEF WorkDone
    <3>5. work.kept = Dictionary!Select(tables[h].entries, Wanted(tables[g].entries))
      BY <3>2, <3>4 DEF Dictionary!Select
    <3>6. tables' = [tables EXCEPT ![dest] = FromDistinct(work.kept)]
      BY <1>5, <2>2 DEF WorkDone, Selecting
    <3> DEFINE d == dicts[h]
               other == dicts[g]
    <3>7. dicts' = [dicts EXCEPT ![dest] = Dictionary!Select(d, Wanted(other))]
      <4>1. dicts' = [dicts EXCEPT ![dest] = FromDistinct(work.kept).entries]
        BY <1>2, <3>6
      <4>2. FromDistinct(work.kept).entries = work.kept
        BY DEF FromDistinct
      <4> QED BY <1>d, <3>5, <4>1, <4>2
    <3>10. CASE work.keep_present
      <4>1. Wanted(other) = Dictionary!KeysOf(other)
        BY <3>10 DEF Wanted
      <4>2. Step(h, g, dest)
        BY <3>7, <4>1
      <4> HIDE DEF Step
      <4> QED BY <1>s, <4>2
    <3>11. CASE ~work.keep_present
      <4>1. Wanted(other) = Keys \ Dictionary!KeysOf(other)
        BY <3>11 DEF Wanted
      <4>2. Step(h, g, dest)
        BY <3>7, <4>1
      <4> HIDE DEF Step
      <4> QED BY <1>s, <4>2
    <3> QED BY <3>10, <3>11
  <2> QED BY <1>5, <2>1, <2>2 DEF Underway, WorkDone
<1>6. ASSUME \/ \E entries \in BoundedSeq(Keys \X Values, MaxLiteral) : Literal(entries)
             \/ \E h, other \in Handles :
                  Merge(h, other) \/ \E keep_present \in BOOLEAN : Filter(h, other, keep_present)
             \/ WorkOnEntry
             \/ UNCHANGED <<tables, work>>
      PROVE  same
  BY <1>6 DEF Literal, Merge, Filter, WorkOnEntry
<1> HIDE DEF same
<1>7. Dictionary!DictionaryNext \/ dicts' = dicts
  BY <1>1, <1>3, <1>4, <1>5, <1>6 DEF TableNext
<1> QED BY <1>7 DEF dicts

\* Maps and sets are dictionaries in insertion order: what table.rs keeps
\* besides the entries - the index, the count of keys without a hash key, the
\* scan when there is one - is never observed, and every loop of the builtins
\* that makes a table of two others makes the one its name promises.
THEOREM TablesAreDictionaries == TableSpec => DictionarySpec
<1>1. TableInit => Dictionary!DictionaryInit
  BY DEF TableInit, EmptyTable, Dictionary!DictionaryInit
<1>2. TableInit => TableInv /\ Underway
  BY InitHasTableInv DEF TableInit, Underway
<1>3. TableInv /\ Underway /\ [TableNext]_<<tables, work>> => TableInv' /\ Underway'
  BY NextKeepsTableInv, NextKeepsUnderway
<1>4. TableInv /\ Underway /\ [TableNext]_<<tables, work>>
        => [Dictionary!DictionaryNext]_([h \in Handles |-> tables[h].entries])
  BY StepIsDictionaryStep
<1> QED BY <1>1, <1>2, <1>3, <1>4, PTL
        DEF TableSpec, DictionarySpec, Dictionary!DictionarySpec

=============================================================================

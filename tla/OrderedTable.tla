---------------------------- MODULE OrderedTable ----------------------------
(***************************************************************************)
(* Maps and sets (brasa_runtime/table.rs, and the builtins and             *)
(* instructions of brasa_vm that use them).                                *)
(*                                                                         *)
(* A table is its entries in insertion order and an index from the hash    *)
(* key of each to its position.  A key that has no hash key is counted,    *)
(* and while there is one every lookup scans the entries instead.          *)
(*                                                                         *)
(* Keys are taken up to value_eq, and a key's projection for the key       *)
(* itself: the trait asks that they agree.  OrderedSet is the same code    *)
(* without values.                                                         *)
(***************************************************************************)
EXTENDS Integers, Sequences, FiniteSets, SequencesExt

CONSTANTS
  Keys,
  Projectable,   \* the keys with a hash key
  Values,
  Handles,       \* the program's maps
  MaxLiteral,    \* bound: entries of a literal
  MaxEntries     \* bound: entries of two maps, for more to be made

ASSUME ProjectableAssumption == Projectable \subseteq Keys

VARIABLES
  tables,   \* handle |-> [entries, index, unprojectable]
  work      \* what a literal, merge or set operation has left to do

Nowhere == 0
NoWork == [kind |-> "idle"]

EmptyTable == [entries |-> <<>>, index |-> [k \in Projectable |-> Nowhere], unprojectable |-> 0]

TableInit == tables = [h \in Handles |-> EmptyTable] /\ work = NoWork

-----------------------------------------------------------------------------
\* position
Position(t, k) ==
  IF t.unprojectable = 0 /\ k \in Projectable
  THEN t.index[k]
  ELSE IF \E i \in DOMAIN t.entries : t.entries[i][1] = k
  THEN CHOOSE i \in DOMAIN t.entries :
         t.entries[i][1] = k /\ \A j \in 1 .. i - 1 : t.entries[j][1] # k
  ELSE Nowhere

HasKey(t, k) == Position(t, k) # Nowhere

\* Faulty variant: a key that is there already moves to the end.
Inserted_MovesToEnd(t, k, v) ==
  LET entries == Append(SelectSeq(t.entries, LAMBDA e : e[1] # k), <<k, v>>)
  IN  [entries |-> entries,
       index |-> [p \in Projectable |->
                    IF \E i \in DOMAIN entries : entries[i][1] = p
                    THEN CHOOSE i \in DOMAIN entries : entries[i][1] = p ELSE Nowhere],
       unprojectable |-> Cardinality({i \in DOMAIN entries : entries[i][1] \notin Projectable})]

\* insert, and add for a set.
Inserted(t, k, v) ==
  IF HasKey(t, k)
  THEN [t EXCEPT !.entries[Position(t, k)] = <<@[1], v>>]
  ELSE [entries |-> Append(t.entries, <<k, v>>),
        index |-> IF k \in Projectable THEN [t.index EXCEPT ![k] = Len(t.entries) + 1]
                  ELSE t.index,
        unprojectable |-> IF k \in Projectable THEN t.unprojectable ELSE t.unprojectable + 1]

Without(s, ix) == [i \in 1 .. Len(s) - 1 |-> IF i < ix THEN s[i] ELSE s[i + 1]]

\* Faulty variant: the positions behind the removed entry are kept.
Removed_KeepsPositions(t, k) ==
  IF ~HasKey(t, k) THEN t
  ELSE LET ix == Position(t, k)
       IN  [entries |-> Without(t.entries, ix),
            index |-> IF k \in Projectable THEN [t.index EXCEPT ![k] = Nowhere] ELSE t.index,
            unprojectable |-> IF k \in Projectable THEN t.unprojectable
                              ELSE t.unprojectable - 1]

\* remove
Removed(t, k) ==
  IF ~HasKey(t, k) THEN t
  ELSE LET ix == Position(t, k)
           left == IF k \in Projectable THEN [t.index EXCEPT ![k] = Nowhere] ELSE t.index
       IN  [entries |-> Without(t.entries, ix),
            index |-> [p \in Projectable |-> IF left[p] > ix THEN left[p] - 1 ELSE left[p]],
            unprojectable |-> IF k \in Projectable THEN t.unprojectable
                              ELSE t.unprojectable - 1]

\* from_distinct_entries: a later duplicate would win in the index.
FromDistinct(entries) ==
  [entries |-> entries,
   index |-> [k \in Projectable |->
     IF \E i \in DOMAIN entries : entries[i][1] = k
     THEN CHOOSE i \in DOMAIN entries :
            entries[i][1] = k /\ \A j \in i + 1 .. Len(entries) : entries[j][1] # k
     ELSE Nowhere],
   unprojectable |-> Cardinality({i \in DOMAIN entries : entries[i][1] \notin Projectable})]

-----------------------------------------------------------------------------
(* The program.                                                              *)

Small ==
  /\ work = NoWork
  /\ \A g, h \in Handles :
       g # h => Len(tables[g].entries) + Len(tables[h].entries) =< MaxEntries

MapInsert(h, k, v) ==
  /\ Small
  /\ tables' = [tables EXCEPT ![h] = Inserted(@, k, v)]
  /\ UNCHANGED work

MapRemove(h, k) ==
  /\ work = NoWork
  /\ tables' = [tables EXCEPT ![h] = Removed(@, k)]
  /\ UNCHANGED work

\* MakeMap, MakeSetFromVector: every entry is inserted into an empty table.
Literal(entries) ==
  /\ Small
  /\ work' = [kind |-> "insert", result |-> EmptyTable, pending |-> entries]
  /\ UNCHANGED tables

\* merge, union: into a copy of the receiver, the argument's entries.
Merge(h, other) ==
  /\ Small
  /\ work' = [kind |-> "insert", result |-> tables[h],
              pending |-> tables[other].entries]
  /\ UNCHANGED tables

\* intersect, diff: the receiver's entries that the argument has, or has not.
Filter(h, other, keep_present) ==
  /\ Small
  /\ work' = [kind |-> "keep", kept |-> <<>>, other |-> tables[other],
              keep_present |-> keep_present, pending |-> tables[h].entries]
  /\ UNCHANGED tables

\* One round of any of these loops.
WorkOnEntry ==
  /\ work # NoWork /\ work.pending # <<>>
  /\ LET e == Head(work.pending)
         keeps == HasKey(work.other, e[1]) = work.keep_present
     IN  work' = IF work.kind = "insert"
                 THEN [work EXCEPT !.pending = Tail(@), !.result = Inserted(@, e[1], e[2])]
                 ELSE [work EXCEPT !.pending = Tail(@),
                                   !.kept = IF keeps THEN Append(@, e) ELSE @]
  /\ UNCHANGED tables

\* alloc_map, alloc_set: a new value, that the program keeps where it likes.
WorkDone(dest) ==
  /\ work # NoWork /\ work.pending = <<>>
  /\ tables' = [tables EXCEPT ![dest] =
                  IF work.kind = "insert" THEN work.result ELSE FromDistinct(work.kept)]
  /\ work' = NoWork

TableNext ==
  \/ \E h \in Handles, k \in Keys : MapRemove(h, k) \/ \E v \in Values : MapInsert(h, k, v)
  \/ \E entries \in BoundedSeq(Keys \X Values, MaxLiteral) : Literal(entries)
  \/ \E h, other \in Handles :
       Merge(h, other) \/ \E keep_present \in BOOLEAN : Filter(h, other, keep_present)
  \/ WorkOnEntry
  \/ \E dest \in Handles : WorkDone(dest)

TableSpec == TableInit /\ [][TableNext]_<<tables, work>>

-----------------------------------------------------------------------------
(* What a table promises.                                                    *)

\* A lookup through the index, or around it, finds what a scan of the entries
\* would, and no key is there twice.
Exact(t) ==
  /\ \A i, j \in DOMAIN t.entries : t.entries[i][1] = t.entries[j][1] => i = j
  /\ \A k \in Keys :
       LET p == Position(t, k)
       IN  IF \E i \in DOMAIN t.entries : t.entries[i][1] = k
           THEN p \in DOMAIN t.entries /\ t.entries[p][1] = k
           ELSE p = Nowhere

LookupsAreExact == \A h \in Handles : Exact(tables[h])

\* A map is a dictionary in insertion order: the index cannot be observed.
Dictionary == INSTANCE OrderedDictionary WITH
  dictionaries <- [h \in Handles |-> tables[h].entries]

DictionarySpec == Dictionary!DictionarySpec
=============================================================================

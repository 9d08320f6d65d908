-------------------------- MODULE OrderedDictionary --------------------------
(***************************************************************************)
(* What brasa_runtime/table.rs promises: a Map is a sequence of entries in *)
(* insertion order with distinct keys.  An existing key keeps its place    *)
(* and takes the last value; nothing but the sequence can be observed.     *)
(* A Set is a Map with one value.                                          *)
(***************************************************************************)
EXTENDS Integers, Sequences, SequencesExt

CONSTANTS Keys, Values, Handles, MaxLiteral

VARIABLE dictionaries    \* handle |-> entries, each <<key, value>>

Has(d, k) == \E i \in DOMAIN d : d[i][1] = k

Put(d, e) ==
  IF Has(d, e[1]) THEN [i \in DOMAIN d |-> IF d[i][1] = e[1] THEN e ELSE d[i]]
  ELSE Append(d, e)

\* A dictionary after the first i of some more entries.
After(d, more) ==
  LET after[i \in 0 .. Len(more)] == IF i = 0 THEN d ELSE Put(after[i - 1], more[i])
  IN  after

PutAll(d, more) == After(d, more)[Len(more)]

\* The entries with a key in K, of the first i.
Selection(d, K) ==
  LET kept[i \in 0 .. Len(d)] ==
        IF i = 0 THEN <<>>
        ELSE IF d[i][1] \in K THEN Append(kept[i - 1], d[i]) ELSE kept[i - 1]
  IN  kept

Select(d, K) == Selection(d, K)[Len(d)]

KeysOf(d) == {k \in Keys : Has(d, k)}

DictionaryInit == dictionaries = [h \in Handles |-> <<>>]

Becomes(h, d) == dictionaries' = [dictionaries EXCEPT ![h] = d]

DictionaryNext ==
  \E h, g, dest \in Handles :
    LET d == dictionaries[h]
        other == dictionaries[g]
    IN  \/ \E k \in Keys, v \in Values : Becomes(h, Put(d, <<k, v>>))
        \/ \E k \in Keys : Becomes(h, Select(d, Keys \ {k}))
        \/ \E literal \in BoundedSeq(Keys \X Values, MaxLiteral) :
             Becomes(dest, PutAll(<<>>, literal))
        \/ Becomes(dest, PutAll(d, other))
        \/ Becomes(dest, Select(d, KeysOf(other)))
        \/ Becomes(dest, Select(d, Keys \ KeysOf(other)))

DictionarySpec == DictionaryInit /\ [][DictionaryNext]_dictionaries
=============================================================================

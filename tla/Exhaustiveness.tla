--------------------------- MODULE Exhaustiveness ---------------------------
(***************************************************************************)
(* The exhaustiveness check of match (brasa_typeck/exhaust.rs), for a      *)
(* match that is being written arm by arm.                                 *)
(*                                                                         *)
(* A type is <<"bool">>, <<"option", t>>, <<"tuple", ts>>,                 *)
(* <<"enum", name, args>>, <<"param", i>> in the declaration of an enum,   *)
(* or <<"open">>: a type whose values no patterns can all name.  A pattern *)
(* and a value are both a constructor over parts; the constructors of the  *)
(* open type are its literals.                                             *)
(***************************************************************************)
EXTENDS Integers, Sequences
LOCAL INSTANCE SequencesExt
LOCAL INSTANCE FiniteSetsExt

CONSTANTS
  Enums,        \* per enum, the field types of each variant
  Scrutinees,   \* the types matched on, none of them Unknown or Never
  MaxArms       \* bound

VARIABLES type, arms

MAX_WITNESSES == 3

Term(ctor, parts) == [ctor |-> ctor, parts |-> parts]
Wild == Term(<<"wildcard">>, <<>>)
OpaqueLit == <<"literal">>
Listed(s) == s \o <<>>
Each(s, Op(_)) == Listed([i \in DOMAIN s |-> Op(s[i])])
Wilds(n) == Listed([i \in 1 .. n |-> Wild])

\* The field types of a variant for the arguments of its enum.
RECURSIVE Substitute(_, _)
Substitute(t, args) ==
  LET inside(ts) == Each(ts, LAMBDA u : Substitute(u, args))
  IN  CASE t[1] = "param" -> args[t[2]]
        [] t[1] = "option" -> <<"option", Substitute(t[2], args)>>
        [] t[1] = "tuple" -> <<"tuple", inside(t[2])>>
        [] t[1] = "enum" -> <<"enum", t[2], inside(t[3])>>
        [] OTHER -> t
variant_field_types(t, k) == Each(Enums[t[2]][k], LAMBDA f : Substitute(f, t[3]))

\* The constructors of a type, each with the types of its fields; none when
\* the type is open.
constructor_universe(t) ==
  CASE t[1] = "bool" -> <<[ctor |-> <<"true">>, fields |-> <<>>], [ctor |-> <<"false">>, fields |-> <<>>]>>
    [] t[1] = "option" -> <<[ctor |-> <<"some">>, fields |-> <<t[2]>>], [ctor |-> <<"none">>, fields |-> <<>>]>>
    [] t[1] = "tuple" -> <<[ctor |-> <<"tuple">>, fields |-> t[2]]>>
    [] t[1] = "enum" ->
         Listed([k \in DOMAIN Enums[t[2]] |->
                   [ctor |-> <<"variant", k>>, fields |-> variant_field_types(t, k)]])
    [] t[1] = "open" -> <<>>
IsOpen(t) == t[1] = "open"

-----------------------------------------------------------------------------
\* A pattern as a row entry.  What does not fit the type is reported
\* elsewhere, and covers everything here.
RECURSIVE lower(_, _)
lower(p, t) ==
  LET named == SelectSeq(constructor_universe(t), LAMBDA u : u.ctor = p.ctor)
  IN  IF p.ctor[1] = "literal"
      THEN IF IsOpen(t) THEN Term(OpaqueLit, <<>>) ELSE Wild
      ELSE IF p = Wild \/ named = <<>> \/ Len(named[1].fields) # Len(p.parts) THEN Wild
      ELSE Term(p.ctor, Listed([i \in DOMAIN p.parts |-> lower(p.parts[i], named[1].fields[i])]))

\* Faulty variant: a wildcard says nothing of the fields it covers.
specialize_DropsWildcards(matrix, ctor, arity) ==
  LET kept == SelectSeq(matrix, LAMBDA row : row[1].ctor = ctor)
  IN  Each(kept, LAMBDA row : row[1].parts \o Tail(row))

\* The rows that a value of the constructor may match, its fields in columns
\* of their own.
specialize(matrix, ctor, arity) ==
  LET kept == SelectSeq(matrix, LAMBDA row : row[1] \in {Wild, Term(ctor, row[1].parts)})
  IN  Each(kept, LAMBDA row : (IF row[1] = Wild THEN Wilds(arity) ELSE row[1].parts) \o Tail(row))

AtMost(s, n) == SubSeq(s, 1, Min({Len(s), n}))

\* Rows of patterns that no row of the matrix covers, up to MAX_WITNESSES,
\* and how many there are.
RECURSIVE witnesses(_, _)
witnesses(matrix, types) ==
  LET universe == constructor_universe(types[1])
      heads == {matrix[i][1].ctor : i \in DOMAIN matrix} \ {Wild.ctor}
      missing == SelectSeq(universe, LAMBDA u : u.ctor \notin heads)
      \* The cases of a constructor that some row names.
      under(u) ==
        LET n == Len(u.fields)
            below == witnesses(specialize(matrix, u.ctor, n), u.fields \o Tail(types))
        IN  [rows |-> Each(below.rows, LAMBDA row :
                        <<Term(u.ctor, SubSeq(row, 1, n))>> \o SubSeq(row, n + 1, Len(row))),
             total |-> below.total]
      \* The constructors that none names, over what the wildcards leave.
      unnamed == IF IsOpen(types[1]) THEN <<Wild>>
                 ELSE Each(missing, LAMBDA u : Term(u.ctor, Wilds(Len(u.fields))))
      default == SelectSeq(matrix, LAMBDA row : row[1] = Wild)
      rest == witnesses(Each(default, LAMBDA row : Tail(row)), Tail(types))
      found ==
        IF ~IsOpen(types[1]) /\ missing = <<>> THEN Each(universe, LAMBDA u : under(u))
        ELSE Each(unnamed, LAMBDA head :
               [rows |-> Each(rest.rows, LAMBDA row : <<head>> \o row), total |-> rest.total])
  IN  IF types = <<>>
      THEN IF matrix = <<>> THEN [rows |-> <<<<>>>>, total |-> 1] ELSE [rows |-> <<>>, total |-> 0]
      ELSE [rows |-> AtMost(FlattenSeq(Each(found, LAMBDA w : w.rows)), MAX_WITNESSES),
            total |-> FoldLeft(LAMBDA n, w : n + w.total, 0, found)]

\* The cases of a match on a type; an arm with a guard covers nothing.
Counted(written) == SelectSeq(written, LAMBDA a : ~a.guarded)
missing_cases(t, written) ==
  witnesses(Each(Counted(written), LAMBDA a : <<lower(a.pattern, t)>>), <<t>>)

-----------------------------------------------------------------------------
(* Matches, from patterns of the type, to a depth, and literals anywhere.    *)
Products(sets) == FoldLeft(LAMBDA rows, S : {Append(r, x) : r \in rows, x \in S}, {<<>>}, sets)

RECURSIVE TermsOf(_, _, _)
TermsOf(t, depth, any) ==    \* any: the terms that may stand for every type
  any \cup
    IF IsOpen(t) THEN {Term(<<"literal", n>>, <<>>) : n \in {0} \cup (IF any = {} THEN {1} ELSE {})}
    ELSE IF depth = 0 THEN {}
    ELSE LET universe == constructor_universe(t)
         IN  UNION {{Term(universe[k].ctor, parts) :
                       parts \in Products(Each(universe[k].fields, LAMBDA f : TermsOf(f, depth - 1, any)))} :
                    k \in DOMAIN universe}

MatchInit == type \in Scrutinees /\ arms = <<>>
WriteArm ==
  /\ Len(arms) < MaxArms
  /\ \E p \in TermsOf(type, 2, {Wild}), guarded \in BOOLEAN :
       arms' = Append(arms, [pattern |-> p, guarded |-> guarded])
  /\ UNCHANGED type

-----------------------------------------------------------------------------
\* What the program does: a pattern and a value fit part by part.
RECURSIVE Fits(_, _)
Fits(p, v) ==
  p = Wild \/ (p.ctor = v.ctor /\ \A i \in DOMAIN p.parts : Fits(p.parts[i], v.parts[i]))

(***************************************************************************)
(* The check is exact: it reports nothing of a match exactly when every    *)
(* value meets an arm, whatever the guards say; every case it names stands *)
(* for a value that may fall through all of them, no value for two of the  *)
(* cases, and it names as many as it counts, up to MAX_WITNESSES.          *)
(***************************************************************************)
MissingCasesAreExact ==
  LET missing == missing_cases(type, arms)
      cases == Each(missing.rows, LAMBDA row : row[1])
      values == TermsOf(type, 4, {})
      \* A guard may always refuse.
      unmet == {v \in values : \A i \in DOMAIN arms : arms[i].guarded \/ ~Fits(arms[i].pattern, v)}
  IN  /\ missing.total = 0 <=> unmet = {}
      /\ Len(cases) = Min({missing.total, MAX_WITNESSES})
      /\ \A i \in DOMAIN cases :
           /\ \E v \in unmet : Fits(cases[i], v)
           /\ \A j \in DOMAIN cases \ {i}, v \in values : ~(Fits(cases[i], v) /\ Fits(cases[j], v))
=============================================================================

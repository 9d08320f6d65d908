------------------------------- MODULE Types -------------------------------
(***************************************************************************)
(* Types (brasa_typeck/types.rs), and what is declared of structs, enums,  *)
(* interfaces and type parameters.                                         *)
(*                                                                         *)
(* A type is a constructor over argument types; the arguments of a         *)
(* function type are its parameters and then its result.                   *)
(***************************************************************************)
EXTENDS Integers, Sequences, FiniteSets, SequencesExt, FiniteSetsExt, TLC

CONSTANTS
  StructDefs,    \* of each struct, its generics and its fields: <<name, type>>
  EnumDefs,      \* of each enum, its generics and its variants' field types
  Interfaces     \* of each interface, its members: [name, sig, throws]

\* The same sequence, with its elements computed.
Sequence(s) == s \o <<>>

T(con, args) == [con |-> con, args |-> args]
TInt == T(<<"int">>, <<>>)
TBool == T(<<"bool">>, <<>>)
TString == T(<<"string">>, <<>>)
TUnit == T(<<"unit">>, <<>>)
TRange == T(<<"range">>, <<>>)
NativeError == T(<<"NativeError">>, <<>>)
Never == T(<<"never">>, <<>>)        \* of what does not come to a value
Unknown == T(<<"unknown">>, <<>>)    \* of what is deferred, or was reported
TVector(elem) == T(<<"vector">>, <<elem>>)
TOption(inner) == T(<<"option">>, <<inner>>)
TTuple(elems) == T(<<"tuple">>, elems)
TFn(params, ret) == T(<<"fn">>, Append(params, ret))
TStruct(name, args) == T(<<"struct", name>>, args)
TEnum(name, args) == T(<<"enum", name>>, args)
\* The i-th type parameter of its owner: <<"fn", f>>, <<"struct", name>> or
\* <<"enum", name>>; and, in an interface, the type that satisfies it.
Generic(owner, i) == T(<<"generic", owner, i>>, <<>>)
Self == Generic(<<"self">>, 1)
Common(alts) == T(<<"common", alts>>, <<>>)

Flexible(t) == t \in {Unknown, Never}
IsFn(t) == t.con = <<"fn">>
Params(t) == Front(t.args)
Ret(t) == Last(t.args)
Is(t, con) == t.con[1] = con
Same(t, u) == t.con = u.con /\ Len(t.args) = Len(u.args)

-----------------------------------------------------------------------------
(* Joins and substitution.  A join that may be missing is a sequence of none *)
(* or one.                                                                   *)

RECURSIVE unify(_, _)
unify(a, b) ==
  LET parts == Sequence([i \in DOMAIN a.args |-> unify(a.args[i], b.args[i])])
  IN  IF a = Unknown THEN <<b>>
      ELSE IF b = Unknown THEN <<a>>
      ELSE IF a = Never THEN <<b>>
      ELSE IF b = Never THEN <<a>>
      ELSE IF ~Same(a, b) THEN <<>>
      ELSE IF <<>> \in ToSet(parts) THEN <<>>
      ELSE <<T(a.con, FlattenSeq(parts))>>
Unifies(a, b) == unify(a, b) # <<>>

RECURSIVE TypesIn(_)
TypesIn(t) == {t} \cup UNION {TypesIn(t.args[i]) : i \in DOMAIN t.args}

IsGenericOf(t, owner) == Is(t, "generic") /\ t.con[2] = owner
contains_generic_of(t, owner) == \E u \in TypesIn(t) : IsGenericOf(u, owner)
instantiates(t) == \A u \in TypesIn(t) : ~Flexible(u) /\ ~Is(u, "generic")

\* map: the types found for some of the owner's parameters.
RECURSIVE substitute(_, _, _)
substitute(t, owner, map) ==
  IF IsGenericOf(t, owner) /\ t.con[3] \in DOMAIN map THEN map[t.con[3]]
  ELSE T(t.con, Sequence([i \in DOMAIN t.args |-> substitute(t.args[i], owner, map)]))

-----------------------------------------------------------------------------
(* Declarations.  A constraint is <<>> (none), <<"builtin", name>>,          *)
(* <<"interface", name>> or <<"inline", members>>.  A throws clause is a     *)
(* sequence of none or one set of the errors it names.                       *)

Fields(name) == [i \in DOMAIN StructDefs[name].fields |-> StructDefs[name].fields[i][1]]
\* The function that is a struct's method of that name, or 0.
struct_method(struct, name, functions) ==
  SelectInSeq(functions, LAMBDA f : f.method = <<struct, name>>)

GenericsOf(owner, functions) ==
  CASE owner[1] = "fn" -> functions[owner[2]].generics
    [] owner[1] = "struct" -> StructDefs[owner[2]].generics
    [] owner[1] = "enum" -> EnumDefs[owner[2]].generics
Args(owner, functions) ==
  Sequence([i \in DOMAIN GenericsOf(owner, functions) |-> Generic(owner, i)])

ConstraintOf(generic, functions) == GenericsOf(generic.con[2], functions)[generic.con[3]]
generic_has_builtin(t, builtin, functions) ==
  Is(t, "generic") /\ ConstraintOf(t, functions) = <<"builtin", builtin>>

\* An unconstrained parameter's is <<>>.
ConstraintMembers(constraint) ==
  CASE constraint = <<>> -> <<>>
    [] constraint[1] = "interface" -> Interfaces[constraint[2]]
    [] constraint[1] = "inline" -> constraint[2]
    [] constraint[1] = "builtin" -> <<>>

\* The errors that builtin methods raise.
method_throws(recv, name) ==
  IF recv = TString /\ name = "toInt" THEN {"string.ParseError"} ELSE {}
=============================================================================

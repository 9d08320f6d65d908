---------------------------- MODULE TypeChecker ----------------------------
(***************************************************************************)
(* The type checker (brasa_typeck/check.rs).  It goes through a tree with  *)
(* a state:                                                                *)
(*   ty       the type of what was checked last                            *)
(*   locals   the types of the locals                                      *)
(*   mutable  those that may be assigned                                   *)
(*   ok       nothing has been reported                                    *)
(*   gap      something was let through without a type to hold it against  *)
(*   uses     the pairs of a struct and an interface it was taken for      *)
(* and what surrounds the code: the program's functions, ret_ty,           *)
(* loop_depth, and whether it is in_lambda.  Every operator that checks    *)
(* something gives the state back.  Messages and spans are left out: a     *)
(* report is only that ok is lost, and what comes after it is passed over. *)
(* A tree carries what code generation reads in the tables the checker     *)
(* fills (which types a throw, a method's receiver and an ordering's       *)
(* operands have): here a tree that carries something else is reported.    *)
(***************************************************************************)
EXTENDS Hir

-----------------------------------------------------------------------------
(* The solving of type parameters.  An expectation that may be missing is a  *)
(* sequence of none or one type.                                             *)

\* A solution in the making: map, the parameters met only by a flexible type
\* (poisoned), and whether the last type solved fits.
Unsolved == [map |-> <<>>, poisoned |-> {}, fits |-> TRUE]

RECURSIVE solve(_, _, _, _)
solve(expected, found, owner, m) ==
  IF IsGenericOf(expected, owner)
  THEN LET i == expected.con[3]
       IN  IF i \in DOMAIN m.map THEN [m EXCEPT !.fits = Unifies(m.map[i], found)]
           ELSE IF Flexible(found) THEN [m EXCEPT !.poisoned = @ \cup {i}]
           ELSE [m EXCEPT !.map = (i :> found) @@ @]
  ELSE IF Flexible(expected) \/ Flexible(found) THEN m
  ELSE IF ~Same(expected, found) \/ expected.args = <<>>
  THEN [m EXCEPT !.fits = Unifies(expected, found)]
  ELSE FoldLeft(LAMBDA n, i : IF n.fits THEN solve(expected.args[i], found.args[i], owner, n) ELSE n,
                m, [i \in DOMAIN expected.args |-> i])

\* What the arguments left open, from the type the context expects.
solve_from_expectation(ret, expected, owner, generics, m) ==
  LET candidate == solve(ret, expected[1], owner, [m EXCEPT !.fits = TRUE])
  IN  IF expected = <<>> \/ DOMAIN m.map = DOMAIN generics THEN m
      ELSE IF instantiates(expected[1]) /\ candidate.fits THEN [m EXCEPT !.map = candidate.map]
      ELSE m

-----------------------------------------------------------------------------
(* Declarations.  A method is a function whose method field is its struct    *)
(* and its name; its first parameter is self, which its types leave out.     *)

report(s) == [s EXCEPT !.ok = FALSE]
typed(s, t) == [s EXCEPT !.ty = t]
poison(s) == typed(report(s), Unknown)
reportUnless(holds, s) == IF holds THEN s ELSE report(s)

func_sig(function) == TFn(function.types, function.ret)
FieldType(name, field) ==
  LET found == SelectSeq(StructDefs[name].fields, LAMBDA f : f[1] = field)
  IN  Sequence([i \in DOMAIN found |-> found[i][2]])
variant_fields(k) == EnumDefs[k[1]].variants[k[2]]

\* A member: "value", "method" (a generic one, f), "deferred" or "missing";
\* or "vector_of_ret", a builtin's that makes a vector of its argument's results.
Member(kind, ty) == [kind |-> kind, ty |-> ty, f |-> 0]
Missing == Member("missing", Unknown)
Derived(name) == IF name = "toString" THEN Member("value", TFn(<<>>, TString)) ELSE Missing

\* builtins::method and record_member, as far as the programs need them.
builtin_member(recv, name) ==
  CASE Is(recv, "vector") /\ name = "len" -> Member("value", TFn(<<>>, TInt))
    [] Is(recv, "vector") /\ name = "map" ->
         Member("vector_of_ret", TFn(<<TFn(recv.args, Unknown)>>, TVector(Unknown)))
    [] recv = TString /\ name = "toInt" -> Member("value", TFn(<<>>, TInt))
    [] recv = NativeError /\ name = "message" -> Member("value", TString)
    [] OTHER -> Derived(name)

iface_member_fn(member, self) == substitute(member.sig, <<"self">>, <<self>>)

lookup_struct_member(recv, name, functions) ==
  LET owner == recv.con
      inside(t) == substitute(t, owner, recv.args)
      field == FieldType(owner[2], name)
      f == struct_method(owner[2], name, functions)
      sig == inside(func_sig(functions[f]))
  IN  IF field # <<>> THEN Member("value", inside(field[1]))
      ELSE IF f = 0 THEN Derived(name)
      ELSE IF functions[f].generics = <<>> THEN Member("value", sig)
      ELSE [Member("method", sig) EXCEPT !.f = f]

lookup_generic_member(recv, name, functions) ==
  LET members == SelectSeq(ConstraintMembers(ConstraintOf(recv, functions)), LAMBDA m : m.name = name)
  IN  IF members # <<>> THEN Member("value", iface_member_fn(members[1], recv)) ELSE Derived(name)

RECURSIVE lookup_member(_, _, _)

\* What every alternative offers, with types they agree on.
lookup_common_member(alts, name, functions) ==
  LET found == Sequence([i \in DOMAIN alts |-> lookup_member(alts[i], name, functions)])
      agreed == FoldLeft(LAMBDA t, m : IF t = <<>> THEN t ELSE unify(t[1], m.ty), <<Unknown>>, found)
  IN  IF \/ \E i \in DOMAIN found : found[i].kind \in {"deferred", "missing", "method"}
         \/ agreed = <<>>
      THEN Missing ELSE Member("value", agreed[1])

lookup_member(recv, name, functions) ==
  CASE Flexible(recv) -> Member("deferred", Unknown)
    [] Is(recv, "struct") -> lookup_struct_member(recv, name, functions)
    [] Is(recv, "generic") -> lookup_generic_member(recv, name, functions)
    [] Is(recv, "common") -> lookup_common_member(recv.con[2], name, functions)
    [] OTHER -> builtin_member(recv, name)

-----------------------------------------------------------------------------
(* Constraints.                                                              *)

member_matches(candidate, name, required, functions) ==
  LET found == lookup_member(candidate, name, functions)
  IN  \/ found.kind = "deferred"
      \/ found.kind # "missing" /\ IsFn(found.ty) /\ Unifies(required, found.ty)

\* A throws clause: none, or the errors it names; throws never names none.
NamesErrors(throws) == throws # <<>> /\ throws[1] # {}
member_declares_throws(candidate, name, functions) ==
  \/ /\ Is(candidate, "struct")
     /\ LET f == struct_method(candidate.con[2], name, functions)
        IN  f # 0 /\ NamesErrors(functions[f].throws)
  \/ /\ Is(candidate, "generic")
     /\ LET members == ConstraintMembers(ConstraintOf(candidate, functions))
        IN  \E i \in DOMAIN members : members[i].name = name /\ NamesErrors(members[i].throws)

RECURSIVE hashable(_, _)
hashable(t, functions) ==
  \/ t \in {TInt, TString, TBool}
  \/ Is(t, "tuple") /\ \A i \in DOMAIN t.args : hashable(t.args[i], functions)
  \/ generic_has_builtin(t, "Hashable", functions)

builtin_member_honours_throws(candidate, member) ==
  member.throws # <<>> => method_throws(candidate, member.name) \subseteq member.throws[1]

satisfies_members(candidate, members, named, functions) ==
  \A i \in DOMAIN members :
    /\ member_matches(candidate, members[i].name, iface_member_fn(members[i], candidate), functions)
    /\ named => builtin_member_honours_throws(candidate, members[i])

satisfies(candidate, constraint, functions) ==
  CASE constraint = <<"builtin", "Comparable">> ->
         \/ candidate \in {TInt, TString}
         \/ generic_has_builtin(candidate, "Comparable", functions)
         \/ /\ member_matches(candidate, "cmp", TFn(<<candidate>>, TInt), functions)
            /\ ~member_declares_throws(candidate, "cmp", functions)
    [] constraint = <<"builtin", "Hashable">> -> hashable(candidate, functions)
    [] constraint[1] = "builtin" -> TRUE
    [] constraint[1] = "interface" ->
         \/ Is(candidate, "generic") /\ ConstraintOf(candidate, functions) = constraint
         \/ satisfies_members(candidate, Interfaces[constraint[2]], TRUE, functions)
    [] OTHER -> satisfies_members(candidate, constraint[2], FALSE, functions)

\* Faulty variant: a solution is never held against its constraint.
check_constraints_Skipped(generics, map, s) == s

check_constraints(generics, map, s) ==
  LET held == {i \in DOMAIN generics \cap DOMAIN map : generics[i] # <<>> /\ ~Flexible(map[i])}
      uses == {<<map[i].con[2], generics[i][2]>> :
                 i \in {j \in held : Is(map[j], "struct") /\ generics[j][1] = "interface"}}
  IN  [reportUnless(\A i \in held : satisfies(map[i], generics[i], s.functions), s)
         EXCEPT !.uses = @ \cup uses]

\* conv: an annotation, which is reported when it names a type no value has.
conv(t, s) ==
  LET made == {u \in TypesIn(t) : Is(u, "struct") \/ Is(u, "enum")}
      made_with(r, u) ==
        LET generics == GenericsOf(u.con, r.functions)
        IN  IF Len(u.args) # Len(generics) THEN report(r) ELSE check_constraints(generics, u.args, r)
  IN  FoldSet(LAMBDA u, r : made_with(r, u), typed(s, t), made)

\* The exhaustiveness check's view of a type and of a pattern.
RECURSIVE SpaceOf(_), RowOf(_)
SpaceOf(t) ==
  LET args == Sequence([i \in DOMAIN t.args |-> SpaceOf(t.args[i])])
  IN  CASE t = TBool -> <<"bool">>
        [] Is(t, "option") -> <<"option", args[1]>>
        [] Is(t, "tuple") -> <<"tuple", args>>
        [] Is(t, "enum") -> <<"enum", t.con[2], args>>
        [] Is(t, "generic") /\ t.con[2][1] = "enum" -> <<"param", t.con[3]>>
        [] OTHER -> <<"open">>
RowOf(p) ==
  LET row(ctor) == [ctor |-> ctor, parts |-> Sequence([i \in DOMAIN p.elements |-> RowOf(p.elements[i])])]
      leaf(ctor) == [ctor |-> ctor, parts |-> <<>>]
  IN  CASE p.node \in {"wildcard", "binding"} -> leaf(<<"wildcard">>)
        [] p.node = "literal" /\ p.value = Bool(TRUE) -> leaf(<<"true">>)
        [] p.node = "literal" /\ p.value = Bool(FALSE) -> leaf(<<"false">>)
        [] p.node = "literal" /\ p.value[1] # "bool" -> leaf(<<"literal", p.value>>)
        [] p.node \in {"tuple", "some"} -> row(<<p.node>>)
        [] p.node = "none" -> leaf(<<"none">>)
        [] p.node = "variant" -> row(<<"variant", p.variant[2]>>)

Patterns == INSTANCE Exhaustiveness WITH Scrutinees <- {}, MaxArms <- 0, type <- SpaceOf(TUnit), arms <- <<>>,
  Enums <- [name \in DOMAIN EnumDefs |->
              [k \in DOMAIN EnumDefs[name].variants |->
                 [i \in DOMAIN EnumDefs[name].variants[k] |-> SpaceOf(EnumDefs[name].variants[k][i])]]]

-----------------------------------------------------------------------------
(* Expressions.  What the context expects is a sequence of none or one type, *)
(* and used says whether the value goes anywhere.                            *)

RECURSIVE check_expr_used(_, _, _, _), check_block(_, _, _, _), check_pattern(_, _, _)

check_expr(e, expected, s) == check_expr_used(e, expected, TRUE, s)

check_expect(e, t, s) ==
  LET found == check_expr(e, <<t>>, s)
      joined == unify(t, found.ty)
  IN  IF joined = <<>> THEN poison(found) ELSE typed(found, joined[1])

check_value(e, expected, used, s) ==
  IF expected # <<>> /\ used THEN check_expect(e, expected[1], s)
  ELSE check_expr_used(e, expected, used, s)

\* Check(e, i, s) on each in turn: the state, and the types found.
CheckEach(es, s, Check(_, _, _)) ==
  FoldLeft(LAMBDA r, i : LET t == Check(es[i], i, r.s) IN [s |-> t, tys |-> Append(r.tys, t.ty)],
           [s |-> s, tys |-> <<>>], [i \in DOMAIN es |-> i])
check_all(es, s) == CheckEach(es, s, LAMBDA e, i, t : check_expr(e, <<>>, t))

check_args(args, params, s) ==
  CheckEach(args, reportUnless(Len(args) = Len(params), s), LAMBDA e, i, t :
    IF i \in DOMAIN params THEN check_expect(e, params[i], t) ELSE check_expr(e, <<>>, t)).s

\* An argument, or a field, against its type in the owner's declaration, where
\* r is the state and the solution in the making.
check_slot(e, declared, owner, r) ==
  LET expected == substitute(declared, owner, r.m.map)
      found == check_expr(e, IF contains_generic_of(expected, owner) THEN <<>> ELSE <<expected>>, r.s)
      m == solve(expected, found.ty, owner, [r.m EXCEPT !.fits = TRUE])
  IN  [s |-> reportUnless(m.fits, found), m |-> m]
check_slots(es, declared, owner, r) ==
  FoldLeft(LAMBDA q, i :
             IF i \in DOMAIN declared THEN check_slot(es[i], declared[i], owner, q)
             ELSE [q EXCEPT !.s = check_expr(es[i], <<>>, q.s)],
           [r EXCEPT !.s = reportUnless(Len(es) = Len(declared), r.s)], [i \in DOMAIN es |-> i])

\* finish_generic_solution and check_constraints: what nothing determines is
\* reported, unless it was met by a type that is.
Instantiated(generics, r) ==
  LET map == Sequence([i \in DOMAIN generics |-> IF i \in DOMAIN r.m.map THEN r.m.map[i] ELSE Unknown])
      s == reportUnless(DOMAIN generics \subseteq DOMAIN r.m.map \cup r.m.poisoned, r.s)
  IN  [map |-> map, s |-> check_constraints(generics, map, s)]

solve_generic_call(params, ret, owner, args, expected, s) ==
  LET generics == GenericsOf(owner, s.functions)
      r == check_slots(args, params, owner, [s |-> s, m |-> Unsolved])
      m == solve_from_expectation(ret, expected, owner, generics, r.m)
      made == Instantiated(generics, [r EXCEPT !.m = m])
  IN  typed(made.s, substitute(ret, owner, made.map))

check_call(n, expected, s) ==
  LET f == s.functions[n.f]
  IN  IF f.generics # <<>>
      THEN solve_generic_call(f.types, f.ret, <<"fn", n.f>>, n.args, expected, s)
      ELSE typed(check_args(n.args, f.types, s), f.ret)

\* A call of a value of a type.
check_call_of(ty, args, s) ==
  CASE IsFn(ty) -> typed(check_args(args, Params(ty), s), Ret(ty))
    [] OTHER -> typed(check_all(args, reportUnless(Flexible(ty), s)).s, Unknown)
check_call_value(n, s) ==
  LET callee == check_expr(n.callee, <<>>, s) IN check_call_of(callee.ty, n.args, callee)

\* check_args of a builtin that calls its argument, then first_arg_fn_ret.
check_apply(n, s) ==
  LET args == check_all(n.args, s)
      callee == check_expect(n.callee, TFn(args.tys, Unknown), args.s)
  IN  typed(callee, IF IsFn(callee.ty) THEN Ret(callee.ty) ELSE Unknown)

check_assertion(n, s) == typed(check_expect(n.cond, TBool, s), TUnit)

check_method_call(n, expected, s) ==
  LET recv == check_expr(n.args[1], <<>>, s)
      args == Tail(n.args)
      member == lookup_member(recv.ty, n.name, s.functions)
      s0 == reportUnless(n.on = recv.ty, recv)
  IN  CASE member.kind = "value" -> check_call_of(member.ty, args, s0)
        [] member.kind = "method" ->
             solve_generic_call(Params(member.ty), Ret(member.ty), <<"fn", member.f>>, args, expected, s0)
        [] OTHER -> typed(check_all(args, reportUnless(member.kind = "deferred", s0)).s, Unknown)

check_field(n, s) ==
  LET recv == check_expr(n.args[1], <<>>, s)
      member == lookup_member(recv.ty, n.arg, s.functions)
  IN  IF member.kind = "missing" THEN poison(recv) ELSE typed(recv, member.ty)

check_index(n, s) ==
  LET recv == check_expr(n.args[1], <<>>, s)
  IN  IF Is(recv.ty, "vector") THEN typed(check_expect(n.args[2], TInt, recv), recv.ty.args[1])
      ELSE typed(check_expr(n.args[2], <<>>, reportUnless(Flexible(recv.ty), recv)), Unknown)

check_arithmetic(n, s) ==
  LET both == check_all(n.args, s)
      l == both.tys[1]
      r == both.tys[2]
      valid(t) == t = TInt \/ (n.op = "add" /\ t = TString)
      known == IF Flexible(l) THEN r ELSE l
  IN  IF Flexible(l) \/ Flexible(r) THEN typed(both.s, IF valid(known) THEN known ELSE Unknown)
      ELSE IF l = r /\ valid(l) THEN typed(both.s, l)
      ELSE poison(both.s)

check_equality(n, s) ==
  LET both == check_all(n.args, s)
  IN  typed(reportUnless(Unifies(both.tys[1], both.tys[2]), both.s), TBool)

\* Code generation has a quick way for ints, and one that looks at the values.
check_ordering(args, quick, s) ==
  LET both == check_all(args, s)
      l == both.tys[1]
      r == both.tys[2]
      ordered == l \in {TInt, TString} \/ generic_has_builtin(l, "Comparable", s.functions)
      s0 == reportUnless(quick = (l = TInt), both.s)
  IN  typed(reportUnless(Flexible(l) \/ Flexible(r) \/ (l = r /\ ordered), s0), TBool)

\* Code generation wraps, keeps, or asks the value, as the type decides.
check_option_wrap(n, s) ==
  LET inner == check_expr(n.args[1], <<>>, s)
      decision == IF Is(inner.ty, "option") THEN "keep" ELSE IF Flexible(inner.ty) THEN "dynamic" ELSE "wrap"
  IN  typed(reportUnless(n.arg = decision, inner),
            CASE decision = "keep" -> inner.ty
              [] decision = "dynamic" -> Unknown
              [] decision = "wrap" -> TOption(inner.ty))

-----------------------------------------------------------------------------
(* Lambdas, and the forms that join the types of their branches.             *)

declare(x, t, mutable, s) ==
  [s EXCEPT !.locals = (x :> t) @@ @, !.mutable = IF mutable THEN @ \cup {x} ELSE @ \ {x}]

check_params(params, tys, s) ==
  FoldLeft(LAMBDA r, i : declare(params[i], tys[i], FALSE, conv(tys[i], r)), s, [i \in DOMAIN params |-> i])

\* A lambda's parameters may be left to the context, and return is held
\* against the function the lambda stands in.
check_lambda(n, expected, used, s) ==
  LET f == s.functions[n.f]
      wanted == IF expected # <<>> /\ IsFn(expected[1]) THEN expected ELSE <<>>
      hints == IF wanted = <<>> THEN <<>> ELSE Params(wanted[1])
      tys == Sequence([i \in DOMAIN f.params |->
               CASE f.types[i] # <<>> -> f.types[i][1]
                 [] f.types[i] = <<>> /\ i \in DOMAIN hints -> hints[i]
                 [] OTHER -> Unknown])
      known == \A i \in DOMAIN f.params : f.types[i] # <<>> \/ i \in DOMAIN hints
      inside == [check_params(f.params, tys, reportUnless(used /\ known, s))
                   EXCEPT !.loop_depth = 0, !.in_lambda = TRUE]
      left(r, ret) == typed([r EXCEPT !.loop_depth = s.loop_depth, !.in_lambda = s.in_lambda], TFn(tys, ret))
      valued == check_block(f.body, <<Ret(wanted[1])>>, TRUE, inside)
      joined == unify(Ret(wanted[1]), valued.ty)
      free == check_block(f.body, <<>>, TRUE, inside)
  IN  IF wanted = <<>> THEN left(free, free.ty)
      ELSE IF Ret(wanted[1]) = TUnit THEN left(check_block(f.body, <<>>, FALSE, inside), TUnit)
      ELSE IF joined = <<>> THEN left(report(valued), Unknown)
      ELSE left(valued, joined[1])

\* The join of the types found, from that of no branch at all.
Joined(tys, s) ==
  LET joined == FoldLeft(LAMBDA t, u : IF t = <<>> THEN t ELSE unify(t[1], u), <<Never>>, tys)
  IN  IF joined = <<>> THEN poison(s) ELSE typed(s, joined[1])

check_if_node(n, expected, used, s) ==
  LET valued == used /\ n.else_ # <<>>
      hint == IF valued THEN expected ELSE <<>>
      branches == CheckEach(n.branches, s, LAMBDA b, i, t :
                    check_block(b[2], hint, valued, check_expect(b[1], TBool, t)))
      else_ == CheckEach(n.else_, branches.s, LAMBDA b, i, t : check_block(b, hint, valued, t))
  IN  IF valued THEN Joined(branches.tys \o else_.tys, else_.s) ELSE typed(else_.s, TUnit)

\* The body of a fallback, an expression, is shown what the option carries.
check_arm_body(body, expected, carried, used, s) ==
  IF carried # <<>> /\ expected = <<>> THEN check_expr_used(body[1].value, carried, used, s)
  ELSE check_block(body, expected, used, s)

check_match_arms(ty, arms, expected, carried, used, s) ==
  LET found == CheckEach(arms, s, LAMBDA arm, i, t :
        LET fits == check_pattern(arm.pattern, ty, t)
            guarded == IF arm.guard = <<>> THEN fits ELSE check_expect(arm.guard[1], TBool, fits)
        IN  check_arm_body(arm.body, expected, carried, used, guarded))
  IN  IF used THEN Joined(found.tys, found.s) ELSE typed(found.s, TUnit)

check_exhaustiveness(ty, arms, s) ==
  LET rows == [i \in DOMAIN arms |-> [pattern |-> RowOf(arms[i].pattern), guarded |-> arms[i].guard # <<>>]]
  IN  reportUnless(Flexible(ty) \/ Patterns!missing_cases(SpaceOf(ty), rows).total = 0, s)

\* A match as written, or one that stands for ?? or ?. (check_sugar_match).
check_match(n, expected, used, s) ==
  LET scrutinee == check_expr(n.scrutinee, <<>>, s)
      ty == scrutinee.ty
      fits == n.origin = "match" \/ Is(ty, "option") \/ Flexible(ty)
      carried == IF n.origin = "coalesce" /\ Is(ty, "option") THEN ty.args ELSE <<>>
      found == check_match_arms(ty, n.arms, expected, carried, used, reportUnless(fits, scrutinee))
  IN  IF n.origin = "match" THEN check_exhaustiveness(ty, n.arms, found) ELSE found

\* What the binding of a catch is in one of its arms.
catch_arm_binding_type(arm) ==
  LET of(tag) == CASE tag \in PANICS -> TString
                   [] tag = "string.ParseError" -> NativeError
                   [] tag \in DOMAIN StructDefs ->
                        TStruct(tag, [i \in DOMAIN StructDefs[tag].generics |-> Unknown])
                   [] tag \in DOMAIN EnumDefs ->
                        TEnum(tag, [i \in DOMAIN EnumDefs[tag].generics |-> Unknown])
                   [] OTHER -> Unknown
      alternatives == FoldLeft(LAMBDA ts, tag : IF ts # <<>> /\ Last(ts) = of(tag) THEN ts
                                                ELSE Append(ts, of(tag)), <<>>, arm.tags)
  IN  IF Unknown \in ToSet(alternatives) THEN Unknown
      ELSE IF Len(alternatives) = 1 THEN alternatives[1]
      ELSE Common(alternatives)

\* The arms are held against the subject's type, which is all there is when
\* the subject never comes to a value.
check_catch(n, expected, used, s) ==
  LET subject == check_expr(n.subject, expected, s)
      ty == subject.ty
      handled == CheckEach(n.arms, subject, LAMBDA arm, i, t :
        LET bound == IF n.binding = <<>> THEN t
                     ELSE declare(n.binding[1], catch_arm_binding_type(arm), FALSE, t)
            guarded == IF arm.guard = <<>> THEN bound ELSE check_expect(arm.guard[1], TBool, bound)
            body == check_block(arm.body, <<ty>>, used, guarded)
        IN  reportUnless(~used \/ Unifies(ty, body.ty), body))
  IN  [typed(handled.s, ty) EXCEPT !.gap = @ \/ Never \in TypesIn(ty)]

-----------------------------------------------------------------------------
(* Literals, and the values of structs and enums.                            *)

check_lit_slot(e, slot, s) == IF slot = <<>> THEN check_expr(e, <<>>, s) ELSE check_expect(e, slot[1], s)
\* The argument types the context expects of a constructor.
Expected(con, n, expected) ==
  IF expected # <<>> /\ expected[1].con = con /\ Len(expected[1].args) = n THEN expected[1].args ELSE <<>>

check_vector_lit(n, expected, s) ==
  LET found == FoldLeft(LAMBDA r, e : LET t == check_lit_slot(e, r.elem, r.s) IN [s |-> t, elem |-> <<t.ty>>],
                        [s |-> s, elem |-> Expected(<<"vector">>, 1, expected)], n.args)
  IN  IF found.elem = <<>> THEN poison(s) ELSE typed(found.s, TVector(found.elem[1]))

check_tuple_lit(n, expected, s) ==
  LET slots == Expected(<<"tuple">>, Len(n.args), expected)
      found == CheckEach(n.args, s, LAMBDA e, i, t :
                 check_lit_slot(e, IF slots = <<>> THEN <<>> ELSE <<slots[i]>>, t))
  IN  typed(found.s, TTuple(found.tys))

\* The type parameters that the context settles.
Settled_(args) == [Unsolved EXCEPT !.map = [i \in {j \in DOMAIN args : ~Flexible(args[j])} |-> args[i]]]

check_struct_lit(n, expected, s) ==
  LET owner == <<"struct", n.name>>
      generics == GenericsOf(owner, s.functions)
      written == [i \in DOMAIN n.fields |-> n.fields[i][1]]
      values == [i \in DOMAIN n.fields |-> n.fields[i][2]]
      complete == ToSet(written) = ToSet(Fields(n.name)) /\ IsInjective(written)
      made == Instantiated(generics,
                check_slots(values, Sequence([i \in DOMAIN written |-> FieldType(n.name, written[i])[1]]), owner,
                            [s |-> s, m |-> Settled_(Expected(owner, Len(generics), expected))]))
  IN  IF ~complete THEN poison(check_all(values, s).s) ELSE typed(made.s, TStruct(n.name, made.map))

check_some(n, expected, s) ==
  LET inner == check_lit_slot(n.args[1], Expected(<<"option">>, 1, expected), s)
  IN  typed(inner, TOption(inner.ty))
check_none(expected, s) ==
  typed(s, IF Expected(<<"option">>, 1, expected) = <<>> THEN TOption(Unknown) ELSE expected[1])

check_variant(n, expected, s) ==
  LET owner == <<"enum", n.arg[1]>>
      generics == GenericsOf(owner, s.functions)
      made == Instantiated(generics,
                check_slots(n.args, variant_fields(n.arg), owner,
                            [s |-> s, m |-> Settled_(Expected(owner, Len(generics), expected))]))
  IN  IF generics = <<>> THEN typed(check_args(n.args, variant_fields(n.arg), s), T(owner, <<>>))
      ELSE typed(made.s, T(owner, made.map))

literal_type(v) ==
  CASE v[1] = "int" -> TInt [] v[1] = "bool" -> TBool [] v[1] = "str" -> TString [] v[1] = "unit" -> TUnit

check_strict(n, expected, s) ==
  CASE n.op \in {"add", "div"} -> check_arithmetic(n, s)
    [] n.op = "eq" -> check_equality(n, s)
    [] n.op = "lt" -> check_ordering(n.args, TRUE, s)
    [] n.op = "not" -> typed(check_expect(n.args[1], TBool, s), TBool)
    [] n.op = "get_index" -> check_index(n, s)
    [] n.op = "get_field" -> check_field(n, s)
    [] n.op = "option_wrap" -> check_option_wrap(n, s)
    [] n.op = "wrap_some" -> check_some(n, expected, s)
    [] n.op = "make_tuple" -> check_tuple_lit(n, expected, s)
    [] n.op = "make_vector" -> check_vector_lit(n, expected, s)
    [] n.op = "make_enum" -> check_variant(n, expected, s)
    [] n.op = "make_range" -> typed(check_args(n.args, <<TInt, TInt>>, s), TRange)
    [] n.op = "tick" -> check_expr(n.args[1], expected, s)

infer_expr(e, expected, used, s) ==
  CASE e.node = "const" /\ e.value = None -> check_none(expected, s)
    [] e.node = "const" /\ e.value # None -> typed(s, literal_type(e.value))
    [] e.node = "local" -> typed(s, s.locals[e.x])
    [] e.node = "strict" -> check_strict(e, expected, s)
    [] e.node = "shortcut" -> typed(check_args(<<e.lhs, e.rhs>>, <<TBool, TBool>>, s), TBool)
    [] e.node = "compare" -> check_ordering(<<e.lhs, e.rhs>>, FALSE, s)
    [] e.node = "assert" -> check_assertion(e, s)
    [] e.node = "if" -> check_if_node(e, expected, used, s)
    [] e.node = "match" -> check_match(e, expected, used, s)
    [] e.node = "catch" -> check_catch(e, expected, used, s)
    [] e.node = "lambda" -> check_lambda(e, expected, used, s)
    [] e.node = "call" -> check_call(e, expected, s)
    [] e.node = "call_value" -> check_call_value(e, s)
    [] e.node = "apply" -> check_apply(e, s)
    [] e.node = "method_call" -> check_method_call(e, expected, s)
    [] e.node = "struct" -> check_struct_lit(e, expected, s)

check_expr_used(e, expected, used, s) ==
  LET found == infer_expr(e, expected, used, s)
  IN  IF ~s.ok THEN s ELSE [found EXCEPT !.gap = @ \/ Unknown \in TypesIn(found.ty)]

-----------------------------------------------------------------------------
(* Patterns.                                                                 *)

check_elements(ps, tys, s) ==
  CheckEach(ps, reportUnless(Len(ps) = Len(tys), s), LAMBDA p, i, t :
    check_pattern(p, IF i \in DOMAIN tys THEN tys[i] ELSE Unknown, t)).s

check_pattern(p, ty, s) ==
  LET unknown(ps) == [i \in DOMAIN ps |-> Unknown]
      option == Is(ty, "option")
      owner == <<"enum", p.variant[1]>>
      fields == variant_fields(p.variant)
  IN  CASE p.node = "wildcard" -> s
        [] p.node = "binding" -> declare(p.x, ty, FALSE, s)
        [] p.node = "literal" -> reportUnless(Unifies(ty, literal_type(p.value)), s)
        [] p.node = "some" ->
             check_elements(p.elements, <<IF option THEN ty.args[1] ELSE Unknown>>,
                            reportUnless(option \/ Flexible(ty), s))
        [] p.node = "none" -> reportUnless(option \/ Flexible(ty), s)
        [] p.node = "tuple" ->
             check_elements(p.elements, IF Is(ty, "tuple") THEN ty.args ELSE unknown(p.elements),
                            reportUnless(Is(ty, "tuple") \/ Flexible(ty), s))
        [] p.node = "variant" ->
             check_elements(p.elements,
                            IF ty.con = owner THEN [i \in DOMAIN fields |-> substitute(fields[i], owner, ty.args)]
                            ELSE fields,
                            reportUnless(ty.con = owner \/ Flexible(ty), s))

-----------------------------------------------------------------------------
(* Statements, functions and programs.                                       *)

check_let(n, s) ==
  LET value == IF n.ty = <<>> THEN check_expr(n.value, <<>>, s)
               ELSE check_expect(n.value, n.ty[1], conv(n.ty[1], s))
  IN  declare(n.x, IF n.ty = <<>> THEN value.ty ELSE n.ty[1], n.mutable, value)

\* Faulty variant: a value assigned is only looked at.
check_named_assign_Unheld(n, s) ==
  reportUnless(n.x \in s.mutable, check_expr(n.value, <<>>, s))

check_named_assign(n, s) ==
  check_expect(n.value, s.locals[n.x], reportUnless(n.x \in s.mutable, s))

check_return(n, s) ==
  LET value == IF n.value = <<>> THEN reportUnless(Unifies(s.ret_ty, TUnit), s)
               ELSE check_expect(n.value[1], s.ret_ty, s)
  IN  [value EXCEPT !.gap = @ \/ s.in_lambda]

check_loop_jump(s) == reportUnless(s.loop_depth > 0, s)
check_loop_body(body, s) ==
  [check_block(body, <<>>, FALSE, [s EXCEPT !.loop_depth = @ + 1]) EXCEPT !.loop_depth = s.loop_depth]

check_iterable(e, s) ==
  LET found == check_expr(e, <<>>, s)
  IN  CASE Is(found.ty, "vector") -> typed(found, found.ty.args[1])
        [] found.ty = TRange -> typed(found, TInt)
        [] OTHER -> typed(reportUnless(Flexible(found.ty), found), Unknown)

check_for(n, s) ==
  LET elem == check_iterable(n.iterable, s)
  IN  check_loop_body(n.body, check_pattern(n.pattern, elem.ty, elem))

\* The tag of a throw is that of what it throws.
check_throw(n, s) ==
  LET thrown == check_expr(n.value, <<>>, s)
      ty == thrown.ty
      tag == IF Is(ty, "struct") \/ Is(ty, "enum") THEN ty.con[2]
             ELSE IF ty \in {TInt, TBool, TString, TUnit} THEN ty.con[1] ELSE "unknown"
  IN  reportUnless(n.tag = tag, thrown)

check_stmt(n, s) ==
  IF ~s.ok THEN s ELSE
  CASE n.node = "let" -> check_let(n, s)
    [] n.node = "assign" -> check_named_assign(n, s)
    [] n.node = "return" -> check_return(n, s)
    [] n.node \in {"break", "continue"} -> check_loop_jump(s)
    [] n.node = "throw" -> check_throw(n, s)
    [] n.node = "if" -> check_if_node(n, <<>>, FALSE, s)
    [] n.node = "while" -> check_loop_body(n.body, check_expect(n.cond, TBool, s))
    [] n.node = "for" -> check_for(n, s)
    [] n.node = "expr" -> check_expr_used(n.value, <<>>, FALSE, s)

check_block(stmts, expected, used, s) ==
  LET last == Last(stmts)
      init == FoldLeft(LAMBDA t, n : check_stmt(n, t), s, Front(stmts))
  IN  CASE stmts = <<>> -> typed(s, TUnit)
        [] stmts # <<>> /\ last.node = "expr" -> check_value(last.value, expected, used, init)
        [] stmts # <<>> /\ last.node = "if" /\ used -> check_if_node(last, expected, used, init)
        [] stmts # <<>> /\ last.node \in {"return", "throw", "break", "continue"} ->
             typed(check_stmt(last, init), Never)
        [] OTHER -> typed(check_stmt(last, init), TUnit)

check_func(f, s) ==
  LET function == s.functions[f]
      self == IF function.method = <<>> THEN <<>>
              ELSE LET name == function.method[1]
                   IN  <<TStruct(name, Args(<<"struct", name>>, s.functions))>>
      entered == [conv(function.ret, check_params(function.params, self \o function.types, s))
                    EXCEPT !.ret_ty = function.ret]
      body == check_block(function.body, <<function.ret>>, TRUE, entered)
  IN  IF function.ret = TUnit THEN check_block(function.body, <<>>, FALSE, entered)
      ELSE reportUnless(Unifies(function.ret, body.ty), body)

check_render_contract(function, s) ==
  reportUnless(~(function.method # <<>> /\ function.method[2] = "toString" /\ NamesErrors(function.throws)), s)

\* check_bodies: the functions as written; the lambdas are checked where they
\* stand.
check_bodies(functions) ==
  FoldLeft(LAMBDA s, f : IF functions[f].kind = "lambda" THEN s
                         ELSE check_func(f, check_render_contract(functions[f], s)),
           [ty |-> TUnit, locals |-> <<>>, mutable |-> {}, ok |-> TRUE, gap |-> FALSE, uses |-> {},
            functions |-> functions, ret_ty |-> TUnit, loop_depth |-> 0, in_lambda |-> FALSE],
           [f \in DOMAIN functions |-> f])
=============================================================================

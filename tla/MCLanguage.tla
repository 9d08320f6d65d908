----------------------------- MODULE MCLanguage -----------------------------
(***************************************************************************)
(* Programs to check, compile and run: every way to put one of ten effects *)
(* inside two of nine forms, values of each type handed to each of some    *)
(* uses, and a few written out.                                            *)
(***************************************************************************)
EXTENDS Machine, OperandDepth, ErrorSets, TypeChecker

CONSTANTS
  Programs,    \* those handed to the compiler
  Jumps        \* which of the forms a loop may be left from

ints(names) == [generics |-> <<>>, fields |-> [i \in DOMAIN names |-> <<names[i], TInt>>]]
MCStructs == [Low |-> ints(<<"at">>), Point |-> ints(<<"x", "y">>), Weight |-> ints(<<"w">>),
              Handler |-> [generics |-> <<>>, fields |-> <<<<"run", TFn(<<TInt>>, TInt)>>>>],
              Box |-> [generics |-> << <<>> >>, fields |-> <<<<"v", Generic(<<"struct", "Box">>, 1)>>>>]]
MCEnums == [Shape |-> [generics |-> <<>>,
                       variants |-> << <<TTuple(<<TInt, TOption(TInt)>>)>>, <<TInt, TTuple(<<TInt, TInt>>)>>, <<>> >>],
            Either |-> [generics |-> << <<>> >>,
                        variants |-> << <<Generic(<<"enum", "Either">>, 1)>>, <<TInt>> >>]]
size(throws) == <<[name |-> "size", sig |-> TFn(<<>>, TInt), throws |-> throws]>>
MCInterfaces == [Sized |-> size(<<{}>>), Loud |-> size(<<>>)]    \* throws never, and no clause
MCStrings == <<"7", "x", "y">>

n == Local(1)
lit(i) == Const(Num(i))
tick(e) == Strict("tick", 0, <<e>>)
plus(a, b) == Strict("add", 0, <<a, b>>)
over(a, b) == Strict("div", 0, <<a, b>>)
less(a, b) == Strict("lt", 0, <<a, b>>)
same(a, b) == Strict("eq", 0, <<a, b>>)
some(e) == Strict("wrap_some", 0, <<e>>)
pair(a, b) == Strict("make_tuple", 0, <<a, b>>)
range(a, b) == Strict("make_range", 0, <<a, b>>)
vector(es) == Strict("make_vector", 0, es)
at(e, i) == Strict("get_index", 0, <<e, i>>)
variant(k, es) == Strict("make_enum", k, es)
field(e, name) == Strict("get_field", name, <<e>>)
low(id, e) == StructLit(id, "Low", <<<<"at", e>>>>)
throwLow(id, e) == Throw("Low", low(id, e))
lowArm(guard, body) == CatchArm(<<"Low">>, guard, body)
toInt(e) == MethodCall(TString, "toInt", <<e>>)
block(stmts, e, other) == If(<<<<Const(Bool(TRUE)), Append(stmts, Do(e))>>>>, <<<<Do(other)>>>>)

Fun(params, types, ret, body) ==
  [params |-> params, types |-> types, ret |-> ret, body |-> body,
   kind |-> IF ret = TUnit THEN "unit" ELSE "value", generics |-> <<>>, throws |-> <<>>, method |-> <<>>]
Fn(params, types, body) == [Fun(params, types, TInt, body) EXCEPT !.kind = "lambda"]
Main(ret, body) == Fun(<<5>>, <<TInt>>, ret, <<LetMut(1, Local(5))>> \o body)

\* risky(n): an error at 0, a panic at 1, otherwise n.
Risky ==
  Fun(<<2>>, <<TInt>>, TInt,
      <<If(<<<<less(Local(2), lit(1)), <<throwLow(200, Local(2))>>>>>>, <<>>),
        Do(over(Local(2), plus(Local(2), lit(-1))))>>)
risky(e) == Call(2, <<e>>)
\* rare(n): declared like risky, but never throws here.
Rare ==
  Fun(<<3>>, <<TInt>>, TUnit,
      <<If(<<<<less(Local(3), lit(-1)), <<throwLow(205, Local(3))>>>>>>, <<>>)>>)
rare == Do(Call(3, <<n>>))

-----------------------------------------------------------------------------
Effects == <<
  <<Do(tick(n))>>,
  <<throwLow(210, n)>>,
  <<Do(tick(over(lit(4), n)))>>,
  <<Return(<<plus(n, lit(10))>>)>>,
  <<If(<<<<less(lit(0), n), <<Break>>>>>>, <<>>)>>,
  <<Continue>>,
  <<Do(Assertion(less(n, lit(1))))>>,
  <<Assign(1, plus(n, lit(1)))>>,
  <<Do(tick(at(vector(<<n, lit(5)>>), plus(n, lit(1)))))>>,
  <<Do(tick(toInt(If(<<<<less(n, lit(1)), <<Do(Const(Str("x")))>>>>>>,
                     <<<<Do(Const(Str("7")))>>>>))))>> >>
JumpEffects == {5, 6}

\* The forms, with locals from k on.
Form(i, k, s) ==
  LET b == s.block
      into(stmts) == [s EXCEPT !.block = stmts]
  IN  CASE i = 1 -> into(<<If(<<<<less(n, lit(1)), b>>>>, <<<<Do(tick(lit(20)))>> \o b>>)>>)
        [] i = 2 -> into(<<For(Binds(k), range(lit(0), lit(1)), b \o <<Do(tick(Local(k)))>>)>>)
        [] i = 3 -> into(<<LetMut(k, lit(0)),
                           While(less(Local(k), lit(2)),
                                 <<Assign(k, plus(Local(k), lit(1)))>> \o b)>>)
        [] i = 4 -> into(<<Do(tick(plus(tick(lit(30)), block(b, n, lit(0)))))>>)
        [] i = 5 -> into(<<Do(tick(Catch(block(<<rare>> \o b, n, lit(0)), <<k>>,
                      <<lowArm(<<less(n, lit(1))>>, <<Do(field(Local(k), "at"))>>),
                        CatchArm(<<"panics.DivisionByZero">>, <<>>, <<Do(tick(lit(40)))>>)>>)))>>)
        [] i = 6 -> into(<<Do(tick(CatchAll(risky(n), <<k>>,
                      <<CatchArm(<<"Low", "panics.IndexOutOfBounds">>, <<>>, b \o <<Do(lit(50))>>),
                        CatchArm(<<"panics.AssertionFailed", "panics.DivisionByZero">>, <<less(n, lit(9))>>,
                                 b \o <<Do(tick(lit(51)))>>)>>)))>>)
        [] i = 7 -> into(<<Do(tick(Match(pair(n, some(n)),
                      <<Arm(TuplePattern(<<Literal(Num(1)), SomeOf(<<Binds(k)>>)>>), <<>>,
                            b \o <<Do(Local(k))>>),
                        Arm(TuplePattern(<<Wildcard, SomeOf(<<Literal(Num(0))>>)>>), <<>>,
                            b \o <<Do(lit(60))>>),
                        Arm(Wildcard, <<>>, <<Do(lit(61))>>)>>)))>>)
        [] i = 8 -> [s EXCEPT !.functions = Append(@, Fn(<<>>, <<>>, b \o <<Do(n)>>)),
                     !.block = <<Let(k, Lambda(Len(s.functions) + 1)),
                                 Do(tick(CallValue(Local(k), <<>>))),
                                 Do(tick(n))>>]
        [] i = 9 -> into(<<Do(tick(Match(n,
                      <<Arm(Binds(k), <<block(b, less(Local(k), lit(1)), Const(Bool(FALSE)))>>, <<Do(lit(70))>>),
                        Arm(Wildcard, <<>>, <<Do(tick(lit(71)))>>)>>)))>>)

LOOPS == {2, 3}
OPERANDS == {4, 9}    \* the hole has operands below it
LAMBDA_FORM == 8

\* A jump needs a loop around it in its function; Jumps says whether it may
\* have to leave operands behind.
Placed(outer, inner, effect) ==
  effect \in JumpEffects =>
    \/ inner \in LOOPS
    \/ outer \in LOOPS /\ inner # LAMBDA_FORM /\ (inner \in OPERANDS => Jumps = "anywhere")

Nested(outer, inner, effect) ==
  LET start == [block |-> Effects[effect], functions |-> <<Risky, Risky, Rare>>]
      s == Form(outer, 20, Form(inner, 10, start))
  IN  [s.functions EXCEPT ![1] = Main(TInt, s.block \o <<Do(tick(n))>>)]

Combined ==
  LET triple == [x \in 1 .. 810 |-> <<(x - 1) \div 90 + 1, (((x - 1) \div 10) % 9) + 1, ((x - 1) % 10) + 1>>]
      all == SelectSeq(triple, LAMBDA t : Placed(t[1], t[2], t[3]))
  IN  [x \in DOMAIN all |-> Nested(all[x][1], all[x][2], all[x][3])]

\* Programs written out: main's body first, then the other functions.
Program(main, others) == <<Main(TInt, main), Risky, Rare>> \o others
Unvalued(main) == <<Main(TUnit, main), Risky, Rare>>
calls(x, args) == CallValue(Local(x), args)
\* least(a, b), of whatever compares.
Least ==
  LET t == Generic(<<"fn", 4>>, 1)
  IN  [Fun(<<20, 21>>, <<t, t>>, t,
           <<Do(If(<<<<Compare(Local(20), Local(21)), <<Do(Local(20))>>>>>>, <<<<Do(Local(21))>>>>))>>)
         EXCEPT !.generics = << <<"builtin", "Comparable">> >>]
Method(name, of, params, types, ret, body) ==
  [Fun(params, types, ret, body) EXCEPT !.method = <<of, name>>]
Weight == TStruct("Weight", <<>>)
weight(id, e) == StructLit(id, "Weight", <<<<"w", e>>>>)

Written == <<
  \* two closures over one binding, rebound on both sides and in a callee
  Program(<<LetMut(10, lit(0)), Let(11, Lambda(4)), Let(12, Lambda(5)),
            Do(tick(calls(11, <<>>))), Assign(10, plus(Local(10), n)),
            Do(tick(calls(11, <<>>))), Do(tick(calls(12, <<>>))), Do(tick(Local(10)))>>,
          <<Fn(<<>>, <<>>, <<Assign(10, plus(Local(10), lit(1))), Do(Local(10))>>),
            Fn(<<>>, <<>>, <<Do(plus(Local(10), n))>>)>>),
  \* a closure per round, each over its own binding; one per element
  Program(<<LetMut(10, Lambda(6)), LetMut(11, Lambda(6)),
            For(Binds(12), range(lit(1), lit(2)),
                <<LetMut(13, Local(12)),
                  If(<<<<same(Local(12), lit(1)), <<Assign(10, Lambda(4)), Assign(11, Lambda(5))>>>>>>, <<>>),
                  Assign(13, plus(Local(13), lit(7)))>>),
            Do(tick(calls(10, <<>>))), Do(tick(calls(11, <<>>))), Do(tick(calls(10, <<>>)))>>,
          <<Fn(<<>>, <<>>, <<Assign(13, plus(Local(13), n)), Do(Local(13))>>),
            Fn(<<>>, <<>>, <<Do(plus(Local(13), Local(12)))>>),
            Fn(<<>>, <<>>, <<Do(lit(0))>>)>>),
  \* a lambda in a lambda; parameters captured, and a copy rebound
  Program(<<Let(10, Lambda(4)), Let(11, calls(10, <<n>>)),
            Do(tick(calls(11, <<lit(1)>>))), Do(tick(calls(11, <<lit(1)>>))), Do(n)>>,
          <<Fn(<<12>>, << <<TInt>> >>,
               <<LetMut(14, Local(12)), Assign(14, plus(Local(14), lit(1))), Do(Lambda(5))>>),
            Fn(<<13>>, << <<TInt>> >>,
               <<Assign(14, plus(Local(14), plus(Local(13), Local(12)))), Do(Local(14))>>)>>),
  \* fields written out of order, one in the other, one that throws
  Program(<<Do(tick(Catch(field(StructLit(300, "Point",
              <<<<"y", tick(plus(n, lit(1)))>>,
                <<"x", tick(field(StructLit(310, "Point",
                          <<<<"y", tick(risky(n))>>, <<"x", tick(n)>>>>), "y"))>>>>), "x"),
              <<10>>, <<CatchArm(<<"Low">>, <<>>, <<Do(field(Local(10), "at"))>>)>>)))>>, <<>>),
  \* calls too deep, caught halfway down
  Program(<<Do(tick(Catch(plus(lit(1), Call(4, <<n>>)), <<>>,
              <<CatchArm(<<STACK_OVERFLOW>>, <<>>, <<Do(lit(80))>>)>>)))>>,
          <<Fun(<<10>>, <<TInt>>, TInt,
                <<Do(tick(Local(10))),
                  Do(If(<<<<less(Local(10), lit(1)), <<Do(lit(5))>>>>>>,
                        <<<<Do(plus(lit(1), Call(4, <<plus(Local(10), lit(-1))>>)))>>>>))>>)>>),
  \* patterns that fail at each depth, on the way in and on the way out
  Unvalued(<<For(Binds(10), vector(<<variant(<<"Shape", 1>>, <<pair(n, some(n))>>),
                                     variant(<<"Shape", 2>>, <<n, pair(n, lit(1))>>),
                                     variant(<<"Shape", 2>>, <<lit(0), pair(lit(2), n)>>),
                                     variant(<<"Shape", 3>>, <<>>)>>),
              <<Do(tick(Match(Local(10),
                <<Arm(VariantOf(<<"Shape", 2>>, <<Literal(Num(0)), TuplePattern(<<Literal(Num(2)), Binds(11)>>)>>),
                      <<>>, <<Do(plus(Local(11), lit(100)))>>),
                  Arm(VariantOf(<<"Shape", 1>>, <<TuplePattern(<<Binds(12), SomeOf(<<Literal(Num(1))>>)>>)>>),
                      <<>>, <<Do(plus(Local(12), lit(110)))>>),
                  Arm(VariantOf(<<"Shape", 2>>, <<Binds(13), TuplePattern(<<Binds(14), Wildcard>>)>>),
                      <<less(lit(0), Local(14))>>, <<Do(plus(Local(13), lit(120)))>>),
                  Arm(VariantOf(<<"Shape", 3>>, <<>>), <<>>, <<Do(lit(130))>>),
                  Arm(Wildcard, <<>>, <<Do(lit(140))>>)>>)))>>)>>),
  \* a for pattern that does not fit its element; options
  Program(<<Do(tick(Catch(block(<<
              For(TuplePattern(<<SomeOf(<<Binds(10)>>), Literal(Num(1))>>),
                  vector(<<pair(some(n), lit(1)), pair(some(n), n)>>),
                  <<Do(tick(Local(10)))>>),
              LetOf(11, TOption(TInt), If(<<<<less(n, lit(1)), <<Do(Const(None))>>>>>>, <<<<Do(some(n))>>>>))>>,
              Match(Local(11), <<Arm(NoneOf, <<>>, <<Do(lit(150))>>),
                                 Arm(SomeOf(<<Wildcard>>), <<>>, <<Do(lit(151))>>)>>), lit(0)), <<>>,
              <<CatchArm(<<ASSERTION_FAILED>>, <<>>, <<Do(lit(152))>>)>>)))>>, <<>>),
  \* a signal thrown by a handler, by a guard and by an operand
  Program(<<Do(tick(Catch(
              Catch(plus(tick(lit(1)), risky(n)), <<10>>,
                    <<CatchArm(<<"Low">>, <<Or(And(less(n, lit(0)), less(risky(lit(0)), n)),
                                               same(risky(lit(2)), lit(2)))>>,
                               <<throwLow(400, lit(9))>>),
                      CatchArm(<<"panics.DivisionByZero">>, <<less(risky(lit(1)), lit(1))>>,
                               <<Do(lit(160))>>)>>),
              <<11>>, <<CatchArm(<<"Low">>, <<>>, <<Do(field(Local(11), "at"))>>),
                        CatchArm(<<"panics.DivisionByZero">>, <<>>, <<Do(lit(161))>>)>>)))>>, <<>>),
  \* a comparison that looks at its values, a lambda called where it is
  \* written, and errors named together, by none, by a wildcard
  Program(<<Do(tick(CatchAll(Apply(Lambda(5), <<n>>), <<10>>,
              <<CatchArm(<<"Low", "string.ParseError">>, <<less(n, lit(1))>>, <<Do(lit(170))>>),
                CatchArm(<<ANY>>, <<>>, <<Do(lit(171))>>)>>))),
            Do(tick(Catch(block(<<Do(toInt(Const(Str("y"))))>>, risky(lit(0)), lit(0)), <<>>,
              <<CatchArm(<<"Low">>, <<>>, <<Do(lit(172))>>)>>)))>>,
          <<Least,
            Fn(<<22>>, << <<>> >>,
               <<If(<<<<same(Call(4, <<Local(22), lit(1)>>), lit(0)), <<Do(toInt(Const(Str("z"))))>>>>>>, <<>>),
                 Do(tick(risky(plus(Local(22), lit(-1)))))>>)>>)
  >>

\* The method an ordering operator calls in a generic function, when it throws.
CmpPrograms == <<
  Program(<<Do(tick(field(Call(4, <<weight(300, n), weight(301, lit(2))>>), "w")))>>,
          <<Least,
            Method("cmp", "Weight", <<22, 23>>, <<Weight>>, TInt,
                   <<If(<<<<less(field(Local(22), "w"), lit(1)), <<throwLow(302, lit(0))>>>>>>, <<>>),
                     Do(plus(field(Local(23), "w"), over(field(Local(22), "w"), lit(-1))))>>)>>) >>

-----------------------------------------------------------------------------
(* Programs that hand each of some values to each of some uses: the type     *)
(* checker refuses most of them.                                             *)

Of(name, i) == Generic(<<"struct", name>>, i)
on(f) == Generic(<<"fn", f>>, 1)
GenericFun(f, constraint, x, ret, body) ==
  [Fun(<<x>>, <<on(f)>>, ret, body) EXCEPT !.generics = <<constraint>>]
InlineLen == <<"inline", <<[name |-> "len", sig |-> TFn(<<>>, TInt), throws |-> <<>>]>> >>

\* From the fourth: what is called below.
Library == <<
  Least,
  GenericFun(5, <<>>, 50, on(5), <<Do(Local(50))>>),
  GenericFun(6, <<"interface", "Sized">>, 51, TInt, <<Do(MethodCall(on(6), "size", <<Local(51)>>))>>),
  GenericFun(7, InlineLen, 52, TInt, <<Do(MethodCall(on(7), "len", <<Local(52)>>))>>),
  GenericFun(8, <<"interface", "Loud">>, 53, TInt, <<Do(MethodCall(on(8), "size", <<Local(53)>>))>>),
  Method("cmp", "Weight", <<54, 55>>, <<Weight>>, TInt,
         <<Do(plus(field(Local(55), "w"), over(field(Local(54), "w"), lit(-1))))>>),
  Method("size", "Weight", <<56>>, <<>>, TInt, <<Do(field(Local(56), "w"))>>),
  Method("size", "Low", <<57>>, <<>>, TInt, 
         <<If(<<<<less(field(Local(57), "at"), lit(1)), <<throwLow(570, lit(0))>>>>>>, <<>>),
           Do(over(field(Local(57), "at"), plus(field(Local(57), "at"), lit(-1))))>>),
  Method("get", "Box", <<58>>, <<>>, Of("Box", 1), <<Do(field(Local(58), "v"))>>),
  [Method("with", "Box", <<59, 60>>, <<on(13)>>, TTuple(<<on(13), Of("Box", 1)>>),
          <<Do(pair(Local(60), field(Local(59), "v")))>>) EXCEPT !.generics = << <<>> >>],
  Fn(<<61>>, << <<TInt>> >>, <<Do(plus(Local(61), lit(1)))>>),
  Fn(<<62>>, << <<>> >>, <<Do(plus(Local(62), lit(1)))>>),
  Fn(<<63>>, << <<>> >>, <<Do(Local(63))>>),
  Fn(<<>>, <<>>, <<Do(lit(3))>>) >>

\* Values, with locals from k on.
Values(k) ==
  LET zero == less(n, lit(1))
      either(a, b) == If(<<<<zero, <<a>>>>>>, <<<<b>>>>)
      box(e) == StructLit(500 + k, "Box", <<<<"v", e>>>>)
  IN  << n, zero, Const(Str("x")), range(lit(1), n), vector(<<n, lit(2)>>), vector(<<some(n), Const(None)>>),
         some(n), Const(None), either(Do(Const(None)), Do(some(n))), either(throwLow(510 + k, n), Do(n)),
         some(some(n)), pair(n, zero), low(520 + k, n), weight(530 + k, n), box(n), box(weight(540 + k, n)),
         StructLit(550 + k, "Handler", <<<<"run", Lambda(15)>>>>),
         variant(<<"Shape", 1>>, <<pair(n, Const(None))>>), variant(<<"Shape", 3>>, <<>>),
         variant(<<"Either", 1>>, <<some(n)>>), variant(<<"Either", 2>>, <<n>>),
         Lambda(14), Lambda(16), Lambda(17), Call(5, <<weight(560 + k, lit(3))>>),
         MethodCall(TStruct("Box", <<TInt>>), "with", <<box(n), zero>>),
         Catch(risky(n), <<k>>, <<CatchArm(<<ANY>>, <<>>, <<Do(lit(1))>>)>>) >>

\* Uses of a value, two of them of two values alike.
UsesOf(e, f, k) ==
  LET see(v) == <<Do(tick(v))>>
      caught(v) == see(Catch(v, <<>>, <<CatchArm(<<"Low">>, <<>>, <<Do(lit(600))>>)>>))
      method(type, name, args) == MethodCall(type, name, <<e>> \o args)
  IN  << see(plus(e, lit(1))), see(plus(e, Const(Str("y")))), see(less(e, lit(1))),
         see(If(<<<<e, <<Do(n)>>>>>>, <<<<Do(lit(601))>>>>)), see(same(e, lit(1))), see(same(e, some(n))),
         <<For(Binds(k), e, see(Local(k)))>>, see(at(e, lit(0))), see(at(vector(<<lit(4)>>), e)),
         see(field(e, "w")), see(field(e, "at")), see(field(e, "v")), see(plus(field(e, "v"), n)),
         see(method(Weight, "size", <<>>)), see(method(TVector(TInt), "len", <<>>)),
         see(method(TStruct("Box", <<TInt>>), "get", <<>>)),
         see(method(TStruct("Box", <<Weight>>), "with", <<n>>)),
         see(method(TStruct("Handler", <<>>), "run", <<n>>)),
         see(CallValue(e, <<n>>)), see(CallValue(e, <<>>)), see(Apply(e, <<n>>)), see(Apply(e, <<some(n)>>)),
         see(Call(4, <<e, f>>)), see(Call(4, <<e, weight(602, n)>>)), see(plus(Call(5, <<e>>), n)),
         <<LetMut(k, Call(5, <<e>>)), Assign(k, f)>>,
         see(Call(6, <<e>>)), see(Call(7, <<e>>)), caught(Call(8, <<e>>)),
         see(Match(e, <<Arm(SomeOf(<<Binds(k)>>), <<>>, <<Do(Local(k))>>), Arm(NoneOf, <<>>, <<Do(lit(603))>>)>>)),
         see(Match(e, <<Arm(VariantOf(<<"Either", 1>>, <<Binds(k)>>), <<>>, <<Do(Local(k))>>),
                        Arm(VariantOf(<<"Either", 2>>, <<Binds(k + 1)>>), <<>>, <<Do(some(Local(k + 1)))>>)>>)),
         see(Match(e, <<Arm(TuplePattern(<<Binds(k), Literal(Bool(TRUE))>>), <<>>, <<Do(Local(k))>>),
                        Arm(TuplePattern(<<Wildcard, Literal(Bool(FALSE))>>), <<>>, <<Do(lit(604))>>)>>)),
         see(Match(e, <<Arm(Literal(Bool(TRUE)), <<>>, <<Do(n)>>), Arm(Binds(k), <<Local(k)>>, <<Do(lit(1))>>)>>)),
         see(Coalesce(e, k, lit(605))), see(plus(Coalesce(e, k, lit(605)), n)),
         see(SafeNav(e, k, plus(Local(k), n))),
         see(Catch(If(<<<<less(n, lit(2)), <<Throw("Low", e)>>>>>>, <<<<Do(lit(606))>>>>), <<k>>,
                   <<CatchArm(<<"Low">>, <<>>, <<Do(field(Local(k), "at"))>>)>>)),
         <<LetOf(k, TOption(TInt), e)>> \o see(Local(k)),
         <<LetOf(k, TVector(TOption(TInt)), e)>> \o see(at(Local(k), lit(0))),
         <<LetMut(k, lit(1)), Assign(k, e)>> \o see(plus(Local(k), n)),
         <<LetMut(k, e), Assign(k, f)>> \o see(less(lit(1), lit(2))),
         <<LetMut(k, Const(None)), Assign(k, e)>> \o see(Coalesce(Local(k), k + 1, lit(607))),
         see(field(low(608, e), "at")), see(CallValue(field(StructLit(609, "Handler", <<<<"run", e>>>>), "run"), <<n>>)),
         see(plus(at(vector(<<e, lit(2)>>), lit(0)), n)), <<LetMut(k, vector(<<e, f>>)), Assign(k, vector(<<f>>))>>,
         see(plus(If(<<<<same(n, lit(1)), <<Do(e)>>>>>>, <<<<Do(lit(5))>>>>), n)),
         see(And(less(n, lit(1)), e)), <<Return(<<e>>)>>,
         see(Strict("option_wrap", "keep", <<e>>)), see(Coalesce(Strict("option_wrap", "wrap", <<plus(e, n)>>), k, lit(610))),
         <<LetOf(k, TEnum("Either", <<TOption(TInt)>>), e)>> \o see(Local(k)) >>

Handed ==
  FlattenSeq([v \in DOMAIN Values(10) |->
    [u \in DOMAIN UsesOf(n, n, 20) |->
       <<Main(TInt, UsesOf(Values(10)[v], Values(13)[v], 20)[u] \o <<Do(n)>>), Risky, Rare>> \o Library]])

\* Bindings of a catch: one of two structs, an error of the library, and
\* nothing, of an error that no interface names.
Bindings == <<
  <<Main(TInt, <<Do(tick(Catch(block(<<
      If(<<<<less(n, lit(1)), <<throwLow(700, lit(3))>>>>, <<less(n, lit(2)), <<throwLow(701, lit(0))>>>>>>,
         <<<<Throw("Weight", weight(702, n))>>>>)>>, n, n), <<10>>,
      <<CatchArm(<<"Low", "Weight">>, <<>>,
                 <<Do(MethodCall(Common(<<TStruct("Low", <<>>), Weight>>), "size", <<Local(10)>>))>>)>>)))>>),
    Risky, Rare>> \o Library,
  Program(<<Do(tick(Catch(toInt(Const(Str("x"))), <<10>>,
      <<CatchArm(<<"string.ParseError">>, <<>>, <<Do(tick(field(Local(10), "message"))), Do(n)>>)>>)))>>, <<>>),
  <<Main(TInt, <<Do(tick(Call(8, <<low(703, lit(0))>>)))>>), Risky, Rare>> \o Library >>

MCPrograms == Combined \o Written \o Handed \o Bindings

-----------------------------------------------------------------------------
\* What no check reports anything of is compiled.
MCBuilds ==
  LET checked(functions) ==
        LET types == check_bodies(functions)
            sets == ErrorSetsOf(functions)
        IN  [written |-> functions, gap |-> types.gap, errors |-> sets[1],
             accepted |-> types.ok /\ AcceptedErrors(functions, sets, types.uses)]
      programs == Sequence(Programs)
      accepted == SelectSeq(Sequence([p \in DOMAIN programs |-> checked(programs[p])]), LAMBDA b : b.accepted)
  IN  Sequence([p \in DOMAIN accepted |-> accepted[p] @@ [code |-> Sequence(Compiled(accepted[p].written))]])
MCInputs == {<<Num(0)>>, <<Num(1)>>, <<Num(2)>>}
=============================================================================

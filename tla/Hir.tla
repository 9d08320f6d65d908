-------------------------------- MODULE Hir --------------------------------
(***************************************************************************)
(* Programs after lowering (brasa_hir) and the values they compute         *)
(* (brasa_vm/value.rs).                                                    *)
(*                                                                         *)
(* A program is a sequence of functions, lambdas among them, each with its *)
(* params, the types declared of them, its ret, body and kind ("unit",     *)
(* which returns nothing, "value" or "lambda"), its generics and throws,   *)
(* and as its method the struct and the name it is declared under.  The    *)
(* first parameter of a method is self, which has no type of its own, and  *)
(* a lambda's may be left out.  Every local has a number of its own        *)
(* (LocalId).  Names and spans have done their work before.  The many      *)
(* nodes that evaluate their operands in order and then compute one value  *)
(* are all of kind "strict".                                               *)
(***************************************************************************)
EXTENDS Types

\* Values.
Num(i) == <<"int", i>>
Bool(b) == <<"bool", b>>
Unit == <<"unit">>
None == <<"none">>
Some(v) == <<"some", v>>
Tuple(vs) == <<"tuple", vs>>
Vector(vs) == <<"vector", vs>>
Variant(k, vs) == <<"enum", k, vs>>
Struct(name, vs) == <<"struct", name, vs>>
RangeOf(lo, hi) == <<"range", lo, hi>>
Closure(f, captured) == <<"closure", f, captured>>
Str(text) == <<"str", text>>
Native(name) == <<"native", name>>    \* an error the standard library raises

-----------------------------------------------------------------------------
\* Expressions.  A guard is a sequence of none or one, as is an else block.
Const(v) == [node |-> "const", value |-> v]
Local(x) == [node |-> "local", x |-> x]
Strict(op, arg, args) == [node |-> "strict", op |-> op, arg |-> arg, args |-> args]
And(l, r) == [node |-> "shortcut", decides |-> FALSE, lhs |-> l, rhs |-> r]
Or(l, r) == [node |-> "shortcut", decides |-> TRUE, lhs |-> l, rhs |-> r]
Assertion(e) == [node |-> "assert", cond |-> e]
If(branches, else_) == [node |-> "if", branches |-> branches, else_ |-> else_]
Match(e, arms) == [node |-> "match", scrutinee |-> e, arms |-> arms, origin |-> "match"]
Catch(e, binding, arms) ==
  [node |-> "catch", subject |-> e, binding |-> binding, arms |-> arms, exhaustive |-> FALSE]
CatchAll(e, binding, arms) == [Catch(e, binding, arms) EXCEPT !.exhaustive = TRUE]  \* catch!
Lambda(f) == [node |-> "lambda", f |-> f]
Call(f, args) == [node |-> "call", f |-> f, args |-> args]
CallValue(e, args) == [node |-> "call_value", callee |-> e, args |-> args]
\* A builtin that calls its function argument, as Vector.map does.
Apply(e, args) == [node |-> "apply", callee |-> e, args |-> args]
\* A method, on a receiver of a type; the receiver is the first argument.
MethodCall(on, name, args) == [node |-> "method_call", on |-> on, name |-> name, args |-> args]
\* a < b where the values decide how they compare.
Compare(a, b) == [node |-> "compare", lhs |-> a, rhs |-> b]
StructLit(id, name, fields) ==
  [node |-> "struct", id |-> id, name |-> name, fields |-> fields]

\* Statements; an If is one too.
Let(x, e) == [node |-> "let", x |-> x, mutable |-> FALSE, ty |-> <<>>, value |-> e]
LetMut(x, e) == [Let(x, e) EXCEPT !.mutable = TRUE]
LetOf(x, ty, e) == [Let(x, e) EXCEPT !.ty = <<ty>>]
Assign(x, e) == [node |-> "assign", x |-> x, value |-> e]
Return(e) == [node |-> "return", value |-> e]
Break == [node |-> "break"]
Continue == [node |-> "continue"]
Throw(tag, e) == [node |-> "throw", tag |-> tag, value |-> e]    \* tag: the type of e
While(e, body) == [node |-> "while", cond |-> e, body |-> body]
For(p, e, body) == [node |-> "for", pattern |-> p, iterable |-> e, body |-> body]
Do(e) == [node |-> "expr", value |-> e]

\* Patterns and arms.
Wildcard == [node |-> "wildcard"]
Binds(x) == [node |-> "binding", x |-> x]
Literal(v) == [node |-> "literal", value |-> v]
TuplePattern(ps) == [node |-> "tuple", elements |-> ps]
SomeOf(ps) == [node |-> "some", elements |-> ps]
NoneOf == [node |-> "none"]
VariantOf(k, ps) == [node |-> "variant", variant |-> k, elements |-> ps]
Arm(p, guard, body) == [pattern |-> p, guard |-> guard, body |-> body]
CatchArm(tags, guard, body) == [tags |-> tags, guard |-> guard, body |-> body]

\* The matches that e ?? other and e?.member stand for, where member is made
\* of Local(x), which is not an option itself.
Coalesce(e, x, other) ==
  [Match(e, <<Arm(SomeOf(<<Binds(x)>>), <<>>, <<Do(Local(x))>>), Arm(NoneOf, <<>>, <<Do(other)>>)>>)
     EXCEPT !.origin = "coalesce"]
SafeNav(e, x, member) ==
  [Match(e, <<Arm(SomeOf(<<Binds(x)>>), <<>>, <<Do(Strict("option_wrap", "wrap", <<member>>))>>),
              Arm(NoneOf, <<>>, <<Do(Const(None))>>)>>) EXCEPT !.origin = "safe_nav"]

ANY == "_"    \* the tag of a wildcard catch arm
STACK_OVERFLOW == "panics.StackOverflow"
ASSERTION_FAILED == "panics.AssertionFailed"

CONSTANTS
  MaxDepth,    \* how many calls may be open at once
  Strings      \* the strings that programs compare, in order

-----------------------------------------------------------------------------
(* Operators.                                                                *)

Ok(v) == <<"ok", v>>
Panic(tag) == <<"panic", tag>>
Error(v) == <<"error", v>>
Fatal == <<"fatal">>

IsInt(v) == v[1] = "int"
IsOption(v) == v[1] \in {"some", "none"}

int_arith(op, a, b) ==
  CASE ~(IsInt(a) /\ IsInt(b)) -> Fatal
    [] op = "add" -> Ok(Num(a[2] + b[2]))
    [] op = "div" -> IF b[2] = 0 THEN Panic("panics.DivisionByZero") ELSE Ok(Num(a[2] \div b[2]))
    [] op = "lt" -> Ok(Bool(a[2] < b[2]))

\* The field of that name, when the value has it: its place in the shape.
FieldIndex(v, name) == IF v[1] = "struct" THEN SelectInSeq(Fields(v[2]), LAMBDA f : f = name) ELSE 0
get_field(v, name) ==
  IF FieldIndex(v, name) # 0 THEN Ok(v[3][FieldIndex(v, name)])
  ELSE IF v[1] = "native" /\ name = "message" THEN Ok(Str(v[2])) ELSE Fatal

get_index(v, i) ==
  IF ~(v[1] = "vector" /\ IsInt(i)) THEN Fatal
  ELSE IF i[2] \in 0 .. Len(v[2]) - 1 THEN Ok(v[2][i[2] + 1])
  ELSE Panic("panics.IndexOutOfBounds")

\* method_builtin: the builtin of that name, if the receiver has it.
method_builtin(name, vs) ==
  CASE name = "toInt" /\ vs[1][1] = "str" ->
         IF vs[1] = Str("7") THEN Ok(Num(7)) ELSE Error(Native("string.ParseError"))
    [] name = "len" /\ vs[1][1] = "vector" -> Ok(Num(Len(vs[1][2])))
    [] OTHER -> Fatal

\* What an operator makes of its operands (value_eq, make_*, and the above):
\* every pair of operand types but the right one is fatal.
Operate(op, arg, vs) ==
  CASE op = "add" /\ vs[1][1] = "str" /\ vs[2][1] = "str" -> Ok(Str(vs[1][2] \o vs[2][2]))
    [] op \in {"add", "div", "lt"} /\ ~(op = "add" /\ vs[1][1] = "str" /\ vs[2][1] = "str") ->
         int_arith(op, vs[1], vs[2])
    [] op = "eq" -> Ok(Bool(vs[1] = vs[2]))
    [] op = "not" -> IF vs[1][1] = "bool" THEN Ok(Bool(~vs[1][2])) ELSE Fatal
    [] op = "get_index" -> get_index(vs[1], vs[2])
    [] op = "get_field" -> get_field(vs[1], arg)
    [] op = "wrap_some" -> Ok(Some(vs[1]))
    [] op = "option_wrap" ->
         Ok(IF arg = "keep" \/ (arg = "dynamic" /\ IsOption(vs[1])) THEN vs[1] ELSE Some(vs[1]))
    [] op = "make_tuple" -> Ok(Tuple(vs))
    [] op = "make_vector" -> Ok(Vector(vs))
    [] op = "make_enum" -> Ok(Variant(arg, vs))
    [] op = "make_struct" -> Ok(Struct(arg, vs))
    [] op = "make_range" ->
         IF IsInt(vs[1]) /\ IsInt(vs[2]) THEN Ok(RangeOf(vs[1][2], vs[2][2])) ELSE Fatal
    [] op = "method" -> method_builtin(arg, vs)
    [] op = "tick" -> Ok(vs[1])    \* a function that prints its argument

\* call_struct_by_name: what a struct's member calls, and with what; a field
\* that holds a function is called without the struct.
Dispatched(vs, name, functions) ==
  LET f == struct_method(vs[1][2], name, functions)
  IN  IF f # 0 THEN [callee |-> Closure(f, <<>>), args |-> vs]
      ELSE [callee |-> IF FieldIndex(vs[1], name) = 0 THEN Unit ELSE vs[1][3][FieldIndex(vs[1], name)],
            args |-> Tail(vs)]

\* value_cmp, as the sign of what cmp would say.
value_cmp(a, b) ==
  LET place(v) == IF IsInt(v) THEN v[2] ELSE SelectInSeq(Strings, LAMBDA text : v = Str(text))
      sign == IF place(a) < place(b) THEN -1 ELSE IF place(a) = place(b) THEN 0 ELSE 1
  IN  IF a[1] = b[1] /\ a[1] \in {"int", "str"} THEN Ok(Num(sign)) ELSE Fatal

\* What iter_new takes from a value: an inclusive range or a vector.
Iterable(v) == v[1] \in {"range", "vector"}
Elements(v) ==
  IF v[1] = "range" THEN [i \in 1 .. v[3] - v[2] + 1 |-> Num(v[2] + i - 1)] ELSE v[2]

PANICS == {STACK_OVERFLOW, ASSERTION_FAILED, "panics.DivisionByZero", "panics.IndexOutOfBounds"}
DottedTag(tag) == tag \in PANICS \cup {"string.ParseError"}

TagOf(v) ==    \* nominal_tag
  CASE v[1] \in {"struct", "native"} -> v[2]
    [] v[1] = "enum" -> v[2][1]
    [] v[1] \in {"some", "none"} -> "Option"
    [] v[1] = "str" -> "string"
    [] v[1] = "closure" -> "function"
    [] v[1] \in {"range", "vector"} -> [range |-> "Range", vector |-> "Vector"][v[1]]
    [] v[1] \in {"int", "bool", "unit", "tuple"} -> v[1]

-----------------------------------------------------------------------------
\* A node's children in the order they run; a lambda's are its body.
Parts(n, functions) ==
  LET flat(arms, Of(_)) == FlattenSeq([i \in DOMAIN arms |-> Of(arms[i])])
  IN  CASE n.node \in {"strict", "call", "method_call"} -> n.args
        [] n.node \in {"shortcut", "compare"} -> <<n.lhs, n.rhs>>
        [] n.node = "assert" -> <<n.cond>>
        [] n.node \in {"call_value", "apply"} -> <<n.callee>> \o n.args
        [] n.node = "if" ->
             flat(n.branches, LAMBDA b : <<b[1]>> \o b[2]) \o FlattenSeq(n.else_)
        [] n.node = "match" ->
             <<n.scrutinee>> \o flat(n.arms, LAMBDA a : <<a.pattern>> \o a.guard \o a.body)
        [] n.node = "catch" -> <<n.subject>> \o flat(n.arms, LAMBDA a : a.guard \o a.body)
        [] n.node = "lambda" -> functions[n.f].body
        [] n.node = "struct" -> [i \in DOMAIN n.fields |-> n.fields[i][2]]
        [] n.node \in {"let", "assign", "throw", "expr"} -> <<n.value>>
        [] n.node = "return" -> n.value
        [] n.node = "while" -> <<n.cond>> \o n.body
        [] n.node = "for" -> <<n.pattern, n.iterable>> \o n.body
        [] n.node \in {"tuple", "some", "variant"} -> n.elements
        [] OTHER -> <<>>
=============================================================================

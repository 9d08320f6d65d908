----------------------------- MODULE Reference -----------------------------
(***************************************************************************)
(* What a program means, said on its tree: the specification of code       *)
(* generation and of the VM.  Operands are evaluated in the order written, *)
(* a closure captures bindings and not values, every execution of a        *)
(* binding site makes a new binding, a signal goes to the innermost catch  *)
(* whose subject it left, and jumps leave what they are written in.        *)
(*                                                                         *)
(* A result is how evaluation ended ("value", "error", "panic", "return",  *)
(* "break", "continue" or "fatal"), with what value, and the state: the    *)
(* local's binding, each binding's value, and what was printed.            *)
(***************************************************************************)
EXTENDS Hir

Result(end, v, s) == [end |-> end, v |-> v, s |-> s]
Then(r, Next(_, _)) == IF r.end = "value" THEN Next(r.v, r.s) ELSE r

Bound(s, x, v) ==
  [s EXCEPT !.bindings = Append(@, v), !.env = (x :> Len(s.bindings) + 1) @@ @]

RECURSIVE Eval(_, _), EvalAll(_, _), Exec(_, _), Block(_, _), BlockValue(_, _)
RECURSIVE Branches(_, _, _, _), MatchArms(_, _, _), CatchArms(_, _, _, _)
RECURSIVE WhileLoop(_, _), ForLoop(_, _, _), Fits(_, _, _), FitAll(_, _, _)

Computed(op, arg, vs, s) ==
  LET o == Operate(op, arg, vs)
      t == IF op = "tick" THEN [s EXCEPT !.printed = Append(@, vs[1])] ELSE s
  IN  CASE o[1] = "ok" -> Result("value", o[2], t)
        [] o[1] \in {"panic", "error"} -> Result(o[1], o[2], t)
        [] OTHER -> Result("fatal", Unit, t)

\* A call; the environment of the caller comes back however it ends.
Applied(f, vs, env, s) ==
  LET function == s.functions[f]
      entered == FoldLeft(LAMBDA t, i : Bound(t, function.params[i], vs[i]),
                          [s EXCEPT !.env = env, !.depth = @ + 1],
                          [i \in 1 .. Len(vs) |-> i])
      r == IF function.kind = "unit" THEN Block(function.body, entered)
           ELSE BlockValue(function.body, entered)
      back == [r.s EXCEPT !.env = s.env, !.depth = s.depth]
  IN  CASE s.depth >= MaxDepth -> Result("panic", STACK_OVERFLOW, s)
        [] r.end \in {"value", "return"} ->
             Result("value", IF function.kind = "unit" THEN Unit ELSE r.v, back)
        [] OTHER -> Result(r.end, r.v, back)

\* A call of a value.
Called(callee, vs, s) ==
  IF callee[1] # "closure" THEN Result("fatal", Unit, s)
  ELSE IF Len(s.functions[callee[2]].params) # Len(vs) THEN Result("fatal", Unit, s)
  ELSE Applied(callee[2], vs, callee[3], s)
\* A member of the first value: a struct's own, or a builtin.
MemberCalled(name, vs, s) ==
  LET to == Dispatched(vs, name, s.functions)
  IN  IF vs[1][1] = "struct" THEN Called(to.callee, to.args, s) ELSE Computed("method", name, vs, s)
\* The sign of a comparison, through cmp when the values are structs.
Compared(vs, s) ==
  IF vs[1][1] = "struct" /\ vs[2][1] = "struct" THEN MemberCalled("cmp", vs, s)
  ELSE IF value_cmp(vs[1], vs[2]) = Fatal THEN Result("fatal", Unit, s)
  ELSE Result("value", value_cmp(vs[1], vs[2])[2], s)

EvalAll(es, s) ==
  FoldLeft(LAMBDA r, e : Then(r, LAMBDA vs, t : Then(Eval(e, t), LAMBDA v, u :
             Result("value", Append(vs, v), u))),
           Result("value", <<>>, s), es)

Eval(e, s) ==
  CASE e.node = "const" -> Result("value", e.value, s)
    [] e.node = "local" -> Result("value", s.bindings[s.env[e.x]], s)
    [] e.node = "strict" ->
         Then(EvalAll(e.args, s), LAMBDA vs, t : Computed(e.op, e.arg, vs, t))
    [] e.node = "shortcut" ->
         Then(Eval(e.lhs, s), LAMBDA v, t :
           IF v = Bool(e.decides) THEN Result("value", v, t) ELSE Eval(e.rhs, t))
    [] e.node = "assert" ->
         Then(Eval(e.cond, s), LAMBDA v, t :
           IF v = Bool(TRUE) THEN Result("value", Unit, t)
           ELSE Result("panic", ASSERTION_FAILED, t))
    [] e.node = "if" -> Branches(e.branches, e.else_, TRUE, s)
    [] e.node = "match" ->
         Then(Eval(e.scrutinee, s), LAMBDA v, t : MatchArms(v, e.arms, t))
    [] e.node = "catch" ->
         LET r == Eval(e.subject, s)
         IN  IF r.end \in {"error", "panic"} THEN CatchArms(r, e.binding, e.arms, r.s) ELSE r
    [] e.node = "lambda" -> Result("value", Closure(e.f, s.env), s)
    [] e.node = "call" ->
         Then(EvalAll(e.args, s), LAMBDA vs, t : Applied(e.f, vs, <<>>, t))
    [] e.node = "compare" ->
         Then(EvalAll(<<e.lhs, e.rhs>>, s), LAMBDA vs, t :
           Then(Compared(vs, t), LAMBDA v, u : Computed("lt", 0, <<v, Num(0)>>, u)))
    [] e.node = "method_call" ->
         Then(EvalAll(e.args, s), LAMBDA vs, t : MemberCalled(e.name, vs, t))
    [] e.node \in {"call_value", "apply"} ->
         Then(Eval(e.callee, s), LAMBDA c, t : Then(EvalAll(e.args, t), LAMBDA vs, u :
           Called(c, vs, u)))
    [] e.node = "struct" ->    \* evaluated as written, stored as declared
         Then(EvalAll([i \in DOMAIN e.fields |-> e.fields[i][2]], s), LAMBDA vs, t :
           LET declared == Fields(e.name)
           IN  Result("value",
                 Struct(e.name, [i \in DOMAIN declared |->
                   vs[CHOOSE j \in DOMAIN e.fields : e.fields[j][1] = declared[i]]]), t))

\* The first branch whose condition holds.
Branches(branches, else_, valued, s) ==
  LET body(block, t) == IF valued THEN BlockValue(block, t) ELSE Block(block, t)
  IN  IF branches = <<>>
      THEN IF else_ = <<>> THEN Result("value", Unit, s) ELSE body(else_[1], s)
      ELSE Then(Eval(branches[1][1], s), LAMBDA v, t :
             IF v = Bool(TRUE) THEN body(branches[1][2], t)
             ELSE Branches(Tail(branches), else_, valued, t))

\* The first arm whose pattern fits and whose guard holds.
MatchArms(v, arms, s) ==
  IF arms = <<>> THEN Result("panic", ASSERTION_FAILED, s)
  ELSE LET arm == arms[1]
           fit == Fits(arm.pattern, v, s)
           otherwise(t) == MatchArms(v, Tail(arms), t)
       IN  IF ~fit.fits THEN otherwise(fit.s)
           ELSE IF arm.guard = <<>> THEN BlockValue(arm.body, fit.s)
           ELSE Then(Eval(arm.guard[1], fit.s), LAMBDA g, t :
                  IF g = Bool(TRUE) THEN BlockValue(arm.body, t) ELSE otherwise(t))

\* The first arm that names the signal's tag, or is a wildcard that meets an
\* error, and whose guard holds; without one the signal goes on.
CatchArms(signal, binding, arms, s) ==
  IF arms = <<>> THEN Result(signal.end, signal.v, s)
  ELSE LET arm == arms[1]
           tag == IF signal.end = "panic" THEN signal.v ELSE TagOf(signal.v)
           named == \E i \in DOMAIN arm.tags :
                      arm.tags[i] = tag \/ (arm.tags[i] = ANY /\ signal.end = "error")
           detail == IF signal.end = "panic" THEN Str(signal.v) ELSE signal.v
           bound == IF binding = <<>> THEN s ELSE Bound(s, binding[1], detail)
           otherwise(t) == CatchArms(signal, binding, Tail(arms), t)
       IN  IF ~named THEN otherwise(s)
           ELSE IF arm.guard = <<>> THEN BlockValue(arm.body, bound)
           ELSE Then(Eval(arm.guard[1], bound), LAMBDA g, t :
                  IF g = Bool(TRUE) THEN BlockValue(arm.body, t) ELSE otherwise(t))

Fits(p, v, s) ==
  CASE p.node = "wildcard" -> [fits |-> TRUE, s |-> s]
    [] p.node = "binding" -> [fits |-> TRUE, s |-> Bound(s, p.x, v)]
    [] p.node = "literal" -> [fits |-> v = p.value, s |-> s]
    [] p.node = "none" -> [fits |-> v = None, s |-> s]
    [] p.node = "tuple" -> FitAll(p.elements, v[2], s)
    [] p.node = "some" ->
         IF v = None THEN [fits |-> FALSE, s |-> s]
         ELSE IF p.elements = <<>> THEN [fits |-> TRUE, s |-> s]
         ELSE Fits(p.elements[1], v[2], s)
    [] p.node = "variant" ->
         IF v[2] # p.variant THEN [fits |-> FALSE, s |-> s] ELSE FitAll(p.elements, v[3], s)

FitAll(ps, vs, s) ==
  FoldLeft(LAMBDA r, i : IF r.fits THEN Fits(ps[i], vs[i], r.s) ELSE r,
           [fits |-> TRUE, s |-> s], [i \in DOMAIN ps |-> i])

-----------------------------------------------------------------------------
Exec(stmt, s) ==
  LET unit(r) == Then(r, LAMBDA v, t : Result("value", Unit, t))
  IN  CASE stmt.node = "let" ->
             Then(Eval(stmt.value, s), LAMBDA v, t : Result("value", Unit, Bound(t, stmt.x, v)))
        [] stmt.node = "assign" ->
             Then(Eval(stmt.value, s), LAMBDA v, t :
               Result("value", Unit, [t EXCEPT !.bindings[t.env[stmt.x]] = v]))
        [] stmt.node = "return" ->
             IF stmt.value = <<>> THEN Result("return", Unit, s)
             ELSE Then(Eval(stmt.value[1], s), LAMBDA v, t : Result("return", v, t))
        [] stmt.node \in {"break", "continue"} -> Result(stmt.node, Unit, s)
        [] stmt.node = "throw" ->
             Then(Eval(stmt.value, s), LAMBDA v, t : Result("error", v, t))
        [] stmt.node = "if" -> unit(Branches(stmt.branches, stmt.else_, FALSE, s))
        [] stmt.node = "while" -> WhileLoop(stmt, s)
        [] stmt.node = "for" ->
             Then(Eval(stmt.iterable, s), LAMBDA v, t :
               IF Iterable(v) THEN ForLoop(stmt, Elements(v), t)
               ELSE Result("fatal", Unit, t))
        [] stmt.node = "expr" -> unit(Eval(stmt.value, s))

Block(stmts, s) ==
  FoldLeft(LAMBDA r, stmt : Then(r, LAMBDA v, t : Exec(stmt, t)), Result("value", Unit, s), stmts)

\* A block's value is that of its last statement, if that has one.
BlockValue(stmts, s) ==
  IF stmts = <<>> THEN Result("value", Unit, s)
  ELSE Then(Block(Front(stmts), s), LAMBDA v, t :
         CASE Last(stmts).node = "expr" -> Eval(Last(stmts).value, t)
           [] Last(stmts).node = "if" -> Eval(Last(stmts), t)
           [] OTHER -> Exec(Last(stmts), t))

\* What a loop does with how a round of it ended.
Round(r, Again(_)) ==
  CASE r.end \in {"value", "continue"} -> Again(r.s)
    [] r.end = "break" -> Result("value", Unit, r.s)
    [] OTHER -> r

WhileLoop(loop, s) ==
  Then(Eval(loop.cond, s), LAMBDA v, t :
    IF v = Bool(FALSE) THEN Result("value", Unit, t)
    ELSE Round(Block(loop.body, t), LAMBDA u : WhileLoop(loop, u)))

ForLoop(loop, items, s) ==
  IF items = <<>> THEN Result("value", Unit, s)
  ELSE LET fit == Fits(loop.pattern, items[1], s)
       IN  IF ~fit.fits THEN Result("panic", ASSERTION_FAILED, fit.s)
           ELSE Round(Block(loop.body, fit.s), LAMBDA u : ForLoop(loop, Tail(items), u))

\* Running a program: its first function.
Meaning(functions, input) ==
  LET r == Applied(1, input, <<>>,
             [functions |-> functions, env |-> <<>>, bindings |-> <<>>, printed |-> <<>>,
              depth |-> 0])
  IN  [end |-> r.end, signal |-> IF r.end = "value" THEN Unit ELSE r.v, printed |-> r.s.printed]
=============================================================================

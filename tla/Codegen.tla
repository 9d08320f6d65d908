------------------------------ MODULE Codegen ------------------------------
(***************************************************************************)
(* Code generation (brasa_codegen): a program's tree to bytecode.          *)
(*                                                                         *)
(* A fragment is a piece of code with the handlers inside it.  A jump      *)
(* carries its distance, or a label until what it skips has been           *)
(* generated.  Slots are named by the locals they hold, which never share  *)
(* one; the scratch slots of a struct literal are named by its node.       *)
(***************************************************************************)
EXTENDS Hir

Instruction(op, arg, label) == [op |-> op, arg |-> arg, label |-> label, by |-> 1]
Emit(op, arg) == [code |-> <<Instruction(op, arg, "")>>, handlers |-> <<>>]
Jump(op, arg, label) == [code |-> <<Instruction(op, arg, label)>>, handlers |-> <<>>]
Nothing == [code |-> <<>>, handlers |-> <<>>]
POP == Emit("pop", 0)

f ++ g ==
  LET n == Len(f.code)
  IN  [code |-> f.code \o g.code,
       handlers |-> f.handlers \o [i \in DOMAIN g.handlers |->
         [start |-> g.handlers[i].start + n, end |-> g.handlers[i].end + n,
          target |-> g.handlers[i].target + n]]]

Concat(fs) == FoldLeft(LAMBDA f, g : f ++ g, Nothing, fs)

\* patch: the jumps that carry the label land at an instruction.
Patch(f, label, at) ==
  [f EXCEPT !.code = Sequence([i \in DOMAIN f.code |->
     IF f.code[i].label = label THEN [f.code[i] EXCEPT !.label = "", !.by = at - i]
     ELSE f.code[i]])]
PatchHere(f, label) == Patch(f, label, Len(f.code) + 1)

-----------------------------------------------------------------------------
(* Which locals a lambda captures, and which live in a cell.                 *)

\* The locals that a node and everything below it read or write (used), make
\* (bound) and write (rebound).
RECURSIVE Uses(_, _)
Uses(n, functions) ==
  LET own ==
        [used |-> IF n.node \in {"local", "assign"} THEN {n.x} ELSE {},
         bound |-> CASE n.node \in {"let", "binding"} -> {n.x}
                     [] n.node = "catch" -> ToSet(n.binding)
                     [] n.node = "lambda" -> ToSet(functions[n.f].params)
                     [] OTHER -> {},
         rebound |-> IF n.node = "assign" THEN {n.x} ELSE {}]
      parts == Parts(n, functions)
      below == Sequence([i \in DOMAIN parts |-> Uses(parts[i], functions)])
  IN  [used |-> own.used \cup UNION {below[i].used : i \in DOMAIN parts},
       bound |-> own.bound \cup UNION {below[i].bound : i \in DOMAIN parts},
       rebound |-> own.rebound \cup UNION {below[i].rebound : i \in DOMAIN parts}]

\* lambda_captures: the free locals, in ascending order.
Captures(f, functions) ==
  LET uses == Uses(Lambda(f), functions)
  IN  SetToSortSeq(uses.used \ uses.bound, <)

Lambdas(functions) == {f \in DOMAIN functions : functions[f].kind = "lambda"}
Rebound(f, functions) ==
  UNION {Uses(functions[f].body[i], functions).rebound : i \in DOMAIN functions[f].body}

\* shared_bindings: captured by some lambda and written somewhere.
SharedBindings(functions) ==
  UNION {Rebound(f, functions) : f \in DOMAIN functions}
    \cap UNION {ToSet(Captures(f, functions)) : f \in Lambdas(functions)}

-----------------------------------------------------------------------------
(* Fragments that several forms share.  cx is what surrounds the code: its   *)
(* program's functions, the shared locals, its function's kind, and the      *)
(* innermost loop ("none", "while" or "for").                                *)

Bind(x, cx) == Emit(IF x \in cx.shared THEN "make_binding" ELSE "store_local", x)
Load(x, cx) == Emit(IF x \in cx.shared THEN "load_binding" ELSE "load_local", x)
Store(x, cx) == Emit(IF x \in cx.shared THEN "store_binding" ELSE "store_local", x)
Operation(op, arg, argc) == Emit("operate", [op |-> op, arg |-> arg, argc |-> argc])
LoadConst(v) == Emit("const", v)
AssertFailed == LoadConst(Str(ASSERTION_FAILED)) ++ Emit("raise", ASSERTION_FAILED)

Mentions(f, label) == \E i \in DOMAIN f.code : f.code[i].label = label
Relabel(f, from, to) ==
  [f EXCEPT !.code = Sequence([i \in DOMAIN f.code |->
     IF f.code[i].label = from THEN [f.code[i] EXCEPT !.label = to] ELSE f.code[i]])]

\* cleanup: jumps that leave one value too many behind drop it on their way
\* to the fail site.
Cleanup(f) ==
  IF ~Mentions(f, "dirty") THEN f
  ELSE PatchHere(PatchHere(f ++ Jump("jump", 0, "matched"), "dirty") ++ POP
                   ++ Jump("jump", 0, "fail"), "matched")

\* compile_pattern_test: the value on top is consumed, whether the pattern
\* fits or the code jumps to "fail".
RECURSIVE PatternTest(_, _)
PatternTest(p, cx) ==
  LET dirty(f) == Relabel(f, "fail", "dirty")
      \* compound_test; first is the variant test, if any
      compound(first, project) ==
        LET n == Len(p.elements)
            field(i) == Emit(project, i) ++ PatternTest(p.elements[i], cx)
        IN  IF n = 0 THEN Cleanup(first ++ POP)
            ELSE Cleanup(first
                   ++ Concat([i \in 1 .. n - 1 |-> dirty(Emit("dup", 0) ++ field(i))])
                   ++ field(n))
  IN  CASE p.node = "wildcard" -> POP
        [] p.node = "binding" -> Bind(p.x, cx)
        [] p.node = "literal" ->
             LoadConst(p.value) ++ Operation("eq", 0, 2) ++ Jump("jump_if_false", 0, "fail")
        [] p.node = "tuple" -> compound(Nothing, "tuple_field")
        [] p.node = "variant" ->
             compound(Jump("jump_if_variant_ne", p.variant, "dirty"), "enum_field")
        [] p.node = "some" ->
             Cleanup(Jump("jump_if_none", 0, "dirty") ++ Emit("unwrap_some", 0)
                       ++ IF p.elements = <<>> THEN POP ELSE PatternTest(p.elements[1], cx))
        [] p.node = "none" ->
             PatchHere(Jump("jump_if_none", 0, "matched") ++ POP ++ Jump("jump", 0, "fail"),
                       "matched") ++ POP

\* compile_for_binding
ForBinding(p, cx) ==
  LET test == PatternTest(p, cx)
  IN  IF ~Mentions(test, "fail") THEN test
      ELSE PatchHere(PatchHere(test ++ Jump("jump", 0, "matched"), "fail")
                       ++ AssertFailed ++ POP, "matched")

\* compile_catch, around the code of its parts: the handler covers the
\* subject alone and comes after the handlers inside it.  The rethrow tells
\* which catch it belongs to (its span does).
Guarded(subject, dispatch, exhaustive) ==
  LET n == Len(subject.code)
      f == subject ++ Jump("jump", 0, "end") ++ dispatch ++ Emit("rethrow", exhaustive)
      own == [start |-> 1, end |-> n + 1, target |-> n + 2]
      k == Len(subject.handlers)
  IN  PatchHere([f EXCEPT !.handlers = SubSeq(@, 1, k) \o <<own>> \o SubSeq(@, k + 1, Len(@))],
                "end")

\* One arm of a catch: its tests, each followed by the binding.
ArmTests(arm, binding, cx) ==
  LET n == Len(arm.tags)
      bind == IF binding = <<>> THEN POP ELSE Bind(binding[1], cx)
      test(i) ==
        LET tag == arm.tags[i]
        IN  (IF tag = ANY THEN Jump("jump_if_panic", 0, "fail") ++ Emit("caught_value", 0)
             ELSE Jump("jump_if_tag_ne", tag, "fail")
                    ++ Emit(IF DottedTag(tag) THEN "caught_detail" ELSE "caught_value", 0)) ++ bind
      tested(i) == IF i < n THEN PatchHere(test(i) ++ Jump("jump", 0, "matched"), "fail")
                   ELSE Relabel(test(i), "fail", "next")
  IN  PatchHere(Concat([i \in 1 .. n |-> tested(i)]), "matched")

-----------------------------------------------------------------------------
(* compile_stmt, block_value and compile_expr.                               *)

RECURSIVE Compile(_, _), Stmt(_, _), BlockStmts(_, _), BlockOfValue(_, _)

All(es, cx) == Concat([i \in DOMAIN es |-> Compile(es[i], cx)])
Inside(cx, loop) == [cx EXCEPT !.loop = loop]

\* if_stmt and if_value
IfNode(n, valued, cx) ==
  LET block(b) == IF valued THEN BlockOfValue(b, cx) ELSE BlockStmts(b, cx)
      branch(i) == PatchHere(Compile(n.branches[i][1], cx) ++ Jump("jump_if_false", 0, "next")
                               ++ block(n.branches[i][2]) ++ Jump("jump", 0, "end"), "next")
      else_ == CASE n.else_ # <<>> -> block(n.else_[1])
                 [] OTHER -> IF valued THEN LoadConst(Unit) ELSE Nothing
  IN  PatchHere(Concat([i \in DOMAIN n.branches |-> branch(i)]) ++ else_, "end")

\* A guard, the arm's body, and the way out, with the tested value dropped.
Selected(arm, cx) ==
  (IF arm.guard = <<>> THEN Nothing
   ELSE Compile(arm.guard[1], cx) ++ Jump("jump_if_false", 0, "next"))
    ++ POP ++ BlockOfValue(arm.body, cx) ++ Jump("jump", 0, "end")

MatchCode(n, cx) ==
  LET arm(i) == PatchHere(Emit("dup", 0) ++ Relabel(PatternTest(n.arms[i].pattern, cx), "fail", "next")
                            ++ Selected(n.arms[i], cx), "next")
  IN  PatchHere(Compile(n.scrutinee, cx) ++ Concat([i \in DOMAIN n.arms |-> arm(i)])
                  ++ POP ++ AssertFailed, "end")

\* Faulty variant: a catch takes its place in the table before its subject's.
CatchCode_OuterFirst(n, cx) ==
  LET arm(i) == PatchHere(ArmTests(n.arms[i], n.binding, cx) ++ Selected(n.arms[i], cx), "next")
      f == Guarded(Compile(n.subject, cx), Concat([i \in DOMAIN n.arms |-> arm(i)]), n.exhaustive)
  IN  [f EXCEPT !.handlers = Reverse(@)]

CatchCode(n, cx) ==
  LET arm(i) == PatchHere(ArmTests(n.arms[i], n.binding, cx) ++ Selected(n.arms[i], cx), "next")
  IN  Guarded(Compile(n.subject, cx), Concat([i \in DOMAIN n.arms |-> arm(i)]), n.exhaustive)

\* struct_lit: evaluated as written, through scratch slots when the fields
\* are not written in the order of their declaration.
StructCode(n, cx) ==
  LET declared == Fields(n.name)
      written == [i \in DOMAIN n.fields |-> n.fields[i][1]]
      value(i) == Compile(n.fields[i][2], cx)
      place(name) == CHOOSE i \in DOMAIN written : written[i] = name
      make == Operation("make_struct", n.name, Len(declared))
  IN  IF written = declared THEN Concat([i \in DOMAIN written |-> value(i)]) ++ make
      ELSE Concat([i \in DOMAIN written |-> value(i) ++ Emit("store_local", n.id + i)])
             ++ Concat([i \in DOMAIN declared |-> Emit("load_local", n.id + place(declared[i]))])
             ++ make

\* method_call: what a struct's member is, is known; a receiver that is only
\* known by its constraint is looked at when it is there.
MethodCode(n, cx) ==
  LET argc == Len(n.args)
      dynamic == Is(n.on, "generic") \/ Is(n.on, "common") \/ Flexible(n.on)
      f == IF Is(n.on, "struct") THEN struct_method(n.on.con[2], n.name, cx.functions) ELSE 0
  IN  CASE dynamic -> All(n.args, cx) ++ Emit("call_method", [name |-> n.name, argc |-> argc])
        [] f # 0 -> All(n.args, cx) ++ Emit("call", [f |-> f, argc |-> argc])
        [] Is(n.on, "struct") /\ f = 0 ->
             Compile(n.args[1], cx) ++ Operation("get_field", n.name, 1)
               ++ All(Tail(n.args), cx) ++ Emit("call_value", argc - 1)
        [] OTHER -> All(n.args, cx) ++ Operation("method", n.name, argc)

Compile(e, cx) ==
  CASE e.node = "const" -> LoadConst(e.value)
    [] e.node = "local" -> Load(e.x, cx)
    [] e.node = "strict" ->
         All(e.args, cx) ++ (IF e.op = "option_wrap" /\ e.arg = "keep" THEN Nothing
                             ELSE Operation(e.op, e.arg, Len(e.args)))
    [] e.node = "shortcut" ->
         PatchHere(Compile(e.lhs, cx)
                     ++ Jump(IF e.decides THEN "jump_if_true_or_pop" ELSE "jump_if_false_or_pop",
                             0, "end")
                     ++ Compile(e.rhs, cx), "end")
    [] e.node = "assert" ->
         PatchHere(PatchHere(Compile(e.cond, cx) ++ Jump("jump_if_false", 0, "fail")
                               ++ Jump("jump", 0, "end"), "fail")
                     ++ AssertFailed ++ POP, "end") ++ LoadConst(Unit)
    [] e.node = "if" -> IfNode(e, TRUE, cx)
    [] e.node = "match" -> MatchCode(e, cx)
    [] e.node = "catch" -> CatchCode(e, cx)
    [] e.node = "lambda" ->
         LET captured == Captures(e.f, cx.functions)
         IN  Concat([i \in DOMAIN captured |-> Emit("load_local", captured[i])])
               ++ Emit("make_closure", [f |-> e.f, captures |-> Len(captured)])
    [] e.node = "call" -> All(e.args, cx) ++ Emit("call", [f |-> e.f, argc |-> Len(e.args)])
    [] e.node = "compare" ->    \* ordering: the instruction, then what it makes of cmp
         Compile(e.lhs, cx) ++ Compile(e.rhs, cx) ++ Emit("compare", 0)
           ++ LoadConst(Num(0)) ++ Operation("lt", 0, 2)
    [] e.node = "method_call" -> MethodCode(e, cx)
    [] e.node \in {"call_value", "apply"} ->
         Compile(e.callee, cx) ++ All(e.args, cx) ++ Emit("call_value", Len(e.args))
    [] e.node = "struct" -> StructCode(e, cx)

\* compile_return
ReturnCode(n, cx) ==
  LET value == IF n.value = <<>> THEN Nothing ELSE Compile(n.value[1], cx)
  IN  CASE cx.kind = "unit" ->
             value ++ (IF n.value = <<>> THEN Nothing ELSE POP) ++ LoadConst(Unit) ++ Emit("ret", 0)
        [] OTHER ->
             (IF n.value = <<>> THEN LoadConst(Unit) ELSE value) ++ Emit("ret", 0)

\* Faulty variant: leaving a for loop does not drop its iterator.
BreakCode_KeepsIterator(cx) == Jump("jump", 0, "break")

BreakCode(cx) == (IF cx.loop = "for" THEN POP ELSE Nothing) ++ Jump("jump", 0, "break")

\* A jump out of the condition of a while loop is the enclosing loop's.
Aside(f) == Relabel(Relabel(f, "break", "outer break"), "continue", "outer continue")
Back(f) == Relabel(Relabel(f, "outer break", "break"), "outer continue", "continue")

\* A loop's jumps, once its head and its exit are known.
Looping(f, head) ==
  PatchHere(Patch(f ++ Jump("jump", 0, "continue"), "continue", head), "break")

Stmt(n, cx) ==
  CASE n.node = "let" -> Compile(n.value, cx) ++ Bind(n.x, cx)
    [] n.node = "assign" -> Compile(n.value, cx) ++ Store(n.x, cx)
    [] n.node = "return" -> ReturnCode(n, cx)
    [] n.node = "break" -> BreakCode(cx)
    [] n.node = "continue" -> Jump("jump", 0, "continue")
    [] n.node = "throw" -> Compile(n.value, cx) ++ Emit("throw", 0)
    [] n.node = "if" -> IfNode(n, FALSE, cx)
    [] n.node = "while" ->
         Back(Looping(Aside(Compile(n.cond, cx)) ++ Jump("jump_if_false", 0, "break")
                        ++ BlockStmts(n.body, Inside(cx, "while")), 1))
    [] n.node = "for" ->
         LET iterator == Compile(n.iterable, cx) ++ Emit("iter_new", 0)
         IN  iterator
               ++ Looping(Jump("iter_next", 0, "break")
                            ++ ForBinding(n.pattern, Inside(cx, "for"))
                            ++ BlockStmts(n.body, Inside(cx, "for")), 1)
    [] n.node = "expr" -> Compile(n.value, cx) ++ POP

BlockStmts(stmts, cx) == Concat([i \in DOMAIN stmts |-> Stmt(stmts[i], cx)])

\* block_value
BlockOfValue(stmts, cx) ==
  IF stmts = <<>> THEN LoadConst(Unit)
  ELSE BlockStmts(Front(stmts), cx)
         ++ CASE Last(stmts).node = "expr" -> Compile(Last(stmts).value, cx)
              [] Last(stmts).node = "if" -> IfNode(Last(stmts), TRUE, cx)
              [] OTHER -> Stmt(Last(stmts), cx) ++ LoadConst(Unit)

-----------------------------------------------------------------------------
\* compile_function and the lambda half of lambda: the shared parameters are
\* boxed, then the body runs.
FunctionCode(f, functions) ==
  LET function == functions[f]
      cx == [functions |-> functions, shared |-> SharedBindings(functions),
             kind |-> function.kind, loop |-> "none"]
      boxed == SelectSeq(function.params, LAMBDA x : x \in cx.shared)
      prologue == Concat([i \in DOMAIN boxed |->
                    Emit("load_local", boxed[i]) ++ Emit("make_binding", boxed[i])])
      body == IF function.kind = "unit" THEN BlockStmts(function.body, cx) ++ LoadConst(Unit)
              ELSE BlockOfValue(function.body, cx)
  IN  prologue ++ body ++ Emit("ret", 0)
=============================================================================

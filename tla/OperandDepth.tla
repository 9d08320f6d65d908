---------------------------- MODULE OperandDepth ----------------------------
(***************************************************************************)
(* The operand-depth pass (brasa_codegen/depth.rs): the depth of the       *)
(* operand stack at every reachable instruction, from which each handler   *)
(* learns what to cut the stack to and each frame how much to reserve.     *)
(***************************************************************************)
EXTENDS Codegen

\* net_effect
NetEffect(i) ==
  CASE i.op \in {"const", "dup", "load_local", "load_binding", "caught_value", "caught_detail"} -> 1
    [] i.op \in {"pop", "store_local", "make_binding", "store_binding"} -> -1
    [] i.op \in {"unwrap_some", "tuple_field", "enum_field", "iter_new", "raise"} -> 0
    [] i.op \in {"operate", "call", "call_method"} -> 1 - i.arg.argc
    [] i.op = "compare" -> -1
    [] i.op = "call_value" -> -i.arg
    [] i.op = "make_closure" -> 1 - i.arg.captures

\* transition: where an instruction at a depth leads, the branch first.
Successors(i, at, depth) ==
  LET falls(delta) == <<at + 1, depth + delta>>
      branches(delta) == <<at + i.by, depth + delta>>
  IN  CASE i.op = "jump" -> <<branches(0)>>
        [] i.op = "jump_if_false" -> <<branches(-1), falls(-1)>>
        [] i.op \in {"jump_if_false_or_pop", "jump_if_true_or_pop"} -> <<branches(0), falls(-1)>>
        [] i.op \in {"jump_if_variant_ne", "jump_if_none", "jump_if_panic", "jump_if_tag_ne"} ->
             <<branches(0), falls(0)>>
        [] i.op = "iter_next" -> <<branches(-1), falls(1)>>
        [] i.op \in {"ret", "throw", "rethrow"} -> <<>>
        [] OTHER -> <<falls(NetEffect(i))>>

\* The worklist: the first depth an instruction is met at is its depth.
RECURSIVE Settle(_, _, _)
Settle(code, work, depths) ==
  IF work = <<>> THEN depths
  ELSE LET at == Last(work)[1]
           depth == Last(work)[2]
       IN  IF at \in DOMAIN depths THEN Settle(code, Front(work), depths)
           ELSE Settle(code, Front(work) \o Successors(code[at], at, depth),
                       (at :> depth) @@ depths)

\* The dispatch sequences whose subject's depth is known: the signal lies on
\* top of what the subject found.
Seeds(handlers, depths) ==
  LET known == SelectSeq(handlers, LAMBDA h : h.start \in DOMAIN depths
                                              /\ h.target \notin DOMAIN depths)
  IN  [i \in DOMAIN known |-> <<known[i].target, depths[known[i].start] + 1>>]

RECURSIVE Settled(_, _)
Settled(f, depths) ==
  LET seeds == Seeds(f.handlers, depths)
  IN  IF seeds = <<>> THEN depths ELSE Settled(f, Settle(f.code, seeds, depths))

\* finalize, and what finish makes of a function.
Function(f, functions) ==
  LET code == FunctionCode(f, functions)
      depths == Settled(code, Settle(code.code, <<<<1, 0>>>>, <<>>))
      after(at) == {depths[at]} \cup
        {Successors(code.code[at], at, depths[at])[i][2] :
           i \in DOMAIN Successors(code.code[at], at, depths[at])}
  IN  [code |-> code.code,
       handlers |-> Sequence([i \in DOMAIN code.handlers |->
         code.handlers[i] @@ [depth |->
           IF code.handlers[i].start \in DOMAIN depths
           THEN depths[code.handlers[i].start] ELSE 0]]),
       depths |-> depths,
       maxStack |-> Max(UNION {after(at) : at \in DOMAIN depths}),
       arity |-> Len(functions[f].params),
       frame |-> functions[f].params
                   \o IF functions[f].kind = "lambda" THEN Captures(f, functions) ELSE <<>>]

\* compile: every function of a program.
Compiled(functions) == [f \in DOMAIN functions |-> Function(f, functions)]
=============================================================================

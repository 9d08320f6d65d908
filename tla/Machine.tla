------------------------------ MODULE Machine ------------------------------
(***************************************************************************)
(* The VM's dispatch loop (brasa_vm/vm.rs: execute, step, unwind) on the   *)
(* code of a program: one action per group of instructions.                *)
(*                                                                         *)
(* A frame is [f, ip, slots, operands]: the function, the instruction to   *)
(* run next, the locals written so far, and the operands above them.  The  *)
(* real stack is one vector for all frames; here a frame that takes more   *)
(* operands than it has is "broken", where the code would read a local or  *)
(* panic.  Every unreachable! of step is "broken" too.                     *)
(***************************************************************************)
EXTENDS Reference

CONSTANTS
  Builds,    \* what the compiler made of each program: its functions as
             \* written, their code, the errors inferred for the first, and
             \* whether the type checker had to do without some type (gap)
  Inputs     \* the arguments of the first function

Built == Sequence(Builds)

VARIABLES program, input, frames, cells, printed, end,
          signal    \* what the signal that ended the program carried

vars == <<program, input, frames, cells, printed, end, signal>>

Function_(f) == Built[program].code[f]
Top == Last(frames)
Instr == Function_(Top.f).code[Top.ip]

\* enter_function and write_captures: the arguments, then the captures.
Entered(p, f, args) ==
  LET frame == Built[p].code[f].frame
  IN  [f |-> f, ip |-> 1, operands |-> <<>>,
       slots |-> [x \in ToSet(frame) |-> args[CHOOSE i \in DOMAIN frame : frame[i] = x]]]

Init ==
  /\ program \in DOMAIN Built
  /\ input \in Inputs
  /\ frames = <<Entered(program, 1, input)>>
  /\ cells = <<>>
  /\ printed = <<>>
  /\ end = "running"
  /\ signal = Unit

-----------------------------------------------------------------------------
(* What a step does to the frames.                                           *)

At(ops) == end = "running" /\ Instr.op \in ops
Running(ops) == At(ops) /\ UNCHANGED <<program, input>>

Has(n) == Len(Top.operands) >= n
Kept(n) == SubSeq(Top.operands, 1, Len(Top.operands) - n)
Taken(n) == SubSeq(Top.operands, Len(Top.operands) - n + 1, Len(Top.operands))
TopValue == Last(Top.operands)

\* The top frame goes on by so many instructions, with these operands.
Resumed(by, operands) ==
  [frames EXCEPT ![Len(frames)].ip = @ + by, ![Len(frames)].operands = operands]
Next1(operands) == frames' = Resumed(1, operands) /\ UNCHANGED <<cells, printed, end, signal>>
Branch(taken, by, operands) ==
  frames' = Resumed(IF taken THEN by ELSE 1, operands) /\ UNCHANGED <<cells, printed, end, signal>>

Ends(how) == end' = how /\ frames' = <<>> /\ UNCHANGED <<cells, signal>>
Broken == Ends("broken") /\ UNCHANGED printed

\* handler_for: the first that covers the instruction.
HandlerFor(frame) ==
  SelectSeq(Function_(frame.f).handlers, LAMBDA h : frame.ip \in h.start .. h.end - 1)

\* unwind: the innermost frame with a handler is cut to the handler's depth,
\* meets the signal and goes on at the dispatch sequence.
Unwound(kind, v) ==
  LET i == Max({j \in DOMAIN frames : HandlerFor(frames[j]) # <<>>})
      handler == HandlerFor(frames[i])[1]
      cut(operands) == SubSeq(operands, 1, IF Len(operands) < handler.depth THEN Len(operands)
                                           ELSE handler.depth)
  IN  Append(SubSeq(frames, 1, i - 1),
        [frames[i] EXCEPT !.ip = handler.target,
                          !.operands = Append(cut(@), <<"caught", kind, v>>)])

\* A signal of a catchable kind.
Raise(kind, v) ==
  /\ UNCHANGED cells
  /\ IF \E j \in DOMAIN frames : HandlerFor(frames[j]) # <<>>
     THEN frames' = Unwound(kind, v) /\ UNCHANGED <<end, signal>>
     ELSE frames' = <<>> /\ end' = kind /\ signal' = v

-----------------------------------------------------------------------------
(* Instructions.                                                             *)

LoadStep ==
  /\ Running({"const", "load_local", "load_binding", "dup", "pop"})
  /\ LET value == IF Instr.op = "const" THEN Instr.arg
                  ELSE IF Instr.arg \in DOMAIN Top.slots THEN Top.slots[Instr.arg] ELSE Unit
     IN  CASE Instr.op \in {"const", "load_local"} -> Next1(Append(Top.operands, value))
           [] Instr.op = "load_binding" ->
                IF value[1] = "cell" THEN Next1(Append(Top.operands, cells[value[2]]))
                ELSE Ends("fatal") /\ UNCHANGED printed
           [] ~Has(1) -> Broken
           [] Instr.op = "dup" -> Next1(Append(Top.operands, TopValue))
           [] Instr.op = "pop" -> Next1(Kept(1))

StoreStep ==
  /\ Running({"store_local", "make_binding", "store_binding"})
  /\ IF ~Has(1) THEN Broken
     ELSE LET held == IF Instr.arg \in DOMAIN Top.slots THEN Top.slots[Instr.arg] ELSE Unit
              into(v) == [Resumed(1, Kept(1)) EXCEPT ![Len(frames)].slots = (Instr.arg :> v) @@ @]
          IN  CASE Instr.op = "store_local" -> frames' = into(TopValue) /\ UNCHANGED <<cells, printed, end, signal>>
                [] Instr.op = "make_binding" ->
                     /\ cells' = Append(cells, TopValue)
                     /\ frames' = into(<<"cell", Len(cells) + 1>>)
                     /\ UNCHANGED <<printed, end, signal>>
                [] held[1] = "cell" ->
                     /\ cells' = [cells EXCEPT ![held[2]] = TopValue]
                     /\ frames' = Resumed(1, Kept(1))
                     /\ UNCHANGED <<printed, end, signal>>
                [] OTHER -> Ends("fatal") /\ UNCHANGED printed

\* Whether the first of so many operands is a struct.
OnStruct(n) == IF Has(n) THEN Taken(n)[1][1] = "struct" ELSE FALSE

\* An operator, or call_method_dyn of what is no struct: a builtin's method.
OperateStep ==
  /\ Running({"operate", "call_method"})
  /\ LET argc == Instr.arg.argc
         method == Instr.op = "call_method"
         made == IF method THEN method_builtin(Instr.arg.name, Taken(argc))
                 ELSE Operate(Instr.arg.op, Instr.arg.arg, Taken(argc))
         ticks == IF method THEN FALSE ELSE Instr.arg.op = "tick"
     IN  /\ method => ~OnStruct(argc)
         /\ IF ~Has(argc) THEN Broken
            ELSE /\ printed' = IF ticks THEN Append(printed, TopValue) ELSE printed
                 /\ CASE made[1] = "ok" ->
                           frames' = Resumed(1, Append(Kept(argc), made[2])) /\ UNCHANGED <<cells, end, signal>>
                      [] made[1] \in {"panic", "error"} -> Raise(made[1], made[2])
                      [] OTHER -> Ends("fatal")

\* ordering: values that compare, and structs, whose cmp is called.
CompareStep ==
  /\ Running({"compare"})
  /\ ~(OnStruct(2) /\ TopValue[1] = "struct")
  /\ IF ~Has(2) THEN Broken
     ELSE IF value_cmp(Taken(2)[1], TopValue) = Fatal THEN Ends("fatal") /\ UNCHANGED printed
     ELSE Next1(Append(Kept(2), value_cmp(Taken(2)[1], TopValue)[2]))

JumpStep ==
  /\ Running({"jump", "jump_if_false", "jump_if_false_or_pop", "jump_if_true_or_pop"})
  /\ IF Instr.op = "jump" THEN Branch(TRUE, Instr.by, Top.operands)
     ELSE IF ~Has(1) THEN Broken
     ELSE IF TopValue \notin {Bool(TRUE), Bool(FALSE)} THEN Ends("fatal") /\ UNCHANGED printed
     ELSE CASE Instr.op = "jump_if_false" -> Branch(TopValue = Bool(FALSE), Instr.by, Kept(1))
            [] OTHER ->
                 LET decides == TopValue = Bool(Instr.op = "jump_if_true_or_pop")
                 IN  Branch(decides, Instr.by, IF decides THEN Top.operands ELSE Kept(1))

TestStep ==
  /\ Running({"jump_if_variant_ne", "jump_if_none", "jump_if_panic", "jump_if_tag_ne"})
  /\ LET tag == IF TopValue[2] = "panic" THEN TopValue[3] ELSE TagOf(TopValue[3])
         fits == CASE Instr.op = "jump_if_variant_ne" -> TopValue[1] = "enum"
                   [] Instr.op = "jump_if_none" -> IsOption(TopValue)
                   [] OTHER -> TopValue[1] = "caught"
         taken == CASE Instr.op = "jump_if_variant_ne" -> TopValue[2] # Instr.arg
                    [] Instr.op = "jump_if_none" -> TopValue = None
                    [] Instr.op = "jump_if_panic" -> TopValue[2] = "panic"
                    [] OTHER -> tag # Instr.arg
     IN  IF ~Has(1) THEN Broken
         ELSE IF ~fits THEN Broken
         ELSE Branch(taken, Instr.by, Top.operands)

TakeApartStep ==
  /\ Running({"unwrap_some", "tuple_field", "enum_field"})
  /\ LET v == TopValue
         fits == CASE Instr.op = "unwrap_some" -> v[1] = "some"
                   [] Instr.op = "tuple_field" -> v[1] = "tuple"
                   [] OTHER -> v[1] = "enum"
         part == CASE Instr.op = "unwrap_some" -> v[2]
                   [] Instr.op = "tuple_field" -> v[2][Instr.arg]
                   [] OTHER -> v[3][Instr.arg]
     IN  IF ~Has(1) THEN Broken
         ELSE IF ~fits THEN Broken
         ELSE Next1(Append(Kept(1), part))

\* What an instruction calls, with which arguments, and how many operands that
\* takes: a function, a value below its arguments, or a struct's member.
Calling(argc) ==
  LET member(name, n) == Dispatched(Taken(n), name, Built[program].written) @@ [takes |-> n]
  IN  CASE Instr.op = "call" ->
             [callee |-> Closure(Instr.arg.f, <<>>), args |-> Taken(argc), takes |-> argc]
        [] Instr.op = "call_value" ->
             [callee |-> Taken(argc + 1)[1], args |-> Taken(argc), takes |-> argc + 1]
        [] Instr.op = "call_method" -> member(Instr.arg.name, argc)
        [] Instr.op = "compare" -> member("cmp", 2)

\* The arguments, and with them the called value, leave the caller's operands;
\* a call too deep is a panic at the call.
CallStep ==
  /\ Running({"call", "call_value", "call_method", "compare"})
  /\ LET argc == CASE Instr.op = "compare" -> 2
                   [] Instr.op = "call_value" -> Instr.arg
                   [] OTHER -> Instr.arg.argc
         needs == IF Instr.op = "call_value" THEN argc + 1 ELSE argc
         to == Calling(argc)
     IN  /\ Instr.op \in {"call_method", "compare"} => OnStruct(argc)
         /\ Instr.op = "compare" => TopValue[1] = "struct"
         /\ CASE ~Has(needs) -> Broken
              [] to.callee[1] # "closure" -> Ends("fatal") /\ UNCHANGED printed
              [] Function_(to.callee[2]).arity # Len(to.args) -> Ends("fatal") /\ UNCHANGED printed
              [] Len(frames) >= MaxDepth -> Raise("panic", STACK_OVERFLOW) /\ UNCHANGED printed
              [] OTHER ->
                   /\ frames' = Append([frames EXCEPT ![Len(frames)].operands = Kept(to.takes)],
                                       Entered(program, to.callee[2], to.args \o to.callee[3]))
                   /\ UNCHANGED <<cells, printed, end, signal>>

ReturnStep ==
  /\ Running({"ret"})
  /\ IF ~Has(1) THEN Broken
     ELSE IF Len(frames) = 1 THEN Ends("value") /\ UNCHANGED printed
     ELSE LET n == Len(frames) - 1
          IN  /\ frames' = [SubSeq(frames, 1, n) EXCEPT ![n].ip = @ + 1,
                                                        ![n].operands = Append(@, TopValue)]
              /\ UNCHANGED <<cells, printed, end, signal>>

ClosureStep ==
  /\ Running({"make_closure"})
  /\ LET n == Instr.arg.captures
     IN  IF ~Has(n) THEN Broken ELSE Next1(Append(Kept(n), Closure(Instr.arg.f, Taken(n))))

IterateStep ==
  /\ Running({"iter_new", "iter_next"})
  /\ IF ~Has(1) THEN Broken
     ELSE IF Instr.op = "iter_new"
     THEN IF Iterable(TopValue) THEN Next1(Append(Kept(1), <<"iter", Elements(TopValue)>>))
          ELSE Ends("fatal") /\ UNCHANGED printed
     ELSE IF TopValue[1] # "iter" THEN Broken
     ELSE LET items == TopValue[2]
          IN  Branch(items = <<>>, Instr.by,
                     Kept(1) \o IF items = <<>> THEN <<>> ELSE <<<<"iter", Tail(items)>>, items[1]>>)

SignalStep ==
  /\ Running({"throw", "rethrow", "raise"})
  /\ IF ~Has(1) THEN Broken
     ELSE CASE Instr.op = "throw" -> Raise("error", TopValue) /\ UNCHANGED printed
            [] Instr.op = "raise" -> Raise("panic", Instr.arg) /\ UNCHANGED printed
            [] TopValue[1] # "caught" -> Broken
            [] OTHER -> Raise(TopValue[2], TopValue[3]) /\ UNCHANGED printed

CaughtStep ==
  /\ Running({"caught_value", "caught_detail"})
  /\ IF ~Has(1) THEN Broken
     ELSE IF TopValue[1] # "caught" THEN Broken
     ELSE IF TopValue[2] = "error" THEN Next1(Append(Top.operands, TopValue[3]))
     ELSE IF Instr.op = "caught_value" THEN Broken
     ELSE Next1(Append(Top.operands, Str(TopValue[3])))

\* execute: step, and nothing more once the last frame is gone.
Next ==
  \/ LoadStep \/ StoreStep \/ OperateStep \/ CompareStep \/ JumpStep \/ TestStep \/ TakeApartStep
  \/ CallStep \/ ReturnStep \/ ClosureStep \/ IterateStep \/ SignalStep \/ CaughtStep

Spec == Init /\ [][Next]_vars /\ WF_vars(Next)

-----------------------------------------------------------------------------
(***************************************************************************)
(* The code of a program does what the program says: it comes to an end,   *)
(* the way its tree does, with the same values printed in the same order.  *)
(* And no operand is of the wrong kind when a program passed the type      *)
(* checker with every type known.                                          *)
(***************************************************************************)
RunsAsWritten ==
  <>(/\ end # "running"
     /\ end = "fatal" => Built[program].gap
     /\ [end |-> end, signal |-> signal, printed |-> printed] = Meaning(Built[program].written, input))

(***************************************************************************)
(* The operand stack is as deep at every instruction as the depth pass     *)
(* says, on whichever way the instruction was reached, and never deeper    *)
(* than the frame reserved: "Structured code generation reaches every join *)
(* point at one deterministic depth".                                      *)
(***************************************************************************)
OneDepthPerInstruction ==
  \A i \in DOMAIN frames :
    LET function == Function_(frames[i].f)
        held == Len(frames[i].operands)
    IN  /\ held <= function.maxStack
        /\ i = Len(frames) => /\ frames[i].ip \in DOMAIN function.depths
                               /\ held = function.depths[frames[i].ip]

(***************************************************************************)
(* What the compiler says of errors is true of every run: an error that    *)
(* ends the program is in the set inferred for the function it left, or    *)
(* that set is open; and no error gets past a catch! the compiler let      *)
(* through as exhaustive.                                                  *)
(***************************************************************************)
ErrorSetsAreTrue ==
  /\ end = "error" => \/ Built[program].errors.open
                      \/ TagOf(signal) \in Built[program].errors.tags
  /\ At({"rethrow"}) => ~(Instr.arg /\ TopValue[2] = "error")
=============================================================================

------------------------------ MODULE Dispatch ------------------------------
(***************************************************************************)
(* One instruction of the VM's dispatch loops, as far as frames go         *)
(* (brasa_vm/vm.rs: step, enter_function, unwind, call_frames).            *)
(*                                                                         *)
(* A program is its control flow.  A frame names the instruction it runs   *)
(* next; a caller's is already past its call.  A builtin that calls back   *)
(* into compiled code runs a dispatch loop of its own on the Rust stack:   *)
(* loops holds, for each, the depth of its bottom frame.                   *)
(***************************************************************************)
EXTENDS Integers, Sequences, FiniteSetsExt, SequencesExt

CONSTANTS
  Code,       \* function |-> instructions: [op |-> kind, to |-> function or target]
  Handler,    \* function |-> instruction |-> where its handler starts, 0 for none
  Toplevel,   \* the function <toplevel>
  Main,       \* the function main, where there is one
  Arities,    \* how many parameters main may have, NoMain for no main
  max_depth   \* the recursion limit

Ops == {"plain", "jump", "branch", "call", "native", "throw", "ret"}

NoMain == -1

\* What the compiler emits: calls name functions, jumps and handlers stay in their
\* function, and no function runs off its end.
ASSUME CodeAssumption ==
  /\ max_depth \in Nat \ {0} /\ Arities \subseteq Nat \cup {NoMain}
  /\ {Toplevel, Main} \subseteq DOMAIN Code
  /\ \A f \in DOMAIN Code :
       /\ Code[f] \in Seq([op : Ops, to : Nat \cup DOMAIN Code]) /\ Code[f] # <<>>
       /\ \A ip \in DOMAIN Code[f] :
            /\ Code[f][ip].op \in {"call", "native"} => Code[f][ip].to \in DOMAIN Code
            /\ Code[f][ip].op \in {"jump", "branch"} => Code[f][ip].to \in DOMAIN Code[f]
            /\ Code[f][ip].op \notin {"jump", "throw", "ret"} => ip < Len(Code[f])
            /\ Handler[f][ip] \in {0} \cup DOMAIN Code[f]

Enter(f) == [func |-> f, ip |-> 1]
Goto(frames, ip) == [frames EXCEPT ![Len(frames)].ip = ip]

\* The loops whose bottom frame is still there.
Inside(loops, depth) ==
  SubSeq(loops, 1, Max({0} \cup {i \in DOMAIN loops : loops[i] =< depth}))

\* unwind, through every dispatch loop it crosses: the innermost frame whose
\* faulting instruction has a handler goes on there; without one the run ends.
Raised(frames, loops) ==
  LET handler(j) == Handler[frames[j].func][frames[j].ip - 1]
      handled == {j \in DOMAIN frames : handler(j) # 0}
  IN  IF handled = {}
      THEN {[frames |-> <<>>, loops |-> <<>>, failed |-> TRUE]}
      ELSE LET j == Max(handled)
           IN  {[frames |-> Goto(SubSeq(frames, 1, j), handler(j)),
                 loops |-> Inside(loops, j), failed |-> FALSE]}

\* enter_function; the depth guard does not count <toplevel>.
Called(frames, loops, f) ==
  LET toplevel == IF frames[1].func = Toplevel THEN 1 ELSE 0
  IN  IF Len(frames) - toplevel >= max_depth
      THEN Raised(frames, loops)
      ELSE {[frames |-> Append(frames, Enter(f)), loops |-> loops, failed |-> FALSE]}

\* ret; a builtin may call its function again (for the next element).
Returned(frames, loops) ==
  LET below == Front(frames)
      again == IF loops # <<>> /\ Last(loops) = Len(frames)
               THEN {[frames |-> Append(below, Enter(Last(frames).func)), loops |-> loops,
                      failed |-> FALSE]}
               ELSE {}
  IN  again \cup {[frames |-> below, loops |-> Inside(loops, Len(below)), failed |-> FALSE]}

\* step: where an instruction can lead.
After(frames, loops) ==
  LET top == Last(frames)
      instruction == Code[top.func][top.ip]
      next == Goto(frames, top.ip + 1)
      goes(to) == {[frames |-> to, loops |-> loops, failed |-> FALSE]}
  IN  CASE instruction.op = "plain" -> goes(next)
        [] instruction.op = "jump" -> goes(Goto(frames, instruction.to))
        [] instruction.op = "branch" -> goes(next) \cup goes(Goto(frames, instruction.to))
        [] instruction.op = "call" -> Called(next, loops, instruction.to)
        [] instruction.op = "native" ->
             Called(next, Append(loops, Len(frames) + 1), instruction.to)
        [] instruction.op = "throw" -> Raised(next, loops)
        [] instruction.op = "ret" -> Returned(frames, loops)
=============================================================================

----------------------------- MODULE ProgramRun -----------------------------
(***************************************************************************)
(* A run of a program without a debugger (brasa_vm/vm.rs: run_program):    *)
(* <toplevel>, then main if there is one, each until its frame returned or *)
(* an error nobody caught unwound it.  A main that takes parameters is     *)
(* refused when its turn comes.                                            *)
(***************************************************************************)
EXTENDS Dispatch

VARIABLES
  arity,      \* the parameters of main, NoMain for no main; never changes
  stage,      \* "ready", "toplevel", "main" or "over"
  frames, loops,
  failed      \* the run ended with an error, a panic or a fatal report

RunInit ==
  /\ arity \in Arities
  /\ stage = "ready" /\ frames = <<>> /\ loops = <<>> /\ failed = FALSE

Start ==
  /\ stage = "ready"
  /\ stage' = "toplevel" /\ frames' = <<Enter(Toplevel)>>
  /\ UNCHANGED <<arity, loops, failed>>

Instruction ==
  /\ frames # <<>>
  /\ \E next \in After(frames, loops) :
       /\ frames' = next.frames /\ loops' = next.loops
       /\ failed' = next.failed
       /\ stage' = IF next.failed THEN "over" ELSE stage
  /\ UNCHANGED arity

\* The frame of <toplevel> or of main returned.
NextStage ==
  /\ frames = <<>>
  /\ \/ /\ stage = "toplevel" /\ arity = 0
        /\ stage' = "main" /\ frames' = <<Enter(Main)>> /\ UNCHANGED failed
     \/ /\ stage = "toplevel" /\ arity # 0
        /\ stage' = "over" /\ failed' = (arity > 0) /\ UNCHANGED frames
     \/ /\ stage = "main"
        /\ stage' = "over" /\ UNCHANGED <<frames, failed>>
  /\ UNCHANGED <<arity, loops>>

RunNext == Start \/ Instruction \/ NextStage
RunSpec == RunInit /\ [][RunNext]_<<arity, stage, frames, loops, failed>>
=============================================================================

---------------------------- MODULE DebugSession ----------------------------
(***************************************************************************)
(* A debug session (brasa_vm/debug.rs and the instrumented loop of vm.rs). *)
(*                                                                         *)
(* A session runs the program through a second dispatch loop that asks,    *)
(* before every instruction, whether to stop there.  Builtins that call    *)
(* back run the plain loop, which does not ask.  A stop leaves the frames  *)
(* as they are and the next command re-enters the loop.                    *)
(***************************************************************************)
EXTENDS Dispatch, FiniteSets

CONSTANTS
  Spans,      \* function |-> instruction |-> [file, start, end], in bytes
  LineStarts, \* file |-> where each of its lines starts
  Length,     \* file |-> its length in bytes
  MaxArmed    \* bound: breakpoints at a time, where no front-end limits them

\* Every instruction has a span, in a file; a file's first line starts at 0.
ASSUME SpansAssumption ==
  /\ \A file \in DOMAIN LineStarts :
       /\ LineStarts[file] \in Seq(Nat) /\ LineStarts[file] # <<>>
       /\ LineStarts[file][1] = 0
  /\ \A f \in DOMAIN Code : \A ip \in DOMAIN Code[f] :
       Spans[f][ip] \in [file : DOMAIN LineStarts, start : Nat, end : Nat]

VARIABLES
  started, finished,              \* Session
  breakpoints, mode, interrupt, resuming,   \* DebugState
  ran_entry,                      \* Vm.debug_ran_entry
  frames, loops,                  \* the VM
  arity,                          \* Module.entry: main's parameters, NoMain for none
  resumed,                        \* the last command is not the first: resume_debug
  failed,                         \* the run ended with an error, a panic or a fatal report
  running,                        \* a command has not answered yet
  rested,                         \* history: stopped and nothing ran since
  shallow                         \* history: instructions since the last command that
                                  \* ran where that command is to stop
debug == <<breakpoints, mode, interrupt, resuming>>
vm == <<ran_entry, frames, loops, arity, resumed, failed>>
ghost == <<rested, shallow>>
session == <<started, finished, running, debug, vm, ghost>>

Here == <<Last(frames).func, Last(frames).ip>>

SessionInit ==
  /\ started = FALSE /\ finished = FALSE /\ running = FALSE
  /\ breakpoints = {} /\ mode = [kind |-> "Run", depth |-> 0]
  /\ interrupt = FALSE /\ resuming = FALSE
  /\ ran_entry = FALSE /\ frames = <<>> /\ loops = <<>>
  /\ arity \in Arities /\ resumed = FALSE /\ failed = FALSE
  /\ rested = FALSE /\ shallow = 0

-----------------------------------------------------------------------------
(* Source positions.                                                         *)

SpanAt(p) == Spans[p[1]][p[2]]
Width(s) == s.end - s.start

\* Session::resolve: of the instructions whose span covers the offset, the
\* tightest, and the first of them in code order; <<>> for none.
Resolve(file, offset) ==
  LET all == UNION {{<<f, ip>> : ip \in DOMAIN Spans[f]} : f \in DOMAIN Spans}
      covers(s) == s.file = file /\ s.start =< offset /\ offset =< s.end
      before(p, q) == p[1] < q[1] \/ (p[1] = q[1] /\ p[2] =< q[2])
      candidates == {p \in all : covers(SpanAt(p))}
      tightest == {p \in candidates : \A q \in candidates :
                     Width(SpanAt(p)) =< Width(SpanAt(q))}
  IN  IF tightest = {} THEN <<>> ELSE CHOOSE p \in tightest : \A q \in tightest : before(p, q)

\* Session::resolve_range: the first offset that resolves.
ResolveRange(file, start, end) ==
  LET past == IF end > start THEN end ELSE start + 1
      found == {o \in start .. past - 1 : Resolve(file, o) # <<>>}
  IN  IF found = {} THEN <<>> ELSE Resolve(file, Min(found))

\* What every front-end asks for a line: from where it starts to where the next
\* one does (line_range in debug_tui.rs and brasa_dap, resolve in brasa/debug.rs).
Binding == [file \in DOMAIN LineStarts |-> [line \in DOMAIN LineStarts[file] |->
  LET starts == LineStarts[file]
  IN  ResolveRange(file, starts[line],
                   IF line < Len(starts) THEN starts[line + 1] ELSE Length[file])]]
Bind(file, line) == IF line \in DOMAIN Binding[file] THEN Binding[file][line] ELSE <<>>

\* SourceMap::display_line_col, the line.
LineOf(s) == Max({l \in DOMAIN LineStarts[s.file] : LineStarts[s.file][l] =< s.start})

-----------------------------------------------------------------------------
(* Commands, while no other is being answered.                               *)

SetBreakpoint(p) ==
  /\ ~running
  /\ breakpoints' = breakpoints \cup {p}
  /\ UNCHANGED <<started, finished, running, mode, interrupt, resuming, vm, ghost>>

ClearBreakpoint(p) ==
  /\ ~running
  /\ breakpoints' = breakpoints \ {p}
  /\ UNCHANGED <<started, finished, running, mode, interrupt, resuming, vm, ghost>>

\* Interrupt::request, from another thread at any time.
RequestInterrupt ==
  /\ ~interrupt
  /\ interrupt' = TRUE
  /\ UNCHANGED <<started, finished, running, breakpoints, mode, resuming, vm, ghost>>

\* Faulty variant: the grace is given to the first command too.
RunWith_GraceAtStart(kind) ==
  /\ ~running
  /\ running' = TRUE
  /\ mode' = [kind |-> kind, depth |-> Len(frames)]
  /\ resuming' = TRUE
  /\ resumed' = started
  /\ started' = TRUE
  /\ frames' = IF started THEN frames ELSE <<Enter(Toplevel)>>
  /\ shallow' = 0
  /\ UNCHANGED <<finished, breakpoints, interrupt, ran_entry, loops, arity, rested, failed>>

\* resume, step_in, step_over, step_out through run_with, and start_debug.
RunWith(kind) ==
  /\ ~running
  /\ running' = TRUE
  /\ mode' = [kind |-> kind, depth |-> Len(frames)]
  /\ resuming' = started
  /\ resumed' = started
  /\ started' = TRUE
  /\ frames' = IF started THEN frames ELSE <<Enter(Toplevel)>>
  /\ shallow' = 0
  /\ UNCHANGED <<finished, breakpoints, interrupt, ran_entry, loops, arity, rested, failed>>

-----------------------------------------------------------------------------
(* The loop.                                                                 *)

\* Faulty variant: a step over stops in callees, too.
StepModeStops_OverSwapped ==
  CASE mode.kind = "Run" -> FALSE
    [] mode.kind = "In" -> TRUE
    [] mode.kind = "Over" -> Len(frames) < mode.depth
    [] mode.kind = "Out" -> Len(frames) < mode.depth

\* should_stop, the step mode.
StepModeStops ==
  CASE mode.kind = "Run" -> FALSE
    [] mode.kind = "In" -> TRUE
    [] mode.kind = "Over" -> Len(frames) =< mode.depth
    [] mode.kind = "Out" -> Len(frames) < mode.depth

\* debug_should_stop: neither asked where it resumes nor in a nested loop.
ShouldStop ==
  /\ loops = <<>> /\ frames # <<>> /\ ~resuming
  /\ interrupt \/ Here \in breakpoints \/ StepModeStops

\* Whether the next instruction is one that a step is to stop before.
Counts ==
  \/ mode.kind = "In" /\ loops = <<>>
  \/ mode.kind = "Over" /\ Len(frames) =< mode.depth
  \/ mode.kind = "Out" /\ Len(frames) < mode.depth

Pause ==
  /\ running /\ ShouldStop
  /\ running' = FALSE
  /\ interrupt' = FALSE
  /\ rested' = TRUE
  /\ UNCHANGED <<started, finished, breakpoints, mode, resuming, vm, shallow>>

\* An instruction, in whichever loop runs; an uncaught error ends the command.
Execute ==
  /\ running /\ ~ShouldStop /\ frames # <<>>
  /\ \E next \in After(frames, loops) :
       /\ frames' = next.frames /\ loops' = next.loops
       /\ failed' = next.failed
       /\ running' = ~next.failed
       /\ finished' = (finished \/ next.failed)
  /\ resuming' = (resuming /\ loops # <<>>)
  /\ rested' = FALSE
  /\ shallow' = IF shallow < 2 /\ Counts THEN shallow + 1 ELSE shallow
  /\ UNCHANGED <<started, breakpoints, mode, interrupt, ran_entry, arity, resumed>>

Ends(fails) ==
  finished' = TRUE /\ running' = FALSE /\ failed' = fails /\ UNCHANGED <<ran_entry, frames>>

EntersMain == frames' = <<Enter(Main)>> /\ UNCHANGED <<finished, running, failed>>

\* Only start_debug asks for main's parameters.
Refused == arity > 0 /\ ~resumed

\* Faulty variant: that main ran is not recorded.
EntryReturned_Forgets ==
  /\ running /\ frames = <<>>
  /\ \/ (ran_entry \/ arity = NoMain) /\ Ends(FALSE)
     \/ ~ran_entry /\ Refused /\ Ends(TRUE)
     \/ ~ran_entry /\ arity # NoMain /\ ~Refused /\ EntersMain /\ UNCHANGED ran_entry
  /\ UNCHANGED <<started, debug, loops, arity, resumed, ghost>>

\* start_debug and resume_debug after a loop ran out of frames: main, if there is
\* one, is owed once; then the session is finished.
EntryReturned ==
  /\ running /\ frames = <<>>
  /\ \/ (ran_entry \/ arity = NoMain) /\ Ends(FALSE)
     \/ ~ran_entry /\ Refused /\ Ends(TRUE)
     \/ ~ran_entry /\ arity # NoMain /\ ~Refused /\ EntersMain /\ ran_entry' = TRUE
  /\ UNCHANGED <<started, debug, loops, arity, resumed, ghost>>

Loop == Pause \/ Execute \/ EntryReturned

Kinds == {"Run", "In", "Over", "Out"}

\* Whoever holds a session may arm any instruction, interrupt it from another
\* thread, and give it commands until it is finished.
ApiNext ==
  \/ \E f \in DOMAIN Code : \E ip \in DOMAIN Code[f] :
       \/ Cardinality(breakpoints) < MaxArmed /\ SetBreakpoint(<<f, ip>>)
       \/ ClearBreakpoint(<<f, ip>>)
  \/ RequestInterrupt
  \/ \E kind \in Kinds : ~finished /\ RunWith(kind)
  \/ Loop

-----------------------------------------------------------------------------
(* What a session promises.                                                  *)

\* The session's run: where it is in the program.
Stage ==
  IF ~started THEN "ready"
  ELSE IF finished THEN "over"
  ELSE IF ran_entry THEN "main" ELSE "toplevel"

Program == INSTANCE ProgramRun WITH stage <- Stage
program == <<arity, Stage, frames, loops, failed>>

\* "A debugged run is the run the user would get" (start_debug): stopping,
\* stepping and resuming neither skip nor repeat an instruction, <toplevel> and
\* main run once each, and the run ends as it would.  This is true of a program
\* whose main takes no parameters.
RunSpec == Program!RunSpec

\* resume_debug enters a main that takes parameters, after a stop inside
\* <toplevel>: a plain run refuses it there.
UncheckedMain ==
  /\ arity > 0 /\ resumed
  /\ Stage = "toplevel" /\ frames = <<>>
  /\ Stage' = "main" /\ frames' = <<Enter(Main)>>
  /\ UNCHANGED <<arity, loops, failed>>

\* What is true of every program: the run under a debugger is a run of the
\* program ("Pausing does not disturb the program", debug.rs) but for that step.
PausesDoNotDisturb ==
  Program!RunInit /\ [][Program!RunNext \/ UncheckedMain]_program

\* The instrumented loop never runs an armed instruction it has not stopped at
\* just before, under any command: the grace given to a resumed instruction is
\* never spent on another one.
NoArmedInstructionSlips ==
  [][Execute /\ loops = <<>> /\ Here \in breakpoints => rested]_session

\* A step runs one instruction where it is to stop and then stops: stepping
\* over and out pass callees and callbacks but nothing else, whatever errors
\* unwind and whatever recursion does to the depth.
StepsStopInTime == shallow =< 1
=============================================================================

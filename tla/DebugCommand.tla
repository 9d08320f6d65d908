---------------------------- MODULE DebugCommand ----------------------------
(***************************************************************************)
(* `brasa debug` (brasa/debug.rs): one question per invocation.  Every     *)
(* --break is bound before anything runs, --continue resumes past that     *)
(* many stops, and the exit code says what was found.                      *)
(***************************************************************************)
EXTENDS DebugSession

CONSTANT MaxContinue    \* bound: the argument of --continue

VARIABLES
  continues,  \* how often --continue still resumes
  exit,       \* the exit code, -1 until there is one
  stops       \* history: stops so far

cli == <<continues, exit, stops>>

EXIT_USAGE == 64
EXIT_NEVER_HIT == 3

CliInit ==
  /\ SessionInit
  /\ continues \in 0 .. MaxContinue /\ exit = -1 /\ stops = 0

\* A --break that binds to nothing ends the command before the program starts.
Break(file, line) ==
  /\ ~started /\ exit = -1
  /\ IF Bind(file, line) = <<>>
     THEN exit' = EXIT_USAGE /\ UNCHANGED session
     ELSE SetBreakpoint(Bind(file, line)) /\ UNCHANGED exit
  /\ UNCHANGED <<continues, stops>>

\* The first resume, and one more for each --continue unless the run is over.
Resume ==
  /\ exit = -1 /\ ~finished
  /\ started => continues > 0
  /\ RunWith("Run")
  /\ continues' = IF started THEN continues - 1 ELSE continues
  /\ UNCHANGED <<exit, stops>>

Answer ==
  /\ exit = -1 /\ started /\ ~running
  /\ finished \/ continues = 0
  /\ exit' = IF finished THEN EXIT_NEVER_HIT ELSE 0
  /\ UNCHANGED <<session, continues, stops>>

CliNext ==
  \/ \E file \in DOMAIN LineStarts : \E line \in 1 .. Len(LineStarts[file]) + 1 : Break(file, line)
  \/ Resume
  \/ Answer
  \/ /\ Loop
     /\ stops' = IF rested' /\ ~running' /\ stops =< MaxContinue THEN stops + 1 ELSE stops
     /\ UNCHANGED <<continues, exit>>
=============================================================================

---------------------------- MODULE DebugAdapter ----------------------------
(***************************************************************************)
(* The Debug Adapter Protocol server (brasa_dap/lib.rs): one request is    *)
(* read, answered and carried out before the next is read.  Phase one ends *)
(* when launch names a program; only phase two has a session.  The client  *)
(* is assumed to send no run request after `terminated`; apart from that   *)
(* it sends anything in any order.                                         *)
(***************************************************************************)
EXTENDS DebugSession

VARIABLES
  phase,      \* "configure", "session" or "closed"
  reporting,  \* a run request has not been reported on yet
  told        \* the last event about the run: "", "stopped" or "terminated"

dap == <<phase, reporting, told>>

Files == DOMAIN LineStarts

DapInit ==
  /\ SessionInit
  /\ phase = "configure" /\ reporting = FALSE /\ told = ""

\* The requests that answer and change nothing are left out.
Launch ==
  /\ phase = "configure"
  /\ phase' = "session"
  /\ UNCHANGED <<session, reporting, told>>

Disconnect ==
  /\ phase # "closed" /\ ~running /\ ~reporting
  /\ phase' = "closed"
  /\ UNCHANGED <<session, reporting, told>>

\* set_breakpoints, which starts by clearing what was armed, in any file; in phase
\* one the request is answered and dropped.
SetBreakpoints(file, lines) ==
  /\ phase # "closed" /\ ~running /\ ~reporting
  /\ breakpoints' = IF phase = "session" THEN {Bind(file, l) : l \in lines} \ {<<>>}
                    ELSE breakpoints
  /\ UNCHANGED <<started, finished, running, mode, interrupt, resuming, vm, ghost,
                 phase, reporting, told>>

\* configurationDone, continue, next, stepIn, stepOut.
RunRequest(kind) ==
  /\ phase = "session" /\ ~reporting /\ told # "terminated"
  /\ RunWith(kind)
  /\ reporting' = TRUE
  /\ UNCHANGED <<phase, told>>

\* report
Report ==
  /\ reporting /\ ~running
  /\ reporting' = FALSE
  /\ told' = IF finished THEN "terminated" ELSE "stopped"
  /\ UNCHANGED <<session, phase>>

DapNext ==
  \/ Launch \/ Disconnect
  \/ \E file \in Files : \E lines \in SUBSET DOMAIN LineStarts[file] : SetBreakpoints(file, lines)
  \/ \E kind \in Kinds : RunRequest(kind)
  \/ Report
  \/ Loop /\ UNCHANGED dap

DapSpec == DapInit /\ [][DapNext]_<<session, dap>>
=============================================================================

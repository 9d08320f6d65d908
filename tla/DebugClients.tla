---------------------------- MODULE DebugClients ----------------------------
(***************************************************************************)
(* The holders of a debug session: any user of the API, the interactive    *)
(* debugger, the protocol adapter and the command.  Each owns the session  *)
(* from the start; client says which.                                      *)
(***************************************************************************)
EXTENDS DebuggerTui, DebugAdapter, DebugCommand

VARIABLE client

ClientInit ==
  /\ client \in {"api", "tui", "dap", "cli"}
  /\ TuiInit /\ DapInit /\ CliInit
  /\ client # "cli" => continues = 0

ClientNext ==
  /\ \/ client = "api" /\ ApiNext /\ UNCHANGED <<tui, dap, cli>>
     \/ client = "tui" /\ TuiNext /\ UNCHANGED <<dap, cli>>
     \/ client = "dap" /\ DapNext /\ UNCHANGED <<tui, cli>>
     \/ client = "cli" /\ CliNext /\ UNCHANGED <<tui, dap>>
  /\ UNCHANGED client

ClientSpec == ClientInit /\ [][ClientNext]_<<client, session, tui, dap, cli>>

-----------------------------------------------------------------------------
\* ViewIsHonest, of the client that has a view.
TuiIsHonest == client = "tui" => ViewIsHonest
=============================================================================

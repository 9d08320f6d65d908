-------------------------- MODULE StructuredScopes --------------------------
(***************************************************************************)
(* What structured concurrency promises the program, without queues,       *)
(* drivers or signals: tasks and scopes form a tree.  A scope is opened by *)
(* an actor that is still alive, a task belongs to one open scope, a task  *)
(* settles for good and only when every scope it opened has exited, and a  *)
(* scope exits only when every task of it has settled.                     *)
(***************************************************************************)
CONSTANTS Tasks, Scopes,
          Root,         \* the program's root task, an actor but no task
          Nobody        \* the opener of a scope that is not open

VARIABLES
  task,         \* "none", "live" or "settled"
  owner,        \* the scope of a live or settled task
  scope,        \* "none", "open" or "exited"
  opener        \* who opened an open scope

vars == <<task, owner, scope, opener>>

Init ==
  /\ task = [t \in Tasks |-> "none"]
  /\ owner \in [Tasks -> {0}]
  /\ scope = [s \in Scopes |-> "none"]
  /\ opener = [s \in Scopes |-> Nobody]

Alive(a) == a = Root \/ (a \in Tasks /\ task[a] = "live")

Open(s, a) ==
  /\ Alive(a)
  /\ scope[s] = "none"
  /\ scope' = [scope EXCEPT ![s] = "open"]
  /\ opener' = [opener EXCEPT ![s] = a]
  /\ UNCHANGED <<task, owner>>

Spawn(t, s) ==
  /\ scope[s] = "open"
  /\ task[t] = "none"
  /\ task' = [task EXCEPT ![t] = "live"]
  /\ owner' = [owner EXCEPT ![t] = s]
  /\ UNCHANGED <<scope, opener>>

\* A teardown may settle several tasks at once.
Settle(T) ==
  /\ T # {}
  /\ \A t \in T : task[t] = "live" /\ \A s \in Scopes : opener[s] # t
  /\ task' = [t \in Tasks |-> IF t \in T THEN "settled" ELSE task[t]]
  /\ UNCHANGED <<owner, scope, opener>>

Exit(s) ==
  /\ scope[s] = "open"
  /\ \A t \in Tasks : owner[t] = s => task[t] = "settled"
  /\ scope' = [scope EXCEPT ![s] = "exited"]
  /\ opener' = [opener EXCEPT ![s] = Nobody]
  /\ UNCHANGED <<task, owner>>

Next ==
  \/ \E s \in Scopes, a \in Tasks \cup {Root} : Open(s, a)
  \/ \E t \in Tasks, s \in Scopes : Spawn(t, s)
  \/ \E T \in SUBSET Tasks : Settle(T)
  \/ \E s \in Scopes : Exit(s)

Spec == Init /\ [][Next]_vars
=============================================================================

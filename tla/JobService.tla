----------------------------- MODULE JobService -----------------------------
(***************************************************************************)
(* What the offload pool promises its owner, with no threads, locks or     *)
(* counters: a submitted job is pending until it finishes, a finished job  *)
(* is handed over exactly once, and closing the service abandons whatever  *)
(* is pending.                                                             *)
(***************************************************************************)
CONSTANT Jobs

VARIABLES
  pending,      \* submitted and not finished
  finished,     \* finished and not handed over
  received,     \* handed over to the owner
  closed        \* the service was dropped

vars == <<pending, finished, received, closed>>

Init ==
  /\ pending = {} /\ finished = {} /\ received = {}
  /\ closed = FALSE

Submit(j) ==
  /\ ~closed
  /\ j \notin pending \cup finished \cup received
  /\ pending' = pending \cup {j}
  /\ UNCHANGED <<finished, received, closed>>

Finish(j) ==
  /\ j \in pending
  /\ pending' = pending \ {j}
  /\ finished' = finished \cup {j}
  /\ UNCHANGED <<received, closed>>

HandOver ==
  /\ ~closed
  /\ finished # {}
  /\ received' = received \cup finished
  /\ finished' = {}
  /\ UNCHANGED <<pending, closed>>

Close ==
  /\ ~closed
  /\ closed' = TRUE
  /\ pending' = {}
  /\ UNCHANGED <<finished, received>>

Next ==
  \/ \E j \in Jobs : Submit(j) \/ Finish(j)
  \/ HandOver
  \/ Close

Spec == Init /\ [][Next]_vars
=============================================================================

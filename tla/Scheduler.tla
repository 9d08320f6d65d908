----------------------------- MODULE Scheduler -----------------------------
(***************************************************************************)
(* The VM's task scheduler: concurrent(body), Scope.spawn, Task.value and  *)
(* the drive loops behind them (brasa_vm/vm.rs and brasa_vm/builtins.rs).  *)
(*                                                                         *)
(* There is one thread.  What interleaves are the program's tasks: a       *)
(* suspension point sets the running task aside on the drivers stack and   *)
(* runs others in its place, so any task may find any other queued,        *)
(* parked, or below itself on that stack.  The program's own code is any   *)
(* sequence of scheduler calls, throws, panics and catches; handles may    *)
(* travel anywhere, so a call may name any scope or task that exists.      *)
(*                                                                         *)
(* "control" says which part of the scheduler runs next: the program       *)
(* ("user"), a drive about to start ("enter"), the top of a drive loop     *)
(* ("loop"), its test after a task stopped ("check"), and the code after   *)
(* a drive that returned ("finish") or failed ("raised").                  *)
(***************************************************************************)
EXTENDS Integers, Sequences, FiniteSets, SequencesExt

CONSTANTS
  MaxTasks,         \* bound: how many tasks the program spawns
  MaxScopes,        \* bound: how many scopes it opens
  MaxParks,         \* bound: how many times tasks park
  MayPanic,         \* whether program code panics
  PanicsInTeardown  \* whether it does so while some scope is tearing down

ASSUME BoundsAssumption ==
  /\ MaxTasks \in Nat /\ MaxScopes \in Nat /\ MaxParks \in Nat
  /\ MayPanic \in BOOLEAN /\ PanicsInTeardown \in BOOLEAN

Tasks == 1 .. MaxTasks
Scopes == 1 .. MaxScopes
Root == 0                    \* the program's root task, which has no cell
Actors == Tasks \cup {Root}
Idle == -1                   \* the running slot of a drive loop is empty
NoScope == 0

Signals == {"none", "error", "panic"}

\* A drive's goal; "then" says what a teardown was begun for: an error or a
\* panic that left the body, a panic of the settling, or an unread failure.
Goals == [kind : {"none", "value", "settle", "teardown"},
          id : Tasks \cup Scopes \cup {0}, then : Signals \cup {"failure"}]
NoGoal == [kind |-> "none", id |-> 0, then |-> "none"]

VARIABLES
  cell,       \* TaskState of each task
  observed,   \* Failed.observed
  order,      \* Failed.order
  owner,      \* the scope a task was spawned on
  scope,      \* a scope not opened yet, open, or exited
  runnable,   \* SchedState.runnable: entries [task, resume, cancelled]
  parked,     \* SchedState.parked: entries [task, wait]
  drivers,    \* SchedState.drivers, with the goal of each one's drive loop
  current,    \* current_cell and current_cancelled
  failures,   \* SchedState.failures
  bodies,     \* per actor, the concurrent calls on its Rust stack
  control,    \* which part of the scheduler runs next
  goal,       \* the goal "enter", "finish" and "raised" are about
  signal,     \* the signal unwinding the current actor
  parks,      \* how many parks there were (bound)
  outcome,    \* history: how a scope's concurrent call ended
  rethrown    \* history: the task whose failure a scope's settling rethrew

cells == <<cell, observed, order, failures>>
queues == <<runnable, parked>>
stack == <<drivers, current>>
history == <<outcome, rethrown>>
vars == <<cells, owner, scope, queues, stack, bodies, control, goal, signal,
          parks, history>>

Entries == [task : Tasks, resume : {"none", "value", "error"}, cancelled : BOOLEAN]
Waiters == [task : Tasks, wait : {"timer", "job"}]
Occupants == [cell : Actors \cup {Idle}, cancelled : BOOLEAN]

TypeOK ==
  /\ cell \in [Tasks -> {"none", "pending", "running", "done", "failed"}]
  /\ observed \in [Tasks -> BOOLEAN]
  /\ order \in [Tasks -> Nat]
  /\ owner \in [Tasks -> Scopes \cup {NoScope}]
  /\ scope \in [Scopes -> {"none", "open", "exited"}]
  /\ runnable \in Seq(Entries)
  /\ parked \in Seq(Waiters)
  /\ drivers \in Seq([cell : Actors, cancelled : BOOLEAN, goal : Goals])
  /\ current \in Occupants
  /\ failures \in Nat
  /\ bodies \in [Actors -> Seq(Scopes)]
  /\ control \in {"user", "enter", "loop", "check", "finish", "raised", "over", "fatal"}
  /\ goal \in Goals
  /\ signal \in Signals
  /\ parks \in 0 .. MaxParks
  /\ outcome \in [Scopes -> {"open", "value", "error", "panic"}]
  /\ rethrown \in [Scopes -> Tasks \cup {0}]

Init ==
  /\ cell = [t \in Tasks |-> "none"]
  /\ observed = [t \in Tasks |-> FALSE]
  /\ order = [t \in Tasks |-> 0]
  /\ owner = [t \in Tasks |-> NoScope]
  /\ scope = [s \in Scopes |-> "none"]
  /\ runnable = <<>> /\ parked = <<>> /\ drivers = <<>>
  /\ current = [cell |-> Root, cancelled |-> FALSE]
  /\ failures = 0
  /\ bodies = [a \in Actors |-> <<>>]
  /\ control = "user" /\ goal = NoGoal /\ signal = "none"
  /\ parks = 0
  /\ outcome = [s \in Scopes |-> "open"]
  /\ rethrown = [s \in Scopes |-> 0]

-----------------------------------------------------------------------------
(* Cells and queues.                                                         *)

TasksOf(s) == {t \in Tasks : owner[t] = s}
Pending(s) == {t \in TasksOf(s) : cell[t] = "pending"}

\* Faulty variant: the first failure of the run, of order 0, counts as none.
UnobservedFailures_SkipsOrderZero(s) ==
  {t \in TasksOf(s) : cell[t] = "failed" /\ ~observed[t] /\ order[t] > 0}

\* The failures nobody has read.
UnobservedFailures(s) == {t \in TasksOf(s) : cell[t] = "failed" /\ ~observed[t]}

TaskSet(queue) == {queue[i].task : i \in DOMAIN queue}
Held == TaskSet(runnable) \cup TaskSet(parked)

\* Faulty variant: the earliest by spawn order.
FirstUnobserved_InSpawnOrder(s) ==
  CHOOSE t \in UnobservedFailures(s) : \A u \in UnobservedFailures(s) : t =< u

\* first_unobserved_failure: the earliest by occurrence.
FirstUnobserved(s) ==
  CHOOSE t \in UnobservedFailures(s) :
    \A u \in UnobservedFailures(s) : order[t] =< order[u]

\* settle_failed and settle_cancelled: the next occurrence number.
Fail(t, seen) ==
  /\ cell' = [cell EXCEPT ![t] = "failed"]
  /\ observed' = [observed EXCEPT ![t] = seen]
  /\ order' = [order EXCEPT ![t] = failures]
  /\ failures' = failures + 1

\* The numbers of S, and the entries of a queue at the positions I, in order.
Ascending(S) ==
  [k \in 1 .. Cardinality(S) |-> CHOOSE x \in S : Cardinality({y \in S : y < x}) = k - 1]
Only(queue, I) ==
  LET kept == Ascending(I) IN [k \in DOMAIN kept |-> queue[kept[k]]]

\* Where the tasks of s are queued, and those of them that never ran.
Of(queue, s) == {i \in DOMAIN queue : owner[queue[i].task] = s}
Fresh(s) == {i \in Of(runnable, s) : runnable[i].resume = "none"}
Without(queue, s) == Only(queue, DOMAIN queue \ Of(queue, s))

\* A task that was cancelled while it waited raises Cancelled where it stands.
Wake(t) == [task |-> t, resume |-> "error", cancelled |-> TRUE]

\* Faulty variant: every queued entry of s is dropped, resumed ones too.
CancelledQueue_DropsResumed(s) ==
  LET woken == Only(parked, Of(parked, s))
  IN  Without(runnable, s) \o [i \in DOMAIN woken |-> Wake(woken[i].task)]

\* What remains queued when s is cancelled: its never-run entries are dropped,
\* its resumed ones and its parked tasks wake with Cancelled at the suspension
\* point they stand at.
CancelledQueue(s) ==
  LET kept == Only(runnable, DOMAIN runnable \ Fresh(s))
      woken == Only(parked, Of(parked, s))
  IN  [i \in DOMAIN kept |->
         IF owner[kept[i].task] = s THEN Wake(kept[i].task) ELSE kept[i]]
      \o [i \in DOMAIN woken |-> Wake(woken[i].task)]

\* Faulty variants: parked tasks are woken but stay parked; the flag of an
\* outcome that was read is lost.
CancelScope_KeepsParked(s, seen) ==
  LET settled == Pending(s) \cup {runnable[i].task : i \in Fresh(s)}
  IN  /\ cell' = [t \in Tasks |-> IF t \in settled THEN "failed" ELSE cell[t]]
      /\ observed' = [t \in Tasks |-> observed[t] \/ t \in settled \cup seen]
      /\ runnable' = CancelledQueue(s)
      /\ UNCHANGED <<order, failures, parked>>

\* cancel_scope, after take_failure marked the tasks of "seen": pending and
\* never-run tasks settle as failed and observed, in that order.
CancelScope(s, seen) ==
  LET fresh == Only(runnable, Fresh(s))
      settled == Ascending(Pending(s)) \o [i \in DOMAIN fresh |-> fresh[i].task]
      Position(t) == CHOOSE i \in DOMAIN settled : settled[i] = t
  IN  /\ cell' = [t \in Tasks |-> IF t \in ToSet(settled) THEN "failed" ELSE cell[t]]
      /\ observed' = [t \in Tasks |-> observed[t] \/ t \in ToSet(settled) \cup seen]
      /\ order' = [t \in Tasks |-> IF t \in ToSet(settled)
                                   THEN failures + Position(t) - 1 ELSE order[t]]
      /\ failures' = failures + Len(settled)
      /\ runnable' = CancelledQueue(s)
      /\ parked' = Without(parked, s)

\* begin_task for every pending task of s, in spawn order (sweep_scope).
BeginPending(s) ==
  LET begun == Ascending(Pending(s))
      Entry(t) == [task |-> t, resume |-> "none", cancelled |-> FALSE]
  IN  /\ cell' = [t \in Tasks |-> IF t \in Pending(s) THEN "running" ELSE cell[t]]
      /\ runnable' = runnable \o [i \in DOMAIN begun |-> Entry(begun[i])]

\* Faulty variant: runnable tasks are not purged.
Purge_ParkedOnly(s) ==
  /\ parked' = Without(parked, s)
  /\ UNCHANGED runnable

\* purge_scope.
Purge(s) ==
  /\ runnable' = Without(runnable, s)
  /\ parked' = Without(parked, s)

-----------------------------------------------------------------------------
(* concurrent(body): the code around the body and around settling.           *)

\* cancel_and_settle(s), begun for "then".
TearDown(s, seen, then) ==
  /\ CancelScope(s, seen)
  /\ goal' = [kind |-> "teardown", id |-> s, then |-> then]
  /\ control' = "enter"
  /\ signal' = "none"
  /\ UNCHANGED <<owner, scope, stack, bodies, parks, outcome>>

\* The end of concurrent_call: the scope has exited and is purged, and its
\* result or signal is back in the actor that opened it.
ExitScope(s, sig) ==
  /\ scope' = [scope EXCEPT ![s] = "exited"]
  /\ Purge(s)
  /\ bodies' = [bodies EXCEPT ![current.cell] = Front(@)]
  /\ outcome' = [outcome EXCEPT ![s] = IF sig = "none" THEN "value" ELSE sig]
  /\ goal' = NoGoal
  /\ control' = "user"
  /\ signal' = sig
  /\ UNCHANGED <<cells, owner, stack, parks, rethrown>>

\* drive_settling once its drive is over: the earliest unread failure tears
\* the scope down and is rethrown.
Rethrow(s) ==
  LET trigger == FirstUnobserved(s)
  IN  /\ rethrown' = [rethrown EXCEPT ![s] = trigger]
      /\ TearDown(s, {trigger}, "failure")

-----------------------------------------------------------------------------
(* The program: what the running actor may do between suspension points.     *)

Executing == control = "user" /\ signal = "none"

\* concurrent(body) calls the body with a fresh scope.
OpenScope ==
  /\ Executing
  /\ \E s \in Scopes :
       /\ scope[s] = "none"
       /\ \A r \in Scopes : r < s => scope[r] # "none"
       /\ scope' = [scope EXCEPT ![s] = "open"]
       /\ bodies' = [bodies EXCEPT ![current.cell] = Append(@, s)]
  /\ UNCHANGED <<cells, owner, queues, stack, control, goal, signal, parks, history>>

\* Faulty variant: no check of the scope's exit.
Spawn_AfterExit(s) ==
  /\ Executing
  /\ scope[s] # "none" /\ ~current.cancelled
  /\ \E t \in Tasks :
       /\ cell[t] = "none"
       /\ \A u \in Tasks : u < t => cell[u] # "none"
       /\ cell' = [cell EXCEPT ![t] = "pending"]
       /\ owner' = [owner EXCEPT ![t] = s]
  /\ UNCHANGED <<observed, order, failures, scope, queues, stack, bodies, control,
                 goal, signal, parks, history>>

\* spawn_task: a cancelled task or an exited scope raises, otherwise the block
\* is registered and does not run.
Spawn(s) ==
  /\ Executing
  /\ scope[s] # "none"
  /\ IF current.cancelled \/ scope[s] = "exited"
     THEN signal' = "error" /\ UNCHANGED <<cell, owner>>
     ELSE /\ \E t \in Tasks :
               /\ cell[t] = "none"
               /\ \A u \in Tasks : u < t => cell[u] # "none"
               /\ cell' = [cell EXCEPT ![t] = "pending"]
               /\ owner' = [owner EXCEPT ![t] = s]
          /\ UNCHANGED signal
  /\ UNCHANGED <<observed, order, failures, scope, queues, stack, bodies, control,
                 goal, parks, history>>

\* task_builtin: value() drives until t settles.  Reading a result again
\* changes nothing and is left out.
Value(t) ==
  /\ Executing
  /\ cell[t] \in {"pending", "running"} \/ (cell[t] = "failed" /\ ~observed[t])
  /\ goal' = [kind |-> "value", id |-> t, then |-> "none"]
  /\ control' = "enter"
  /\ UNCHANGED <<cells, owner, scope, queues, stack, bodies, signal, parks, history>>

\* Faulty variant: a task parks although a concurrent call is on its Rust stack.
Park_AtAnyDepth(kind) ==
  /\ Executing
  /\ drivers # <<>>
  /\ ~current.cancelled
  /\ parks < MaxParks
  /\ parks' = parks + 1
  /\ parked' = Append(parked, [task |-> current.cell, wait |-> kind])
  /\ current' = [cell |-> Idle, cancelled |-> FALSE]
  /\ control' = "check"
  /\ UNCHANGED <<cells, owner, scope, runnable, drivers, bodies, goal, signal, history>>

\* A blocking builtin parks the running task: some drive loop is on the Rust
\* stack and the task is not inside a nested dispatch loop (can_park).  A
\* cancelled task raises there instead, which Throw covers, and one that
\* cannot park blocks in place, which changes nothing.
Park(kind) ==
  /\ Executing
  /\ bodies[current.cell] = <<>> /\ drivers # <<>>
  /\ ~current.cancelled
  /\ parks < MaxParks
  /\ parks' = parks + 1
  /\ parked' = Append(parked, [task |-> current.cell, wait |-> kind])
  /\ current' = [cell |-> Idle, cancelled |-> FALSE]
  /\ control' = "check"
  /\ UNCHANGED <<cells, owner, scope, runnable, drivers, bodies, goal, signal, history>>

Throw ==
  /\ Executing
  /\ signal' = "error"
  /\ UNCHANGED <<cells, owner, scope, queues, stack, bodies, control, goal, parks, history>>

TearingDown == \E i \in DOMAIN drivers : drivers[i].goal.kind = "teardown"

Panic ==
  /\ Executing
  /\ MayPanic
  /\ TearingDown => PanicsInTeardown
  /\ signal' = "panic"
  /\ UNCHANGED <<cells, owner, scope, queues, stack, bodies, control, goal, parks, history>>

\* A handler of the running code takes the error or the panic (unwind).
Catch ==
  /\ control = "user" /\ signal # "none"
  /\ signal' = "none"
  /\ UNCHANGED <<cells, owner, scope, queues, stack, bodies, control, goal, parks, history>>

\* The body of the innermost concurrent call returns: settle_scope.
BodyReturns ==
  /\ Executing
  /\ bodies[current.cell] # <<>>
  /\ LET s == Last(bodies[current.cell])
     IN  IF UnobservedFailures(s) # {}
         THEN Rethrow(s)
         ELSE /\ goal' = [kind |-> "settle", id |-> s, then |-> "none"]
              /\ control' = "enter"
              /\ UNCHANGED <<cells, owner, scope, queues, stack, bodies, signal,
                             parks, history>>

\* Faulty variant: a failing body leaves its children to the purge.
BodyRaises_WithoutTeardown ==
  /\ control = "user" /\ signal # "none"
  /\ bodies[current.cell] # <<>>
  /\ ExitScope(Last(bodies[current.cell]), signal)

\* An error or a panic leaves the body: the children are cancelled and waited
\* for before it goes on.
BodyRaises ==
  /\ control = "user" /\ signal # "none"
  /\ bodies[current.cell] # <<>>
  /\ TearDown(Last(bodies[current.cell]), {}, signal)
  /\ UNCHANGED rethrown

ProgramEnds ==
  /\ control = "user"
  /\ current.cell = Root
  /\ bodies[Root] = <<>>
  /\ control' = "over"
  /\ UNCHANGED <<cells, owner, scope, queues, stack, bodies, goal, signal, parks, history>>

-----------------------------------------------------------------------------
(* run_scheduled, after the task it swapped in has stopped.                  *)

TaskStops == control = "user" /\ current.cell \in Tasks /\ bodies[current.cell] = <<>>
Vacate == current' = [cell |-> Idle, cancelled |-> FALSE]

TaskReturns ==
  /\ TaskStops /\ signal = "none"
  /\ cell' = [cell EXCEPT ![current.cell] = "done"]
  /\ Vacate
  /\ control' = "check"
  /\ UNCHANGED <<observed, order, failures, owner, scope, queues, drivers, bodies,
                 goal, signal, parks, history>>

TaskThrows ==
  /\ TaskStops /\ signal = "error"
  /\ Fail(current.cell, FALSE)
  /\ Vacate
  /\ signal' = "none"
  /\ control' = "check"
  /\ UNCHANGED <<owner, scope, queues, drivers, bodies, goal, parks, history>>

\* drive pops its driver and restores what it set aside.
PopDriver ==
  /\ drivers' = Front(drivers)
  /\ current' = [cell |-> Last(drivers).cell, cancelled |-> Last(drivers).cancelled]
  /\ goal' = Last(drivers).goal

\* The task settles as cancelled and its panic leaves the drive loop it ran in.
TaskPanics ==
  /\ TaskStops /\ signal = "panic"
  /\ Fail(current.cell, TRUE)
  /\ PopDriver
  /\ control' = "raised"
  /\ UNCHANGED <<owner, scope, queues, bodies, signal, parks, history>>

-----------------------------------------------------------------------------
(* drive, drive_loop and goal_settled.                                       *)

\* The scope goal_settled sweeps: the goal's own, or that of a target whose
\* scope task_scope can still tell.
SweptScope(g) ==
  IF g.kind # "value" THEN g.id
  ELSE IF cell[g.id] = "pending" \/ g.id \in Held THEN owner[g.id]
  ELSE NoScope

\* Whether the goal has settled, given the cells after the sweep.
Settled(g, swept) ==
  CASE g.kind = "value" -> swept[g.id] \in {"done", "failed"}
    [] g.kind = "settle" -> \/ \A t \in TasksOf(g.id) : swept[t] # "running"
                            \/ UnobservedFailures(g.id) # {}
    [] g.kind = "teardown" -> \A t \in TasksOf(g.id) : swept[t] # "running"

\* The target was started and nobody holds it: it is below on the stack.
DependsOnItself(g) == g.kind = "value" /\ cell[g.id] = "running" /\ g.id \notin Held

\* The head of drive: a settled goal needs no driver, a cancelled task must
\* not wait, anybody else is set aside and a drive loop starts.
Enter ==
  /\ control = "enter"
  /\ BeginPending(SweptScope(goal))
  /\ IF Settled(goal, cell')
     THEN control' = "finish" /\ UNCHANGED <<stack, goal, signal>>
     ELSE IF DependsOnItself(goal)
     THEN control' = "fatal" /\ UNCHANGED <<stack, goal, signal>>
     ELSE IF current.cancelled
     THEN control' = "raised" /\ signal' = "error" /\ UNCHANGED <<stack, goal>>
     ELSE /\ drivers' = Append(drivers, [cell |-> current.cell,
                                         cancelled |-> current.cancelled,
                                         goal |-> goal])
          /\ Vacate
          /\ goal' = NoGoal
          /\ control' = "loop"
          /\ UNCHANGED signal
  /\ UNCHANGED <<observed, order, failures, owner, scope, parked, bodies, parks, history>>

\* The drive loop's test after a task stopped.
Check ==
  /\ control = "check"
  /\ LET g == Last(drivers).goal
     IN  /\ BeginPending(SweptScope(g))
         /\ IF Settled(g, cell')
            THEN PopDriver /\ control' = "finish"
            ELSE /\ control' = IF DependsOnItself(g) THEN "fatal" ELSE "loop"
                 /\ UNCHANGED <<stack, goal>>
  /\ UNCHANGED <<observed, order, failures, owner, scope, parked, bodies, signal,
                 parks, history>>

\* Faulty variant: a finished job's task leaves the parked list and is lost.
Absorbed_LosesJobs(expired, finished, result) ==
  LET late == Ascending(expired)
  IN  runnable \o [k \in DOMAIN late |-> [task |-> parked[late[k]].task,
                                          resume |-> "value", cancelled |-> FALSE]]

\* absorb_completions: expired sleeps in park order, then finished jobs in
\* completion order, each with its value or its error.
Absorbed(expired, finished, result) ==
  LET late == Ascending(expired)
      Resume(i, r) == [task |-> parked[i].task, resume |-> r, cancelled |-> FALSE]
  IN  runnable \o [k \in DOMAIN late |-> Resume(late[k], "value")]
               \o [k \in DOMAIN finished |-> Resume(finished[k], result[finished[k]])]

\* pick_runnable: the target of a value() read first, otherwise the oldest.
Picked(g, queue) ==
  IF g.kind = "value" /\ g.id \in TaskSet(queue)
  THEN CHOOSE i \in DOMAIN queue : queue[i].task = g.id
  ELSE 1

\* One turn of the drive loop: absorb what is over (await_progress blocks
\* until something is, when nothing is runnable), pick a task and swap it in
\* with its resume: a pushed value, or an error at its suspension point.
Run ==
  /\ control = "loop"
  /\ \E expired \in SUBSET {i \in DOMAIN parked : parked[i].wait = "timer"},
        jobs \in SUBSET {i \in DOMAIN parked : parked[i].wait = "job"} :
     \E finished \in SetToSeqs(jobs), result \in [jobs -> {"value", "error"}] :
       LET queue == Absorbed(expired, finished, result)
           i == Picked(Last(drivers).goal, queue)
           over == expired \cup jobs
       IN  /\ queue # <<>>
           /\ runnable' = Only(queue, DOMAIN queue \ {i})
           /\ parked' = Only(parked, DOMAIN parked \ over)
           /\ current' = [cell |-> queue[i].task, cancelled |-> queue[i].cancelled]
           /\ signal' = IF queue[i].resume = "error" THEN "error" ELSE "none"
  /\ control' = "user"
  /\ UNCHANGED <<cells, owner, scope, drivers, bodies, goal, parks, history>>

\* What follows a drive that returned: value() answers the result or rethrows
\* the failure it observes, settling looks for a failure to rethrow, and a
\* finished teardown lets the scope exit with what it was begun for.
Finish ==
  /\ control = "finish"
  /\ CASE goal.kind = "value" ->
            LET failed == cell[goal.id] = "failed"
            IN  /\ observed' = [observed EXCEPT ![goal.id] = failed]
                /\ signal' = IF failed THEN "error" ELSE "none"
                /\ goal' = NoGoal
                /\ control' = "user"
                /\ UNCHANGED <<cell, order, failures, owner, scope, queues, stack,
                               bodies, parks, history>>
       [] goal.kind = "settle" ->
            IF UnobservedFailures(goal.id) # {} THEN Rethrow(goal.id)
                                                ELSE ExitScope(goal.id, "none")
       [] goal.kind = "teardown" ->
            ExitScope(goal.id, IF goal.then = "failure" THEN "error" ELSE goal.then)

\* Faulty variant: a teardown begun for an unread failure is abandoned as one
\* begun for a failing body is.
Raised_AbandonsFailureTeardown ==
  /\ control = "raised"
  /\ IF goal.kind = "value"
     THEN /\ goal' = NoGoal
          /\ control' = "user"
          /\ UNCHANGED <<cells, owner, scope, queues, stack, bodies, signal, parks,
                         history>>
     ELSE IF goal.kind = "settle" /\ signal = "panic"
     THEN TearDown(goal.id, {}, "panic") /\ UNCHANGED rethrown
     ELSE ExitScope(goal.id, signal)

\* A panic leaves drive_settling from its drive or from the teardown it began
\* for an unread failure: settle_scope cancels and settles the scope once more.
SettlingPanicked ==
  signal = "panic" /\ (goal.kind = "settle" \/ goal.then = "failure")

\* What follows a drive that failed: value() just fails; a panic while settling
\* tears the scope down first; that teardown and the one begun for a failing
\* body are abandoned when they fail, and so is a settling that is cancelled.
Raised ==
  /\ control = "raised"
  /\ IF goal.kind = "value"
     THEN /\ goal' = NoGoal
          /\ control' = "user"
          /\ UNCHANGED <<cells, owner, scope, queues, stack, bodies, signal, parks,
                         history>>
     ELSE IF SettlingPanicked
     THEN TearDown(goal.id, {}, "panic") /\ UNCHANGED rethrown
     ELSE ExitScope(goal.id, signal)

-----------------------------------------------------------------------------
\* The program is over, by its own end or by a fatal report.
Stopped == control \in {"over", "fatal"} /\ UNCHANGED vars

Program ==
  \/ OpenScope
  \/ \E s \in Scopes : Spawn(s)
  \/ \E t \in Tasks : Value(t)
  \/ \E kind \in {"timer", "job"} : Park(kind)
  \/ Throw \/ Panic \/ Catch

Returns ==
  BodyReturns \/ BodyRaises \/ ProgramEnds \/ TaskReturns \/ TaskThrows \/ TaskPanics

Scheduling == Enter \/ Check \/ Run \/ Finish \/ Raised

Next == Program \/ Returns \/ Scheduling \/ Stopped

Spec == Init /\ [][Next]_vars

\* The scheduler keeps running, and every block of the program ends after
\* finitely many calls.
FairSpec == Spec /\ WF_vars(Scheduling) /\ SF_vars(Returns)

-----------------------------------------------------------------------------
(* What the scheduler promises.                                              *)

Unsettled == {"pending", "running"}

\* Every place a started task can be: a queue, the drivers stack, the slot.
Places ==
  [i \in DOMAIN runnable |-> runnable[i].task]
    \o [i \in DOMAIN parked |-> parked[i].task]
    \o [i \in DOMAIN drivers |-> drivers[i].cell]
    \o (IF current.cell = Idle THEN <<>> ELSE <<current.cell>>)

\* Cells and queues agree: a task is started in one place only, it is there
\* exactly while its cell says Running, and no Running cell has nothing behind
\* it unless its scope is gone (the comment in begin_task: "the cell must not
\* stay Running with nothing behind it").
StartedInOnePlace ==
  /\ IsInjective(Places)
  /\ \A t \in Tasks \cap ToSet(Places) : cell[t] = "running"
  /\ \A t \in Tasks : cell[t] = "running" =>
       t \in ToSet(Places) \/ scope[owner[t]] = "exited"

\* The stack is a tree walk: whoever opened a scope is on the drivers stack, or
\* runs, and every task of that scope found there is above it.  Purging the
\* queues when the opener leaves therefore forgets all of the scope's tasks.
Depth(a) == IF current.cell = a THEN Len(drivers) + 1
            ELSE CHOOSE i \in DOMAIN drivers : drivers[i].cell = a
OnStack(a) == current.cell = a \/ \E i \in DOMAIN drivers : drivers[i].cell = a

OpenersAreBelow ==
  \A a \in Actors : \A s \in ToSet(bodies[a]) :
    /\ OnStack(a)
    /\ \A t \in TasksOf(s) : OnStack(t) => Depth(a) < Depth(t)

\* "No error is ever silently dropped" (concurrent_call): a concurrent call
\* that answers a value leaves no failure that nobody read.
NoSilentFailure ==
  \A s \in Scopes : outcome[s] = "value" =>
    \A t \in TasksOf(s) : cell[t] = "done" \/ (cell[t] = "failed" /\ observed[t])

\* What settling rethrows is the earliest failure that was unread, whatever
\* fails later during the teardown (the doc of Failed.order).
RethrowsEarliest ==
  \A s \in Scopes : rethrown[s] # 0 =>
    /\ cell[rethrown[s]] = "failed" /\ observed[rethrown[s]]
    /\ \A u \in UnobservedFailures(s) : order[rethrown[s]] < order[u]
    /\ scope[s] = "exited" => outcome[s] \in {"error", "panic"}

\* await_progress never finds nothing runnable and nothing parked.
NeverStuck == control = "loop" => runnable # <<>> \/ parked # <<>>

\* "Nothing outlives the scope" (cancel_and_settle).
NothingOutlivesItsScope ==
  \A s \in Scopes : scope[s] = "exited" => \A t \in TasksOf(s) : cell[t] \notin Unsettled

\* "The scheduler forgets whatever it still held for this scope"
\* (concurrent_call): when a scope exits nobody waits or stands anywhere for it,
\* even when a panic made it abandon a teardown.  (A task spawned during such a
\* teardown stays pending, and a later value() still starts it.)
ExitedScopeIsForgotten ==
  [][\A s \in Scopes : scope[s] = "open" /\ scope'[s] = "exited" =>
       TasksOf(s) \cap ToSet(Places)' = {}]_vars

\* "A panic in a task takes the same teardown" (settle_scope): one panic does
\* not leave anybody of a scope whose body returned, not even one that cuts the
\* teardown of an unread failure short and meets the tasks that were cancelling
\* or spawned there.
OnePanicLeavesNobody ==
  [][\A s \in Scopes : scope[s] = "open" /\ scope'[s] = "exited"
                         /\ goal.then \in {"none", "failure"} =>
       \A t \in TasksOf(s) : cell'[t] \notin Unsettled]_vars

\* Every opened scope exits and every spawned task settles, provided the
\* program's own blocks end; a task is also done with when a panic in another
\* one's cleanup made the scope abandon its teardown.
ScopesExit ==
  \A s \in Scopes : (scope[s] = "open") ~> (scope[s] = "exited" \/ control = "fatal")
TasksSettle ==
  LET abandoned(t) == PanicsInTeardown /\ owner[t] # NoScope /\ scope[owner[t]] = "exited"
  IN  \A t \in Tasks : (cell[t] \in Unsettled) ~>
                         (cell[t] \notin Unsettled \/ abandoned(t) \/ control = "fatal")

\* Tasks and scopes form a tree in which nothing outlives its scope: see
\* StructuredScopes.
Fate(t) == IF cell[t] = "none" THEN "none"
           ELSE IF cell[t] \in Unsettled THEN "live" ELSE "settled"
Opener(s) == IF scope[s] = "open" THEN CHOOSE a \in Actors : s \in ToSet(bodies[a]) ELSE Idle

Tree == INSTANCE StructuredScopes WITH
  Nobody <- Idle,
  task   <- [t \in Tasks |-> Fate(t)],
  opener <- [s \in Scopes |-> Opener(s)]

TreeSpec == Tree!Spec

-----------------------------------------------------------------------------
(* What comments of the code say of the scheduler.                           *)

\* "a result that depends on itself" (goal_settled): the target of the reported
\* read waits, through the drive loops on the stack, for the reader.
WaitsFor(t) ==
  UNION {IF drivers[i].goal.kind = "value" THEN {drivers[i].goal.id}
         ELSE {u \in TasksOf(drivers[i].goal.id) : cell[u] \in Unsettled} :
           i \in {k \in DOMAIN drivers : drivers[k].cell = t}}

DependsOn[n \in 0 .. MaxTasks] ==
  IF n = 0 THEN {goal.id}
  ELSE DependsOn[n - 1] \cup UNION {WaitsFor(t) : t \in DependsOn[n - 1]}

ReportedDependencyIsReal ==
  control = "fatal" /\ goal.kind = "value" => current.cell \in DependsOn[MaxTasks]
=============================================================================

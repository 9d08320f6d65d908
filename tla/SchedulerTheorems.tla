------------------------- MODULE SchedulerTheorems -------------------------
(***************************************************************************)
(* What follows from the scheduler's invariant: the properties its runs    *)
(* check, for every number of tasks, scopes and parks, and that tasks and  *)
(* scopes form the tree of StructuredScopes.                               *)
(***************************************************************************)
EXTENDS SchedulerProofs

-----------------------------------------------------------------------------
(* Where tasks are.                                                          *)

\* One list behind another has the elements of both, and repeats none that
\* neither list repeats and that they do not share.
LEMMA JoinedLists ==
  ASSUME NEW E, NEW p \in Seq(E), NEW q \in Seq(E)
  PROVE  /\ p \o q \in Seq(E) /\ ToSet(p \o q) = ToSet(p) \cup ToSet(q)
         /\ IsInjective(p) /\ IsInjective(q) /\ ToSet(p) \cap ToSet(q) = {} => IsInjective(p \o q)
<1>1. Len(p) \in Nat /\ p \o q \in Seq(E)
  OBVIOUS
<1>2. /\ \A i \in DOMAIN p : i \in DOMAIN (p \o q) /\ (p \o q)[i] = p[i]
      /\ \A i \in DOMAIN q : i + Len(p) \in DOMAIN (p \o q) /\ (p \o q)[i + Len(p)] = q[i]
      /\ \A i \in DOMAIN (p \o q) :
           /\ i \in Int
           /\ \/ i \in DOMAIN p /\ (p \o q)[i] = p[i]
              \/ i - Len(p) \in DOMAIN q /\ (p \o q)[i] = q[i - Len(p)]
  BY ConcatenatedAt
<1>3. ToSet(p \o q) = ToSet(p) \cup ToSet(q)
  <2>1. ToSet(p) \cup ToSet(q) \subseteq ToSet(p \o q)
    <3>1. ASSUME NEW i \in DOMAIN p PROVE p[i] \in ToSet(p \o q)
      BY <1>2 DEF ToSet
    <3>2. ASSUME NEW i \in DOMAIN q PROVE q[i] \in ToSet(p \o q)
      BY <1>2 DEF ToSet
    <3>. QED  BY <3>1, <3>2 DEF ToSet
  <2>2. ToSet(p \o q) \subseteq ToSet(p) \cup ToSet(q)
    BY <1>2 DEF ToSet
  <2>. QED  BY <2>1, <2>2
<1>4. ASSUME IsInjective(p), IsInjective(q), ToSet(p) \cap ToSet(q) = {}
      PROVE  IsInjective(p \o q)
  <2> SUFFICES ASSUME NEW i \in DOMAIN (p \o q), NEW j \in DOMAIN (p \o q), (p \o q)[i] = (p \o q)[j]
               PROVE  i = j
    BY DEF IsInjective
  <2>1. i \in Int /\ j \in Int /\ Len(p) \in Int
    BY <1>1, <1>2
  <2>2. \A k \in DOMAIN p, l \in DOMAIN q : p[k] # q[l]
    BY <1>4 DEF ToSet
  <2>3. CASE i \in DOMAIN p /\ j \in DOMAIN p
    BY <2>3, <1>2, <1>4 DEF IsInjective
  <2>4. CASE i \notin DOMAIN p /\ j \notin DOMAIN p
    <3>1. i - Len(p) = j - Len(p)
      BY <2>4, <1>2, <1>4 DEF IsInjective
    <3>. QED  BY <3>1, <2>1
  <2>5. CASE i \in DOMAIN p /\ j \notin DOMAIN p
    BY <2>5, <2>2, <1>2
  <2>6. CASE i \notin DOMAIN p /\ j \in DOMAIN p
    BY <2>6, <2>2, <1>2
  <2>. QED  BY <2>3, <2>4, <2>5, <2>6
<1>. QED  BY <1>1, <1>3, <1>4

\* The places are the queues and the levels of the stack but an empty slot.
LEMMA PlacesAre ==
  TypeOK => /\ ToSet(Places) = Held \cup (Stacked \ {Idle})
            /\ QueuedOnce /\ StackedOnce /\ Apart => IsInjective(Places)
<1> SUFFICES ASSUME TypeOK
             PROVE  /\ ToSet(Places) = Held \cup (Stacked \ {Idle})
                    /\ QueuedOnce /\ StackedOnce /\ Apart => IsInjective(Places)
  OBVIOUS
<1> DEFINE p1 == [i \in DOMAIN runnable |-> runnable[i].task]
           p2 == [i \in DOMAIN parked |-> parked[i].task]
           p3 == [i \in DOMAIN drivers |-> drivers[i].cell]
           p4 == IF current.cell = Idle THEN <<>> ELSE <<current.cell>>
           set3 == {drivers[i].cell : i \in DOMAIN drivers}
<1>1. p1 \in Seq(Actors) /\ ToSet(p1) = TaskSet(runnable) /\ (Distinct(runnable) => IsInjective(p1))
  <2>1. runnable \in Seq(Entries) /\ \A i \in DOMAIN runnable : runnable[i].task \in Actors
    BY QueuesHoldTasks, Names DEF TypeOK
  <2>2. p1 \in Seq(Actors)
    BY <2>1
  <2>. QED  BY <2>2 DEF ToSet, TaskSet, Distinct, IsInjective
<1>2. p2 \in Seq(Actors) /\ ToSet(p2) = TaskSet(parked) /\ (Distinct(parked) => IsInjective(p2))
  <2>1. parked \in Seq(Waiters) /\ \A i \in DOMAIN parked : parked[i].task \in Actors
    BY QueuesHoldTasks, Names DEF TypeOK
  <2>2. p2 \in Seq(Actors)
    BY <2>1
  <2>. QED  BY <2>2 DEF ToSet, TaskSet, Distinct, IsInjective
<1>3. p3 \in Seq(Actors) /\ ToSet(p3) = set3 /\ (StackedOnce => IsInjective(p3))
  <2>1. p3 \in Seq(Actors)
    BY StackTyped
  <2>2. StackedOnce => IsInjective(p3)
    BY StackTyped DEF StackedOnce, IsInjective
  <2>. QED  BY <2>1, <2>2 DEF ToSet
<1>4. /\ p4 \in Seq(Actors) /\ IsInjective(p4)
      /\ ToSet(p4) = {current.cell} \ {Idle}
  <2>1. current.cell \in Actors \cup {Idle}
    BY StackTyped
  <2>2. CASE current.cell = Idle
    BY <2>2 DEF ToSet, IsInjective
  <2>3. CASE current.cell # Idle
    BY <2>1, <2>3 DEF ToSet, IsInjective
  <2>. QED  BY <2>2, <2>3
<1>5. Stacked \ {Idle} = set3 \cup ({current.cell} \ {Idle})
  <2>1. Stacked = set3 \cup {current.cell}
    BY StackTyped DEF Stacked
  <2>2. Idle \notin set3
    BY StackTyped, Names
  <2>. QED  BY <2>1, <2>2
<1>6. StackedOnce => current.cell \notin set3
  BY StackTyped DEF StackedOnce
<1>7. Places = ((p1 \o p2) \o p3) \o p4
  BY DEF Places
<1>. HIDE DEF p1, p2, p3, p4, set3
<1>8. /\ p1 \o p2 \in Seq(Actors) /\ ToSet(p1 \o p2) = Held
      /\ QueuedOnce => IsInjective(p1 \o p2)
  BY <1>1, <1>2, JoinedLists DEF Held, QueuedOnce
<1> DEFINE q == p1 \o p2
<1>. HIDE DEF q
<1>9. /\ q \in Seq(Actors) /\ ToSet(q) = Held /\ (QueuedOnce => IsInjective(q))
  BY <1>8 DEF q
<1>10. /\ q \o p3 \in Seq(Actors) /\ ToSet(q \o p3) = Held \cup set3
       /\ QueuedOnce /\ StackedOnce /\ Apart => IsInjective(q \o p3)
  <2>1. Apart => Held \cap set3 = {}
    BY <1>5, HeldAreTasks, Names DEF Apart
  <2>. QED  BY <1>3, <1>9, <2>1, JoinedLists
<1> DEFINE r == q \o p3
<1>. HIDE DEF r
<1>11. /\ r \in Seq(Actors) /\ ToSet(r) = Held \cup set3
       /\ QueuedOnce /\ StackedOnce /\ Apart => IsInjective(r)
  BY <1>10 DEF r
<1>12. /\ ToSet(r \o p4) = Held \cup (Stacked \ {Idle})
       /\ QueuedOnce /\ StackedOnce /\ Apart => IsInjective(r \o p4)
  <2>1. Apart /\ StackedOnce => (Held \cup set3) \cap ({current.cell} \ {Idle}) = {}
    BY <1>5, <1>6 DEF Apart
  <2>. QED  BY <1>4, <1>5, <1>11, <2>1, JoinedLists
<1>. QED  BY <1>7, <1>12 DEF q, r

-----------------------------------------------------------------------------
(* What the invariant says outright.                                         *)

\* Every variable keeps its type.
THEOREM TypeCorrect == Spec => []TypeOK
<1>1. Inv => TypeOK
  BY DEF Inv
<1>. QED  BY <1>1, SchedulerInvariant, PTL

\* concurrent_call never answers a value over a failure that nobody read.
THEOREM FailuresAreRead == Spec => []NoSilentFailure
<1>1. Inv => NoSilentFailure
  BY DEF Inv, Standing
<1>. QED  BY <1>1, SchedulerInvariant, PTL

\* What drive_settling rethrows is older than every failure left unread, and
\* the scope it leaves answers no value.
THEOREM EarliestIsRethrown == Spec => []RethrowsEarliest
<1>1. Inv => RethrowsEarliest
  BY DEF Inv, Standing
<1>. QED  BY <1>1, SchedulerInvariant, PTL

\* await_progress is never asked to wait for nothing: some task is runnable or
\* parked whenever a drive loop turns.
THEOREM LoopsProgress == Spec => []NeverStuck
<1>1. Inv => NeverStuck
  BY DEF Inv, Driving
<1>. QED  BY <1>1, SchedulerInvariant, PTL

\* A task is started in one place only, the place agrees with its cell, and no
\* cell stays Running with nothing behind it unless its scope is gone.
THEOREM PlacesAgree == Spec => []StartedInOnePlace
<1>1. Inv => StartedInOnePlace
  <2> SUFFICES ASSUME Inv PROVE StartedInOnePlace
    OBVIOUS
  <2>1. TypeOK /\ QueuedOnce /\ StackedOnce /\ Apart /\ PlacedRun /\ RunPlaced
    BY DEF Inv, Standing
  <2>2. IsInjective(Places) /\ ToSet(Places) = Held \cup (Stacked \ {Idle})
    BY <2>1, PlacesAre
  <2>3. \A t \in Tasks : t # Idle
    BY Names
  <2>. QED  BY <2>1, <2>2, <2>3 DEF StartedInOnePlace, PlacedRun, RunPlaced
<1>. QED  BY <1>1, SchedulerInvariant, PTL

\* The level an actor stands at.
LEMMA DepthIsLevel ==
  ASSUME TypeOK, StackedOnce, NEW a \in Actors, OnStack(a)
  PROVE  Depth(a) \in Levels /\ StackAt(Depth(a)) = a
<1>1. CASE current.cell = a
  BY <1>1, StackTyped DEF Depth
<1>2. CASE current.cell # a
  <2>1. \E i \in DOMAIN drivers : drivers[i].cell = a
    BY <1>2 DEF OnStack
  <2>2. Depth(a) \in DOMAIN drivers /\ drivers[Depth(a)].cell = a
    BY <1>2, <2>1 DEF Depth
  <2>. QED  BY <2>2, StackTyped
<1>. QED  BY <1>1, <1>2

\* Whoever has a concurrent call open is on the stack, below every task of the
\* scope it opened that is there.
THEOREM TreeWalk == Spec => []OpenersAreBelow
<1>1. Inv => OpenersAreBelow
  <2> SUFFICES ASSUME Inv, NEW a \in Actors, NEW s \in ToSet(bodies[a])
               PROVE  OnStack(a) /\ \A t \in TasksOf(s) : OnStack(t) => Depth(a) < Depth(t)
    BY DEF OpenersAreBelow
  <2>1. TypeOK /\ StackedOnce /\ OpensOnce /\ Below
    BY DEF Inv, Standing
  <2>2. OnStack(a)
    <3>1. bodies[a] # <<>>
      BY DEF ToSet
    <3>. QED  BY <2>1, <3>1, StackedAre DEF OpensOnce
  <2>3. ASSUME NEW t \in TasksOf(s), OnStack(t) PROVE Depth(a) < Depth(t)
    <3>1. t \in Tasks /\ owner[t] = s /\ t \in Actors
      BY Names DEF TasksOf
    <3>2. /\ Depth(a) \in Levels /\ StackAt(Depth(a)) = a
          /\ Depth(t) \in Levels /\ StackAt(Depth(t)) = t
      BY <2>1, <2>2, <2>3, <3>1, DepthIsLevel
    <3>. QED  BY <2>1, <3>1, <3>2 DEF Below
  <2>. QED  BY <2>2, <2>3
<1>. QED  BY <1>1, SchedulerInvariant, PTL

-----------------------------------------------------------------------------
(* What a step does to tasks and scopes.                                     *)

\* Nobody is spawned, settles, opens a scope or leaves one.
Still == UNCHANGED <<owner, scope, bodies>> /\ \A t \in Tasks : Fate(t)' = Fate(t)

\* The running actor opens s.
Opening(s) ==
  /\ current.cell \in Actors /\ current.cell \in Stacked /\ scope[s] = "none"
  /\ scope' = [scope EXCEPT ![s] = "open"]
  /\ bodies' = [bodies EXCEPT ![current.cell] = Append(@, s)]
  /\ UNCHANGED <<cell, owner>>

\* t is spawned on s.
Spawning(t, s) ==
  /\ cell[t] = "none" /\ scope[s] = "open"
  /\ cell' = [cell EXCEPT ![t] = "pending"]
  /\ owner' = [owner EXCEPT ![t] = s]
  /\ UNCHANGED <<scope, bodies>>

\* The tasks of T settle; none of them has a concurrent call open.
Settling(T) ==
  /\ T # {}
  /\ \A t \in T : cell[t] \in Unsettled /\ cell'[t] \in {"done", "failed"} /\ bodies[t] = <<>>
  /\ \A t \in Tasks : t \notin T => cell'[t] = cell[t]
  /\ UNCHANGED <<owner, scope, bodies>>

\* The running actor leaves its innermost scope, s.
Exiting(s) ==
  /\ control \in {"finish", "raised"} /\ goal.kind # "value" /\ goal.id = s
  /\ control = "finish" /\ goal.kind = "settle" => UnobservedFailures(s) = {}
  /\ control = "raised" => ~SettlingPanicked
  /\ current.cell \in Actors /\ bodies[current.cell] # <<>> /\ s = Last(bodies[current.cell])
  /\ scope[s] = "open"
  /\ scope' = [scope EXCEPT ![s] = "exited"]
  /\ bodies' = [bodies EXCEPT ![current.cell] = Front(@)]
  /\ Purge(s)
  /\ UNCHANGED <<cell, owner, stack>>

TreeStep ==
  \/ Still
  \/ \E s \in Scopes : Opening(s)
  \/ \E t \in Tasks, s \in Scopes : Spawning(t, s)
  \/ \E T \in SUBSET Tasks : Settling(T)
  \/ \E s \in Scopes : Exiting(s)

\* A step that leaves the cells, the owners, the scopes and the open calls alone.
LEMMA QuietSteps ==
  ASSUME UNCHANGED <<cell, owner, scope, bodies>>
  PROVE  Still
BY DEF Still, Fate

\* The innermost scope of the running actor is open.
LEMMA InnermostIsOpen ==
  ASSUME Inv, NEW a \in Actors, bodies[a] # <<>>
  PROVE  Last(bodies[a]) \in Scopes /\ Last(bodies[a]) \in ToSet(bodies[a])
         /\ scope[Last(bodies[a])] = "open"
<1>1. bodies[a] \in Seq(Scopes)
  BY DEF Inv, TypeOK
<1>2. Last(bodies[a]) \in Scopes /\ Last(bodies[a]) \in ToSet(bodies[a])
  BY <1>1, FrontAndLast
<1>. QED  BY <1>2 DEF Inv, Standing, OpensOnce

\* A teardown settles the tasks of its scope that were not started.
LEMMA TearDownSettles ==
  ASSUME Inv, NEW s \in Scopes, NEW seen \in SUBSET Tasks, NEW then, TearDown(s, seen, then)
  PROVE  Still \/ (Settling(Unstarted(s)) /\ Unstarted(s) \in SUBSET Tasks)
<1>1. TypeOK /\ QueuedOnce /\ Apart /\ PlacedRun /\ OpensOnce
  BY DEF Inv, Standing
<1>2. CancelScope(s, seen) /\ UNCHANGED <<owner, scope, bodies>>
  BY DEF TearDown
<1>3. cell' = [t \in Tasks |-> IF t \in Unstarted(s) THEN "failed" ELSE cell[t]]
  BY <1>1, <1>2, CancelScopeSettles
<1>4. \A t \in Unstarted(s) : /\ t \in Tasks /\ t \in Actors /\ cell[t] \in Unsettled
                              /\ t \notin Stacked
  <2>1. \A t \in Pending(s) : t \in Tasks /\ cell[t] = "pending" /\ t \notin Stacked
    BY <1>1 DEF Pending, TasksOf, PlacedRun
  <2>2. NeverRan(s) \subseteq Held
    BY DEF NeverRan, Fresh, Of, TaskSet, Held
  <2>3. \A t \in NeverRan(s) : t \in Tasks /\ cell[t] = "running" /\ t \notin Stacked
    BY <1>1, <2>2, HeldAreTasks DEF PlacedRun, Apart
  <2>. QED  BY <2>1, <2>3, Names DEF Unstarted, Unsettled
<1>5. \A t \in Unstarted(s) : bodies[t] = <<>>
  BY <1>1, <1>4 DEF OpensOnce
<1>6. CASE Unstarted(s) = {}
  BY <1>1, <1>2, <1>3, <1>6 DEF Still, Fate
<1>7. CASE Unstarted(s) # {}
  BY <1>1, <1>2, <1>3, <1>4, <1>5, <1>7 DEF Settling
<1>. QED  BY <1>4, <1>6, <1>7

\* A sweep starts tasks, and settles none.
LEMMA SweepsAreStill ==
  ASSUME Inv, NEW g \in Goals, NEW a \in Actors, GoalFits(g, a), BeginPending(SweptScope(g)),
         UNCHANGED <<owner, scope, bodies>>
  PROVE  Still
<1>1. TypeOK /\ QueuedOnce /\ \A t \in Held : cell[t] = "running"
  BY HeldAreTasks DEF Inv, Standing, PlacedRun
<1>2. SweptScope(g) \in Scopes \cup {NoScope}
  BY <1>1, SweptExists
<1>3. cell' = [t \in Tasks |-> IF t \in Pending(SweptScope(g)) THEN "running" ELSE cell[t]]
  BY <1>1, <1>2, PendingBegin
<1>4. \A t \in Tasks : t \in Pending(SweptScope(g)) => cell[t] = "pending"
  BY DEF Pending
<1>. QED  BY <1>3, <1>4 DEF Still, Fate, Unsettled

\* A task that stops settles, and it alone.
LEMMA StopSettles ==
  ASSUME Inv, TaskReturns \/ TaskThrows \/ TaskPanics
  PROVE  Settling({current.cell}) /\ {current.cell} \in SUBSET Tasks
<1>1. /\ current.cell \in Tasks /\ bodies[current.cell] = <<>>
      /\ UNCHANGED <<owner, scope, bodies>>
  BY DEF TaskReturns, TaskThrows, TaskPanics, TaskStops
<1>2. current.cell \in Stacked
  BY <1>1, RunningIsOnTop, Names DEF Inv, Standing
<1>3. cell[current.cell] = "running"
  BY <1>1, <1>2 DEF Inv, Standing, PlacedRun
<1>4. \E state \in {"done", "failed"} : cell' = [cell EXCEPT ![current.cell] = state]
  BY DEF TaskReturns, TaskThrows, TaskPanics, Fail
<1>5. cell \in [Tasks -> {"none", "pending", "running", "done", "failed"}]
  BY DEF Inv, TypeOK
<1>. QED  BY <1>1, <1>3, <1>4, <1>5 DEF Settling, Unsettled

\* concurrent_call ends: the scope it leaves is the innermost of the running actor.
LEMMA ExitLeaves ==
  ASSUME Inv, control \in {"finish", "raised"}, goal.kind # "value",
         NEW sig, ExitScope(goal.id, sig),
         control = "finish" /\ goal.kind = "settle" => UnobservedFailures(goal.id) = {},
         control = "raised" => ~SettlingPanicked
  PROVE  goal.id \in Scopes /\ Exiting(goal.id)
<1>1. /\ current.cell \in Actors /\ bodies[current.cell] # <<>>
      /\ goal.id = Last(bodies[current.cell])
  BY GoalOfRunning
<1>2. goal.id \in Scopes /\ scope[goal.id] = "open"
  BY <1>1, InnermostIsOpen
<1>. QED  BY <1>1, <1>2 DEF Exiting, ExitScope, cells

\* Every step is one of the five.
LEMMA StepIsTreeStep ==
  ASSUME Inv, [Next]_vars
  PROVE  TreeStep
<1>1. /\ TypeOK /\ StackedOnce /\ SlotFits /\ GoalsFit
      /\ control = "user" => current.cell \in Actors /\ current.cell \in Stacked
  BY RunningIsOnTop DEF Inv, Standing, Driving, SlotFits
<1>2. CASE UNCHANGED <<cell, owner, scope, bodies>>
  BY <1>2, QuietSteps DEF TreeStep
<1>3. CASE OpenScope
  <2>1. control = "user" /\ UNCHANGED <<cell, owner>>
    BY <1>3 DEF OpenScope, Executing, cells
  <2>2. PICK s \in Scopes : /\ scope[s] = "none"
                            /\ scope' = [scope EXCEPT ![s] = "open"]
                            /\ bodies' = [bodies EXCEPT ![current.cell] = Append(@, s)]
    BY <1>3 DEF OpenScope
  <2>3. Opening(s)
    BY <1>1, <2>1, <2>2 DEF Opening
  <2>. QED  BY <2>3 DEF TreeStep
<1>4. ASSUME NEW s \in Scopes, Spawn(s) PROVE TreeStep
  <2>1. UNCHANGED <<scope, bodies>> /\ scope[s] # "none"
    BY <1>4 DEF Spawn
  <2>2. CASE current.cancelled \/ scope[s] = "exited"
    BY <1>2, <1>4, <2>2 DEF Spawn
  <2>3. CASE ~(current.cancelled \/ scope[s] = "exited")
    <3>1. PICK t \in Tasks : /\ cell[t] = "none"
                             /\ cell' = [cell EXCEPT ![t] = "pending"]
                             /\ owner' = [owner EXCEPT ![t] = s]
      BY <1>4, <2>3 DEF Spawn
    <3>2. scope[s] = "open"
      BY <1>1, <2>1, <2>3 DEF TypeOK
    <3>3. Spawning(t, s)
      BY <2>1, <3>1, <3>2 DEF Spawning
    <3>. QED  BY <3>3 DEF TreeStep
  <2>. QED  BY <2>2, <2>3
<1>5. CASE \/ \E t \in Tasks : Value(t)
           \/ \E kind \in {"timer", "job"} : Park(kind)
           \/ Throw \/ Panic \/ Catch \/ ProgramEnds \/ Run \/ Stopped
  BY <1>2, <1>5 DEF Value, Park, Throw, Panic, Catch, ProgramEnds, Run, Stopped, vars, cells
<1>6. CASE BodyReturns \/ BodyRaises
  <2> DEFINE s == Last(bodies[current.cell])
  <2>1. control = "user" /\ bodies[current.cell] # <<>>
    BY <1>6 DEF BodyReturns, BodyRaises, Executing
  <2>2. s \in Scopes
    BY <1>1, <2>1, InnermostIsOpen
  <2>. HIDE DEF s
  <2>3. ASSUME NEW seen \in SUBSET Tasks, NEW then, TearDown(s, seen, then) PROVE TreeStep
    BY <2>2, <2>3, TearDownSettles DEF TreeStep
  <2>4. CASE BodyRaises
    <3>1. TearDown(s, {}, signal)
      BY <2>4 DEF BodyRaises, s
    <3>. QED  BY <2>3, <3>1
  <2>5. CASE BodyReturns /\ UnobservedFailures(s) # {}
    <3>1. Rethrow(s)
      BY <2>5 DEF BodyReturns, s
    <3>. QED  BY <1>1, <2>2, <2>3, <2>5, <3>1, RethrowTriggers
  <2>6. CASE BodyReturns /\ UnobservedFailures(s) = {}
    BY <1>2, <2>6 DEF BodyReturns, cells, s
  <2>. QED  BY <1>6, <2>4, <2>5, <2>6
<1>7. CASE TaskReturns \/ TaskThrows \/ TaskPanics
  BY <1>7, StopSettles DEF TreeStep
<1>8. CASE Enter
  <2>1. GoalFits(goal, current.cell) /\ current.cell \in Actors /\ goal \in Goals
    BY <1>1, <1>8, GoalOfRunning DEF Enter, TypeOK
  <2>2. BeginPending(SweptScope(goal)) /\ UNCHANGED <<owner, scope, bodies>>
    BY <1>8 DEF Enter
  <2>. QED  BY <2>1, <2>2, SweepsAreStill DEF TreeStep
<1>9. CASE Check
  <2> DEFINE g == Last(drivers).goal
             a == Last(drivers).cell
  <2>1. BeginPending(SweptScope(g)) /\ UNCHANGED <<owner, scope, bodies>>
    BY <1>9 DEF Check
  <2>2. g \in Goals /\ a \in Actors /\ GoalFits(g, a)
    <3>1. current.cell # Root
      BY <1>1, <1>9, Names DEF Check, SlotFits, Actors
    <3>2. drivers # <<>>
      BY <1>1, <3>1, SomebodyDrives
    <3>3. Len(drivers) \in DOMAIN drivers
      BY <1>1, <3>2 DEF TypeOK
    <3>. QED  BY <1>1, <3>3, StackTyped DEF GoalsFit, Last
  <2>. HIDE DEF g, a
  <2>. QED  BY <2>1, <2>2, SweepsAreStill DEF TreeStep
<1>10. CASE Finish
  <2>1. control = "finish"
    BY <1>10 DEF Finish
  <2>2. GoalFits(goal, current.cell) /\ current.cell \in Actors /\ goal \in Goals
    BY <1>1, <2>1, GoalOfRunning DEF TypeOK
  <2>3. CASE goal.kind = "value"
    BY <1>2, <1>10, <2>3 DEF Finish
  <2>4. CASE goal.kind = "settle" /\ UnobservedFailures(goal.id) # {}
    <3>1. goal.id \in Scopes
      BY <1>1, <2>2, <2>4, SweptExists
    <3>2. Rethrow(goal.id)
      BY <1>10, <2>4 DEF Finish
    <3>. QED  BY <1>1, <2>4, <3>1, <3>2, RethrowTriggers, TearDownSettles DEF TreeStep
  <2>5. CASE goal.kind = "settle" /\ UnobservedFailures(goal.id) = {}
    <3>1. ExitScope(goal.id, "none")
      BY <1>10, <2>5 DEF Finish
    <3>. QED  BY <2>1, <2>5, <3>1, ExitLeaves DEF TreeStep
  <2>6. CASE goal.kind = "teardown"
    <3>1. ExitScope(goal.id, IF goal.then = "failure" THEN "error" ELSE goal.then)
      BY <1>10, <2>6 DEF Finish
    <3>. QED  BY <2>1, <2>6, <3>1, ExitLeaves DEF TreeStep
  <2>. QED  BY <2>2, <2>3, <2>4, <2>5, <2>6 DEF GoalFits, Goals
<1>11. CASE Raised
  <2>1. control = "raised"
    BY <1>11 DEF Raised
  <2>2. GoalFits(goal, current.cell) /\ current.cell \in Actors /\ goal \in Goals
    BY <1>1, <2>1, GoalOfRunning DEF TypeOK
  <2>3. CASE goal.kind = "value"
    BY <1>2, <1>11, <2>3 DEF Raised, cells
  <2>4. CASE goal.kind # "value" /\ SettlingPanicked
    <3>1. goal.id \in Scopes
      BY <1>1, <2>2, <2>4, SweptExists
    <3>2. TearDown(goal.id, {}, "panic")
      BY <1>11, <2>4 DEF Raised
    <3>. QED  BY <3>1, <3>2, TearDownSettles DEF TreeStep
  <2>5. CASE goal.kind # "value" /\ ~SettlingPanicked
    <3>1. ExitScope(goal.id, signal)
      BY <1>11, <2>5 DEF Raised
    <3>. QED  BY <2>1, <2>5, <3>1, ExitLeaves DEF TreeStep
  <2>. QED  BY <2>3, <2>4, <2>5
<1>12. CASE UNCHANGED vars
  BY <1>2, <1>12 DEF vars, cells
<1>. QED  BY <1>3, <1>4, <1>5, <1>6, <1>7, <1>8, <1>9, <1>10, <1>11, <1>12
          DEF Next, Program, Returns, Scheduling

\* A scope that was open exits in one way.
LEMMA OnlyExitingExits ==
  ASSUME Inv, [Next]_vars, NEW s \in Scopes, scope[s] = "open", scope'[s] = "exited"
  PROVE  Exiting(s)
<1>1. TypeOK /\ scope \in [Scopes -> {"none", "open", "exited"}]
  BY DEF Inv, TypeOK
<1>2. TreeStep
  BY StepIsTreeStep
<1>3. CASE \E r \in Scopes : Opening(r)
  BY <1>1, <1>3 DEF Opening
<1>4. CASE \E r \in Scopes : Exiting(r)
  BY <1>1, <1>4 DEF Exiting
<1>. QED  BY <1>2, <1>3, <1>4 DEF TreeStep, Still, Spawning, Settling

-----------------------------------------------------------------------------
(* What a scope leaves behind when it exits.                                 *)

\* Whoever leaves a scope without a panic of a drive has no unsettled task in it.
LEMMA ExitFindsSettled ==
  ASSUME Inv, NEW s \in Scopes, Exiting(s), control = "raised" => signal # "panic",
         NEW t \in Tasks, owner[t] = s
  PROVE  cell[t] \notin Unsettled /\ cell[t] # "none"
<1>1. /\ TypeOK /\ Owned /\ Reached /\ GoalFits(goal, current.cell) /\ goal \in Goals
      /\ control \in {"finish", "raised"} /\ goal.kind # "value" /\ goal.id = s /\ t \in TasksOf(s)
      /\ goal.kind \in {"settle", "teardown"}
  BY GoalOfRunning DEF Inv, Standing, Driving, Exiting, TypeOK, Goals, TasksOf, GoalFits
<1>2. cell[t] # "none"
  BY <1>1, Names DEF Owned
<1>3. CASE control = "finish"
  <2>1. cell[t] # "pending"
    BY <1>1, <1>3 DEF Reached, Pending
  <2>2. cell[t] # "running"
    BY <1>1, <1>3 DEF Reached, Settled, Exiting
  <2>. QED  BY <1>2, <2>1, <2>2 DEF Unsettled
<1>4. CASE control = "raised"
  <2>1. current.cancelled /\ s \in ToSet(bodies[current.cell])
    BY <1>1, <1>4, InnermostIsOpen DEF Reached, Exiting
  <2>2. TasksOf(s) = {}
    BY <2>1 DEF Inv, Standing, CancelledAlone
  <2>. QED  BY <1>1, <2>2
<1>. QED  BY <1>1, <1>3, <1>4

\* "A panic in a task takes the same teardown" (settle_scope): whatever the
\* cleanups do, a scope whose body returned and whose settling or failure
\* teardown is the first to be cut short by a panic leaves no task unsettled.
THEOREM OnePanicIsSettled == Spec => OnePanicLeavesNobody
<1>1. ASSUME Inv, [Next]_vars, NEW s \in Scopes, scope[s] = "open", scope'[s] = "exited",
             goal.then \in {"none", "failure"}, NEW t \in TasksOf(s)
      PROVE  cell'[t] \notin Unsettled
  <2>1. Exiting(s) /\ UNCHANGED cell
    BY <1>1, OnlyExitingExits DEF Exiting
  <2>2. control = "raised" => signal # "panic"
    <3>1. control = "raised" => GoalFits(goal, current.cell) /\ goal \in Goals
      BY <1>1, GoalOfRunning DEF Inv, TypeOK
    <3>. QED  BY <1>1, <2>1, <3>1 DEF Exiting, SettlingPanicked, GoalFits, Goals
  <2>3. t \in Tasks /\ owner[t] = s
    BY DEF TasksOf
  <2>. QED  BY <1>1, <2>1, <2>2, <2>3, ExitFindsSettled
<1>2. Inv /\ [Next]_vars =>
        [\A s \in Scopes : scope[s] = "open" /\ scope'[s] = "exited"
                           /\ goal.then \in {"none", "failure"} =>
           \A t \in TasksOf(s) : cell'[t] \notin Unsettled]_vars
  BY <1>1
<1>. QED  BY <1>2, SchedulerInvariant, PTL DEF Spec, OnePanicLeavesNobody

-----------------------------------------------------------------------------
(* A scope that exits is forgotten.                                          *)

\* When concurrent_call returns or raises, nobody of its scope waits in a queue
\* or stands on the stack, whatever the teardown before it came to: purge_scope
\* empties the queues, and the opener was the top of the stack, with every task
\* of the scope above it.
THEOREM ScopesAreForgotten == Spec => ExitedScopeIsForgotten
<1>1. ASSUME Inv, Inv', ToSet(Places)' = (Held \cup (Stacked \ {Idle}))', [Next]_vars,
             NEW s \in Scopes, scope[s] = "open", scope'[s] = "exited"
      PROVE  TasksOf(s) \cap ToSet(Places)' = {}
  <2>1. /\ TypeOK /\ StackedOnce /\ OpensOnce /\ Below
        /\ scope \in [Scopes -> {"none", "open", "exited"}]
    BY <1>1 DEF Inv, Standing, TypeOK
  <2>2. Exiting(s)
    BY <1>1, OnlyExitingExits
  <2>3. Held' = Held \ TasksOf(s)
    <3>1. /\ runnable \in Seq(Entries) /\ TaskSet(runnable) \subseteq Tasks
          /\ parked \in Seq(Waiters) /\ TaskSet(parked) \subseteq Tasks
      BY <2>1, HeldAreTasks DEF TypeOK
    <3>2. runnable' = Without(runnable, s) /\ parked' = Without(parked, s)
      BY <2>2 DEF Exiting, Purge
    <3>3. TaskSet(runnable') = TaskSet(runnable) \ TasksOf(s)
      BY <3>1, <3>2, WithoutScope
    <3>4. TaskSet(parked') = TaskSet(parked) \ TasksOf(s)
      BY <3>1, <3>2, WithoutScope
    <3>. QED  BY <3>3, <3>4 DEF Held
  <2>4. Stacked' = Stacked
    BY <2>2, StackUnmoved DEF Exiting
  <2>5. ASSUME NEW t \in TasksOf(s), t \in Stacked PROVE FALSE
    <3>1. t \in Tasks /\ owner[t] = s
      BY DEF TasksOf
    <3>2. PICK i \in Levels : StackAt(i) = t
      BY <2>5 DEF Stacked
    <3>3. /\ current.cell \in Actors /\ s \in ToSet(bodies[current.cell])
      BY <1>1, <2>2, InnermostIsOpen DEF Exiting
    <3>4. /\ Len(drivers) + 1 \in Levels /\ StackAt(Len(drivers) + 1) = current.cell
      BY <2>1, StackTyped
    <3>5. Len(drivers) + 1 < i
      BY <2>1, <3>1, <3>2, <3>3, <3>4 DEF Below
    <3>6. Len(drivers) \in Nat /\ i \in 1 .. Len(drivers) + 1
      BY <2>1, StackTyped DEF Levels
    <3>. QED  BY <3>5, <3>6
  <2>. QED  BY <1>1, <2>3, <2>4, <2>5
<1>2. Inv => ToSet(Places) = Held \cup (Stacked \ {Idle})
  BY PlacesAre DEF Inv
<1>3. Inv /\ Inv' /\ (ToSet(Places) = Held \cup (Stacked \ {Idle}))' /\ [Next]_vars =>
        [\A s \in Scopes : scope[s] = "open" /\ scope'[s] = "exited" =>
           TasksOf(s) \cap ToSet(Places)' = {}]_vars
  BY <1>1
<1>. QED  BY <1>2, <1>3, SchedulerInvariant, PTL DEF Spec, ExitedScopeIsForgotten

-----------------------------------------------------------------------------
(* Nothing outlives its scope, unless a cleanup panics.                      *)

\* No panic meets a teardown: neither one under way nor one that waits for a
\* teardown to end.
Calm ==
  /\ signal = "panic" \/ goal.then = "panic" =>
       \A i \in DOMAIN drivers : drivers[i].goal.kind # "teardown"
  /\ control = "raised" /\ signal = "panic" => goal.kind # "teardown"
  /\ \A i, j \in DOMAIN drivers :
       j < i /\ drivers[i].goal.then = "panic" => drivers[j].goal.kind # "teardown"

\* Without such a panic, every task of an exited scope has settled.
QuietInv == ~PanicsInTeardown => Calm /\ NothingOutlivesItsScope

\* A panic may be under way, or wait for a teardown to end.
PanicAbout == signal = "panic" \/ goal.then = "panic"

\* The drives stay, and a panic is only about where no teardown is.
LEMMA DrivesStay ==
  ASSUME Calm, UNCHANGED drivers,
         PanicAbout' => PanicAbout \/ ~TearingDown,
         control' = "raised" => signal' # "panic"
  PROVE  Calm'
BY DEF Calm, PanicAbout, TearingDown

\* A drive that returns or fails leaves the drives below it, and brings its
\* goal back.
LEMMA DriveLeaves ==
  ASSUME TypeOK, StackedOnce, drivers # <<>>, Calm, PopDriver, UNCHANGED signal
  PROVE  Calm'
<1>1. /\ Len(drivers) \in Nat \ {0} /\ Len(drivers) \in DOMAIN drivers
      /\ DOMAIN drivers' = DOMAIN drivers \ {Len(drivers)}
      /\ \A i \in DOMAIN drivers' : drivers'[i] = drivers[i]
      /\ goal' = drivers[Len(drivers)].goal
  BY Popped
<1>2. \A i \in DOMAIN drivers' : i < Len(drivers)
  BY <1>1, StackTyped
<1>3. signal' = "panic" \/ goal'.then = "panic" =>
        \A i \in DOMAIN drivers' : drivers'[i].goal.kind # "teardown"
  BY <1>1, <1>2 DEF Calm
<1>4. signal' = "panic" => goal'.kind # "teardown"
  BY <1>1 DEF Calm
<1>5. \A i, j \in DOMAIN drivers' :
        j < i /\ drivers'[i].goal.then = "panic" => drivers'[j].goal.kind # "teardown"
  BY <1>1 DEF Calm
<1>. QED  BY <1>3, <1>4, <1>5 DEF Calm

\* A drive that starts sets its goal on top.
LEMMA DriveSetOff ==
  ASSUME Inv, Calm, control = "enter", control' = "loop", UNCHANGED signal, goal' = NoGoal,
         current'.cell = Idle,
         drivers' = Append(drivers, [cell |-> current.cell, cancelled |-> current.cancelled,
                                     goal |-> goal])
  PROVE  Calm'
<1> DEFINE d == [cell |-> current.cell, cancelled |-> current.cancelled, goal |-> goal]
<1>1. TypeOK /\ current.cell \in Actors /\ signal = "none"
  BY GoalOfRunning DEF Inv, Driving, Reached
<1>2. d.cell = current.cell /\ d.goal = goal /\ drivers' = Append(drivers, d)
  OBVIOUS
<1>. HIDE DEF d
<1>3. /\ \A i \in DOMAIN drivers : i \in DOMAIN drivers' /\ drivers'[i] = drivers[i]
      /\ DOMAIN drivers' = DOMAIN drivers \cup {Len(drivers) + 1}
      /\ drivers'[Len(drivers) + 1] = d
  BY <1>1, <1>2, Pushed
<1>4. ASSUME NEW i \in DOMAIN drivers', NEW j \in DOMAIN drivers', j < i,
             drivers'[i].goal.then = "panic"
      PROVE  drivers'[j].goal.kind # "teardown"
  <2>1. j \in DOMAIN drivers
    BY <1>1, <1>3, <1>4, StackTyped
  <2>2. CASE i \in DOMAIN drivers
    BY <1>3, <1>4, <2>1, <2>2 DEF Calm
  <2>3. CASE i = Len(drivers) + 1
    BY <1>2, <1>3, <1>4, <2>1, <2>3 DEF Calm
  <2>. QED  BY <1>3, <2>2, <2>3
<1>. QED  BY <1>1, <1>4 DEF Calm, NoGoal

\* While no cleanup panics, no panic meets a teardown.
LEMMA CalmKept ==
  ASSUME Inv, Calm, ~PanicsInTeardown, [Next]_vars
  PROVE  Calm'
<1>1. TypeOK /\ StackedOnce /\ Reached /\ SlotFits
  BY DEF Inv, Standing, Driving
<1>2. CASE OpenScope \/ (\E t \in Tasks : Value(t)) \/ Throw \/ Catch
  BY <1>2, DrivesStay DEF OpenScope, Value, Throw, Catch, Executing, PanicAbout, stack
<1>3. CASE Panic
  <2>1. UNCHANGED <<drivers, goal, control>> /\ control = "user" /\ ~TearingDown
    BY <1>3 DEF Panic, Executing, stack
  <2>. QED  BY <2>1, DrivesStay
<1>4. CASE ProgramEnds \/ TaskReturns \/ TaskThrows
  BY <1>4, DrivesStay DEF ProgramEnds, TaskReturns, TaskThrows, PanicAbout, stack
<1>5. CASE (\E s \in Scopes : Spawn(s)) \/ (\E kind \in {"timer", "job"} : Park(kind))
  BY <1>5, DrivesStay DEF Spawn, Park, Executing, PanicAbout, stack
<1>6. ASSUME NEW s, NEW seen, NEW then, TearDown(s, seen, then), then # "panic" \/ PanicAbout
      PROVE  Calm'
  <2>1. UNCHANGED drivers /\ control' # "raised" /\ signal' = "none" /\ goal'.then = then
    BY <1>6 DEF TearDown, stack
  <2>2. PanicAbout' => PanicAbout \/ ~TearingDown
    BY <1>6, <2>1 DEF PanicAbout
  <2>. QED  BY <2>1, <2>2, DrivesStay
<1>7. ASSUME NEW s, NEW sig, ExitScope(s, sig), sig # "panic" \/ PanicAbout
      PROVE  Calm'
  <2>1. UNCHANGED drivers /\ control' # "raised" /\ signal' = sig /\ goal'.then = "none"
    BY <1>7 DEF ExitScope, NoGoal, stack
  <2>2. PanicAbout' => PanicAbout \/ ~TearingDown
    BY <1>7, <2>1 DEF PanicAbout
  <2>. QED  BY <2>1, <2>2, DrivesStay
<1>8. CASE BodyReturns
  <2>1. CASE UnobservedFailures(Last(bodies[current.cell])) # {}
    BY <1>6, <1>8, <2>1 DEF BodyReturns, Rethrow
  <2>2. CASE UnobservedFailures(Last(bodies[current.cell])) = {}
    BY <1>8, <2>2, DrivesStay DEF BodyReturns, PanicAbout, stack
  <2>. QED  BY <2>1, <2>2
<1>9. CASE BodyRaises
  BY <1>6, <1>9 DEF BodyRaises, PanicAbout
<1>10. CASE TaskPanics
  <2>1. drivers # <<>>
    BY <1>1, <1>10, SomebodyDrives, Names DEF TaskPanics, TaskStops
  <2>. QED  BY <1>1, <1>10, <2>1, DriveLeaves DEF TaskPanics
<1>11. CASE Enter
  <2>1. control = "enter" /\ signal = "none"
    BY <1>1, <1>11 DEF Enter, Reached
  <2>2. CASE UNCHANGED <<stack, goal>>
    BY <1>11, <2>1, <2>2, DrivesStay DEF Enter, PanicAbout, stack
  <2>3. CASE /\ drivers' = Append(drivers, [cell |-> current.cell, cancelled |-> current.cancelled,
                                            goal |-> goal])
             /\ Vacate /\ goal' = NoGoal /\ control' = "loop" /\ UNCHANGED signal
    BY <2>1, <2>3, DriveSetOff DEF Vacate
  <2>. QED  BY <1>11, <2>2, <2>3 DEF Enter
<1>12. CASE Check
  <2>1. drivers # <<>>
    <3>1. current.cell # Root
      BY <1>1, <1>12, Names DEF Check, SlotFits, Actors
    <3>. QED  BY <1>1, <3>1, SomebodyDrives
  <2>2. CASE PopDriver
    BY <1>1, <1>12, <2>1, <2>2, DriveLeaves DEF Check
  <2>3. CASE UNCHANGED <<stack, goal>> /\ control' \in {"fatal", "loop"}
    BY <1>12, <2>3, DrivesStay DEF Check, PanicAbout, stack
  <2>. QED  BY <1>12, <2>2, <2>3 DEF Check
<1>13. CASE Run
  <2>1. UNCHANGED <<drivers, goal>> /\ control' = "user" /\ signal' \in {"error", "none"}
    BY <1>13 DEF Run
  <2>. QED  BY <2>1, DrivesStay DEF PanicAbout
<1>14. CASE Finish
  <2>1. GoalFits(goal, current.cell) /\ goal \in Goals
    BY <1>1, <1>14, GoalOfRunning DEF TypeOK, Finish
  <2>2. CASE goal.kind = "value"
    BY <1>14, <2>2, DrivesStay DEF Finish, PanicAbout, NoGoal, stack
  <2>3. CASE goal.kind = "settle"
    BY <1>6, <1>7, <1>14, <2>3 DEF Finish, Rethrow
  <2>4. CASE goal.kind = "teardown"
    BY <1>7, <1>14, <2>4 DEF Finish, PanicAbout
  <2>. QED  BY <2>1, <2>2, <2>3, <2>4 DEF GoalFits, Goals
<1>15. CASE Raised
  <2>1. CASE goal.kind = "value"
    BY <1>15, <2>1, DrivesStay DEF Raised, PanicAbout, NoGoal, stack
  <2>2. CASE goal.kind # "value"
    BY <1>6, <1>7, <1>15, <2>2 DEF Raised, SettlingPanicked, PanicAbout
  <2>. QED  BY <2>1, <2>2
<1>16. CASE Stopped \/ UNCHANGED vars
  BY <1>16 DEF Stopped, vars, stack, Calm
<1>. QED  BY <1>2, <1>3, <1>4, <1>5, <1>8, <1>9, <1>10, <1>11, <1>12, <1>13, <1>14, <1>15, <1>16
          DEF Next, Program, Returns, Scheduling

\* Where no panic meets a teardown, none is about when a scope exits.
LEMMA CalmExits ==
  ASSUME Inv, Calm, NEW s \in Scopes, Exiting(s), control = "raised"
  PROVE  signal # "panic"
BY GoalOfRunning DEF Calm, Exiting, SettlingPanicked, GoalFits, Goals, Inv, TypeOK

\* A step keeps what exited scopes left settled, and leaves none unsettled.
LEMMA QuietKept ==
  ASSUME Inv, QuietInv, [Next]_vars
  PROVE  QuietInv'
<1> SUFFICES ASSUME ~PanicsInTeardown PROVE (Calm /\ NothingOutlivesItsScope)'
  BY DEF QuietInv
<1>1. Calm /\ NothingOutlivesItsScope /\ Calm'
  BY CalmKept DEF QuietInv
<1>2. /\ scope \in [Scopes -> {"none", "open", "exited"}]
      /\ cell \in [Tasks -> {"none", "pending", "running", "done", "failed"}]
      /\ owner \in [Tasks -> Scopes \cup {NoScope}] /\ Owned
  BY DEF Inv, TypeOK, Standing
<1>3. ASSUME NEW s \in Scopes, scope'[s] = "exited", NEW t \in Tasks, owner'[t] = s
      PROVE  cell'[t] \notin Unsettled
  <2>1. TreeStep
    BY StepIsTreeStep
  <2>2. ASSUME UNCHANGED <<owner, scope>> PROVE cell[t] \notin Unsettled /\ cell[t] # "none"
    BY <1>1, <1>2, <1>3, <2>2, Names DEF NothingOutlivesItsScope, TasksOf, Owned
  <2>3. CASE Still
    BY <1>2, <2>2, <2>3 DEF Still, Fate, Unsettled
  <2>4. CASE \E r \in Scopes : Opening(r)
    <3>1. scope[s] = "exited" /\ UNCHANGED <<cell, owner>>
      BY <1>2, <1>3, <2>4 DEF Opening
    <3>. QED  BY <1>1, <1>3, <3>1 DEF NothingOutlivesItsScope, TasksOf
  <2>5. ASSUME NEW u \in Tasks, NEW r \in Scopes, Spawning(u, r) PROVE cell'[t] \notin Unsettled
    <3>1. t # u
      BY <1>2, <1>3, <2>5 DEF Spawning
    <3>2. cell'[t] = cell[t] /\ owner[t] = s /\ scope[s] = "exited"
      BY <1>2, <1>3, <2>5, <3>1 DEF Spawning
    <3>. QED  BY <1>1, <3>2 DEF NothingOutlivesItsScope, TasksOf
  <2>6. ASSUME NEW T \in SUBSET Tasks, Settling(T) PROVE cell'[t] \notin Unsettled
    BY <2>2, <2>6 DEF Settling, Unsettled
  <2>7. ASSUME NEW r \in Scopes, Exiting(r) PROVE cell'[t] \notin Unsettled
    <3>1. UNCHANGED <<cell, owner>> /\ scope' = [scope EXCEPT ![r] = "exited"]
      BY <2>7 DEF Exiting
    <3>2. CASE r = s
      <4>1. control = "raised" => signal # "panic"
        BY <1>1, <2>7, CalmExits
      <4>. QED  BY <1>3, <2>7, <3>1, <3>2, <4>1, ExitFindsSettled
    <3>3. CASE r # s
      BY <1>1, <1>2, <1>3, <3>1, <3>3 DEF NothingOutlivesItsScope, TasksOf
    <3>. QED  BY <3>2, <3>3
  <2>. QED  BY <2>1, <2>3, <2>4, <2>5, <2>6, <2>7 DEF TreeStep
<1>4. NothingOutlivesItsScope'
  BY <1>3 DEF NothingOutlivesItsScope, TasksOf
<1>. QED  BY <1>1, <1>4

\* Unless a panic leaves a cleanup that a teardown waits for, no panic is ever
\* about while a scope is torn down, and nothing outlives a scope.
THEOREM QuietScheduler == Spec => []QuietInv
<1>1. Init => QuietInv
  BY DEF Init, QuietInv, Calm, NoGoal, NothingOutlivesItsScope
<1>2. Inv /\ QuietInv /\ [Next]_vars => QuietInv'
  BY QuietKept
<1>. QED  BY <1>1, <1>2, SchedulerInvariant, PTL DEF Spec

\* "Nothing outlives the scope" (cancel_and_settle): when a scope has exited,
\* all of its tasks have settled, unless a cleanup panicked in a teardown.
THEOREM NothingOutlives ==
  ASSUME ~PanicsInTeardown
  PROVE  Spec => []NothingOutlivesItsScope
<1>1. QuietInv => NothingOutlivesItsScope
  BY DEF QuietInv
<1>. QED  BY <1>1, QuietScheduler, PTL

-----------------------------------------------------------------------------
(* Tasks and scopes form a tree: the scheduler implements StructuredScopes.  *)

\* Whoever has s open is its opener, and a scope that is not open has none.
OpenersKnown ==
  \A s \in Scopes :
    /\ \A a \in Actors : s \in ToSet(bodies[a]) => Opener(s) = a
    /\ scope[s] # "open" => Opener(s) = Idle

\* Who opened a scope is known from the bodies that are open.
LEMMA OpenersAreKnown == Inv => OpenersKnown
<1> SUFFICES ASSUME Inv, NEW s \in Scopes
             PROVE  /\ \A a \in Actors : s \in ToSet(bodies[a]) => Opener(s) = a
                    /\ scope[s] # "open" => Opener(s) = Idle
  BY DEF OpenersKnown
<1>1. OpensOnce
  BY DEF Inv, Standing
<1>2. ASSUME NEW a \in Actors, s \in ToSet(bodies[a]) PROVE Opener(s) = a
  <2>1. scope[s] = "open"
    BY <1>1, <1>2 DEF OpensOnce
  <2>2. \A b \in Actors : s \in ToSet(bodies[b]) => b = a
    BY <1>1, <1>2 DEF OpensOnce
  <2>. QED  BY <1>2, <2>1, <2>2 DEF Opener
<1>. QED  BY <1>2 DEF Opener

\* A scope whose standing does not change keeps its opener.
LEMMA OpenerStays ==
  ASSUME Inv, OpenersKnown, OpenersKnown', NEW s \in Scopes, scope'[s] = scope[s],
         \A a \in Actors : s \in ToSet(bodies[a]) => s \in ToSet(bodies'[a])
  PROVE  Opener(s)' = Opener(s)
<1>1. CASE scope[s] = "open"
  <2>1. PICK a \in Actors : s \in ToSet(bodies[a])
    BY <1>1 DEF Inv, Standing, OpensOnce
  <2>. QED  BY <2>1 DEF OpenersKnown
<1>2. CASE scope[s] # "open"
  BY <1>2 DEF OpenersKnown
<1>. QED  BY <1>1, <1>2

\* The fates and the openers, as the variables of the tree.
fates == [t \in Tasks |-> Fate(t)]
openers == [s \in Scopes |-> Opener(s)]

\* Whoever opens a scope is alive: it runs, and it is the root or a running task.
LEMMA OpeningOpens ==
  ASSUME Inv, OpenersKnown, Inv', OpenersKnown', NEW s \in Scopes, Opening(s)
  PROVE  Tree!Open(s, current.cell)
<1> DEFINE a == current.cell
<1>1. /\ a \in Actors /\ a \in Stacked /\ scope[s] = "none"
      /\ scope' = [scope EXCEPT ![s] = "open"]
      /\ bodies' = [bodies EXCEPT ![a] = Append(@, s)]
      /\ UNCHANGED <<cell, owner>>
      /\ bodies \in [Actors -> Seq(Scopes)] /\ scope \in [Scopes -> {"none", "open", "exited"}]
  BY DEF Opening, Inv, TypeOK
<1>. HIDE DEF a
<1>2. a = Root \/ (a \in Tasks /\ Fate(a) = "live")
  <2>1. a \in Tasks => cell[a] = "running"
    BY <1>1 DEF Inv, Standing, PlacedRun
  <2>. QED  BY <1>1, <2>1 DEF Actors, Fate, Unsettled
<1>3. /\ \A b \in Actors : ToSet(bodies[b]) \subseteq ToSet(bodies'[b])
      /\ s \in ToSet(bodies'[a])
  <2>1. bodies[a] \in Seq(Scopes)
    BY <1>1
  <2>2. ToSet(Append(bodies[a], s)) = ToSet(bodies[a]) \cup {s}
    BY <2>1, Appended
  <2>. QED  BY <1>1, <2>2
<1>4. Opener(s)' = a
  BY <1>1, <1>3 DEF OpenersKnown
<1>5. \A r \in Scopes : r # s => Opener(r)' = Opener(r)
  BY <1>1, <1>3, OpenerStays
<1>6. openers' = [openers EXCEPT ![s] = a]
  BY <1>4, <1>5 DEF openers
<1>7. fates' = fates
  BY <1>1 DEF fates, Fate
<1>. QED  BY <1>1, <1>2, <1>6, <1>7 DEF Tree!Open, Tree!Alive, fates, openers, a

\* A task is spawned on an open scope.
LEMMA SpawningSpawns ==
  ASSUME Inv, OpenersKnown, OpenersKnown', NEW t \in Tasks, NEW s \in Scopes, Spawning(t, s)
  PROVE  Tree!Spawn(t, s)
<1>1. /\ cell[t] = "none" /\ scope[s] = "open" /\ cell' = [cell EXCEPT ![t] = "pending"]
      /\ owner' = [owner EXCEPT ![t] = s] /\ UNCHANGED <<scope, bodies>>
      /\ cell \in [Tasks -> {"none", "pending", "running", "done", "failed"}]
  BY DEF Spawning, Inv, TypeOK
<1>2. openers' = openers
  BY <1>1, OpenerStays DEF openers
<1>3. Fate(t) = "none" /\ Fate(t)' = "live" /\ \A u \in Tasks : u # t => Fate(u)' = Fate(u)
  BY <1>1 DEF Fate, Unsettled
<1>4. fates' = [fates EXCEPT ![t] = "live"] /\ fates[t] = "none"
  BY <1>3 DEF fates
<1>. QED  BY <1>1, <1>2, <1>4 DEF Tree!Spawn, fates, openers

\* Tasks that settle have left every scope they opened.
LEMMA SettlingSettles ==
  ASSUME Inv, OpenersKnown, OpenersKnown', NEW T \in SUBSET Tasks, Settling(T)
  PROVE  Tree!Settle(T)
<1>1. /\ T # {} /\ UNCHANGED <<owner, scope, bodies>>
      /\ \A t \in T : cell[t] \in Unsettled /\ cell'[t] \in {"done", "failed"} /\ bodies[t] = <<>>
      /\ \A t \in Tasks : t \notin T => cell'[t] = cell[t]
  BY DEF Settling
<1>2. openers' = openers
  BY <1>1, OpenerStays DEF openers
<1>3. \A t \in Tasks : Fate(t)' = IF t \in T THEN "settled" ELSE Fate(t)
  BY <1>1 DEF Fate, Unsettled
<1>4. fates' = [t \in Tasks |-> IF t \in T THEN "settled" ELSE fates[t]]
  BY <1>3 DEF fates
<1>5. \A t \in T : fates[t] = "live"
  BY <1>1 DEF fates, Fate, Unsettled
<1>6. ASSUME NEW t \in T, NEW s \in Scopes PROVE openers[s] # t
  <2>1. t \in Tasks /\ t # Idle /\ ToSet(bodies[t]) = {}
    BY <1>1, Names DEF ToSet
  <2>2. CASE scope[s] = "open"
    <3>1. PICK a \in Actors : s \in ToSet(bodies[a])
      BY <2>2 DEF Inv, Standing, OpensOnce
    <3>. QED  BY <2>1, <3>1 DEF OpenersKnown, openers
  <2>3. CASE scope[s] # "open"
    BY <2>1, <2>3 DEF OpenersKnown, openers
  <2>. QED  BY <2>2, <2>3
<1>. QED  BY <1>1, <1>2, <1>4, <1>5, <1>6 DEF Tree!Settle, fates, openers

\* A scope exits with every task of it settled.
LEMMA ExitingExits ==
  ASSUME Inv, Calm, OpenersKnown, Inv', OpenersKnown', NEW s \in Scopes, Exiting(s)
  PROVE  Tree!Exit(s)
<1> DEFINE a == current.cell
<1>1. /\ a \in Actors /\ bodies[a] # <<>> /\ s = Last(bodies[a]) /\ scope[s] = "open"
      /\ scope' = [scope EXCEPT ![s] = "exited"]
      /\ bodies' = [bodies EXCEPT ![a] = Front(@)]
      /\ UNCHANGED <<cell, owner>>
      /\ bodies \in [Actors -> Seq(Scopes)] /\ scope \in [Scopes -> {"none", "open", "exited"}]
      /\ IsInjective(bodies[a])
  BY DEF Exiting, Inv, TypeOK, Standing, OpensOnce
<1>. HIDE DEF a
<1>2. \A r \in Scopes, b \in Actors : r # s /\ r \in ToSet(bodies[b]) => r \in ToSet(bodies'[b])
  <2>1. ToSet(Front(bodies[a])) = ToSet(bodies[a]) \ {s}
    BY <1>1, FrontAndLast
  <2>. QED  BY <1>1, <2>1
<1>3. Opener(s)' = Idle
  BY <1>1 DEF OpenersKnown
<1>4. \A r \in Scopes : r # s => Opener(r)' = Opener(r)
  BY <1>1, <1>2, OpenerStays
<1>5. openers' = [openers EXCEPT ![s] = Idle]
  BY <1>3, <1>4 DEF openers
<1>6. fates' = fates
  BY <1>1 DEF fates, Fate
<1>7. \A t \in Tasks : owner[t] = s => fates[t] = "settled"
  BY CalmExits, ExitFindsSettled DEF fates, Fate
<1>. QED  BY <1>1, <1>5, <1>6, <1>7 DEF Tree!Exit, fates, openers

\* Every step of the scheduler is a step of the tree, or leaves it as it is.
LEMMA StepRefines ==
  ASSUME ~PanicsInTeardown, Inv, QuietInv, OpenersKnown, Inv', OpenersKnown', [Next]_vars
  PROVE  [Tree!Next]_(Tree!vars)
<1>1. Calm /\ TreeStep
  BY StepIsTreeStep DEF QuietInv
<1>2. CASE Still
  <2>1. UNCHANGED <<owner, scope>> /\ \A t \in Tasks : Fate(t)' = Fate(t)
    BY <1>2 DEF Still
  <2>2. fates' = fates
    BY <2>1 DEF fates
  <2>3. openers' = openers
    BY <1>2, OpenerStays DEF Still, openers
  <2>. QED  BY <2>1, <2>2, <2>3 DEF Tree!vars, fates, openers
<1>3. ASSUME NEW s \in Scopes, Opening(s) PROVE Tree!Next
  <2>1. current.cell \in Tasks \cup {Root}
    BY <1>3 DEF Opening, Actors
  <2>. QED  BY <1>3, <2>1, OpeningOpens DEF Tree!Next
<1>4. ASSUME NEW t \in Tasks, NEW s \in Scopes, Spawning(t, s) PROVE Tree!Next
  BY <1>4, SpawningSpawns DEF Tree!Next
<1>5. ASSUME NEW T \in SUBSET Tasks, Settling(T) PROVE Tree!Next
  BY <1>5, SettlingSettles DEF Tree!Next
<1>6. ASSUME NEW s \in Scopes, Exiting(s) PROVE Tree!Next
  BY <1>1, <1>6, ExitingExits DEF Tree!Next
<1>. QED  BY <1>1, <1>2, <1>3, <1>4, <1>5, <1>6 DEF TreeStep

\* An initial state is one of the tree of scopes.
LEMMA InitRefines == Init => Tree!Init
<1> SUFFICES ASSUME Init PROVE Tree!Init
  OBVIOUS
<1>1. /\ \A t \in Tasks : Fate(t) = "none"
      /\ \A s \in Scopes : Opener(s) = Idle /\ scope[s] = "none"
      /\ owner \in [Tasks -> {0}]
  BY DEF Init, Fate, Opener, NoScope
<1>. QED  BY <1>1 DEF Init, Tree!Init

\* The scheduler implements StructuredScopes: its tasks and scopes form a tree
\* in which a scope is opened by an actor that is alive, nobody settles with a
\* scope open, and a scope exits when all of its tasks have settled; the queues,
\* the drives and the signals are steps the tree does not see.
THEOREM TreeRefined ==
  ASSUME ~PanicsInTeardown
  PROVE  Spec => TreeSpec
<1>1. Inv /\ QuietInv /\ OpenersKnown /\ Inv' /\ OpenersKnown' /\ [Next]_vars
        => [Tree!Next]_(Tree!vars)
  BY StepRefines
<1>. QED  BY <1>1, InitRefines, OpenersAreKnown, SchedulerInvariant, QuietScheduler, PTL
          DEF Spec, TreeSpec, Tree!Spec

=============================================================================

---------------------------- MODULE OffloadPool ----------------------------
(***************************************************************************)
(* The blocking-IO pool behind task parking (brasa_runtime/offload.rs).    *)
(*                                                                         *)
(* One owner (the VM thread) submits jobs, drains completions, waits for   *)
(* one and finally drops the pool; worker threads are spawned on demand.   *)
(* Everything happens under one mutex, so an action is one critical        *)
(* section; what the code does after unlocking (notify, spawn) is an       *)
(* action of its own, because another thread can run in between.  A        *)
(* condition variable is a set of sleeping threads: being notified moves a *)
(* thread to "woken", and only the woken thread's own step, which takes    *)
(* the mutex again, resumes its loop.                                      *)
(***************************************************************************)
EXTENDS Integers, Sequences, FiniteSets

CONSTANTS
  Workers,      \* thread identities a worker may get
  WORKER_CAP,   \* the most workers the pool ever spawns
  MaxJobs       \* bound: how many jobs the owner submits

ASSUME WorkersAssumption == IsFiniteSet(Workers)
ASSUME CapAssumption == WORKER_CAP \in Nat \ {0}
ASSUME MaxJobsAssumption == MaxJobs \in Nat

VARIABLES
  queue,        \* State.queue: ids of jobs nobody has taken yet
  done,         \* State.done: ids of finished jobs not yet drained
  idle,         \* State.idle
  workers,      \* State.workers
  shutdown,     \* State.shutdown
  next_job,     \* OffloadPool.next_job
  owner,        \* where the owner's thread stands
  spawn_worker, \* submit's local: this call has to spawn a worker
  deadline,     \* wait_for_completion's argument: is the wait bounded?
  pc,           \* where each worker thread stands
  running,      \* the job a worker took from the queue
  drained       \* ids the owner has received from drain_completions

state == <<queue, done, idle, workers, shutdown>>
vars == <<state, next_job, owner, spawn_worker, deadline, pc, running, drained>>

Jobs == 0 .. MaxJobs - 1
NoJob == -1

OwnerPCs == {"rest", "notify", "spawn", "waiting", "woken", "dropping", "gone"}
WorkerPCs == {"unborn", "start", "waiting", "woken", "running", "notify", "exited"}

TypeOK ==
  /\ queue \in Seq(Jobs)
  /\ done \in Seq(Jobs)
  /\ idle \in Nat
  /\ workers \in Nat
  /\ shutdown \in BOOLEAN
  /\ next_job \in 0 .. MaxJobs
  /\ owner \in OwnerPCs
  /\ spawn_worker \in BOOLEAN
  /\ deadline \in BOOLEAN
  /\ pc \in [Workers -> WorkerPCs]
  /\ running \in [Workers -> Jobs \cup {NoJob}]
  /\ drained \in SUBSET Jobs

Init ==
  /\ queue = <<>>
  /\ done = <<>>
  /\ idle = 0
  /\ workers = 0
  /\ shutdown = FALSE
  /\ next_job = 0
  /\ owner = "rest"
  /\ spawn_worker = FALSE
  /\ deadline = FALSE
  /\ pc = [w \in Workers |-> "unborn"]
  /\ running = [w \in Workers |-> NoJob]
  /\ drained = {}

-----------------------------------------------------------------------------
(* The owner: submit, drain_completions, wait_for_completion, drop.          *)

\* No idle worker would take the job and the cap allows another.
Starved == idle = 0 /\ workers < WORKER_CAP

\* The critical section of submit: queue the job and decide about a worker.
Submit ==
  /\ owner = "rest"
  /\ next_job < MaxJobs
  /\ queue' = Append(queue, next_job)
  /\ next_job' = next_job + 1
  /\ spawn_worker' = Starved
  /\ workers' = IF Starved THEN workers + 1 ELSE workers
  /\ owner' = "notify"
  /\ UNCHANGED <<done, idle, shutdown, deadline, pc, running, drained>>

\* Faulty variant: work_ready is signalled only when a worker is spawned too.
SubmitNotify_OnlyWhenSpawning ==
  /\ owner = "notify"
  /\ owner' = IF spawn_worker THEN "spawn" ELSE "rest"
  /\ IF spawn_worker /\ \E w \in Workers : pc[w] = "waiting"
     THEN \E w \in Workers : pc[w] = "waiting" /\ pc' = [pc EXCEPT ![w] = "woken"]
     ELSE UNCHANGED pc
  /\ UNCHANGED <<state, next_job, spawn_worker, deadline, running, drained>>

\* Faulty variant: the notifier counts the worker out, and so does the worker.
SubmitNotify_AlsoCountsOut ==
  /\ owner = "notify"
  /\ owner' = IF spawn_worker THEN "spawn" ELSE "rest"
  /\ IF \E w \in Workers : pc[w] = "waiting"
     THEN /\ \E w \in Workers : pc[w] = "waiting" /\ pc' = [pc EXCEPT ![w] = "woken"]
          /\ idle' = idle - 1
     ELSE UNCHANGED <<pc, idle>>
  /\ UNCHANGED <<queue, done, workers, shutdown, next_job, spawn_worker, deadline,
                 running, drained>>

\* work_ready.notify_one(): one sleeping worker, if there is any, wakes.
SubmitNotify ==
  /\ owner = "notify"
  /\ owner' = IF spawn_worker THEN "spawn" ELSE "rest"
  /\ IF \E w \in Workers : pc[w] = "waiting"
     THEN \E w \in Workers : pc[w] = "waiting" /\ pc' = [pc EXCEPT ![w] = "woken"]
     ELSE UNCHANGED pc
  /\ UNCHANGED <<state, next_job, spawn_worker, deadline, running, drained>>

\* The thread the starved submit spawns.
SubmitSpawn ==
  /\ owner = "spawn"
  /\ \E w \in Workers : pc[w] = "unborn" /\ pc' = [pc EXCEPT ![w] = "start"]
  /\ owner' = "rest"
  /\ spawn_worker' = FALSE
  /\ UNCHANGED <<state, next_job, deadline, running, drained>>

\* drain_completions takes everything finished so far.
Drain ==
  /\ owner = "rest"
  /\ done # <<>>
  /\ drained' = drained \cup {done[i] : i \in DOMAIN done}
  /\ done' = <<>>
  /\ UNCHANGED <<queue, idle, workers, shutdown, next_job, owner, spawn_worker,
                 deadline, pc, running>>

\* wait_for_completion with nothing finished: sleep on done_ready.  The VM
\* passes no deadline only while a parked task waits for a job (vm.rs
\* await_progress), so an unbounded wait has a job to wait for.
Wait(bounded) ==
  /\ owner = "rest"
  /\ done = <<>>
  /\ bounded \/ \E j \in 0 .. next_job - 1 : j \notin drained
  /\ owner' = "waiting"
  /\ deadline' = bounded
  /\ UNCHANGED <<state, next_job, spawn_worker, pc, running, drained>>

\* A sleeping owner may wake without a notification: spuriously or because
\* its timeout ran out.
OwnerWakes ==
  /\ owner = "waiting"
  /\ owner' = "woken"
  /\ UNCHANGED <<state, next_job, spawn_worker, deadline, pc, running, drained>>

\* The loop's test after a wake-up: a completion ends the wait, and so may a
\* deadline; otherwise the owner sleeps again.
WaitRechecks ==
  /\ owner = "woken"
  /\ \/ (done # <<>> \/ deadline) /\ owner' = "rest" /\ deadline' = FALSE
     \/ done = <<>> /\ owner' = "waiting" /\ UNCHANGED deadline
  /\ UNCHANGED <<state, next_job, spawn_worker, pc, running, drained>>

\* Drop flips the flag and abandons what nobody took.
DropPool ==
  /\ owner = "rest"
  /\ shutdown' = TRUE
  /\ queue' = <<>>
  /\ owner' = "dropping"
  /\ UNCHANGED <<done, idle, workers, next_job, spawn_worker, deadline, pc,
                 running, drained>>

\* Faulty variant: notify_one where every sleeper has to leave.
DropNotify_NotifyOne ==
  /\ owner = "dropping"
  /\ IF \E w \in Workers : pc[w] = "waiting"
     THEN \E w \in Workers : pc[w] = "waiting" /\ pc' = [pc EXCEPT ![w] = "woken"]
     ELSE UNCHANGED pc
  /\ owner' = "gone"
  /\ UNCHANGED <<state, next_job, spawn_worker, deadline, running, drained>>

\* Drop's notify_all on work_ready.
DropNotify ==
  /\ owner = "dropping"
  /\ pc' = [w \in Workers |-> IF pc[w] = "waiting" THEN "woken" ELSE pc[w]]
  /\ owner' = "gone"
  /\ UNCHANGED <<state, next_job, spawn_worker, deadline, running, drained>>

-----------------------------------------------------------------------------
(* A worker: worker_loop.                                                    *)

\* Faulty variant: the job is read but left in the queue.
LookForWork_Peeks(w, idleNow) ==
  /\ ~shutdown
  /\ queue # <<>>
  /\ running' = [running EXCEPT ![w] = Head(queue)]
  /\ idle' = idleNow
  /\ pc' = [pc EXCEPT ![w] = "running"]
  /\ UNCHANGED <<queue, workers>>

\* The inner loop, under the mutex, for a worker that does not count as idle
\* (idleNow is the count without it): leave, take a job, or sleep.
LookForWork(w, idleNow) ==
  \/ /\ shutdown
     /\ workers' = workers - 1
     /\ idle' = idleNow
     /\ pc' = [pc EXCEPT ![w] = "exited"]
     /\ UNCHANGED <<queue, running>>
  \/ /\ ~shutdown
     /\ queue # <<>>
     /\ running' = [running EXCEPT ![w] = Head(queue)]
     /\ queue' = Tail(queue)
     /\ idle' = idleNow
     /\ pc' = [pc EXCEPT ![w] = "running"]
     /\ UNCHANGED workers
  \/ /\ ~shutdown
     /\ queue = <<>>
     /\ idle' = idleNow + 1
     /\ pc' = [pc EXCEPT ![w] = "waiting"]
     /\ UNCHANGED <<queue, workers, running>>

\* The top of the loop: a new worker, or one that has published its outcome.
WorkerLocks(w) ==
  /\ pc[w] = "start"
  /\ LookForWork(w, idle)
  /\ UNCHANGED <<done, shutdown, next_job, owner, spawn_worker, deadline, drained>>

\* A condition variable may wake a sleeper for no reason.
WorkerWakes(w) ==
  /\ pc[w] = "waiting"
  /\ pc' = [pc EXCEPT ![w] = "woken"]
  /\ UNCHANGED <<state, next_job, owner, spawn_worker, deadline, running, drained>>

\* A woken worker has the mutex again: it stops being idle and looks.
WorkerResumes(w) ==
  /\ pc[w] = "woken"
  /\ LookForWork(w, idle - 1)
  /\ UNCHANGED <<done, shutdown, next_job, owner, spawn_worker, deadline, drained>>

\* Faulty variants: no notification follows the outcome; a worker that leaves
\* stays counted; the outcome is published without looking at the flag.
WorkerFinishes_Silent(w) ==
  /\ pc[w] = "running"
  /\ done' = Append(done, running[w])
  /\ pc' = [pc EXCEPT ![w] = "start"]
  /\ running' = [running EXCEPT ![w] = NoJob]
  /\ UNCHANGED <<queue, idle, workers, shutdown, next_job, owner, spawn_worker,
                 deadline, drained>>

WorkerFinishes_StaysCounted(w) ==
  /\ pc[w] = "running"
  /\ IF shutdown
     THEN pc' = [pc EXCEPT ![w] = "exited"] /\ UNCHANGED done
     ELSE /\ done' = Append(done, running[w])
          /\ pc' = [pc EXCEPT ![w] = "notify"]
  /\ running' = [running EXCEPT ![w] = NoJob]
  /\ UNCHANGED <<queue, idle, workers, shutdown, next_job, owner, spawn_worker,
                 deadline, drained>>

WorkerFinishes_IgnoresShutdown(w) ==
  /\ pc[w] = "running"
  /\ done' = Append(done, running[w])
  /\ pc' = [pc EXCEPT ![w] = "notify"]
  /\ running' = [running EXCEPT ![w] = NoJob]
  /\ UNCHANGED <<queue, idle, workers, shutdown, next_job, owner, spawn_worker,
                 deadline, drained>>

\* run_job is over: publish the outcome, or discard it after a shutdown.
WorkerFinishes(w) ==
  /\ pc[w] = "running"
  /\ IF shutdown
     THEN /\ workers' = workers - 1
          /\ pc' = [pc EXCEPT ![w] = "exited"]
          /\ UNCHANGED done
     ELSE /\ done' = Append(done, running[w])
          /\ pc' = [pc EXCEPT ![w] = "notify"]
          /\ UNCHANGED workers
  /\ running' = [running EXCEPT ![w] = NoJob]
  /\ UNCHANGED <<queue, idle, shutdown, next_job, owner, spawn_worker, deadline,
                 drained>>

\* Faulty variant: the worker signals the condition variable of the workers.
WorkerNotifies_WrongCondvar(w) ==
  /\ pc[w] = "notify"
  /\ pc' = [v \in Workers |-> IF v = w THEN "start"
                              ELSE IF pc[v] = "waiting" THEN "woken" ELSE pc[v]]
  /\ UNCHANGED <<state, next_job, owner, spawn_worker, deadline, running, drained>>

\* done_ready.notify_all(), after unlocking.
WorkerNotifies(w) ==
  /\ pc[w] = "notify"
  /\ pc' = [pc EXCEPT ![w] = "start"]
  /\ owner' = IF owner = "waiting" THEN "woken" ELSE owner
  /\ UNCHANGED <<state, next_job, spawn_worker, deadline, running, drained>>

-----------------------------------------------------------------------------
OwnerNext ==
  \/ Submit \/ SubmitNotify \/ SubmitSpawn
  \/ Drain
  \/ \E bounded \in BOOLEAN : Wait(bounded)
  \/ OwnerWakes \/ WaitRechecks
  \/ DropPool \/ DropNotify

WorkerNext(w) ==
  \/ WorkerLocks(w) \/ WorkerWakes(w) \/ WorkerResumes(w)
  \/ WorkerFinishes(w) \/ WorkerNotifies(w)

Next == OwnerNext \/ \E w \in Workers : WorkerNext(w)

Spec == Init /\ [][Next]_vars

\* The operating system schedules every thread, mutexes are handed over, and
\* run_job ends; nothing promises that the owner submits, drains, drops or
\* that a sleeper wakes without being notified.
Fairness ==
  /\ WF_vars(SubmitNotify) /\ WF_vars(SubmitSpawn)
  /\ WF_vars(WaitRechecks) /\ WF_vars(DropNotify)
  /\ \A w \in Workers :
       /\ WF_vars(WorkerLocks(w)) /\ WF_vars(WorkerResumes(w))
       /\ WF_vars(WorkerFinishes(w)) /\ WF_vars(WorkerNotifies(w))

FairSpec == Spec /\ Fairness

-----------------------------------------------------------------------------
(* What the pool promises.                                                   *)

Elements(seq) == {seq[i] : i \in DOMAIN seq}
NoRepeats(seq) == \A i, k \in DOMAIN seq : seq[i] = seq[k] => i = k

Running == {w \in Workers : pc[w] = "running"}
InFlight == {running[w] : w \in Running}
Sleeping == {w \in Workers : pc[w] \in {"waiting", "woken"}}
Live == {w \in Workers : pc[w] \notin {"unborn", "exited"}}

\* A submitted job is in exactly one place: queued, run by one worker,
\* finished but not drained, or drained; only a dropped pool loses one.  So
\* drain_completions never answers an id twice and never invents one (the
\* doc of drain_completions, the test a_submitted_job_completes_and_is_drained_once).
ExactlyOnce ==
  /\ NoRepeats(queue) /\ NoRepeats(done)
  /\ \A v, w \in Running : running[v] = running[w] => v = w
  /\ Elements(queue) \cap InFlight = {}
  /\ (Elements(queue) \cup InFlight) \cap (Elements(done) \cup drained) = {}
  /\ Elements(done) \cap drained = {}
  /\ LET known == Elements(queue) \cup InFlight \cup Elements(done) \cup drained
     IN  IF shutdown THEN known \subseteq 0 .. next_job - 1
                     ELSE known = 0 .. next_job - 1

\* No lost wake-up towards the workers: once submit has returned, a queued
\* job is never left with every worker asleep and unnotified.
NoLostWork ==
  owner \notin {"notify", "spawn"} /\ queue # <<>>
    => \E w \in Workers : pc[w] \in {"start", "woken", "running", "notify"}

\* No lost wake-up towards the owner: it never sleeps beside a finished job
\* unless a worker is about to notify it.
NoLostCompletion ==
  owner = "waiting" /\ done # <<>> => \E w \in Workers : pc[w] = "notify"

\* The counters submit decides by are right in every unlocked state, and the
\* cap bounds the threads that exist (the doc of WORKER_CAP).
Accounting ==
  /\ idle = Cardinality(Sleeping)
  /\ workers = Cardinality(Live) + (IF spawn_worker THEN 1 ELSE 0)
  /\ workers =< WORKER_CAP

\* Every submitted job finishes unless the pool is dropped.
EveryJobFinishes ==
  \A j \in Jobs :
    (j < next_job) ~> (shutdown \/ j \in Elements(done) \cup drained)

\* An unbounded wait comes back: somebody finishes the job it waits for and
\* the notification reaches it.
WaitReturns == (owner = "waiting" /\ ~deadline) ~> (owner = "rest")

\* After a drop every worker leaves (the module doc: "workers exit when they
\* next look for work").
WorkersLeave == shutdown ~> (workers = 0)

\* The pool implements the job service: see JobService.
Service == INSTANCE JobService WITH
  Jobs     <- Jobs,
  pending  <- IF shutdown THEN {} ELSE Elements(queue) \cup InFlight,
  finished <- Elements(done),
  received <- drained,
  closed   <- shutdown

ServiceSpec == Service!Spec
=============================================================================

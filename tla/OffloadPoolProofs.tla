------------------------- MODULE OffloadPoolProofs -------------------------
(***************************************************************************)
(* Proofs about OffloadPool, for any set of threads, cap and number of     *)
(* jobs: the type invariant, that every job is in exactly one place, that  *)
(* no wake-up is lost in either direction, that the counters are exact,    *)
(* and that the pool implements JobService.                                *)
(*                                                                         *)
(* The inductive invariant IInv has four parts that the promised ones rest *)
(* on: the queue holds the youngest ids, in order (QueueIsYoungest); the   *)
(* older ids are spread over workers, done and drained without overlap     *)
(* (OlderJobs); the owner's position says what is still to be done         *)
(* (OwnerStands); and a submit that spawned nobody left somebody alive     *)
(* (SomebodyLives).                                                        *)
(***************************************************************************)
EXTENDS OffloadPool, TLAPS, FiniteSetTheorems, SequenceTheorems

\* The ids below this one have left the queue.
Oldest == next_job - Len(queue)

QueueIsYoungest ==
  /\ Len(queue) =< next_job
  /\ \A i \in 1 .. Len(queue) : queue[i] = Oldest + i - 1
  /\ shutdown => queue = <<>>

OlderJobs ==
  /\ \A w \in Running : running[w] \in 0 .. Oldest - 1
  /\ \A v, w \in Running : running[v] = running[w] => v = w
  /\ Elements(done) \subseteq 0 .. Oldest - 1
  /\ NoRepeats(done)
  /\ drained \subseteq 0 .. Oldest - 1
  /\ InFlight \cap Elements(done) = {}
  /\ InFlight \cap drained = {}
  /\ Elements(done) \cap drained = {}
  /\ ~shutdown => \A j \in 0 .. Oldest - 1 : j \in InFlight \cup Elements(done) \cup drained

OwnerStands ==
  /\ shutdown <=> owner \in {"dropping", "gone"}
  /\ spawn_worker => owner \in {"notify", "spawn"}
  /\ owner = "spawn" => spawn_worker

SomebodyLives == owner = "notify" /\ ~spawn_worker => Live # {}

IInv ==
  /\ TypeOK
  /\ QueueIsYoungest /\ OlderJobs
  /\ OwnerStands /\ SomebodyLives
  /\ NoLostWork /\ NoLostCompletion /\ Accounting

-----------------------------------------------------------------------------
(* Counting.                                                                 *)

\* A thread joins or leaves a finite set of threads: the count follows.
LEMMA CountJoins ==
  ASSUME NEW S \in SUBSET Workers, NEW w \in Workers, w \notin S
  PROVE  /\ Cardinality(S) \in Nat
         /\ Cardinality(S \cup {w}) = Cardinality(S) + 1
<1>1. IsFiniteSet(S)
  BY WorkersAssumption, FS_Subset
<1> QED
  BY <1>1, FS_AddElement, FS_CardinalityType

\* One worker fewer is one fewer to count.
LEMMA CountLeaves ==
  ASSUME NEW S \in SUBSET Workers, NEW w \in S
  PROVE  /\ Cardinality(S) \in Nat \ {0}
         /\ Cardinality(S \ {w}) = Cardinality(S) - 1
<1>1. IsFiniteSet(S)
  BY WorkersAssumption, FS_Subset
<1>2. Cardinality(S) \in Nat /\ Cardinality(S) # 0
  BY <1>1, FS_CardinalityType, FS_EmptySet
<1> QED
  BY <1>1, <1>2, FS_RemoveElement

-----------------------------------------------------------------------------
(* Sequences of jobs.                                                        *)

\* What a pushed job adds.
LEMMA Pushed ==
  ASSUME NEW S, NEW seq \in Seq(S), NEW e \in S
  PROVE  /\ Append(seq, e) \in Seq(S)
         /\ Len(Append(seq, e)) = Len(seq) + 1
         /\ Elements(Append(seq, e)) = Elements(seq) \cup {e}
         /\ NoRepeats(seq) /\ e \notin Elements(seq) => NoRepeats(Append(seq, e))
<1> DEFINE t == Append(seq, e)
<1>1. /\ t \in Seq(S) /\ Len(t) = Len(seq) + 1 /\ Len(seq) \in Nat
      /\ \A i \in 1 .. Len(seq) : t[i] = seq[i]
      /\ t[Len(seq) + 1] = e
      /\ DOMAIN seq = 1 .. Len(seq) /\ DOMAIN t = 1 .. Len(seq) + 1
  BY AppendProperties, LenProperties
<1> HIDE DEF t
<1>2. Elements(t) = Elements(seq) \cup {e}
  BY <1>1 DEF Elements
<1>3. ASSUME NoRepeats(seq), e \notin Elements(seq)
      PROVE  NoRepeats(t)
  BY <1>1, <1>3 DEF NoRepeats, Elements
<1> QED
  BY <1>1, <1>2, <1>3 DEF t

\* What the job at the front leaves behind.
LEMMA Popped ==
  ASSUME NEW S, NEW seq \in Seq(S), seq # <<>>
  PROVE  /\ Head(seq) \in S /\ Head(seq) = seq[1]
         /\ Tail(seq) \in Seq(S)
         /\ Len(seq) \in Nat \ {0} /\ Len(Tail(seq)) = Len(seq) - 1
         /\ \A i \in 1 .. Len(Tail(seq)) : Tail(seq)[i] = seq[i + 1]
  BY HeadTailProperties, EmptySeq

\* The jobs before an earlier one are among those before a later one.
LEMMA RangeGrows ==
  ASSUME NEW a \in Nat, NEW b \in Nat, a =< b
  PROVE  0 .. a - 1 \subseteq 0 .. b - 1
  OBVIOUS

\* The elements of a sequence are in the set it is over.
LEMMA ElementsIn ==
  ASSUME NEW S, NEW seq \in Seq(S)
  PROVE  Elements(seq) \subseteq S
  BY LenProperties DEF Elements

\* The jobs that workers run when w takes or ends one.
LEMMA FlightGrows ==
  ASSUME TypeOK, NEW w \in Workers, pc[w] # "running", NEW j,
         pc' = [pc EXCEPT ![w] = "running"], running' = [running EXCEPT ![w] = j]
  PROVE  Running' = Running \cup {w} /\ InFlight' = InFlight \cup {j}
  BY DEF TypeOK, Running, InFlight

\* A worker that finishes takes its job, and no other, out of flight.
LEMMA FlightShrinks ==
  ASSUME TypeOK, OlderJobs, NEW w \in Running, NEW q, q # "running",
         pc' = [pc EXCEPT ![w] = q], running' = [running EXCEPT ![w] = NoJob]
  PROVE  Running' = Running \ {w} /\ InFlight' = InFlight \ {running[w]}
  BY DEF TypeOK, Running, InFlight, OlderJobs

\* A worker that moves without a job changes nothing in flight.
LEMMA FlightStays ==
  ASSUME TypeOK, NEW w \in Workers, NEW q, pc[w] # "running", q # "running",
         pc' = [pc EXCEPT ![w] = q], UNCHANGED running
  PROVE  Running' = Running /\ InFlight' = InFlight
  BY DEF TypeOK, Running, InFlight

-----------------------------------------------------------------------------
(* Types.                                                                    *)

\* The woken worker that stops being idle was counted.
LEMMA IdleIsCounted ==
  ASSUME IInv, NEW w \in Workers, pc[w] = "woken"
  PROVE  idle - 1 \in Nat
<1>1. w \in Sleeping /\ Sleeping \in SUBSET Workers
  BY DEF Sleeping
<1>2. Cardinality(Sleeping) \in Nat \ {0}
  BY <1>1, CountLeaves
<1> QED
  BY <1>2 DEF IInv, Accounting

\* So is every live worker.
LEMMA CountsAlive ==
  ASSUME IInv, NEW w \in Workers, pc[w] \notin {"unborn", "exited"}
  PROVE  workers - 1 \in Nat
<1>1. w \in Live /\ Live \in SUBSET Workers
  BY DEF Live
<1>2. Cardinality(Live) \in Nat \ {0}
  BY <1>1, CountLeaves
<1> QED
  BY <1>2 DEF IInv, Accounting

\* The queue has a length, and its oldest job is one submitted or the next.
LEMMA QueueFits ==
  ASSUME TypeOK, QueueIsYoungest
  PROVE  Len(queue) \in Nat /\ Oldest \in 0 .. MaxJobs /\ next_job \in Nat
<1>1. Len(queue) \in Nat
  BY LenProperties DEF TypeOK
<1> QED
  BY <1>1, MaxJobsAssumption DEF TypeOK, QueueIsYoungest, Oldest

\* One look under the mutex keeps the types of what it touches.
LEMMA LookTypes ==
  ASSUME TypeOK, NEW w \in Workers, NEW idleNow \in Nat, LookForWork(w, idleNow),
         shutdown => workers - 1 \in Nat
  PROVE  /\ idle' \in Nat /\ workers' \in Nat
         /\ queue' \in Seq(Jobs)
         /\ pc' \in [Workers -> WorkerPCs]
         /\ running' \in [Workers -> Jobs \cup {NoJob}]
<1>0. /\ queue \in Seq(Jobs) /\ workers \in Nat
      /\ pc \in [Workers -> WorkerPCs] /\ running \in [Workers -> Jobs \cup {NoJob}]
  BY DEF TypeOK
<1>1. queue # <<>> => Head(queue) \in Jobs /\ Tail(queue) \in Seq(Jobs)
  BY <1>0, Popped
<1>2. idle' \in Nat /\ workers' \in Nat
  BY <1>0 DEF LookForWork
<1>3. queue' \in Seq(Jobs)
  BY <1>0, <1>1, Zenon DEF LookForWork
<1>4. pc' \in [Workers -> WorkerPCs]
  BY <1>0 DEF LookForWork, WorkerPCs
<1>5. running' \in [Workers -> Jobs \cup {NoJob}]
  <2>1. CASE queue # <<>> /\ running' = [running EXCEPT ![w] = Head(queue)]
    BY <1>0, <1>1, <2>1
  <2>2. CASE UNCHANGED running
    BY <1>0, <2>2
  <2> QED
    BY <2>1, <2>2 DEF LookForWork
<1> QED
  BY <1>2, <1>3, <1>4, <1>5

\* Every step keeps the types.
LEMMA StepTypeOK ==
  ASSUME IInv, [Next]_vars
  PROVE  TypeOK'
<1> USE DEF TypeOK, OwnerPCs, WorkerPCs, state
<1>0. TypeOK /\ OlderJobs /\ QueueIsYoungest
  BY DEF IInv
<1>1. CASE Submit
  <2>1. next_job \in Jobs /\ next_job + 1 \in 0 .. MaxJobs
    BY <1>0, <1>1, MaxJobsAssumption DEF Submit, Jobs
  <2> QED
    BY <1>0, <1>1, <2>1, Pushed DEF Submit, Starved
<1>2. CASE SubmitNotify
  BY <1>0, <1>2 DEF SubmitNotify
<1>3. CASE SubmitSpawn
  BY <1>0, <1>3 DEF SubmitSpawn
<1>4. CASE Drain
  <2>1. Elements(done) \subseteq Jobs /\ <<>> \in Seq(Jobs)
    BY <1>0, ElementsIn, EmptySeq
  <2> QED
    BY <1>0, <1>4, <2>1 DEF Drain, Elements
<1>5. ASSUME NEW bounded \in BOOLEAN, Wait(bounded)
      PROVE  TypeOK'
  BY <1>0, <1>5 DEF Wait
<1>6. CASE OwnerWakes \/ WaitRechecks
  BY <1>0, <1>6 DEF OwnerWakes, WaitRechecks
<1>7. CASE DropPool
  BY <1>0, <1>7 DEF DropPool
<1>8. CASE DropNotify
  BY <1>0, <1>8 DEF DropNotify
<1>9. ASSUME NEW w \in Workers, WorkerLocks(w)
      PROVE  TypeOK'
  <2>1. LookForWork(w, idle) /\ idle \in Nat
    BY <1>0, <1>9 DEF WorkerLocks
  <2>2. workers - 1 \in Nat
    BY CountsAlive, <1>9 DEF WorkerLocks
  <2> QED
    BY <1>0, <1>9, <2>1, <2>2, LookTypes DEF WorkerLocks
<1>10. ASSUME NEW w \in Workers, WorkerWakes(w)
       PROVE  TypeOK'
  BY <1>0, <1>10 DEF WorkerWakes
<1>11. ASSUME NEW w \in Workers, WorkerResumes(w)
       PROVE  TypeOK'
  <2>1. LookForWork(w, idle - 1) /\ idle - 1 \in Nat
    BY <1>0, <1>11, IdleIsCounted DEF WorkerResumes
  <2>2. workers - 1 \in Nat
    BY CountsAlive, <1>11 DEF WorkerResumes
  <2> QED
    BY <1>0, <1>11, <2>1, <2>2, LookTypes DEF WorkerResumes
<1>12. ASSUME NEW w \in Workers, WorkerFinishes(w)
       PROVE  TypeOK'
  <2>1. running[w] \in Jobs
    <3>1. running[w] \in 0 .. Oldest - 1
      BY <1>0, <1>12 DEF WorkerFinishes, OlderJobs, Running
    <3> QED
      BY <1>0, <3>1, QueueFits, MaxJobsAssumption DEF Jobs
  <2>2. workers - 1 \in Nat
    BY CountsAlive, <1>12 DEF WorkerFinishes
  <2>3. Append(done, running[w]) \in Seq(Jobs)
    BY <1>0, <2>1, Pushed
  <2>4. done' \in Seq(Jobs) /\ workers' \in Nat
    BY <1>0, <1>12, <2>2, <2>3, Zenon DEF WorkerFinishes
  <2> QED
    BY <1>0, <1>12, <2>4 DEF WorkerFinishes
<1>13. ASSUME NEW w \in Workers, WorkerNotifies(w)
       PROVE  TypeOK'
  BY <1>0, <1>13 DEF WorkerNotifies
<1>14. CASE UNCHANGED vars
  BY <1>0, <1>14 DEF vars
<1> QED
  BY <1>1, <1>2, <1>3, <1>4, <1>5, <1>6, <1>7, <1>8, <1>9, <1>10, <1>11, <1>12,
     <1>13, <1>14 DEF Next, OwnerNext, WorkerNext

-----------------------------------------------------------------------------
(* Where the jobs are.                                                       *)

\* A look under the mutex takes the oldest queued job or none.
LEMMA LookTakesOldest ==
  ASSUME TypeOK, QueueIsYoungest, NEW w \in Workers, NEW idleNow,
         LookForWork(w, idleNow), UNCHANGED <<next_job, shutdown>>
  PROVE  /\ QueueIsYoungest'
         /\ \/ /\ ~shutdown
               /\ Oldest' = Oldest + 1
               /\ pc' = [pc EXCEPT ![w] = "running"]
               /\ running' = [running EXCEPT ![w] = Oldest]
            \/ /\ Oldest' = Oldest
               /\ \E q \in {"waiting", "exited"} : pc' = [pc EXCEPT ![w] = q]
               /\ UNCHANGED running
<1>0. /\ queue \in Seq(Jobs) /\ next_job \in Nat /\ Len(queue) \in Nat
      /\ Len(queue) =< next_job
      /\ \A i \in 1 .. Len(queue) : queue[i] = Oldest + i - 1
      /\ Oldest = next_job - Len(queue)
  BY QueueFits DEF TypeOK, QueueIsYoungest, Oldest
<1>1. CASE queue # <<>> /\ queue' = Tail(queue) /\ ~shutdown
           /\ running' = [running EXCEPT ![w] = Head(queue)]
           /\ pc' = [pc EXCEPT ![w] = "running"]
  <2>1. /\ Head(queue) = queue[1] /\ Len(queue) \in Nat \ {0}
        /\ Len(queue') = Len(queue) - 1
        /\ \A i \in 1 .. Len(queue') : queue'[i] = queue[i + 1]
    BY <1>0, <1>1, Popped
  <2>2. Head(queue) = Oldest
    BY <1>0, <2>1
  <2>3. Oldest' = Oldest + 1
    BY <1>0, <2>1 DEF Oldest
  <2>4. \A i \in 1 .. Len(queue') : queue'[i] = Oldest' + i - 1
    BY <1>0, <2>1, <2>3
  <2>5. Len(queue') =< next_job'
    BY <1>0, <2>1
  <2>6. QueueIsYoungest'
    BY <1>1, <2>4, <2>5 DEF QueueIsYoungest
  <2> QED
    BY <1>1, <2>2, <2>3, <2>6
<1>2. CASE UNCHANGED <<queue, running>> /\ (\E q \in {"waiting", "exited"} : pc' = [pc EXCEPT ![w] = q])
  BY <1>2 DEF QueueIsYoungest, Oldest
<1> QED
  BY <1>1, <1>2 DEF LookForWork

\* Every step keeps the queue the youngest jobs, in order (submit, pop_front).
LEMMA StepQueue ==
  ASSUME IInv, [Next]_vars
  PROVE  QueueIsYoungest'
<1>0. TypeOK /\ QueueIsYoungest /\ OwnerStands
  BY DEF IInv
<1>1. CASE Submit
  <2>1. /\ queue \in Seq(Jobs) /\ next_job \in Jobs /\ Len(queue) \in Nat
        /\ next_job \in Nat /\ Len(queue) =< next_job
    BY <1>0, <1>1, QueueFits, MaxJobsAssumption DEF Submit, Jobs, TypeOK, QueueIsYoungest
  <2>2. /\ Len(queue') = Len(queue) + 1
        /\ \A i \in 1 .. Len(queue) : queue'[i] = queue[i]
        /\ queue'[Len(queue) + 1] = next_job
    BY <1>1, <2>1, AppendProperties DEF Submit
  <2>3. next_job' = next_job + 1 /\ ~shutdown /\ ~shutdown'
    BY <1>0, <1>1 DEF Submit, OwnerStands
  <2>4. \A i \in 1 .. Len(queue) : queue[i] = (next_job - Len(queue)) + i - 1
    BY <1>0 DEF QueueIsYoungest, Oldest
  <2>5. \A i \in 1 .. Len(queue') : queue'[i] = (next_job' - Len(queue')) + i - 1
    BY <2>1, <2>2, <2>3, <2>4
  <2> QED
    BY <2>1, <2>2, <2>3, <2>5 DEF QueueIsYoungest, Oldest
<1>2. CASE DropPool
  BY <1>0, <1>2, QueueFits, EmptySeq DEF DropPool, QueueIsYoungest, Oldest
<1>3. ASSUME NEW w \in Workers, WorkerLocks(w) \/ WorkerResumes(w)
      PROVE  QueueIsYoungest'
  BY <1>0, <1>3, LookTakesOldest DEF WorkerLocks, WorkerResumes
<1>4. CASE UNCHANGED <<queue, next_job, shutdown>>
  BY <1>0, <1>4 DEF QueueIsYoungest, Oldest
<1> QED
  BY <1>1, <1>2, <1>3, <1>4 DEF Next, OwnerNext, WorkerNext, SubmitNotify, SubmitSpawn,
     Drain, Wait, OwnerWakes, WaitRechecks, DropNotify, WorkerWakes, WorkerFinishes,
     WorkerNotifies, vars, state

\* No thread starts or stops running a job.
LEMMA FlightSame ==
  ASSUME \A w \in Workers : (pc[w] = "running") <=> (pc'[w] = "running"), UNCHANGED running
  PROVE  Running' = Running /\ InFlight' = InFlight
  BY DEF Running, InFlight

\* A step that touches no job keeps where the older jobs are.
LEMMA OlderJobsStay ==
  ASSUME OlderJobs, Running' = Running, Oldest' = Oldest,
         UNCHANGED <<running, done, drained, shutdown>>
  PROVE  OlderJobs'
  BY DEF OlderJobs, InFlight

\* A worker takes the oldest job, or none.
LEMMA LookOlderJobs ==
  ASSUME TypeOK, QueueIsYoungest, OlderJobs, NEW w \in Workers, NEW idleNow,
         pc[w] # "running", LookForWork(w, idleNow),
         UNCHANGED <<next_job, done, drained, shutdown>>
  PROVE  OlderJobs'
<1>0. Oldest \in Nat /\ pc \in [Workers -> WorkerPCs] /\ running \in [Workers -> Jobs \cup {NoJob}]
  BY QueueFits, MaxJobsAssumption DEF TypeOK
<1>1. CASE /\ Oldest' = Oldest + 1
           /\ pc' = [pc EXCEPT ![w] = "running"]
           /\ running' = [running EXCEPT ![w] = Oldest]
  <2>1. Running' = Running \cup {w} /\ InFlight' = InFlight \cup {Oldest} /\ w \notin Running
    BY <1>1, FlightGrows DEF Running
  <2>2. running'[w] = Oldest /\ \A v \in Running : running'[v] = running[v] /\ running[v] # Oldest
    <3>1. running'[w] = Oldest /\ \A v \in Running : running'[v] = running[v]
      BY <1>0, <1>1, <2>1 DEF Running
    <3>2. \A v \in Running : running[v] # Oldest
      BY <1>0 DEF OlderJobs
    <3> QED
      BY <3>1, <3>2
  <2>3. \A v \in Running' : running'[v] \in 0 .. Oldest' - 1
    <3>1. \A v \in Running : running[v] \in 0 .. Oldest - 1
      BY DEF OlderJobs
    <3> QED
      BY <1>0, <1>1, <2>1, <2>2, <3>1
  <2>4. \A u, v \in Running' : running'[u] = running'[v] => u = v
    BY <2>1, <2>2 DEF OlderJobs
  <2>5. Oldest \notin Elements(done) /\ Oldest \notin drained
    BY <1>0 DEF OlderJobs
  <2>6. 0 .. Oldest' - 1 = (0 .. Oldest - 1) \cup {Oldest}
    BY <1>0, <1>1
  <2> QED
    BY <2>1, <2>3, <2>4, <2>5, <2>6 DEF OlderJobs
<1>2. CASE /\ Oldest' = Oldest
           /\ \E q \in {"waiting", "exited"} : pc' = [pc EXCEPT ![w] = q]
           /\ UNCHANGED running
  <2>1. Running' = Running
    BY <1>2, FlightStays
  <2> QED
    BY <1>2, <2>1, OlderJobsStay
<1> QED
  BY <1>1, <1>2, LookTakesOldest

\* Every step keeps a job before the queue in one place: running, done or drained.
LEMMA StepOlderJobs ==
  ASSUME IInv, [Next]_vars
  PROVE  OlderJobs'
<1>0. TypeOK /\ QueueIsYoungest /\ OlderJobs /\ OwnerStands /\ TypeOK' /\ QueueIsYoungest'
  BY StepTypeOK, StepQueue DEF IInv
<1>1. CASE Submit
  <2>1. Oldest' = Oldest
    <3>1. Len(queue') = Len(queue) + 1 /\ Len(queue) \in Nat /\ next_job \in Nat
      <4>1. queue \in Seq(Jobs) /\ next_job \in Jobs
        BY <1>0, <1>1, MaxJobsAssumption DEF TypeOK, Submit, Jobs
      <4> QED
        BY <1>0, <1>1, <4>1, AppendProperties, QueueFits DEF Submit
    <3> QED
      BY <1>1, <3>1 DEF Oldest, Submit
  <2>2. Running' = Running
    BY <1>1 DEF Running, Submit
  <2> QED
    BY <1>0, <1>1, <2>1, <2>2, OlderJobsStay DEF Submit
<1>2. CASE Drain
  <2>1. /\ Oldest' = Oldest /\ Running' = Running /\ InFlight' = InFlight
        /\ Elements(done') = {} /\ NoRepeats(done') /\ drained' = drained \cup Elements(done)
    BY <1>2 DEF Drain, Oldest, Running, InFlight, Elements, NoRepeats
  <2>2. UNCHANGED <<running, shutdown>>
    BY <1>2 DEF Drain
  <2> QED
    BY <1>0, <2>1, <2>2 DEF OlderJobs
<1>3. CASE DropPool
  <2>1. Oldest \in Nat /\ Oldest' \in Nat /\ Oldest =< Oldest'
    <3>1. Oldest' = next_job
      BY <1>0, <1>3, QueueFits, EmptySeq DEF DropPool, Oldest
    <3> QED
      BY <1>0, <3>1, QueueFits, MaxJobsAssumption DEF Oldest
  <2>2. 0 .. Oldest - 1 \subseteq 0 .. Oldest' - 1
    BY <2>1, RangeGrows
  <2>3. Running' = Running /\ InFlight' = InFlight /\ shutdown' /\ UNCHANGED <<running, done, drained>>
    BY <1>3 DEF DropPool, Running, InFlight
  <2> QED
    BY <1>0, <2>2, <2>3 DEF OlderJobs
<1>4. ASSUME NEW w \in Workers, WorkerLocks(w) \/ WorkerResumes(w)
      PROVE  OlderJobs'
  BY <1>0, <1>4, LookOlderJobs DEF WorkerLocks, WorkerResumes
<1>5. ASSUME NEW w \in Workers, WorkerFinishes(w)
      PROVE  OlderJobs'
  <2>1. w \in Running /\ Oldest' = Oldest
    BY <1>5 DEF WorkerFinishes, Running, Oldest
  <2>2. Running' = Running \ {w} /\ InFlight' = InFlight \ {running[w]}
    BY <1>0, <1>5, <2>1, FlightShrinks DEF WorkerFinishes
  <2>3. \A v \in Running' : running'[v] = running[v]
    BY <1>0, <1>5, <2>2 DEF WorkerFinishes, TypeOK
  <2>4. running[w] \in 0 .. Oldest - 1 /\ running[w] \in InFlight
    BY <1>0, <2>1 DEF OlderJobs, InFlight
  <2>5. CASE shutdown
    BY <1>0, <1>5, <2>1, <2>2, <2>3, <2>5 DEF WorkerFinishes, OlderJobs
  <2>6. CASE ~shutdown
    <3>1. running[w] \in Jobs /\ done \in Seq(Jobs) /\ running[w] \notin Elements(done)
      <4>1. 0 .. Oldest - 1 \subseteq Jobs
        BY <1>0, QueueFits, MaxJobsAssumption DEF Jobs
      <4> QED
        BY <1>0, <2>4, <4>1 DEF TypeOK, OlderJobs
    <3>2. Elements(done') = Elements(done) \cup {running[w]} /\ NoRepeats(done')
      <4>1. NoRepeats(done) /\ done' = Append(done, running[w])
        BY <1>0, <1>5, <2>6 DEF WorkerFinishes, OlderJobs
      <4> QED
        BY <3>1, <4>1, Pushed
    <3>3. UNCHANGED <<drained, shutdown>>
      BY <1>5 DEF WorkerFinishes
    <3> QED
      BY <1>0, <2>1, <2>2, <2>3, <2>4, <3>2, <3>3 DEF OlderJobs
  <2> QED
    BY <2>5, <2>6
<1>6. CASE /\ \A w \in Workers : (pc[w] = "running") <=> (pc'[w] = "running")
           /\ UNCHANGED <<queue, next_job, running, done, drained, shutdown>>
  <2>1. Running' = Running /\ Oldest' = Oldest
    BY <1>6, FlightSame DEF Oldest
  <2> QED
    BY <1>0, <1>6, <2>1, OlderJobsStay
<1>7. CASE SubmitNotify \/ SubmitSpawn \/ DropNotify \/ \E w \in Workers : WorkerWakes(w) \/ WorkerNotifies(w)
  <2>1. \A w \in Workers : (pc[w] = "running") <=> (pc'[w] = "running")
    BY <1>0, <1>7 DEF SubmitNotify, SubmitSpawn, DropNotify, WorkerWakes, WorkerNotifies, TypeOK
  <2> QED
    BY <1>6, <1>7, <2>1 DEF SubmitNotify, SubmitSpawn, DropNotify, WorkerWakes, WorkerNotifies, state
<1>8. CASE OwnerWakes \/ WaitRechecks \/ UNCHANGED vars \/ \E bounded \in BOOLEAN : Wait(bounded)
  BY <1>6, <1>8 DEF OwnerWakes, WaitRechecks, Wait, vars, state
<1> QED
  BY <1>1, <1>2, <1>3, <1>4, <1>5, <1>7, <1>8 DEF Next, OwnerNext, WorkerNext

-----------------------------------------------------------------------------
(* The owner's position, and the counters.                                   *)

\* Every step keeps the pool shut down from its drop on, and a thread owed in submit only.
LEMMA StepOwnerStands ==
  ASSUME IInv, [Next]_vars
  PROVE  OwnerStands'
<1>0. TypeOK /\ OwnerStands
  BY DEF IInv
<1>1. CASE OwnerNext
  BY <1>0, <1>1 DEF OwnerNext, OwnerStands, TypeOK, OwnerPCs, Submit, SubmitNotify,
     SubmitSpawn, Drain, Wait, OwnerWakes, WaitRechecks, DropPool, DropNotify, state
<1>2. ASSUME NEW w \in Workers, WorkerNext(w)
      PROVE  OwnerStands'
  BY <1>0, <1>2 DEF OwnerStands, WorkerNext, WorkerLocks, WorkerWakes, WorkerResumes,
     WorkerFinishes, WorkerNotifies, state
<1>3. CASE UNCHANGED vars
  BY <1>0, <1>3 DEF OwnerStands, vars, state
<1> QED
  BY <1>1, <1>2, <1>3 DEF Next

\* A look under the mutex, by a worker that is not counted as idle, keeps
\* both counters exact.
LEMMA LookCounts ==
  ASSUME TypeOK, NEW w \in Workers, pc[w] \in {"start", "woken"}, NEW idleNow,
         idleNow = Cardinality(Sleeping \ {w}), LookForWork(w, idleNow)
  PROVE  /\ idle' = Cardinality(Sleeping')
         /\ workers' - Cardinality(Live') = workers - Cardinality(Live)
         /\ workers' =< workers
<1>0. /\ pc \in [Workers -> WorkerPCs] /\ workers \in Nat
      /\ w \in Live /\ Live \in SUBSET Workers /\ Sleeping \ {w} \in SUBSET Workers
  BY DEF TypeOK, Live, Sleeping
<1>1. CASE pc' = [pc EXCEPT ![w] = "exited"] /\ workers' = workers - 1 /\ idle' = idleNow
  <2>1. Sleeping' = Sleeping \ {w} /\ Live' = Live \ {w}
    BY <1>0, <1>1 DEF Sleeping, Live
  <2>2. Cardinality(Live) \in Nat /\ Cardinality(Live') = Cardinality(Live) - 1
    BY <1>0, <2>1, CountLeaves
  <2> QED
    BY <1>0, <1>1, <2>1, <2>2
<1>2. CASE pc' = [pc EXCEPT ![w] = "running"] /\ workers' = workers /\ idle' = idleNow
  <2>1. Sleeping' = Sleeping \ {w} /\ Live' = Live
    BY <1>0, <1>2 DEF Sleeping, Live
  <2> QED
    BY <1>0, <1>2, <2>1
<1>3. CASE pc' = [pc EXCEPT ![w] = "waiting"] /\ workers' = workers /\ idle' = idleNow + 1
  <2>1. Sleeping' = (Sleeping \ {w}) \cup {w} /\ Live' = Live
    BY <1>0, <1>3 DEF Sleeping, Live
  <2>2. Cardinality(Sleeping') = Cardinality(Sleeping \ {w}) + 1
    BY <1>0, <2>1, CountJoins
  <2> QED
    BY <1>0, <1>3, <2>1, <2>2
<1> QED
  BY <1>1, <1>2, <1>3 DEF LookForWork

\* The distance between workers and the live threads is what is owed.
LEMMA Balanced ==
  ASSUME NEW known \in Int, NEW known2 \in Int, NEW alive \in Int, NEW alive2 \in Int,
         NEW owed \in Int, NEW cap \in Int,
         known = alive + owed, known2 - alive2 = known - alive,
         known =< cap, known2 =< known
  PROVE  known2 = alive2 + owed /\ known2 =< cap
  OBVIOUS

\* Threads that neither fall asleep, wake up for good, start nor leave.
LEMMA SameCounts ==
  ASSUME Accounting, Sleeping' = Sleeping, Live' = Live,
         UNCHANGED <<idle, workers, spawn_worker>>
  PROVE  Accounting'
  BY DEF Accounting

\* Every step keeps the counters equal to what they count.
LEMMA StepAccounting ==
  ASSUME IInv, [Next]_vars
  PROVE  Accounting'
<1>0. /\ TypeOK /\ Accounting /\ OwnerStands
      /\ Live \in SUBSET Workers /\ Sleeping \in SUBSET Workers
      /\ Cardinality(Live) \in Nat /\ Cardinality(Sleeping) \in Nat
      /\ workers \in Nat /\ WORKER_CAP \in Nat /\ spawn_worker \in BOOLEAN
      /\ pc \in [Workers -> WorkerPCs]
  <2>1. Live \in SUBSET Workers /\ Sleeping \in SUBSET Workers
    BY DEF Live, Sleeping
  <2>2. Cardinality(Live) \in Nat /\ Cardinality(Sleeping) \in Nat
    BY <2>1, WorkersAssumption, FS_Subset, FS_CardinalityType
  <2> QED
    BY <2>1, <2>2, CapAssumption DEF IInv, TypeOK
<1>1. CASE Submit
  <2>1. Sleeping' = Sleeping /\ Live' = Live /\ idle' = idle /\ ~spawn_worker
    BY <1>0, <1>1 DEF Submit, Sleeping, Live, OwnerStands
  <2>2. workers = Cardinality(Live)
    BY <1>0, <2>1 DEF Accounting
  <2>3. CASE Starved
    <3>1. workers' = workers + 1 /\ workers < WORKER_CAP /\ spawn_worker' = TRUE
      BY <1>1, <2>3 DEF Submit, Starved
    <3>2. workers' = Cardinality(Live') + 1 /\ workers' =< WORKER_CAP
      BY <1>0, <2>1, <2>2, <3>1
    <3>3. idle' = Cardinality(Sleeping')
      BY <1>0, <2>1 DEF Accounting
    <3> QED
      BY <3>1, <3>2, <3>3 DEF Accounting
  <2>4. CASE ~Starved
    BY <1>0, <1>1, <2>1, <2>2, <2>4 DEF Submit, Accounting
  <2> QED
    BY <2>3, <2>4
<1>2. CASE SubmitSpawn
  <2>1. PICK w \in Workers : pc[w] = "unborn" /\ pc' = [pc EXCEPT ![w] = "start"]
    BY <1>2 DEF SubmitSpawn
  <2>2. Sleeping' = Sleeping /\ Live' = Live \cup {w} /\ w \notin Live
    BY <1>0, <2>1 DEF Sleeping, Live
  <2>3. Cardinality(Live') = Cardinality(Live) + 1
    BY <1>0, <2>2, CountJoins
  <2>4. spawn_worker /\ ~spawn_worker' /\ UNCHANGED <<idle, workers>>
    BY <1>0, <1>2 DEF SubmitSpawn, OwnerStands, state
  <2> QED
    BY <1>0, <2>2, <2>3, <2>4 DEF Accounting
<1>3. ASSUME NEW w \in Workers, WorkerLocks(w)
      PROVE  Accounting'
  <2>1. Sleeping \ {w} = Sleeping /\ UNCHANGED spawn_worker
    BY <1>3 DEF WorkerLocks, Sleeping
  <2>2. idle = Cardinality(Sleeping \ {w})
    BY <1>0, <2>1 DEF Accounting
  <2>3. /\ idle' = Cardinality(Sleeping')
        /\ workers' - Cardinality(Live') = workers - Cardinality(Live)
        /\ workers' =< workers
    BY <1>0, <1>3, <2>2, LookCounts DEF WorkerLocks
  <2>4. Cardinality(Live') \in Nat /\ workers' \in Nat
    <3>1. Live' \in SUBSET Workers
      BY DEF Live
    <3> QED
      BY <3>1, WorkersAssumption, FS_Subset, FS_CardinalityType, StepTypeOK DEF TypeOK
  <2> DEFINE owed == IF spawn_worker THEN 1 ELSE 0
  <2>5. /\ owed \in Int /\ workers = Cardinality(Live) + owed /\ workers =< WORKER_CAP
        /\ owed' = owed
    BY <1>0, <2>1 DEF Accounting
  <2> HIDE DEF owed
  <2>6. workers' = Cardinality(Live') + owed /\ workers' =< WORKER_CAP
    BY <1>0, <2>3, <2>4, <2>5, Balanced
  <2> QED
    BY <2>1, <2>3, <2>6 DEF Accounting, owed
<1>4. ASSUME NEW w \in Workers, WorkerResumes(w)
      PROVE  Accounting'
  <2>1. w \in Sleeping /\ UNCHANGED spawn_worker
    BY <1>4 DEF WorkerResumes, Sleeping
  <2>2. idle - 1 = Cardinality(Sleeping \ {w})
    BY <1>0, <2>1, CountLeaves DEF Accounting
  <2>3. /\ idle' = Cardinality(Sleeping')
        /\ workers' - Cardinality(Live') = workers - Cardinality(Live)
        /\ workers' =< workers
    BY <1>0, <1>4, <2>2, LookCounts DEF WorkerResumes
  <2>4. Cardinality(Live') \in Nat /\ workers' \in Nat
    <3>1. Live' \in SUBSET Workers
      BY DEF Live
    <3> QED
      BY <3>1, WorkersAssumption, FS_Subset, FS_CardinalityType, StepTypeOK DEF TypeOK
  <2> DEFINE owed == IF spawn_worker THEN 1 ELSE 0
  <2>5. /\ owed \in Int /\ workers = Cardinality(Live) + owed /\ workers =< WORKER_CAP
        /\ owed' = owed
    BY <1>0, <2>1 DEF Accounting
  <2> HIDE DEF owed
  <2>6. workers' = Cardinality(Live') + owed /\ workers' =< WORKER_CAP
    BY <1>0, <2>3, <2>4, <2>5, Balanced
  <2> QED
    BY <2>1, <2>3, <2>6 DEF Accounting, owed
<1>5. ASSUME NEW w \in Workers, WorkerFinishes(w)
      PROVE  Accounting'
  <2>1. Sleeping' = Sleeping /\ w \in Live /\ UNCHANGED <<idle, spawn_worker>>
    BY <1>0, <1>5 DEF WorkerFinishes, Sleeping, Live
  <2>2. CASE shutdown
    <3>1. Live' = Live \ {w} /\ workers' = workers - 1
      BY <1>0, <1>5, <2>2 DEF WorkerFinishes, Live
    <3>2. Cardinality(Live') = Cardinality(Live) - 1
      BY <1>0, <2>1, <3>1, CountLeaves
    <3> QED
      BY <1>0, <2>1, <3>1, <3>2 DEF Accounting
  <2>3. CASE ~shutdown
    <3>1. Live' = Live /\ workers' = workers
      BY <1>0, <1>5, <2>3 DEF WorkerFinishes, Live
    <3> QED
      BY <1>0, <2>1, <3>1, SameCounts
  <2> QED
    BY <2>2, <2>3
<1>6. CASE SubmitNotify \/ DropNotify \/ \E w \in Workers : WorkerWakes(w) \/ WorkerNotifies(w)
  <2>1. Sleeping' = Sleeping /\ Live' = Live
    BY <1>0, <1>6 DEF SubmitNotify, DropNotify, WorkerWakes, WorkerNotifies, Sleeping, Live
  <2> QED
    BY <1>0, <1>6, <2>1, SameCounts DEF SubmitNotify, DropNotify, WorkerWakes, WorkerNotifies, state
<1>7. CASE UNCHANGED <<pc, idle, workers, spawn_worker>>
  <2>1. Sleeping' = Sleeping /\ Live' = Live
    BY <1>7 DEF Sleeping, Live
  <2> QED
    BY <1>0, <1>7, <2>1, SameCounts
<1> QED
  BY <1>1, <1>2, <1>3, <1>4, <1>5, <1>6, <1>7 DEF Next, OwnerNext, WorkerNext, Drain, Wait,
     OwnerWakes, WaitRechecks, DropPool, vars, state

-----------------------------------------------------------------------------
(* The notifications.                                                        *)

\* No step leaves a completion that nobody is told of.
LEMMA StepNoLostCompletion ==
  ASSUME IInv, [Next]_vars
  PROVE  NoLostCompletion'
<1>0. TypeOK /\ NoLostCompletion
  BY DEF IInv
<1>1. CASE OwnerNext
  <2>1. CASE Submit \/ SubmitNotify \/ SubmitSpawn \/ Drain \/ DropPool \/ DropNotify \/ OwnerWakes
    BY <2>1 DEF Submit, SubmitNotify, SubmitSpawn, Drain, DropPool, DropNotify, OwnerWakes,
       NoLostCompletion
  <2>2. CASE WaitRechecks \/ \E bounded \in BOOLEAN : Wait(bounded)
    BY <2>2 DEF WaitRechecks, Wait, NoLostCompletion, state
  <2> QED
    BY <1>1, <2>1, <2>2 DEF OwnerNext
<1>2. ASSUME NEW w \in Workers, WorkerNotifies(w)
      PROVE  NoLostCompletion'
  BY <1>2 DEF WorkerNotifies, NoLostCompletion
<1>3. ASSUME NEW w \in Workers, WorkerLocks(w) \/ WorkerWakes(w) \/ WorkerResumes(w)
      PROVE  NoLostCompletion'
  <2>1. UNCHANGED <<owner, done>> /\ pc[w] # "notify"
    BY <1>3 DEF WorkerLocks, WorkerWakes, WorkerResumes, state
  <2>2. \E q \in WorkerPCs : pc' = [pc EXCEPT ![w] = q]
    BY <1>3 DEF WorkerLocks, WorkerWakes, WorkerResumes, LookForWork, WorkerPCs
  <2> QED
    BY <1>0, <2>1, <2>2 DEF NoLostCompletion, TypeOK
<1>4. ASSUME NEW w \in Workers, WorkerFinishes(w)
      PROVE  NoLostCompletion'
  <2>1. pc[w] = "running" /\ pc \in [Workers -> WorkerPCs] /\ UNCHANGED owner
    BY <1>0, <1>4 DEF WorkerFinishes, TypeOK
  <2>2. CASE shutdown
    BY <1>0, <1>4, <2>1, <2>2 DEF WorkerFinishes, NoLostCompletion
  <2>3. CASE ~shutdown
    <3>1. pc'[w] = "notify"
      BY <1>4, <2>1, <2>3 DEF WorkerFinishes
    <3> QED
      BY <3>1 DEF NoLostCompletion
  <2> QED
    BY <2>2, <2>3
<1>5. CASE UNCHANGED vars
  BY <1>0, <1>5 DEF NoLostCompletion, vars, state
<1> QED
  BY <1>1, <1>2, <1>3, <1>4, <1>5 DEF Next, WorkerNext

\* While the pool stands no worker leaves.
LEMMA NobodyLeaves ==
  ASSUME IInv, ~shutdown, NEW w \in Workers, WorkerNext(w)
  PROVE  Live \subseteq Live'
<1>1. pc \in [Workers -> WorkerPCs]
  BY DEF IInv, TypeOK
<1>2. \E q \in {"start", "woken", "waiting", "running", "notify"} : 
        \A v \in Workers : pc'[v] = IF v = w THEN q ELSE pc[v]
  BY <1>1 DEF WorkerNext, WorkerLocks, WorkerWakes, WorkerResumes, WorkerFinishes,
     WorkerNotifies, LookForWork
<1> QED
  BY <1>2 DEF Live

\* Every step leaves a worker alive when submit notifies and starts none.
LEMMA StepSomebodyLives ==
  ASSUME IInv, [Next]_vars
  PROVE  SomebodyLives'
<1>0. TypeOK /\ OwnerStands /\ SomebodyLives /\ Accounting
  BY DEF IInv
<1>1. CASE Submit
  <2> SUFFICES ASSUME ~Starved
               PROVE  Live' # {}
    BY <1>1 DEF SomebodyLives, Submit
  <2>1. Live' = Live /\ ~spawn_worker
    BY <1>0, <1>1 DEF Submit, Live, OwnerStands
  <2>2. CASE idle # 0
    <3>1. Sleeping # {}
      BY <1>0, <2>2, FS_EmptySet DEF Accounting
    <3> QED
      BY <2>1, <3>1 DEF Sleeping, Live
  <2>3. CASE ~(workers < WORKER_CAP)
    <3>1. workers # 0 /\ workers = Cardinality(Live)
      <4>1. workers = Cardinality(Live) + 0
        BY <1>0, <2>1 DEF Accounting
      <4>2. Live \in SUBSET Workers
        BY DEF Live
      <4>3. Cardinality(Live) \in Nat
        BY <4>2, WorkersAssumption, FS_Subset, FS_CardinalityType
      <4> QED
        BY <2>3, <4>1, <4>3, CapAssumption
    <3> QED
      BY <2>1, <3>1, FS_EmptySet
  <2> QED
    BY <2>2, <2>3 DEF Starved
<1>2. ASSUME NEW w \in Workers, WorkerNext(w)
      PROVE  SomebodyLives'
  <2> SUFFICES ASSUME owner' = "notify", ~spawn_worker'
               PROVE  Live' # {}
    BY DEF SomebodyLives
  <2>1. owner = "notify" /\ ~spawn_worker
    BY <1>0, <1>2 DEF WorkerNext, WorkerLocks, WorkerWakes, WorkerResumes, WorkerFinishes,
       WorkerNotifies
  <2>2. ~shutdown /\ Live # {}
    BY <1>0, <2>1 DEF OwnerStands, SomebodyLives
  <2> QED
    BY <1>2, <2>2, NobodyLeaves
<1>3. CASE OwnerNext /\ ~Submit
  BY <1>3 DEF OwnerNext, SubmitNotify, SubmitSpawn, Drain, Wait, OwnerWakes, WaitRechecks,
     DropPool, DropNotify, SomebodyLives
<1>4. CASE UNCHANGED vars
  BY <1>0, <1>4 DEF SomebodyLives, Live, vars, state
<1> QED
  BY <1>1, <1>2, <1>3, <1>4 DEF Next

\* No step leaves work queued while those who could do it sleep unnotified.
LEMMA StepNoLostWork ==
  ASSUME IInv, [Next]_vars
  PROVE  NoLostWork'
<1> DEFINE Awake == {"start", "woken", "running", "notify"}
<1>0. /\ TypeOK /\ QueueIsYoungest /\ OwnerStands /\ SomebodyLives /\ NoLostWork
      /\ pc \in [Workers -> WorkerPCs]
  BY DEF IInv, TypeOK
<1>1. CASE SubmitNotify
  <2>1. CASE \E w \in Workers : pc[w] = "waiting"
    BY <1>0, <1>1, <2>1 DEF SubmitNotify, NoLostWork
  <2>2. CASE ~\E w \in Workers : pc[w] = "waiting"
    <3> SUFFICES ASSUME owner' \notin {"notify", "spawn"}
                 PROVE  \E w \in Workers : pc'[w] \in Awake
      BY DEF NoLostWork
    <3>1. owner = "notify" /\ ~spawn_worker /\ pc' = pc
      BY <1>1, <2>2 DEF SubmitNotify
    <3>2. PICK w \in Workers : w \in Live
      BY <1>0, <3>1 DEF SomebodyLives, Live
    <3> QED
      BY <1>0, <2>2, <3>1, <3>2 DEF Live, WorkerPCs
  <2> QED
    BY <2>1, <2>2
<1>2. CASE SubmitSpawn
  BY <1>0, <1>2 DEF SubmitSpawn, NoLostWork
<1>3. CASE Submit \/ DropPool
  BY <1>3 DEF Submit, DropPool, NoLostWork
<1>4. CASE DropNotify
  <2>1. queue' = <<>>
    BY <1>0, <1>4 DEF DropNotify, QueueIsYoungest, OwnerStands, state
  <2> QED
    BY <2>1 DEF NoLostWork
<1>5. CASE Drain \/ OwnerWakes \/ WaitRechecks \/ \E bounded \in BOOLEAN : Wait(bounded)
  BY <1>0, <1>5 DEF Drain, OwnerWakes, WaitRechecks, Wait, NoLostWork, state
<1>6. ASSUME NEW w \in Workers, WorkerNext(w)
      PROVE  NoLostWork'
  <2>1. CASE queue' = <<>>
    BY <2>1 DEF NoLostWork
  <2>2. CASE queue' # <<>>
    <3>1. ~shutdown
      BY <1>0, <1>6, <2>2, StepQueue DEF QueueIsYoungest, WorkerNext, WorkerLocks, WorkerWakes,
         WorkerResumes, WorkerFinishes, WorkerNotifies, state
    <3>2. pc'[w] \in Awake
      BY <1>0, <1>6, <2>2, <3>1 DEF WorkerNext, WorkerLocks, WorkerWakes, WorkerResumes,
         WorkerFinishes, WorkerNotifies, LookForWork
    <3> QED
      BY <3>2 DEF NoLostWork
  <2> QED
    BY <2>1, <2>2
<1>7. CASE UNCHANGED vars
  BY <1>0, <1>7 DEF NoLostWork, vars, state
<1> QED
  BY <1>1, <1>2, <1>3, <1>4, <1>5, <1>6, <1>7 DEF Next, OwnerNext

-----------------------------------------------------------------------------
(* The theorems.                                                             *)

\* The initial states satisfy the invariant.
LEMMA InitIInv == Init => IInv
<1> SUFFICES ASSUME Init
             PROVE  IInv
  OBVIOUS
<1>1. TypeOK
  <2>1. queue \in Seq(Jobs) /\ done \in Seq(Jobs)
    BY EmptySeq DEF Init
  <2>2. pc \in [Workers -> WorkerPCs] /\ running \in [Workers -> Jobs \cup {NoJob}]
    BY DEF Init, WorkerPCs
  <2>3. next_job \in 0 .. MaxJobs /\ owner \in OwnerPCs
    BY MaxJobsAssumption DEF Init, OwnerPCs
  <2>4. /\ idle \in Nat /\ workers \in Nat /\ drained \in SUBSET Jobs
        /\ shutdown \in BOOLEAN /\ spawn_worker \in BOOLEAN /\ deadline \in BOOLEAN
    BY DEF Init
  <2> QED
    BY <2>1, <2>2, <2>3, <2>4 DEF TypeOK
<1>2. Running = {} /\ Live = {} /\ Sleeping = {} /\ InFlight = {} /\ Elements(done) = {}
  BY DEF Init, Running, Live, Sleeping, InFlight, Elements
<1>3. Len(queue) = 0 /\ Oldest = 0
  <2>1. queue = <<>> /\ Len(<<>>) = 0
    BY EmptySeq DEF Init
  <2>2. next_job = 0 /\ Len(queue) = 0
    BY <2>1, Zenon DEF Init
  <2> QED
    BY <2>2 DEF Oldest
<1>4. QueueIsYoungest
  BY <1>3, EmptySeq DEF Init, QueueIsYoungest
<1>5. OlderJobs
  <2>1. 0 .. Oldest - 1 = {} /\ NoRepeats(done)
    BY <1>3, EmptySeq DEF Init, NoRepeats
  <2> QED
    BY <1>2, <2>1 DEF Init, OlderJobs
<1>6. OwnerStands /\ SomebodyLives /\ NoLostWork /\ NoLostCompletion
  BY DEF Init, OwnerStands, SomebodyLives, NoLostWork, NoLostCompletion
<1>7. Accounting
  BY <1>2, FS_EmptySet, CapAssumption DEF Init, Accounting
<1> QED
  BY <1>1, <1>4, <1>5, <1>6, <1>7 DEF IInv

\* The inductive invariant holds in every reachable state of the pool.
THEOREM Invariance == Spec => []IInv
<1>1. IInv /\ [Next]_vars => IInv'
  BY StepTypeOK, StepQueue, StepOlderJobs, StepOwnerStands, StepSomebodyLives,
     StepNoLostWork, StepNoLostCompletion, StepAccounting DEF IInv
<1> QED
  BY InitIInv, <1>1, PTL DEF Spec

\* Every variable of State keeps its type; the subtractions from idle and
\* workers, which are usize in the code, never go below zero.
THEOREM TypeCorrect == Spec => []TypeOK
<1>1. IInv => TypeOK
  BY DEF IInv
<1> QED
  BY Invariance, <1>1, PTL

\* A queued job always has a worker that will look at the queue again.
THEOREM NoLostWorkHolds == Spec => []NoLostWork
<1>1. IInv => NoLostWork
  BY DEF IInv
<1> QED
  BY Invariance, <1>1, PTL

\* An owner asleep beside a finished job is about to be notified.
THEOREM NoLostCompletionHolds == Spec => []NoLostCompletion
<1>1. IInv => NoLostCompletion
  BY DEF IInv
<1> QED
  BY Invariance, <1>1, PTL

\* idle and workers count the threads they stand for, up to the cap.
THEOREM AccountingHolds == Spec => []Accounting
<1>1. IInv => Accounting
  BY DEF IInv
<1> QED
  BY Invariance, <1>1, PTL

\* A job is in one place only: the queue holds the ids from Oldest on, each at
\* its own position, and everything else holds ids below Oldest.
LEMMA ExactlyOnceFollows ==
  ASSUME IInv
  PROVE  ExactlyOnce
<1>0. /\ TypeOK /\ QueueIsYoungest /\ OlderJobs
      /\ Oldest \in Nat /\ Len(queue) \in Nat /\ next_job \in Nat
      /\ DOMAIN queue = 1 .. Len(queue)
  <2>1. TypeOK /\ QueueIsYoungest /\ OlderJobs
    BY DEF IInv
  <2>2. DOMAIN queue = 1 .. Len(queue)
    BY <2>1, LenProperties DEF TypeOK
  <2> QED
    BY <2>1, <2>2, QueueFits, MaxJobsAssumption
<1>1. Elements(queue) = Oldest .. next_job - 1 /\ NoRepeats(queue)
  <2>1. \A i \in 1 .. Len(queue) : queue[i] = (next_job - Len(queue)) + i - 1
    BY <1>0 DEF QueueIsYoungest, Oldest
  <2>2. NoRepeats(queue)
    BY <1>0, <2>1 DEF NoRepeats
  <2>3. ASSUME NEW i \in 1 .. Len(queue)
        PROVE  queue[i] \in (next_job - Len(queue)) .. next_job - 1
    BY <1>0, <2>1
  <2>4. ASSUME NEW j \in (next_job - Len(queue)) .. next_job - 1
        PROVE  j \in Elements(queue)
    <3> DEFINE i == j - (next_job - Len(queue)) + 1
    <3>1. i \in 1 .. Len(queue) /\ queue[i] = j
      BY <1>0, <2>1
    <3> QED
      BY <1>0, <3>1 DEF Elements
  <2> QED
    BY <1>0, <2>2, <2>3, <2>4 DEF Elements, Oldest
<1>2. /\ InFlight \subseteq 0 .. Oldest - 1
      /\ Elements(done) \subseteq 0 .. Oldest - 1 /\ drained \subseteq 0 .. Oldest - 1
  BY <1>0 DEF OlderJobs, InFlight
<1>3. Elements(queue) \cap (InFlight \cup Elements(done) \cup drained) = {}
  BY <1>0, <1>1, <1>2
<1>4. Len(queue) =< next_job /\ Oldest =< next_job
  BY <1>0 DEF QueueIsYoungest, Oldest
<1>5. Elements(queue) \cup InFlight \cup Elements(done) \cup drained \subseteq 0 .. next_job - 1
  <2>1. 0 .. Oldest - 1 \subseteq 0 .. next_job - 1
    BY <1>0, <1>4, RangeGrows
  <2>2. Elements(queue) \subseteq 0 .. next_job - 1
    BY <1>0, <1>1
  <2> QED
    BY <1>2, <2>1, <2>2
<1>6. ~shutdown => 0 .. next_job - 1 \subseteq Elements(queue) \cup InFlight \cup Elements(done) \cup drained
  BY <1>0, <1>1, <1>4 DEF OlderJobs
<1> QED
  BY <1>0, <1>1, <1>3, <1>5, <1>6 DEF ExactlyOnce, OlderJobs

\* No job is lost, run twice or answered twice, whatever the interleaving.
THEOREM ExactlyOnceHolds == Spec => []ExactlyOnce
  BY Invariance, ExactlyOnceFollows, PTL

-----------------------------------------------------------------------------
(* The pool implements the job service.                                      *)

\* The jobs the service holds as pending: JobService's variable, mapped.
Pending == IF shutdown THEN {} ELSE Elements(queue) \cup InFlight

\* Nothing the owner can observe changes.
LEMMA ServiceStutters ==
  ASSUME Elements(queue') = Elements(queue), InFlight' = InFlight,
         UNCHANGED <<done, drained, shutdown>>
  PROVE  [Service!Next]_(Service!vars)
<1>1. Pending' = Pending /\ Elements(done)' = Elements(done)
  BY DEF Pending, Elements
<1> QED
  BY <1>1 DEF Service!vars, Pending

\* Taking the oldest job moves it from the queue to a worker.
LEMMA LookStutters ==
  ASSUME TypeOK, QueueIsYoungest, NEW w \in Workers, pc[w] # "running", NEW idleNow,
         LookForWork(w, idleNow), UNCHANGED <<done, drained, shutdown>>
  PROVE  [Service!Next]_(Service!vars)
<1>1. CASE /\ queue # <<>> /\ queue' = Tail(queue)
           /\ running' = [running EXCEPT ![w] = Head(queue)]
           /\ pc' = [pc EXCEPT ![w] = "running"]
  <2>1. /\ queue \in Seq(Jobs) /\ queue' \in Seq(Jobs)
        /\ Head(queue) = queue[1] /\ Len(queue) \in Nat \ {0} /\ Len(queue') = Len(queue) - 1
        /\ \A i \in 1 .. Len(queue') : queue'[i] = queue[i + 1]
    BY <1>1, Popped DEF TypeOK
  <2>2. DOMAIN queue = 1 .. Len(queue) /\ DOMAIN queue' = 1 .. Len(queue')
    BY <2>1, LenProperties
  <2>3. Elements(queue) = Elements(queue') \cup {Head(queue)}
    <3>1. ASSUME NEW i \in 1 .. Len(queue)
          PROVE  queue[i] = Head(queue) \/ queue[i] \in Elements(queue')
      <4>1. CASE i = 1
        BY <2>1, <4>1
      <4>2. CASE i # 1
        <5>1. i - 1 \in 1 .. Len(queue')
          BY <2>1, <4>2
        <5>2. queue'[i - 1] = queue[i]
          BY <2>1, <5>1
        <5> QED
          BY <2>2, <5>1, <5>2 DEF Elements
      <4> QED
        BY <4>1, <4>2
    <3>2. Head(queue) \in Elements(queue)
      BY <2>1, <2>2 DEF Elements
    <3>3. ASSUME NEW i \in 1 .. Len(queue')
          PROVE  queue'[i] \in Elements(queue)
      <4>1. i + 1 \in 1 .. Len(queue) /\ queue'[i] = queue[i + 1]
        BY <2>1
      <4> QED
        BY <2>2, <4>1 DEF Elements
    <3>4. Elements(queue) \subseteq Elements(queue') \cup {Head(queue)}
      BY <2>2, <3>1 DEF Elements
    <3>5. Elements(queue') \subseteq Elements(queue)
      BY <2>2, <3>3 DEF Elements
    <3> QED
      BY <3>2, <3>4, <3>5
  <2>4. InFlight' = InFlight \cup {Head(queue)}
    BY <1>1, FlightGrows
  <2>5. Pending' = Pending /\ Elements(done)' = Elements(done)
    BY <2>3, <2>4 DEF Pending, Elements
  <2> QED
    BY <2>5 DEF Service!vars, Pending
<1>2. CASE /\ UNCHANGED <<queue, running>>
           /\ \E q \in {"waiting", "exited"} : pc' = [pc EXCEPT ![w] = q]
  BY <1>2, FlightStays, ServiceStutters
<1> QED
  BY <1>1, <1>2 DEF LookForWork

\* Every step is one of the abstract service, or none.
LEMMA StepService ==
  ASSUME IInv, [Next]_vars
  PROVE  [Service!Next]_(Service!vars)
<1>0. /\ TypeOK /\ QueueIsYoungest /\ OlderJobs /\ OwnerStands /\ ExactlyOnce
      /\ pc \in [Workers -> WorkerPCs] /\ next_job \in Nat
  BY ExactlyOnceFollows, QueueFits DEF IInv, TypeOK
<1>1. CASE Submit
  <2>1. /\ queue \in Seq(Jobs) /\ next_job \in Jobs /\ ~shutdown /\ ~shutdown'
        /\ queue' = Append(queue, next_job) /\ UNCHANGED <<done, drained, shutdown>>
    BY <1>0, <1>1, MaxJobsAssumption DEF Submit, TypeOK, Jobs, OwnerStands
  <2>2. Elements(queue') = Elements(queue) \cup {next_job}
    BY <2>1, Pushed
  <2>3. InFlight' = InFlight
    BY <1>1 DEF Submit, InFlight, Running
  <2>4. next_job \notin Elements(queue) \cup InFlight \cup Elements(done) \cup drained
    BY <1>0, <2>1 DEF ExactlyOnce
  <2>5. Elements(done)' = Elements(done)
    BY <2>1 DEF Elements
  <2>6. Service!Submit(next_job)
    BY <2>1, <2>2, <2>3, <2>4, <2>5 DEF Service!Submit
  <2> QED
    BY <2>1, <2>6 DEF Service!Next
<1>2. CASE Drain
  <2>1. /\ drained' = drained \cup Elements(done) /\ ~shutdown /\ UNCHANGED <<queue, pc, running, shutdown>>
        /\ done # <<>> /\ done' = <<>>
    BY <1>0, <1>2 DEF Drain, Elements, OwnerStands
  <2>2. Elements(done) # {} /\ Elements(done') = {}
    <3>1. Len(done) \in Nat \ {0} /\ DOMAIN done = 1 .. Len(done)
      BY <1>0, <2>1, EmptySeq, LenProperties DEF TypeOK
    <3>2. 1 \in DOMAIN done
      BY <3>1
    <3> QED
      BY <2>1, <3>2 DEF Elements
  <2>3. InFlight' = InFlight /\ Elements(queue') = Elements(queue)
    BY <2>1 DEF InFlight, Running, Elements
  <2>4. Service!HandOver
    BY <2>1, <2>2, <2>3 DEF Service!HandOver
  <2> QED
    BY <2>4 DEF Service!Next
<1>3. CASE DropPool
  <2>1. ~shutdown /\ shutdown' /\ UNCHANGED <<done, drained>>
    BY <1>0, <1>3 DEF DropPool, OwnerStands
  <2>2. Elements(done)' = Elements(done)
    BY <2>1 DEF Elements
  <2>3. Service!Close
    BY <1>0, <2>1, <2>2 DEF Service!Close, TypeOK
  <2> QED
    BY <2>3 DEF Service!Next
<1>4. ASSUME NEW w \in Workers, WorkerLocks(w) \/ WorkerResumes(w)
      PROVE  [Service!Next]_(Service!vars)
  BY <1>0, <1>4, LookStutters DEF WorkerLocks, WorkerResumes
<1>5. ASSUME NEW w \in Workers, WorkerFinishes(w)
      PROVE  [Service!Next]_(Service!vars)
  <2>1. /\ w \in Running /\ running[w] \in InFlight /\ UNCHANGED <<queue, drained, shutdown>>
    BY <1>5 DEF WorkerFinishes, Running, InFlight
  <2>2. InFlight' = InFlight \ {running[w]}
    BY <1>0, <1>5, <2>1, FlightShrinks DEF WorkerFinishes
  <2>3. running[w] \in Jobs
    <3>1. running[w] \in 0 .. Oldest - 1
      BY <1>0, <2>1 DEF OlderJobs
    <3> QED
      BY <1>0, <3>1, QueueFits, MaxJobsAssumption DEF Jobs
  <2>4. Elements(queue') = Elements(queue) /\ running[w] \notin Elements(queue)
    BY <1>0, <2>1 DEF ExactlyOnce, Elements
  <2>5. CASE shutdown
    <3>1. Pending = {} /\ Pending' = {} /\ Elements(done') = Elements(done)
      BY <1>5, <2>1, <2>5 DEF Pending, WorkerFinishes, Elements
    <3> QED
      BY <2>1, <3>1 DEF Service!vars, Pending
  <2>6. CASE ~shutdown
    <3>1. done' = Append(done, running[w]) /\ done \in Seq(Jobs)
      BY <1>0, <1>5, <2>6 DEF WorkerFinishes, TypeOK
    <3>2. Elements(done') = Elements(done) \cup {running[w]}
      BY <2>3, <3>1, Pushed
    <3>3. Service!Finish(running[w])
      BY <2>1, <2>2, <2>4, <2>6, <3>2 DEF Service!Finish
    <3> QED
      BY <2>3, <3>3 DEF Service!Next
  <2> QED
    BY <2>5, <2>6
<1>6. CASE SubmitNotify \/ SubmitSpawn \/ DropNotify \/ \E w \in Workers : WorkerWakes(w) \/ WorkerNotifies(w)
  <2>1. \A w \in Workers : (pc[w] = "running") <=> (pc'[w] = "running")
    BY <1>0, <1>6 DEF SubmitNotify, SubmitSpawn, DropNotify, WorkerWakes, WorkerNotifies, WorkerPCs
  <2>2. UNCHANGED <<queue, running, done, drained, shutdown>>
    BY <1>6 DEF SubmitNotify, SubmitSpawn, DropNotify, WorkerWakes, WorkerNotifies, state
  <2> QED
    BY <2>1, <2>2, FlightSame, ServiceStutters
<1>7. CASE OwnerWakes \/ WaitRechecks \/ UNCHANGED vars \/ \E bounded \in BOOLEAN : Wait(bounded)
  <2>1. UNCHANGED <<queue, pc, running, done, drained, shutdown>>
    BY <1>7 DEF OwnerWakes, WaitRechecks, Wait, vars, state
  <2> QED
    BY <2>1, FlightSame, ServiceStutters
<1> QED
  BY <1>1, <1>2, <1>3, <1>4, <1>5, <1>6, <1>7 DEF Next, OwnerNext, WorkerNext

\* Seen by its owner the pool is the job service: threads, locks and counters
\* add no behaviour that a service without them could not show.
THEOREM Refinement == Spec => ServiceSpec
<1>1. Init => Service!Init
  BY EmptySeq DEF Init, Service!Init, Elements, InFlight, Running
<1>2. IInv /\ [Next]_vars => [Service!Next]_(Service!vars)
  BY StepService
<1> QED
  BY Invariance, <1>1, <1>2, PTL DEF Spec, ServiceSpec, Service!Spec
=============================================================================

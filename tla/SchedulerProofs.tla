-------------------------- MODULE SchedulerProofs --------------------------
(***************************************************************************)
(* The scheduler's safety for every number of tasks, scopes and parks.     *)
(*                                                                         *)
(* The invariant says, level by level of the drivers stack, who stands     *)
(* where: the actors set aside, bottom first, and the running slot on top. *)
(* A started task stands in one place; whoever has a concurrent call open  *)
(* is on the stack, below every task of the scope it opened; and the goal  *)
(* of each drive is a task that exists or the innermost scope of the actor *)
(* that drives.  From there every property of the runs follows.            *)
(*                                                                         *)
(* First come lemmas on the queues: which tasks are on the queue an        *)
(* operation leaves, and that none of them is there twice.                 *)
(***************************************************************************)
EXTENDS Scheduler, FiniteSetTheorems, SequenceTheorems, WellFoundedInduction, TLAPS

-----------------------------------------------------------------------------
(* The queues, of any length.                                                *)

Distinct(queue) ==
  \A i, j \in DOMAIN queue : queue[i].task = queue[j].task => i = j

\* A task waits in one queue, at one position.
QueuedOnce ==
  /\ Distinct(runnable) /\ Distinct(parked)
  /\ TaskSet(runnable) \cap TaskSet(parked) = {}

\* What cancelling s settles: its pending tasks and those that never ran.
NeverRan(s) == {runnable[i].task : i \in Fresh(s)}
Unstarted(s) == Pending(s) \cup NeverRan(s)

-----------------------------------------------------------------------------
(* Positions.                                                                *)

\* A finite set of integers is enumerated by its ranks: every member has one,
\* and no two have the same.
LEMMA AscendingEnumerates ==
  ASSUME NEW S \in SUBSET Int, IsFiniteSet(S)
  PROVE  /\ Cardinality(S) \in Nat
         /\ Ascending(S) \in [1 .. Cardinality(S) -> S]
         /\ \A j, k \in 1 .. Cardinality(S) : Ascending(S)[j] = Ascending(S)[k] => j = k
         /\ \A x \in S : \E k \in 1 .. Cardinality(S) : Ascending(S)[k] = x
<1> DEFINE under(x) == {y \in S : y < x}
           n == Cardinality(S)
           rank == [x \in S |-> Cardinality(under(x)) + 1]
<1>1. n \in Nat
  BY FS_CardinalityType
<1>2. \A x \in S : IsFiniteSet(under(x)) /\ Cardinality(under(x)) \in 0 .. n - 1
  <2> SUFFICES ASSUME NEW x \in S PROVE IsFiniteSet(under(x)) /\ Cardinality(under(x)) \in 0 .. n - 1
    OBVIOUS
  <2>1. IsFiniteSet(S \ {x}) /\ Cardinality(S \ {x}) = n - 1
    BY FS_RemoveElement
  <2>2. under(x) \in SUBSET (S \ {x})
    OBVIOUS
  <2>3. IsFiniteSet(under(x)) /\ Cardinality(under(x)) =< n - 1
    BY <2>1, <2>2, FS_Subset
  <2>. QED  BY <2>3, <1>1, FS_CardinalityType
<1>3. \A x, y \in S : x < y => Cardinality(under(x)) # Cardinality(under(y))
  <2> SUFFICES ASSUME NEW x \in S, NEW y \in S, x < y, Cardinality(under(x)) = Cardinality(under(y))
               PROVE  FALSE
    OBVIOUS
  <2>1. under(x) \in SUBSET under(y)
    <3>1. \A z \in S : z \in Int
      OBVIOUS
    <3>2. \A z \in S : z < x => z < y
      BY <3>1
    <3>. QED  BY <3>2
  <2>2. under(x) = under(y)
    BY <2>1, <1>2, FS_Subset
  <2>. QED  BY <2>2
<1>4. rank \in Injection(S, 1 .. n)
  <2>1. \A x \in S : rank[x] = Cardinality(under(x)) + 1 /\ rank[x] \in 1 .. n
    BY <1>1, <1>2
  <2>2. \A x \in S : x \in Int /\ Cardinality(under(x)) \in Int
    BY <1>1, <1>2
  <2>3. rank \in [S -> 1 .. n]
    BY <2>1
  <2>4. \A x, y \in S : x # y => x < y \/ y < x
    BY <2>2
  <2>. HIDE DEF rank, under
  <2>5. \A x, y \in S : rank[x] = rank[y] => x = y
    BY <1>3, <2>1, <2>2, <2>4
  <2>. QED  BY <2>3, <2>5 DEF Injection, IsInjective
<1>5. rank \in Surjection(S, 1 .. n)
  <2>1. IsFiniteSet(1 .. n) /\ Cardinality(1 .. n) = n
    BY <1>1, FS_Interval
  <2>. QED  BY <2>1, <1>4, FS_Injection
<1>6. \A k \in 1 .. n : Ascending(S)[k] \in S /\ Cardinality(under(Ascending(S)[k])) = k - 1
  <2> SUFFICES ASSUME NEW k \in 1 .. n
               PROVE  Ascending(S)[k] \in S /\ Cardinality(under(Ascending(S)[k])) = k - 1
    OBVIOUS
  <2>1. \E x \in S : Cardinality(under(x)) = k - 1
    <3>1. PICK x \in S : rank[x] = k
      BY <1>5 DEF Surjection
    <3>2. Cardinality(under(x)) \in Int /\ k \in Int /\ rank[x] = Cardinality(under(x)) + 1
      BY <1>1, <1>2
    <3>. HIDE DEF rank, under
    <3>. QED  BY <3>1, <3>2
  <2>2. Ascending(S)[k] = CHOOSE x \in S : Cardinality(under(x)) = k - 1
    BY DEF Ascending
  <2>. QED  BY <2>1, <2>2
<1>7. \A x \in S : \E k \in 1 .. n : Ascending(S)[k] = x
  <2> SUFFICES ASSUME NEW x \in S PROVE \E k \in 1 .. n : Ascending(S)[k] = x
    OBVIOUS
  <2>1. rank[x] \in 1 .. n /\ Cardinality(under(x)) = rank[x] - 1
    BY <1>1, <1>2
  <2>2. rank[Ascending(S)[rank[x]]] = rank[x] /\ Ascending(S)[rank[x]] \in S
    BY <2>1, <1>6
  <2>3. Ascending(S)[rank[x]] = x
    BY <2>2, <1>4 DEF Injection, IsInjective
  <2>. QED  BY <2>1, <2>3
<1>8. Ascending(S) \in [1 .. n -> S]
  BY <1>6 DEF Ascending
<1>9. \A j, k \in 1 .. n : Ascending(S)[j] = Ascending(S)[k] => j = k
  <2> SUFFICES ASSUME NEW j \in 1 .. n, NEW k \in 1 .. n, Ascending(S)[j] = Ascending(S)[k]
               PROVE  j = k
    OBVIOUS
  <2>. HIDE DEF under
  <2>1. j - 1 = k - 1 /\ j \in Int /\ k \in Int
    BY <1>1, <1>6
  <2>. QED  BY <2>1
<1>. QED  BY <1>1, <1>7, <1>8, <1>9

\* The entries at some positions of a queue form a queue of those entries,
\* which repeats none.
LEMMA OnlyKeeps ==
  ASSUME NEW E, NEW q \in Seq(E), NEW I \in SUBSET DOMAIN q
  PROVE  /\ Only(q, I) \in Seq(E)
         /\ \A k \in DOMAIN Only(q, I) : \E i \in I : Only(q, I)[k] = q[i]
         /\ \A i \in I : \E k \in DOMAIN Only(q, I) : Only(q, I)[k] = q[i]
         /\ TaskSet(Only(q, I)) = {q[i].task : i \in I}
         /\ Distinct(q) => Distinct(Only(q, I))
<1> DEFINE kept == Ascending(I)
           n == Cardinality(I)
<1>1. IsFiniteSet(I) /\ I \in SUBSET Int
  <2>1. IsFiniteSet(1 .. Len(q)) /\ DOMAIN q = 1 .. Len(q)
    BY FS_Interval
  <2>. QED  BY <2>1, FS_Subset
<1>2. /\ n \in Nat
      /\ kept \in [1 .. n -> I]
      /\ \A j, k \in 1 .. n : kept[j] = kept[k] => j = k
      /\ \A i \in I : \E k \in 1 .. n : kept[k] = i
  BY <1>1, AscendingEnumerates
<1>. HIDE DEF kept, n
<1>3. Only(q, I) = [k \in 1 .. n |-> q[kept[k]]]
  BY <1>2 DEF Only, kept
<1>4. \A k \in 1 .. n : kept[k] \in I /\ kept[k] \in DOMAIN q /\ q[kept[k]] \in E
  BY <1>2
<1>5. Only(q, I) \in Seq(E)
  BY <1>2, <1>3, <1>4
<1>6. \A k \in DOMAIN Only(q, I) : \E i \in I : Only(q, I)[k] = q[i]
  BY <1>3, <1>4
<1>7. \A i \in I : \E k \in DOMAIN Only(q, I) : Only(q, I)[k] = q[i]
  BY <1>2, <1>3
<1>8. TaskSet(Only(q, I)) = {q[i].task : i \in I}
  BY <1>6, <1>7 DEF TaskSet
<1>9. Distinct(q) => Distinct(Only(q, I))
  BY <1>2, <1>3, <1>4 DEF Distinct
<1>. QED  BY <1>5, <1>6, <1>7, <1>8, <1>9

\* The scopes an actor has open, with one more and with one less.
LEMMA Appended ==
  ASSUME NEW E, NEW q \in Seq(E), NEW x \in E
  PROVE  /\ Append(q, x) \in Seq(E) /\ Append(q, x) # <<>> /\ Last(Append(q, x)) = x
         /\ ToSet(Append(q, x)) = ToSet(q) \cup {x}
         /\ IsInjective(q) /\ x \notin ToSet(q) => IsInjective(Append(q, x))
<1> DEFINE r == Append(q, x)
<1>1. /\ r \in Seq(E) /\ Len(q) \in Nat /\ DOMAIN q = 1 .. Len(q)
      /\ DOMAIN r = 1 .. Len(q) + 1 /\ Len(r) = Len(q) + 1
      /\ \A i \in DOMAIN q : r[i] = q[i]
      /\ r[Len(q) + 1] = x
  OBVIOUS
<1>. HIDE DEF r
<1>2. r # <<>> /\ Last(r) = x
  BY <1>1 DEF Last
<1>3. DOMAIN r = DOMAIN q \cup {Len(q) + 1}
  BY <1>1
<1>4. ToSet(r) = ToSet(q) \cup {x}
  BY <1>1, <1>3 DEF ToSet
<1>5. IsInjective(q) /\ x \notin ToSet(q) => IsInjective(r)
  BY <1>1, <1>3 DEF IsInjective, ToSet
<1>. QED  BY <1>1, <1>2, <1>4, <1>5 DEF r

\* A sequence is what is before its last element, and that.
LEMMA FrontAndLast ==
  ASSUME NEW E, NEW q \in Seq(E), q # <<>>
  PROVE  /\ Front(q) \in Seq(E) /\ Last(q) \in E /\ Last(q) \in ToSet(q)
         /\ IsInjective(q) => IsInjective(Front(q)) /\ ToSet(Front(q)) = ToSet(q) \ {Last(q)}
<1> DEFINE r == Front(q)
<1>1. Len(q) \in Nat \ {0} /\ DOMAIN q = 1 .. Len(q)
  OBVIOUS
<1>2. /\ r \in Seq(E) /\ DOMAIN r = 1 .. Len(q) - 1
      /\ \A i \in DOMAIN r : r[i] = q[i]
  BY <1>1 DEF Front
<1>. HIDE DEF r
<1>3. DOMAIN q = DOMAIN r \cup {Len(q)} /\ Len(q) \notin DOMAIN r
  BY <1>1, <1>2
<1>4. Last(q) \in E /\ Last(q) \in ToSet(q) /\ Last(q) = q[Len(q)]
  <2>1. Last(q) = q[Len(q)] /\ Len(q) \in DOMAIN q /\ q[Len(q)] \in E
    BY <1>1 DEF Last
  <2>. QED  BY <2>1, Zenon DEF ToSet
<1>5. IsInjective(q) => IsInjective(r)
  BY <1>2, <1>3, Zenon DEF IsInjective
<1>6. ASSUME IsInjective(q) PROVE ToSet(r) = ToSet(q) \ {Last(q)}
  <2>1. \A i \in DOMAIN r : q[i] # Last(q)
    BY <1>3, <1>4, <1>6, Zenon DEF IsInjective
  <2>2. ToSet(r) \subseteq ToSet(q) \ {Last(q)}
    BY <1>2, <1>3, <2>1, Zenon DEF ToSet
  <2>3. ToSet(q) \ {Last(q)} \subseteq ToSet(r)
    BY <1>2, <1>3, <1>4, Zenon DEF ToSet
  <2>. QED  BY <2>2, <2>3, Zenon
<1>. QED  BY <1>2, <1>4, <1>5, <1>6 DEF r

\* Where an element of a concatenation comes from, and where it goes.
LEMMA ConcatenatedAt ==
  ASSUME NEW E, NEW p \in Seq(E), NEW q \in Seq(E)
  PROVE  /\ \A i \in DOMAIN p : i \in DOMAIN (p \o q) /\ (p \o q)[i] = p[i]
         /\ \A i \in DOMAIN q : i + Len(p) \in DOMAIN (p \o q) /\ (p \o q)[i + Len(p)] = q[i]
         /\ \A i \in DOMAIN (p \o q) :
              /\ i \in Int
              /\ \/ i \in DOMAIN p /\ (p \o q)[i] = p[i]
                 \/ i - Len(p) \in DOMAIN q /\ (p \o q)[i] = q[i - Len(p)]
<1>1. /\ DOMAIN (p \o q) = 1 .. Len(p) + Len(q)
      /\ \A i \in 1 .. Len(p) + Len(q) :
           (p \o q)[i] = IF i =< Len(p) THEN p[i] ELSE q[i - Len(p)]
      /\ Len(p) \in Nat /\ Len(q) \in Nat
      /\ DOMAIN p = 1 .. Len(p) /\ DOMAIN q = 1 .. Len(q)
  OBVIOUS
<1>. QED  BY <1>1

\* One queue behind another holds the tasks of both.
LEMMA Concatenated ==
  ASSUME NEW E, NEW p \in Seq(E), NEW q \in Seq(E)
  PROVE  /\ p \o q \in Seq(E)
         /\ TaskSet(p \o q) = TaskSet(p) \cup TaskSet(q)
         /\ Distinct(p) /\ Distinct(q) /\ TaskSet(p) \cap TaskSet(q) = {} => Distinct(p \o q)
<1>1. Len(p) \in Nat
  OBVIOUS
<1>2. /\ \A i \in DOMAIN p : i \in DOMAIN (p \o q) /\ (p \o q)[i] = p[i]
      /\ \A i \in DOMAIN q : i + Len(p) \in DOMAIN (p \o q) /\ (p \o q)[i + Len(p)] = q[i]
      /\ \A i \in DOMAIN (p \o q) :
           /\ i \in Int
           /\ \/ i \in DOMAIN p /\ (p \o q)[i] = p[i]
              \/ i - Len(p) \in DOMAIN q /\ (p \o q)[i] = q[i - Len(p)]
  BY ConcatenatedAt
<1>3. TaskSet(p \o q) = TaskSet(p) \cup TaskSet(q)
  <2>1. ASSUME NEW i \in DOMAIN (p \o q)
        PROVE  (p \o q)[i].task \in TaskSet(p) \cup TaskSet(q)
    BY <1>2 DEF TaskSet
  <2>2. ASSUME NEW i \in DOMAIN p
        PROVE  p[i].task \in TaskSet(p \o q)
    BY <1>2 DEF TaskSet
  <2>3. ASSUME NEW i \in DOMAIN q
        PROVE  q[i].task \in TaskSet(p \o q)
    BY <1>2 DEF TaskSet
  <2>4. TaskSet(p \o q) \subseteq TaskSet(p) \cup TaskSet(q)
    BY <2>1 DEF TaskSet
  <2>5. TaskSet(p) \cup TaskSet(q) \subseteq TaskSet(p \o q)
    BY <2>2, <2>3 DEF TaskSet
  <2>. QED  BY <2>4, <2>5
<1>4. ASSUME Distinct(p), Distinct(q), TaskSet(p) \cap TaskSet(q) = {}
      PROVE  Distinct(p \o q)
  <2> SUFFICES ASSUME NEW i \in DOMAIN (p \o q), NEW j \in DOMAIN (p \o q),
                      (p \o q)[i].task = (p \o q)[j].task
               PROVE  i = j
    BY DEF Distinct
  <2>1. i \in Int /\ j \in Int /\ Len(p) \in Int
    BY <1>1, <1>2
  <2>2. \A k \in DOMAIN p, l \in DOMAIN q : p[k].task # q[l].task
    BY <1>4 DEF TaskSet
  <2>3. CASE i \in DOMAIN p /\ j \in DOMAIN p
    BY <2>3, <1>2, <1>4 DEF Distinct
  <2>4. CASE i \notin DOMAIN p /\ j \notin DOMAIN p
    <3>1. i - Len(p) = j - Len(p)
      BY <2>4, <1>2, <1>4 DEF Distinct
    <3>. QED  BY <3>1, <2>1
  <2>5. CASE i \in DOMAIN p /\ j \notin DOMAIN p
    BY <2>5, <2>2, <1>2
  <2>6. CASE i \notin DOMAIN p /\ j \in DOMAIN p
    BY <2>6, <2>2, <1>2
  <2>. QED  BY <2>3, <2>4, <2>5, <2>6
<1>5. p \o q \in Seq(E)
  OBVIOUS
<1>. QED  BY <1>3, <1>4, <1>5

\* A task joins a queue at its end.
LEMMA Joined ==
  ASSUME NEW E, NEW q \in Seq(E), NEW e \in E
  PROVE  /\ Append(q, e) \in Seq(E)
         /\ TaskSet(Append(q, e)) = TaskSet(q) \cup {e.task}
         /\ Distinct(q) /\ e.task \notin TaskSet(q) => Distinct(Append(q, e))
<1> DEFINE r == Append(q, e)
<1>1. /\ r \in Seq(E) /\ Len(q) \in Nat /\ DOMAIN q = 1 .. Len(q)
      /\ DOMAIN r = 1 .. Len(q) + 1
      /\ \A i \in DOMAIN q : r[i] = q[i]
      /\ r[Len(q) + 1] = e
  OBVIOUS
<1>. HIDE DEF r
<1>2. DOMAIN r = DOMAIN q \cup {Len(q) + 1}
  BY <1>1
<1>3. TaskSet(r) = TaskSet(q) \cup {e.task}
  BY <1>1, <1>2 DEF TaskSet
<1>4. Distinct(q) /\ e.task \notin TaskSet(q) => Distinct(r)
  BY <1>1, <1>2 DEF Distinct, TaskSet
<1>. QED  BY <1>1, <1>3, <1>4 DEF r

\* Entries may be replaced by others of the same tasks.
LEMMA SameTasks ==
  ASSUME NEW p, NEW q, DOMAIN p = DOMAIN q, \A i \in DOMAIN q : p[i].task = q[i].task
  PROVE  TaskSet(p) = TaskSet(q) /\ (Distinct(q) => Distinct(p))
BY DEF TaskSet, Distinct

\* What stands on a queue is a task.
LEMMA QueuesHoldTasks ==
  /\ \A q \in Seq(Entries) : \A i \in DOMAIN q : q[i] \in Entries /\ q[i].task \in Tasks
  /\ \A q \in Seq(Waiters) : \A i \in DOMAIN q : q[i] \in Waiters /\ q[i].task \in Tasks
<1>1. \A q \in Seq(Entries) : \A i \in DOMAIN q : q[i] \in Entries
  OBVIOUS
<1>2. \A q \in Seq(Waiters) : \A i \in DOMAIN q : q[i] \in Waiters
  OBVIOUS
<1>3. \A e \in Entries : e.task \in Tasks
  BY DEF Entries
<1>4. \A e \in Waiters : e.task \in Tasks
  BY DEF Waiters
<1>. QED  BY <1>1, <1>2, <1>3, <1>4

-----------------------------------------------------------------------------
(* The queues an operation leaves.                                           *)

\* What purge_scope leaves of a queue: everything but the tasks of s.
LEMMA WithoutScope ==
  ASSUME NEW E, NEW q \in Seq(E), TaskSet(q) \subseteq Tasks, NEW s \in Scopes
  PROVE  /\ Without(q, s) \in Seq(E)
         /\ TaskSet(Without(q, s)) = TaskSet(q) \ TasksOf(s)
         /\ Distinct(q) => Distinct(Without(q, s))
<1> DEFINE kept == DOMAIN q \ Of(q, s)
<1>1. /\ Only(q, kept) \in Seq(E)
      /\ TaskSet(Only(q, kept)) = {q[i].task : i \in kept}
      /\ Distinct(q) => Distinct(Only(q, kept))
  BY OnlyKeeps
<1>2. {q[i].task : i \in kept} = TaskSet(q) \ TasksOf(s)
  BY DEF TaskSet, TasksOf, Of
<1>. QED  BY <1>1, <1>2 DEF Without

\* The queue cancel_scope leaves: the tasks of s that never ran are gone from
\* it, the parked ones of s have come to it.
LEMMA CancelledQueues ==
  ASSUME TypeOK, QueuedOnce, NEW s \in Scopes
  PROVE  /\ CancelledQueue(s) \in Seq(Entries)
         /\ TaskSet(CancelledQueue(s)) =
              (TaskSet(runnable) \ NeverRan(s)) \cup (TaskSet(parked) \cap TasksOf(s))
         /\ Distinct(CancelledQueue(s))
<1> DEFINE kept == Only(runnable, DOMAIN runnable \ Fresh(s))
           woken == Only(parked, Of(parked, s))
           left == [i \in DOMAIN kept |->
                      IF owner[kept[i].task] = s THEN Wake(kept[i].task) ELSE kept[i]]
           come == [i \in DOMAIN woken |-> Wake(woken[i].task)]
<1>1. runnable \in Seq(Entries) /\ parked \in Seq(Waiters)
  BY DEF TypeOK
<1>2. /\ kept \in Seq(Entries) /\ Distinct(kept)
      /\ TaskSet(kept) = {runnable[i].task : i \in DOMAIN runnable \ Fresh(s)}
  <2> DEFINE I == DOMAIN runnable \ Fresh(s)
  <2>1. I \in SUBSET DOMAIN runnable /\ Distinct(runnable)
    BY DEF QueuedOnce
  <2>2. /\ Only(runnable, I) \in Seq(Entries) /\ Distinct(Only(runnable, I))
        /\ TaskSet(Only(runnable, I)) = {runnable[i].task : i \in I}
    <3>. HIDE DEF I
    <3>. QED  BY <1>1, <2>1, OnlyKeeps
  <2>. QED  BY <2>2
<1>3. /\ woken \in Seq(Waiters) /\ Distinct(woken)
      /\ TaskSet(woken) = {parked[i].task : i \in Of(parked, s)}
  <2> DEFINE I == Of(parked, s)
  <2>1. I \in SUBSET DOMAIN parked
    BY DEF Of
  <2>2. Distinct(parked)
    BY DEF QueuedOnce
  <2>3. /\ Only(parked, I) \in Seq(Waiters) /\ Distinct(Only(parked, I))
        /\ TaskSet(Only(parked, I)) = {parked[i].task : i \in I}
    <3>. HIDE DEF I
    <3>. QED  BY <1>1, <2>1, <2>2, OnlyKeeps
  <2>. QED  BY <2>3
<1>4. \A i \in DOMAIN runnable : runnable[i] \in Entries /\ runnable[i].task \in Tasks
  BY <1>1, QueuesHoldTasks
<1>5. \A i \in DOMAIN parked : parked[i].task \in Tasks
  BY <1>1, QueuesHoldTasks
<1>6. TaskSet(kept) = TaskSet(runnable) \ NeverRan(s)
  <2>1. ASSUME NEW i \in DOMAIN runnable
        PROVE  runnable[i].task \in NeverRan(s) <=> i \in Fresh(s)
    BY <1>4 DEF QueuedOnce, Distinct, NeverRan, Fresh, Of
  <2>2. TaskSet(kept) = {runnable[i].task : i \in DOMAIN runnable \ Fresh(s)}
    BY <1>2
  <2>. HIDE DEF kept
  <2>3. ASSUME NEW t  PROVE t \in TaskSet(kept) <=> t \in TaskSet(runnable) \ NeverRan(s)
    BY <2>1, <2>2, Zenon DEF TaskSet
  <2>. QED  BY <2>3, Zenon
<1>7. TaskSet(woken) = TaskSet(parked) \cap TasksOf(s)
  BY <1>3, <1>5 DEF TaskSet, TasksOf, Of
<1>. HIDE DEF kept, woken
<1>8. \A t \in Tasks : Wake(t) \in Entries /\ Wake(t).task = t
  BY DEF Wake, Entries
<1>9. left \in Seq(Entries) /\ TaskSet(left) = TaskSet(kept) /\ Distinct(left)
  <2>1. \A i \in DOMAIN kept : kept[i] \in Entries /\ kept[i].task \in Tasks
    BY <1>2, QueuesHoldTasks
  <2>2. DOMAIN left = DOMAIN kept /\ \A i \in DOMAIN kept : left[i].task = kept[i].task
    BY <2>1, <1>8
  <2>3. left \in Seq(Entries)
    BY <1>2, <1>8, <2>1
  <2>. QED  BY <1>2, <2>2, <2>3, SameTasks
<1>10. come \in Seq(Entries) /\ TaskSet(come) = TaskSet(woken) /\ Distinct(come)
  <2>1. \A i \in DOMAIN woken : woken[i].task \in Tasks
    BY <1>3, QueuesHoldTasks
  <2>2. DOMAIN come = DOMAIN woken /\ \A i \in DOMAIN woken : come[i].task = woken[i].task
    BY <2>1, <1>8
  <2>3. come \in Seq(Entries)
    BY <1>3, <1>8, <2>1
  <2>. QED  BY <1>3, <2>2, <2>3, SameTasks
<1>11. CancelledQueue(s) = left \o come
  BY DEF CancelledQueue, kept, woken
<1>12. TaskSet(left) \cap TaskSet(come) = {}
  BY <1>6, <1>7, <1>9, <1>10 DEF QueuedOnce
<1>. HIDE DEF left, come
<1>. QED  BY <1>6, <1>7, <1>9, <1>10, <1>11, <1>12, Concatenated

\* cancel_scope: the unstarted tasks of s are failed and read, with the next
\* occurrence numbers; everybody else keeps its cell and its number.
LEMMA CancelScopeSettles ==
  ASSUME TypeOK, QueuedOnce, NEW s \in Scopes, NEW seen \in SUBSET Tasks, CancelScope(s, seen)
  PROVE  /\ cell' = [t \in Tasks |-> IF t \in Unstarted(s) THEN "failed" ELSE cell[t]]
         /\ observed' = [t \in Tasks |-> observed[t] \/ t \in Unstarted(s) \cup seen]
         /\ order' \in [Tasks -> Nat]
         /\ \A t \in Tasks : IF t \in Unstarted(s) THEN order'[t] < failures' ELSE order'[t] = order[t]
         /\ failures' \in Nat /\ failures =< failures'
         /\ runnable' = CancelledQueue(s)
         /\ parked' = Without(parked, s)
<1> DEFINE fresh == Only(runnable, Fresh(s))
           settled == Ascending(Pending(s)) \o [i \in DOMAIN fresh |-> fresh[i].task]
           Position(t) == CHOOSE i \in DOMAIN settled : settled[i] = t
<1>1. IsFiniteSet(Pending(s)) /\ Pending(s) \in SUBSET Int /\ Pending(s) \in SUBSET Tasks
  <2>1. IsFiniteSet(Tasks)
    BY FS_Interval, BoundsAssumption DEF Tasks
  <2>2. Pending(s) \in SUBSET Tasks
    BY DEF Pending, TasksOf
  <2>3. Tasks \in SUBSET Int
    BY BoundsAssumption DEF Tasks
  <2>. QED  BY <2>1, <2>2, <2>3, FS_Subset
<1>2. /\ Cardinality(Pending(s)) \in Nat
      /\ Ascending(Pending(s)) \in [1 .. Cardinality(Pending(s)) -> Pending(s)]
      /\ \A x \in Pending(s) : \E k \in 1 .. Cardinality(Pending(s)) : Ascending(Pending(s))[k] = x
  BY <1>1, AscendingEnumerates
<1>3. Ascending(Pending(s)) \in Seq(Tasks) /\ ToSet(Ascending(Pending(s))) = Pending(s)
  BY <1>1, <1>2 DEF ToSet
<1>4. fresh \in Seq(Entries) /\ TaskSet(fresh) = NeverRan(s)
  <2>1. runnable \in Seq(Entries) /\ Fresh(s) \in SUBSET DOMAIN runnable
    BY DEF TypeOK, Fresh, Of
  <2>. QED  BY <2>1, OnlyKeeps DEF NeverRan
<1>. HIDE DEF fresh
<1>5. /\ [i \in DOMAIN fresh |-> fresh[i].task] \in Seq(Tasks)
      /\ ToSet([i \in DOMAIN fresh |-> fresh[i].task]) = NeverRan(s)
  <2>1. \A i \in DOMAIN fresh : fresh[i].task \in Tasks
    BY <1>4, QueuesHoldTasks
  <2>2. ToSet([i \in DOMAIN fresh |-> fresh[i].task]) = TaskSet(fresh)
    BY DEF ToSet, TaskSet
  <2>. QED  BY <1>4, <2>1, <2>2
<1>6. settled \in Seq(Tasks) /\ ToSet(settled) = Unstarted(s)
  <2> DEFINE p == Ascending(Pending(s))
             q == [i \in DOMAIN fresh |-> fresh[i].task]
  <2>1. p \in Seq(Tasks) /\ q \in Seq(Tasks)
    BY <1>3, <1>5
  <2>. HIDE DEF p, q
  <2>2. /\ \A i \in DOMAIN p : i \in DOMAIN (p \o q) /\ (p \o q)[i] = p[i]
        /\ \A i \in DOMAIN q : i + Len(p) \in DOMAIN (p \o q) /\ (p \o q)[i + Len(p)] = q[i]
        /\ \A i \in DOMAIN (p \o q) :
             \/ i \in DOMAIN p /\ (p \o q)[i] = p[i]
             \/ i - Len(p) \in DOMAIN q /\ (p \o q)[i] = q[i - Len(p)]
    BY <2>1, ConcatenatedAt
  <2>3. ToSet(p) \cup ToSet(q) \subseteq ToSet(p \o q)
    BY <2>2 DEF ToSet
  <2>4. ToSet(p \o q) \subseteq ToSet(p) \cup ToSet(q)
    BY <2>2 DEF ToSet
  <2>5. p \o q \in Seq(Tasks)
    BY <2>1
  <2>. QED  BY <2>3, <2>4, <2>5, <1>3, <1>5 DEF p, q, Unstarted
<1>. HIDE DEF settled
<1>7. \A t \in Unstarted(s) : Position(t) \in 1 .. Len(settled)
  BY <1>6 DEF ToSet
<1>8. /\ cell' = [t \in Tasks |-> IF t \in ToSet(settled) THEN "failed" ELSE cell[t]]
      /\ observed' = [t \in Tasks |-> observed[t] \/ t \in ToSet(settled) \cup seen]
      /\ order' = [t \in Tasks |-> IF t \in ToSet(settled) THEN failures + Position(t) - 1 ELSE order[t]]
      /\ failures' = failures + Len(settled)
      /\ runnable' = CancelledQueue(s)
      /\ parked' = Without(parked, s)
  BY DEF CancelScope, settled, fresh
<1>9. failures \in Nat /\ order \in [Tasks -> Nat] /\ Len(settled) \in Nat
  BY <1>6 DEF TypeOK
<1>. HIDE DEF Position
<1>10. failures' \in Nat /\ failures =< failures'
  BY <1>8, <1>9
<1>11. \A t \in Tasks : IF t \in Unstarted(s) THEN order'[t] \in Nat /\ order'[t] < failures'
                                               ELSE order'[t] = order[t]
  BY <1>6, <1>7, <1>8, <1>9
<1>12. order' \in [Tasks -> Nat]
  BY <1>8, <1>9, <1>11
<1>. QED  BY <1>6, <1>8, <1>10, <1>11, <1>12

\* sweep_scope: the pending tasks of s run, and wait behind the others.
LEMMA PendingBegin ==
  ASSUME TypeOK, QueuedOnce, \A t \in Held : cell[t] = "running",
         NEW s \in Scopes \cup {NoScope}, BeginPending(s)
  PROVE  /\ cell' = [t \in Tasks |-> IF t \in Pending(s) THEN "running" ELSE cell[t]]
         /\ runnable' \in Seq(Entries) /\ Distinct(runnable')
         /\ TaskSet(runnable') = TaskSet(runnable) \cup Pending(s)
<1> DEFINE begun == Ascending(Pending(s))
           Entry(t) == [task |-> t, resume |-> "none", cancelled |-> FALSE]
           new == [i \in DOMAIN begun |-> Entry(begun[i])]
<1>1. IsFiniteSet(Pending(s)) /\ Pending(s) \in SUBSET Int /\ Pending(s) \in SUBSET Tasks
  <2>1. IsFiniteSet(Tasks)
    BY FS_Interval, BoundsAssumption DEF Tasks
  <2>2. Pending(s) \in SUBSET Tasks
    BY DEF Pending, TasksOf
  <2>3. Tasks \in SUBSET Int
    BY BoundsAssumption DEF Tasks
  <2>. QED  BY <2>1, <2>2, <2>3, FS_Subset
<1>2. /\ Cardinality(Pending(s)) \in Nat
      /\ begun \in [1 .. Cardinality(Pending(s)) -> Pending(s)]
      /\ \A j, k \in 1 .. Cardinality(Pending(s)) : begun[j] = begun[k] => j = k
      /\ \A x \in Pending(s) : \E k \in 1 .. Cardinality(Pending(s)) : begun[k] = x
  BY <1>1, AscendingEnumerates
<1>. HIDE DEF begun
<1>3. DOMAIN new = 1 .. Cardinality(Pending(s)) /\ \A i \in DOMAIN new : new[i].task = begun[i]
  BY <1>2
<1>4. new \in Seq(Entries)
  <2>1. \A t \in Tasks : Entry(t) \in Entries
    BY DEF Entries
  <2>2. \A i \in 1 .. Cardinality(Pending(s)) : begun[i] \in Tasks
    BY <1>1, <1>2
  <2>. HIDE DEF Entry
  <2>. QED  BY <1>2, <2>1, <2>2
<1>. HIDE DEF new
<1>5. TaskSet(new) = Pending(s) /\ Distinct(new)
  BY <1>2, <1>3 DEF TaskSet, Distinct
<1>6. TaskSet(runnable) \cap TaskSet(new) = {}
  BY <1>5 DEF Held, Pending
<1>7. runnable \in Seq(Entries) /\ Distinct(runnable)
  BY DEF TypeOK, QueuedOnce
<1>8. /\ runnable' = runnable \o new
      /\ cell' = [t \in Tasks |-> IF t \in Pending(s) THEN "running" ELSE cell[t]]
  BY DEF BeginPending, new, begun
<1>. QED  BY <1>4, <1>5, <1>6, <1>7, <1>8, Concatenated

\* A turn of the drive loop: some sleeps are over, and some jobs in some order;
\* "queue" is what is runnable then, and entry i of it is picked.
Turn(queue, i) ==
  \E expired \in SUBSET {k \in DOMAIN parked : parked[k].wait = "timer"},
     jobs \in SUBSET {k \in DOMAIN parked : parked[k].wait = "job"} :
  \E finished \in SetToSeqs(jobs), result \in [jobs -> {"value", "error"}] :
    /\ queue = Absorbed(expired, finished, result) /\ queue # <<>>
    /\ i = Picked(Last(drivers).goal, queue)
    /\ runnable' = Only(queue, DOMAIN queue \ {i})
    /\ parked' = Only(parked, DOMAIN parked \ (expired \cup jobs))

\* absorb_completions and pick_runnable: what was waited for joins the queue,
\* and one task leaves it; nobody is lost and nobody is doubled.
LEMMA TurnTakesOne ==
  ASSUME TypeOK, QueuedOnce, NEW queue, NEW i, Turn(queue, i)
  PROVE  /\ queue[i].task \in Held /\ queue[i].cancelled \in BOOLEAN
         /\ runnable' \in Seq(Entries) /\ parked' \in Seq(Waiters)
         /\ Distinct(runnable') /\ Distinct(parked')
         /\ TaskSet(runnable') \cap TaskSet(parked') = {}
         /\ TaskSet(runnable') \cup TaskSet(parked') = Held \ {queue[i].task}
<1> DEFINE rest == runnable'
           left == parked'
           g == Last(drivers).goal
<1>a. PICK expired \in SUBSET {k \in DOMAIN parked : parked[k].wait = "timer"},
           jobs \in SUBSET {k \in DOMAIN parked : parked[k].wait = "job"} :
        \E finished \in SetToSeqs(jobs), result \in [jobs -> {"value", "error"}] :
          /\ queue = Absorbed(expired, finished, result) /\ queue # <<>>
          /\ i = Picked(g, queue)
          /\ rest = Only(queue, DOMAIN queue \ {i})
          /\ left = Only(parked, DOMAIN parked \ (expired \cup jobs))
  BY DEF Turn
<1>b. PICK finished \in SetToSeqs(jobs), result \in [jobs -> {"value", "error"}] :
          /\ queue = Absorbed(expired, finished, result) /\ queue # <<>>
          /\ i = Picked(g, queue)
          /\ rest = Only(queue, DOMAIN queue \ {i})
          /\ left = Only(parked, DOMAIN parked \ (expired \cup jobs))
  BY <1>a
<1>0. /\ rest = Only(queue, DOMAIN queue \ {i})
      /\ left = Only(parked, DOMAIN parked \ (expired \cup jobs))
      /\ queue = Absorbed(expired, finished, result) /\ queue # <<>>
      /\ i = Picked(g, queue)
  BY <1>b
<1>. HIDE DEF rest, left, g
<1> DEFINE At(I) == {parked[k].task : k \in I}
           late == Ascending(expired)
           Resume(k, r) == [task |-> parked[k].task, resume |-> r, cancelled |-> FALSE]
           slept == [k \in DOMAIN late |-> Resume(late[k], "value")]
           over == [k \in DOMAIN finished |-> Resume(finished[k], result[finished[k]])]
<1>1. /\ runnable \in Seq(Entries) /\ Distinct(runnable)
      /\ parked \in Seq(Waiters) /\ Distinct(parked)
  BY DEF TypeOK, QueuedOnce
<1>2. /\ expired \in SUBSET DOMAIN parked /\ IsFiniteSet(expired) /\ expired \in SUBSET Int
      /\ jobs \in SUBSET DOMAIN parked /\ IsFiniteSet(jobs)
      /\ expired \cap jobs = {}
  <2>. DEFINE n == Len(parked)
  <2>0. n \in Nat /\ DOMAIN parked = 1 .. n
    BY <1>1
  <2>1. IsFiniteSet(1 .. n)
    BY <2>0, FS_Interval
  <2>2. expired \in SUBSET DOMAIN parked /\ jobs \in SUBSET DOMAIN parked /\ expired \cap jobs = {}
    BY <1>0
  <2>3. IsFiniteSet(expired) /\ IsFiniteSet(jobs)
    BY <2>0, <2>1, <2>2, FS_Subset
  <2>4. expired \in SUBSET Int
    BY <2>0, <2>2
  <2>. QED  BY <2>2, <2>3, <2>4
<1>3. \A k \in DOMAIN parked : parked[k].task \in Tasks
  BY <1>1, QueuesHoldTasks
<1>4. /\ Cardinality(expired) \in Nat
      /\ late \in [1 .. Cardinality(expired) -> expired]
      /\ \A j, k \in 1 .. Cardinality(expired) : late[j] = late[k] => j = k
      /\ \A x \in expired : \E k \in 1 .. Cardinality(expired) : late[k] = x
  BY <1>2, AscendingEnumerates
<1>5. /\ Cardinality(jobs) \in Nat
      /\ finished \in [1 .. Cardinality(jobs) -> jobs]
      /\ \A j, k \in 1 .. Cardinality(jobs) : finished[j] = finished[k] => j = k
      /\ \A x \in jobs : \E k \in 1 .. Cardinality(jobs) : finished[k] = x
  <2>1. /\ Cardinality(jobs) \in Nat
        /\ finished \in [1 .. Cardinality(jobs) -> jobs]
        /\ \A j, k \in 1 .. Cardinality(jobs) : finished[j] = finished[k] => j = k
    BY <1>0, <1>2, FS_CardinalityType DEF SetToSeqs
  <2>2. finished \in Injection(1 .. Cardinality(jobs), jobs)
    BY <2>1 DEF Injection, IsInjective
  <2>3. Cardinality(1 .. Cardinality(jobs)) = Cardinality(jobs)
    BY <2>1, FS_Interval
  <2>4. finished \in Surjection(1 .. Cardinality(jobs), jobs)
    BY <1>2, <2>2, <2>3, FS_Injection
  <2>. QED  BY <2>1, <2>4 DEF Surjection
<1>. HIDE DEF late
<1>6. /\ slept \in Seq(Entries) /\ Distinct(slept) /\ TaskSet(slept) = At(expired)
  <2>1. DOMAIN slept = 1 .. Cardinality(expired)
        /\ \A k \in 1 .. Cardinality(expired) : slept[k].task = parked[late[k]].task
    BY <1>4
  <2>2. \A k \in 1 .. Cardinality(expired) : Resume(late[k], "value") \in Entries
    <3>1. \A k \in 1 .. Cardinality(expired) : parked[late[k]].task \in Tasks
      BY <1>2, <1>3, <1>4
    <3>. QED  BY <3>1 DEF Entries
  <2>3. slept \in Seq(Entries)
    <3>. HIDE DEF Resume
    <3>. QED  BY <1>4, <2>2
  <2>. HIDE DEF slept
  <2>4. TaskSet(slept) \subseteq At(expired)
    BY <1>4, <2>1 DEF TaskSet
  <2>5. \A x \in expired : parked[x].task \in TaskSet(slept)
    <3> SUFFICES ASSUME NEW x \in expired PROVE parked[x].task \in TaskSet(slept)
      OBVIOUS
    <3>1. PICK k \in 1 .. Cardinality(expired) : late[k] = x
      BY <1>4
    <3>. QED  BY <2>1, <3>1 DEF TaskSet
  <2>6. Distinct(slept)
    <3>1. \A k \in 1 .. Cardinality(expired) : late[k] \in DOMAIN parked
      BY <1>2, <1>4
    <3>2. \A j, k \in 1 .. Cardinality(expired) : slept[j].task = slept[k].task => late[j] = late[k]
      BY <1>1, <2>1, <3>1 DEF Distinct
    <3>. QED  BY <1>4, <2>1, <3>2 DEF Distinct
  <2>. QED  BY <2>3, <2>4, <2>5, <2>6
<1>7. /\ over \in Seq(Entries) /\ Distinct(over) /\ TaskSet(over) = At(jobs)
  <2>1. DOMAIN over = 1 .. Cardinality(jobs)
        /\ \A k \in 1 .. Cardinality(jobs) : over[k].task = parked[finished[k]].task
    BY <1>5
  <2>2. \A k \in 1 .. Cardinality(jobs) : Resume(finished[k], result[finished[k]]) \in Entries
    <3>1. \A k \in 1 .. Cardinality(jobs) : parked[finished[k]].task \in Tasks
      BY <1>2, <1>3, <1>5
    <3>2. \A k \in 1 .. Cardinality(jobs) : result[finished[k]] \in {"value", "error"}
      BY <1>0, <1>5
    <3>. QED  BY <3>1, <3>2 DEF Entries
  <2>3. over \in Seq(Entries)
    <3>. HIDE DEF Resume
    <3>. QED  BY <1>5, <2>2
  <2>. HIDE DEF over
  <2>4. TaskSet(over) \subseteq At(jobs)
    BY <1>5, <2>1 DEF TaskSet
  <2>5. \A x \in jobs : parked[x].task \in TaskSet(over)
    <3> SUFFICES ASSUME NEW x \in jobs PROVE parked[x].task \in TaskSet(over)
      OBVIOUS
    <3>1. PICK k \in 1 .. Cardinality(jobs) : finished[k] = x
      BY <1>5
    <3>. QED  BY <2>1, <3>1 DEF TaskSet
  <2>6. Distinct(over)
    <3>1. \A k \in 1 .. Cardinality(jobs) : finished[k] \in DOMAIN parked
      BY <1>2, <1>5
    <3>2. \A j, k \in 1 .. Cardinality(jobs) : over[j].task = over[k].task => finished[j] = finished[k]
      BY <1>1, <2>1, <3>1 DEF Distinct
    <3>. QED  BY <1>5, <2>1, <3>2 DEF Distinct
  <2>. QED  BY <2>3, <2>4, <2>5, <2>6
<1>8. queue = (runnable \o slept) \o over
  BY <1>0 DEF Absorbed, slept, over, late
<1>. HIDE DEF slept, over
<1>9. At(expired) \subseteq TaskSet(parked) /\ At(jobs) \subseteq TaskSet(parked) /\ At(expired) \cap At(jobs) = {}
  BY <1>1, <1>2 DEF TaskSet, Distinct
<1>. HIDE DEF At
<1>10. /\ runnable \o slept \in Seq(Entries) /\ Distinct(runnable \o slept)
       /\ TaskSet(runnable \o slept) = TaskSet(runnable) \cup At(expired)
  <2>1. TaskSet(runnable) \cap TaskSet(slept) = {}
    BY <1>6, <1>9 DEF QueuedOnce
  <2>. QED  BY <1>1, <1>6, <2>1, Concatenated
<1>11. /\ queue \in Seq(Entries) /\ Distinct(queue)
       /\ TaskSet(queue) = TaskSet(runnable) \cup At(expired) \cup At(jobs)
  <2>1. TaskSet(runnable \o slept) \cap TaskSet(over) = {}
    BY <1>7, <1>9, <1>10 DEF QueuedOnce
  <2>. DEFINE first == runnable \o slept
  <2>. HIDE DEF first
  <2>2. first \in Seq(Entries) /\ Distinct(first) /\ TaskSet(first) \cap TaskSet(over) = {}
    BY <1>10, <2>1 DEF first
  <2>3. queue = first \o over /\ TaskSet(first) = TaskSet(runnable) \cup At(expired)
    BY <1>8, <1>10 DEF first
  <2>. QED  BY <1>7, <2>2, <2>3, Concatenated
<1>12. i \in DOMAIN queue
  <2>1. 1 \in DOMAIN queue
    BY <1>0, <1>11
  <2>2. CASE g.kind = "value" /\ g.id \in TaskSet(queue)
    BY <1>0, <2>2 DEF Picked, TaskSet
  <2>. QED  BY <1>0, <2>1, <2>2 DEF Picked
<1>13. /\ rest \in Seq(Entries) /\ Distinct(rest)
       /\ TaskSet(rest) = TaskSet(queue) \ {queue[i].task}
  <2>1. {queue[k].task : k \in DOMAIN queue \ {i}} = TaskSet(queue) \ {queue[i].task}
    BY <1>11, <1>12 DEF TaskSet, Distinct
  <2>. DEFINE others == DOMAIN queue \ {i}
  <2>2. others \in SUBSET DOMAIN queue /\ queue \in Seq(Entries) /\ rest = Only(queue, others)
    BY <1>0, <1>11
  <2>. HIDE DEF others
  <2>4. /\ rest \in Seq(Entries)
        /\ TaskSet(rest) = {queue[k].task : k \in others}
        /\ Distinct(queue) => Distinct(rest)
    BY ONLY <2>2, OnlyKeeps
  <2>3. /\ rest \in Seq(Entries)
        /\ TaskSet(rest) = {queue[k].task : k \in DOMAIN queue \ {i}}
        /\ Distinct(queue) => Distinct(rest)
    BY <2>4 DEF others
  <2>. QED  BY <1>11, <2>1, <2>3
<1>14. /\ left \in Seq(Waiters) /\ Distinct(left)
       /\ TaskSet(left) = TaskSet(parked) \ (At(expired) \cup At(jobs))
  <2>1. {parked[k].task : k \in DOMAIN parked \ (expired \cup jobs)}
          = TaskSet(parked) \ (At(expired) \cup At(jobs))
    BY <1>1, <1>2 DEF TaskSet, Distinct, At
  <2>2. DOMAIN parked \ (expired \cup jobs) \in SUBSET DOMAIN parked
    OBVIOUS
  <2>3. /\ left \in Seq(Waiters)
        /\ TaskSet(left) = {parked[k].task : k \in DOMAIN parked \ (expired \cup jobs)}
        /\ Distinct(parked) => Distinct(left)
    BY <1>0, <1>1, <2>2, OnlyKeeps
  <2>. QED  BY <1>1, <2>1, <2>3
<1>15. queue[i].task \in TaskSet(queue) /\ queue[i].task \notin TaskSet(left) /\ queue[i].task \in Held
  BY <1>9, <1>11, <1>12, <1>14 DEF TaskSet, Held, QueuedOnce
<1>16. queue[i].cancelled \in BOOLEAN
  <2>1. queue[i] \in Entries
    BY <1>11, <1>12, QueuesHoldTasks
  <2>. QED  BY <2>1 DEF Entries
<1>17. TaskSet(rest) \cap TaskSet(left) = {}
  BY <1>9, <1>11, <1>13, <1>14 DEF QueuedOnce
<1>18. TaskSet(rest) \cup TaskSet(left) = Held \ {queue[i].task}
  BY <1>9, <1>11, <1>13, <1>14, <1>15 DEF Held
<1>. QED  BY <1>13, <1>14, <1>15, <1>16, <1>17, <1>18 DEF rest, left

\* first_unobserved_failure: some unread failure of s came first.
LEMMA FirstIsEarliest ==
  ASSUME TypeOK, NEW s \in Scopes, UnobservedFailures(s) # {}
  PROVE  /\ FirstUnobserved(s) \in UnobservedFailures(s)
         /\ \A u \in UnobservedFailures(s) : order[FirstUnobserved(s)] =< order[u]
<1> DEFINE ranks == {order[t] : t \in UnobservedFailures(s)}
<1>1. \A t \in UnobservedFailures(s) : order[t] \in Nat
  BY DEF UnobservedFailures, TasksOf, TypeOK
<1>2. ranks \subseteq Nat /\ ranks # {}
  BY <1>1
<1>. HIDE DEF ranks
<1> DEFINE less == {ss \in Nat \X Nat : ss[1] < ss[2]}
<1>6. IsWellFoundedOn(less, Nat)
  BY NatLessThanWellFounded DEF OpToRel
<1>. HIDE DEF less
<1>3. PICK m \in ranks : \A n \in ranks : <<n, m>> \notin less
  BY <1>2, <1>6, WFMin
<1>4. \A n \in ranks : m =< n
  <2>1. \A k, n \in Nat : k < n => <<k, n>> \in less
    BY DEF less
  <2>2. \A n \in ranks : ~(n < m) /\ n \in Nat /\ m \in Nat
    BY <1>2, <1>3, <2>1
  <2>. QED  BY <2>2
<1>5. \E t \in UnobservedFailures(s) : \A u \in UnobservedFailures(s) : order[t] =< order[u]
  BY <1>4 DEF ranks
<1>. QED  BY <1>5 DEF FirstUnobserved

-----------------------------------------------------------------------------
(* The inductive invariant.                                                  *)

\* The actor at each level of the stack; the slot of the running one is on top.
Levels == 1 .. Len(drivers) + 1
StackAt(i) == IF i =< Len(drivers) THEN drivers[i].cell ELSE current.cell
Stacked == {StackAt(i) : i \in Levels}

\* The root is at the bottom, and no actor stands at two levels.
StackedOnce ==
  /\ StackAt(1) = Root
  /\ \A i, j \in Levels : StackAt(i) = StackAt(j) => i = j
Apart == Stacked \cap Held = {}

\* Whoever waits or stands on the stack has started and has not settled; and
\* whoever has started waits or stands on the stack until its scope exits.
PlacedRun == \A t \in Tasks : t \in Held \cup Stacked => cell[t] = "running"
RunPlaced ==
  \A t \in Tasks : cell[t] = "running" => t \in Held \cup Stacked \/ scope[owner[t]] = "exited"

\* The slot is empty exactly while a drive loop looks for a task.
SlotFits ==
  /\ control \in {"loop", "check"} => current.cell = Idle
  /\ control \in {"user", "enter", "finish", "raised"} => current.cell # Idle

\* A task exists exactly when it has a scope, which was opened.
Owned ==
  \A t \in Tasks :
    /\ cell[t] = "none" <=> owner[t] = NoScope
    /\ owner[t] # NoScope => scope[owner[t]] # "none"

\* The open scopes are the open concurrent calls of the actors on the stack.
OpensOnce ==
  /\ \A a \in Actors : IsInjective(bodies[a])
  /\ \A a, b \in Actors : a # b => ToSet(bodies[a]) \cap ToSet(bodies[b]) = {}
  /\ \A s \in Scopes : scope[s] = "open" <=> \E a \in Actors : s \in ToSet(bodies[a])
  /\ \A a \in Actors : bodies[a] # <<>> => a \in Stacked

\* Level by level: an opener is below the tasks of the scopes it opened.
Below ==
  \A i, j \in Levels :
    StackAt(i) \in Actors /\ StackAt(j) \in Tasks /\ owner[StackAt(j)] \in ToSet(bodies[StackAt(i)])
      => i < j

\* A drive is for a task that exists, or for the innermost scope of its actor.
GoalFits(g, a) ==
  /\ g.kind # "none"
  /\ g.kind = "value" => g.id \in Tasks /\ cell[g.id] # "none"
  /\ g.kind # "value" => bodies[a] # <<>> /\ g.id = Last(bodies[a])
  /\ g.kind = "teardown" => g.then # "none"
GoalsFit ==
  /\ \A i \in DOMAIN drivers : GoalFits(drivers[i].goal, drivers[i].cell)
  /\ control \in {"enter", "finish", "raised"} => GoalFits(goal, current.cell)

\* Nobody is set aside while cancelled, and what a cancelled task opened is empty.
CancelledAlone ==
  /\ \A i \in DOMAIN drivers : ~drivers[i].cancelled
  /\ current.cancelled =>
       current.cell \in Actors /\ \A s \in ToSet(bodies[current.cell]) : TasksOf(s) = {}

\* A drive that returned reached its goal; one that failed has a signal.
Reached ==
  /\ control = "enter" => signal = "none"
  /\ control = "finish" => Settled(goal, cell) /\ (goal.kind # "value" => Pending(goal.id) = {})
  /\ control = "raised" => signal # "none" /\ (signal = "panic" \/ current.cancelled)

\* Failures are numbered as they occur.
Numbered ==
  /\ \A t \in Tasks : cell[t] = "failed" => order[t] < failures
  /\ \A t, u \in Tasks :
       /\ cell[t] = "failed" /\ ~observed[t]
       /\ cell[u] = "failed" /\ ~observed[u]
       /\ order[t] = order[u]
       => t = u

\* A scope has an outcome once it has exited.
Concluded == \A s \in Scopes : scope[s] # "exited" => outcome[s] = "open"

\* A scope whose failure was rethrown is being torn down until it exits.
Torn(s) ==
  \/ control \in {"enter", "finish", "raised"} /\ goal.kind = "teardown" /\ goal.id = s
  \/ \E i \in DOMAIN drivers : drivers[i].goal.kind = "teardown" /\ drivers[i].goal.id = s
TornDown == \A s \in Scopes : rethrown[s] # 0 /\ scope[s] # "exited" => Torn(s)

\* What holds of the tasks and scopes, and what holds of the scheduler's place.
Standing ==
  /\ QueuedOnce /\ StackedOnce /\ Apart /\ PlacedRun /\ RunPlaced /\ Owned /\ OpensOnce
  /\ Below
  /\ CancelledAlone /\ Numbered /\ Concluded /\ NoSilentFailure /\ RethrowsEarliest
Driving == SlotFits /\ GoalsFit /\ Reached /\ TornDown /\ NeverStuck

Inv == TypeOK /\ Standing /\ Driving

-----------------------------------------------------------------------------
(* The stack: who stands where after a step.                                 *)

\* The names that stand for nobody are nobody.
LEMMA Names == Idle \notin Actors /\ Root \notin Tasks /\ Tasks \subseteq Actors /\ NoScope \notin Scopes
BY BoundsAssumption DEF Idle, Actors, Root, Tasks, Scopes, NoScope

\* What is queued or waited for is a task.
LEMMA HeldAreTasks ==
  ASSUME TypeOK
  PROVE  TaskSet(runnable) \subseteq Tasks /\ TaskSet(parked) \subseteq Tasks /\ Held \subseteq Tasks
BY QueuesHoldTasks DEF TypeOK, TaskSet, Held

\* The shape of a driver stack.
LEMMA StackTyped ==
  ASSUME TypeOK
  PROVE  /\ Len(drivers) \in Nat /\ DOMAIN drivers = 1 .. Len(drivers)
         /\ \A i \in DOMAIN drivers :
              /\ drivers[i].cell \in Actors /\ drivers[i].cancelled \in BOOLEAN
              /\ drivers[i].goal \in Goals
              /\ i \in Levels /\ i < Len(drivers) + 1 /\ StackAt(i) = drivers[i].cell
         /\ current.cell \in Actors \cup {Idle} /\ current.cancelled \in BOOLEAN
         /\ Len(drivers) + 1 \in Levels /\ StackAt(Len(drivers) + 1) = current.cell
         /\ \A i \in Levels : i \in Int /\ (i \in DOMAIN drivers \/ i = Len(drivers) + 1)
         /\ \A i \in Levels : StackAt(i) \in Actors \cup {Idle}
<1> DEFINE D == [cell : Actors, cancelled : BOOLEAN, goal : Goals]
<1>1. drivers \in Seq(D) /\ current \in Occupants
  BY DEF TypeOK
<1>2. \A d \in D : d.cell \in Actors /\ d.cancelled \in BOOLEAN /\ d.goal \in Goals
  OBVIOUS
<1>. HIDE DEF D
<1>3. /\ Len(drivers) \in Nat /\ DOMAIN drivers = 1 .. Len(drivers)
      /\ \A i \in DOMAIN drivers : drivers[i] \in D
  BY <1>1
<1>4. current.cell \in Actors \cup {Idle} /\ current.cancelled \in BOOLEAN
  BY <1>1 DEF Occupants
<1>. QED  BY <1>2, <1>3, <1>4 DEF Levels, StackAt

\* The actors on the stack, as the properties say it.
LEMMA StackedAre ==
  ASSUME TypeOK, NEW a \in Actors
  PROVE  OnStack(a) <=> a \in Stacked
BY StackTyped, Names DEF OnStack, Stacked, Levels, StackAt

\* The first level of the stack is the root program.
LEMMA BottomLevel ==
  ASSUME TypeOK
  PROVE  1 \in Levels
BY StackTyped DEF Levels

\* Levels that a step leaves alone stay in order.
LEMMA StackUnmoved ==
  ASSUME UNCHANGED stack
  PROVE  /\ Levels' = Levels /\ Stacked' = Stacked
         /\ \A i \in Levels : StackAt(i)' = StackAt(i)
BY DEF stack, Levels, Stacked, StackAt

\* drive sets the running actor aside: one more level, with an empty slot.
LEMMA Pushed ==
  ASSUME TypeOK, NEW d, d.cell = current.cell, current.cell \in Actors,
         drivers' = Append(drivers, d), current'.cell = Idle
  PROVE  /\ Len(drivers') = Len(drivers) + 1
         /\ \A i \in DOMAIN drivers : i \in DOMAIN drivers' /\ drivers'[i] = drivers[i]
         /\ DOMAIN drivers' = DOMAIN drivers \cup {Len(drivers) + 1}
         /\ drivers'[Len(drivers) + 1] = d
         /\ Levels' = Levels \cup {Len(drivers) + 2}
         /\ \A i \in Levels : StackAt(i)' = StackAt(i)
         /\ \A i \in Levels' : i \notin Levels => i = Len(drivers) + 2 /\ StackAt(i)' = Idle
         /\ Stacked' = Stacked \cup {Idle}
<1>1. /\ Len(drivers) \in Nat /\ Len(drivers') = Len(drivers) + 1
      /\ DOMAIN drivers' = 1 .. Len(drivers) + 1 /\ DOMAIN drivers = 1 .. Len(drivers)
      /\ \A i \in 1 .. Len(drivers) : drivers'[i] = drivers[i]
      /\ drivers'[Len(drivers) + 1] = d
  <2>1. drivers \in Seq([cell : Actors, cancelled : BOOLEAN, goal : Goals])
    BY DEF TypeOK
  <2>. QED  BY <2>1
<1>2. Levels' = Levels \cup {Len(drivers) + 2}
  BY <1>1 DEF Levels
<1>3. \A i \in Levels : StackAt(i)' = StackAt(i)
  BY <1>1 DEF Levels, StackAt
<1>4. \A i \in Levels' : i \notin Levels => i = Len(drivers) + 2 /\ StackAt(i)' = Idle
  BY <1>1, <1>2 DEF StackAt
<1>5. Stacked' = Stacked \cup {Idle}
  <2>1. Stacked' \subseteq Stacked \cup {Idle}
    <3> SUFFICES ASSUME NEW i \in Levels' PROVE StackAt(i)' \in Stacked \cup {Idle}
      BY DEF Stacked
    <3>. QED  BY <1>2, <1>3, <1>4 DEF Stacked
  <2>2. Stacked \subseteq Stacked'
    <3> SUFFICES ASSUME NEW i \in Levels PROVE StackAt(i) \in Stacked'
      BY DEF Stacked
    <3>. QED  BY <1>2, <1>3 DEF Stacked
  <2>3. Idle \in Stacked'
    <3>1. Len(drivers) + 2 \in Levels' /\ Len(drivers) + 2 \notin Levels
      BY <1>1, <1>2 DEF Levels
    <3>. QED  BY <1>4, <3>1 DEF Stacked
  <2>. QED  BY <2>1, <2>2, <2>3
<1>. QED  BY <1>1, <1>2, <1>3, <1>4, <1>5

\* drive ends: the running actor is gone and the one below runs again.
LEMMA Popped ==
  ASSUME TypeOK, StackedOnce, drivers # <<>>, PopDriver
  PROVE  /\ Len(drivers) \in Nat \ {0} /\ Len(drivers) \in DOMAIN drivers
         /\ Len(drivers') = Len(drivers) - 1
         /\ DOMAIN drivers' = DOMAIN drivers \ {Len(drivers)}
         /\ \A i \in DOMAIN drivers' : drivers'[i] = drivers[i]
         /\ current'.cell = drivers[Len(drivers)].cell
         /\ current'.cancelled = drivers[Len(drivers)].cancelled
         /\ goal' = drivers[Len(drivers)].goal
         /\ Levels' = DOMAIN drivers
         /\ \A i \in Levels' : i \in Levels /\ StackAt(i)' = StackAt(i)
         /\ Stacked' = Stacked \ {current.cell}
<1>1. /\ Len(drivers) \in Nat \ {0}
      /\ Len(drivers') = Len(drivers) - 1
      /\ DOMAIN drivers' = 1 .. Len(drivers) - 1 /\ DOMAIN drivers = 1 .. Len(drivers)
      /\ \A i \in 1 .. Len(drivers) - 1 : drivers'[i] = drivers[i]
  <2>. DEFINE D == [cell : Actors, cancelled : BOOLEAN, goal : Goals]
  <2>1. drivers \in Seq(D)
    BY DEF TypeOK
  <2>. HIDE DEF D
  <2>2. drivers' = SubSeq(drivers, 1, Len(drivers) - 1)
    BY DEF PopDriver, Front
  <2>3. Len(drivers) \in Nat \ {0} /\ DOMAIN drivers = 1 .. Len(drivers)
    BY <2>1
  <2>. QED  BY <2>1, <2>2, <2>3
<1>2. /\ current' = [cell |-> drivers[Len(drivers)].cell, cancelled |-> drivers[Len(drivers)].cancelled]
      /\ goal' = drivers[Len(drivers)].goal
  BY DEF PopDriver, Last
<1>3. Levels' = 1 .. Len(drivers)
  BY <1>1 DEF Levels
<1>4. \A i \in Levels' : i \in Levels /\ StackAt(i)' = StackAt(i)
  BY <1>1, <1>2, <1>3 DEF Levels, StackAt
<1>5. Levels = Levels' \cup {Len(drivers) + 1} /\ Len(drivers) + 1 \notin Levels'
  BY <1>1, <1>3 DEF Levels
<1>6. StackAt(Len(drivers) + 1) = current.cell
  BY StackTyped
<1>7. Stacked' = Stacked \ {current.cell}
  BY <1>4, <1>5, <1>6 DEF Stacked, StackedOnce
<1>. QED  BY <1>1, <1>2, <1>3, <1>4, <1>7

\* The slot alone changes hands.
LEMMA SlotChanged ==
  ASSUME TypeOK, StackedOnce, UNCHANGED drivers
  PROVE  /\ Levels' = Levels
         /\ \A i \in DOMAIN drivers : StackAt(i)' = StackAt(i)
         /\ StackAt(Len(drivers) + 1)' = current'.cell
         /\ Stacked' = (Stacked \ {current.cell}) \cup {current'.cell}
<1>1. Levels' = Levels /\ Levels = DOMAIN drivers \cup {Len(drivers) + 1} /\ Len(drivers) + 1 \notin DOMAIN drivers
  BY StackTyped DEF Levels
<1>2. \A i \in DOMAIN drivers : StackAt(i)' = StackAt(i)
  BY StackTyped DEF StackAt
<1>3. StackAt(Len(drivers) + 1)' = current'.cell /\ StackAt(Len(drivers) + 1) = current.cell
  BY StackTyped DEF StackAt
<1>4. Stacked' = (Stacked \ {current.cell}) \cup {current'.cell}
  BY <1>1, <1>2, <1>3 DEF Stacked, StackedOnce
<1>. QED  BY <1>1, <1>2, <1>3, <1>4

-----------------------------------------------------------------------------
(* Steps that move nobody: the scheduler's place and the signal change.      *)

\* A step that changes no queue, no stack and no ledger keeps the invariant.
LEMMA Unmoved ==
  ASSUME Standing, UNCHANGED <<cells, owner, scope, queues, stack, bodies, history>>
  PROVE  Standing'
<1>1. /\ Levels' = Levels /\ Stacked' = Stacked /\ Held' = Held
      /\ \A i \in Levels : StackAt(i)' = StackAt(i)
  BY StackUnmoved DEF Held, TaskSet, queues
<1>. USE DEF Standing, cells, queues, stack, history
<1>2. QueuedOnce'
  BY DEF QueuedOnce, Distinct, TaskSet
<1>3. StackedOnce' /\ Apart'
  BY <1>1 DEF StackedOnce, StackAt, Apart
<1>4. PlacedRun' /\ RunPlaced' /\ Owned'
  BY <1>1 DEF PlacedRun, RunPlaced, Owned
<1>5. OpensOnce'
  BY <1>1 DEF OpensOnce
<1>8. Below'
  BY <1>1 DEF Below
<1>6. CancelledAlone' /\ Numbered' /\ Concluded'
  BY DEF CancelledAlone, Numbered, Concluded, TasksOf
<1>7. NoSilentFailure' /\ RethrowsEarliest'
  BY DEF NoSilentFailure, RethrowsEarliest, TasksOf, UnobservedFailures
<1>. QED  BY <1>2, <1>3, <1>4, <1>5, <1>6, <1>7, <1>8

\* The goals of the drives under way stay what they are.
LEMMA GoalsUnmoved ==
  ASSUME TypeOK, GoalsFit, UNCHANGED <<drivers, bodies>>,
         \A t \in Tasks : cell[t] # "none" => cell'[t] # "none"
  PROVE  (\A i \in DOMAIN drivers : GoalFits(drivers[i].goal, drivers[i].cell))'
BY DEF GoalsFit, GoalFits

\* A scope that is torn down below the running actor stays so.
LEMMA TornBelow ==
  ASSUME TornDown, UNCHANGED <<drivers, scope, rethrown>>,
         control \notin {"enter", "finish", "raised"} \/ goal.kind # "teardown"
  PROVE  TornDown'
BY DEF TornDown, Torn

\* Control comes back to the program, with nothing set aside or let go.
LEMMA ProgramRuns ==
  ASSUME TypeOK, GoalsFit, TornDown', control' = "user", current'.cell # Idle,
         UNCHANGED <<drivers, bodies>>, \A t \in Tasks : cell[t] # "none" => cell'[t] # "none"
  PROVE  Driving'
<1>1. (\A i \in DOMAIN drivers : GoalFits(drivers[i].goal, drivers[i].cell))'
  BY GoalsUnmoved
<1>2. GoalsFit'
  BY <1>1 DEF GoalsFit
<1>. QED  BY <1>2 DEF Driving, SlotFits, Reached, NeverStuck

\* One lemma for each action.  The running code throws, panics or catches.
LEMMA SignalSteps ==
  ASSUME Inv, Throw \/ Panic \/ Catch
  PROVE  Inv'
<1>1. /\ UNCHANGED <<cells, owner, scope, queues, stack, bodies, control, goal, parks, history>>
      /\ control = "user" /\ signal' \in Signals
  BY DEF Throw, Panic, Catch, Executing, Signals
<1>2. TypeOK /\ Standing /\ SlotFits /\ GoalsFit /\ TornDown
  BY DEF Inv, Driving
<1>3. TypeOK'
  BY <1>1, <1>2 DEF TypeOK, cells, queues, stack, history
<1>4. Standing'
  BY <1>1, <1>2, Unmoved
<1>5. TornDown' /\ current'.cell # Idle /\ control' = "user"
  BY <1>1, <1>2, TornBelow DEF stack, history, SlotFits
<1>6. Driving'
  BY <1>1, <1>2, <1>5, ProgramRuns DEF cells, stack
<1>. QED  BY <1>3, <1>4, <1>6 DEF Inv

\* The running code asks for the value of a task.
LEMMA ValueStep ==
  ASSUME Inv, NEW t \in Tasks, Value(t)
  PROVE  Inv'
<1>1. /\ UNCHANGED <<cells, owner, scope, queues, stack, bodies, signal, parks, history>>
      /\ control = "user" /\ control' = "enter" /\ signal = "none"
      /\ cell[t] # "none" /\ goal' = [kind |-> "value", id |-> t, then |-> "none"]
  BY DEF Value, Executing
<1>2. TypeOK /\ Standing /\ SlotFits /\ GoalsFit /\ TornDown
  BY DEF Inv, Driving
<1>3. TypeOK'
  BY <1>1, <1>2 DEF TypeOK, cells, queues, stack, history, Goals, Signals
<1>4. Standing'
  BY <1>1, <1>2, Unmoved
<1>5. GoalsFit'
  <2>1. (\A i \in DOMAIN drivers : GoalFits(drivers[i].goal, drivers[i].cell))'
    BY <1>1, <1>2, GoalsUnmoved DEF cells, stack
  <2>2. GoalFits(goal, current.cell)'
    BY <1>1 DEF GoalFits, cells
  <2>. QED  BY <2>1, <2>2 DEF GoalsFit
<1>6. SlotFits' /\ Reached' /\ NeverStuck'
  BY <1>1, <1>2 DEF SlotFits, Reached, NeverStuck, stack
<1>7. TornDown'
  BY <1>1, <1>2, TornBelow DEF stack, history
<1>. QED  BY <1>3, <1>4, <1>5, <1>6, <1>7 DEF Inv, Driving

\* The program ends.
LEMMA EndStep ==
  ASSUME Inv, ProgramEnds
  PROVE  Inv'
<1>1. /\ UNCHANGED <<cells, owner, scope, queues, stack, bodies, goal, signal, parks, history>>
      /\ control = "user" /\ control' = "over"
  BY DEF ProgramEnds
<1>2. TypeOK /\ Standing /\ GoalsFit /\ TornDown
  BY DEF Inv, Driving
<1>3. TypeOK'
  BY <1>1, <1>2 DEF TypeOK, cells, queues, stack, history
<1>4. Standing'
  BY <1>1, <1>2, Unmoved
<1>5. (\A i \in DOMAIN drivers : GoalFits(drivers[i].goal, drivers[i].cell))'
  BY <1>1, <1>2, GoalsUnmoved DEF cells, stack
<1>6. GoalsFit' /\ SlotFits' /\ Reached' /\ NeverStuck'
  BY <1>1, <1>5 DEF GoalsFit, SlotFits, Reached, NeverStuck
<1>7. TornDown'
  BY <1>1, <1>2, TornBelow DEF stack, history
<1>. QED  BY <1>3, <1>4, <1>6, <1>7 DEF Inv, Driving

\* A step that changes nothing.
LEMMA StutterStep ==
  ASSUME Inv, UNCHANGED vars
  PROVE  Inv'
<1>1. UNCHANGED <<cells, owner, scope, queues, stack, bodies, control, goal, signal, parks, history>>
  BY DEF vars
<1>2. TypeOK /\ Standing /\ SlotFits /\ GoalsFit /\ Reached /\ TornDown /\ NeverStuck
  BY DEF Inv, Driving
<1>3. TypeOK'
  BY <1>1, <1>2 DEF TypeOK, cells, queues, stack, history
<1>4. Standing'
  BY <1>1, <1>2, Unmoved
<1>5. SlotFits' /\ GoalsFit' /\ NeverStuck'
  BY <1>1, <1>2 DEF SlotFits, GoalsFit, GoalFits, NeverStuck, cells, queues, stack
<1>6. Reached' /\ TornDown'
  BY <1>1, <1>2 DEF Reached, TornDown, Torn, Settled, Pending, TasksOf, UnobservedFailures,
                    cells, stack, history
<1>. QED  BY <1>3, <1>4, <1>5, <1>6 DEF Inv, Driving

-----------------------------------------------------------------------------
(* concurrent(body) and spawn.                                               *)

\* The running actor is on the stack, and nobody set aside is it.
LEMMA RunningIsOnTop ==
  ASSUME TypeOK, StackedOnce, current.cell # Idle
  PROVE  /\ current.cell \in Actors /\ current.cell \in Stacked
         /\ \A i \in DOMAIN drivers : drivers[i].cell # current.cell
<1>1. current.cell \in Actors /\ current.cell \in Stacked
  BY StackTyped DEF Stacked
<1>2. \A i \in DOMAIN drivers : drivers[i].cell # current.cell
  BY StackTyped DEF StackedOnce
<1>. QED  BY <1>1, <1>2

\* Opening a scope.
LEMMA OpenStep ==
  ASSUME Inv, OpenScope
  PROVE  Inv'
<1>1. PICK s \in Scopes : /\ scope[s] = "none"
                          /\ scope' = [scope EXCEPT ![s] = "open"]
                          /\ bodies' = [bodies EXCEPT ![current.cell] = Append(@, s)]
  BY DEF OpenScope
<1>2. /\ UNCHANGED <<cells, owner, queues, stack, control, goal, signal, parks, history>>
      /\ control = "user"
  BY DEF OpenScope, Executing
<1>3. TypeOK /\ Standing /\ SlotFits /\ GoalsFit /\ TornDown
  BY DEF Inv, Driving
<1>. USE DEF Standing
<1>4. current.cell \in Actors /\ current.cell \in Stacked /\ \A i \in DOMAIN drivers : drivers[i].cell # current.cell
  BY <1>2, <1>3, RunningIsOnTop DEF SlotFits
<1>5. /\ bodies \in [Actors -> Seq(Scopes)] /\ scope \in [Scopes -> {"none", "open", "exited"}]
      /\ owner \in [Tasks -> Scopes \cup {NoScope}]
  BY <1>3 DEF TypeOK
<1>6. /\ bodies' \in [Actors -> Seq(Scopes)]
      /\ ToSet(bodies'[current.cell]) = ToSet(bodies[current.cell]) \cup {s}
      /\ \A a \in Actors : a # current.cell => bodies'[a] = bodies[a]
      /\ bodies'[current.cell] = Append(bodies[current.cell], s)
  <2>1. bodies[current.cell] \in Seq(Scopes) /\ bodies'[current.cell] = Append(bodies[current.cell], s)
    BY <1>1, <1>4, <1>5
  <2>2. /\ Append(bodies[current.cell], s) \in Seq(Scopes)
        /\ ToSet(Append(bodies[current.cell], s)) = ToSet(bodies[current.cell]) \cup {s}
    BY <2>1, Appended
  <2>3. \A a \in Actors : a # current.cell => bodies'[a] = bodies[a]
    BY <1>1, <1>5
  <2>4. bodies' \in [Actors -> Seq(Scopes)]
    BY <1>1, <1>4, <1>5, <2>2
  <2>. QED  BY <2>1, <2>2, <2>3, <2>4
<1>7. /\ scope'[s] = "open" /\ scope' \in [Scopes -> {"none", "open", "exited"}]
      /\ \A r \in Scopes : r # s => scope'[r] = scope[r]
  BY <1>1, <1>5
<1>8. \A a \in Actors : s \notin ToSet(bodies[a])
  BY <1>1, <1>3 DEF OpensOnce
<1>9. \A t \in Tasks : owner[t] # s
  BY <1>1, <1>3, Names DEF Owned
<1>10. /\ Levels' = Levels /\ Stacked' = Stacked /\ Held' = Held
       /\ \A i \in Levels : StackAt(i)' = StackAt(i)
  BY <1>2, StackUnmoved DEF Held, TaskSet, queues
<1>11. TypeOK'
  <2>1. TypeOK /\ bodies' \in [Actors -> Seq(Scopes)] /\ scope' \in [Scopes -> {"none", "open", "exited"}]
    BY <1>3, <1>6, <1>7
  <2>2. UNCHANGED <<cell, observed, order, failures, owner, runnable, parked, drivers, current,
                    control, goal, signal, parks, outcome, rethrown>>
    BY <1>2 DEF cells, queues, stack, history
  <2>. QED  BY <2>1, <2>2 DEF TypeOK
<1>12. QueuedOnce' /\ StackedOnce' /\ Apart'
  <2>1. QueuedOnce'
    BY <1>2, <1>3 DEF QueuedOnce, Distinct, TaskSet, queues
  <2>2. StackedOnce' /\ Apart'
    BY <1>3, <1>10, BottomLevel DEF StackedOnce, Apart
  <2>. QED  BY <2>1, <2>2
<1>13. PlacedRun' /\ RunPlaced' /\ Owned'
  BY <1>2, <1>3, <1>5, <1>7, <1>9, <1>10, Names DEF PlacedRun, RunPlaced, Owned, cells
<1>14. OpensOnce'
  <2>1. \A a \in Actors : IsInjective(bodies'[a])
    <3>1. \A a \in Actors : IsInjective(bodies[a])
      BY <1>3 DEF OpensOnce
    <3>2. IsInjective(bodies'[current.cell])
      <4>1. /\ bodies[current.cell] \in Seq(Scopes) /\ IsInjective(bodies[current.cell])
            /\ s \notin ToSet(bodies[current.cell])
        BY <1>4, <1>5, <1>8, <3>1
      <4>. QED  BY <1>6, <4>1, Appended
    <3>. QED  BY <1>6, <3>1, <3>2
  <2>2. \A a, b \in Actors : a # b => ToSet(bodies'[a]) \cap ToSet(bodies'[b]) = {}
    <3>1. \A a, b \in Actors : a # b => ToSet(bodies[a]) \cap ToSet(bodies[b]) = {}
      BY <1>3 DEF OpensOnce
    <3>2. \A a \in Actors : ToSet(bodies'[a]) \subseteq ToSet(bodies[a]) \cup {s}
                           /\ (a # current.cell => s \notin ToSet(bodies'[a]))
      BY <1>6, <1>8
    <3>. QED  BY <3>1, <3>2
  <2>3. \A r \in Scopes : scope'[r] = "open" <=> \E a \in Actors : r \in ToSet(bodies'[a])
    <3>1. \A r \in Scopes : scope[r] = "open" <=> \E a \in Actors : r \in ToSet(bodies[a])
      BY <1>3 DEF OpensOnce
    <3>2. \E a \in Actors : s \in ToSet(bodies'[a])
      BY <1>4, <1>6
    <3>3. \A r \in Scopes, a \in Actors :
            r # s => (r \in ToSet(bodies'[a]) <=> r \in ToSet(bodies[a]))
      BY <1>6
    <3>4. ASSUME NEW r \in Scopes, r # s
          PROVE  scope'[r] = "open" <=> \E a \in Actors : r \in ToSet(bodies'[a])
      <4>1. (\E a \in Actors : r \in ToSet(bodies'[a])) <=> \E a \in Actors : r \in ToSet(bodies[a])
        BY <3>3, <3>4, Zenon
      <4>. QED  BY <1>7, <3>1, <3>4, <4>1, Zenon
    <3>. QED  BY <1>7, <3>2, <3>4, Zenon
  <2>4. \A a \in Actors : bodies'[a] # <<>> => a \in Stacked'
    BY <1>3, <1>4, <1>6, <1>10 DEF OpensOnce
  <2>. QED  BY <2>1, <2>2, <2>3, <2>4 DEF OpensOnce
<1>15. Below'
  <2>1. \A t \in Tasks, a \in Actors :
          owner[t] \in ToSet(bodies'[a]) => owner[t] \in ToSet(bodies[a])
    BY <1>6, <1>9
  <2>2. owner' = owner
    BY <1>2
  <2>. SUFFICES ASSUME NEW i \in Levels, NEW j \in Levels, StackAt(i) \in Actors, StackAt(j) \in Tasks,
                       owner[StackAt(j)] \in ToSet(bodies'[StackAt(i)])
                PROVE  i < j
    BY <1>10, <2>2, Zenon DEF Below
  <2>3. owner[StackAt(j)] \in ToSet(bodies[StackAt(i)])
    BY <2>1, Zenon
  <2>. QED  BY <1>3, <2>3, Zenon DEF Below
<1>16. CancelledAlone'
  BY <1>2, <1>3, <1>6, <1>9 DEF CancelledAlone, TasksOf, stack
<1>17. Numbered' /\ Concluded' /\ NoSilentFailure'
  BY <1>1, <1>2, <1>3, <1>7 DEF Numbered, Concluded, NoSilentFailure, TasksOf, cells, history
<1>18. RethrowsEarliest'
  BY <1>1, <1>2, <1>3, <1>7 DEF RethrowsEarliest, UnobservedFailures, TasksOf, cells, history
<1>19. (\A i \in DOMAIN drivers : GoalFits(drivers[i].goal, drivers[i].cell))'
  BY <1>2, <1>3, <1>4, <1>6, StackTyped DEF GoalsFit, GoalFits, cells, stack
<1>20. GoalsFit' /\ SlotFits' /\ Reached' /\ NeverStuck'
  BY <1>2, <1>3, <1>19 DEF GoalsFit, SlotFits, Reached, NeverStuck, stack
<1>21. TornDown'
  BY <1>1, <1>2, <1>3, <1>7 DEF TornDown, Torn, stack, history
<1>. QED  BY <1>11, <1>12, <1>13, <1>14, <1>15, <1>16, <1>17, <1>18, <1>20, <1>21 DEF Inv, Driving

\* Spawning a task.
LEMMA SpawnStep ==
  ASSUME Inv, NEW s \in Scopes, Spawn(s)
  PROVE  Inv'
<1>1. /\ UNCHANGED <<observed, order, failures, scope, queues, stack, bodies, control, goal, parks, history>>
      /\ control = "user" /\ scope[s] # "none"
  BY DEF Spawn, Executing
<1>2. TypeOK /\ Standing /\ SlotFits /\ GoalsFit /\ TornDown
  BY DEF Inv, Driving
<1>3. CASE current.cancelled \/ scope[s] = "exited"
  <2>1. /\ UNCHANGED <<cells, owner, scope, queues, stack, bodies, control, goal, parks, history>>
        /\ signal' = "error"
    BY <1>1, <1>3 DEF Spawn, cells
  <2>2. TypeOK'
    BY <1>2, <2>1 DEF TypeOK, cells, queues, stack, history, Signals
  <2>3. Standing'
    BY <1>2, <2>1, Unmoved
  <2>4. TornDown' /\ current'.cell # Idle /\ control' = "user"
    BY <1>1, <1>2, <2>1, TornBelow DEF stack, history, SlotFits
  <2>5. Driving'
    BY <1>2, <2>1, <2>4, ProgramRuns DEF cells, stack
  <2>. QED  BY <2>2, <2>3, <2>5 DEF Inv
<1>4. CASE ~(current.cancelled \/ scope[s] = "exited")
  <2>1. PICK t \in Tasks : /\ cell[t] = "none"
                           /\ cell' = [cell EXCEPT ![t] = "pending"]
                           /\ owner' = [owner EXCEPT ![t] = s]
    BY <1>4 DEF Spawn
  <2>2. signal' = signal
    BY <1>4 DEF Spawn
  <2>. USE DEF Standing
  <2>3. /\ cell \in [Tasks -> {"none", "pending", "running", "done", "failed"}]
        /\ owner \in [Tasks -> Scopes \cup {NoScope}]
        /\ scope \in [Scopes -> {"none", "open", "exited"}]
    BY <1>2 DEF TypeOK
  <2>4. /\ scope[s] = "open" /\ owner[t] = NoScope
        /\ cell'[t] = "pending" /\ owner'[t] = s
        /\ \A u \in Tasks : u # t => cell'[u] = cell[u] /\ owner'[u] = owner[u]
        /\ cell' \in [Tasks -> {"none", "pending", "running", "done", "failed"}]
        /\ owner' \in [Tasks -> Scopes \cup {NoScope}]
    BY <1>1, <1>2, <1>4, <2>1, <2>3 DEF Owned
  <2>5. /\ Levels' = Levels /\ Stacked' = Stacked /\ Held' = Held
        /\ \A i \in Levels : StackAt(i)' = StackAt(i)
    BY <1>1, StackUnmoved DEF Held, TaskSet, queues
  <2>6. t \notin Held /\ t \notin Stacked
    BY <1>2, <2>1 DEF PlacedRun
  <2>7. TypeOK'
    BY <1>1, <1>2, <2>2, <2>4 DEF TypeOK, queues, stack, history
  <2>8. QueuedOnce' /\ StackedOnce' /\ Apart'
    <3>1. QueuedOnce'
      BY <1>1, <1>2 DEF QueuedOnce, Distinct, TaskSet, queues
    <3>2. StackedOnce' /\ Apart'
      BY <1>2, <2>5, BottomLevel DEF StackedOnce, Apart
    <3>. QED  BY <3>1, <3>2
  <2>9. PlacedRun' /\ RunPlaced' /\ Owned'
    BY <1>1, <1>2, <2>4, <2>5, <2>6, Names DEF PlacedRun, RunPlaced, Owned
  <2>10. OpensOnce'
    BY <1>1, <1>2, <2>5 DEF OpensOnce
  <2>11. Below'
    BY <1>1, <1>2, <2>4, <2>5, <2>6 DEF Below, Stacked
  <2>12. CancelledAlone' /\ Concluded'
    BY <1>1, <1>2, <1>4 DEF CancelledAlone, Concluded, stack, history
  <2>13. Numbered'
    BY <1>1, <1>2, <2>4 DEF Numbered
  <2>14. NoSilentFailure'
    BY <1>1, <1>2, <1>4, <2>4 DEF NoSilentFailure, Concluded, TasksOf, history
  <2>15. RethrowsEarliest'
    <3>1. \A r \in Scopes : UnobservedFailures(r)' = UnobservedFailures(r)
      BY <1>1, <2>1, <2>4 DEF UnobservedFailures, TasksOf
    <3>2. \A r \in Scopes : rethrown[r] # 0 => rethrown[r] \in Tasks
      BY <1>2 DEF TypeOK
    <3>. QED  BY <1>1, <1>2, <2>1, <2>4, <3>1, <3>2 DEF RethrowsEarliest, history
  <2>16. TornDown' /\ current'.cell # Idle /\ control' = "user"
    BY <1>1, <1>2, TornBelow DEF stack, history, SlotFits
  <2>17. Driving'
    BY <1>1, <1>2, <2>4, <2>16, ProgramRuns DEF stack
  <2>. QED  BY <2>7, <2>8, <2>9, <2>10, <2>11, <2>12, <2>13, <2>14, <2>15, <2>17 DEF Inv
<1>. QED  BY <1>3, <1>4

-----------------------------------------------------------------------------
(* A task stops: it parks, returns, throws or panics.                        *)

\* Whoever is not the root runs in somebody's drive.
LEMMA SomebodyDrives ==
  ASSUME TypeOK, StackedOnce, current.cell # Root
  PROVE  drivers # <<>> /\ Len(drivers) \in DOMAIN drivers
<1>1. StackAt(1) = Root
  BY DEF StackedOnce
<1>2. Len(drivers) # 0
  BY <1>1, StackTyped
<1>. QED  BY <1>2, StackTyped

\* An actor with no concurrent call open leaves the stack.
LEMMA Vacated ==
  ASSUME TypeOK, StackedOnce, OpensOnce, Below, CancelledAlone,
         current.cell \in Tasks, bodies[current.cell] = <<>>,
         Vacate, UNCHANGED <<drivers, bodies, owner, scope>>
  PROVE  /\ Stacked' = (Stacked \ {current.cell}) \cup {Idle}
         /\ StackedOnce' /\ OpensOnce' /\ Below' /\ CancelledAlone'
<1>1. current'.cell = Idle /\ ~current'.cancelled
  BY DEF Vacate
<1>2. /\ Levels' = Levels
      /\ \A i \in DOMAIN drivers : StackAt(i)' = StackAt(i)
      /\ \A i \in Levels : i \notin DOMAIN drivers => StackAt(i)' = Idle
      /\ Stacked' = (Stacked \ {current.cell}) \cup {Idle}
  <2>1. \A i \in Levels : i \notin DOMAIN drivers => i = Len(drivers) + 1
    BY StackTyped
  <2>. QED  BY <1>1, <2>1, SlotChanged DEF StackAt, Levels
<1>3. 1 \in DOMAIN drivers
  BY SomebodyDrives, StackTyped, Names
<1>4. StackedOnce'
  <2>1. \A i \in DOMAIN drivers : i \in Levels /\ StackAt(i) \in Actors
    BY StackTyped
  <2>2. \A i, j \in Levels : i \notin DOMAIN drivers /\ j \notin DOMAIN drivers => i = j
    BY StackTyped
  <2>3. StackAt(1)' = Root
    BY <1>2, <1>3 DEF StackedOnce
  <2>4. \A i, j \in Levels : StackAt(i)' = StackAt(j)' => i = j
    BY <1>2, <2>1, <2>2, Names DEF StackedOnce
  <2>. QED  BY <1>2, <2>3, <2>4 DEF StackedOnce
<1>5. OpensOnce'
  BY <1>2 DEF OpensOnce
<1>6. Below'
  BY <1>2, StackTyped, Names DEF Below
<1>7. CancelledAlone'
  BY <1>1 DEF CancelledAlone
<1>. QED  BY <1>2, <1>4, <1>5, <1>6, <1>7

\* The drive loop is about to test its goal.
LEMMA LoopTests ==
  ASSUME TypeOK, GoalsFit, TornDown', control' = "check", Vacate,
         UNCHANGED <<drivers, bodies>>, \A t \in Tasks : cell[t] # "none" => cell'[t] # "none"
  PROVE  Driving'
<1>1. (\A i \in DOMAIN drivers : GoalFits(drivers[i].goal, drivers[i].cell))'
  BY GoalsUnmoved
<1>. QED  BY <1>1 DEF Driving, GoalsFit, SlotFits, Reached, NeverStuck, Vacate

\* Parking the running task.
LEMMA ParkStep ==
  ASSUME Inv, NEW kind \in {"timer", "job"}, Park(kind)
  PROVE  Inv'
<1> DEFINE t == current.cell
           e == [task |-> t, wait |-> kind]
<1>1. /\ UNCHANGED <<cells, owner, scope, runnable, drivers, bodies, goal, signal, history>>
      /\ control = "user" /\ control' = "check" /\ bodies[t] = <<>> /\ drivers # <<>>
      /\ parked' = Append(parked, e) /\ Vacate
      /\ parks < MaxParks /\ parks' = parks + 1
  BY DEF Park, Executing, Vacate
<1>2. TypeOK /\ Standing /\ SlotFits /\ GoalsFit /\ TornDown
  BY DEF Inv, Driving
<1>. USE DEF Standing
<1>3. t \in Tasks /\ t \in Stacked
  <2>1. t \in Actors /\ t \in Stacked
    BY <1>1, <1>2, RunningIsOnTop DEF SlotFits
  <2>2. t # Root
    <3>1. Len(drivers) # 0
      BY <1>1, <1>2 DEF TypeOK
    <3>. QED  BY <1>2, <3>1, StackTyped, BottomLevel DEF StackedOnce
  <2>. QED  BY <2>1, <2>2 DEF Actors
<1>4. /\ Stacked' = (Stacked \ {t}) \cup {Idle}
      /\ StackedOnce' /\ OpensOnce' /\ Below' /\ CancelledAlone'
  BY <1>1, <1>2, <1>3, Vacated
<1>5. t \notin Held /\ cell[t] = "running"
  BY <1>2, <1>3 DEF Apart, PlacedRun
<1>6. /\ parked' \in Seq(Waiters) /\ TaskSet(parked') = TaskSet(parked) \cup {t}
      /\ Distinct(parked')
  <2>1. parked \in Seq(Waiters) /\ e \in Waiters /\ e.task = t
    BY <1>2, <1>3 DEF TypeOK, Waiters
  <2>. HIDE DEF e
  <2>2. Distinct(parked) /\ t \notin TaskSet(parked)
    BY <1>2, <1>5 DEF QueuedOnce, Held
  <2>. QED  BY <1>1, <2>1, <2>2, Joined
<1>7. Held' = Held \cup {t}
  BY <1>1, <1>6 DEF Held
<1>8. TypeOK'
  <2>1. current' \in Occupants /\ parks' \in 0 .. MaxParks
    BY <1>1, <1>2, BoundsAssumption DEF Vacate, Occupants, TypeOK
  <2>. QED  BY <1>1, <1>2, <1>6, <2>1 DEF TypeOK, cells, history
<1>9. QueuedOnce' /\ Apart'
  <2>1. QueuedOnce'
    BY <1>1, <1>2, <1>5, <1>6 DEF QueuedOnce, Held
  <2>2. Idle \notin Held
    BY <1>2, HeldAreTasks, Names
  <2>3. Apart'
    BY <1>2, <1>3, <1>4, <1>7, <2>2, Names DEF Apart
  <2>. QED  BY <2>1, <2>3
<1>10. PlacedRun' /\ RunPlaced' /\ Owned'
  BY <1>1, <1>2, <1>3, <1>4, <1>5, <1>7, Names DEF PlacedRun, RunPlaced, Owned, cells
<1>11. Numbered' /\ Concluded' /\ NoSilentFailure' /\ RethrowsEarliest'
  BY <1>1, <1>2 DEF Numbered, Concluded, NoSilentFailure, RethrowsEarliest, TasksOf,
                    UnobservedFailures, cells, history
<1>12. TornDown'
  BY <1>1, <1>2, TornBelow DEF history
<1>13. Driving'
  BY <1>1, <1>2, <1>12, LoopTests DEF cells
<1>. QED  BY <1>4, <1>8, <1>9, <1>10, <1>11, <1>13 DEF Inv

\* The running task stops for good: its cell no longer runs, and neither a
\* queue nor a drive knows of it.
LEMMA RunningSettles ==
  ASSUME TypeOK, QueuedOnce, Apart, PlacedRun, RunPlaced, Owned, current.cell \in Stacked,
         current.cell \in Tasks, NEW state \in {"done", "failed"},
         cell' = [cell EXCEPT ![current.cell] = state],
         Stacked' \subseteq (Stacked \ {current.cell}) \cup {Idle},
         Stacked \ {current.cell} \subseteq Stacked',
         UNCHANGED <<owner, scope, queues>>
  PROVE  /\ QueuedOnce' /\ Apart' /\ PlacedRun' /\ RunPlaced' /\ Owned'
         /\ cell[current.cell] = "running"
         /\ cell' \in [Tasks -> {"none", "pending", "running", "done", "failed"}]
         /\ cell'[current.cell] = state
         /\ \A t \in Tasks : t # current.cell => cell'[t] = cell[t]
<1>1. current.cell \notin Held /\ cell[current.cell] = "running"
  BY DEF Apart, PlacedRun
<1>2. /\ cell' \in [Tasks -> {"none", "pending", "running", "done", "failed"}]
      /\ cell'[current.cell] = state
      /\ \A t \in Tasks : t # current.cell => cell'[t] = cell[t]
  BY DEF TypeOK
<1>3. Held' = Held /\ Idle \notin Held /\ Idle \notin Tasks
  BY HeldAreTasks, Names DEF Held, queues, TaskSet
<1>4. QueuedOnce'
  BY DEF QueuedOnce, Distinct, TaskSet, queues
<1>5. Apart'
  BY <1>3 DEF Apart
<1>6. PlacedRun' /\ RunPlaced'
  BY <1>1, <1>2, <1>3 DEF PlacedRun, RunPlaced
<1>7. Owned'
  BY <1>1, <1>2 DEF Owned
<1>. QED  BY <1>1, <1>2, <1>4, <1>5, <1>6, <1>7

\* A task that returns.
LEMMA ReturnStep ==
  ASSUME Inv, TaskReturns
  PROVE  Inv'
<1>1. /\ UNCHANGED <<observed, order, failures, owner, scope, queues, drivers, bodies, goal, signal,
                     parks, history>>
      /\ control = "user" /\ control' = "check"
      /\ current.cell \in Tasks /\ bodies[current.cell] = <<>> /\ Vacate
      /\ cell' = [cell EXCEPT ![current.cell] = "done"]
  BY DEF TaskReturns, TaskStops
<1>2. TypeOK /\ Standing /\ SlotFits /\ GoalsFit /\ TornDown
  BY DEF Inv, Driving
<1>. USE DEF Standing
<1>3. current.cell \in Stacked
  BY <1>1, <1>2, RunningIsOnTop, Names
<1>4. /\ Stacked' = (Stacked \ {current.cell}) \cup {Idle}
      /\ StackedOnce' /\ OpensOnce' /\ Below' /\ CancelledAlone'
  BY <1>1, <1>2, Vacated
<1>5. /\ QueuedOnce' /\ Apart' /\ PlacedRun' /\ RunPlaced' /\ Owned'
      /\ cell[current.cell] = "running" /\ cell'[current.cell] = "done"
      /\ cell' \in [Tasks -> {"none", "pending", "running", "done", "failed"}]
      /\ \A t \in Tasks : t # current.cell => cell'[t] = cell[t]
  BY <1>1, <1>2, <1>3, <1>4, RunningSettles
<1>6. TypeOK'
  <2>1. current' \in Occupants
    BY <1>1 DEF Vacate, Occupants
  <2>. QED  BY <1>1, <1>2, <1>5, <2>1 DEF TypeOK, queues, history
<1>7. Numbered' /\ Concluded' /\ NoSilentFailure'
  BY <1>1, <1>2, <1>5 DEF Numbered, Concluded, NoSilentFailure, TasksOf, history
<1>8. RethrowsEarliest'
  <2>1. \A s \in Scopes : UnobservedFailures(s)' = UnobservedFailures(s)
    BY <1>1, <1>5 DEF UnobservedFailures, TasksOf
  <2>2. \A s \in Scopes : rethrown[s] # 0 => rethrown[s] \in Tasks
    BY <1>2 DEF TypeOK
  <2>. QED  BY <1>1, <1>2, <1>5, <2>1, <2>2 DEF RethrowsEarliest, history
<1>9. TornDown'
  BY <1>1, <1>2, TornBelow DEF history
<1>10. Driving'
  <2>1. \A t \in Tasks : cell[t] # "none" => cell'[t] # "none"
    BY <1>5
  <2>. QED  BY <1>1, <1>2, <1>9, <2>1, LoopTests
<1>. QED  BY <1>4, <1>5, <1>6, <1>7, <1>8, <1>10 DEF Inv

\* A running task fails with the next number: the failures before it come first.
LEMMA FailureIsLast ==
  ASSUME TypeOK, Numbered, Concluded, NoSilentFailure, RethrowsEarliest,
         NEW c \in Tasks, cell[c] = "running",
         NEW seen \in BOOLEAN, Fail(c, seen), UNCHANGED <<owner, scope, history>>
  PROVE  /\ Numbered' /\ Concluded' /\ NoSilentFailure' /\ RethrowsEarliest'
         /\ observed' \in [Tasks -> BOOLEAN] /\ order' \in [Tasks -> Nat] /\ failures' \in Nat
<1>1. /\ cell' = [cell EXCEPT ![c] = "failed"] /\ observed' = [observed EXCEPT ![c] = seen]
      /\ order' = [order EXCEPT ![c] = failures] /\ failures' = failures + 1
      /\ UNCHANGED <<owner, scope, outcome, rethrown>>
  BY DEF Fail, history
<1>2. /\ cell \in [Tasks -> {"none", "pending", "running", "done", "failed"}]
      /\ observed \in [Tasks -> BOOLEAN] /\ order \in [Tasks -> Nat] /\ failures \in Nat
      /\ rethrown \in [Scopes -> Tasks \cup {0}]
  BY DEF TypeOK
<1>3. /\ cell'[c] = "failed" /\ observed'[c] = seen /\ order'[c] = failures
      /\ \A t \in Tasks : t # c => cell'[t] = cell[t] /\ observed'[t] = observed[t] /\ order'[t] = order[t]
      /\ failures' \in Nat /\ failures < failures'
      /\ \A t \in Tasks : order[t] \in Nat /\ order'[t] \in Nat
      /\ observed' \in [Tasks -> BOOLEAN] /\ order' \in [Tasks -> Nat]
  BY <1>1, <1>2
<1>4. Numbered'
  <2>1. \A t \in Tasks : cell'[t] = "failed" => order'[t] < failures'
    BY <1>2, <1>3 DEF Numbered
  <2>2. ASSUME NEW t \in Tasks, NEW u \in Tasks, cell'[t] = "failed", ~observed'[t],
               cell'[u] = "failed", ~observed'[u], order'[t] = order'[u]
        PROVE  t = u
    BY <1>2, <1>3, <2>2 DEF Numbered
  <2>. QED  BY <2>1, <2>2 DEF Numbered
<1>5. Concluded'
  BY <1>1 DEF Concluded
<1>6. NoSilentFailure'
  <2>1. \A s \in Scopes : outcome[s] = "value" => c \notin TasksOf(s)
    BY DEF NoSilentFailure
  <2>2. \A s \in Scopes : TasksOf(s)' = TasksOf(s) /\ TasksOf(s) \subseteq Tasks
    BY <1>1 DEF TasksOf
  <2>. QED  BY <1>1, <1>3, <2>1, <2>2 DEF NoSilentFailure
<1>7. RethrowsEarliest'
  <2> SUFFICES ASSUME NEW s \in Scopes, rethrown[s] # 0
               PROVE  /\ cell'[rethrown[s]] = "failed" /\ observed'[rethrown[s]]
                      /\ \A u \in UnobservedFailures(s)' : order'[rethrown[s]] < order'[u]
                      /\ scope[s] = "exited" => outcome[s] \in {"error", "panic"}
    BY <1>1 DEF RethrowsEarliest
  <2>1. /\ rethrown[s] \in Tasks /\ cell[rethrown[s]] = "failed" /\ observed[rethrown[s]]
        /\ \A u \in UnobservedFailures(s) : order[rethrown[s]] < order[u]
        /\ scope[s] = "exited" => outcome[s] \in {"error", "panic"}
    BY <1>2 DEF RethrowsEarliest
  <2>2. rethrown[s] # c /\ order[rethrown[s]] < failures
    BY <2>1 DEF Numbered
  <2>3. UnobservedFailures(s)' \subseteq UnobservedFailures(s) \cup {c}
    BY <1>1, <1>3 DEF UnobservedFailures, TasksOf
  <2>4. \A u \in UnobservedFailures(s) : u \in Tasks /\ u # c
    BY DEF UnobservedFailures, TasksOf
  <2>. QED  BY <1>3, <2>1, <2>2, <2>3, <2>4
<1>. QED  BY <1>3, <1>4, <1>5, <1>6, <1>7

\* A task that raises.
LEMMA ThrowStep ==
  ASSUME Inv, TaskThrows
  PROVE  Inv'
<1>1. /\ UNCHANGED <<owner, scope, queues, drivers, bodies, goal, parks, history>>
      /\ control = "user" /\ control' = "check" /\ signal' = "none"
      /\ current.cell \in Tasks /\ bodies[current.cell] = <<>> /\ Vacate
      /\ Fail(current.cell, FALSE)
  BY DEF TaskThrows, TaskStops
<1>2. TypeOK /\ Standing /\ SlotFits /\ GoalsFit /\ TornDown
  BY DEF Inv, Driving
<1>. USE DEF Standing
<1>3. current.cell \in Stacked
  BY <1>1, <1>2, RunningIsOnTop, Names
<1>4. /\ Stacked' = (Stacked \ {current.cell}) \cup {Idle}
      /\ StackedOnce' /\ OpensOnce' /\ Below' /\ CancelledAlone'
  BY <1>1, <1>2, Vacated
<1>5. /\ QueuedOnce' /\ Apart' /\ PlacedRun' /\ RunPlaced' /\ Owned'
      /\ cell[current.cell] = "running"
      /\ cell' \in [Tasks -> {"none", "pending", "running", "done", "failed"}]
      /\ cell'[current.cell] = "failed"
      /\ \A t \in Tasks : t # current.cell => cell'[t] = cell[t]
  BY <1>1, <1>2, <1>3, <1>4, RunningSettles DEF Fail
<1>6. /\ Numbered' /\ Concluded' /\ NoSilentFailure' /\ RethrowsEarliest'
      /\ observed' \in [Tasks -> BOOLEAN] /\ order' \in [Tasks -> Nat] /\ failures' \in Nat
  BY <1>1, <1>2, <1>5, FailureIsLast
<1>7. TypeOK'
  <2>1. current' \in Occupants
    BY <1>1 DEF Vacate, Occupants
  <2>. QED  BY <1>1, <1>2, <1>5, <1>6, <2>1 DEF TypeOK, queues, history, Signals
<1>8. TornDown'
  BY <1>1, <1>2, TornBelow DEF history
<1>9. Driving'
  <2>1. \A t \in Tasks : cell[t] # "none" => cell'[t] # "none"
    BY <1>5
  <2>. QED  BY <1>1, <1>2, <1>8, <2>1, LoopTests
<1>. QED  BY <1>4, <1>5, <1>6, <1>7, <1>9 DEF Inv

\* A drive ends: the actor that drove runs again, with the goal it drove for.
LEMMA DriverResumes ==
  ASSUME TypeOK, StackedOnce, OpensOnce, Below, CancelledAlone, GoalsFit, TornDown,
         current.cell # Root, current.cell \in Actors => bodies[current.cell] = <<>>,
         PopDriver, UNCHANGED <<bodies, owner, scope, rethrown>>,
         control \notin {"enter", "finish", "raised"}, control' \in {"finish", "raised"},
         \A t \in Tasks : cell[t] # "none" => cell'[t] # "none"
  PROVE  /\ Stacked' = Stacked \ {current.cell}
         /\ StackedOnce' /\ OpensOnce' /\ Below' /\ CancelledAlone' /\ GoalsFit' /\ SlotFits'
         /\ TornDown'
         /\ drivers' \in Seq([cell : Actors, cancelled : BOOLEAN, goal : Goals])
         /\ current' \in Occupants /\ goal' \in Goals
<1> DEFINE n == Len(drivers)
<1>1. drivers # <<>> /\ n \in DOMAIN drivers
  BY SomebodyDrives
<1>2. /\ DOMAIN drivers' = DOMAIN drivers \ {n} /\ \A i \in DOMAIN drivers' : drivers'[i] = drivers[i]
      /\ current'.cell = drivers[n].cell /\ current'.cancelled = drivers[n].cancelled
      /\ goal' = drivers[n].goal
      /\ Levels' = DOMAIN drivers /\ \A i \in Levels' : i \in Levels /\ StackAt(i)' = StackAt(i)
      /\ Stacked' = Stacked \ {current.cell}
  BY <1>1, Popped
<1>3. /\ drivers' \in Seq([cell : Actors, cancelled : BOOLEAN, goal : Goals])
      /\ current' \in Occupants /\ goal' \in Goals /\ current'.cell \in Actors
  <2>1. current' \in Occupants /\ goal' \in Goals /\ current'.cell \in Actors
    BY <1>1, StackTyped DEF PopDriver, Last, Occupants
  <2>2. drivers' \in Seq([cell : Actors, cancelled : BOOLEAN, goal : Goals])
    <3>. DEFINE D == [cell : Actors, cancelled : BOOLEAN, goal : Goals]
    <3>1. drivers \in Seq(D)
      BY DEF TypeOK
    <3>. HIDE DEF D
    <3>2. Front(drivers) \in Seq(D)
      BY <1>1, <3>1, FrontAndLast
    <3>. QED  BY <3>2 DEF PopDriver, D
  <2>. QED  BY <2>1, <2>2
<1>4. StackedOnce'
  <2>1. 1 \in Levels'
    BY <1>1, <1>2, StackTyped
  <2>. QED  BY <1>2, <2>1 DEF StackedOnce
<1>5. OpensOnce'
  BY <1>2, <1>3 DEF OpensOnce
<1>6. Below'
  BY <1>2 DEF Below
<1>7. CancelledAlone'
  BY <1>1, <1>2 DEF CancelledAlone
<1>8. GoalsFit'
  BY <1>1, <1>2 DEF GoalsFit, GoalFits
<1>9. SlotFits'
  BY <1>3, Names DEF SlotFits
<1>10. TornDown'
  <2> SUFFICES ASSUME NEW s \in Scopes, rethrown[s] # 0, scope[s] # "exited" PROVE Torn(s)'
    BY DEF TornDown
  <2>1. PICK i \in DOMAIN drivers : drivers[i].goal.kind = "teardown" /\ drivers[i].goal.id = s
    BY DEF TornDown, Torn
  <2>2. CASE i = n
    BY <1>2, <2>1, <2>2 DEF Torn
  <2>3. CASE i # n
    BY <1>2, <2>1, <2>3 DEF Torn
  <2>. QED  BY <2>2, <2>3
<1>. QED  BY <1>2, <1>3, <1>4, <1>5, <1>6, <1>7, <1>8, <1>9, <1>10

\* A task that panics leaves the drive loop it ran in.
LEMMA PanicStep ==
  ASSUME Inv, TaskPanics
  PROVE  Inv'
<1>1. /\ UNCHANGED <<owner, scope, queues, bodies, signal, parks, history>>
      /\ control = "user" /\ control' = "raised" /\ signal = "panic"
      /\ current.cell \in Tasks /\ bodies[current.cell] = <<>> /\ PopDriver
      /\ Fail(current.cell, TRUE)
  BY DEF TaskPanics, TaskStops
<1>2. TypeOK /\ Standing /\ SlotFits /\ GoalsFit /\ TornDown
  BY DEF Inv, Driving
<1>. USE DEF Standing
<1>3. current.cell \in Stacked /\ current.cell # Root /\ rethrown' = rethrown
  BY <1>1, <1>2, RunningIsOnTop, Names DEF history
<1>4. \A t \in Tasks : cell[t] # "none" => cell'[t] # "none"
  BY <1>1, <1>2 DEF Fail, TypeOK
<1>5. /\ Stacked' = Stacked \ {current.cell}
      /\ StackedOnce' /\ OpensOnce' /\ Below' /\ CancelledAlone' /\ GoalsFit' /\ SlotFits' /\ TornDown'
      /\ drivers' \in Seq([cell : Actors, cancelled : BOOLEAN, goal : Goals])
      /\ current' \in Occupants /\ goal' \in Goals
  BY <1>1, <1>2, <1>3, <1>4, DriverResumes
<1>6. /\ QueuedOnce' /\ Apart' /\ PlacedRun' /\ RunPlaced' /\ Owned'
      /\ cell[current.cell] = "running"
      /\ cell' \in [Tasks -> {"none", "pending", "running", "done", "failed"}]
  <2>1. cell' = [cell EXCEPT ![current.cell] = "failed"]
    BY <1>1 DEF Fail
  <2>. QED  BY <1>1, <1>2, <1>3, <1>5, <2>1, RunningSettles
<1>7. /\ Numbered' /\ Concluded' /\ NoSilentFailure' /\ RethrowsEarliest'
      /\ observed' \in [Tasks -> BOOLEAN] /\ order' \in [Tasks -> Nat] /\ failures' \in Nat
  BY <1>1, <1>2, <1>6, FailureIsLast
<1>8. TypeOK'
  BY <1>1, <1>2, <1>5, <1>6, <1>7 DEF TypeOK, queues, history
<1>9. Reached' /\ NeverStuck'
  BY <1>1 DEF Reached, NeverStuck
<1>. QED  BY <1>5, <1>6, <1>7, <1>8, <1>9 DEF Inv, Driving

-----------------------------------------------------------------------------
(* A drive starts, and tests its goal.                                       *)

\* The scope a goal sweeps is one of the program's, or none.
LEMMA SweptExists ==
  ASSUME TypeOK, NEW g \in Goals, NEW a \in Actors, GoalFits(g, a)
  PROVE  /\ SweptScope(g) \in Scopes \cup {NoScope}
         /\ g.kind # "value" => SweptScope(g) = g.id /\ g.id \in Scopes /\ g.id \in ToSet(bodies[a])
<1>1. CASE g.kind = "value"
  BY <1>1 DEF SweptScope, GoalFits, TypeOK
<1>2. CASE g.kind # "value"
  <2>1. bodies[a] \in Seq(Scopes) /\ bodies[a] # <<>> /\ g.id = Last(bodies[a])
    BY <1>2 DEF GoalFits, TypeOK
  <2>. QED  BY <1>2, <2>1, FrontAndLast DEF SweptScope
<1>. QED  BY <1>1, <1>2

\* sweep_scope moves pending tasks to the queue, and nothing else.
LEMMA Sweeping ==
  ASSUME TypeOK, Standing, NEW s \in Scopes \cup {NoScope}, BeginPending(s),
         UNCHANGED <<observed, order, failures, owner, scope, parked, bodies, outcome, rethrown>>,
         Stacked' \ {Idle} = Stacked \ {Idle}
  PROVE  /\ Held' = Held \cup Pending(s) /\ TaskSet(runnable') = TaskSet(runnable) \cup Pending(s)
         /\ QueuedOnce' /\ Apart' /\ PlacedRun' /\ RunPlaced' /\ Owned'
         /\ Numbered' /\ Concluded' /\ NoSilentFailure' /\ RethrowsEarliest'
         /\ cell' \in [Tasks -> {"none", "pending", "running", "done", "failed"}]
         /\ runnable' \in Seq(Entries)
         /\ \A t \in Tasks : cell'[t] = IF t \in Pending(s) THEN "running" ELSE cell[t]
         /\ \A r \in Scopes : UnobservedFailures(r)' = UnobservedFailures(r)
<1>. USE DEF Standing
<1>1. \A t \in Held : cell[t] = "running"
  BY HeldAreTasks DEF PlacedRun
<1>2. /\ cell' = [t \in Tasks |-> IF t \in Pending(s) THEN "running" ELSE cell[t]]
      /\ runnable' \in Seq(Entries) /\ Distinct(runnable')
      /\ TaskSet(runnable') = TaskSet(runnable) \cup Pending(s)
  BY <1>1, PendingBegin
<1>3. /\ cell' \in [Tasks -> {"none", "pending", "running", "done", "failed"}]
      /\ \A t \in Tasks : cell'[t] = IF t \in Pending(s) THEN "running" ELSE cell[t]
      /\ \A t \in Pending(s) : t \in Tasks /\ cell[t] = "pending"
  BY <1>2 DEF TypeOK, Pending, TasksOf
<1>4. Held' = Held \cup Pending(s)
  BY <1>2 DEF Held
<1>5. \A t \in Pending(s) : t \notin Held /\ t \notin Stacked
  BY <1>3 DEF PlacedRun
<1>6. QueuedOnce'
  BY <1>2, <1>5 DEF QueuedOnce, Held, Distinct
<1>7. Idle \notin Held' /\ Idle \notin Tasks
  BY <1>3, <1>4, HeldAreTasks, Names
<1>8. Apart'
  BY <1>4, <1>5, <1>7 DEF Apart
<1>9. PlacedRun' /\ RunPlaced' /\ Owned'
  <2>1. \A t \in Tasks : t \in Held' \cup Stacked' <=> t \in Held \cup Stacked \cup Pending(s)
    BY <1>4, <1>7
  <2>. QED  BY <1>3, <2>1 DEF PlacedRun, RunPlaced, Owned
<1>10. Numbered' /\ Concluded'
  BY <1>3 DEF Numbered, Concluded
<1>11. NoSilentFailure'
  BY <1>3 DEF NoSilentFailure, TasksOf
<1>12. \A r \in Scopes : UnobservedFailures(r)' = UnobservedFailures(r)
  BY <1>3 DEF UnobservedFailures, TasksOf
<1>13. RethrowsEarliest'
  <2>1. \A r \in Scopes : rethrown[r] # 0 => rethrown[r] \in Tasks
    BY DEF TypeOK
  <2>. QED  BY <1>3, <1>12, <2>1 DEF RethrowsEarliest
<1>. QED  BY <1>2, <1>3, <1>4, <1>6, <1>8, <1>9, <1>10, <1>11, <1>12, <1>13

\* A drive whose goal has not settled waits for a task that is in a queue: the
\* target's own cell says so, or a task of the scope runs, and nobody stands
\* above the actor that drives.
LEMMA SomebodyWaits ==
  ASSUME TypeOK, Standing, NEW g \in Goals, NEW i \in Levels, StackAt(i) \in Actors,
         \A j \in Levels : i < j => StackAt(j) = Idle,
         GoalFits(g, StackAt(i)),
         TaskSet(runnable') = TaskSet(runnable) \cup Pending(SweptScope(g)),
         \A t \in Tasks : cell'[t] = IF t \in Pending(SweptScope(g)) THEN "running" ELSE cell[t],
         ~Settled(g, cell'), ~DependsOnItself(g)
  PROVE  runnable' # <<>> \/ parked # <<>>
<1>. USE DEF Standing
<1>1. ASSUME NEW t \in TaskSet(runnable') \cup TaskSet(parked)
      PROVE  runnable' # <<>> \/ parked # <<>>
  BY <1>1 DEF TaskSet
<1>2. CASE g.kind = "value"
  <2>1. g.id \in Tasks /\ cell[g.id] # "none" /\ cell'[g.id] \notin {"done", "failed"}
    BY <1>2 DEF GoalFits, Settled
  <2>2. cell[g.id] \in {"pending", "running"}
    <3>1. cell[g.id] \in {"none", "pending", "running", "done", "failed"}
      BY <2>1 DEF TypeOK
    <3>2. cell[g.id] \in {"done", "failed"} => g.id \notin Pending(SweptScope(g))
      BY DEF Pending
    <3>. QED  BY <2>1, <3>1, <3>2
  <2>3. CASE cell[g.id] = "pending"
    <3>1. g.id \in Pending(SweptScope(g))
      BY <1>2, <2>1, <2>3 DEF SweptScope, Pending, TasksOf
    <3>. QED  BY <1>1, <3>1
  <2>4. CASE cell[g.id] = "running"
    <3>1. g.id \in TaskSet(runnable) \cup TaskSet(parked)
      BY <1>2, <2>4 DEF DependsOnItself, Held
    <3>. QED  BY <1>1, <3>1
  <2>. QED  BY <2>2, <2>3, <2>4
<1>3. CASE g.kind # "value"
  <2>1. PICK t \in TasksOf(g.id) : cell'[t] = "running"
    <3>1. g.kind = "settle" \/ g.kind = "teardown"
      BY <1>3 DEF GoalFits, Goals
    <3>. QED  BY <3>1 DEF Settled
  <2>2. t \in Tasks /\ owner[t] = g.id
    BY <2>1 DEF TasksOf
  <2>3. /\ SweptScope(g) = g.id /\ g.id \in Scopes
        /\ g.id \in ToSet(bodies[StackAt(i)])
    BY <1>3, SweptExists
  <2>4. CASE t \in Pending(g.id)
    BY <1>1, <2>3, <2>4
  <2>5. CASE t \notin Pending(g.id)
    <3>1. cell[t] = "running" /\ scope[g.id] = "open"
      BY <2>1, <2>2, <2>3, <2>5 DEF OpensOnce
    <3>2. t \in Held \cup Stacked
      BY <2>2, <3>1 DEF RunPlaced
    <3>3. t \notin Stacked
      <4> SUFFICES ASSUME NEW j \in Levels, StackAt(j) = t PROVE FALSE
        BY DEF Stacked
      <4>1. i < j
        BY <2>2, <2>3 DEF Below
      <4>. QED  BY <2>2, <4>1, Names
    <3>. QED  BY <1>1, <3>2, <3>3 DEF Held
  <2>. QED  BY <2>4, <2>5
<1>. QED  BY <1>2, <1>3

\* What a settled goal finds: nobody of its scope is left pending.
LEMMA GoalReached ==
  ASSUME TypeOK, NEW g \in Goals, NEW a \in Actors, GoalFits(g, a), Settled(g, cell'), goal' = g,
         UNCHANGED <<owner, observed>>,
         \A t \in Tasks : cell'[t] = IF t \in Pending(SweptScope(g)) THEN "running" ELSE cell[t],
         \A r \in Scopes : UnobservedFailures(r)' = UnobservedFailures(r)
  PROVE  (Settled(goal, cell) /\ (goal.kind # "value" => Pending(goal.id) = {}))'
<1>1. g.kind # "value" => SweptScope(g) = g.id /\ g.id \in Scopes
  BY SweptExists
<1>2. Settled(goal, cell)'
  <2>1. CASE g.kind = "value"
    BY <2>1 DEF Settled
  <2>2. CASE g.kind = "settle"
    BY <1>1, <2>2 DEF Settled, TasksOf
  <2>3. CASE g.kind = "teardown"
    BY <2>3 DEF Settled, TasksOf
  <2>. QED  BY <2>1, <2>2, <2>3 DEF Goals, GoalFits
<1>3. ASSUME goal'.kind # "value" PROVE Pending(goal.id)' = {}
  BY <1>1, <1>3 DEF Pending, TasksOf
<1>. QED  BY <1>2, <1>3

\* The running actor is set aside and its drive loop starts.
LEMMA DriveStarts ==
  ASSUME TypeOK, StackedOnce, OpensOnce, Below, CancelledAlone, GoalsFit, TornDown,
         control = "enter", current.cell \in Actors, ~current.cancelled,
         drivers' = Append(drivers, [cell |-> current.cell, cancelled |-> current.cancelled,
                                     goal |-> goal]),
         Vacate, control' = "loop", UNCHANGED <<bodies, owner, scope, rethrown>>,
         \A t \in Tasks : cell[t] # "none" => cell'[t] # "none"
  PROVE  /\ Stacked' = Stacked \cup {Idle}
         /\ StackedOnce' /\ OpensOnce' /\ Below' /\ CancelledAlone' /\ GoalsFit' /\ SlotFits'
         /\ TornDown' /\ Reached'
         /\ drivers' \in Seq([cell : Actors, cancelled : BOOLEAN, goal : Goals])
<1> DEFINE d == [cell |-> current.cell, cancelled |-> current.cancelled, goal |-> goal]
           n == Len(drivers)
<1>1. /\ d.cell = current.cell /\ d.cancelled = current.cancelled /\ d.goal = goal
      /\ current'.cell = Idle /\ ~current'.cancelled /\ drivers' = Append(drivers, d)
      /\ d \in [cell : Actors, cancelled : BOOLEAN, goal : Goals]
  <2>1. current.cancelled \in BOOLEAN /\ goal \in Goals
    BY StackTyped DEF TypeOK
  <2>2. d \in [cell : Actors, cancelled : BOOLEAN, goal : Goals]
    BY <2>1
  <2>. QED  BY <2>2 DEF Vacate
<1>. HIDE DEF d
<1>2. /\ \A i \in DOMAIN drivers : i \in DOMAIN drivers' /\ drivers'[i] = drivers[i]
      /\ DOMAIN drivers' = DOMAIN drivers \cup {n + 1} /\ drivers'[n + 1] = d
      /\ Levels' = Levels \cup {n + 2}
      /\ \A i \in Levels : StackAt(i)' = StackAt(i)
      /\ \A i \in Levels' : i \notin Levels => i = n + 2 /\ StackAt(i)' = Idle
      /\ Stacked' = Stacked \cup {Idle}
  BY <1>1, Pushed
<1>3. \A i \in Levels : i < n + 2 /\ StackAt(i) \in Actors
  BY StackTyped
<1>4. StackedOnce'
  <2>1. StackAt(1)' = Root
    BY <1>2, BottomLevel DEF StackedOnce
  <2>2. \A i, j \in Levels' : StackAt(i)' = StackAt(j)' => i = j
    BY <1>2, <1>3, Names DEF StackedOnce
  <2>. QED  BY <2>1, <2>2 DEF StackedOnce
<1>5. OpensOnce'
  BY <1>2 DEF OpensOnce
<1>6. Below'
  BY <1>2, Names DEF Below
<1>7. CancelledAlone'
  BY <1>1, <1>2 DEF CancelledAlone
<1>8. GoalsFit'
  BY <1>1, <1>2 DEF GoalsFit, GoalFits
<1>9. SlotFits' /\ Reached'
  BY <1>1 DEF SlotFits, Reached
<1>10. TornDown'
  <2> SUFFICES ASSUME NEW s \in Scopes, rethrown[s] # 0, scope[s] # "exited" PROVE Torn(s)'
    BY DEF TornDown
  <2>1. Torn(s)
    BY DEF TornDown
  <2>. QED  BY <1>1, <1>2, <2>1 DEF Torn
<1>11. drivers' \in Seq([cell : Actors, cancelled : BOOLEAN, goal : Goals])
  <2>. DEFINE D == [cell : Actors, cancelled : BOOLEAN, goal : Goals]
  <2>1. drivers \in Seq(D) /\ d \in D
    BY <1>1 DEF TypeOK
  <2>. HIDE DEF D
  <2>2. Append(drivers, d) \in Seq(D)
    BY <2>1
  <2>. QED  BY <1>1, <2>2 DEF D
<1>. QED  BY <1>2, <1>4, <1>5, <1>6, <1>7, <1>8, <1>9, <1>10, <1>11

\* drive's head keeps the invariant: a settled goal, a read that depends on
\* itself, a cancelled actor, or a drive loop that starts.
LEMMA EnterStep ==
  ASSUME Inv, Enter
  PROVE  Inv'
<1> DEFINE s == SweptScope(goal)
<1>1. /\ UNCHANGED <<observed, order, failures, owner, scope, parked, bodies, parks, history>>
      /\ UNCHANGED <<outcome, rethrown>>
      /\ control = "enter" /\ BeginPending(s)
  BY DEF Enter, history
<1>2. TypeOK /\ Standing /\ SlotFits /\ GoalsFit /\ TornDown /\ Reached
  BY DEF Inv, Driving
<1>. USE DEF Standing
<1>3. goal \in Goals /\ current.cell \in Actors /\ GoalFits(goal, current.cell) /\ signal = "none"
  BY <1>1, <1>2, RunningIsOnTop DEF TypeOK, SlotFits, GoalsFit, Reached
<1>4. s \in Scopes \cup {NoScope}
  BY <1>2, <1>3, SweptExists
<1>. HIDE DEF s
<1>5. ASSUME Stacked' \ {Idle} = Stacked \ {Idle}
      PROVE  /\ TaskSet(runnable') = TaskSet(runnable) \cup Pending(s)
             /\ QueuedOnce' /\ Apart' /\ PlacedRun' /\ RunPlaced' /\ Owned'
             /\ Numbered' /\ Concluded' /\ NoSilentFailure' /\ RethrowsEarliest'
             /\ cell' \in [Tasks -> {"none", "pending", "running", "done", "failed"}]
             /\ runnable' \in Seq(Entries)
             /\ \A t \in Tasks : cell'[t] = IF t \in Pending(s) THEN "running" ELSE cell[t]
             /\ \A r \in Scopes : UnobservedFailures(r)' = UnobservedFailures(r)
  BY <1>1, <1>2, <1>4, <1>5, Sweeping
<1>6. CASE UNCHANGED stack
  <2>1. /\ Levels' = Levels /\ Stacked' = Stacked /\ \A i \in Levels : StackAt(i)' = StackAt(i)
        /\ UNCHANGED <<drivers, current>>
    BY <1>6, StackUnmoved DEF stack
  <2>2. /\ QueuedOnce' /\ Apart' /\ PlacedRun' /\ RunPlaced' /\ Owned'
        /\ Numbered' /\ Concluded' /\ NoSilentFailure' /\ RethrowsEarliest'
        /\ cell' \in [Tasks -> {"none", "pending", "running", "done", "failed"}]
        /\ runnable' \in Seq(Entries)
        /\ \A t \in Tasks : cell'[t] = IF t \in Pending(s) THEN "running" ELSE cell[t]
        /\ \A r \in Scopes : UnobservedFailures(r)' = UnobservedFailures(r)
    BY <1>5, <2>1
  <2>3. StackedOnce' /\ OpensOnce' /\ Below'
    BY <1>1, <1>2, <2>1, BottomLevel DEF StackedOnce, OpensOnce, Below
  <2>4. CancelledAlone'
    BY <1>1, <1>2, <2>1 DEF CancelledAlone, TasksOf
  <2>5. \A t \in Tasks : cell[t] # "none" => cell'[t] # "none"
    BY <2>2
  <2>6. GoalFits(goal, current.cell)' \/ goal' # goal
    BY <1>1, <1>3, <2>1, <2>5 DEF GoalFits
  <2>7. (\A i \in DOMAIN drivers : GoalFits(drivers[i].goal, drivers[i].cell))'
    BY <1>1, <1>2, <2>1, <2>5, GoalsUnmoved
  <2>8. /\ goal' = goal /\ control' \in {"finish", "fatal", "raised"} /\ signal' \in Signals
        /\ control' = "finish" => Settled(goal, cell')
        /\ control' = "raised" => signal' = "error" /\ current.cancelled
        /\ control' = "fatal" => goal.kind = "value"
    <3>1. CASE Settled(goal, cell')
      BY <1>3, <3>1 DEF Enter, Signals
    <3>2. CASE ~Settled(goal, cell') /\ DependsOnItself(goal)
      BY <1>3, <3>2 DEF Enter, Signals, DependsOnItself
    <3>3. CASE ~Settled(goal, cell') /\ ~DependsOnItself(goal)
      <4>1. current.cancelled
        <5> SUFFICES ASSUME ~current.cancelled PROVE FALSE
          OBVIOUS
        <5>1. drivers' = Append(drivers, [cell |-> current.cell, cancelled |-> current.cancelled, goal |-> goal])
          BY <3>3 DEF Enter
        <5>2. Len(drivers') = Len(drivers) + 1 /\ Len(drivers) \in Nat
          BY <1>2, <5>1, StackTyped
        <5>. QED  BY <2>1, <5>2
      <4>. QED  BY <3>3, <4>1 DEF Enter, Signals
    <3>. QED  BY <3>1, <3>2, <3>3
  <2>9. GoalsFit' /\ SlotFits' /\ NeverStuck'
    BY <1>1, <1>2, <2>1, <2>6, <2>7, <2>8 DEF GoalsFit, SlotFits, NeverStuck
  <2>10. Reached'
    <3>1. control' = "finish" => (Settled(goal, cell) /\ (goal.kind # "value" => Pending(goal.id) = {}))'
      BY <1>1, <1>2, <1>3, <2>2, <2>8, GoalReached DEF s
    <3>. QED  BY <2>1, <2>8, <3>1 DEF Reached
  <2>11. TornDown'
    BY <1>1, <1>2, <2>1, <2>8 DEF TornDown, Torn
  <2>12. TypeOK'
    BY <1>1, <1>2, <2>1, <2>2, <2>8 DEF TypeOK, history
  <2>. QED  BY <2>2, <2>3, <2>4, <2>9, <2>10, <2>11, <2>12 DEF Inv, Driving
<1>7. CASE ~UNCHANGED stack
  <2>1. /\ ~Settled(goal, cell') /\ ~DependsOnItself(goal) /\ ~current.cancelled
        /\ drivers' = Append(drivers, [cell |-> current.cell, cancelled |-> current.cancelled, goal |-> goal])
        /\ Vacate /\ goal' = NoGoal /\ control' = "loop" /\ signal' = "none"
    BY <1>3, <1>7 DEF Enter
  <2>2. Stacked' = Stacked \cup {Idle}
    <3>. DEFINE d == [cell |-> current.cell, cancelled |-> current.cancelled, goal |-> goal]
    <3>1. d.cell = current.cell /\ current'.cell = Idle /\ drivers' = Append(drivers, d)
      BY <2>1 DEF Vacate
    <3>. HIDE DEF d
    <3>. QED  BY <1>2, <1>3, <3>1, Pushed
  <2>3. /\ TaskSet(runnable') = TaskSet(runnable) \cup Pending(s)
        /\ QueuedOnce' /\ Apart' /\ PlacedRun' /\ RunPlaced' /\ Owned'
        /\ Numbered' /\ Concluded' /\ NoSilentFailure' /\ RethrowsEarliest'
        /\ cell' \in [Tasks -> {"none", "pending", "running", "done", "failed"}]
        /\ runnable' \in Seq(Entries)
        /\ \A t \in Tasks : cell'[t] = IF t \in Pending(s) THEN "running" ELSE cell[t]
    BY <1>5, <2>2
  <2>4. \A t \in Tasks : cell[t] # "none" => cell'[t] # "none"
    BY <2>3
  <2>5. /\ StackedOnce' /\ OpensOnce' /\ Below' /\ CancelledAlone' /\ GoalsFit' /\ SlotFits'
        /\ TornDown' /\ Reached'
        /\ drivers' \in Seq([cell : Actors, cancelled : BOOLEAN, goal : Goals])
    BY <1>1, <1>2, <1>3, <2>1, <2>4, DriveStarts
  <2>6. NeverStuck'
    <3>. DEFINE top == Len(drivers) + 1
    <3>1. top \in Levels /\ StackAt(top) = current.cell /\ \A j \in Levels : ~(top < j)
      BY <1>2, StackTyped
    <3>. HIDE DEF top
    <3>2. runnable' # <<>> \/ parked # <<>>
      BY <1>2, <1>3, <2>1, <2>3, <3>1, SomebodyWaits DEF s
    <3>. QED  BY <1>1, <3>2 DEF NeverStuck
  <2>7. TypeOK'
    <3>1. current' \in Occupants /\ goal' \in Goals
      BY <2>1 DEF Vacate, Occupants, NoGoal, Goals, Signals
    <3>. QED  BY <1>1, <1>2, <2>1, <2>3, <2>5, <3>1 DEF TypeOK, history, Signals
  <2>. QED  BY <2>3, <2>5, <2>6, <2>7 DEF Inv, Driving
<1>. QED  BY <1>6, <1>7

\* The drive loop's test keeps the invariant: its driver resumes, or the loop
\* goes on with somebody to wait for.
LEMMA CheckStep ==
  ASSUME Inv, Check
  PROVE  Inv'
<1> DEFINE n == Len(drivers)
           g == Last(drivers).goal
           s == SweptScope(g)
<1>1. /\ UNCHANGED <<observed, order, failures, owner, scope, parked, bodies, signal, parks, history>>
      /\ UNCHANGED <<outcome, rethrown>>
      /\ control = "check" /\ BeginPending(s)
  BY DEF Check, history
<1>2. TypeOK /\ Standing /\ SlotFits /\ GoalsFit /\ TornDown
  BY DEF Inv, Driving
<1>. USE DEF Standing
<1>3. current.cell = Idle /\ current.cell # Root /\ current.cell \notin Actors
  BY <1>1, <1>2, Names DEF SlotFits, Actors
<1>4. /\ drivers # <<>> /\ n \in DOMAIN drivers /\ n \in Levels /\ g = drivers[n].goal
      /\ g \in Goals /\ drivers[n].cell \in Actors /\ StackAt(n) = drivers[n].cell
      /\ GoalFits(g, drivers[n].cell)
  <2>1. drivers # <<>> /\ n \in DOMAIN drivers
    BY <1>2, <1>3, SomebodyDrives
  <2>2. g = drivers[n].goal
    BY DEF Last
  <2>. QED  BY <1>2, <2>1, <2>2, StackTyped DEF GoalsFit
<1>5. s \in Scopes \cup {NoScope}
  BY <1>2, <1>4, SweptExists
<1>. HIDE DEF s
<1>6. ASSUME Stacked' \ {Idle} = Stacked \ {Idle}
      PROVE  /\ TaskSet(runnable') = TaskSet(runnable) \cup Pending(s)
             /\ QueuedOnce' /\ Apart' /\ PlacedRun' /\ RunPlaced' /\ Owned'
             /\ Numbered' /\ Concluded' /\ NoSilentFailure' /\ RethrowsEarliest'
             /\ cell' \in [Tasks -> {"none", "pending", "running", "done", "failed"}]
             /\ runnable' \in Seq(Entries)
             /\ \A t \in Tasks : cell'[t] = IF t \in Pending(s) THEN "running" ELSE cell[t]
             /\ \A t \in Tasks : cell[t] # "none" => cell'[t] # "none"
             /\ \A r \in Scopes : UnobservedFailures(r)' = UnobservedFailures(r)
  <2>1. /\ TaskSet(runnable') = TaskSet(runnable) \cup Pending(s)
        /\ QueuedOnce' /\ Apart' /\ PlacedRun' /\ RunPlaced' /\ Owned'
        /\ Numbered' /\ Concluded' /\ NoSilentFailure' /\ RethrowsEarliest'
        /\ cell' \in [Tasks -> {"none", "pending", "running", "done", "failed"}]
        /\ runnable' \in Seq(Entries)
        /\ \A t \in Tasks : cell'[t] = IF t \in Pending(s) THEN "running" ELSE cell[t]
        /\ \A r \in Scopes : UnobservedFailures(r)' = UnobservedFailures(r)
    BY <1>1, <1>2, <1>5, <1>6, Sweeping
  <2>. QED  BY <2>1
<1>7. CASE Settled(g, cell')
  <2>1. PopDriver /\ control' = "finish" /\ goal' = g
    BY <1>7 DEF Check, PopDriver
  <2>2. Stacked' = Stacked \ {Idle}
    BY <1>2, <1>3, <1>4, <2>1, Popped
  <2>3. /\ QueuedOnce' /\ Apart' /\ PlacedRun' /\ RunPlaced' /\ Owned'
        /\ Numbered' /\ Concluded' /\ NoSilentFailure' /\ RethrowsEarliest'
        /\ cell' \in [Tasks -> {"none", "pending", "running", "done", "failed"}]
        /\ runnable' \in Seq(Entries)
        /\ \A t \in Tasks : cell'[t] = IF t \in Pending(s) THEN "running" ELSE cell[t]
        /\ \A t \in Tasks : cell[t] # "none" => cell'[t] # "none"
        /\ \A r \in Scopes : UnobservedFailures(r)' = UnobservedFailures(r)
    BY <1>6, <2>2
  <2>4. /\ StackedOnce' /\ OpensOnce' /\ Below' /\ CancelledAlone' /\ GoalsFit' /\ SlotFits'
        /\ TornDown'
        /\ drivers' \in Seq([cell : Actors, cancelled : BOOLEAN, goal : Goals])
        /\ current' \in Occupants /\ goal' \in Goals
    BY <1>1, <1>2, <1>3, <2>1, <2>3, DriverResumes
  <2>5. (Settled(goal, cell) /\ (goal.kind # "value" => Pending(goal.id) = {}))'
    <3>. HIDE DEF g
    <3>. QED  BY <1>1, <1>2, <1>4, <1>7, <2>1, <2>3, GoalReached DEF s
  <2>6. Reached' /\ NeverStuck'
    BY <2>1, <2>5 DEF Reached, NeverStuck
  <2>7. TypeOK'
    BY <1>1, <1>2, <2>1, <2>3, <2>4 DEF TypeOK, history
  <2>. QED  BY <2>3, <2>4, <2>6, <2>7 DEF Inv, Driving
<1>8. CASE ~Settled(g, cell')
  <2>1. /\ control' = (IF DependsOnItself(g) THEN "fatal" ELSE "loop")
        /\ UNCHANGED <<stack, goal, drivers, current>>
    BY <1>8 DEF Check, stack
  <2>2. Levels' = Levels /\ Stacked' = Stacked /\ \A i \in Levels : StackAt(i)' = StackAt(i)
    BY <2>1, StackUnmoved
  <2>3. /\ TaskSet(runnable') = TaskSet(runnable) \cup Pending(s)
        /\ QueuedOnce' /\ Apart' /\ PlacedRun' /\ RunPlaced' /\ Owned'
        /\ Numbered' /\ Concluded' /\ NoSilentFailure' /\ RethrowsEarliest'
        /\ cell' \in [Tasks -> {"none", "pending", "running", "done", "failed"}]
        /\ runnable' \in Seq(Entries)
        /\ \A t \in Tasks : cell'[t] = IF t \in Pending(s) THEN "running" ELSE cell[t]
        /\ \A t \in Tasks : cell[t] # "none" => cell'[t] # "none"
    BY <1>6, <2>2
  <2>4. StackedOnce' /\ OpensOnce' /\ Below'
    BY <1>1, <1>2, <2>2, BottomLevel DEF StackedOnce, OpensOnce, Below
  <2>5. CancelledAlone' /\ TornDown'
    BY <1>1, <1>2, <2>1, TornBelow DEF CancelledAlone, TasksOf
  <2>6. (\A i \in DOMAIN drivers : GoalFits(drivers[i].goal, drivers[i].cell))'
    BY <1>1, <1>2, <2>1, <2>3, GoalsUnmoved
  <2>7. GoalsFit' /\ SlotFits' /\ Reached'
    BY <1>3, <2>1, <2>6 DEF GoalsFit, SlotFits, Reached
  <2>8. NeverStuck'
    <3>1. CASE DependsOnItself(g)
      BY <2>1, <3>1 DEF NeverStuck
    <3>2. CASE ~DependsOnItself(g)
      <4>1. \A j \in Levels : n < j => StackAt(j) = Idle
        BY <1>2, <1>3, StackTyped
      <4>. HIDE DEF n, g
      <4>2. runnable' # <<>> \/ parked # <<>>
        BY <1>2, <1>4, <1>8, <2>3, <3>2, <4>1, SomebodyWaits DEF s
      <4>. QED  BY <1>1, <4>2 DEF NeverStuck
    <3>. QED  BY <3>1, <3>2
  <2>9. TypeOK'
    BY <1>1, <1>2, <2>1, <2>3 DEF TypeOK, history
  <2>. QED  BY <2>3, <2>4, <2>5, <2>7, <2>8, <2>9 DEF Inv, Driving
<1>. QED  BY <1>7, <1>8

\* A turn of the drive loop keeps the invariant: the task that was picked leaves
\* the queues for the empty slot.
LEMMA RunStep ==
  ASSUME Inv, Run
  PROVE  Inv'
<1>1. /\ UNCHANGED <<cells, owner, scope, drivers, bodies, goal, parks, history>>
      /\ control = "loop" /\ control' = "user"
  BY DEF Run
<1>2. TypeOK /\ Standing /\ SlotFits /\ GoalsFit /\ TornDown
  BY DEF Inv, Driving
<1>. USE DEF Standing
<1>3. PICK t \in Held :
        /\ runnable' \in Seq(Entries) /\ parked' \in Seq(Waiters)
        /\ QueuedOnce' /\ Held' = Held \ {t}
        /\ current'.cell = t /\ current'.cancelled \in BOOLEAN /\ current' \in Occupants
        /\ signal' \in Signals
  <2>1. PICK expired \in SUBSET {k \in DOMAIN parked : parked[k].wait = "timer"},
             jobs \in SUBSET {k \in DOMAIN parked : parked[k].wait = "job"} :
          \E finished \in SetToSeqs(jobs), result \in [jobs -> {"value", "error"}] :
            LET q == Absorbed(expired, finished, result)
                i == Picked(Last(drivers).goal, q)
            IN  /\ q # <<>>
                /\ runnable' = Only(q, DOMAIN q \ {i})
                /\ parked' = Only(parked, DOMAIN parked \ (expired \cup jobs))
                /\ current' = [cell |-> q[i].task, cancelled |-> q[i].cancelled]
                /\ signal' = IF q[i].resume = "error" THEN "error" ELSE "none"
    BY DEF Run
  <2>2. PICK finished \in SetToSeqs(jobs), result \in [jobs -> {"value", "error"}] :
            LET q == Absorbed(expired, finished, result)
                i == Picked(Last(drivers).goal, q)
            IN  /\ q # <<>>
                /\ runnable' = Only(q, DOMAIN q \ {i})
                /\ parked' = Only(parked, DOMAIN parked \ (expired \cup jobs))
                /\ current' = [cell |-> q[i].task, cancelled |-> q[i].cancelled]
                /\ signal' = IF q[i].resume = "error" THEN "error" ELSE "none"
    BY <2>1
  <2>. DEFINE queue == Absorbed(expired, finished, result)
              i == Picked(Last(drivers).goal, queue)
  <2>3. /\ current' = [cell |-> queue[i].task, cancelled |-> queue[i].cancelled]
        /\ signal' = IF queue[i].resume = "error" THEN "error" ELSE "none"
    BY <2>2
  <2>4. Turn(queue, i)
    BY <2>2 DEF Turn
  <2>. HIDE DEF queue, i
  <2>5. /\ queue[i].task \in Held /\ queue[i].cancelled \in BOOLEAN
        /\ runnable' \in Seq(Entries) /\ parked' \in Seq(Waiters)
        /\ Distinct(runnable') /\ Distinct(parked')
        /\ TaskSet(runnable') \cap TaskSet(parked') = {}
        /\ TaskSet(runnable') \cup TaskSet(parked') = Held \ {queue[i].task}
    BY <1>2, <2>4, TurnTakesOne
  <2>6. QueuedOnce' /\ Held' = Held \ {queue[i].task}
    BY <2>5 DEF QueuedOnce, Held, Distinct
  <2>7. queue[i].task \in Actors /\ current' \in Occupants
    BY <1>2, <2>3, <2>5, HeldAreTasks, Names DEF Occupants
  <2>8. signal' \in Signals
    BY <2>3 DEF Signals
  <2>. QED  BY <2>3, <2>5, <2>6, <2>7, <2>8
<1>4. current.cell = Idle /\ t \in Tasks /\ t \notin Stacked /\ bodies[t] = <<>>
  BY <1>1, <1>2, HeldAreTasks, Names DEF SlotFits, Apart, OpensOnce
<1>5. /\ Levels' = Levels
      /\ \A i \in DOMAIN drivers : StackAt(i)' = StackAt(i)
      /\ \A i \in Levels : i \notin DOMAIN drivers => i = Len(drivers) + 1 /\ StackAt(i)' = t
      /\ Stacked' = (Stacked \ {Idle}) \cup {t}
  <2>1. \A i \in Levels : i \notin DOMAIN drivers => i = Len(drivers) + 1
    BY <1>2, StackTyped
  <2>. QED  BY <1>1, <1>2, <1>3, <1>4, <2>1, SlotChanged
<1>6. \A i \in DOMAIN drivers : i \in Levels /\ i < Len(drivers) + 1 /\ StackAt(i) # t /\ StackAt(i) \in Actors
  BY <1>2, <1>4, StackTyped DEF Stacked
<1>7. TypeOK'
  BY <1>1, <1>2, <1>3 DEF TypeOK, cells, history
<1>8. StackedOnce'
  <2>1. 1 \in DOMAIN drivers
    BY <1>2, <1>4, SomebodyDrives, StackTyped, Names DEF Actors
  <2>2. StackAt(1)' = Root
    BY <1>2, <1>5, <2>1 DEF StackedOnce
  <2>3. \A i, j \in Levels' : StackAt(i)' = StackAt(j)' => i = j
    BY <1>2, <1>5, <1>6 DEF StackedOnce
  <2>. QED  BY <2>2, <2>3 DEF StackedOnce
<1>9. Apart' /\ PlacedRun' /\ RunPlaced'
  <2>1. Idle \notin Tasks /\ Idle \notin Held
    BY <1>2, HeldAreTasks, Names
  <2>2. Apart'
    BY <1>2, <1>3, <1>5 DEF Apart
  <2>3. \A u \in Tasks : u \in Held' \cup Stacked' <=> u \in Held \cup Stacked
    BY <1>3, <1>5, <2>1
  <2>. QED  BY <1>1, <1>2, <2>2, <2>3 DEF PlacedRun, RunPlaced, cells
<1>10. Owned' /\ Numbered' /\ Concluded' /\ NoSilentFailure'
  BY <1>1, <1>2 DEF Owned, Numbered, Concluded, NoSilentFailure, TasksOf, cells, history
<1>11. RethrowsEarliest'
  BY <1>1, <1>2 DEF RethrowsEarliest, TasksOf, UnobservedFailures, cells, history
<1>12. OpensOnce'
  <2>1. \A a \in Actors : a \in Stacked => a \in Stacked'
    BY <1>5, Names
  <2>. QED  BY <1>1, <1>2, <2>1 DEF OpensOnce
<1>13. Below'
  <2> SUFFICES ASSUME NEW i \in Levels, NEW j \in Levels,
                      StackAt(i)' \in Actors, StackAt(j)' \in Tasks,
                      owner[StackAt(j)'] \in ToSet(bodies[StackAt(i)'])
               PROVE  i < j
    BY <1>1, <1>5 DEF Below
  <2>1. i \in DOMAIN drivers
    BY <1>4, <1>5 DEF ToSet
  <2>2. CASE j \in DOMAIN drivers
    BY <1>2, <1>5, <1>6, <2>1, <2>2 DEF Below
  <2>3. CASE j \notin DOMAIN drivers
    BY <1>5, <1>6, <2>1, <2>3
  <2>. QED  BY <2>2, <2>3
<1>14. CancelledAlone'
  BY <1>1, <1>2, <1>3, <1>4, Names DEF CancelledAlone, ToSet
<1>15. TornDown' /\ current'.cell # Idle
  BY <1>1, <1>2, <1>3, <1>4, TornBelow, Names DEF history
<1>16. Driving'
  BY <1>1, <1>2, <1>15, ProgramRuns DEF cells
<1>. QED  BY <1>3, <1>7, <1>8, <1>9, <1>10, <1>11, <1>12, <1>13, <1>14, <1>16 DEF Inv

-----------------------------------------------------------------------------
(* A scope settles: it is torn down, or it exits.                            *)

\* The trigger of a teardown, where a failure was rethrown; nobody otherwise.
Triggers(s, seen) ==
  \/ seen = {} /\ UNCHANGED rethrown
  \/ /\ UnobservedFailures(s) # {}
     /\ seen = {FirstUnobserved(s)}
     /\ rethrown' = [rethrown EXCEPT ![s] = FirstUnobserved(s)]

\* cancel_scope leaves the tasks that never ran failed and read, and everybody
\* else where it was: what was parked waits in the other queue.
LEMMA Cancelling ==
  ASSUME TypeOK, Standing, NEW s \in Scopes, scope[s] = "open", NEW seen \in SUBSET Tasks,
         CancelScope(s, seen), Triggers(s, seen),
         UNCHANGED <<owner, scope, stack, bodies, outcome>>
  PROVE  /\ Standing'
         /\ cell' \in [Tasks -> {"none", "pending", "running", "done", "failed"}]
         /\ observed' \in [Tasks -> BOOLEAN] /\ order' \in [Tasks -> Nat] /\ failures' \in Nat
         /\ runnable' \in Seq(Entries) /\ parked' \in Seq(Waiters)
         /\ rethrown' \in [Scopes -> Tasks \cup {0}]
         /\ \A t \in Tasks : cell[t] # "none" => cell'[t] # "none"
         /\ \A r \in Scopes : r # s => rethrown'[r] = rethrown[r]
<1>. USE DEF Standing
<1>1. /\ cell' = [t \in Tasks |-> IF t \in Unstarted(s) THEN "failed" ELSE cell[t]]
      /\ observed' = [t \in Tasks |-> observed[t] \/ t \in Unstarted(s) \cup seen]
      /\ order' \in [Tasks -> Nat]
      /\ \A t \in Tasks : IF t \in Unstarted(s) THEN order'[t] < failures' ELSE order'[t] = order[t]
      /\ failures' \in Nat /\ failures =< failures'
      /\ runnable' = CancelledQueue(s)
      /\ parked' = Without(parked, s)
  BY CancelScopeSettles
<1>2. /\ runnable' \in Seq(Entries) /\ Distinct(runnable')
      /\ TaskSet(runnable') = (TaskSet(runnable) \ NeverRan(s)) \cup (TaskSet(parked) \cap TasksOf(s))
  BY <1>1, CancelledQueues
<1>3. /\ parked' \in Seq(Waiters) /\ Distinct(parked')
      /\ TaskSet(parked') = TaskSet(parked) \ TasksOf(s)
  <2>1. parked \in Seq(Waiters) /\ TaskSet(parked) \subseteq Tasks /\ Distinct(parked)
    BY HeldAreTasks DEF TypeOK, QueuedOnce
  <2>. QED  BY <1>1, <2>1, WithoutScope
<1>4. NeverRan(s) \subseteq TaskSet(runnable)
  BY DEF NeverRan, Fresh, Of, TaskSet
<1>5. Held' = Held \ NeverRan(s)
  BY <1>2, <1>3, <1>4 DEF Held, QueuedOnce
<1>6. \A t \in Unstarted(s) : t \in Tasks /\ cell[t] \in {"pending", "running"} /\ t \notin Held'
  <2>1. \A t \in Pending(s) : t \in Tasks /\ cell[t] = "pending" /\ t \notin Held
    BY DEF Pending, TasksOf, PlacedRun
  <2>2. \A t \in NeverRan(s) : t \in Tasks /\ cell[t] = "running"
    BY <1>4, HeldAreTasks DEF PlacedRun, Held
  <2>. QED  BY <1>5, <2>1, <2>2 DEF Unstarted
<1>7. /\ cell' \in [Tasks -> {"none", "pending", "running", "done", "failed"}]
      /\ observed' \in [Tasks -> BOOLEAN]
      /\ \A t \in Tasks : cell'[t] = IF t \in Unstarted(s) THEN "failed" ELSE cell[t]
      /\ \A t \in Tasks : observed'[t] <=> observed[t] \/ t \in Unstarted(s) \cup seen
  <2>1. cell' \in [Tasks -> {"none", "pending", "running", "done", "failed"}]
    BY <1>1 DEF TypeOK
  <2>2. observed' \in [Tasks -> BOOLEAN]
    BY <1>1 DEF TypeOK
  <2>. QED  BY <1>1, <2>1, <2>2
<1>8. /\ Levels' = Levels /\ Stacked' = Stacked /\ \A i \in Levels : StackAt(i)' = StackAt(i)
  BY StackUnmoved
<1>9. QueuedOnce' /\ StackedOnce' /\ Apart'
  <2>1. QueuedOnce'
    BY <1>2, <1>3, <1>4 DEF QueuedOnce, Distinct
  <2>2. StackedOnce' /\ Apart'
    BY <1>5, <1>8, BottomLevel DEF StackedOnce, Apart
  <2>. QED  BY <2>1, <2>2
<1>10. PlacedRun' /\ RunPlaced' /\ Owned'
  <2>1. \A t \in Unstarted(s) : t \notin Stacked
    BY <1>4 DEF Unstarted, Pending, TasksOf, PlacedRun, Apart, Held
  <2>2. PlacedRun'
    BY <1>5, <1>6, <1>7, <1>8, <2>1 DEF PlacedRun
  <2>3. RunPlaced'
    <3>1. \A t \in NeverRan(s) : t \in Unstarted(s)
      BY DEF Unstarted
    <3>. QED  BY <1>5, <1>7, <1>8, <3>1 DEF RunPlaced
  <2>4. Owned'
    BY <1>6, <1>7 DEF Owned
  <2>. QED  BY <2>2, <2>3, <2>4
<1>11. OpensOnce' /\ Below' /\ CancelledAlone' /\ Concluded'
  <2>1. UNCHANGED <<bodies, owner, scope, drivers, current, outcome>>
    BY DEF stack
  <2>2. OpensOnce'
    BY <1>8, <2>1 DEF OpensOnce
  <2>3. Below'
    BY <1>8, <2>1 DEF Below
  <2>4. CancelledAlone' /\ Concluded'
    BY <2>1 DEF CancelledAlone, Concluded, TasksOf
  <2>. QED  BY <2>2, <2>3, <2>4
<1>12. Numbered'
  <2>1. \A t \in Tasks : cell'[t] = "failed" => order'[t] < failures'
    BY <1>1, <1>7 DEF Numbered, TypeOK
  <2>2. \A t \in Tasks : cell'[t] = "failed" /\ ~observed'[t] =>
                           cell[t] = "failed" /\ ~observed[t] /\ order'[t] = order[t]
    BY <1>1, <1>7
  <2>. QED  BY <2>1, <2>2 DEF Numbered
<1>13. NoSilentFailure'
  BY <1>6, <1>7 DEF NoSilentFailure, TasksOf
<1>14. \A r \in Scopes : UnobservedFailures(r)' \subseteq UnobservedFailures(r) \ seen
  BY <1>7 DEF UnobservedFailures, TasksOf
<1>15. \A r \in Scopes : \A u \in UnobservedFailures(r) : u \in Tasks /\ u \notin Unstarted(s) /\ order'[u] = order[u]
  BY <1>1, <1>6 DEF UnobservedFailures, TasksOf
<1>16. /\ rethrown' \in [Scopes -> Tasks \cup {0}]
       /\ \A r \in Scopes : r # s => rethrown'[r] = rethrown[r]
       /\ seen # {} => /\ UnobservedFailures(s) # {} /\ seen = {FirstUnobserved(s)}
                       /\ rethrown'[s] = FirstUnobserved(s) /\ FirstUnobserved(s) \in UnobservedFailures(s)
       /\ seen = {} => rethrown' = rethrown
  <2>1. rethrown \in [Scopes -> Tasks \cup {0}]
    BY DEF TypeOK
  <2>2. CASE seen = {} /\ UNCHANGED rethrown
    BY <2>1, <2>2
  <2>3. CASE /\ UnobservedFailures(s) # {} /\ seen = {FirstUnobserved(s)}
             /\ rethrown' = [rethrown EXCEPT ![s] = FirstUnobserved(s)]
    <3>1. FirstUnobserved(s) \in UnobservedFailures(s) /\ FirstUnobserved(s) \in Tasks
      BY <1>15, <2>3, FirstIsEarliest
    <3>. QED  BY <2>1, <2>3, <3>1
  <2>. QED  BY <2>2, <2>3 DEF Triggers
<1>17. RethrowsEarliest'
  <2> SUFFICES ASSUME NEW r \in Scopes, rethrown'[r] # 0
               PROVE  /\ cell'[rethrown'[r]] = "failed" /\ observed'[rethrown'[r]]
                      /\ \A u \in UnobservedFailures(r)' : order'[rethrown'[r]] < order'[u]
                      /\ scope[r] = "exited" => outcome[r] \in {"error", "panic"}
    BY DEF RethrowsEarliest
  <2>1. CASE rethrown'[r] = rethrown[r]
    <3> DEFINE t == rethrown[r]
    <3>1. /\ t \in Tasks /\ cell[t] = "failed" /\ observed[t]
          /\ \A u \in UnobservedFailures(r) : order[t] < order[u]
          /\ scope[r] = "exited" => outcome[r] \in {"error", "panic"}
      BY <2>1 DEF TypeOK, RethrowsEarliest
    <3>2. t \notin Unstarted(s) /\ order'[t] = order[t]
      BY <1>1, <1>6, <3>1
    <3>. HIDE DEF t
    <3>3. cell'[t] = "failed" /\ observed'[t]
      BY <1>7, <3>1, <3>2
    <3>4. \A u \in UnobservedFailures(r)' : order'[t] < order'[u]
      BY <1>14, <1>15, <3>1, <3>2
    <3>. QED  BY <2>1, <3>1, <3>3, <3>4 DEF t
  <2>2. CASE r = s /\ seen # {}
    <3> DEFINE t == FirstUnobserved(s)
    <3>1. /\ t \in UnobservedFailures(s) /\ rethrown'[s] = t /\ seen = {t}
          /\ \A u \in UnobservedFailures(s) : order[t] =< order[u]
      BY <1>16, <2>2, FirstIsEarliest
    <3>. HIDE DEF t
    <3>2. t \in Tasks /\ cell[t] = "failed" /\ ~observed[t] /\ t \notin Unstarted(s) /\ order'[t] = order[t]
      BY <1>15, <3>1 DEF UnobservedFailures
    <3>3. cell'[t] = "failed" /\ observed'[t]
      BY <1>7, <3>1, <3>2
    <3>4. \A u \in UnobservedFailures(s)' : order'[t] < order'[u]
      <4> SUFFICES ASSUME NEW u \in UnobservedFailures(s)' PROVE order'[t] < order'[u]
        OBVIOUS
      <4>1. u \in UnobservedFailures(s) /\ u # t
        BY <1>14, <3>1
      <4>2. u \in Tasks /\ order'[u] = order[u] /\ order[t] # order[u]
        BY <1>15, <3>2, <4>1 DEF Numbered, UnobservedFailures
      <4>. QED  BY <3>1, <3>2, <4>1, <4>2 DEF TypeOK
    <3>. QED  BY <2>2, <3>1, <3>3, <3>4
  <2>. QED  BY <1>16, <2>1, <2>2
<1>. QED  BY <1>1, <1>2, <1>3, <1>6, <1>7, <1>9, <1>10, <1>11, <1>12, <1>13, <1>16, <1>17

\* cancel_and_settle starts: the teardown of the innermost scope of the running
\* actor is entered.
LEMMA TearDownStep ==
  ASSUME Inv, current.cell \in Actors, bodies[current.cell] # <<>>,
         NEW s, s = Last(bodies[current.cell]),
         NEW seen \in SUBSET Tasks, NEW then \in {"error", "panic", "failure"},
         TearDown(s, seen, then), Triggers(s, seen),
         control \in {"user", "finish", "raised"},
         control = "user" \/ goal.kind # "teardown" \/ goal.id = s
  PROVE  Inv'
<1>1. /\ CancelScope(s, seen)
      /\ goal' = [kind |-> "teardown", id |-> s, then |-> then]
      /\ control' = "enter" /\ signal' = "none"
      /\ UNCHANGED <<owner, scope, stack, bodies, parks, outcome>>
  BY DEF TearDown
<1>2. TypeOK /\ Standing /\ SlotFits /\ GoalsFit /\ TornDown
  BY DEF Inv, Driving
<1>3. s \in Scopes /\ scope[s] = "open"
  <2>1. bodies[current.cell] \in Seq(Scopes)
    BY <1>2 DEF TypeOK
  <2>2. s \in Scopes /\ s \in ToSet(bodies[current.cell])
    BY <2>1, FrontAndLast
  <2>. QED  BY <1>2, <2>2 DEF Standing, OpensOnce
<1>4. /\ Standing'
      /\ cell' \in [Tasks -> {"none", "pending", "running", "done", "failed"}]
      /\ observed' \in [Tasks -> BOOLEAN] /\ order' \in [Tasks -> Nat] /\ failures' \in Nat
      /\ runnable' \in Seq(Entries) /\ parked' \in Seq(Waiters)
      /\ rethrown' \in [Scopes -> Tasks \cup {0}]
      /\ \A t \in Tasks : cell[t] # "none" => cell'[t] # "none"
      /\ \A r \in Scopes : r # s => rethrown'[r] = rethrown[r]
  BY <1>1, <1>2, <1>3, Cancelling
<1>5. TypeOK'
  BY <1>1, <1>2, <1>3, <1>4 DEF TypeOK, Goals, Signals, stack
<1>6. SlotFits' /\ Reached' /\ NeverStuck'
  BY <1>1, Names DEF SlotFits, Reached, NeverStuck, stack
<1>7. GoalsFit'
  <2>1. (\A i \in DOMAIN drivers : GoalFits(drivers[i].goal, drivers[i].cell))'
    BY <1>1, <1>2, <1>4, GoalsUnmoved DEF stack
  <2>2. GoalFits(goal, current.cell)'
    BY <1>1 DEF GoalFits, stack
  <2>. QED  BY <2>1, <2>2 DEF GoalsFit
<1>8. TornDown'
  <2> SUFFICES ASSUME NEW r \in Scopes, rethrown'[r] # 0, scope[r] # "exited" PROVE Torn(r)'
    BY <1>1 DEF TornDown
  <2>1. CASE r = s
    BY <1>1, <2>1 DEF Torn
  <2>2. CASE r # s
    <3>1. Torn(r)
      BY <1>2, <1>4, <2>2 DEF TornDown
    <3>. QED  BY <1>1, <3>1 DEF Torn, stack
  <2>. QED  BY <2>1, <2>2
<1>. QED  BY <1>4, <1>5, <1>6, <1>7, <1>8 DEF Inv, Driving

\* concurrent_call ends: the innermost scope of the running actor exits, and
\* answers a value only when nobody of it is left unsettled or unread.
LEMMA ExitStep ==
  ASSUME Inv, control \in {"finish", "raised"}, goal.kind # "value",
         NEW sig \in Signals, ExitScope(goal.id, sig),
         sig = "none" =>
           goal.kind = "settle" /\ control = "finish" /\ UnobservedFailures(goal.id) = {}
  PROVE  Inv'
<1> DEFINE s == goal.id
           a == current.cell
<1>1. /\ scope' = [scope EXCEPT ![s] = "exited"]
      /\ runnable' = Without(runnable, s) /\ parked' = Without(parked, s)
      /\ bodies' = [bodies EXCEPT ![a] = Front(@)]
      /\ outcome' = [outcome EXCEPT ![s] = IF sig = "none" THEN "value" ELSE sig]
      /\ goal' = NoGoal /\ control' = "user" /\ signal' = sig
      /\ UNCHANGED <<cells, owner, stack, parks, rethrown>>
  BY DEF ExitScope, Purge
<1>2. TypeOK /\ Standing /\ SlotFits /\ GoalsFit /\ TornDown /\ Reached
  BY DEF Inv, Driving
<1>. USE DEF Standing
<1>3. /\ a \in Actors /\ a \in Stacked /\ \A i \in DOMAIN drivers : drivers[i].cell # a
      /\ current.cell # Idle
  BY <1>2, RunningIsOnTop DEF SlotFits
<1>4. GoalFits(goal, a)
  BY <1>2 DEF GoalsFit
<1>5. /\ bodies[a] \in Seq(Scopes) /\ bodies[a] # <<>> /\ s = Last(bodies[a])
      /\ s \in Scopes /\ s \in ToSet(bodies[a]) /\ IsInjective(bodies[a])
      /\ Front(bodies[a]) \in Seq(Scopes) /\ ToSet(Front(bodies[a])) = ToSet(bodies[a]) \ {s}
      /\ IsInjective(Front(bodies[a]))
  <2>1. bodies[a] \in Seq(Scopes) /\ bodies[a] # <<>> /\ s = Last(bodies[a]) /\ IsInjective(bodies[a])
    BY <1>2, <1>3, <1>4 DEF TypeOK, GoalFits, OpensOnce
  <2>. HIDE DEF s
  <2>. QED  BY <2>1, FrontAndLast
<1>6. /\ bodies' \in [Actors -> Seq(Scopes)] /\ bodies'[a] = Front(bodies[a])
      /\ \A b \in Actors : b # a => bodies'[b] = bodies[b]
      /\ \A b \in Actors : ToSet(bodies'[b]) \subseteq ToSet(bodies[b])
  <2>1. /\ bodies' \in [Actors -> Seq(Scopes)] /\ bodies'[a] = Front(bodies[a])
        /\ \A b \in Actors : b # a => bodies'[b] = bodies[b]
    BY <1>1, <1>2, <1>3, <1>5 DEF TypeOK
  <2>. QED  BY <1>5, <2>1
<1>7. /\ scope \in [Scopes -> {"none", "open", "exited"}]
      /\ scope' \in [Scopes -> {"none", "open", "exited"}] /\ scope'[s] = "exited"
      /\ \A r \in Scopes : r # s => scope'[r] = scope[r]
      /\ outcome' \in [Scopes -> {"open", "value", "error", "panic"}]
      /\ outcome'[s] = (IF sig = "none" THEN "value" ELSE sig)
      /\ \A r \in Scopes : r # s => outcome'[r] = outcome[r]
  BY <1>1, <1>2, <1>5 DEF TypeOK, Signals
<1>8. /\ Levels' = Levels /\ Stacked' = Stacked /\ \A i \in Levels : StackAt(i)' = StackAt(i)
      /\ UNCHANGED <<drivers, current, cell, observed, order, failures>>
  BY <1>1, StackUnmoved DEF stack, cells
<1>9. /\ runnable' \in Seq(Entries) /\ Distinct(runnable')
      /\ TaskSet(runnable') = TaskSet(runnable) \ TasksOf(s)
  <2>1. runnable \in Seq(Entries) /\ TaskSet(runnable) \subseteq Tasks /\ Distinct(runnable)
    BY <1>2, HeldAreTasks DEF TypeOK, QueuedOnce
  <2>. HIDE DEF s
  <2>. QED  BY <1>1, <1>5, <2>1, WithoutScope
<1>10. /\ parked' \in Seq(Waiters) /\ Distinct(parked')
       /\ TaskSet(parked') = TaskSet(parked) \ TasksOf(s)
  <2>1. parked \in Seq(Waiters) /\ TaskSet(parked) \subseteq Tasks /\ Distinct(parked)
    BY <1>2, HeldAreTasks DEF TypeOK, QueuedOnce
  <2>. HIDE DEF s
  <2>. QED  BY <1>1, <1>5, <2>1, WithoutScope
<1>11. Held' = Held \ TasksOf(s)
  BY <1>9, <1>10 DEF Held
<1>12. TypeOK'
  <2>1. goal' \in Goals /\ signal' \in Signals
    BY <1>1 DEF NoGoal, Goals, Signals
  <2>. QED  BY <1>1, <1>2, <1>6, <1>7, <1>8, <1>9, <1>10, <2>1 DEF TypeOK
<1>. HIDE DEF s, a
<1>13. QueuedOnce' /\ StackedOnce' /\ Apart'
  <2>1. QueuedOnce'
    BY <1>2, <1>9, <1>10 DEF QueuedOnce, Distinct
  <2>2. StackedOnce' /\ Apart'
    BY <1>2, <1>8, <1>11, BottomLevel DEF StackedOnce, Apart
  <2>. QED  BY <2>1, <2>2
<1>14. PlacedRun' /\ RunPlaced' /\ Owned'
  <2>1. PlacedRun'
    BY <1>2, <1>8, <1>11 DEF PlacedRun
  <2>2. RunPlaced'
    <3> SUFFICES ASSUME NEW t \in Tasks, cell[t] = "running"
                 PROVE  t \in Held' \cup Stacked' \/ scope'[owner[t]] = "exited"
      BY <1>1, <1>8 DEF RunPlaced
    <3>1. owner[t] \in Scopes
      BY <1>2 DEF Owned, TypeOK
    <3>. QED  BY <1>2, <1>7, <1>8, <1>11, <3>1 DEF RunPlaced, TasksOf
  <2>3. Owned'
    <3>1. \A r \in Scopes : scope[r] # "none" => scope'[r] # "none"
      BY <1>7
    <3>2. \A t \in Tasks : owner[t] \in Scopes \cup {NoScope}
      BY <1>2 DEF TypeOK
    <3>. QED  BY <1>1, <1>2, <1>8, <3>1, <3>2 DEF Owned
  <2>. QED  BY <2>1, <2>2, <2>3
<1>15. OpensOnce'
  <2>1. \A b \in Actors : IsInjective(bodies'[b])
    BY <1>2, <1>5, <1>6 DEF OpensOnce
  <2>2. \A b, c \in Actors : b # c => ToSet(bodies'[b]) \cap ToSet(bodies'[c]) = {}
    <3>1. \A b, c \in Actors : b # c => ToSet(bodies[b]) \cap ToSet(bodies[c]) = {}
      BY <1>2 DEF OpensOnce
    <3>. QED  BY <1>6, <3>1
  <2>3. \A r \in Scopes : scope'[r] = "open" <=> \E b \in Actors : r \in ToSet(bodies'[b])
    <3> SUFFICES ASSUME NEW r \in Scopes
                 PROVE  scope'[r] = "open" <=> \E b \in Actors : r \in ToSet(bodies'[b])
      OBVIOUS
    <3>1. scope[r] = "open" <=> \E b \in Actors : r \in ToSet(bodies[b])
      BY <1>2 DEF OpensOnce
    <3>2. CASE r = s
      <4>1. \A b \in Actors : b # a => s \notin ToSet(bodies[b])
        BY <1>2, <1>3, <1>5 DEF OpensOnce
      <4>2. s \notin ToSet(bodies'[a])
        BY <1>5, <1>6
      <4>. QED  BY <1>6, <1>7, <3>2, <4>1, <4>2
    <3>3. CASE r # s
      <4>1. \A b \in Actors : r \in ToSet(bodies'[b]) <=> r \in ToSet(bodies[b])
        BY <1>5, <1>6, <3>3
      <4>. QED  BY <1>7, <3>1, <3>3, <4>1
    <3>. QED  BY <3>2, <3>3
  <2>4. \A b \in Actors : bodies'[b] # <<>> => b \in Stacked'
    BY <1>2, <1>3, <1>6, <1>8 DEF OpensOnce
  <2>. QED  BY <2>1, <2>2, <2>3, <2>4 DEF OpensOnce
<1>16. Below'
  BY <1>1, <1>2, <1>6, <1>8 DEF Below
<1>17. CancelledAlone'
  <2>1. \A r \in Scopes : TasksOf(r)' = TasksOf(r)
    BY <1>1 DEF TasksOf
  <2>2. ASSUME current.cancelled, NEW r \in ToSet(bodies'[a]) PROVE TasksOf(r)' = {}
    <3>1. r \in Scopes
      BY <1>5, <1>6, <2>2 DEF ToSet
    <3>2. TasksOf(r) = {}
      BY <1>2, <1>6, <1>3, <2>2 DEF CancelledAlone, a
    <3>. QED  BY <2>1, <3>1, <3>2
  <2>3. \A i \in DOMAIN drivers : ~drivers[i].cancelled
    BY <1>2 DEF CancelledAlone
  <2>. QED  BY <1>3, <1>8, <2>2, <2>3 DEF CancelledAlone, a
<1>18. Numbered' /\ Concluded'
  <2>1. Numbered'
    BY <1>2, <1>8 DEF Numbered
  <2>2. Concluded'
    BY <1>2, <1>7 DEF Concluded
  <2>. QED  BY <2>1, <2>2
<1>19. NoSilentFailure'
  <2> SUFFICES ASSUME NEW r \in Scopes, outcome'[r] = "value", NEW t \in TasksOf(r)
               PROVE  cell[t] = "done" \/ (cell[t] = "failed" /\ observed[t])
    BY <1>1, <1>8 DEF NoSilentFailure, TasksOf
  <2>1. CASE r # s
    BY <1>2, <1>7, <2>1 DEF NoSilentFailure
  <2>2. CASE r = s
    <3>1. /\ sig = "none" /\ goal.kind = "settle" /\ UnobservedFailures(s) = {}
          /\ Settled(goal, cell) /\ Pending(s) = {}
      BY <1>2, <1>7, <2>2 DEF Signals, Reached, s
    <3>2. \A u \in TasksOf(s) : cell[u] # "running"
      BY <3>1 DEF Settled, s
    <3>3. t \in Tasks /\ owner[t] = s /\ cell[t] \in {"none", "pending", "running", "done", "failed"}
      BY <1>2, <2>2 DEF TasksOf, TypeOK
    <3>4. cell[t] # "none"
      BY <1>2, <1>5, <3>3, Names DEF Owned
    <3>. QED  BY <2>2, <3>1, <3>2, <3>3, <3>4 DEF Pending, UnobservedFailures
  <2>. QED  BY <2>1, <2>2
<1>20. rethrown[s] # 0 => sig # "none"
  <2> SUFFICES ASSUME rethrown[s] # 0, goal.kind = "settle" PROVE FALSE
    OBVIOUS
  <2>1. scope[s] = "open"
    BY <1>2, <1>3, <1>5 DEF OpensOnce
  <2>2. PICK i \in DOMAIN drivers : drivers[i].goal.kind = "teardown" /\ drivers[i].goal.id = s
    BY <1>2, <1>5, <2>1 DEF TornDown, Torn
  <2>3. /\ drivers[i].cell \in Actors /\ drivers[i].cell # a
        /\ bodies[drivers[i].cell] # <<>> /\ s = Last(bodies[drivers[i].cell])
    BY <1>2, <1>3, <2>2, StackTyped DEF GoalsFit, GoalFits
  <2>4. s \in ToSet(bodies[drivers[i].cell])
    <3>1. bodies[drivers[i].cell] \in Seq(Scopes)
      BY <1>2, <2>3 DEF TypeOK
    <3>. QED  BY <2>3, <3>1, FrontAndLast
  <2>. QED  BY <1>2, <1>3, <1>5, <2>3, <2>4 DEF OpensOnce
<1>21. RethrowsEarliest'
  <2> SUFFICES ASSUME NEW r \in Scopes, rethrown[r] # 0
               PROVE  /\ cell[rethrown[r]] = "failed" /\ observed[rethrown[r]]
                      /\ \A u \in UnobservedFailures(r) : order[rethrown[r]] < order[u]
                      /\ scope'[r] = "exited" => outcome'[r] \in {"error", "panic"}
    BY <1>1, <1>8 DEF RethrowsEarliest, UnobservedFailures, TasksOf
  <2>1. /\ cell[rethrown[r]] = "failed" /\ observed[rethrown[r]]
        /\ \A u \in UnobservedFailures(r) : order[rethrown[r]] < order[u]
        /\ scope[r] = "exited" => outcome[r] \in {"error", "panic"}
    BY <1>2 DEF RethrowsEarliest
  <2>2. CASE r = s
    BY <1>7, <1>20, <2>1, <2>2 DEF Signals
  <2>3. CASE r # s
    BY <1>7, <2>1, <2>3
  <2>. QED  BY <2>2, <2>3
<1>22. GoalsFit' /\ SlotFits' /\ Reached' /\ NeverStuck'
  <2>1. (\A i \in DOMAIN drivers : GoalFits(drivers[i].goal, drivers[i].cell))'
    BY <1>2, <1>3, <1>6, <1>8, StackTyped DEF GoalsFit, GoalFits
  <2>. QED  BY <1>1, <1>3, <1>8, <2>1 DEF GoalsFit, SlotFits, Reached, NeverStuck
<1>23. TornDown'
  <2> SUFFICES ASSUME NEW r \in Scopes, rethrown[r] # 0, scope'[r] # "exited" PROVE Torn(r)'
    BY <1>1 DEF TornDown
  <2>1. r # s /\ Torn(r)
    BY <1>2, <1>7 DEF TornDown
  <2>. QED  BY <1>8, <2>1 DEF Torn, s
<1>. QED  BY <1>12, <1>13, <1>14, <1>15, <1>16, <1>17, <1>18, <1>19, <1>21, <1>22, <1>23 DEF Inv, Driving

\* The running actor and the goal it comes back with.
LEMMA GoalOfRunning ==
  ASSUME Inv, control \in {"enter", "finish", "raised"}
  PROVE  /\ current.cell \in Actors /\ GoalFits(goal, current.cell)
         /\ goal.kind # "value" => /\ bodies[current.cell] # <<>>
                                   /\ goal.id = Last(bodies[current.cell])
BY RunningIsOnTop DEF Inv, Standing, Driving, SlotFits, GoalsFit, GoalFits

\* Rethrowing marks the failure it rethrows as read.
LEMMA RethrowTriggers ==
  ASSUME TypeOK, NEW s \in Scopes, UnobservedFailures(s) # {}, Rethrow(s)
  PROVE  /\ {FirstUnobserved(s)} \in SUBSET Tasks
         /\ TearDown(s, {FirstUnobserved(s)}, "failure") /\ Triggers(s, {FirstUnobserved(s)})
BY FirstIsEarliest DEF Rethrow, Triggers, UnobservedFailures, TasksOf

\* What follows a drive that returned.
LEMMA FinishStep ==
  ASSUME Inv, Finish
  PROVE  Inv'
<1>1. /\ control = "finish" /\ current.cell \in Actors /\ GoalFits(goal, current.cell)
      /\ goal.kind # "value" => /\ bodies[current.cell] # <<>>
                                /\ goal.id = Last(bodies[current.cell])
  BY GoalOfRunning DEF Finish
<1>2. TypeOK /\ Standing /\ SlotFits /\ GoalsFit /\ TornDown /\ Reached
  BY DEF Inv, Driving
<1>3. CASE goal.kind = "value"
  <2> DEFINE t == goal.id
  <2>1. /\ observed' = [observed EXCEPT ![t] = (cell[t] = "failed")]
        /\ signal' \in Signals /\ goal' = NoGoal /\ control' = "user"
        /\ UNCHANGED <<cell, order, failures, owner, scope, queues, stack, bodies, parks, history>>
    BY <1>3 DEF Finish, Signals
  <2>2. t \in Tasks /\ cell[t] \in {"done", "failed"}
    BY <1>1, <1>2, <1>3 DEF Reached, Settled, GoalFits
  <2>. HIDE DEF t
  <2>. USE DEF Standing
  <2>3. /\ observed' \in [Tasks -> BOOLEAN]
        /\ \A u \in Tasks : cell[u] = "failed" /\ observed[u] => observed'[u]
    BY <1>2, <2>1, <2>2 DEF TypeOK
  <2>4. TypeOK'
    BY <1>2, <2>1, <2>3 DEF TypeOK, queues, stack, history, NoGoal, Goals, Signals
  <2>5. /\ Levels' = Levels /\ Stacked' = Stacked /\ Held' = Held
        /\ \A i \in Levels : StackAt(i)' = StackAt(i)
    BY <2>1, StackUnmoved DEF Held, TaskSet, queues
  <2>6. QueuedOnce' /\ StackedOnce' /\ Apart'
    <3>1. QueuedOnce'
      BY <1>2, <2>1 DEF QueuedOnce, Distinct, TaskSet, queues
    <3>2. StackedOnce' /\ Apart'
      BY <1>2, <2>5, BottomLevel DEF StackedOnce, Apart
    <3>. QED  BY <3>1, <3>2
  <2>7. PlacedRun' /\ RunPlaced' /\ Owned'
    BY <1>2, <2>1, <2>5 DEF PlacedRun, RunPlaced, Owned
  <2>8. OpensOnce'
    BY <1>2, <2>1, <2>5 DEF OpensOnce
  <2>9. Below'
    BY <1>2, <2>1, <2>5 DEF Below
  <2>10. CancelledAlone' /\ Concluded'
    BY <1>2, <2>1 DEF CancelledAlone, Concluded, TasksOf, stack, history
  <2>11. Numbered'
    BY <1>2, <2>1, <2>3 DEF Numbered
  <2>12. NoSilentFailure'
    BY <1>2, <2>1, <2>3 DEF NoSilentFailure, TasksOf, history
  <2>13. RethrowsEarliest'
    <3>1. \A r \in Scopes : UnobservedFailures(r)' \subseteq UnobservedFailures(r)
      BY <2>1, <2>3 DEF UnobservedFailures, TasksOf
    <3>2. \A r \in Scopes : rethrown[r] # 0 => rethrown[r] \in Tasks
      BY <1>2 DEF TypeOK
    <3>. QED  BY <1>2, <2>1, <2>3, <3>1, <3>2 DEF RethrowsEarliest, history
  <2>14. TornDown' /\ current'.cell # Idle
    BY <1>1, <1>2, <1>3, <2>1, TornBelow DEF SlotFits, stack, history
  <2>15. Driving'
    BY <1>2, <2>1, <2>14, ProgramRuns DEF stack
  <2>. QED  BY <2>4, <2>6, <2>7, <2>8, <2>9, <2>10, <2>11, <2>12, <2>13, <2>15 DEF Inv
<1>4. CASE goal.kind = "settle" /\ UnobservedFailures(goal.id) # {}
  <2>1. Rethrow(goal.id)
    BY <1>4 DEF Finish
  <2>2. goal.id \in Scopes
    <3>1. goal \in Goals
      BY <1>2 DEF TypeOK
    <3>. QED  BY <1>1, <1>2, <1>4, <3>1, SweptExists
  <2>3. /\ {FirstUnobserved(goal.id)} \in SUBSET Tasks
        /\ TearDown(goal.id, {FirstUnobserved(goal.id)}, "failure")
        /\ Triggers(goal.id, {FirstUnobserved(goal.id)})
    BY <1>2, <1>4, <2>1, <2>2, RethrowTriggers
  <2>. QED  BY <1>1, <1>4, <2>3, TearDownStep
<1>5. CASE goal.kind = "settle" /\ UnobservedFailures(goal.id) = {}
  <2>1. ExitScope(goal.id, "none") /\ "none" \in Signals
    BY <1>5 DEF Finish, Signals
  <2>. QED  BY <1>1, <1>5, <2>1, ExitStep
<1>6. CASE goal.kind = "teardown"
  <2> DEFINE sig == IF goal.then = "failure" THEN "error" ELSE goal.then
  <2>1. ExitScope(goal.id, sig)
    BY <1>6 DEF Finish
  <2>2. sig \in Signals /\ sig # "none"
    BY <1>1, <1>2, <1>6 DEF GoalFits, TypeOK, Goals, Signals
  <2>. HIDE DEF sig
  <2>. QED  BY <1>1, <1>6, <2>1, <2>2, ExitStep
<1>. QED  BY <1>1, <1>2, <1>3, <1>4, <1>5, <1>6 DEF GoalFits, TypeOK, Goals

\* What follows a drive that failed.
LEMMA RaisedStep ==
  ASSUME Inv, Raised
  PROVE  Inv'
<1>1. /\ control = "raised" /\ current.cell \in Actors /\ GoalFits(goal, current.cell)
      /\ goal.kind # "value" => /\ bodies[current.cell] # <<>>
                                /\ goal.id = Last(bodies[current.cell])
  BY GoalOfRunning DEF Raised
<1>2. TypeOK /\ Standing /\ SlotFits /\ GoalsFit /\ TornDown /\ Reached
  BY DEF Inv, Driving
<1>3. CASE goal.kind = "value"
  <2>1. /\ UNCHANGED <<cells, owner, scope, queues, stack, bodies, signal, parks, history>>
        /\ goal' = NoGoal /\ control' = "user"
    BY <1>3 DEF Raised
  <2>2. TypeOK'
    BY <1>2, <2>1 DEF TypeOK, cells, queues, stack, history, NoGoal, Goals, Signals
  <2>3. Standing'
    BY <1>2, <2>1, Unmoved
  <2>4. TornDown' /\ current'.cell # Idle
    BY <1>1, <1>2, <1>3, <2>1, TornBelow DEF SlotFits, stack, history
  <2>5. Driving'
    BY <1>2, <2>1, <2>4, ProgramRuns DEF cells, stack
  <2>. QED  BY <2>2, <2>3, <2>5 DEF Inv
<1>4. CASE goal.kind # "value" /\ SettlingPanicked
  <2>1. TearDown(goal.id, {}, "panic") /\ UNCHANGED rethrown
    BY <1>4 DEF Raised
  <2>2. Triggers(goal.id, {})
    BY <2>1 DEF Triggers
  <2>. QED  BY <1>1, <1>4, <2>1, <2>2, TearDownStep
<1>5. CASE goal.kind # "value" /\ ~SettlingPanicked
  <2>1. ExitScope(goal.id, signal) /\ signal \in Signals /\ signal # "none"
    BY <1>1, <1>2, <1>5 DEF Raised, TypeOK, Reached
  <2>. QED  BY <1>1, <1>5, <2>1, ExitStep
<1>. QED  BY <1>3, <1>4, <1>5

\* The body of a scope returns.
LEMMA BodyReturnsStep ==
  ASSUME Inv, BodyReturns
  PROVE  Inv'
<1> DEFINE s == Last(bodies[current.cell])
<1>1. control = "user" /\ signal = "none" /\ bodies[current.cell] # <<>>
  BY DEF BodyReturns, Executing
<1>2. TypeOK /\ Standing /\ SlotFits /\ GoalsFit /\ TornDown
  BY DEF Inv, Driving
<1>3. current.cell \in Actors
  BY <1>1, <1>2, RunningIsOnTop DEF Standing, SlotFits
<1>4. s \in Scopes
  <2>1. bodies[current.cell] \in Seq(Scopes)
    BY <1>2, <1>3 DEF TypeOK
  <2>. QED  BY <1>1, <2>1, FrontAndLast
<1>5. CASE UnobservedFailures(s) # {}
  <2>1. Rethrow(s)
    BY <1>5 DEF BodyReturns
  <2>2. /\ {FirstUnobserved(s)} \in SUBSET Tasks
        /\ TearDown(s, {FirstUnobserved(s)}, "failure") /\ Triggers(s, {FirstUnobserved(s)})
    BY <1>2, <1>4, <1>5, <2>1, RethrowTriggers
  <2>. QED  BY <1>1, <1>3, <2>2, TearDownStep
<1>6. CASE UnobservedFailures(s) = {}
  <2>1. /\ goal' = [kind |-> "settle", id |-> s, then |-> "none"] /\ control' = "enter"
        /\ UNCHANGED <<cells, owner, scope, queues, stack, bodies, signal, parks, history>>
    BY <1>6 DEF BodyReturns
  <2>2. TypeOK'
    BY <1>2, <1>4, <2>1 DEF TypeOK, cells, queues, stack, history, Goals, Signals
  <2>3. Standing'
    BY <1>2, <2>1, Unmoved
  <2>4. GoalsFit'
    <3>1. (\A i \in DOMAIN drivers : GoalFits(drivers[i].goal, drivers[i].cell))'
      BY <1>2, <2>1, GoalsUnmoved DEF cells, stack
    <3>2. GoalFits(goal, current.cell)'
      BY <1>1, <2>1 DEF GoalFits, stack
    <3>. QED  BY <3>1, <3>2 DEF GoalsFit
  <2>5. SlotFits' /\ Reached' /\ NeverStuck'
    BY <1>1, <1>2, <2>1 DEF SlotFits, Reached, NeverStuck, stack
  <2>6. TornDown'
    BY <1>1, <1>2, <2>1, TornBelow DEF stack, history
  <2>. QED  BY <2>2, <2>3, <2>4, <2>5, <2>6 DEF Inv, Driving
<1>. QED  BY <1>5, <1>6

\* The body of a scope raises.
LEMMA BodyRaisesStep ==
  ASSUME Inv, BodyRaises
  PROVE  Inv'
<1> DEFINE s == Last(bodies[current.cell])
<1>1. /\ control = "user" /\ signal # "none" /\ bodies[current.cell] # <<>>
      /\ TearDown(s, {}, signal) /\ UNCHANGED rethrown
  BY DEF BodyRaises
<1>2. current.cell \in Actors
  BY <1>1, RunningIsOnTop DEF Inv, Standing, Driving, SlotFits
<1>3. signal \in {"error", "panic"}
  BY <1>1 DEF Inv, TypeOK, Signals
<1>4. Triggers(s, {})
  BY <1>1 DEF Triggers
<1>. QED  BY <1>1, <1>2, <1>3, <1>4, TearDownStep

-----------------------------------------------------------------------------
(* The theorems.                                                             *)

\* The invariant holds when the program starts: the root runs, alone.
LEMMA InitialStates == Init => Inv
<1> SUFFICES ASSUME Init PROVE Inv
  OBVIOUS
<1>1. TypeOK
  <2>1. /\ Root \in Actors /\ 0 \in 0 .. MaxParks
    BY BoundsAssumption DEF Actors
  <2>. QED  BY <2>1 DEF Init, TypeOK, Occupants, Goals, NoGoal, Signals
<1>2. Levels = {1} /\ StackAt(1) = Root /\ Stacked = {Root} /\ Held = {}
  <2>1. Len(drivers) = 0 /\ current.cell = Root /\ DOMAIN runnable = {} /\ DOMAIN parked = {}
    BY DEF Init
  <2>2. Levels = {1} /\ StackAt(1) = Root
    BY <2>1 DEF Levels, StackAt
  <2>. QED  BY <2>1, <2>2 DEF Stacked, Held, TaskSet
<1>3. QueuedOnce /\ StackedOnce /\ Apart
  BY <1>2 DEF Init, QueuedOnce, Distinct, TaskSet, StackedOnce, Apart
<1>4. PlacedRun /\ RunPlaced /\ Owned
  BY <1>2, Names DEF Init, PlacedRun, RunPlaced, Owned
<1>5. OpensOnce /\ CancelledAlone
  BY DEF Init, OpensOnce, CancelledAlone, IsInjective, ToSet
<1>6. Below
  BY <1>2, Names DEF Below
<1>7. Numbered /\ Concluded /\ NoSilentFailure /\ RethrowsEarliest
  BY DEF Init, Numbered, Concluded, NoSilentFailure, RethrowsEarliest
<1>8. SlotFits /\ GoalsFit /\ Reached /\ TornDown /\ NeverStuck
  BY Names DEF Init, SlotFits, GoalsFit, Reached, TornDown, NeverStuck, Actors
<1>. QED  BY <1>1, <1>3, <1>4, <1>5, <1>6, <1>7, <1>8 DEF Inv, Standing, Driving

\* Every step of the program and of the scheduler keeps the invariant.
LEMMA InvariantKept == Inv /\ [Next]_vars => Inv'
<1> SUFFICES ASSUME Inv, [Next]_vars PROVE Inv'
  OBVIOUS
<1>1. CASE UNCHANGED vars
  BY <1>1, StutterStep
<1>2. CASE Program
  BY <1>2, OpenStep, SpawnStep, ValueStep, ParkStep, SignalSteps DEF Program
<1>3. CASE Returns
  BY <1>3, BodyReturnsStep, BodyRaisesStep, EndStep, ReturnStep, ThrowStep, PanicStep DEF Returns
<1>4. CASE Scheduling
  BY <1>4, EnterStep, CheckStep, RunStep, FinishStep, RaisedStep DEF Scheduling
<1>5. CASE Stopped
  BY <1>5, StutterStep DEF Stopped
<1>. QED  BY <1>1, <1>2, <1>3, <1>4, <1>5 DEF Next

\* The invariant always holds, however many tasks, scopes and parks there are
\* and whether or not the program panics.
THEOREM SchedulerInvariant == Spec => []Inv
BY InitialStates, InvariantKept, PTL DEF Spec

=============================================================================

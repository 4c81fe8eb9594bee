-------------------------- MODULE HttpServerProofs --------------------------
(***************************************************************************)
(* Proofs about ThreadPool and HttpServer, for any number of threads,      *)
(* tasks and connections.  First the pool, whose tasks may return at any   *)
(* time; then that the server uses the pool as ThreadPool allows, so that  *)
(* what is proved of the pool holds of the server; then the requests of a  *)
(* connection.                                                             *)
(***************************************************************************)
EXTENDS HttpServer, FiniteSetTheorems, TLAPS

-----------------------------------------------------------------------------
(* The inductive invariant of the pool. *)

\* The threads that num_threads_running_ counts.
Alive == {t \in Thread : pc[t] \in {"waiting", "awake", "running"}}

Counted == num_threads_running_ = Cardinality(Alive)

\* What holds in which part of the life of the pool.
Phases ==
    /\ owner = "new" => \A t \in Thread : pc[t] = "unborn"
    /\ owner # "new" => \A t \in Thread : pc[t] # "unborn"
    /\ owner \in {"up", "joining", "draining", "destroyed"} =>
        \A t \in Thread : pc[t] # "born"
    /\ owner \in {"new", "spawned", "up"} =>
        killthreads_ = FALSE /\ \A t \in Thread : pc[t] # "exited"
    /\ owner \in {"new", "spawned"} => dispatched = <<>>
    /\ owner \in {"joining", "draining", "destroyed"} =>
        /\ killthreads_ = TRUE
        /\ num_threads = NumThreads
        /\ \A t \in Thread : t < joining => pc[t] = "exited"
    /\ owner \in {"draining", "destroyed"} => joining > num_threads

\* Who has a task.
Hands ==
    /\ \A t \in Thread : pc[t] = "running" <=> task[t] # NoTask
    /\ owner # "draining" => task[Owner] = NoTask

NoRepeat ==
    \A i, j \in DOMAIN dispatched : dispatched[i] = dispatched[j] => i = j

IInv ==
    /\ PoolTypeOK
    /\ Phases
    /\ Hands
    /\ Counted
    /\ NoRepeat
    /\ FifoExactlyOnce
    /\ OneExecutor
    /\ QueueIsAttended
-----------------------------------------------------------------------------
(* Sequences. *)

\* Moving the front of a queue to the end of what was taken keeps the whole.
LEMMA MoveFront ==
    ASSUME NEW S, NEW s \in Seq(S), NEW q \in Seq(S), q # <<>>
    PROVE  /\ Head(q) \in S
           /\ Tail(q) \in Seq(S)
           /\ Append(s, Head(q)) \in Seq(S)
           /\ Append(s, Head(q)) \o Tail(q) = s \o q
  OBVIOUS

\* Adding at the end commutes with concatenation.
LEMMA ConcatAppend ==
    ASSUME NEW S, NEW s \in Seq(S), NEW q \in Seq(S), NEW x \in S
    PROVE  s \o Append(q, x) = Append(s \o q, x)
  OBVIOUS

\* A concatenation is empty only if both parts are.
LEMMA ConcatEmpty ==
    ASSUME NEW S, NEW s \in Seq(S), NEW q \in Seq(S), s \o q = <<>>
    PROVE  q = <<>>
  <1>1. Len(s \o q) = Len(s) + Len(q) /\ Len(s) \in Nat /\ Len(q) \in Nat
    OBVIOUS
  <1>2. Len(s \o q) = 0
    OBVIOUS
  <1>3. Len(q) = 0
    BY <1>1, <1>2
  <1> QED  BY <1>3

\* Append adds one element.
LEMMA ElementsAppend ==
    ASSUME NEW S, NEW s \in Seq(S), NEW x \in S
    PROVE  Elements(Append(s, x)) = Elements(s) \cup {x}
  <1>1. DOMAIN Append(s, x) = (DOMAIN s) \cup {Len(s) + 1}
    OBVIOUS
  <1>2. \A i \in DOMAIN s : Append(s, x)[i] = s[i]
    OBVIOUS
  <1>3. Append(s, x)[Len(s) + 1] = x
    OBVIOUS
  <1> QED  BY <1>1, <1>2, <1>3, Zenon DEF Elements

\* In a sequence without repetition what is taken differs from what is queued.
LEMMA FrontIsNew ==
    ASSUME NEW S, NEW s \in Seq(S), NEW q \in Seq(S), q # <<>>,
           \A i, j \in DOMAIN (s \o q) : (s \o q)[i] = (s \o q)[j] => i = j
    PROVE  Head(q) \notin Elements(s)
  <1> SUFFICES ASSUME NEW i \in DOMAIN s, s[i] = Head(q) PROVE FALSE
    BY Zenon DEF Elements
  <1>1. i \in DOMAIN (s \o q) /\ (s \o q)[i] = s[i]
    OBVIOUS
  <1>2. Len(s) + 1 \in DOMAIN (s \o q) /\ (s \o q)[Len(s) + 1] = Head(q)
    OBVIOUS
  <1>3. i # Len(s) + 1
    OBVIOUS
  <1> QED  BY <1>1, <1>2, <1>3, Zenon

\* A sequence without repetition stays one when a new element is added.
LEMMA AppendNew ==
    ASSUME NEW S, NEW s \in Seq(S), NEW x \in S, x \notin Elements(s),
           \A i, j \in DOMAIN s : s[i] = s[j] => i = j
    PROVE  \A i, j \in DOMAIN Append(s, x) : Append(s, x)[i] = Append(s, x)[j] => i = j
  <1>1. DOMAIN Append(s, x) = (DOMAIN s) \cup {Len(s) + 1}
    OBVIOUS
  <1>2. \A i \in DOMAIN s : Append(s, x)[i] = s[i] /\ s[i] # x
    BY DEF Elements
  <1>3. Append(s, x)[Len(s) + 1] = x
    OBVIOUS
  <1> QED  BY <1>1, <1>2, <1>3, Zenon
-----------------------------------------------------------------------------
(* Counting. *)

\* There are finitely many threads, NumThreads of them.
LEMMA ThreadsFinite ==
    IsFiniteSet(Thread) /\ Cardinality(Thread) = NumThreads
  <1>1. IsFiniteSet(1 .. NumThreads)
        /\ Cardinality(1 .. NumThreads) = IF 1 > NumThreads THEN 0 ELSE NumThreads - 1 + 1
    BY FS_Interval, NumThreadsAssumption
  <1> QED  BY <1>1, NumThreadsAssumption DEF Thread

\* The threads that are alive are finitely many, at most NumThreads, and all
\* when they are as many.
LEMMA AliveFinite ==
    /\ IsFiniteSet(Alive)
    /\ Cardinality(Alive) \in 0 .. NumThreads
    /\ Cardinality(Alive) = NumThreads => Alive = Thread
  <1>1. Alive \in SUBSET Thread
    BY Zenon DEF Alive
  <1>2. /\ IsFiniteSet(Alive)
        /\ Cardinality(Alive) <= Cardinality(Thread)
        /\ Cardinality(Thread) = Cardinality(Alive) => Thread = Alive
    BY <1>1, ThreadsFinite, FS_Subset, Zenon
  <1>3. Cardinality(Alive) \in Nat
    BY <1>2, FS_CardinalityType, Zenon
  <1> QED  BY <1>2, <1>3, ThreadsFinite, NumThreadsAssumption
-----------------------------------------------------------------------------
(* The invariant is inductive. *)

LEMMA InitIInv == InitPool => IInv
  <1> SUFFICES ASSUME InitPool PROVE IInv
    BY Zenon
  <1> USE NumThreadsAssumption, NoTaskAssumption DEF InitPool
  <1>1. PoolTypeOK
    <2>1. killthreads_ \in BOOLEAN
      BY Zenon
    <2>2. pc \in [Thread -> {"unborn", "born", "waiting", "awake", "running", "exited"}]
          /\ task \in [Executor -> Task \cup {NoTask}]
      BY Zenon
    <2>3. /\ work_queue_ \in Seq(Task) /\ dispatched \in Seq(Task) /\ started \in Seq(Task)
          /\ num_threads_running_ \in 0 .. NumThreads
          /\ num_threads \in 0 .. NumThreads
          /\ joining \in 1 .. NumThreads + 1
      OBVIOUS
    <2> QED  BY <2>1, <2>2, <2>3, Zenon DEF PoolTypeOK
  <1>2. Phases /\ NoRepeat /\ FifoExactlyOnce /\ QueueIsAttended
    BY DEF Phases, NoRepeat, FifoExactlyOnce, QueueIsAttended
  <1>3. Hands
    BY Zenon DEF Hands, Executor, Owner
  <1>4. Counted
    <2>1. Alive = {}
      BY Zenon DEF Alive
    <2> QED  BY <2>1, FS_EmptySet, Zenon DEF Counted
  <1>5. OneExecutor
    BY DEF OneExecutor, Elements
  <1> QED  BY <1>1, <1>2, <1>3, <1>4, <1>5, Zenon DEF IInv

\* Taking the front of the queue keeps the order of the tasks and gives the
\* task to one executor that had none.
LEMMA PopFrontKeeps ==
    ASSUME PoolTypeOK, FifoExactlyOnce, NoRepeat, OneExecutor,
           NEW e \in Executor, task[e] = NoTask, work_queue_ # <<>>,
           PopFront(e), UNCHANGED <<dispatched, finished>>
    PROVE  /\ FifoExactlyOnce' /\ NoRepeat' /\ OneExecutor'
           /\ work_queue_' \in Seq(Task) /\ started' \in Seq(Task)
           /\ task' = [task EXCEPT ![e] = Head(work_queue_)]
           /\ Head(work_queue_) \in Task
  <1> DEFINE k == Head(work_queue_)
  <1>1. /\ k \in Task
        /\ work_queue_' \in Seq(Task) /\ started' \in Seq(Task)
        /\ started' = Append(started, k)
        /\ started' \o work_queue_' = started \o work_queue_
        /\ task' = [task EXCEPT ![e] = k]
    <2>1. started \in Seq(Task) /\ work_queue_ \in Seq(Task)
      BY Zenon DEF PoolTypeOK
    <2>2. /\ Head(work_queue_) \in Task
          /\ Tail(work_queue_) \in Seq(Task)
          /\ Append(started, Head(work_queue_)) \in Seq(Task)
          /\ Append(started, Head(work_queue_)) \o Tail(work_queue_) = started \o work_queue_
      BY <2>1, MoveFront, Zenon
    <2> QED  BY <2>2, Zenon DEF PopFront
  <1>2. FifoExactlyOnce' /\ NoRepeat'
    BY <1>1, Zenon DEF FifoExactlyOnce, NoRepeat
  <1>3. k \notin Elements(started)
    BY FrontIsNew, Zenon DEF PoolTypeOK, FifoExactlyOnce, NoRepeat
  <1>4. Elements(started') = Elements(started) \cup {k}
    BY <1>1, ElementsAppend DEF PoolTypeOK
  <1>5. OneExecutor'
    <2>1. task \in [Executor -> Task \cup {NoTask}] /\ k # NoTask
      BY <1>1, NoTaskAssumption, Zenon DEF PoolTypeOK
    <2>2. k \notin finished /\ \A f \in Executor : task[f] # k
      BY <1>3, <2>1 DEF OneExecutor
    <2> HIDE DEF k
    <2>3. task'[e] = k /\ \A f \in Executor \ {e} : task'[f] = task[f]
      BY <1>1, <2>1, Zenon
    <2>4. {task'[f] : f \in Executor} \ {NoTask}
            = ({task[f] : f \in Executor} \ {NoTask}) \cup {k}
      BY <2>1, <2>3
    <2>5. Elements(started') = finished' \cup ({task'[f] : f \in Executor} \ {NoTask})
      BY <1>4, <2>4, Zenon DEF OneExecutor
    <2>6. \A f \in Executor :
            task'[f] # NoTask => /\ task'[f] \notin finished'
                                 /\ \A g \in Executor \ {f} : task'[g] # task'[f]
      BY <2>2, <2>3, Zenon DEF OneExecutor
    <2> QED  BY <2>5, <2>6, Zenon DEF OneExecutor
  <1> QED  BY <1>1, <1>2, <1>5, Zenon

\* The return of a task moves it from one pair of hands to the finished ones.
LEMMA ReturnKeeps ==
    ASSUME PoolTypeOK, FifoExactlyOnce, NoRepeat, OneExecutor,
           NEW e \in Executor, task[e] # NoTask,
           Return(e), UNCHANGED <<dispatched, started, work_queue_>>
    PROVE  /\ FifoExactlyOnce' /\ NoRepeat' /\ OneExecutor'
           /\ finished' \subseteq Task
           /\ task' = [task EXCEPT ![e] = NoTask]
           /\ task' \in [Executor -> Task \cup {NoTask}]
  <1> DEFINE k == task[e]
  <1>1. FifoExactlyOnce' /\ NoRepeat'
    BY Zenon DEF FifoExactlyOnce, NoRepeat
  <1>2. /\ k \in Task
        /\ finished' = finished \cup {k}
        /\ finished' \subseteq Task
        /\ task' = [task EXCEPT ![e] = NoTask]
        /\ task' \in [Executor -> Task \cup {NoTask}]
    BY Zenon DEF Return, PoolTypeOK
  <1>3. task'[e] = NoTask /\ \A f \in Executor \ {e} : task'[f] = task[f]
    BY <1>2, Zenon DEF PoolTypeOK
  <1>4. \A f \in Executor \ {e} : task[f] # k
    BY Zenon DEF OneExecutor
  <1>5. k # NoTask /\ k = task[e]
    BY Zenon
  <1> HIDE DEF k
  <1>6. {task[f] : f \in Executor} \ {NoTask}
          = ({task'[f] : f \in Executor} \ {NoTask}) \cup {k}
    BY <1>3, <1>5
  <1>7. Elements(started') = finished' \cup ({task'[f] : f \in Executor} \ {NoTask})
    BY <1>2, <1>6, Zenon DEF OneExecutor
  <1>8. \A f \in Executor :
          task'[f] # NoTask => /\ task'[f] \notin finished'
                               /\ \A g \in Executor \ {f} : task'[g] # task'[f]
    BY <1>2, <1>3, <1>4, Zenon DEF OneExecutor
  <1> QED  BY <1>1, <1>2, <1>7, <1>8, Zenon DEF OneExecutor
-----------------------------------------------------------------------------
\* A step that leaves the tasks alone.
tasks == <<work_queue_, task, dispatched, started, finished>>

LEMMA TasksUnchanged ==
    ASSUME FifoExactlyOnce, NoRepeat, OneExecutor, UNCHANGED tasks
    PROVE  FifoExactlyOnce' /\ NoRepeat' /\ OneExecutor'
  BY DEF tasks, FifoExactlyOnce, NoRepeat, OneExecutor

\* A step after which the same threads are alive.
LEMMA SameAlive ==
    ASSUME Counted, Alive' = Alive, UNCHANGED num_threads_running_
    PROVE  Counted'
  BY Zenon DEF Counted

\* ThreadStart counts the thread.
LEMMA ThreadStartKeeps ==
    ASSUME IInv, NEW t \in Thread, ThreadStart(t)
    PROVE  IInv'
  <1>1. /\ pc[t] = "born" /\ owner = "spawned" /\ killthreads_ = FALSE
        /\ dispatched = <<>>
    BY Zenon DEF IInv, PoolTypeOK, Phases, ThreadStart
  <1>2. /\ pc' = [pc EXCEPT ![t] = "waiting"]
        /\ num_threads_running_' = num_threads_running_ + 1
    BY <1>1, Zenon DEF ThreadStart, OuterLoop
  <1>3. UNCHANGED <<work_queue_, killthreads_, task, owner, num_threads, joining,
                    dispatched, started, finished>>
    BY Zenon DEF ThreadStart
  <1>4. pc \in [Thread -> {"unborn", "born", "waiting", "awake", "running", "exited"}]
    BY Zenon DEF IInv, PoolTypeOK
  <1>5. Counted'
    <2>1. Alive' = Alive \cup {t} /\ t \notin Alive
      BY <1>1, <1>2, <1>4, Zenon DEF Alive
    <2>2. Cardinality(Alive \cup {t}) = Cardinality(Alive) + 1
      BY <2>1, AliveFinite, FS_AddElement, Zenon
    <2> QED  BY <1>2, <2>1, <2>2, Zenon DEF Counted, IInv
  <1>6. num_threads_running_' \in 0 .. NumThreads
    <2>1. t \in Thread /\ t \notin Alive
      BY <1>1, Zenon DEF Alive
    <2>2. Cardinality(Alive) # NumThreads
      BY <2>1, AliveFinite, Zenon
    <2> QED  BY <1>2, <2>2, AliveFinite, NumThreadsAssumption DEF IInv, Counted
  <1>7. PoolTypeOK'
    BY <1>2, <1>3, <1>4, <1>6, Zenon DEF IInv, PoolTypeOK
  <1>8. Phases'
    BY <1>1, <1>2, <1>3, <1>4, Zenon DEF IInv, Phases
  <1>9. Hands'
    BY <1>1, <1>2, <1>3, <1>4, Zenon DEF IInv, Hands
  <1>10. QueueIsAttended'
    BY <1>1, <1>3, Zenon DEF QueueIsAttended
  <1> QED  BY <1>3, <1>5, <1>7, <1>8, <1>9, <1>10, TasksUnchanged, Zenon DEF IInv, tasks

\* A worker that takes a task.
LEMMA DequeueKeeps ==
    ASSUME IInv, NEW t \in Thread, Dequeue(t)
    PROVE  IInv'
  <1>1. /\ pc[t] = "awake" /\ work_queue_ # <<>> /\ PopFront(t)
        /\ pc' = [pc EXCEPT ![t] = "running"]
        /\ UNCHANGED <<killthreads_, num_threads_running_, owner, num_threads,
                       joining, dispatched, finished>>
    BY Zenon DEF Dequeue
  <1>2. t \in Executor /\ t # Owner /\ task[t] = NoTask
    BY <1>1, NumThreadsAssumption DEF IInv, Hands, Executor, Owner, Thread
  <1>3. /\ pc \in [Thread -> {"unborn", "born", "waiting", "awake", "running", "exited"}]
        /\ task \in [Executor -> Task \cup {NoTask}]
    BY Zenon DEF IInv, PoolTypeOK
  <1>4. /\ FifoExactlyOnce' /\ NoRepeat' /\ OneExecutor'
        /\ work_queue_' \in Seq(Task) /\ started' \in Seq(Task)
        /\ task' = [task EXCEPT ![t] = Head(work_queue_)]
        /\ Head(work_queue_) \in Task
    BY <1>1, <1>2, PopFrontKeeps, Zenon DEF IInv
  <1>5. PoolTypeOK'
    BY <1>1, <1>3, <1>4, Zenon DEF IInv, PoolTypeOK
  <1>6. Phases'
    BY <1>1, <1>3, Zenon DEF IInv, Phases
  <1>7. Hands'
    <2>1. /\ task'[t] = Head(work_queue_) /\ Head(work_queue_) # NoTask
          /\ \A e \in Executor \ {t} : task'[e] = task[e]
      BY <1>2, <1>3, <1>4, NoTaskAssumption, Zenon
    <2>2. pc'[t] = "running" /\ \A u \in Thread \ {t} : pc'[u] = pc[u]
      BY <1>1, <1>3, Zenon
    <2> QED  BY <1>1, <1>2, <2>1, <2>2, Zenon DEF IInv, Hands, Executor
  <1>8. Counted'
    <2>1. Alive' = Alive
      BY <1>1, <1>3, Zenon DEF Alive
    <2> QED  BY <1>1, <2>1, SameAlive, Zenon DEF IInv
  <1>9. QueueIsAttended'
    BY <1>1, <1>3, Zenon DEF QueueIsAttended
  <1> QED  BY <1>4, <1>5, <1>6, <1>7, <1>8, <1>9, Zenon DEF IInv

\* A worker that finds no work, or is told to end.
LEMMA NoMoreWorkKeeps ==
    ASSUME IInv, NEW t \in Thread, NoMoreWork(t)
    PROVE  IInv'
  <1>1. /\ pc[t] = "awake"
        /\ work_queue_ = <<>> \/ killthreads_
        /\ OuterLoop(t, num_threads_running_)
        /\ UNCHANGED <<work_queue_, killthreads_, task, owner, num_threads, joining,
                       dispatched, started, finished>>
    BY Zenon DEF NoMoreWork
  <1>2. pc \in [Thread -> {"unborn", "born", "waiting", "awake", "running", "exited"}]
    BY Zenon DEF IInv, PoolTypeOK
  <1>3. CASE killthreads_ = TRUE
    <2>1. /\ pc' = [pc EXCEPT ![t] = "exited"]
          /\ num_threads_running_' = num_threads_running_ - 1
      BY <1>1, <1>3, Zenon DEF OuterLoop
    <2>2. owner \in {"joining", "draining", "destroyed"}
      BY <1>3, Zenon DEF IInv, PoolTypeOK, Phases
    <2>3. Counted' /\ num_threads_running_' \in 0 .. NumThreads
      <3>1. Alive' = Alive \ {t} /\ t \in Alive
        BY <1>1, <1>2, <2>1, Zenon DEF Alive
      <3>2. /\ IsFiniteSet(Alive \ {t})
            /\ Cardinality(Alive \ {t}) = Cardinality(Alive) - 1
        BY <3>1, AliveFinite, FS_RemoveElement, Zenon
      <3>3. Cardinality(Alive \ {t}) \in Nat
        BY <3>2, FS_CardinalityType, Zenon
      <3> QED  BY <2>1, <3>1, <3>2, <3>3, AliveFinite, NumThreadsAssumption
               DEF Counted, IInv
    <2>4. PoolTypeOK'
      BY <1>1, <1>2, <2>1, <2>3, Zenon DEF IInv, PoolTypeOK
    <2>5. Phases'
      BY <1>1, <1>2, <2>1, <2>2, Zenon DEF IInv, Phases
    <2>6. Hands'
      BY <1>1, <1>2, <2>1, Zenon DEF IInv, Hands
    <2>7. QueueIsAttended'
      BY <1>1, <2>2, Zenon DEF QueueIsAttended
    <2> QED  BY <1>1, <2>3, <2>4, <2>5, <2>6, <2>7, TasksUnchanged, Zenon DEF IInv, tasks
  <1>4. CASE killthreads_ = FALSE
    <2>1. /\ pc' = [pc EXCEPT ![t] = "waiting"]
          /\ num_threads_running_' = num_threads_running_
          /\ work_queue_ = <<>>
      BY <1>1, <1>4, Zenon DEF OuterLoop
    <2>2. Alive' = Alive
      BY <1>1, <1>2, <2>1, Zenon DEF Alive
    <2>3. PoolTypeOK'
      BY <1>1, <1>2, <2>1, Zenon DEF IInv, PoolTypeOK
    <2>4. Phases'
      BY <1>1, <1>2, <1>4, <2>1, Zenon DEF IInv, Phases
    <2>5. Hands'
      BY <1>1, <1>2, <2>1, Zenon DEF IInv, Hands
    <2>6. QueueIsAttended'
      BY <1>1, <2>1, Zenon DEF QueueIsAttended
    <2> QED  BY <1>1, <2>1, <2>2, <2>3, <2>4, <2>5, <2>6, TasksUnchanged, SameAlive, Zenon
             DEF IInv, tasks
  <1> QED  BY <1>3, <1>4, Zenon DEF IInv, PoolTypeOK

\* A worker whose task returns looks at the queue next.
LEMMA TaskReturnsKeeps ==
    ASSUME IInv, NEW t \in Thread, TaskReturns(t)
    PROVE  IInv'
  <1>1. /\ pc[t] = "running" /\ Return(t)
        /\ pc' = [pc EXCEPT ![t] = "awake"]
        /\ UNCHANGED <<work_queue_, killthreads_, num_threads_running_, owner,
                       num_threads, joining, dispatched, started>>
    BY Zenon DEF TaskReturns
  <1>2. t \in Executor /\ t # Owner /\ task[t] # NoTask
    BY <1>1, NumThreadsAssumption DEF IInv, Hands, Executor, Owner, Thread
  <1>3. /\ pc \in [Thread -> {"unborn", "born", "waiting", "awake", "running", "exited"}]
        /\ task \in [Executor -> Task \cup {NoTask}]
    BY Zenon DEF IInv, PoolTypeOK
  <1>4. /\ FifoExactlyOnce' /\ NoRepeat' /\ OneExecutor'
        /\ finished' \subseteq Task
        /\ task' = [task EXCEPT ![t] = NoTask]
        /\ task' \in [Executor -> Task \cup {NoTask}]
    BY <1>1, <1>2, ReturnKeeps, Zenon DEF IInv
  <1>5. PoolTypeOK'
    BY <1>1, <1>3, <1>4, Zenon DEF IInv, PoolTypeOK
  <1>6. Phases'
    BY <1>1, <1>3, Zenon DEF IInv, Phases
  <1>7. Hands'
    <2>1. task'[t] = NoTask /\ \A e \in Executor \ {t} : task'[e] = task[e]
      BY <1>2, <1>3, <1>4, Zenon
    <2>2. pc'[t] = "awake" /\ \A u \in Thread \ {t} : pc'[u] = pc[u]
      BY <1>1, <1>3, Zenon
    <2> QED  BY <1>1, <1>2, <2>1, <2>2, Zenon DEF IInv, Hands, Executor
  <1>8. Counted'
    <2>1. Alive' = Alive
      BY <1>1, <1>3, Zenon DEF Alive
    <2> QED  BY <1>1, <2>1, SameAlive, Zenon DEF IInv
  <1>9. QueueIsAttended'
    BY <1>1, <1>3, Zenon DEF QueueIsAttended
  <1> QED  BY <1>4, <1>5, <1>6, <1>7, <1>8, <1>9, Zenon DEF IInv

\* A spurious wakeup only adds an attendant of the queue.
LEMMA SpuriousWakeupKeeps ==
    ASSUME IInv, NEW t \in Thread, SpuriousWakeup(t)
    PROVE  IInv'
  <1>1. /\ pc[t] = "waiting" /\ pc' = [pc EXCEPT ![t] = "awake"]
        /\ UNCHANGED <<work_queue_, killthreads_, num_threads_running_, task, owner,
                       num_threads, joining, dispatched, started, finished>>
    BY Zenon DEF SpuriousWakeup
  <1>2. pc \in [Thread -> {"unborn", "born", "waiting", "awake", "running", "exited"}]
    BY Zenon DEF IInv, PoolTypeOK
  <1>3. PoolTypeOK'
    BY <1>1, <1>2, Zenon DEF IInv, PoolTypeOK
  <1>4. Phases'
    BY <1>1, <1>2, Zenon DEF IInv, Phases
  <1>5. Hands'
    BY <1>1, <1>2, Zenon DEF IInv, Hands
  <1>6. Alive' = Alive
    BY <1>1, <1>2, Zenon DEF Alive
  <1>7. QueueIsAttended'
    BY <1>1, <1>2, Zenon DEF QueueIsAttended
  <1> QED  BY <1>1, <1>3, <1>4, <1>5, <1>6, <1>7, SameAlive, TasksUnchanged, Zenon DEF IInv, tasks

\* A pool that is dispatched to has all its threads, so a thread is there to be
\* signalled unless one is already on its way.
LEMMA DispatchKeeps ==
    ASSUME IInv, NEW k \in Task, Dispatch(k)
    PROVE  IInv'
  <1>1. /\ owner = "up" /\ k \notin Elements(dispatched)
        /\ work_queue_' = Append(work_queue_, k)
        /\ dispatched' = Append(dispatched, k)
        /\ UNCHANGED <<killthreads_, num_threads_running_, task, owner,
                       num_threads, joining, started, finished>>
    BY Zenon DEF Dispatch
  <1>2. pc \in [Thread -> {"unborn", "born", "waiting", "awake", "running", "exited"}]
    BY Zenon DEF IInv, PoolTypeOK
  <1>3. /\ pc' \in [Thread -> {"unborn", "born", "waiting", "awake", "running", "exited"}]
        /\ \A t \in Thread : pc'[t] = pc[t] \/ (pc[t] = "waiting" /\ pc'[t] = "awake")
        /\ (\E t \in Thread : pc'[t] = "awake") \/ \A t \in Thread : pc[t] # "waiting"
    <2>1. CASE \E t \in Waiting : pc' = [pc EXCEPT ![t] = "awake"]
      BY <1>2, <2>1, Zenon DEF Waiting
    <2>2. CASE Waiting = {} /\ pc' = pc
      BY <1>2, <2>2, Zenon DEF Waiting
    <2> QED  BY <2>1, <2>2, Zenon DEF Dispatch, Signal
  <1>4. FifoExactlyOnce' /\ NoRepeat'
    <2>1. /\ dispatched \in Seq(Task) /\ work_queue_ \in Seq(Task) /\ started \in Seq(Task)
      BY Zenon DEF IInv, PoolTypeOK
    <2>2. started \o Append(work_queue_, k) = Append(started \o work_queue_, k)
      BY <2>1, ConcatAppend
    <2>3. FifoExactlyOnce'
      BY <1>1, <2>2, Zenon DEF IInv, FifoExactlyOnce
    <2>4. NoRepeat'
      <3> DEFINE longer == Append(dispatched, k)
      <3>1. \A i, j \in DOMAIN dispatched : dispatched[i] = dispatched[j] => i = j
        BY Zenon DEF IInv, NoRepeat
      <3>2. k \in Task /\ k \notin Elements(dispatched) /\ dispatched \in Seq(Task)
        BY <1>1, <2>1, Zenon
      <3>3. \A i, j \in DOMAIN longer : longer[i] = longer[j] => i = j
        BY ONLY <3>1, <3>2, AppendNew, Zenon
      <3>4. dispatched' = longer
        BY <1>1, Zenon
      <3> HIDE DEF longer
      <3> QED  BY <3>3, <3>4, Zenon DEF NoRepeat
    <2> QED  BY <2>3, <2>4, Zenon
  <1>5. OneExecutor'
    BY <1>1, Zenon DEF IInv, OneExecutor
  <1>6. PoolTypeOK'
    BY <1>1, <1>3 DEF IInv, PoolTypeOK
  <1>7. Phases'
    BY <1>1, <1>3, Zenon DEF IInv, Phases
  <1>8. Hands'
    BY <1>1, <1>3, Zenon DEF IInv, Hands
  <1>9. Counted'
    <2>1. Alive' = Alive
      BY <1>3, Zenon DEF Alive
    <2> QED  BY <1>1, <2>1, SameAlive, Zenon DEF IInv
  <1>10. QueueIsAttended'
    <2>1. \A t \in Thread : pc[t] \in {"waiting", "awake", "running"}
      BY <1>1, <1>2, Zenon DEF IInv, Phases
    <2>2. 1 \in Thread
      BY NumThreadsAssumption DEF Thread
    <2> QED  BY <1>3, <2>1, <2>2, Zenon DEF QueueIsAttended
  <1> QED  BY <1>4, <1>5, <1>6, <1>7, <1>8, <1>9, <1>10, Zenon DEF IInv

\* The constructor returns only when all threads are counted.
LEMMA ConstructorKeeps ==
    ASSUME IInv, Spawn \/ Constructed
    PROVE  IInv'
  <1>1. pc \in [Thread -> {"unborn", "born", "waiting", "awake", "running", "exited"}]
    BY Zenon DEF IInv, PoolTypeOK
  <1>2. CASE Spawn
    <2>1. /\ owner = "new" /\ owner' = "spawned" /\ pc' = [t \in Thread |-> "born"]
          /\ UNCHANGED <<work_queue_, killthreads_, num_threads_running_, task,
                         num_threads, joining, dispatched, started, finished>>
      BY <1>2, Zenon DEF Spawn
    <2>2. \A t \in Thread : pc[t] = "unborn" /\ pc'[t] = "born"
      BY <2>1, Zenon DEF IInv, Phases
    <2>3. PoolTypeOK'
      BY <2>1, Zenon DEF IInv, PoolTypeOK
    <2>4. Phases'
      BY <2>1, <2>2, Zenon DEF IInv, Phases
    <2>5. Hands'
      BY <2>1, <2>2, Zenon DEF IInv, Hands
    <2>6. Alive' = Alive
      BY <2>2, Zenon DEF Alive
    <2>7. QueueIsAttended'
      BY <2>1, Zenon DEF QueueIsAttended
    <2> QED  BY <2>1, <2>3, <2>4, <2>5, <2>6, <2>7, SameAlive, TasksUnchanged, Zenon DEF IInv, tasks
  <1>3. CASE Constructed
    <2>1. /\ owner = "spawned" /\ owner' = "up" /\ num_threads_running_ = NumThreads
          /\ UNCHANGED <<work_queue_, killthreads_, num_threads_running_, pc, task,
                         num_threads, joining, dispatched, started, finished>>
      BY <1>3, Zenon DEF Constructed
    <2>2. \A t \in Thread : pc[t] \in {"waiting", "awake", "running"}
      <3>1. Alive = Thread
        BY <2>1, AliveFinite, Zenon DEF IInv, Counted
      <3> QED  BY <3>1, Zenon DEF Alive
    <2>3. PoolTypeOK'
      BY <2>1, Zenon DEF IInv, PoolTypeOK
    <2>4. Phases'
      BY <2>1, <2>2, Zenon DEF IInv, Phases
    <2>5. Hands'
      BY <2>1, Zenon DEF IInv, Hands
    <2>6. Alive' = Alive
      BY <2>1, Zenon DEF Alive
    <2>7. QueueIsAttended'
      <3>1. dispatched = <<>>
        BY <2>1, Zenon DEF IInv, Phases
      <3>2. work_queue_ = <<>>
        BY <3>1, ConcatEmpty, Zenon DEF IInv, FifoExactlyOnce, PoolTypeOK
      <3> QED  BY <2>1, <3>2, Zenon DEF QueueIsAttended
    <2> QED  BY <2>1, <2>3, <2>4, <2>5, <2>6, <2>7, SameAlive, TasksUnchanged, Zenon DEF IInv, tasks
  <1> QED  BY <1>2, <1>3, Zenon

\* The head of the join loop: it only wakes threads up.
LEMMA JoinLoopKeeps ==
    ASSUME IInv, NEW i, NEW n, JoinLoop(i, n)
    PROVE  /\ pc' \in [Thread -> {"unborn", "born", "waiting", "awake", "running", "exited"}]
           /\ \A t \in Thread : pc'[t] = pc[t] \/ (pc[t] = "waiting" /\ pc'[t] = "awake")
           /\ Alive' = Alive
           /\ joining' = i
  <1>1. pc \in [Thread -> {"unborn", "born", "waiting", "awake", "running", "exited"}]
    BY Zenon DEF IInv, PoolTypeOK
  <1>2. /\ pc' \in [Thread -> {"unborn", "born", "waiting", "awake", "running", "exited"}]
        /\ \A t \in Thread : pc'[t] = pc[t] \/ (pc[t] = "waiting" /\ pc'[t] = "awake")
    <2>1. CASE pc' = pc
      BY <1>1, <2>1, Zenon
    <2>2. CASE pc' = Broadcast
      <3>1. \A t \in Thread : Broadcast[t] = IF pc[t] = "waiting" THEN "awake" ELSE pc[t]
        BY Zenon DEF Broadcast, Waiting
      <3>2. Broadcast \in [Thread -> {"unborn", "born", "waiting", "awake", "running", "exited"}]
        BY <1>1, Zenon DEF Broadcast
      <3> QED  BY <2>2, <3>1, <3>2, Zenon
    <2> QED  BY <2>1, <2>2, Zenon DEF JoinLoop
  <1>3. Alive' = Alive
    BY <1>2, Zenon DEF Alive
  <1> QED  BY <1>2, <1>3, Zenon DEF JoinLoop

\* The destructor begins when all threads are counted, so it joins them all.
LEMMA KillKeeps ==
    ASSUME IInv, Kill
    PROVE  IInv'
  <1>1. /\ owner = "up" /\ owner' = "joining"
        /\ num_threads' = num_threads_running_
        /\ JoinLoop(1, num_threads_running_)
        /\ UNCHANGED <<work_queue_, num_threads_running_, task, dispatched, started,
                       finished>>
    BY Zenon DEF Kill
  <1>2. killthreads_' = TRUE
    BY Zenon DEF Kill
  <1>3. /\ pc' \in [Thread -> {"unborn", "born", "waiting", "awake", "running", "exited"}]
        /\ \A t \in Thread : pc'[t] = pc[t] \/ (pc[t] = "waiting" /\ pc'[t] = "awake")
        /\ Alive' = Alive
        /\ joining' = 1
    BY <1>1, JoinLoopKeeps, Zenon
  <1>4. num_threads_running_ = NumThreads
    <2>1. pc \in [Thread -> {"unborn", "born", "waiting", "awake", "running", "exited"}]
      BY Zenon DEF IInv, PoolTypeOK
    <2>2. Alive = Thread
      BY <1>1, <2>1, Zenon DEF IInv, Phases, Alive
    <2> QED  BY <2>2, ThreadsFinite, Zenon DEF IInv, Counted
  <1>5. PoolTypeOK'
    <2>1. killthreads_' \in BOOLEAN
      BY <1>2, Zenon
    <2>2. num_threads' \in 0 .. NumThreads /\ joining' \in 1 .. NumThreads + 1
      BY <1>1, <1>3, <1>4, NumThreadsAssumption
    <2> QED  BY <1>1, <1>3, <2>1, <2>2, Zenon DEF IInv, PoolTypeOK
  <1>6. Phases'
    <2>1. \A t \in Thread : ~(t < 1)
      BY NumThreadsAssumption DEF Thread
    <2> QED  BY <1>1, <1>2, <1>3, <1>4, <2>1, Zenon DEF IInv, Phases
  <1>7. Hands'
    BY <1>1, <1>3, Zenon DEF IInv, Hands
  <1>8. QueueIsAttended'
    BY <1>1, Zenon DEF QueueIsAttended
  <1> QED  BY <1>1, <1>3, <1>5, <1>6, <1>7, <1>8, SameAlive, TasksUnchanged, Zenon DEF IInv, tasks

\* pthread_join has returned for one more thread.
LEMMA JoinKeeps ==
    ASSUME IInv, Join
    PROVE  IInv'
  <1>1. /\ owner = "joining" /\ joining <= num_threads /\ pc[joining] = "exited"
        /\ JoinLoop(joining + 1, num_threads)
        /\ UNCHANGED <<work_queue_, killthreads_, num_threads_running_, task, owner,
                       num_threads, dispatched, started, finished>>
    BY Zenon DEF Join
  <1>2. /\ pc' \in [Thread -> {"unborn", "born", "waiting", "awake", "running", "exited"}]
        /\ \A t \in Thread : pc'[t] = pc[t] \/ (pc[t] = "waiting" /\ pc'[t] = "awake")
        /\ Alive' = Alive
        /\ joining' = joining + 1
    BY <1>1, JoinLoopKeeps, Zenon
  <1>3. /\ joining \in 1 .. NumThreads + 1 /\ num_threads \in 0 .. NumThreads
        /\ num_threads = NumThreads
    BY <1>1, Zenon DEF IInv, PoolTypeOK, Phases
  <1>4. PoolTypeOK'
    <2>1. joining' \in 1 .. NumThreads + 1
      BY <1>1, <1>2, <1>3, NumThreadsAssumption
    <2> QED  BY <1>1, <1>2, <2>1, Zenon DEF IInv, PoolTypeOK
  <1>5. Phases'
    <2>1. \A t \in Thread : t < joining + 1 => t < joining \/ t = joining
      BY <1>3, NumThreadsAssumption DEF Thread
    <2> QED  BY <1>1, <1>2, <2>1, Zenon DEF IInv, Phases
  <1>6. Hands'
    BY <1>1, <1>2, Zenon DEF IInv, Hands
  <1>7. QueueIsAttended'
    BY <1>1, Zenon DEF QueueIsAttended
  <1> QED  BY <1>1, <1>2, <1>4, <1>5, <1>6, <1>7, SameAlive, TasksUnchanged, Zenon DEF IInv, tasks

\* The steps of the destructor behind the joins, and the tasks it runs itself.
LEMMA DrainKeeps ==
    ASSUME IInv, AllJoined \/ Drain \/ DrainReturns \/ Destroyed
    PROVE  IInv'
  <1>1. /\ Owner \in Executor /\ Owner \notin Thread
        /\ task \in [Executor -> Task \cup {NoTask}]
    BY NumThreadsAssumption DEF Executor, Owner, Thread, IInv, PoolTypeOK
  <1>2. CASE AllJoined \/ Destroyed
    <2>1. /\ \/ owner = "joining" /\ joining > num_threads /\ owner' = "draining"
             \/ owner = "draining" /\ owner' = "destroyed" /\ task[Owner] = NoTask
          /\ UNCHANGED <<work_queue_, killthreads_, num_threads_running_, pc, task,
                         num_threads, joining, dispatched, started, finished>>
      BY <1>2, Zenon DEF AllJoined, Destroyed
    <2>2. PoolTypeOK'
      BY <2>1, Zenon DEF IInv, PoolTypeOK
    <2>3. Phases'
      BY <2>1, Zenon DEF IInv, Phases
    <2>4. Hands'
      BY <2>1, Zenon DEF IInv, Hands
    <2>5. Alive' = Alive
      BY <2>1, Zenon DEF Alive
    <2>6. QueueIsAttended'
      BY <2>1, Zenon DEF QueueIsAttended
    <2> QED  BY <2>1, <2>2, <2>3, <2>4, <2>5, <2>6, SameAlive, TasksUnchanged, Zenon DEF IInv, tasks
  <1>3. CASE Drain
    <2>1. /\ owner = "draining" /\ task[Owner] = NoTask /\ work_queue_ # <<>>
          /\ PopFront(Owner)
          /\ UNCHANGED <<killthreads_, num_threads_running_, pc, owner, num_threads,
                         joining, dispatched, finished>>
      BY <1>3, Zenon DEF Drain
    <2>2. /\ FifoExactlyOnce' /\ NoRepeat' /\ OneExecutor'
          /\ work_queue_' \in Seq(Task) /\ started' \in Seq(Task)
          /\ task' = [task EXCEPT ![Owner] = Head(work_queue_)]
          /\ Head(work_queue_) \in Task
      BY <1>1, <2>1, PopFrontKeeps, Zenon DEF IInv
    <2>3. PoolTypeOK'
      BY <1>1, <2>1, <2>2, Zenon DEF IInv, PoolTypeOK
    <2>4. Phases'
      BY <2>1, Zenon DEF IInv, Phases
    <2>5. Hands'
      <3>1. \A t \in Thread : task'[t] = task[t]
        BY <1>1, <2>2, Zenon DEF Executor
      <3> QED  BY <2>1, <3>1, Zenon DEF IInv, Hands
    <2>6. Alive' = Alive
      BY <2>1, Zenon DEF Alive
    <2>7. QueueIsAttended'
      BY <2>1, Zenon DEF QueueIsAttended
    <2> QED  BY <2>1, <2>2, <2>3, <2>4, <2>5, <2>6, <2>7, SameAlive, Zenon DEF IInv
  <1>4. CASE DrainReturns
    <2>1. /\ owner = "draining" /\ task[Owner] # NoTask
          /\ Return(Owner)
          /\ UNCHANGED <<work_queue_, killthreads_, num_threads_running_, pc, owner,
                         num_threads, joining, dispatched, started>>
      BY <1>4, Zenon DEF DrainReturns
    <2>2. /\ FifoExactlyOnce' /\ NoRepeat' /\ OneExecutor'
          /\ finished' \subseteq Task
          /\ task' = [task EXCEPT ![Owner] = NoTask]
          /\ task' \in [Executor -> Task \cup {NoTask}]
      BY <1>1, <2>1, ReturnKeeps, Zenon DEF IInv
    <2>3. PoolTypeOK'
      BY <1>1, <2>1, <2>2, Zenon DEF IInv, PoolTypeOK
    <2>4. Phases'
      BY <2>1, Zenon DEF IInv, Phases
    <2>5. Hands'
      <3>1. \A t \in Thread : task'[t] = task[t]
        BY <1>1, <2>2, Zenon DEF Executor
      <3> QED  BY <2>1, <3>1, Zenon DEF IInv, Hands
    <2>6. Alive' = Alive
      BY <2>1, Zenon DEF Alive
    <2>7. QueueIsAttended'
      BY <2>1, Zenon DEF QueueIsAttended
    <2> QED  BY <2>1, <2>2, <2>3, <2>4, <2>5, <2>6, <2>7, SameAlive, Zenon DEF IInv
  <1> QED  BY <1>2, <1>3, <1>4, Zenon
-----------------------------------------------------------------------------
LEMMA StepIInv == IInv /\ [Next]_poolVars => IInv'
  <1> SUFFICES ASSUME IInv, [Next]_poolVars PROVE IInv'
    BY Zenon
  <1>1. CASE \E t \in Thread : Worker(t) \/ TaskReturns(t) \/ SpuriousWakeup(t)
    BY <1>1, ThreadStartKeeps, DequeueKeeps, NoMoreWorkKeeps, TaskReturnsKeeps,
       SpuriousWakeupKeeps, Zenon DEF Worker
  <1>2. CASE Spawn \/ Constructed
    BY <1>2, ConstructorKeeps, Zenon
  <1>3. CASE Kill
    BY <1>3, KillKeeps, Zenon
  <1>4. CASE Destructor \/ DrainReturns
    BY <1>4, JoinKeeps, DrainKeeps, Zenon DEF Destructor
  <1>5. CASE \E k \in Task : Dispatch(k)
    BY <1>5, DispatchKeeps, Zenon
  <1>6. CASE UNCHANGED poolVars
    <2>1. UNCHANGED <<work_queue_, killthreads_, num_threads_running_, pc, task, owner,
                      num_threads, joining, dispatched, started, finished>>
      BY <1>6, Zenon DEF poolVars
    <2>2. PoolTypeOK' /\ Phases' /\ Hands'
      BY <2>1, Zenon DEF IInv, PoolTypeOK, Phases, Hands
    <2>3. Counted' /\ QueueIsAttended'
      BY <2>1, Zenon DEF IInv, Counted, Alive, QueueIsAttended
    <2> QED  BY <2>1, <2>2, <2>3, TasksUnchanged, Zenon DEF IInv, tasks
  <1> QED  BY <1>1, <1>2, <1>3, <1>4, <1>5, <1>6, Zenon DEF Next

\* The invariant gives the conditions of the shutdown: when all threads are
\* joined none is alive, so none is counted.
LEMMA CleanShutdown == IInv => ShutdownIsClean
  <1> SUFFICES ASSUME IInv PROVE ShutdownIsClean
    BY Zenon
  <1>1. owner \in {"joining", "draining", "destroyed"} /\ joining > num_threads
          => \A t \in Thread : pc[t] = "exited"
    <2>1. joining \in 1 .. NumThreads + 1 /\ NumThreads \in Nat
      BY NumThreadsAssumption, Zenon DEF IInv, PoolTypeOK
    <2>2. joining > NumThreads => \A t \in Thread : t < joining
      BY <2>1 DEF Thread
    <2> QED  BY <2>2, Zenon DEF IInv, Phases
  <1>2. owner = "joining" /\ joining > num_threads => num_threads_running_ = 0
    <2> SUFFICES ASSUME owner = "joining", joining > num_threads
                 PROVE  num_threads_running_ = 0
      BY Zenon
    <2>1. Alive = {}
      BY <1>1, Zenon DEF Alive
    <2> QED  BY <2>1, FS_EmptySet, Zenon DEF IInv, Counted
  <1>3. owner = "up" => ~killthreads_
    BY Zenon DEF IInv, Phases
  <1>4. owner \in {"draining", "destroyed"} => \A t \in Thread : pc[t] = "exited"
    BY <1>1, Zenon DEF IInv, Phases
  <1> QED  BY <1>2, <1>3, <1>4, Zenon DEF ShutdownIsClean

\* The inductive invariant holds in every state of the pool.
THEOREM Invariant == Spec => []IInv
  <1>1. InitPool => IInv
    BY InitIInv, Zenon
  <1>2. IInv /\ [Next]_poolVars => IInv'
    BY StepIInv, Zenon
  <1> QED  BY <1>1, <1>2, PTL DEF Spec

\* For every number of threads: tasks are taken once each, in the order of
\* Dispatch, and none is lost, up to the end of the destructor.
THEOREM PoolIsFifo == Spec => []FifoExactlyOnce
  <1>1. IInv => FifoExactlyOnce
    BY Zenon DEF IInv
  <1> QED  BY <1>1, Invariant, PTL

\* For every number of threads: no task is in two hands or lost between the
\* queue and the return of its f_.
THEOREM PoolTasksOnce == Spec => []OneExecutor
  <1>1. IInv => OneExecutor
    BY Zenon DEF IInv
  <1> QED  BY <1>1, Invariant, PTL

\* For every number of threads: no wakeup is lost.
THEOREM PoolWakesUp == Spec => []QueueIsAttended
  <1>1. IInv => QueueIsAttended
    BY Zenon DEF IInv
  <1> QED  BY <1>1, Invariant, PTL

\* For every number of threads: no Verify333 of the pool fails, and the
\* destructor is alone with the queue when it reads it without the mutex.
THEOREM PoolShutsDown == Spec => []ShutdownIsClean
  BY CleanShutdown, Invariant, PTL
-----------------------------------------------------------------------------
(* The server and its pool. *)

\* A return of HttpServer_ThrFn is a return of a task.
LEMMA ThrFnIsTask ==
    ASSUME NEW e \in Executor, ThrFn(e)
    PROVE  [Next]_poolVars
  <1>1. CASE \E c \in Client : GetNextRequest(e, c) \/ Respond(e, c)
    BY <1>1, Zenon DEF GetNextRequest, Respond
  <1>2. CASE ThrFnReturns(e)
    <2>1. e = Owner => DrainReturns
      BY <1>2, Zenon DEF ThrFnReturns
    <2>2. e # Owner => e \in Thread /\ TaskReturns(e)
      BY <1>2, Zenon DEF ThrFnReturns, Executor
    <2> QED  BY <2>1, <2>2, Zenon DEF Next
  <1> QED  BY <1>1, <1>2, Zenon DEF ThrFn

\* A step of the server is a step of the pool or leaves it alone.
LEMMA ServerStepIsPoolStep == [HttpNext]_vars => [Next]_poolVars
  <1> SUFFICES ASSUME [HttpNext]_vars PROVE [Next]_poolVars
    BY Zenon
  <1>1. CASE Clients
    BY <1>1, Zenon DEF Clients, Send, Leave
  <1>2. CASE \E c \in Client : Accept(c)
    BY <1>2, Zenon DEF Accept, Client, Next
  <1>3. CASE AcceptFails
    BY <1>3, Zenon DEF AcceptFails, Next
  <1>4. CASE \E e \in Executor : ThrFn(e)
    BY <1>4, ThrFnIsTask, Zenon
  <1>5. CASE PoolSteps
    BY <1>5, Zenon DEF PoolSteps, Next
  <1>6. CASE Ended
    BY <1>6, Zenon DEF Ended, vars
  <1>7. CASE UNCHANGED vars
    BY <1>7, Zenon DEF vars
  <1> QED  BY <1>1, <1>2, <1>3, <1>4, <1>5, <1>6, <1>7, Zenon DEF HttpNext

\* Whatever clients do and however accept and read fail, the server drives its
\* pool through behaviours of the pool's specification only: Dispatch is never
\* called on a pool being killed, and a task is only ever a connection.
THEOREM ServerImplementsPool == HttpSpec => Spec
  <1>1. Init => InitPool
    BY Zenon DEF Init
  <1> QED  BY <1>1, ServerStepIsPoolStep, PTL DEF HttpSpec, Spec

\* So every connection is dispatched, taken and served once, in the order of
\* accept, no wakeup is lost, and no Verify333 of the pool fails.
THEOREM ServerKeepsPool ==
    HttpSpec => [](FifoExactlyOnce /\ OneExecutor /\ QueueIsAttended /\ ShutdownIsClean)
  BY ServerImplementsPool, PoolIsFifo, PoolTasksOnce, PoolWakesUp, PoolShutsDown, PTL

-----------------------------------------------------------------------------
(* The requests of a connection.  Wherever reads cut the stream, buffer_    *)
(* begins with the request after the last one taken, and buffer_, what is   *)
(* on the wire and what the client has not sent are together the rest of    *)
(* the stream.                                                              *)

Piece == {NL} \cup UNION {Elements(Requests[c]) : c \in Client}

\* The pieces s are those of the stream behind the first k.
Follows(s, k, c) ==
    /\ s \in Seq(Piece) /\ k + Len(s) <= 3 * Len(Requests[c])
    /\ \A i \in 1 .. Len(s) : s[i] = Stream(c)[k + i]

\* The pieces a come behind the first k and the pieces b behind a.
Adjacent(a, b, k, c) == Follows(a, k, c) /\ Follows(b, k + Len(a), c)

\* n pieces have moved from the front of b to the end of a.
Moved(a, b, n, a2, b2) ==
    n \in 1 .. Len(b) /\ a2 = a \o SubSeq(b, 1, n) /\ b2 = SubSeq(b, n + 1, Len(b))

\* The first piece of b has moved to the end of a.
OneMoved(a, b, a2, b2) == b # <<>> /\ a2 = Append(a, Head(b)) /\ b2 = Tail(b)

\* Requests taken from buffer_.
Taken(c) == Len(replies[c]) + (IF conn[c] = "answering" THEN 1 ELSE 0)

Answers(c) ==
    /\ replies[c] \in Seq(Piece) /\ Len(replies[c]) <= Len(Requests[c])
    /\ \A i \in 1 .. Len(replies[c]) : replies[c][i] = Requests[c][i]

Buffered(c) ==
    /\ Taken(c) <= Len(Requests[c])
    /\ conn[c] = "answering" => req[c].request = Requests[c][Taken(c)]
    /\ Follows(buffer_[c], 3 * Taken(c), c)

InTransit(c) ==
    LET read == 3 * Taken(c) + Len(buffer_[c])
    IN  IF client[c] = "reset"
        THEN wire[c] = <<>>
        ELSE /\ Follows(wire[c], read, c)
             /\ Follows(toSend[c], read + Len(wire[c]), c)
             /\ read + Len(wire[c]) + Len(toSend[c]) = 3 * Len(Requests[c])

ConnectionInv(c) ==
    /\ conn[c] \in {"reading", "answering", "done"}
    /\ Answers(c)
    /\ conn[c] # "done" => Buffered(c) /\ InTransit(c)

HttpTypes ==
    /\ toSend \in [Client -> Seq(Piece)] /\ wire \in [Client -> Seq(Piece)]
    /\ client \in [Client -> {"new", "open", "closed", "reset"}]
    /\ buffer_ \in [Client -> Seq(Piece)]
    /\ DOMAIN conn = Client /\ DOMAIN req = Client /\ DOMAIN replies = Client

ConnectionsInv == HttpTypes /\ \A c \in Client : ConnectionInv(c)

\* Part of a sequence of pieces.
LEMMA PartOf ==
    ASSUME NEW S, NEW s \in Seq(S), NEW m \in 1..(Len(s) + 1), NEW n \in 0..Len(s), m <= n + 1
    PROVE  /\ SubSeq(s, m, n) \in Seq(S)
           /\ Len(SubSeq(s, m, n)) = n - m + 1
           /\ \A i \in 1..(n - m + 1) : SubSeq(s, m, n)[i] = s[m + i - 1]
<1>1. Len(SubSeq(s, m, n)) = n - m + 1
  OBVIOUS
<1>2. \A i \in 1..(n - m + 1) : SubSeq(s, m, n)[i] = s[m + i - 1]
  OBVIOUS
<1>3. SubSeq(s, m, n) \in Seq(S)
  OBVIOUS
<1> QED BY <1>1, <1>2, <1>3, Zenon

\* Pieces joined to the end of others.
LEMMA Joined ==
    ASSUME NEW S, NEW a \in Seq(S), NEW b \in Seq(S)
    PROVE  /\ a \o b \in Seq(S)
           /\ Len(a \o b) = Len(a) + Len(b)
           /\ \A i \in 1..(Len(a) + Len(b)) : (a \o b)[i] = IF i <= Len(a) THEN a[i] ELSE b[i - Len(a)]
<1>1. a \o b \in Seq(S)
  OBVIOUS
<1>2. Len(a \o b) = Len(a) + Len(b)
  OBVIOUS
<1>3. \A i \in 1..(Len(a) + Len(b)) : (a \o b)[i] = IF i <= Len(a) THEN a[i] ELSE b[i - Len(a)]
  OBVIOUS
<1> QED BY <1>1, <1>2, <1>3, Zenon

\* What a client writes: of every three pieces the first is the request line and
\* the other two end the line and the headers.
LEMMA StreamPieces ==
    ASSUME NEW c \in Client
    PROVE  /\ Len(Requests[c]) \in Nat
           /\ \A i \in 1 .. Len(Requests[c]) : Requests[c][i] # NL
           /\ Stream(c) \in Seq(Piece) /\ Len(Stream(c)) = 3 * Len(Requests[c])
           /\ \A n \in 0 .. Len(Requests[c]) - 1 :
                Stream(c)[3 * n + 1] = Requests[c][n + 1]
           /\ \A k \in 1 .. 3 * Len(Requests[c]) : k % 3 # 1 => Stream(c)[k] = NL
           /\ \A k \in 1 .. 3 * Len(Requests[c]) : k % 3 = 1 => Stream(c)[k] # NL
  <1> DEFINE N == Len(Requests[c])
  <1>1. N \in Nat /\ \A i \in 1 .. N : Requests[c][i] # NL
    BY RequestsAssumption
  <1> HIDE DEF N
  <1>2. Stream(c) = [k \in 1 .. 3 * N |-> IF k % 3 = 1 THEN Requests[c][(k + 2) \div 3] ELSE NL]
    BY Zenon DEF Stream, N
  <1>3. \A k \in 1 .. 3 * N : k % 3 = 1 => (k + 2) \div 3 \in 1 .. N
    BY <1>1
  <1>4. \A k \in 1 .. 3 * N : Stream(c)[k] = IF k % 3 = 1 THEN Requests[c][(k + 2) \div 3] ELSE NL
    BY <1>2, Zenon
  <1>5. \A k \in 1 .. 3 * N : Stream(c)[k] \in Piece
    <2>1. NL \in Piece
      BY Zenon DEF Piece
    <2>2. \A i \in 1 .. N : Requests[c][i] \in Elements(Requests[c])
      BY RequestsAssumption DEF Elements, N
    <2>3. \A i \in 1 .. N : Requests[c][i] \in Piece
      BY <2>2, Zenon DEF Piece
    <2> QED  BY <1>3, <1>4, <2>1, <2>3, Zenon
  <1>6. Stream(c) \in Seq(Piece) /\ Len(Stream(c)) = 3 * N
    <2>1. 3 * N \in Nat
      BY <1>1
    <2>2. Stream(c) \in [1 .. 3 * N -> Piece]
      BY <1>2, <1>5, Zenon
    <2> QED  BY <2>1, <2>2
  <1>7. \A n \in 0 .. N - 1 : /\ 3 * n + 1 \in 1 .. 3 * N /\ (3 * n + 1) % 3 = 1
                              /\ (3 * n + 1 + 2) \div 3 = n + 1
    BY <1>1
  <1>8. \A n \in 0 .. N - 1 : Stream(c)[3 * n + 1] = Requests[c][n + 1]
    BY <1>4, <1>7, Zenon
  <1>9. \A k \in 1 .. 3 * N : /\ k % 3 # 1 => Stream(c)[k] = NL
                              /\ k % 3 = 1 => Stream(c)[k] # NL
    BY <1>1, <1>3, <1>4, Zenon
  <1> QED  BY <1>1, <1>6, <1>8, <1>9, Zenon DEF N

\* A buffer that begins with a request has its first "\r\n\r\n" right behind
\* the lines of that request.
LEMMA FirstEnd ==
    ASSUME NEW c \in Client, NEW n \in Nat, NEW b, Follows(b, 3 * n, c)
    PROVE  /\ Ends(b) = {} <=> Len(b) < 3
           /\ Len(b) >= 3 => /\ Find(b) = 2
                             /\ n + 1 <= Len(Requests[c])
                             /\ ParseRequest(b, Find(b) + 1).request = Requests[c][n + 1]
                             /\ Follows(SubSeq(b, Find(b) + 2, Len(b)), 3 * (n + 1), c)
                             /\ Len(SubSeq(b, Find(b) + 2, Len(b))) = Len(b) - 3
  <1> DEFINE N == Len(Requests[c])
             L == Len(b)
  <1>1. /\ N \in Nat /\ L \in Nat /\ b \in Seq(Piece) /\ 3 * n + L <= 3 * N
        /\ \A i \in 1 .. L : b[i] = Stream(c)[3 * n + i]
    BY StreamPieces DEF Follows
  <1>2. \A i \in 1 .. L : 3 * n + i \in 1 .. 3 * N /\ (3 * n + i) % 3 = i % 3
    <2>1. \A x, y \in Nat : (3 * x + y) % 3 = y % 3
      OBVIOUS
    <2> HIDE DEF L, N
    <2>2. \A i \in 1 .. L : i \in Nat /\ 3 * n + i \in 1 .. 3 * N
      BY ONLY <1>1, n \in Nat
    <2> QED  BY ONLY <2>1, <2>2, n \in Nat, Zenon
  <1>3. \A i \in 1 .. L : b[i] = NL <=> i % 3 # 1
    <2>1. \A i \in 1 .. 3 * N : Stream(c)[i] = NL <=> i % 3 # 1
      BY StreamPieces, Zenon
    <2> HIDE DEF L, N
    <2> QED  BY ONLY <1>1, <1>2, <2>1, Zenon
  <1>4. \A i \in 1 .. L - 1 : i \in Ends(b) <=> i % 3 = 2
    <2>1. \A i \in 1 .. L - 1 : i \in 1 .. L /\ i + 1 \in 1 .. L /\ (i % 3 # 1 /\ (i + 1) % 3 # 1 <=> i % 3 = 2)
      BY <1>1
    <2> QED  BY <1>3, <2>1, Zenon DEF Ends
  <1>5. Ends(b) \subseteq 1 .. L - 1
    BY Zenon DEF Ends
  <1>6. \A i \in Ends(b) : i \in Nat /\ 2 <= i /\ L >= 3
    <2>1. \A i \in Nat : i % 3 = 2 => 2 <= i
      OBVIOUS
    <2>2. \A i \in 1 .. L - 1 : i \in Nat /\ (2 <= i => L >= 3)
      BY <1>1
    <2> QED  BY <1>4, <1>5, <2>1, <2>2, Zenon
  <1>7. L >= 3 => 2 \in Ends(b)
    <2>1. L >= 3 => 2 \in 1 .. L - 1 /\ 2 % 3 = 2
      BY <1>1
    <2> QED  BY <1>4, <2>1, Zenon
  <1>8. Ends(b) = {} <=> L < 3
    BY <1>1, <1>6, <1>7
  <1>9. ASSUME L >= 3
        PROVE  /\ Find(b) = 2
               /\ n + 1 <= N
               /\ ParseRequest(b, Find(b) + 1).request = Requests[c][n + 1]
               /\ Follows(SubSeq(b, Find(b) + 2, L), 3 * (n + 1), c)
               /\ Len(SubSeq(b, Find(b) + 2, L)) = L - 3
    <2>1. Find(b) = 2
      <3>1. 2 \in Ends(b) /\ \A j \in Ends(b) : 2 <= j
        BY <1>6, <1>7, <1>9, Zenon
      <3>2. \A i \in Ends(b) : (\A j \in Ends(b) : i <= j) => i = 2
        BY <1>6, <3>1
      <3> QED  BY <3>1, <3>2, Zenon DEF Find
    <2>2. n + 1 <= N
      BY <1>1, <1>9
    <2>3. b[1] = Requests[c][n + 1] /\ b[1] # NL /\ b[2] = NL /\ b[3] = NL
      <3>1. n \in 0 .. N - 1 /\ 1 \in 1 .. L /\ 2 \in 1 .. L /\ 3 \in 1 .. L
        BY <1>1, <1>9, <2>2
      <3>2. 1 % 3 = 1 /\ 2 % 3 # 1 /\ 3 % 3 # 1
        OBVIOUS
      <3> QED  BY <1>1, <1>3, <3>1, <3>2, StreamPieces, Zenon
    <2>4. ParseRequest(b, 3).request = b[1]
      <3> DEFINE s == SubSeq(b, 1, 3)
      <3>1. DOMAIN s = 1 .. 3 /\ s[1] = b[1] /\ s[2] = b[2] /\ s[3] = b[3]
        BY <1>1, <1>9
      <3>2. Elements(s) = {b[1], NL}
        BY <2>3, <3>1 DEF Elements
      <3> HIDE DEF s
      <3>3. (CHOOSE r \in Elements(s) : r # NL) = b[1]
        BY <2>3, <3>2, Zenon
      <3> QED  BY <3>3, Zenon DEF ParseRequest, s
    <2>5. Follows(SubSeq(b, 4, L), 3 * (n + 1), c) /\ Len(SubSeq(b, 4, L)) = L - 3
      <3> DEFINE s == SubSeq(b, 4, L)
      <3>1. s \in Seq(Piece) /\ Len(s) = L - 3 /\ \A i \in 1 .. L - 3 : s[i] = b[i + 3]
        <4>1. b \in Seq(Piece) /\ 4 \in 1 .. (L + 1) /\ L \in 0 .. L /\ 4 <= L + 1
          BY <1>1, <1>9
        <4>2. /\ s \in Seq(Piece) /\ Len(s) = L - 4 + 1
              /\ \A i \in 1 .. (L - 4 + 1) : s[i] = b[4 + i - 1]
          BY ONLY <4>1, PartOf, Zenon
        <4> HIDE DEF s, L
        <4>3. L - 4 + 1 = L - 3 /\ \A i \in Int : 4 + i - 1 = i + 3
          BY <1>1
        <4>4. Len(s) = L - 3
          BY <1>1, <1>9, <4>2
        <4> QED  BY ONLY <4>2, <4>3, <4>4
      <3>2. \A i \in 1 .. L - 3 : i + 3 \in 1 .. L /\ 3 * n + (i + 3) = 3 * (n + 1) + i
        BY <1>1
      <3>3. 3 * (n + 1) + (L - 3) <= 3 * N
        BY <1>1
      <3> HIDE DEF s, L
      <3> QED  BY <1>1, <3>1, <3>2, <3>3, Zenon DEF Follows, s
    <2> QED  BY <2>1, <2>2, <2>3, <2>4, <2>5
  <1> QED  BY <1>8, <1>9, Zenon

\* Reading moves pieces from the wire to the end of buffer_.
LEMMA Reading ==
    ASSUME NEW c \in Client, NEW k \in Nat, NEW b, NEW w, Adjacent(b, w, k, c),
           NEW n, NEW b2, NEW w2, Moved(b, w, n, b2, w2)
    PROVE  Adjacent(b2, w2, k, c) /\ Len(b2) = Len(b) + n /\ Len(w2) = Len(w) - n
  <1> DEFINE N == Len(Requests[c])
             L == Len(b)
             M == Len(w)
             p == SubSeq(w, 1, n)
             S == Stream(c)
  <1>1. /\ N \in Nat /\ L \in Nat /\ M \in Nat /\ b \in Seq(Piece) /\ w \in Seq(Piece)
        /\ k + L + M <= 3 * N /\ n \in 1 .. M
        /\ \A i \in 1 .. L : b[i] = S[k + i]
        /\ \A i \in 1 .. M : w[i] = S[k + L + i]
    <2>1. n \in 1 .. M /\ Follows(b, k, c) /\ Follows(w, k + L, c)
      BY Zenon DEF Adjacent, Moved
    <2> QED  BY <2>1, StreamPieces DEF Follows
  <1>2. p \in Seq(Piece) /\ Len(p) = n /\ \A i \in 1 .. n : p[i] = w[i]
    <2>1. PICK m \in Nat : m = 1
      OBVIOUS
    <2>2. w \in Seq(Piece) /\ m \in 1 .. (M + 1) /\ n \in 0 .. M /\ m <= n + 1
      BY <1>1, <2>1
    <2>3. /\ SubSeq(w, m, n) \in Seq(Piece) /\ Len(SubSeq(w, m, n)) = n - m + 1
          /\ \A i \in 1 .. (n - m + 1) : SubSeq(w, m, n)[i] = w[m + i - 1]
      BY ONLY <2>2, PartOf, Zenon
    <2>4. p = SubSeq(w, m, n) /\ n - m + 1 = n /\ \A i \in Int : m + i - 1 = i
      BY <1>1, <2>1
    <2> HIDE DEF p
    <2> QED  BY ONLY <2>3, <2>4
  <1>3. w2 \in Seq(Piece) /\ Len(w2) = M - n /\ \A i \in 1 .. M - n : w2[i] = w[i + n]
    <2>0. w2 = SubSeq(w, n + 1, M)
      BY Zenon DEF Moved
    <2>1. w \in Seq(Piece) /\ n + 1 \in 1 .. (M + 1) /\ M \in 0 .. M /\ n + 1 <= M + 1
      BY <1>1
    <2>2. /\ w2 \in Seq(Piece) /\ Len(w2) = M - (n + 1) + 1
          /\ \A i \in 1 .. (M - (n + 1) + 1) : w2[i] = w[n + 1 + i - 1]
      BY ONLY <2>1, <2>0, PartOf, Zenon
    <2> HIDE DEF M
    <2>3. M - (n + 1) + 1 = M - n /\ \A i \in Int : n + 1 + i - 1 = i + n
      BY <1>1
    <2>4. Len(w2) = M - n /\ \A i \in 1 .. M - n : i \in Int
      BY <1>1, <2>2
    <2> QED  BY ONLY <2>2, <2>3, <2>4, Zenon
  <1>4. /\ b2 \in Seq(Piece) /\ Len(b2) = L + n
        /\ \A i \in 1 .. L + n : b2[i] = IF i <= L THEN b[i] ELSE p[i - L]
    <2>0. b2 = b \o p
      BY Zenon DEF Moved
    <2> HIDE DEF p
    <2>1. /\ b2 \in Seq(Piece) /\ Len(b2) = Len(b) + Len(p)
          /\ \A i \in 1 .. Len(b) + Len(p) : b2[i] = IF i <= Len(b) THEN b[i] ELSE p[i - Len(b)]
      <3>1. b \in Seq(Piece) /\ p \in Seq(Piece)
        BY <1>1, <1>2, Zenon
      <3> QED  BY ONLY <2>0, <3>1, Joined, Zenon
    <2> QED  BY <1>2, <2>1, Zenon
  <1> HIDE DEF L, M, N, p, S
  <1>5. \A i \in 1 .. L + n : b2[i] = S[k + i]
    <2> SUFFICES ASSUME NEW i \in 1 .. L + n PROVE b2[i] = S[k + i]
      BY Zenon
    <2>1. CASE i <= L
      <3>1. i \in 1 .. L
        BY <1>1, <2>1
      <3> QED  BY ONLY <1>1, <1>4, <2>1, <3>1, i \in 1 .. L + n, Zenon
    <2>2. CASE ~(i <= L)
      <3>1. i - L \in 1 .. n /\ i - L \in 1 .. M /\ k + L + (i - L) = k + i
        BY <1>1, <2>2
      <3>2. b2[i] = p[i - L]
        BY ONLY <1>4, <2>2, i \in 1 .. L + n, Zenon
      <3>3. p[i - L] = w[i - L] /\ w[i - L] = S[k + L + (i - L)]
        BY ONLY <1>1, <1>2, <3>1, Zenon
      <3> QED  BY ONLY <3>1, <3>2, <3>3, Zenon
    <2> QED  BY <2>1, <2>2, Zenon
  <1>6. \A i \in 1 .. M - n : w2[i] = S[k + (L + n) + i]
    <2> SUFFICES ASSUME NEW i \in 1 .. M - n PROVE w2[i] = S[k + (L + n) + i]
      BY Zenon
    <2>1. i + n \in 1 .. M /\ k + L + (i + n) = k + (L + n) + i
      BY <1>1
    <2> QED  BY ONLY <1>1, <1>3, <2>1, i \in 1 .. M - n, Zenon
  <1>7. k + (L + n) <= 3 * N /\ k + (L + n) + (M - n) <= 3 * N
    <2>1. k \in Nat /\ L \in Nat /\ M \in Nat /\ N \in Nat /\ n \in 1 .. M /\ k + L + M <= 3 * N
      BY <1>1, Zenon
    <2> QED  BY ONLY <2>1
  <1>8. Follows(b2, k, c) /\ Follows(w2, k + Len(b2), c)
    BY <1>3, <1>4, <1>5, <1>6, <1>7, Zenon DEF Follows, N, S
  <1> QED  BY <1>3, <1>4, <1>8, Zenon DEF Adjacent, L, M

\* A client that sends moves a piece to the end of what is on the wire.
LEMMA Sending ==
    ASSUME NEW c \in Client, NEW k \in Nat, NEW w, NEW s, Adjacent(w, s, k, c),
           NEW w2, NEW s2, OneMoved(w, s, w2, s2)
    PROVE  Adjacent(w2, s2, k, c) /\ Len(w2) = Len(w) + 1 /\ Len(s2) = Len(s) - 1
  <1> DEFINE N == Len(Requests[c])
             L == Len(w)
             M == Len(s)
             S == Stream(c)
  <1>1. /\ N \in Nat /\ L \in Nat /\ M \in Nat /\ w \in Seq(Piece) /\ s \in Seq(Piece)
        /\ k + L + M <= 3 * N
        /\ \A i \in 1 .. L : w[i] = S[k + i]
        /\ \A i \in 1 .. M : s[i] = S[k + L + i]
    <2>1. Follows(w, k, c) /\ Follows(s, k + L, c)
      BY Zenon DEF Adjacent
    <2> QED  BY <2>1, StreamPieces DEF Follows
  <1>0. s # <<>> /\ w2 = Append(w, Head(s)) /\ s2 = Tail(s)
    BY Zenon DEF OneMoved
  <1>2. M >= 1 /\ Head(s) = s[1] /\ Head(s) \in Piece
    BY <1>0, <1>1
  <1>3. s2 \in Seq(Piece) /\ Len(s2) = M - 1 /\ \A i \in 1 .. M - 1 : s2[i] = s[i + 1]
    BY <1>0, <1>1, <1>2
  <1>4. w2 \in Seq(Piece) /\ Len(w2) = L + 1 /\ \A i \in 1 .. L + 1 : w2[i] = IF i <= L THEN w[i] ELSE s[1]
    BY <1>0, <1>1, <1>2
  <1> HIDE DEF L, M, N, S
  <1>5. \A i \in 1 .. L + 1 : w2[i] = S[k + i]
    <2> SUFFICES ASSUME NEW i \in 1 .. L + 1 PROVE w2[i] = S[k + i]
      BY Zenon
    <2>1. CASE i <= L
      <3>1. i \in 1 .. L
        BY <1>1, <2>1
      <3> QED  BY ONLY <1>1, <1>4, <2>1, <3>1, i \in 1 .. L + 1, Zenon
    <2>2. CASE ~(i <= L)
      <3>0. k \in Nat /\ L \in Nat /\ M \in Nat /\ M >= 1
        BY <1>1, <1>2, Zenon
      <3>1. 1 \in 1 .. M /\ k + L + 1 = k + i
        BY ONLY <2>2, <3>0, i \in 1 .. L + 1
      <3> QED  BY ONLY <1>1, <1>4, <2>2, <3>1, i \in 1 .. L + 1, Zenon
    <2> QED  BY <2>1, <2>2, Zenon
  <1>6. \A i \in 1 .. M - 1 : s2[i] = S[k + (L + 1) + i]
    <2> SUFFICES ASSUME NEW i \in 1 .. M - 1 PROVE s2[i] = S[k + (L + 1) + i]
      BY Zenon
    <2>1. i + 1 \in 1 .. M /\ k + L + (i + 1) = k + (L + 1) + i
      BY <1>1
    <2> QED  BY ONLY <1>1, <1>3, <2>1, i \in 1 .. M - 1, Zenon
  <1>7. k + (L + 1) <= 3 * N /\ k + (L + 1) + (M - 1) <= 3 * N
    BY <1>0, <1>1, <1>2
  <1>8. Follows(w2, k, c) /\ Follows(s2, k + Len(w2), c)
    BY <1>3, <1>4, <1>5, <1>6, <1>7, Zenon DEF Follows, N, S
  <1> QED  BY <1>3, <1>4, <1>8, Zenon DEF Adjacent, L, M

\* The invariant of a connection depends on its own state alone.
LEMMA OtherConnections ==
    ASSUME NEW c, ConnectionInv(c),
           toSend'[c] = toSend[c], wire'[c] = wire[c], client'[c] = client[c], buffer_'[c] = buffer_[c],
           conn'[c] = conn[c], req'[c] = req[c], replies'[c] = replies[c]
    PROVE  ConnectionInv(c)'
  <1>1. Taken(c)' = Taken(c)
    BY Zenon DEF Taken
  <1>2. Answers(c)' <=> Answers(c)
    BY Zenon DEF Answers
  <1>3. Buffered(c)' <=> Buffered(c)
    BY <1>1, Zenon DEF Buffered, Follows
  <1>4. InTransit(c)' <=> InTransit(c)
    BY <1>1, Zenon DEF InTransit, Follows
  <1> QED  BY <1>2, <1>3, <1>4, Zenon DEF ConnectionInv

LEMMA SendStep ==
    ASSUME ConnectionsInv, NEW c \in Client, Send(c)
    PROVE  ConnectionsInv'
  <1>0. HttpTypes /\ ConnectionInv(c) /\ toSend[c] \in Seq(Piece) /\ wire[c] \in Seq(Piece)
    BY Zenon DEF ConnectionsInv, HttpTypes
  <1>1. /\ client[c] = "open" /\ toSend[c] # <<>>
        /\ wire'[c] = Append(wire[c], Head(toSend[c])) /\ toSend'[c] = Tail(toSend[c])
        /\ UNCHANGED <<client, buffer_, conn, req, replies>>
    BY <1>0, Zenon DEF Send, HttpTypes
  <1>2. HttpTypes'
    <2>1. Head(toSend[c]) \in Piece /\ Tail(toSend[c]) \in Seq(Piece)
      BY <1>0, <1>1
    <2> QED  BY <1>0, <1>1, <2>1 DEF Send, HttpTypes
  <1>3. ASSUME NEW d \in Client, d # c PROVE ConnectionInv(d)'
    <2>1. wire'[d] = wire[d] /\ toSend'[d] = toSend[d]
      BY <1>0, <1>3, Zenon DEF Send, HttpTypes
    <2> QED  BY <1>1, <2>1, OtherConnections, Zenon DEF ConnectionsInv
  <1>4. ConnectionInv(c)'
    <2>1. Answers(c)' /\ (Buffered(c) => Buffered(c)') /\ Taken(c)' = Taken(c)
      BY <1>0, <1>1, Zenon DEF ConnectionInv, Answers, Buffered, Taken, Follows
    <2>2. ASSUME conn[c] # "done" PROVE InTransit(c)'
      <3> DEFINE k == 3 * Taken(c) + Len(buffer_[c])
      <3>1. /\ Follows(wire[c], k, c) /\ Follows(toSend[c], k + Len(wire[c]), c)
            /\ k + Len(wire[c]) + Len(toSend[c]) = 3 * Len(Requests[c])
        BY <1>0, <1>1, <2>2, Zenon DEF ConnectionInv, InTransit
      <3>2. k \in Nat /\ Len(wire[c]) \in Nat /\ Len(toSend[c]) \in Nat
        BY <1>0 DEF ConnectionInv, Answers, Taken, HttpTypes
      <3> HIDE DEF k
      <3>3. /\ Follows(wire'[c], k, c) /\ Len(wire'[c]) = Len(wire[c]) + 1
            /\ Follows(toSend'[c], k + Len(wire'[c]), c) /\ Len(toSend'[c]) = Len(toSend[c]) - 1
        <4>1. PICK w, q, w2, q2 : w = wire[c] /\ q = toSend[c] /\ w2 = wire'[c] /\ q2 = toSend'[c]
          BY Zenon
        <4>2. Adjacent(w, q, k, c) /\ OneMoved(w, q, w2, q2)
          BY ONLY <1>1, <3>1, <4>1, Zenon DEF Adjacent, OneMoved
        <4>3. Adjacent(w2, q2, k, c) /\ Len(w2) = Len(w) + 1 /\ Len(q2) = Len(q) - 1
          BY ONLY <3>2, <4>2, c \in Client, Sending, SMTT(20)
        <4> QED  BY ONLY <4>1, <4>3, Zenon DEF Adjacent
      <3>4. k + Len(wire'[c]) + Len(toSend'[c]) = 3 * Len(Requests[c])
        <4>1. \A x, y \in Nat : k + (x + 1) + (y - 1) = k + x + y
          BY <3>2
        <4>2. k + (Len(wire[c]) + 1) + (Len(toSend[c]) - 1) = k + Len(wire[c]) + Len(toSend[c])
          BY ONLY <3>2, <4>1, Zenon
        <4> QED  BY ONLY <3>1, <3>3, <4>2, Zenon
      <3>5. k = (3 * Taken(c) + Len(buffer_[c]))'
        BY <1>1, <2>1, Zenon DEF k
      <3> QED  BY <1>1, <3>3, <3>4, <3>5, Zenon DEF InTransit, Follows
    <2> QED  BY <1>0, <1>1, <2>1, <2>2, Zenon DEF ConnectionInv
  <1> QED  BY <1>2, <1>3, <1>4, Zenon DEF ConnectionsInv

LEMMA LeaveStep ==
    ASSUME ConnectionsInv, NEW c \in Client, NEW how \in {"closed", "reset"}, Leave(c, how)
    PROVE  ConnectionsInv'
  <1>0. HttpTypes /\ ConnectionInv(c)
    BY Zenon DEF ConnectionsInv
  <1>1. /\ client[c] = "open" /\ client'[c] = how
        /\ wire'[c] = IF how = "reset" THEN <<>> ELSE wire[c]
        /\ UNCHANGED <<toSend, buffer_, conn, req, replies>>
    BY <1>0, Zenon DEF Leave, HttpTypes
  <1>2. HttpTypes'
    <2>1. <<>> \in Seq(Piece)
      OBVIOUS
    <2> QED  BY <1>0, <1>1, <2>1, Zenon DEF Leave, HttpTypes
  <1>3. ASSUME NEW d \in Client, d # c PROVE ConnectionInv(d)'
    <2>1. wire'[d] = wire[d] /\ client'[d] = client[d]
      BY <1>0, <1>3, Zenon DEF Leave, HttpTypes
    <2> QED  BY <1>1, <2>1, OtherConnections, Zenon DEF ConnectionsInv
  <1>4. ConnectionInv(c)'
    <2>1. Answers(c)' /\ (Buffered(c) => Buffered(c)') /\ Taken(c)' = Taken(c)
      BY <1>0, <1>1, Zenon DEF ConnectionInv, Answers, Buffered, Taken, Follows
    <2>2. conn[c] # "done" => InTransit(c)'
      BY <1>0, <1>1, <2>1, Zenon DEF ConnectionInv, InTransit, Follows
    <2> QED  BY <1>0, <1>1, <2>1, <2>2, Zenon DEF ConnectionInv
  <1> QED  BY <1>2, <1>3, <1>4, Zenon DEF ConnectionsInv

LEMMA GetNextRequestStep ==
    ASSUME ConnectionsInv, NEW e \in Executor, NEW c \in Client, GetNextRequest(e, c)
    PROVE  ConnectionsInv'
  <1> DEFINE b == buffer_[c]
             n == Len(replies[c])
             N == Len(Requests[c])
  <1>0. HttpTypes /\ ConnectionInv(c)
    BY Zenon DEF ConnectionsInv
  <1>1. conn[c] = "reading" /\ UNCHANGED <<toSend, client, replies>>
    BY Zenon DEF GetNextRequest
  <1>2. /\ Taken(c) = n /\ n \in Nat /\ N \in Nat /\ n <= N
        /\ Answers(c) /\ Buffered(c) /\ InTransit(c) /\ Follows(b, 3 * n, c)
        /\ b \in Seq(Piece) /\ wire[c] \in Seq(Piece) /\ toSend[c] \in Seq(Piece)
    BY <1>0, <1>1, StreamPieces DEF ConnectionInv, Answers, Buffered, Taken, HttpTypes
  <1>3. Answers(c)'
    BY <1>1, <1>2, Zenon DEF Answers
  <1>4. ASSUME NEW d \in Client, d # c PROVE ConnectionInv(d)'
    <2>1. wire'[d] = wire[d] /\ buffer_'[d] = buffer_[d] /\ conn'[d] = conn[d] /\ req'[d] = req[d]
      BY <1>0, <1>4, Zenon DEF GetNextRequest, TakeRequest, ReadSome, HttpTypes
    <2> QED  BY <1>1, <2>1, OtherConnections, Zenon DEF ConnectionsInv
  <1>5. CASE TakeRequest(c) /\ conn' = [conn EXCEPT ![c] = "answering"] /\ UNCHANGED wire
    <2> DEFINE b2 == SubSeq(b, Find(b) + 2, Len(b))
    <2>1. /\ Ends(b) # {} /\ buffer_'[c] = b2 /\ conn'[c] = "answering"
          /\ req'[c] = ParseRequest(b, Find(b) + 1)
      BY <1>0, <1>5, Zenon DEF TakeRequest, HttpTypes
    <2>2. Len(b) \in Nat /\ Len(b) >= 3
      <3>1. Len(b) \in Nat
        BY <1>2
      <3>2. ~(Len(b) < 3)
        BY <1>2, <2>1, FirstEnd, Zenon
      <3> HIDE DEF b
      <3> QED  BY <3>1, <3>2
    <2>3. /\ n + 1 <= N /\ ParseRequest(b, Find(b) + 1).request = Requests[c][n + 1]
          /\ Follows(b2, 3 * (n + 1), c) /\ Len(b2) = Len(b) - 3
      BY <1>2, <2>2, FirstEnd
    <2>4. Taken(c)' = n + 1
      BY <1>1, <2>1, Zenon DEF Taken
    <2> HIDE DEF b2, n, N
    <2>5. Buffered(c)'
      BY <2>1, <2>3, <2>4, Zenon DEF Buffered, Follows, N
    <2>6. 3 * (n + 1) + Len(b2) = 3 * n + Len(b)
      <3>1. \A x, y \in Nat : 3 * (x + 1) + (y - 3) = 3 * x + y
        OBVIOUS
      <3> QED  BY ONLY <1>2, <2>2, <2>3, <3>1, Zenon
    <2>7. InTransit(c)'
      <3>1. /\ 3 * Taken(c)' + Len(buffer_'[c]) = 3 * Taken(c) + Len(buffer_[c])
            /\ client'[c] = client[c] /\ wire'[c] = wire[c] /\ toSend'[c] = toSend[c]
        BY <1>1, <1>2, <1>5, <2>1, <2>4, <2>6, Zenon
      <3> QED  BY ONLY <1>2, <3>1, Zenon DEF InTransit, Follows
    <2>8. b2 \in Seq(Piece)
      BY <2>3, Zenon DEF Follows
    <2>9. HttpTypes'
      BY <1>0, <1>1, <1>5, <2>1, <2>8, Zenon DEF HttpTypes, TakeRequest
    <2> QED  BY <1>3, <1>4, <2>1, <2>5, <2>7, <2>9, Zenon DEF ConnectionsInv, ConnectionInv
  <1>6. CASE ReadSome(c) /\ UNCHANGED <<conn, req>>
    <2>1. PICK m \in 1 .. Len(wire[c]) : /\ buffer_' = [buffer_ EXCEPT ![c] = b \o SubSeq(wire[c], 1, m)]
                                         /\ wire' = [wire EXCEPT ![c] = SubSeq(wire[c], m + 1, Len(wire[c]))]
      BY <1>6, Zenon DEF ReadSome
    <2>2. wire[c] # <<>> /\ client[c] # "reset"
      <3>1. wire[c] # <<>>
        BY <1>2, <2>1
      <3> QED  BY <1>2, <3>1, Zenon DEF InTransit
    <2>3. /\ Follows(wire[c], 3 * n + Len(b), c)
          /\ Follows(toSend[c], 3 * n + Len(b) + Len(wire[c]), c)
          /\ 3 * n + Len(b) + Len(wire[c]) + Len(toSend[c]) = 3 * N
      BY <1>2, <2>2, Zenon DEF InTransit
    <2>4. buffer_'[c] = b \o SubSeq(wire[c], 1, m) /\ wire'[c] = SubSeq(wire[c], m + 1, Len(wire[c]))
      BY <1>0, <2>1, Zenon DEF HttpTypes
    <2>5. /\ Follows(buffer_'[c], 3 * n, c) /\ Len(buffer_'[c]) = Len(b) + m
          /\ Follows(wire'[c], 3 * n + Len(buffer_'[c]), c) /\ Len(wire'[c]) = Len(wire[c]) - m
      <3>1. PICK k \in Nat : k = 3 * n
        BY <1>2
      <3> HIDE DEF b, n
      <3>2. Follows(b, k, c) /\ Follows(wire[c], k + Len(b), c)
        BY ONLY <1>2, <2>3, <3>1, Zenon
      <3>3. PICK w, x, w2, x2 : w = wire[c] /\ x = b /\ w2 = wire'[c] /\ x2 = buffer_'[c]
        BY Zenon
      <3>4. Adjacent(x, w, k, c) /\ Moved(x, w, m, x2, w2)
        BY ONLY <2>4, <3>2, <3>3, m \in 1 .. Len(wire[c]), Zenon DEF Adjacent, Moved
      <3>5. Adjacent(x2, w2, k, c) /\ Len(x2) = Len(x) + m /\ Len(w2) = Len(w) - m
        BY ONLY <3>4, k \in Nat, c \in Client, Reading, SMTT(20)
      <3> QED  BY ONLY <3>1, <3>3, <3>5, Zenon DEF Adjacent
    <2>6. Taken(c)' = n
      BY <1>1, <1>2, <1>6, Zenon DEF Taken
    <2>7. Len(b) \in Nat /\ n \in Nat /\ Len(wire[c]) \in Nat /\ Len(toSend[c]) \in Nat /\ m \in 1 .. Len(wire[c])
      BY <1>2
    <2> HIDE DEF n, N, b
    <2>8. Buffered(c)'
      BY <1>1, <1>2, <1>6, <2>5, <2>6, Zenon DEF Buffered, Follows, N
    <2>9. 3 * n + Len(buffer_'[c]) + Len(wire'[c]) = 3 * n + Len(b) + Len(wire[c])
      <3>1. \A x, y, z, j \in Nat : 3 * x + (y + j) + (z - j) = 3 * x + y + z
        OBVIOUS
      <3>2. m \in Nat
        BY <2>7
      <3>3. 3 * n + (Len(b) + m) + (Len(wire[c]) - m) = 3 * n + Len(b) + Len(wire[c])
        <4>1. PICK x, y, z, j \in Nat : x = n /\ y = Len(b) /\ z = Len(wire[c]) /\ j = m
          BY ONLY <2>7, <3>2, Zenon
        <4>2. 3 * x + (y + j) + (z - j) = 3 * x + y + z
          BY ONLY x \in Nat, y \in Nat, z \in Nat, j \in Nat
        <4> QED  BY ONLY <4>1, <4>2, Zenon
      <3> QED  BY ONLY <2>5, <3>3, Zenon
    <2>10. InTransit(c)'
      BY <1>1, <2>2, <2>3, <2>5, <2>6, <2>9, Zenon DEF InTransit, Follows, N
    <2>11. buffer_'[c] \in Seq(Piece) /\ wire'[c] \in Seq(Piece)
      BY <2>5, Zenon DEF Follows
    <2>12. HttpTypes'
      BY <1>0, <1>1, <1>6, <2>1, <2>4, <2>11, Zenon DEF HttpTypes
    <2> QED  BY <1>1, <1>3, <1>4, <1>6, <2>8, <2>10, <2>12, Zenon DEF ConnectionsInv, ConnectionInv
  <1>7. CASE conn' = [conn EXCEPT ![c] = "done"] /\ UNCHANGED <<wire, buffer_, req>>
    BY <1>0, <1>1, <1>3, <1>4, <1>7, Zenon DEF ConnectionsInv, ConnectionInv, HttpTypes
  <1> QED  BY <1>5, <1>6, <1>7, Zenon DEF GetNextRequest

LEMMA RespondStep ==
    ASSUME ConnectionsInv, NEW e \in Executor, NEW c \in Client, Respond(e, c)
    PROVE  ConnectionsInv'
  <1> DEFINE n == Len(replies[c])
             N == Len(Requests[c])
  <1>0. HttpTypes /\ ConnectionInv(c)
    BY Zenon DEF ConnectionsInv
  <1>1. conn[c] = "answering" /\ UNCHANGED <<toSend, wire, client, buffer_, req>>
    BY Zenon DEF Respond
  <1>2. /\ n \in Nat /\ N \in Nat /\ Taken(c) = n + 1 /\ n + 1 <= N /\ req[c].request = Requests[c][n + 1]
        /\ Answers(c) /\ Buffered(c) /\ InTransit(c)
    BY <1>0, <1>1, StreamPieces DEF ConnectionInv, Answers, Buffered, Taken
  <1>3. HttpTypes'
    BY <1>0, <1>1, Zenon DEF Respond, HttpTypes
  <1>4. ASSUME NEW d \in Client, d # c PROVE ConnectionInv(d)'
    <2>1. conn'[d] = conn[d] /\ replies'[d] = replies[d]
      BY <1>0, <1>4, Zenon DEF Respond, HttpTypes
    <2> QED  BY <1>1, <2>1, OtherConnections, Zenon DEF ConnectionsInv
  <1>5. CASE /\ replies' = [replies EXCEPT ![c] = Append(@, req[c].request)]
             /\ conn' = [conn EXCEPT ![c] = IF AsksToClose(c) THEN "done" ELSE "reading"]
    <2>1. replies'[c] = Append(replies[c], Requests[c][n + 1]) /\ conn'[c] \in {"done", "reading"}
      BY <1>0, <1>2, <1>5, Zenon DEF HttpTypes
    <2>2. Requests[c][n + 1] \in Elements(Requests[c]) /\ Requests[c][n + 1] \in Piece
      <3>1. n + 1 \in DOMAIN Requests[c]
        BY <1>2, RequestsAssumption
      <3> QED  BY <3>1 DEF Elements, Piece
    <2>3. Len(replies'[c]) = n + 1 /\ Answers(c)'
      <3>1. /\ replies'[c] \in Seq(Piece) /\ Len(replies'[c]) = n + 1
            /\ \A i \in 1 .. n + 1 : replies'[c][i] = IF i <= n THEN replies[c][i] ELSE Requests[c][n + 1]
        BY <1>2, <2>1, <2>2 DEF Answers
      <3>2. \A i \in 1 .. n + 1 : i <= n => i \in 1 .. n
        BY <1>2
      <3>3. \A i \in 1 .. n + 1 : ~(i <= n) => i = n + 1
        BY <1>2
      <3>4. \A i \in 1 .. n : replies[c][i] = Requests[c][i]
        BY <1>2, Zenon DEF Answers
      <3> HIDE DEF n
      <3>5. \A i \in 1 .. n + 1 : replies'[c][i] = Requests[c][i]
        BY ONLY <3>1, <3>2, <3>3, <3>4, Zenon
      <3> QED  BY <1>2, <3>1, <3>5, Zenon DEF Answers
    <2>4. ASSUME conn'[c] = "reading" PROVE Buffered(c)' /\ InTransit(c)'
      <3>1. Taken(c)' = Taken(c)
        <4>1. Taken(c)' = n + 1
          BY <1>2, <2>3, <2>4 DEF Taken
        <4> QED  BY <1>2, <4>1, Zenon
      <3> QED  BY <1>1, <1>2, <2>4, <3>1, Zenon DEF Buffered, InTransit, Follows
    <2> QED  BY <1>3, <1>4, <2>1, <2>3, <2>4, Zenon DEF ConnectionsInv, ConnectionInv
  <1>6. CASE conn' = [conn EXCEPT ![c] = "done"] /\ UNCHANGED replies
    <2>1. Answers(c)' /\ conn'[c] = "done"
      BY <1>0, <1>2, <1>6, Zenon DEF Answers, HttpTypes
    <2> QED  BY <1>3, <1>4, <2>1, Zenon DEF ConnectionsInv, ConnectionInv
  <1> QED  BY <1>5, <1>6, Zenon DEF Respond

LEMMA ConnectionsInit == Init => ConnectionsInv
  <1> SUFFICES ASSUME Init PROVE ConnectionsInv
    BY Zenon
  <1>1. <<>> \in Seq(Piece) /\ Len(<<>>) = 0
    OBVIOUS
  <1>2. HttpTypes
    BY <1>1, StreamPieces, Zenon DEF Init, HttpTypes
  <1>3. ASSUME NEW c \in Client PROVE ConnectionInv(c)
    <2>1. /\ toSend[c] = Stream(c) /\ wire[c] = <<>> /\ buffer_[c] = <<>> /\ replies[c] = <<>>
          /\ conn[c] = "reading" /\ client[c] = "new"
      BY <1>3, Zenon DEF Init
    <2>2. Taken(c) = 0
      BY <2>1 DEF Taken
    <2>3. Answers(c)
      BY <1>1, <1>3, <2>1, StreamPieces DEF Answers
    <2>4. /\ Follows(<<>>, 0, c)
          /\ Follows(Stream(c), 0, c)
      BY <1>1, <1>3, StreamPieces DEF Follows
    <2>5. 3 * Taken(c) = 0 /\ 0 + Len(<<>>) = 0 /\ 0 + Len(Stream(c)) = 3 * Len(Requests[c])
      BY <1>1, <1>3, <2>2, StreamPieces
    <2>6. Buffered(c)
      BY <1>3, <2>1, <2>2, <2>4, <2>5, StreamPieces DEF Buffered
    <2>7. InTransit(c)
      BY <2>1, <2>4, <2>5, Zenon DEF InTransit
    <2> QED  BY <2>1, <2>3, <2>6, <2>7, Zenon DEF ConnectionInv
  <1> QED  BY <1>2, <1>3, Zenon DEF ConnectionsInv

LEMMA ConnectionsStep == ConnectionsInv /\ [HttpNext]_vars => ConnectionsInv'
  <1> SUFFICES ASSUME ConnectionsInv, [HttpNext]_vars PROVE ConnectionsInv'
    BY Zenon
  <1>1. CASE Clients
    BY <1>1, SendStep, LeaveStep, Zenon DEF Clients
  <1>2. ASSUME NEW c \in Client, Accept(c) PROVE ConnectionsInv'
    <2>1. HttpTypes /\ UNCHANGED <<toSend, wire, buffer_, conn, req, replies>> /\ client[c] = "new"
          /\ client' = [client EXCEPT ![c] = "open"]
      BY <1>2, Zenon DEF Accept, ConnectionsInv
    <2>2. HttpTypes'
      BY <2>1, Zenon DEF HttpTypes
    <2>3. ASSUME NEW d \in Client PROVE ConnectionInv(d)'
      <3>1. ConnectionInv(d) /\ (client'[d] = "reset" <=> client[d] = "reset")
        BY <2>1, <2>3, Zenon DEF ConnectionsInv, HttpTypes
      <3> QED  BY <2>1, <3>1, Zenon DEF ConnectionInv, Answers, Buffered, InTransit, Taken, Follows
    <2> QED  BY <2>2, <2>3, Zenon DEF ConnectionsInv
  <1>3. ASSUME NEW e \in Executor, NEW c \in Client, GetNextRequest(e, c) \/ Respond(e, c) PROVE ConnectionsInv'
    BY <1>3, GetNextRequestStep, RespondStep, Zenon
  <1>4. CASE UNCHANGED httpVars
    BY <1>4, OtherConnections, Zenon DEF httpVars, ConnectionsInv, HttpTypes
  <1> QED  BY <1>1, <1>2, <1>3, <1>4, Zenon
           DEF HttpNext, AcceptFails, ThrFn, ThrFnReturns, PoolSteps, Ended, vars

\* However the stream of a connection is cut into reads, and whenever its client
\* leaves, its requests are answered once each and in order (AnsweredInOrder),
\* for any number of connections and threads and requests of any number and
\* header.  buffer_ begins with a request whenever GetNextRequest is called
\* (ConnectionsInv).
THEOREM RequestsAnsweredInOrder == HttpSpec => []AnsweredInOrder
  <1>1. ConnectionsInv => AnsweredInOrder
    <2> SUFFICES ASSUME ConnectionsInv, NEW c \in Client
                 PROVE  /\ Len(replies[c]) <= Len(Requests[c])
                        /\ \A i \in 1 .. Len(replies[c]) : replies[c][i] = Requests[c][i]
                        /\ conn[c] = "reading" /\ Ends(buffer_[c]) = {} /\ wire[c] = <<>> /\ toSend[c] = <<>>
                                /\ client[c] # "reset"
                            => replies[c] = Requests[c]
      BY Zenon DEF AnsweredInOrder
    <2> DEFINE n == Len(replies[c])
               N == Len(Requests[c])
    <2>1. HttpTypes /\ ConnectionInv(c) /\ Answers(c)
      BY Zenon DEF ConnectionsInv, ConnectionInv
    <2>2. /\ n \in Nat /\ N \in Nat /\ n <= N /\ replies[c] \in Seq(Piece) /\ Requests[c] \in Seq(STRING \ {NL})
          /\ \A i \in 1 .. n : replies[c][i] = Requests[c][i]
      BY <2>1, RequestsAssumption DEF Answers
    <2>4. ASSUME conn[c] = "reading", Ends(buffer_[c]) = {}, wire[c] = <<>>, toSend[c] = <<>>, client[c] # "reset"
          PROVE  replies[c] = Requests[c]
      <3>1. Taken(c) = n
        BY <2>2, <2>4 DEF Taken
      <3>2. Follows(buffer_[c], 3 * n, c) /\ buffer_[c] \in Seq(Piece)
        BY <2>1, <2>4, <3>1, Zenon DEF ConnectionInv, Buffered, HttpTypes
      <3>3. Len(buffer_[c]) < 3 /\ Len(buffer_[c]) \in Nat
        BY <2>2, <2>4, <3>2, FirstEnd
      <3>4. 3 * n + Len(buffer_[c]) + Len(wire[c]) + Len(toSend[c]) = 3 * N
        BY <2>1, <2>4, <3>1, Zenon DEF ConnectionInv, InTransit
      <3>5. Len(wire[c]) = 0 /\ Len(toSend[c]) = 0
        BY <2>4, Zenon
      <3> HIDE DEF n, N
      <3>6. n = N
        <4>1. PICK l \in Nat : l = Len(buffer_[c])
          BY <3>3, Zenon
        <4>2. n \in Nat /\ N \in Nat /\ l < 3 /\ 3 * n + l + 0 + 0 = 3 * N
          BY ONLY <2>2, <3>3, <3>4, <3>5, <4>1, Zenon
        <4>3. \A x, y, z \in Nat : z < 3 /\ 3 * x + z + 0 + 0 = 3 * y => x = y
          OBVIOUS
        <4> QED  BY ONLY <4>2, <4>3, l \in Nat, Zenon
      <3> QED  BY <2>2, <3>6 DEF n, N
    <2> QED  BY <2>2, <2>4, Zenon
  <1> QED  BY <1>1, ConnectionsInit, ConnectionsStep, PTL DEF HttpSpec
=============================================================================

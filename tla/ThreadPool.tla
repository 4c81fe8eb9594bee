----------------------------- MODULE ThreadPool -----------------------------
(***************************************************************************)
(* uw_cse333/hw/hw4/ThreadPool.cc: worker threads that take tasks from a   *)
(* queue under one mutex and one condition variable, the thread that owns  *)
(* the pool (constructor, Dispatch, destructor), and the shutdown between  *)
(* them.                                                                   *)
(*                                                                         *)
(* Every access to work_queue_, killthreads_ and num_threads_running_ is   *)
(* made with qlock_ held, except in the last loop of the destructor, so    *)
(* one passage through the mutex is one action.  A thread in               *)
(* pthread_cond_wait is "waiting"; signalled or woken spuriously, or back  *)
(* from a task, it is "awake" and needs the mutex to go on.                *)
(***************************************************************************)
EXTENDS Naturals, Sequences, FiniteSets

CONSTANTS NumThreads,  \* argument of the constructor
          Task,        \* the tasks that may be dispatched, each once
          NoTask

ASSUME NumThreadsAssumption == NumThreads \in Nat \ {0}
ASSUME NoTaskAssumption == NoTask \notin Task

Thread == 1 .. NumThreads   \* indices of thread_array_, counted from 1
Owner == 0                  \* the thread that runs constructor and destructor
Executor == Thread \cup {Owner}

VARIABLES
    work_queue_, killthreads_, num_threads_running_,
    pc,          \* where each worker is in ThreadLoop
    task,        \* the task whose f_ an executor is in
    owner,       \* where the owner is in the life of the pool
    num_threads, \* local variable of the destructor
    joining,     \* index of the thread the destructor joins next
    dispatched,  \* history: the tasks passed to Dispatch, in order
    started,     \* history: the tasks taken from the queue, in order
    finished     \* history: the tasks whose f_ has returned

poolVars == <<work_queue_, killthreads_, num_threads_running_, pc, task, owner,
              num_threads, joining, dispatched, started, finished>>

Elements(s) == {s[i] : i \in DOMAIN s}

InitPool ==
    /\ work_queue_ = <<>>
    /\ killthreads_ = FALSE
    /\ num_threads_running_ = 0
    /\ pc = [t \in Thread |-> "unborn"]
    /\ task = [e \in Executor |-> NoTask]
    /\ owner = "new"
    /\ num_threads = 0
    /\ joining = 1
    /\ dispatched = <<>>
    /\ started = <<>>
    /\ finished = {}
-----------------------------------------------------------------------------
(* Condition variable. *)

Waiting == {t \in Thread : pc[t] = "waiting"}

\* pthread_cond_signal: one waiting thread wakes up, if there is one.
Signal ==
    \/ \E t \in Waiting : pc' = [pc EXCEPT ![t] = "awake"]
    \/ Waiting = {} /\ pc' = pc

\* One thread only, and the last one of the array.
Broadcast_One ==
    [t \in Thread |-> IF t \in Waiting /\ \A u \in Waiting : t >= u
                      THEN "awake" ELSE pc[t]]

\* pthread_cond_broadcast: all waiting threads wake up.
Broadcast == [t \in Thread |-> IF t \in Waiting THEN "awake" ELSE pc[t]]

\* pthread_cond_wait may return without a signal.
SpuriousWakeup(t) ==
    /\ pc[t] = "waiting"
    /\ pc' = [pc EXCEPT ![t] = "awake"]
    /\ UNCHANGED <<work_queue_, killthreads_, num_threads_running_, task, owner,
                   num_threads, joining, dispatched, started, finished>>
-----------------------------------------------------------------------------
(* ThreadLoop, run by the workers. *)

\* The test of the outer loop, with n threads counted as running: wait for
\* the next signal, or leave the loop and exit.
OuterLoop(t, n) ==
    IF killthreads_
    THEN /\ pc' = [pc EXCEPT ![t] = "exited"]
         /\ num_threads_running_' = n - 1
    ELSE /\ pc' = [pc EXCEPT ![t] = "waiting"]
         /\ num_threads_running_' = n

ThreadStart(t) ==
    /\ pc[t] = "born"
    /\ OuterLoop(t, num_threads_running_ + 1)
    /\ UNCHANGED <<work_queue_, killthreads_, task, owner, num_threads, joining,
                   dispatched, started, finished>>

\* Some executor takes the front of the queue.
PopFront(e) ==
    /\ task' = [task EXCEPT ![e] = Head(work_queue_)]
    /\ started' = Append(started, Head(work_queue_))
    /\ work_queue_' = Tail(work_queue_)

Dequeue_KeepFront(t) ==
    /\ pc[t] = "awake"
    /\ work_queue_ # <<>> /\ ~killthreads_
    /\ task' = [task EXCEPT ![t] = Head(work_queue_)]
    /\ started' = Append(started, Head(work_queue_))
    /\ pc' = [pc EXCEPT ![t] = "running"]
    /\ UNCHANGED <<work_queue_, killthreads_, num_threads_running_, owner,
                   num_threads, joining, dispatched, finished>>

\* The inner loop finds work: take a task and call f_ without the mutex.
Dequeue(t) ==
    /\ pc[t] = "awake"
    /\ work_queue_ # <<>> /\ ~killthreads_
    /\ PopFront(t)
    /\ pc' = [pc EXCEPT ![t] = "running"]
    /\ UNCHANGED <<killthreads_, num_threads_running_, owner, num_threads,
                   joining, dispatched, finished>>

\* The inner loop ends, and the outer loop goes round.
NoMoreWork(t) ==
    /\ pc[t] = "awake"
    /\ work_queue_ = <<>> \/ killthreads_
    /\ OuterLoop(t, num_threads_running_)
    /\ UNCHANGED <<work_queue_, killthreads_, task, owner, num_threads, joining,
                   dispatched, started, finished>>

\* f_ returns, to a worker or to the destructor.
Return(e) ==
    /\ finished' = finished \cup {task[e]}
    /\ task' = [task EXCEPT ![e] = NoTask]

TaskReturns_Waits(t) ==
    /\ pc[t] = "running"
    /\ Return(t)
    /\ pc' = [pc EXCEPT ![t] = "waiting"]
    /\ UNCHANGED <<work_queue_, killthreads_, num_threads_running_, owner,
                   num_threads, joining, dispatched, started>>

TaskReturns(t) ==
    /\ pc[t] = "running"
    /\ Return(t)
    /\ pc' = [pc EXCEPT ![t] = "awake"]
    /\ UNCHANGED <<work_queue_, killthreads_, num_threads_running_, owner,
                   num_threads, joining, dispatched, started>>
-----------------------------------------------------------------------------
(* The owner: constructor, Dispatch, destructor. *)

\* The constructor creates the threads with the mutex held: none of them gets
\* past its first lock before all are created.
Spawn ==
    /\ owner = "new"
    /\ owner' = "spawned"
    /\ pc' = [t \in Thread |-> "born"]
    /\ UNCHANGED <<work_queue_, killthreads_, num_threads_running_, task,
                   num_threads, joining, dispatched, started, finished>>

\* The constructor gives up the mutex again and again until all threads run.
Constructed ==
    /\ owner = "spawned"
    /\ num_threads_running_ = NumThreads
    /\ owner' = "up"
    /\ UNCHANGED <<work_queue_, killthreads_, num_threads_running_, pc, task,
                   num_threads, joining, dispatched, started, finished>>

\* Dispatch; Verify333 at its begin aborts the program on a pool being killed.
Dispatch(k) ==
    /\ owner = "up"
    /\ ~killthreads_
    /\ k \notin Elements(dispatched)
    /\ work_queue_' = Append(work_queue_, k)
    /\ dispatched' = Append(dispatched, k)
    /\ Signal
    /\ UNCHANGED <<killthreads_, num_threads_running_, task, owner,
                   num_threads, joining, started, finished>>

\* Head of the loop of the destructor: while threads are left to join, wake
\* everybody up and give up the mutex.
JoinLoop(i, n) ==
    /\ joining' = i
    /\ pc' = IF i <= n THEN Broadcast ELSE pc

Kill ==
    /\ owner = "up"
    /\ owner' = "joining"
    /\ killthreads_' = TRUE
    /\ num_threads' = num_threads_running_
    /\ JoinLoop(1, num_threads_running_)
    /\ UNCHANGED <<work_queue_, num_threads_running_, task, dispatched, started,
                   finished>>

Join_NoWait ==
    /\ owner = "joining"
    /\ joining <= num_threads
    /\ JoinLoop(joining + 1, num_threads)
    /\ UNCHANGED <<work_queue_, killthreads_, num_threads_running_, task, owner,
                   num_threads, dispatched, started, finished>>

\* pthread_join returns when the thread has ended.
Join ==
    /\ owner = "joining"
    /\ joining <= num_threads
    /\ pc[joining] = "exited"
    /\ JoinLoop(joining + 1, num_threads)
    /\ UNCHANGED <<work_queue_, killthreads_, num_threads_running_, task, owner,
                   num_threads, dispatched, started, finished>>

\* All joined.  The Verify333 behind the loop aborts the program when a thread
\* still counts as running: in the model the owner is then stuck.
AllJoined ==
    /\ owner = "joining"
    /\ joining > num_threads
    /\ num_threads_running_ = 0
    /\ owner' = "draining"
    /\ UNCHANGED <<work_queue_, killthreads_, num_threads_running_, pc, task,
                   num_threads, joining, dispatched, started, finished>>

\* What is left in the queue is run by the destructor, without the mutex.
Drain ==
    /\ owner = "draining"
    /\ task[Owner] = NoTask
    /\ work_queue_ # <<>>
    /\ PopFront(Owner)
    /\ UNCHANGED <<killthreads_, num_threads_running_, pc, owner, num_threads,
                   joining, dispatched, finished>>

DrainReturns ==
    /\ owner = "draining"
    /\ task[Owner] # NoTask
    /\ Return(Owner)
    /\ UNCHANGED <<work_queue_, killthreads_, num_threads_running_, pc, owner,
                   num_threads, joining, dispatched, started>>

Destroyed ==
    /\ owner = "draining"
    /\ task[Owner] = NoTask
    /\ work_queue_ = <<>>
    /\ owner' = "destroyed"
    /\ UNCHANGED <<work_queue_, killthreads_, num_threads_running_, pc, task,
                   num_threads, joining, dispatched, started, finished>>
-----------------------------------------------------------------------------
\* The steps that are the pool's own, whatever the tasks do.
Worker(t) == ThreadStart(t) \/ Dequeue(t) \/ NoMoreWork(t)
Destructor == Join \/ AllJoined \/ Drain \/ Destroyed

Next ==
    \/ \E t \in Thread : Worker(t) \/ TaskReturns(t) \/ SpuriousWakeup(t)
    \/ Spawn \/ Constructed \/ Kill \/ Destructor \/ DrainReturns
    \/ \E k \in Task : Dispatch(k)

\* A pool whose tasks end.
Spec == InitPool /\ [][Next]_poolVars
-----------------------------------------------------------------------------
(* Properties. *)

\* The fields of ThreadPool and the locals of its functions have their types.
PoolTypeOK ==
    /\ work_queue_ \in Seq(Task)
    /\ killthreads_ \in BOOLEAN
    /\ num_threads_running_ \in 0 .. NumThreads
    /\ pc \in [Thread -> {"unborn", "born", "waiting", "awake", "running", "exited"}]
    /\ task \in [Executor -> Task \cup {NoTask}]
    /\ owner \in {"new", "spawned", "up", "joining", "draining", "destroyed"}
    /\ num_threads \in 0 .. NumThreads
    /\ joining \in 1 .. NumThreads + 1
    /\ dispatched \in Seq(Task)
    /\ started \in Seq(Task)
    /\ finished \subseteq Task

\* Tasks are taken from the queue in the order of Dispatch, none is lost and
\* none taken twice, whoever takes them: the workers or, after they have been
\* killed, the destructor.
FifoExactlyOnce == dispatched = started \o work_queue_

\* A task that was taken is in exactly one pair of hands until its f_ returns.
OneExecutor ==
    /\ Elements(started) = finished \cup ({task[e] : e \in Executor} \ {NoTask})
    /\ \A e \in Executor :
        task[e] # NoTask => /\ task[e] \notin finished
                            /\ \A f \in Executor \ {e} : task[f] # task[e]

\* No lost wakeup: while the pool is up and tasks are queued, some worker is on
\* its way to them.  A signal is not remembered, and Dispatch sends one signal
\* whether a thread waits or not; ThreadLoop looks at the queue again
\* before it waits.
QueueIsAttended ==
    owner = "up" /\ work_queue_ # <<>> =>
        \E t \in Thread : pc[t] \in {"awake", "running"}

\* The Verify333 of Dispatch and the one behind the joins never fail, and the
\* destructor touches the queue without the mutex only when all workers have
\* ended.
ShutdownIsClean ==
    /\ owner = "up" => ~killthreads_
    /\ owner = "joining" /\ joining > num_threads => num_threads_running_ = 0
    /\ owner \in {"draining", "destroyed"} => \A t \in Thread : pc[t] = "exited"
=============================================================================

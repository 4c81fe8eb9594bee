------------------------------ MODULE MapReduce ------------------------------
(***************************************************************************)
(* mit_6.824/src/mapreduce: the master that schedules a job on workers     *)
(* which register with it, fail, and are shut down in the end              *)
(* (schedule.go, master.go, worker.go, common_rpc.go).                     *)
(*                                                                         *)
(* Every task is a goroutine of the master.  It takes a worker from        *)
(* registerChannel, which has no buffer: offers[w] counts the goroutines   *)
(* that wait to send w on it.  A call is a connection of its own: it waits *)
(* in the backlog of the listener, is accepted, and is served by a         *)
(* goroutine of the worker.                                                *)
(***************************************************************************)
EXTENDS Integers, FiniteSets

CONSTANTS
    Worker, NoWorker,
    nMap, nReduce,      \* the number of input files and of partitions
    Limit,              \* the argument nRPC of a worker, -1 for no limit
    Mortal              \* the workers whose process may end at any time

\* schedule reads mr.files[taskNum] in both phases.
ASSUME JobAssumption ==
    /\ nMap \in Nat /\ nReduce \in Nat /\ nReduce <= nMap
    /\ NoWorker \notin Worker
    /\ Limit \in [Worker -> Int]
    /\ Mortal \subseteq Worker

MapTask == {"map"} \X (0 .. nMap - 1)
ReduceTask == {"reduce"} \X (0 .. nReduce - 1)
Task == MapTask \cup ReduceTask
Master == <<"shutdown", 0>>         \* killWorkers calls too
Caller == Task \cup {Master}

VARIABLES
    phase,          \* what run is doing: "map", "reduce", "kill", "merge", "done"
    task,           \* the goroutine of a task: "none", "recv", "call", "done"
    offers,         \* goroutines that send a worker on registerChannel
    workers, asked, \* mr.workers, and those that killWorkers has called
    reply, stats,   \* res.Ntasks of its call, and what it collected, -1 for none
    st, to,         \* the calls: how far each is, and to whom it goes
    wpc,            \* where a worker is in RunWorker
    nRPC, nTasks,   \* its fields
    out,            \* the output files of a task: "none", "part", "whole"
    served          \* for the properties: the tasks that a worker accepted

vars == <<phase, task, offers, workers, asked, reply, stats, st, to, wpc, nRPC, nTasks, out, served>>
masterVars == <<phase, task, offers, workers, asked, reply, stats>>
workerVars == <<wpc, nRPC, nTasks, served>>

Init ==
    /\ phase = "map"
    /\ task = [t \in Task |-> IF t \in MapTask THEN "recv" ELSE "none"]
    /\ offers = [w \in Worker |-> 0]
    /\ workers = {} /\ asked = {}
    /\ reply = -1
    /\ stats = [w \in Worker |-> -1]
    /\ st = [c \in Caller |-> "idle"]
    /\ to = [c \in Caller |-> NoWorker]
    /\ wpc = [w \in Worker |-> "start"]
    /\ nRPC = Limit
    /\ nTasks = [w \in Worker |-> 0]
    /\ out = [t \in Task |-> "none"]
    /\ served = [w \in Worker |-> 0]
-----------------------------------------------------------------------------
(* common_rpc.go: call.  Dial fails when nobody listens. *)

Listens(w) == wpc[w] \in {"check", "accept", "count"}

Dial(c, w) ==
    /\ to' = [to EXCEPT ![c] = w]
    /\ st' = [st EXCEPT ![c] = IF Listens(w) THEN "backlog" ELSE "failed"]

Hangup(c) ==
    /\ to' = [to EXCEPT ![c] = NoWorker]
    /\ st' = [st EXCEPT ![c] = "idle"]

\* The calls to w that are in one of the states lost fail.
Break(w, lost) ==
    /\ st' = [c \in Caller |-> IF to[c] = w /\ st[c] \in lost THEN "failed" ELSE st[c]]
    /\ UNCHANGED to
-----------------------------------------------------------------------------
(* worker.go: RunWorker *)

\* register, and Register of the master, which waits while killWorkers has the lock:
\* a worker may get through after it, when nobody will give it a task or stop it.
Register(w) ==
    /\ wpc[w] = "start"
    /\ phase # "kill"
    /\ wpc' = [wpc EXCEPT ![w] = "check"]
    /\ workers' = workers \cup {w}
    /\ offers' = [offers EXCEPT ![w] = @ + 1]
    /\ UNCHANGED <<phase, task, asked, reply, stats, st, to, nRPC, nTasks, out, served>>

\* The master has stopped its server.
RegisterFails(w) ==
    /\ wpc[w] = "start"
    /\ phase \in {"merge", "done"}
    /\ wpc' = [wpc EXCEPT ![w] = "check"]
    /\ UNCHANGED <<masterVars, st, to, nRPC, nTasks, out, served>>

GoOn(w) ==
    /\ wpc[w] = "check" /\ nRPC[w] # 0
    /\ wpc' = [wpc EXCEPT ![w] = "accept"]
    /\ UNCHANGED <<masterVars, st, to, nRPC, nTasks, out, served>>

\* The listener is closed; what it has accepted is still served.
Close(w) ==
    /\ wpc[w] = "check" /\ nRPC[w] = 0
    /\ wpc' = [wpc EXCEPT ![w] = "closed"]
    /\ Break(w, {"backlog"})
    /\ UNCHANGED <<masterVars, nRPC, nTasks, out, served>>

Accept(w, c) ==
    /\ wpc[w] = "accept"
    /\ to[c] = w /\ st[c] = "backlog"
    /\ nRPC' = [nRPC EXCEPT ![w] = @ - 1]
    /\ st' = [st EXCEPT ![c] = "open"]
    /\ wpc' = [wpc EXCEPT ![w] = "count"]
    /\ served' = [served EXCEPT ![w] = IF c = Master THEN @ ELSE @ + 1]
    /\ UNCHANGED <<masterVars, to, nTasks, out>>

Count(w) ==
    /\ wpc[w] = "count"
    /\ nTasks' = [nTasks EXCEPT ![w] = @ + 1]
    /\ wpc' = [wpc EXCEPT ![w] = "check"]
    /\ UNCHANGED <<masterVars, st, to, nRPC, out, served>>

\* The process of a worker ends, with all that it serves.
Exit(w) ==
    /\ w \in Mortal /\ wpc[w] \notin {"start", "exited"}
    /\ wpc' = [wpc EXCEPT ![w] = "exited"]
    /\ Break(w, {"backlog", "open", "running", "replied"})
    /\ UNCHANGED <<masterVars, nRPC, nTasks, out, served>>
-----------------------------------------------------------------------------
(* worker.go: DoTask and Shutdown *)

\* doMap and doReduce create their output files, read and write.
DoTask(t) ==
    /\ st[t] = "open"
    /\ st' = [st EXCEPT ![t] = "running"]
    /\ out' = [out EXCEPT ![t] = "part"]
    /\ UNCHANGED <<masterVars, to, workerVars>>

DoTaskReturns(t) ==
    /\ st[t] = "running"
    /\ st' = [st EXCEPT ![t] = "replied"]
    /\ out' = [out EXCEPT ![t] = "whole"]
    /\ UNCHANGED <<masterVars, to, workerVars>>

Shutdown(w) ==
    /\ to[Master] = w /\ st[Master] = "open"
    /\ reply' = nTasks[w]
    /\ nRPC' = [nRPC EXCEPT ![w] = 1]
    /\ nTasks' = [nTasks EXCEPT ![w] = @ - 1]
    /\ st' = [st EXCEPT ![Master] = "replied"]
    /\ UNCHANGED <<phase, task, offers, workers, asked, stats, to, wpc, out, served>>
-----------------------------------------------------------------------------
(* schedule.go: the goroutine of a task *)

Receive_Keep(t, w) ==
    /\ task[t] = "recv" /\ offers[w] > 0
    /\ task' = [task EXCEPT ![t] = "call"]
    /\ Dial(t, w)
    /\ UNCHANGED <<phase, offers, workers, asked, reply, stats, workerVars, out>>

Receive(t, w) ==
    /\ task[t] = "recv" /\ offers[w] > 0
    /\ offers' = [offers EXCEPT ![w] = @ - 1]
    /\ task' = [task EXCEPT ![t] = "call"]
    /\ Dial(t, w)
    /\ UNCHANGED <<phase, workers, asked, reply, stats, workerVars, out>>

CallSucceeds_NoWait(t) ==
    /\ task[t] = "call" /\ st[t] \in {"open", "running", "replied"}
    /\ task' = [task EXCEPT ![t] = "done"]
    /\ offers' = [offers EXCEPT ![to[t]] = @ + 1]
    /\ UNCHANGED <<phase, workers, asked, reply, stats, st, to, workerVars, out>>

\* The worker is offered again, and the task reports to schedule.
CallSucceeds(t) ==
    /\ task[t] = "call" /\ st[t] = "replied"
    /\ task' = [task EXCEPT ![t] = "done"]
    /\ offers' = [offers EXCEPT ![to[t]] = @ + 1]
    /\ Hangup(t)
    /\ UNCHANGED <<phase, workers, asked, reply, stats, workerVars, out>>

CallFails_GivesUp(t) ==
    /\ task[t] = "call" /\ st[t] = "failed"
    /\ task' = [task EXCEPT ![t] = "done"]
    /\ Hangup(t)
    /\ UNCHANGED <<phase, offers, workers, asked, reply, stats, workerVars, out>>

CallFails_SameWorker(t) ==
    /\ task[t] = "call" /\ st[t] = "failed"
    /\ Dial(t, to[t])
    /\ UNCHANGED <<masterVars, workerVars, out>>

\* The worker is not offered again, and the task takes another one.
CallFails(t) ==
    /\ task[t] = "call" /\ st[t] = "failed"
    /\ task' = [task EXCEPT ![t] = "recv"]
    /\ Hangup(t)
    /\ UNCHANGED <<phase, offers, workers, asked, reply, stats, workerVars, out>>
-----------------------------------------------------------------------------
(* master.go: run *)

AllDone(tasks) == \A t \in tasks : task[t] = "done"

MapDone ==
    /\ phase = "map" /\ AllDone(MapTask)
    /\ phase' = "reduce"
    /\ task' = [t \in Task |-> IF t \in ReduceTask THEN "recv" ELSE task[t]]
    /\ UNCHANGED <<offers, workers, asked, reply, stats, st, to, workerVars, out>>

\* killWorkers takes the lock.
ReduceDone ==
    /\ phase = "reduce" /\ AllDone(ReduceTask)
    /\ phase' = "kill"
    /\ UNCHANGED <<task, offers, workers, asked, reply, stats, st, to, workerVars, out>>

CallShutdown(w) ==
    /\ phase = "kill" /\ st[Master] = "idle"
    /\ w \in workers \ asked
    /\ asked' = asked \cup {w}
    /\ Dial(Master, w)
    /\ UNCHANGED <<phase, task, offers, workers, reply, stats, workerVars, out>>

ShutdownSucceeds ==
    /\ st[Master] = "replied"
    /\ stats' = [stats EXCEPT ![to[Master]] = reply]
    /\ Hangup(Master)
    /\ UNCHANGED <<phase, task, offers, workers, asked, reply, workerVars, out>>

ShutdownFails ==
    /\ st[Master] = "failed"
    /\ Hangup(Master)
    /\ UNCHANGED <<masterVars, workerVars, out>>

\* stopRPCServer
AllKilled ==
    /\ phase = "kill" /\ st[Master] = "idle" /\ asked = workers
    /\ phase' = "merge"
    /\ UNCHANGED <<task, offers, workers, asked, reply, stats, st, to, workerVars, out>>

\* merge reads the files of the reduce tasks; then doneChannel.
Merge ==
    /\ phase = "merge"
    /\ phase' = "done"
    /\ UNCHANGED <<task, offers, workers, asked, reply, stats, st, to, workerVars, out>>

\* The job is over.
Over == phase = "done" /\ UNCHANGED vars

WorkerStep(w) ==
    \/ GoOn(w) \/ Close(w) \/ (\E c \in Caller : Accept(w, c)) \/ Count(w) \/ Shutdown(w)

TaskStep(t) == DoTask(t) \/ DoTaskReturns(t) \/ CallSucceeds(t) \/ CallFails(t)

Receives == \E t \in Task, w \in Worker : Receive(t, w)

RunStep == MapDone \/ ReduceDone \/ (\E w \in Worker : CallShutdown(w))
           \/ ShutdownSucceeds \/ ShutdownFails \/ AllKilled \/ Merge

Next ==
    \/ \E w \in Worker : Register(w) \/ RegisterFails(w) \/ WorkerStep(w) \/ Exit(w)
    \/ \E t \in Task : TaskStep(t)
    \/ Receives \/ RunStep \/ Over

Spec == Init /\ [][Next]_vars

\* The goroutines run, and a worker that is started gets to register.
FairSpec ==
    /\ Spec
    /\ \A w \in Worker : WF_vars(WorkerStep(w)) /\ WF_vars(Register(w))
    /\ \A t \in Task : WF_vars(TaskStep(t))
    /\ WF_vars(Receives) /\ WF_vars(RunStep)
-----------------------------------------------------------------------------
\* The variables keep to their types.
TypeOK ==
    /\ phase \in {"map", "reduce", "kill", "merge", "done"}
    /\ task \in [Task -> {"none", "recv", "call", "done"}]
    /\ offers \in [Worker -> Nat]
    /\ workers \subseteq Worker /\ asked \subseteq workers
    /\ reply \in Int /\ stats \in [Worker -> Int]
    /\ st \in [Caller -> {"idle", "backlog", "open", "running", "replied", "failed"}]
    /\ to \in [Caller -> Worker \cup {NoWorker}]
    /\ wpc \in [Worker -> {"start", "check", "accept", "count", "closed", "exited"}]
    /\ nRPC \in [Worker -> Int] /\ nTasks \in [Worker -> Int]
    /\ out \in [Task -> {"none", "part", "whole"}]
    /\ served \in [Worker -> Nat]

\* schedule gives no worker two tasks at a time: a worker is offered on the channel
\* once, or is in the call of one task, or is neither (its last call failed).
OneTaskPerWorker ==
    \A w \in Worker :
        /\ offers[w] <= 1
        /\ \A t \in Task : to[t] = w => offers[w] = 0
        /\ \A t, u \in Task : to[t] = w /\ to[u] = w => t = u

\* Through lost replies, half-done tasks and retries: a reduce task reads, and
\* merge reads, only whole files (the comment of schedule: "only once all of them
\* have been completed successfully should the function return").  This rests on
\* call having no timeout, whatever its comment says: it ends when the worker has
\* answered or has died.
InputsAreWhole ==
    /\ (\E t \in ReduceTask : st[t] = "running") => \A t \in MapTask : out[t] = "whole"
    /\ phase \in {"merge", "done"} => \A t \in ReduceTask : out[t] = "whole"

\* Nobody writes a file again that a later phase reads: call has no timeout, so that
\* a call that failed has ended with its worker, and no late DoTask is left when
\* its task is done.
DoneIsFinal == [][\A t \in Task : task[t] = "done" => out'[t] = out[t] /\ task'[t] = "done"]_vars

\* A worker reports at its shutdown the number of the tasks that it accepted.  The
\* comment of Shutdown: "We should respond with the number of tasks we have
\* processed", and in it: "Don't count the shutdown RPC".
StatsAreExact ==
    \A w \in Worker : stats[w] # -1 => stats[w] = served[w]

\* With one worker that neither has a limit nor dies, the job ends, whatever
\* happens to the others.
JobEnds == <>(phase = "done")
=============================================================================

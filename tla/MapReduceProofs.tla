--------------------------- MODULE MapReduceProofs ---------------------------
(***************************************************************************)
(* Proofs of the safety of MapReduce, for every set of workers, every      *)
(* number of tasks, every limit and every set of workers that may die.     *)
(***************************************************************************)
EXTENDS MapReduce, TLAPS

\* A caller has a call exactly while it waits for one.
Calls ==
    /\ \A c \in Caller : to[c] = NoWorker <=> st[c] = "idle"
    /\ \A t \in Task : task[t] = "call" <=> st[t] # "idle"

\* The goroutines of a phase are created when the phase before it is over, and
\* killWorkers calls in its phase only.
Phases ==
    /\ phase = "map" => \A t \in ReduceTask : task[t] = "none"
    /\ phase # "map" => \A t \in MapTask : task[t] = "done"
    /\ phase \in {"kill", "merge", "done"} => \A t \in ReduceTask : task[t] = "done"
    /\ phase \in {"map", "reduce"} => asked = {}
    /\ phase # "kill" => st[Master] = "idle"

\* Nobody knows a worker that has not registered.
Newcomers ==
    \A w \in Worker : wpc[w] = "start" =>
        /\ offers[w] = 0 /\ w \notin workers
        /\ \A c \in Caller : to[c] # w

\* A task that has been executed, or is done, has its output.
Outputs ==
    \A t \in Task : task[t] = "done" \/ st[t] = "replied" => out[t] = "whole"

IInv ==
    /\ TypeOK /\ Calls /\ Phases /\ OneTaskPerWorker /\ Newcomers /\ Outputs
-----------------------------------------------------------------------------
LEMMA TaskFacts ==
    /\ Master \notin Task
    /\ MapTask \cap ReduceTask = {}
    /\ Caller = Task \cup {Master} /\ Task = MapTask \cup ReduceTask
    /\ NoWorker \notin Worker
  BY JobAssumption, Zenon DEF Master, Task, MapTask, ReduceTask, Caller

LEMMA InitEstablishes == Init => IInv
  BY TaskFacts, JobAssumption
  DEF Init, IInv, TypeOK, Calls, Phases, OneTaskPerWorker, Newcomers, Outputs

LEMMA TypeKept ==
    ASSUME TypeOK, Calls, [Next]_vars PROVE TypeOK'
  <1> USE TaskFacts DEF TypeOK, Calls
  <1>1. CASE UNCHANGED vars
    BY <1>1, Zenon DEF vars
  <1>2. ASSUME NEW w \in Worker, Register(w) PROVE TypeOK'
    BY <1>2 DEF Register
  <1>3. ASSUME NEW w \in Worker, RegisterFails(w) PROVE TypeOK'
    BY <1>3, Zenon DEF RegisterFails, masterVars
  <1>4. ASSUME NEW w \in Worker, GoOn(w) PROVE TypeOK'
    BY <1>4, Zenon DEF GoOn, masterVars
  <1>5. ASSUME NEW w \in Worker, Close(w) PROVE TypeOK'
    BY <1>5, Zenon DEF Close, Break, masterVars
  <1>6. ASSUME NEW w \in Worker, NEW c \in Caller, Accept(w, c) PROVE TypeOK'
    BY <1>6 DEF Accept, masterVars
  <1>7. ASSUME NEW w \in Worker, Count(w) PROVE TypeOK'
    BY <1>7 DEF Count, masterVars
  <1>8. ASSUME NEW w \in Worker, Exit(w) PROVE TypeOK'
    BY <1>8, Zenon DEF Exit, Break, masterVars
  <1>9. ASSUME NEW t \in Task, DoTask(t) PROVE TypeOK'
    BY <1>9, Zenon DEF DoTask, masterVars, workerVars
  <1>10. ASSUME NEW t \in Task, DoTaskReturns(t) PROVE TypeOK'
    BY <1>10, Zenon DEF DoTaskReturns, masterVars, workerVars
  <1>11. ASSUME NEW w \in Worker, Shutdown(w) PROVE TypeOK'
    BY <1>11 DEF Shutdown
  <1>12. ASSUME NEW t \in Task, NEW w \in Worker, Receive(t, w) PROVE TypeOK'
    BY <1>12 DEF Receive, Dial, workerVars
  <1>13. ASSUME NEW t \in Task, CallSucceeds(t) PROVE TypeOK'
    BY <1>13 DEF CallSucceeds, Hangup, workerVars
  <1>14. ASSUME NEW t \in Task, CallFails(t) PROVE TypeOK'
    BY <1>14, Zenon DEF CallFails, Hangup, workerVars
  <1>15. CASE MapDone
    BY <1>15, Zenon DEF MapDone, workerVars
  <1>16. CASE ReduceDone
    BY <1>16, Zenon DEF ReduceDone, workerVars
  <1>17. ASSUME NEW w \in Worker, CallShutdown(w) PROVE TypeOK'
    BY <1>17, Zenon DEF CallShutdown, Dial, workerVars
  <1>18. CASE ShutdownSucceeds
    BY <1>18, Zenon DEF ShutdownSucceeds, Hangup, workerVars
  <1>19. CASE ShutdownFails
    BY <1>19, Zenon DEF ShutdownFails, Hangup, masterVars, workerVars
  <1>20. CASE AllKilled
    BY <1>20, Zenon DEF AllKilled, workerVars
  <1>21. CASE Merge
    BY <1>21, Zenon DEF Merge, workerVars
  <1> QED
    BY <1>1, <1>2, <1>3, <1>4, <1>5, <1>6, <1>7, <1>8, <1>9, <1>10, <1>11, <1>12, <1>13, <1>14,
       <1>15, <1>16, <1>17, <1>18, <1>19, <1>20, <1>21, Zenon
    DEF Next, WorkerStep, TaskStep, Receives, RunStep, Over

LEMMA CallsKept ==
    ASSUME TypeOK, Calls, Phases, [Next]_vars PROVE Calls'
  <1> USE TaskFacts DEF TypeOK, Calls, Phases
  <1>1. CASE UNCHANGED vars
    BY <1>1, Zenon DEF vars
  <1>2. ASSUME NEW w \in Worker, Register(w) PROVE Calls'
    BY <1>2, Zenon DEF Register
  <1>3. ASSUME NEW w \in Worker, RegisterFails(w) PROVE Calls'
    BY <1>3, Zenon DEF RegisterFails, masterVars
  <1>4. ASSUME NEW w \in Worker, GoOn(w) PROVE Calls'
    BY <1>4, Zenon DEF GoOn, masterVars
  <1>5. ASSUME NEW w \in Worker, Close(w) PROVE Calls'
    BY <1>5, Zenon DEF Close, Break, masterVars
  <1>6. ASSUME NEW w \in Worker, NEW c \in Caller, Accept(w, c) PROVE Calls'
    BY <1>6, Zenon DEF Accept, masterVars
  <1>7. ASSUME NEW w \in Worker, Count(w) PROVE Calls'
    BY <1>7, Zenon DEF Count, masterVars
  <1>8. ASSUME NEW w \in Worker, Exit(w) PROVE Calls'
    BY <1>8, Zenon DEF Exit, Break, masterVars
  <1>9. ASSUME NEW t \in Task, DoTask(t) PROVE Calls'
    BY <1>9, Zenon DEF DoTask, masterVars, workerVars
  <1>10. ASSUME NEW t \in Task, DoTaskReturns(t) PROVE Calls'
    BY <1>10, Zenon DEF DoTaskReturns, masterVars, workerVars
  <1>11. ASSUME NEW w \in Worker, Shutdown(w) PROVE Calls'
    BY <1>11, Zenon DEF Shutdown
  <1>12. ASSUME NEW t \in Task, NEW w \in Worker, Receive(t, w) PROVE Calls'
    BY <1>12 DEF Receive, Dial, workerVars, Listens
  <1>13. ASSUME NEW t \in Task, CallSucceeds(t) PROVE Calls'
    BY <1>13, Zenon DEF CallSucceeds, Hangup, workerVars
  <1>14. ASSUME NEW t \in Task, CallFails(t) PROVE Calls'
    BY <1>14, Zenon DEF CallFails, Hangup, workerVars
  <1>15. CASE MapDone
    BY <1>15, Zenon DEF MapDone, workerVars
  <1>16. CASE ReduceDone
    BY <1>16, Zenon DEF ReduceDone, workerVars
  <1>17. ASSUME NEW w \in Worker, CallShutdown(w) PROVE Calls'
    BY <1>17 DEF CallShutdown, Dial, workerVars, Listens
  <1>18. CASE ShutdownSucceeds
    BY <1>18, Zenon DEF ShutdownSucceeds, Hangup, workerVars
  <1>19. CASE ShutdownFails
    BY <1>19, Zenon DEF ShutdownFails, Hangup, masterVars, workerVars
  <1>20. CASE AllKilled
    BY <1>20, Zenon DEF AllKilled, workerVars
  <1>21. CASE Merge
    BY <1>21, Zenon DEF Merge, workerVars
  <1> QED
    BY <1>1, <1>2, <1>3, <1>4, <1>5, <1>6, <1>7, <1>8, <1>9, <1>10, <1>11, <1>12, <1>13, <1>14,
       <1>15, <1>16, <1>17, <1>18, <1>19, <1>20, <1>21, Zenon
    DEF Next, WorkerStep, TaskStep, Receives, RunStep, Over

LEMMA PhasesKept ==
    ASSUME TypeOK, Calls, Phases, [Next]_vars PROVE Phases'
  <1> USE TaskFacts DEF TypeOK, Calls, Phases
  <1>1. CASE UNCHANGED vars
    BY <1>1, Zenon DEF vars
  <1>2. ASSUME NEW w \in Worker, Register(w) PROVE Phases'
    BY <1>2, Zenon DEF Register
  <1>3. ASSUME NEW w \in Worker, RegisterFails(w) PROVE Phases'
    BY <1>3, Zenon DEF RegisterFails, masterVars
  <1>4. ASSUME NEW w \in Worker, GoOn(w) PROVE Phases'
    BY <1>4, Zenon DEF GoOn, masterVars
  <1>5. ASSUME NEW w \in Worker, Close(w) PROVE Phases'
    BY <1>5, Zenon DEF Close, Break, masterVars
  <1>6. ASSUME NEW w \in Worker, NEW c \in Caller, Accept(w, c) PROVE Phases'
    BY <1>6, Zenon DEF Accept, masterVars
  <1>7. ASSUME NEW w \in Worker, Count(w) PROVE Phases'
    BY <1>7, Zenon DEF Count, masterVars
  <1>8. ASSUME NEW w \in Worker, Exit(w) PROVE Phases'
    BY <1>8, Zenon DEF Exit, Break, masterVars
  <1>9. ASSUME NEW t \in Task, DoTask(t) PROVE Phases'
    BY <1>9, Zenon DEF DoTask, masterVars, workerVars
  <1>10. ASSUME NEW t \in Task, DoTaskReturns(t) PROVE Phases'
    BY <1>10, Zenon DEF DoTaskReturns, masterVars, workerVars
  <1>11. ASSUME NEW w \in Worker, Shutdown(w) PROVE Phases'
    BY <1>11, Zenon DEF Shutdown
  <1>12. ASSUME NEW t \in Task, NEW w \in Worker, Receive(t, w) PROVE Phases'
    BY <1>12, Zenon DEF Receive, Dial, workerVars
  <1>13. ASSUME NEW t \in Task, CallSucceeds(t) PROVE Phases'
    BY <1>13, Zenon DEF CallSucceeds, Hangup, workerVars
  <1>14. ASSUME NEW t \in Task, CallFails(t) PROVE Phases'
    BY <1>14, Zenon DEF CallFails, Hangup, workerVars
  <1>15. CASE MapDone
    BY <1>15, Zenon DEF MapDone, workerVars, AllDone
  <1>16. CASE ReduceDone
    BY <1>16, Zenon DEF ReduceDone, workerVars, AllDone
  <1>17. ASSUME NEW w \in Worker, CallShutdown(w) PROVE Phases'
    BY <1>17, Zenon DEF CallShutdown, Dial, workerVars
  <1>18. CASE ShutdownSucceeds
    BY <1>18, Zenon DEF ShutdownSucceeds, Hangup, workerVars
  <1>19. CASE ShutdownFails
    BY <1>19, Zenon DEF ShutdownFails, Hangup, masterVars, workerVars
  <1>20. CASE AllKilled
    BY <1>20, Zenon DEF AllKilled, workerVars
  <1>21. CASE Merge
    BY <1>21, Zenon DEF Merge, workerVars
  <1> QED
    BY <1>1, <1>2, <1>3, <1>4, <1>5, <1>6, <1>7, <1>8, <1>9, <1>10, <1>11, <1>12, <1>13, <1>14,
       <1>15, <1>16, <1>17, <1>18, <1>19, <1>20, <1>21, Zenon
    DEF Next, WorkerStep, TaskStep, Receives, RunStep, Over

LEMMA NewcomersKept ==
    ASSUME TypeOK, Calls, Newcomers, [Next]_vars PROVE Newcomers'
  <1> USE TaskFacts DEF TypeOK, Calls, Newcomers
  <1>1. CASE UNCHANGED vars
    BY <1>1, Zenon DEF vars
  <1>2. ASSUME NEW w \in Worker, Register(w) PROVE Newcomers'
    BY <1>2 DEF Register
  <1>3. ASSUME NEW w \in Worker, RegisterFails(w) PROVE Newcomers'
    BY <1>3 DEF RegisterFails, masterVars
  <1>4. ASSUME NEW w \in Worker, GoOn(w) PROVE Newcomers'
    BY <1>4 DEF GoOn, masterVars
  <1>5. ASSUME NEW w \in Worker, Close(w) PROVE Newcomers'
    BY <1>5 DEF Close, Break, masterVars
  <1>6. ASSUME NEW w \in Worker, NEW c \in Caller, Accept(w, c) PROVE Newcomers'
    BY <1>6 DEF Accept, masterVars
  <1>7. ASSUME NEW w \in Worker, Count(w) PROVE Newcomers'
    BY <1>7 DEF Count, masterVars
  <1>8. ASSUME NEW w \in Worker, Exit(w) PROVE Newcomers'
    BY <1>8 DEF Exit, Break, masterVars
  <1>9. ASSUME NEW t \in Task, DoTask(t) PROVE Newcomers'
    BY <1>9 DEF DoTask, masterVars, workerVars
  <1>10. ASSUME NEW t \in Task, DoTaskReturns(t) PROVE Newcomers'
    BY <1>10 DEF DoTaskReturns, masterVars, workerVars
  <1>11. ASSUME NEW w \in Worker, Shutdown(w) PROVE Newcomers'
    BY <1>11 DEF Shutdown
  <1>12. ASSUME NEW t \in Task, NEW w \in Worker, Receive(t, w) PROVE Newcomers'
    BY <1>12 DEF Receive, Dial, workerVars
  <1>13. ASSUME NEW t \in Task, CallSucceeds(t) PROVE Newcomers'
    BY <1>13 DEF CallSucceeds, Hangup, workerVars
  <1>14. ASSUME NEW t \in Task, CallFails(t) PROVE Newcomers'
    BY <1>14 DEF CallFails, Hangup, workerVars
  <1>15. CASE MapDone
    BY <1>15, Zenon DEF MapDone, workerVars
  <1>16. CASE ReduceDone
    BY <1>16, Zenon DEF ReduceDone, workerVars
  <1>17. ASSUME NEW w \in Worker, CallShutdown(w) PROVE Newcomers'
    BY <1>17 DEF CallShutdown, Dial, workerVars
  <1>18. CASE ShutdownSucceeds
    BY <1>18 DEF ShutdownSucceeds, Hangup, workerVars
  <1>19. CASE ShutdownFails
    BY <1>19 DEF ShutdownFails, Hangup, masterVars, workerVars
  <1>20. CASE AllKilled
    BY <1>20, Zenon DEF AllKilled, workerVars
  <1>21. CASE Merge
    BY <1>21, Zenon DEF Merge, workerVars
  <1> QED
    BY <1>1, <1>2, <1>3, <1>4, <1>5, <1>6, <1>7, <1>8, <1>9, <1>10, <1>11, <1>12, <1>13, <1>14,
       <1>15, <1>16, <1>17, <1>18, <1>19, <1>20, <1>21, Zenon
    DEF Next, WorkerStep, TaskStep, Receives, RunStep, Over

LEMMA TokensKept ==
    ASSUME TypeOK, Calls, Newcomers, OneTaskPerWorker, [Next]_vars PROVE OneTaskPerWorker'
  <1> USE TaskFacts DEF TypeOK, Calls, Newcomers, OneTaskPerWorker
  <1>1. CASE UNCHANGED vars
    BY <1>1 DEF vars
  <1>2. ASSUME NEW w \in Worker, Register(w) PROVE OneTaskPerWorker'
    BY <1>2 DEF Register
  <1>3. ASSUME NEW w \in Worker, RegisterFails(w) PROVE OneTaskPerWorker'
    BY <1>3 DEF RegisterFails, masterVars
  <1>4. ASSUME NEW w \in Worker, GoOn(w) PROVE OneTaskPerWorker'
    BY <1>4 DEF GoOn, masterVars
  <1>5. ASSUME NEW w \in Worker, Close(w) PROVE OneTaskPerWorker'
    BY <1>5 DEF Close, Break, masterVars
  <1>6. ASSUME NEW w \in Worker, NEW c \in Caller, Accept(w, c) PROVE OneTaskPerWorker'
    BY <1>6 DEF Accept, masterVars
  <1>7. ASSUME NEW w \in Worker, Count(w) PROVE OneTaskPerWorker'
    BY <1>7 DEF Count, masterVars
  <1>8. ASSUME NEW w \in Worker, Exit(w) PROVE OneTaskPerWorker'
    BY <1>8 DEF Exit, Break, masterVars
  <1>9. ASSUME NEW t \in Task, DoTask(t) PROVE OneTaskPerWorker'
    BY <1>9 DEF DoTask, masterVars, workerVars
  <1>10. ASSUME NEW t \in Task, DoTaskReturns(t) PROVE OneTaskPerWorker'
    BY <1>10 DEF DoTaskReturns, masterVars, workerVars
  <1>11. ASSUME NEW w \in Worker, Shutdown(w) PROVE OneTaskPerWorker'
    BY <1>11 DEF Shutdown
  <1>12. ASSUME NEW t \in Task, NEW w \in Worker, Receive(t, w) PROVE OneTaskPerWorker'
    BY <1>12 DEF Receive, Dial, workerVars
  <1>13. ASSUME NEW t \in Task, CallSucceeds(t) PROVE OneTaskPerWorker'
    BY <1>13 DEF CallSucceeds, Hangup, workerVars
  <1>14. ASSUME NEW t \in Task, CallFails(t) PROVE OneTaskPerWorker'
    BY <1>14 DEF CallFails, Hangup, workerVars
  <1>15. CASE MapDone
    BY <1>15 DEF MapDone, workerVars
  <1>16. CASE ReduceDone
    BY <1>16 DEF ReduceDone, workerVars
  <1>17. ASSUME NEW w \in Worker, CallShutdown(w) PROVE OneTaskPerWorker'
    BY <1>17 DEF CallShutdown, Dial, workerVars
  <1>18. CASE ShutdownSucceeds
    BY <1>18 DEF ShutdownSucceeds, Hangup, workerVars
  <1>19. CASE ShutdownFails
    BY <1>19 DEF ShutdownFails, Hangup, masterVars, workerVars
  <1>20. CASE AllKilled
    BY <1>20 DEF AllKilled, workerVars
  <1>21. CASE Merge
    BY <1>21 DEF Merge, workerVars
  <1> QED
    BY <1>1, <1>2, <1>3, <1>4, <1>5, <1>6, <1>7, <1>8, <1>9, <1>10, <1>11, <1>12, <1>13, <1>14,
       <1>15, <1>16, <1>17, <1>18, <1>19, <1>20, <1>21, Zenon
    DEF Next, WorkerStep, TaskStep, Receives, RunStep, Over

LEMMA OutputsKept ==
    ASSUME TypeOK, Calls, Outputs, [Next]_vars PROVE Outputs'
  <1> USE TaskFacts DEF TypeOK, Calls, Outputs
  <1>1. CASE UNCHANGED vars
    BY <1>1, Zenon DEF vars
  <1>2. ASSUME NEW w \in Worker, Register(w) PROVE Outputs'
    BY <1>2, Zenon DEF Register
  <1>3. ASSUME NEW w \in Worker, RegisterFails(w) PROVE Outputs'
    BY <1>3, Zenon DEF RegisterFails, masterVars
  <1>4. ASSUME NEW w \in Worker, GoOn(w) PROVE Outputs'
    BY <1>4, Zenon DEF GoOn, masterVars
  <1>5. ASSUME NEW w \in Worker, Close(w) PROVE Outputs'
    BY <1>5, Zenon DEF Close, Break, masterVars
  <1>6. ASSUME NEW w \in Worker, NEW c \in Caller, Accept(w, c) PROVE Outputs'
    BY <1>6, Zenon DEF Accept, masterVars
  <1>7. ASSUME NEW w \in Worker, Count(w) PROVE Outputs'
    BY <1>7, Zenon DEF Count, masterVars
  <1>8. ASSUME NEW w \in Worker, Exit(w) PROVE Outputs'
    BY <1>8, Zenon DEF Exit, Break, masterVars
  <1>9. ASSUME NEW t \in Task, DoTask(t) PROVE Outputs'
    BY <1>9, Zenon DEF DoTask, masterVars, workerVars
  <1>10. ASSUME NEW t \in Task, DoTaskReturns(t) PROVE Outputs'
    BY <1>10, Zenon DEF DoTaskReturns, masterVars, workerVars
  <1>11. ASSUME NEW w \in Worker, Shutdown(w) PROVE Outputs'
    BY <1>11, Zenon DEF Shutdown
  <1>12. ASSUME NEW t \in Task, NEW w \in Worker, Receive(t, w) PROVE Outputs'
    BY <1>12, Zenon DEF Receive, Dial, workerVars
  <1>13. ASSUME NEW t \in Task, CallSucceeds(t) PROVE Outputs'
    BY <1>13, Zenon DEF CallSucceeds, Hangup, workerVars
  <1>14. ASSUME NEW t \in Task, CallFails(t) PROVE Outputs'
    BY <1>14, Zenon DEF CallFails, Hangup, workerVars
  <1>15. CASE MapDone
    BY <1>15, Zenon DEF MapDone, workerVars
  <1>16. CASE ReduceDone
    BY <1>16, Zenon DEF ReduceDone, workerVars
  <1>17. ASSUME NEW w \in Worker, CallShutdown(w) PROVE Outputs'
    BY <1>17, Zenon DEF CallShutdown, Dial, workerVars
  <1>18. CASE ShutdownSucceeds
    BY <1>18, Zenon DEF ShutdownSucceeds, Hangup, workerVars
  <1>19. CASE ShutdownFails
    BY <1>19, Zenon DEF ShutdownFails, Hangup, masterVars, workerVars
  <1>20. CASE AllKilled
    BY <1>20, Zenon DEF AllKilled, workerVars
  <1>21. CASE Merge
    BY <1>21, Zenon DEF Merge, workerVars
  <1> QED
    BY <1>1, <1>2, <1>3, <1>4, <1>5, <1>6, <1>7, <1>8, <1>9, <1>10, <1>11, <1>12, <1>13, <1>14,
       <1>15, <1>16, <1>17, <1>18, <1>19, <1>20, <1>21, Zenon
    DEF Next, WorkerStep, TaskStep, Receives, RunStep, Over
-----------------------------------------------------------------------------
\* The invariant holds in every state of every job.
THEOREM Invariant == Spec => []IInv
  <1>1. IInv /\ [Next]_vars => IInv'
    BY TypeKept, CallsKept, PhasesKept, NewcomersKept, TokensKept, OutputsKept, Zenon DEF IInv
  <1> QED
    BY InitEstablishes, <1>1, PTL DEF Spec

\* schedule never gives a worker two tasks at a time: the worker that a goroutine
\* takes from registerChannel is offered again only after its call has succeeded.
THEOREM WorkersHaveOneTask == Spec => []OneTaskPerWorker
  <1>1. IInv => OneTaskPerWorker
    BY Zenon DEF IInv
  <1> QED
    BY <1>1, Invariant, PTL

\* doReduce and merge read whole files only, however many workers die in the middle
\* of a task or after it, with the reply lost.
THEOREM PhasesReadWholeFiles == Spec => []InputsAreWhole
  <1>1. ASSUME IInv PROVE InputsAreWhole
    <2> USE <1>1, TaskFacts DEF IInv
    <2>1. ASSUME NEW t \in ReduceTask, st[t] = "running", NEW m \in MapTask PROVE out[m] = "whole"
      <3>1. task[t] = "call"
        BY <2>1, Zenon DEF Calls
      <3>2. phase # "map"
        BY <3>1, Zenon DEF Phases
      <3> QED
        BY <3>2, Zenon DEF Phases, Outputs
    <2>2. ASSUME phase \in {"merge", "done"}, NEW t \in ReduceTask PROVE out[t] = "whole"
      BY <2>2, Zenon DEF Phases, Outputs
    <2> QED
      BY <2>1, <2>2, Zenon DEF InputsAreWhole
  <1> QED
    BY <1>1, Invariant, PTL

\* No DoTask writes the files of a task that is done: its calls are over.
THEOREM OutputsAreFinal == Spec => DoneIsFinal
  <1>1. ASSUME IInv, [Next]_vars, NEW t \in Task, task[t] = "done"
        PROVE out'[t] = out[t] /\ task'[t] = "done"
    <2> USE TaskFacts
    <2>1. /\ st[t] = "idle" /\ out \in [Task -> {"none", "part", "whole"}]
          /\ task \in [Task -> {"none", "recv", "call", "done"}]
      BY <1>1, Zenon DEF IInv, Calls, TypeOK
    <2>2. ASSUME NEW u \in Task, TaskStep(u) PROVE out'[t] = out[t] /\ task'[t] = "done"
      BY <1>1, <2>1, <2>2, Zenon
      DEF TaskStep, DoTask, DoTaskReturns, CallSucceeds, CallFails, masterVars
    <2>3. ASSUME NEW w \in Worker, Register(w) \/ RegisterFails(w) \/ WorkerStep(w) \/ Exit(w)
          PROVE out'[t] = out[t] /\ task'[t] = "done"
      BY <1>1, <2>3, Zenon
      DEF Register, RegisterFails, WorkerStep, GoOn, Close, Accept, Count, Shutdown, Exit, masterVars
    <2>4. CASE Receives
      BY <1>1, <2>1, <2>4, Zenon DEF Receives, Receive
    <2>5. CASE MapDone
      BY <1>1, <2>1, <2>5, Zenon DEF MapDone, IInv, Phases
    <2>6. CASE RunStep /\ ~MapDone
      BY <1>1, <2>6, Zenon
      DEF RunStep, ReduceDone, CallShutdown, ShutdownSucceeds, ShutdownFails, AllKilled, Merge,
          masterVars
    <2>7. CASE UNCHANGED vars
      BY <1>1, <2>7, Zenon DEF vars
    <2> QED
      BY <1>1, <2>2, <2>3, <2>4, <2>5, <2>6, <2>7, Zenon DEF Next, Over
  <1>2. IInv /\ [Next]_vars =>
            [\A t \in Task : task[t] = "done" => out'[t] = out[t] /\ task'[t] = "done"]_vars
    BY <1>1, Zenon
  <1> QED
    BY <1>2, Invariant, PTL DEF Spec, DoneIsFinal
=============================================================================

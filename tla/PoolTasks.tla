----------------------------- MODULE PoolTasks -----------------------------
(***************************************************************************)
(* Tasks on a pool: the coroutines of ThreadPool are those of mh::task,    *)
(* and one that runs may call wait (or get) on the task of another.        *)
(* task::wait (coroutine/task.hpp) blocks the thread, and with it the      *)
(* thread's run_one, until the other coroutine has ended; TaskPromise      *)
(* shows that it is told then.                                             *)
(*                                                                         *)
(* Coroutines that co_await a task are GoElsewhere: whoever ends that task *)
(* resumes them.                                                           *)
(***************************************************************************)
EXTENDS ThreadPool

VARIABLE waitsFor   \* the coroutine whose task each one waits for, or None

tasksVars == <<allVars, waitsFor>>

PoolTasksInit == PoolInit /\ waitsFor = [c \in Coros |-> None]

OnPoolThread(c) == \E w \in Threads : running[w] = c
Blocked(w) == running[w] # None /\ waitsFor[running[w]] # None
AllBlocked == \A w \in Threads : Blocked(w) \/ loop[w] = "exited"
-----------------------------------------------------------------------------
\* promise_base::wait on the task of d, which is not ready.  (Foreign threads may
\* block as well; that is their coroutine's being slow.)
WaitFor(c, d) ==
    /\ OnPoolThread(c) /\ waitsFor[c] = None
    /\ d # c /\ d \notin done
    /\ waitsFor' = [waitsFor EXCEPT ![c] = d]
    /\ UNCHANGED allVars

\* The task is ready and wait returns.
WaitReturns(c) ==
    /\ waitsFor[c] \in done
    /\ waitsFor' = [waitsFor EXCEPT ![c] = None]
    /\ UNCHANGED allVars

\* What a coroutine of ThreadPool does, if it is not blocked.
Goes(c) ==
    /\ waitsFor[c] = None
    /\ CoAddTask(c) \/ Leave(c) \/ \E d \in 1..MaxDelay : PoolDelay(c, d)
    /\ UNCHANGED waitsFor

PoolTasksNext ==
    \/ /\ \/ \E w \in Threads : Worker(w) \/ SpuriousWakeUp(w)
          \/ Shutdown \/ PoolTick
       /\ UNCHANGED waitsFor
    \/ \E c \in Coros : Goes(c) \/ WaitReturns(c) \/ \E d \in Coros : WaitFor(c, d)

PoolTasksSpec == PoolTasksInit /\ [][PoolTasksNext]_tasksVars

\* As in ThreadPool; a coroutine on a pool thread ends or leaves unless it is
\* blocked, and one that waits is told.
FairPoolTasksSpec ==
    /\ PoolTasksSpec
    /\ \A w \in Threads : WF_tasksVars(Worker(w) /\ UNCHANGED waitsFor)
                          /\ SF_tasksVars(RunNext(w) /\ UNCHANGED waitsFor)
    /\ \A c \in Coros : /\ WF_tasksVars(c \notin foreign /\ waitsFor[c] = None /\ Leave(c)
                                        /\ UNCHANGED waitsFor)
                        /\ WF_tasksVars(WaitReturns(c))
    /\ WF_tasksVars(PoolTick /\ UNCHANGED waitsFor)
-----------------------------------------------------------------------------
\* What is queued or delayed is resumed, unless the pool is destroyed first, or
\* every one of its threads blocks for ever in the wait of a coroutine.
Served ==
    \A c \in Coros :
        c \in DelayedTasks \/ (\E i \in DOMAIN tasks : tasks[i] = c)
          ~> shuttingDown \/ OnPoolThread(c) \/ []AllBlocked

\* The detached threads of a destroyed pool all end, except for those that are
\* blocked for ever.
ThreadsEnd ==
    shuttingDown ~> \A w \in Threads : loop[w] = "exited" \/ []Blocked(w)
=============================================================================

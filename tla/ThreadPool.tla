----------------------------- MODULE ThreadPool -----------------------------
(***************************************************************************)
(* mh::thread_pool (concurrency/thread_pool.hpp, thread_pool.inl): threads *)
(* that wait on a dispatcher of their own for a second and then run what   *)
(* it has for a second, until the destructor has set m_IsShuttingDown.     *)
(* The destructor detaches the threads: they end by themselves, and what   *)
(* is still in the dispatcher when the last one ends is never resumed.     *)
(*                                                                         *)
(* The "1s" of ThreadFunc is Period, MaxWait of the dispatcher.  Once the  *)
(* pool is being destroyed nobody calls it any more.                       *)
(***************************************************************************)
EXTENDS Dispatcher

CONSTANT MaxHops    \* how many times a coroutine parks itself in the pool

ASSUME PoolAssumption ==
    /\ SingleThreads = {FALSE} /\ Threads # {}
    /\ MaxWait > 0 /\ MaxHops \in Nat

Period == MaxWait

VARIABLES
    shuttingDown,   \* m_IsShuttingDown
    loop,           \* where each thread is in ThreadFunc
    runIn,          \* endTime of its run_for
    hops            \* how many times each coroutine has parked itself

poolVars == <<shuttingDown, loop, runIn, hops>>
allVars == <<vars, poolVars>>

Loops == {"top", "waiting", "run", "ran", "exited"}

\* A pool of some of the threads, at least one (threadCount); the others are
\* where those of a destroyed pool end.
PoolInit ==
    /\ Init
    /\ shuttingDown = FALSE
    /\ \E started \in SUBSET Threads \ {{}} :
         loop = [w \in Threads |-> IF w \in started THEN "top" ELSE "exited"]
    /\ runIn = [w \in Threads |-> 0]
    /\ hops = [c \in Coros |-> 0]

LoopTo(w, where) == loop' = [loop EXCEPT ![w] = where]
-----------------------------------------------------------------------------
(* ThreadFunc.                                                             *)

\* Mutant: the loop does not look at the flag.
LoopTopForever(w) ==
    /\ loop[w] = "top"
    /\ WaitTasksFor(w, Period) /\ LoopTo(w, "waiting")
    /\ UNCHANGED <<shuttingDown, runIn, hops>>

\* while (!m_IsShuttingDown) wait_tasks_for(1s).
LoopTop(w) ==
    /\ loop[w] = "top"
    /\ \/ shuttingDown /\ LoopTo(w, "exited") /\ UNCHANGED vars
       \/ ~shuttingDown /\ LoopTo(w, "waiting") /\ WaitTasksFor(w, Period)
    /\ UNCHANGED <<shuttingDown, runIn, hops>>

\* Whatever the wait returned, run_for(1s), if the pool is still there.
Waited(w) ==
    /\ loop[w] = "waiting" /\ pc[w] = "out"
    /\ IF shuttingDown THEN LoopTo(w, "top") /\ UNCHANGED runIn
       ELSE LoopTo(w, "run") /\ runIn' = [runIn EXCEPT ![w] = Period]
    /\ UNCHANGED vars /\ UNCHANGED <<shuttingDown, hops>>

\* run_while: as long as the second is not over and run_one found something.
\* The loop of run_for does not look at m_IsShuttingDown.
MoreToRun(w) ==
    /\ runIn[w] > 0
    /\ loop[w] = "run" \/ (loop[w] = "ran" /\ result[w])

RunNext(w) ==
    /\ MoreToRun(w)
    /\ RunOne(w) /\ LoopTo(w, "ran")
    /\ UNCHANGED <<shuttingDown, runIn, hops>>

RunEnds(w) ==
    /\ loop[w] \in {"run", "ran"} /\ pc[w] = "out" /\ ~MoreToRun(w)
    /\ LoopTo(w, "top")
    /\ runIn' = [runIn EXCEPT ![w] = 0]
    /\ UNCHANGED vars /\ UNCHANGED <<shuttingDown, hops>>

\* Inside wait_tasks_for and run_one, up to the resume().
Dispatch(w) == ThreadStep(w) /\ UNCHANGED poolVars

Worker(w) ==
    LoopTop(w) \/ Waited(w) \/ RunNext(w) \/ RunEnds(w) \/ Dispatch(w)

SpuriousWakeUp(w) == WakeUp(w) /\ UNCHANGED poolVars
-----------------------------------------------------------------------------
(* The coroutines and the owner of the pool.                               *)

Parks(c) ==
    /\ ~shuttingDown /\ hops[c] < MaxHops
    /\ hops' = [hops EXCEPT ![c] = @ + 1]
    /\ UNCHANGED <<shuttingDown, loop, runIn>>

\* co_await co_add_task(): a coroutine on a thread of the pool goes on, any
\* other is queued.
CoAddTask(c) == c \in foreign /\ CoDispatch(c) /\ Parks(c)

PoolDelay(c, d) == CoDelay(c, d) /\ Parks(c)

Leave(c) == (Finish(c) \/ GoElsewhere(c)) /\ UNCHANGED poolVars

\* ~thread_pool.
Shutdown ==
    /\ ~shuttingDown /\ shuttingDown' = TRUE
    /\ UNCHANGED vars /\ UNCHANGED <<loop, runIn, hops>>

PoolTick ==
    /\ Tick
    /\ runIn' = [w \in Threads |-> Passed(runIn[w], 0)]
    /\ UNCHANGED <<shuttingDown, loop, hops>>
-----------------------------------------------------------------------------
Untimed ==
    \/ \E w \in Threads : Worker(w) \/ SpuriousWakeUp(w)
    \/ \E c \in Coros : CoAddTask(c) \/ Leave(c) \/ \E d \in 1..MaxDelay : PoolDelay(c, d)
    \/ Shutdown

PoolNext == Untimed \/ PoolTick

PoolSpec == PoolInit /\ [][PoolNext]_allVars

\* Whether a thread has something to do before time passes or the coroutine
\* that it runs goes on: exactly when its Worker is enabled.
Busy(w) ==
    \/ pc[w] = "out" /\ loop[w] # "exited"
    \/ pc[w] = "asleep" /\ sleepFor[w] <= 0
    \/ pc[w] \notin {"out", "asleep", "running"}

\* The pool on a machine that is never late: a tick does not pass while
\* a thread of the pool has something to do.
PromptTick ==
    /\ \A w \in Threads : ~Busy(w)
    /\ PoolTick

PromptSpec == PoolInit /\ [][Untimed \/ PromptTick]_allVars
-----------------------------------------------------------------------------
(* Properties.                                                             *)

\* add_delay_task wakes no one, but no thread sleeps longer than its second:
\* while any thread of a prompt pool sleeps, no delay is a second overdue.
\* (The test of discarded tasks gives a delay of 2s one second to be kept.)
DelaysKept ==
    Sleepers # {} => \A i \in DOMAIN delayed : delayed[i].dueIn > -Period
=============================================================================

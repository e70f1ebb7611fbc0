----------------------------- MODULE Dispatcher -----------------------------
(***************************************************************************)
(* mh::dispatcher (concurrency/dispatcher.hpp, dispatcher.inl): a queue of *)
(* coroutines to resume and a heap of delayed ones, the threads that wait  *)
(* for them and resume them, and the coroutines that park themselves with  *)
(* co_dispatch and co_delay_for.                                           *)
(*                                                                         *)
(* Every section under m_TasksMutex is one step.  Time is discrete and     *)
(* relative: a deadline is the number of ticks that are left, negative     *)
(* once it has passed, and no smaller than -MaxLate.  The heap is the      *)
(* sequence of its elements by deadline: only its front is ever looked at, *)
(* and elements with the same deadline leave it in any order.              *)
(*                                                                         *)
(* try_pop_task looks at both containers without the lock first.  A thread *)
(* that is in that look while another changes them races with it, and may  *)
(* then find them empty or not, whatever they hold.                        *)
(***************************************************************************)
EXTENDS Integers, Sequences, FiniteSets

CONSTANTS
    Threads,        \* the threads that wait for tasks and run them
    Owner,          \* the thread that made it (m_OwnerThread), if it is one of them
    SingleThreads,  \* what the constructor is told: a single thread, or not
    Coros,          \* the coroutines
    None,           \* no coroutine
    MaxDelay,       \* bound of a delay, in ticks
    MaxWait,        \* bound of a wait for tasks, in ticks
    MaxLate         \* where the clock of an overdue delay stops

ASSUME DispatcherAssumption ==
    /\ IsFiniteSet(Threads) /\ IsFiniteSet(Coros) /\ None \notin Coros
    /\ SingleThreads \subseteq BOOLEAN /\ (TRUE \in SingleThreads => Owner \in Threads)
    /\ MaxDelay \in Nat /\ MaxWait \in Nat /\ MaxLate \in Nat

VARIABLES
    singleThread,   \* m_IsSingleThread
    tasks,      \* m_Tasks
    delayed,    \* m_DelayTasks, by deadline: [task, dueIn]
    foreign,    \* the coroutines on threads that are not in Threads
    done,       \* the coroutines that have finished
    running,    \* the coroutine inside the resume() of each thread, or None
    pc,         \* where each thread is
    endIn,      \* endTime of its wait_tasks_until
    sleepFor,   \* localEndTime, the deadline it sleeps until
    result,     \* what its last run_one or wait_tasks_until returned
    knew        \* the delays in the heap when it last looked at its front

vars == <<singleThread, tasks, delayed, foreign, done, running, pc, endIn,
          sleepFor, result, knew>>

ThreadPCs == {"out", "wait_lock", "asleep", "woken",
              "peek", "peek_raced", "pop", "running"}
Late == -MaxLate

Entries == [task : Coros, dueIn : Late..MaxDelay]

Init ==
    /\ singleThread \in SingleThreads
    /\ tasks = <<>> /\ delayed = <<>>
    /\ foreign = Coros /\ done = {}
    /\ running = [w \in Threads |-> None]
    /\ pc = [w \in Threads |-> "out"]
    /\ endIn = [w \in Threads |-> 0]
    /\ sleepFor = [w \in Threads |-> 0]
    /\ result = [w \in Threads |-> FALSE]
    /\ knew = [w \in Threads |-> {}]

Goto(w, where) == pc' = [pc EXCEPT ![w] = where]

\* The call returns, and its locals are gone.
Return(w, value) ==
    /\ Goto(w, "out")
    /\ result' = [result EXCEPT ![w] = value]
    /\ endIn' = [endIn EXCEPT ![w] = 0]
    /\ sleepFor' = [sleepFor EXCEPT ![w] = 0]
    /\ knew' = [knew EXCEPT ![w] = {}]

FrontIsDue == delayed # <<>> /\ Head(delayed).dueIn <= 0
IsTaskAvailable == FrontIsDue \/ tasks # <<>>
Sleepers == {w \in Threads : pc[w] = "asleep"}
DelayedTasks == {delayed[i].task : i \in DOMAIN delayed}

UnchangedQueues == UNCHANGED <<singleThread, tasks, delayed, foreign, done, running>>
-----------------------------------------------------------------------------
(* wait_tasks_until.                                                       *)

\* wait_tasks_for(d), called by a thread that is in no other call.
WaitTasksFor(w, d) ==
    /\ pc[w] = "out"
    /\ Goto(w, "wait_lock")
    /\ endIn' = [endIn EXCEPT ![w] = d]
    /\ result' = [result EXCEPT ![w] = FALSE]
    /\ UnchangedQueues /\ UNCHANGED <<sleepFor, knew>>

\* Mutant: the wait ignores the delays.
LocalEndOfWait(w) == endIn[w]

\* How long to sleep: until the end of the wait or the first known delay.
LocalEnd(w) ==
    IF delayed # <<>> /\ Head(delayed).dueIn < endIn[w]
    THEN Head(delayed).dueIn ELSE endIn[w]

\* One round of the loop, under the lock: the end of the wait is looked at
\* before the tasks; then the predicate, and without tasks the thread sleeps.
WaitRound(w) ==
    \/ endIn[w] <= 0 /\ Return(w, FALSE)
    \/ endIn[w] > 0 /\ IsTaskAvailable /\ Return(w, TRUE)
    \/ /\ endIn[w] > 0 /\ ~IsTaskAvailable
       /\ sleepFor' = [sleepFor EXCEPT ![w] = LocalEnd(w)]
       /\ knew' = [knew EXCEPT ![w] = DelayedTasks]
       /\ Goto(w, "asleep") /\ UNCHANGED <<endIn, result>>

WaitLocked(w) ==
    /\ pc[w] = "wait_lock"
    /\ WaitRound(w)
    /\ UnchangedQueues

\* The sleep ends: its deadline has passed, or for no reason at all.
WakeUp(w) ==
    /\ pc[w] = "asleep"
    /\ Goto(w, "woken")
    /\ UnchangedQueues /\ UNCHANGED <<endIn, sleepFor, result, knew>>

TimedOut(w) == sleepFor[w] <= 0 /\ WakeUp(w)

\* The inner wait_until has the lock again: the predicate first; without
\* tasks it sleeps on, or at its deadline returns to the loop.
WokenLocked(w) ==
    /\ pc[w] = "woken"
    /\ \/ IsTaskAvailable /\ Return(w, TRUE)
       \/ /\ ~IsTaskAvailable /\ sleepFor[w] > 0
          /\ Goto(w, "asleep") /\ UNCHANGED <<endIn, sleepFor, result, knew>>
       \/ ~IsTaskAvailable /\ sleepFor[w] <= 0 /\ WaitRound(w)
    /\ UnchangedQueues
-----------------------------------------------------------------------------
(* run_one and try_pop_task.                                               *)

\* Mutant: any thread runs.
RunOneAnywhere(w) ==
    /\ pc[w] = "out"
    /\ Goto(w, "peek") /\ result' = [result EXCEPT ![w] = FALSE]
    /\ UnchangedQueues /\ UNCHANGED <<endIn, sleepFor, knew>>

\* A dispatcher of one thread runs nothing on the others.
RunOne(w) ==
    /\ pc[w] = "out"
    /\ IF singleThread /\ w # Owner THEN Return(w, FALSE)
       ELSE /\ Goto(w, "peek") /\ result' = [result EXCEPT ![w] = FALSE]
            /\ UNCHANGED <<endIn, sleepFor, knew>>
    /\ UnchangedQueues

\* Whoever pushes or pops while a thread peeks makes it a race.
Racing(p) == [w \in Threads |-> IF p[w] = "peek" THEN "peek_raced" ELSE p[w]]

\* Mutant: the look sees the delays only.
PeekedNoTask(w) ==
    /\ \/ pc[w] = "peek_raced"
       \/ pc[w] = "peek" /\ tasks = <<>>
    /\ Return(w, FALSE)
    /\ UnchangedQueues

\* Without the lock: is there anything in the queue or in the heap?
PeekedSomething(w) ==
    /\ \/ pc[w] = "peek_raced"
       \/ pc[w] = "peek" /\ (tasks # <<>> \/ delayed # <<>>)
    /\ Goto(w, "pop")
    /\ UnchangedQueues /\ UNCHANGED <<endIn, sleepFor, result, knew>>

PeekedNothing(w) ==
    /\ \/ pc[w] = "peek_raced"
       \/ pc[w] = "peek" /\ tasks = <<>> /\ delayed = <<>>
    /\ Return(w, FALSE)
    /\ UnchangedQueues

Resume(w, c) ==
    /\ running' = [running EXCEPT ![w] = c]
    /\ knew' = [v \in Threads |-> knew[v] \ {c}]
    /\ pc' = Racing([pc EXCEPT ![w] = "running"])

\* Under the lock, whatever the peek has seen: a delay that is due goes first,
\* then the queue.
PopDelayed(w) ==
    /\ pc[w] = "pop" /\ FrontIsDue
    /\ Resume(w, Head(delayed).task)
    /\ delayed' = Tail(delayed)
    /\ UNCHANGED <<singleThread, tasks, foreign, done, endIn, sleepFor, result>>

\* Mutant: the handle stays in the queue.
PopTaskKeeps(w) ==
    /\ pc[w] = "pop" /\ ~FrontIsDue /\ tasks # <<>>
    /\ Resume(w, Head(tasks))
    /\ UNCHANGED <<singleThread, tasks, delayed, foreign, done, endIn, sleepFor, result>>

PopTask(w) ==
    /\ pc[w] = "pop" /\ ~FrontIsDue /\ tasks # <<>>
    /\ Resume(w, Head(tasks))
    /\ tasks' = Tail(tasks)
    /\ UNCHANGED <<singleThread, delayed, foreign, done, endIn, sleepFor, result>>

\* Mutant: the pop resumes although it found nothing.
PopNothingResumes(w) ==
    /\ pc[w] = "pop" /\ ~IsTaskAvailable
    /\ Goto(w, "running")
    /\ UnchangedQueues /\ UNCHANGED <<endIn, sleepFor, result, knew>>

PopNothing(w) ==
    /\ pc[w] = "pop" /\ ~IsTaskAvailable
    /\ Return(w, FALSE)
    /\ UnchangedQueues
-----------------------------------------------------------------------------
(* The coroutines.  A coroutine runs on a foreign thread, or inside the    *)
(* resume() of a thread w, which returns when it parks itself or ends.     *)

\* The coroutine is no longer running where it was, and if that was a thread
\* of the dispatcher, its run_one returns.
Leaves(c) ==
    \/ /\ c \in foreign /\ foreign' = foreign \ {c}
       /\ UNCHANGED <<running, result>>
    \/ \E w \in Threads :
         /\ running[w] = c
         /\ running' = [running EXCEPT ![w] = None]
         /\ result' = [result EXCEPT ![w] = TRUE]
         /\ UNCHANGED foreign

Returning(c) == [w \in Threads |-> IF running[w] = c THEN "out" ELSE pc[w]]

\* Mutant: no notification.
AddTaskSilent(c) == tasks' = Append(tasks, c) /\ pc' = Racing(Returning(c))

\* add_task: push and notify_one, which wakes one of the sleepers if any.
AddTask(c) ==
    /\ tasks' = Append(tasks, c)
    /\ IF Sleepers = {} THEN pc' = Racing(Returning(c))
       ELSE \E v \in Sleepers : pc' = Racing([Returning(c) EXCEPT ![v] = "woken"])

\* co_await co_dispatch() does nothing on the thread of a single-threaded
\* dispatcher; anywhere else the coroutine is queued for the threads.
OnRightThread(c) == singleThread /\ running[Owner] = c

CoDispatch(c) ==
    /\ ~OnRightThread(c)
    /\ Leaves(c)
    /\ AddTask(c)
    /\ UNCHANGED <<singleThread, delayed, done, endIn, sleepFor, knew>>

\* Where push_heap and pop_heap keep an element: behind the earlier ones.
InsertAt(i, e) == SubSeq(delayed, 1, i) \o <<e>> \o SubSeq(delayed, i + 1, Len(delayed))

\* Mutant: the heap has the last deadline in front.
SortedPositionReversed(i, d) ==
    /\ \A j \in 1..i : delayed[j].dueIn >= d
    /\ \A j \in (i + 1)..Len(delayed) : delayed[j].dueIn <= d

SortedPosition(i, d) ==
    /\ \A j \in 1..i : delayed[j].dueIn <= d
    /\ \A j \in (i + 1)..Len(delayed) : delayed[j].dueIn >= d

\* add_delay_task, which notifies no one.
AddDelayTask(c, d) ==
    /\ \E i \in 0..Len(delayed) :
          SortedPosition(i, d) /\ delayed' = InsertAt(i, [task |-> c, dueIn |-> d])
    /\ pc' = Racing(Returning(c))

\* co_await co_delay_for(d).  A delay that is over (d = 0) does not suspend
\* and changes nothing.
CoDelay(c, d) ==
    /\ d > 0
    /\ Leaves(c)
    /\ AddDelayTask(c, d)
    /\ UNCHANGED <<singleThread, tasks, done, endIn, sleepFor, knew>>

Finish(c) ==
    /\ Leaves(c)
    /\ done' = done \cup {c}
    /\ pc' = Returning(c)
    /\ UNCHANGED <<singleThread, tasks, delayed, endIn, sleepFor, knew>>

\* The coroutine waits for something else, and goes on wherever that resumes it.
GoElsewhere(c) ==
    /\ \E w \in Threads :
         /\ running[w] = c
         /\ running' = [running EXCEPT ![w] = None]
         /\ result' = [result EXCEPT ![w] = TRUE]
    /\ foreign' = foreign \cup {c}
    /\ pc' = Returning(c)
    /\ UNCHANGED <<singleThread, tasks, delayed, done, endIn, sleepFor, knew>>

Passed(n, floor) == IF n > floor THEN n - 1 ELSE floor

\* A tick of steady_clock.
Tick ==
    /\ delayed' = [i \in DOMAIN delayed |->
                     [delayed[i] EXCEPT !.dueIn = Passed(@, Late)]]
    /\ endIn' = [w \in Threads |-> Passed(endIn[w], 0)]
    /\ sleepFor' = [w \in Threads |-> Passed(sleepFor[w], 0)]
    /\ UNCHANGED <<singleThread, tasks, foreign, done, running, pc, result, knew>>
-----------------------------------------------------------------------------
\* What a thread does inside a call, up to the resume() of a coroutine.
ThreadStep(w) ==
    \/ WaitLocked(w) \/ TimedOut(w) \/ WokenLocked(w)
    \/ PeekedSomething(w) \/ PeekedNothing(w)
    \/ PopDelayed(w) \/ PopTask(w) \/ PopNothing(w)

Next ==
    \/ \E w \in Threads :
         ThreadStep(w) \/ RunOne(w) \/ WakeUp(w) \/ \E d \in 0..MaxWait : WaitTasksFor(w, d)
    \/ \E c \in Coros :
         CoDispatch(c) \/ Finish(c) \/ GoElsewhere(c) \/ \E d \in 1..MaxDelay : CoDelay(c, d)
    \/ Tick

Spec == Init /\ [][Next]_vars
-----------------------------------------------------------------------------
(* Properties.                                                             *)

\* The type invariant; a thread in resume() has a coroutine there.
TypeOK ==
    /\ singleThread \in BOOLEAN
    /\ tasks \in Seq(Coros) /\ delayed \in Seq(Entries)
    /\ foreign \subseteq Coros /\ done \subseteq Coros
    /\ running \in [Threads -> Coros \cup {None}]
    /\ pc \in [Threads -> ThreadPCs]
    /\ endIn \in [Threads -> 0..MaxWait]
    /\ sleepFor \in [Threads -> 0..MaxWait]
    /\ result \in [Threads -> BOOLEAN]
    /\ knew \in [Threads -> SUBSET Coros]
    /\ \A w \in Threads : pc[w] = "running" <=> running[w] # None

\* A coroutine is in one place only: on a foreign thread, on one thread of the
\* dispatcher, once in the queue, once in the heap, or finished.  So it is
\* never lost, never resumed while it runs and never resumed twice for one
\* suspension.
Places(c) ==
    Cardinality({i \in DOMAIN tasks : tasks[i] = c})
    + Cardinality({i \in DOMAIN delayed : delayed[i].task = c})
    + Cardinality({w \in Threads : running[w] = c})
    + Cardinality({s \in {"foreign", "done"} : c \in (IF s = "done" THEN done ELSE foreign)})
OnePlace == \A c \in Coros : Places(c) = 1

\* Notifications suffice: as long as a thread sleeps, there is a thread awake
\* for every queued task (one notify_one per push, waits that look first).
EnoughAwake ==
    Sleepers # {} => Len(tasks) <= Cardinality(Threads \ Sleepers)

\* A thread never sleeps past a delay that was in the heap when it fell
\* asleep, or past the end of its wait (min of localEndTime).
WakesForKnownDelays ==
    \A w \in Sleepers :
        /\ sleepFor[w] <= endIn[w]
        /\ \A i \in DOMAIN delayed :
             delayed[i].task \in knew[w] /\ delayed[i].dueIn >= 0
               => sleepFor[w] <= delayed[i].dueIn

\* On a single-threaded dispatcher a coroutine that asks for its thread goes
\* on only there (the assertion of co_dispatch_task::await_resume): whoever
\* leaves the queue or the heap runs on the owner.
OnlyOwnerResumes ==
    [][singleThread =>
         \A w \in Threads : running'[w] # running[w] /\ running'[w] # None => w = Owner]_vars
=============================================================================

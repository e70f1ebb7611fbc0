-------------------------- MODULE ThreadPool_proofs --------------------------
(***************************************************************************)
(* Proofs about ThreadPool and PoolTasks, for any threads, coroutines and  *)
(* bounds: what a pool does to its dispatcher is what the dispatcher       *)
(* allows, with tasks that wait for each other or without, so that what is *)
(* proved of the dispatcher holds there too; and a prompt pool keeps its   *)
(* delays.                                                                 *)
(***************************************************************************)
EXTENDS PoolTasks, Dispatcher_proofs

\* A worker does nothing but what a thread of the dispatcher may do.
LEMMA WorkerDispatches ==
    ASSUME NEW w \in Threads, Worker(w) \/ SpuriousWakeUp(w)
    PROVE  [Next]_vars
<1>1. MaxWait \in 0..MaxWait
  BY DispatcherAssumption
<1>2. CASE LoopTop(w)
  BY <1>1, <1>2 DEF LoopTop, Period, Next
<1>3. CASE Waited(w) \/ RunEnds(w)
  BY <1>3 DEF Waited, RunEnds
<1>4. CASE RunNext(w)
  BY <1>4 DEF RunNext, Next
<1>5. CASE Dispatch(w) \/ SpuriousWakeUp(w)
  BY <1>5 DEF Dispatch, SpuriousWakeUp, Next
<1> QED
  BY <1>2, <1>3, <1>4, <1>5 DEF Worker

\* Neither do the coroutines of the pool.
LEMMA CoroutineDispatches ==
    ASSUME NEW c \in Coros,
           CoAddTask(c) \/ Leave(c) \/ \E d \in 1..MaxDelay : PoolDelay(c, d)
    PROVE  [Next]_vars
BY DEF CoAddTask, Leave, PoolDelay, Next

\* So every step of the pool is one of its dispatcher, or leaves it alone.
LEMMA PoolDispatches == [PoolNext]_allVars => [Next]_vars
<1>1. ASSUME UNCHANGED allVars PROVE UNCHANGED vars
  BY <1>1 DEF allVars
<1>2. ASSUME Shutdown PROVE UNCHANGED vars
  BY <1>2 DEF Shutdown
<1>3. ASSUME PoolTick PROVE Next
  BY <1>3 DEF PoolTick, Next
<1> QED
  BY <1>1, <1>2, <1>3, WorkerDispatches, CoroutineDispatches DEF PoolNext, Untimed

\* A step of a pool with tasks is one of the pool without, or leaves it alone.
LEMMA TasksArePool == [PoolTasksNext]_tasksVars => [PoolNext]_allVars
<1>1. ASSUME UNCHANGED tasksVars PROVE UNCHANGED allVars
  BY <1>1 DEF tasksVars
<1>2. ASSUME NEW c \in Coros, Goes(c) PROVE PoolNext
  BY <1>2 DEF Goes, PoolNext, Untimed
<1>3. ASSUME NEW c \in Coros, WaitReturns(c) \/ \E d \in Coros : WaitFor(c, d)
      PROVE  UNCHANGED allVars
  BY <1>3 DEF WaitReturns, WaitFor
<1> QED
  BY <1>1, <1>2, <1>3 DEF PoolTasksNext, PoolNext, Untimed
-----------------------------------------------------------------------------
(* The pool implements the dispatcher.                                     *)

\* A thread_pool drives its dispatcher as the dispatcher's own specification
\* lets any threads and coroutines drive it.
THEOREM PoolImplementsDispatcher == PoolSpec => Spec
<1>1. PoolInit => Init
  BY DEF PoolInit
<1> QED
  BY <1>1, PoolDispatches, PTL DEF PoolSpec, Spec

\* And tasks that block the threads of the pool in their waits do nothing to
\* the pool that it does not do by itself.
THEOREM TasksImplementPool == PoolTasksSpec => PoolSpec
<1>1. PoolTasksInit => PoolInit
  BY DEF PoolTasksInit
<1> QED
  BY <1>1, TasksArePool, PTL DEF PoolTasksSpec, PoolSpec

\* So no coroutine of a pool is lost, queued twice or resumed while it runs,
\* however the tasks wait for each other and whenever the pool is destroyed.
THEOREM PoolLosesNoCoroutine == PoolTasksSpec => []OnePlace
BY TasksImplementPool, PoolImplementsDispatcher, OnlyOnePlace, PTL

\* And as long as a thread of the pool sleeps, there is a thread awake for
\* every queued task, with the pool's tasks blocking others.
THEOREM PoolWakesEnough == PoolTasksSpec => []EnoughAwake
BY TasksImplementPool, PoolImplementsDispatcher, NotificationsSuffice, PTL
-----------------------------------------------------------------------------
(* Delays of a prompt pool.                                                *)

\* While a thread sleeps, no delay is due more than a second before the thread
\* wakes: the delays in the heap were in the future when it fell asleep, for no
\* longer than its second, or they came later and were in the future then.
Within(w) ==
    pc[w] = "asleep" => \A i \in DOMAIN delayed : delayed[i].dueIn > sleepFor[w] - Period
AllWithin == \A w \in Threads : Within(w)

\* A heap without a due delay has none that is due.
LEMMA NoneDue ==
    ASSUME IndInv, ~IsTaskAvailable
    PROVE  \A i \in DOMAIN delayed : delayed[i].dueIn \in Int /\ delayed[i].dueIn > 0
<1>1. /\ delayed \in Seq(Entries) /\ DOMAIN delayed = 1..Len(delayed) /\ Len(delayed) \in Nat
      /\ MaxLate \in Nat /\ MaxDelay \in Nat
  BY DispatcherAssumption DEF IndInv, TypeOK
<1> SUFFICES ASSUME NEW i \in DOMAIN delayed
             PROVE  delayed[i].dueIn \in Int /\ delayed[i].dueIn > 0
  OBVIOUS
<1>2. /\ 1 \in DOMAIN delayed /\ 1 <= i /\ delayed # <<>> /\ Head(delayed) = delayed[1]
  BY <1>1
<1>3. /\ delayed[i] \in Entries /\ delayed[1] \in Entries
  BY <1>1, <1>2
<1>4. /\ delayed[i].dueIn \in Int /\ delayed[1].dueIn \in Int
  BY <1>1, <1>3 DEF Entries, Late
<1>5. delayed[1].dueIn <= delayed[i].dueIn
  BY <1>2 DEF IndInv, Sorted
<1>6. delayed[1].dueIn > 0
  BY <1>2, <1>4 DEF IsTaskAvailable, FrontIsDue
<1> QED
  BY <1>4, <1>5, <1>6

\* A thread falls asleep, again or for the first time, only when nothing is due,
\* and for no longer than a wait may be.
LEMMA SleepsWithoutDue ==
    ASSUME IndInv, IndInv', NEW w \in Threads, Calls(w), pc'[w] = "asleep"
    PROVE  ~IsTaskAvailable
<1>1. pc \in [Threads -> ThreadPCs]
  BY DEF IndInv, TypeOK
<1>2. ASSUME NEW value, Return(w, value) PROVE FALSE
  BY <1>1, <1>2 DEF Return, Goto
<1>3. ASSUME WaitRound(w) PROVE ~IsTaskAvailable
  BY <1>2, <1>3 DEF WaitRound
<1>4. CASE WaitLocked(w)
  BY <1>3, <1>4 DEF WaitLocked
<1>5. CASE WokenLocked(w)
  BY <1>2, <1>3, <1>5 DEF WokenLocked
<1>6. CASE WakeUp(w) \/ PeekedSomething(w) \/ \E d \in 0..MaxWait : WaitTasksFor(w, d)
  BY <1>1, <1>6 DEF WakeUp, PeekedSomething, WaitTasksFor, Goto
<1>7. CASE RunOne(w)
  BY <1>1, <1>2, <1>7 DEF RunOne, Goto
<1>8. CASE PeekedNothing(w) \/ PopNothing(w)
  BY <1>2, <1>8 DEF PeekedNothing, PopNothing
<1> QED
  BY <1>4, <1>5, <1>6, <1>7, <1>8 DEF Calls

\* What a thread does in its calls keeps its delays and those of the others.
LEMMA CallsStayWithin ==
    ASSUME IndInv, IndInv', AllWithin, NEW w \in Threads, Calls(w)
    PROVE  AllWithin'
<1>1. PICK p \in ThreadPCs : ThreadMove(w, p)
  BY CallsMove
<1>2. /\ delayed' = delayed /\ pc \in [Threads -> ThreadPCs]
      /\ pc' = [pc EXCEPT ![w] = p]
      /\ \A v \in Threads \ {w} : sleepFor'[v] = sleepFor[v]
  BY <1>1 DEF ThreadMove, UnchangedQueues, IndInv, TypeOK
<1>3. ASSUME NEW v \in Threads \ {w} PROVE Within(v)'
  BY <1>2, <1>3 DEF AllWithin, Within, Period
<1>4. Within(w)'
  <2> SUFFICES ASSUME pc'[w] = "asleep", NEW i \in DOMAIN delayed
               PROVE  delayed[i].dueIn > sleepFor'[w] - Period
    BY <1>2 DEF Within, Period
  <2>1. delayed[i].dueIn \in Int /\ delayed[i].dueIn > 0
    BY SleepsWithoutDue, NoneDue
  <2>2. sleepFor'[w] \in 0..MaxWait /\ MaxWait \in Nat
    BY DispatcherAssumption DEF IndInv, TypeOK
  <2> QED
    BY <2>1, <2>2 DEF Period
<1> QED
  BY <1>3, <1>4 DEF AllWithin

\* A delay is in the future when it comes, by as much as a tick.
LEMMA DelayStaysWithin ==
    ASSUME IndInv, AllWithin, NEW c \in Coros, NEW d \in 1..MaxDelay, CoDelay(c, d)
    PROVE  AllWithin'
<1> SUFFICES ASSUME NEW w \in Threads, pc'[w] = "asleep", NEW j \in DOMAIN delayed'
             PROVE  delayed'[j].dueIn > sleepFor'[w] - Period
  BY DEF AllWithin, Within, Period
<1>1. CoMove(c)
  BY CoMoves
<1>2. pc[w] = "asleep" /\ sleepFor'[w] = sleepFor[w] /\ sleepFor[w] \in 0..MaxWait
      /\ MaxWait \in Nat /\ MaxDelay \in Nat
  BY <1>1, DispatcherAssumption DEF CoMove, IndInv, TypeOK
<1>3. PICK i \in 0..Len(delayed) : /\ SortedPosition(i, d)
                                   /\ delayed' = InsertAt(i, [task |-> c, dueIn |-> d])
  BY DEF CoDelay, AddDelayTask
<1>4. c \notin DelayedTasks
  BY <1>1, LeavesThreads
<1>5. delayed'[j] = [task |-> c, dueIn |-> d] \/ \E k \in DOMAIN delayed : delayed'[j] = delayed[k]
  BY <1>3, <1>4, HeapPushes DEF IndInv
<1>6. delayed'[j].dueIn = d \/ \E k \in DOMAIN delayed : delayed'[j].dueIn = delayed[k].dueIn
  BY <1>5
<1> QED
  BY <1>2, <1>6 DEF AllWithin, Within, Period

\* A prompt pool sleeps on over a tick only while no one is to wake.
LEMMA TickStaysWithin ==
    ASSUME IndInv, AllWithin, PromptTick
    PROVE  AllWithin'
<1> SUFFICES ASSUME NEW w \in Threads, pc'[w] = "asleep", NEW i \in DOMAIN delayed'
             PROVE  delayed'[i].dueIn > sleepFor'[w] - Period
  BY DEF AllWithin, Within, Period
<1>1. Tick /\ ~Busy(w)
  BY DEF PromptTick, PoolTick
<1>2. /\ delayed \in Seq(Entries) /\ MaxLate \in Nat /\ MaxWait \in Nat /\ MaxDelay \in Nat
      /\ sleepFor[w] \in 0..MaxWait
  BY DispatcherAssumption DEF IndInv, TypeOK
<1>3. pc[w] = "asleep" /\ sleepFor[w] > 0
  BY <1>1, <1>2 DEF Tick, Busy
<1>4. sleepFor'[w] = sleepFor[w] - 1
  BY <1>1, <1>2, <1>3 DEF Tick, Passed
<1>5. /\ i \in DOMAIN delayed
      /\ delayed'[i] = [delayed[i] EXCEPT !.dueIn = Passed(@, Late)]
  BY <1>1 DEF Tick
<1>6. delayed[i] \in [task : Coros, dueIn : Late..MaxDelay]
  <2>1. delayed[i] \in Entries
    BY <1>2, <1>5
  <2> QED
    BY <2>1 DEF Entries
<1>7. delayed[i].dueIn \in Late..MaxDelay /\ delayed'[i].dueIn = Passed(delayed[i].dueIn, Late)
  BY <1>5, <1>6
<1>8. delayed[i].dueIn > sleepFor[w] - Period
  BY <1>3, <1>5 DEF AllWithin, Within
<1> QED
  BY <1>2, <1>4, <1>7, <1>8, SMTT(30) DEF Passed, Late, Period

\* Every other step, of threads and coroutines, keeps them too.
LEMMA StepsStayWithin ==
    ASSUME IndInv, IndInv', AllWithin, [Untimed \/ PromptTick]_allVars
    PROVE  AllWithin'
<1>1. ASSUME UNCHANGED vars PROVE AllWithin'
  BY <1>1 DEF vars, AllWithin, Within, Period
<1>2. ASSUME NEW w \in Threads, PopDelayed(w) PROVE AllWithin'
  <2>1. /\ ResumeMove(w, Head(delayed).task) /\ delayed # <<>> /\ delayed' = Tail(delayed)
    BY <1>2, ResumeMoves
  <2>2. \A i \in DOMAIN delayed' : \E j \in DOMAIN delayed : delayed'[i] = delayed[j]
    BY <2>1, HeapPops DEF IndInv
  <2>3. sleepFor' = sleepFor /\ \A v \in Threads : pc'[v] = "asleep" => pc[v] = "asleep"
    BY <2>1 DEF ResumeMove
  <2> QED
    BY <2>2, <2>3 DEF AllWithin, Within, Period
<1>3. ASSUME NEW w \in Threads, PopTask(w) PROVE AllWithin'
  <2>1. sleepFor' = sleepFor /\ delayed' = delayed
        /\ \A v \in Threads : pc'[v] = "asleep" => pc[v] = "asleep"
    BY <1>3, ResumeMoves DEF ResumeMove
  <2> QED
    BY <2>1 DEF AllWithin, Within, Period
<1>4. ASSUME NEW w \in Threads, ThreadStep(w) PROVE AllWithin'
  BY <1>2, <1>3, <1>4, CallsStayWithin DEF ThreadStep, TimedOut, Calls
<1>5. ASSUME NEW w \in Threads, Worker(w) \/ SpuriousWakeUp(w) PROVE AllWithin'
  <2>1. MaxWait \in 0..MaxWait
    BY DispatcherAssumption
  <2>2. CASE LoopTop(w)
    BY <1>1, <2>1, <2>2, CallsStayWithin DEF LoopTop, Period, Calls
  <2>3. CASE Waited(w) \/ RunEnds(w)
    BY <1>1, <2>3 DEF Waited, RunEnds
  <2>4. CASE RunNext(w) \/ SpuriousWakeUp(w)
    BY <2>4, CallsStayWithin DEF RunNext, SpuriousWakeUp, Calls
  <2>5. CASE Dispatch(w)
    BY <1>4, <2>5 DEF Dispatch
  <2> QED
    BY <1>5, <2>2, <2>3, <2>4, <2>5 DEF Worker
<1>6. ASSUME NEW c \in Coros, CoAddTask(c) \/ Leave(c) PROVE AllWithin'
  <2>1. CoDispatch(c) \/ Finish(c) \/ GoElsewhere(c)
    BY <1>6 DEF CoAddTask, Leave
  <2>2. CoMove(c)
    BY <2>1, CoMoves
  <2>3. delayed' = delayed
    BY <2>1 DEF CoDispatch, Finish, GoElsewhere
  <2> QED
    BY <2>2, <2>3 DEF CoMove, AllWithin, Within, Period
<1>7. ASSUME NEW c \in Coros, NEW d \in 1..MaxDelay, PoolDelay(c, d) PROVE AllWithin'
  BY <1>7, DelayStaysWithin DEF PoolDelay
<1>8. CASE Shutdown \/ UNCHANGED allVars
  BY <1>1, <1>8 DEF Shutdown, allVars
<1> QED
  BY <1>5, <1>6, <1>7, <1>8, TickStaysWithin DEF Untimed

\* While any thread of a prompt pool sleeps, no delay is a second overdue,
\* although add_delay_task wakes no one: for any pool and any delays.
THEOREM DelaysAreKept == PromptSpec => []DelaysKept
<1>1. PromptSpec => PoolSpec
  <2>1. [Untimed \/ PromptTick]_allVars => [PoolNext]_allVars
    BY DEF PromptTick, PoolNext
  <2> QED
    BY <2>1, PTL DEF PromptSpec, PoolSpec
<1>2. PromptSpec => []IndInv
  BY <1>1, PoolImplementsDispatcher, Invariance, PTL
<1>3. PoolInit => AllWithin
  BY DEF PoolInit, Init, AllWithin, Within
<1>4. PromptSpec => []AllWithin
  BY <1>2, <1>3, StepsStayWithin, PTL DEF PromptSpec
<1>5. IndInv /\ AllWithin => DelaysKept
  <2> SUFFICES ASSUME IndInv, AllWithin, NEW w \in Sleepers, NEW i \in DOMAIN delayed
               PROVE  delayed[i].dueIn > -Period
    BY DEF DelaysKept
  <2>1. /\ w \in Threads /\ pc[w] = "asleep"
    BY DEF Sleepers
  <2>2. /\ delayed \in Seq(Entries) /\ sleepFor[w] \in 0..MaxWait
        /\ MaxLate \in Nat /\ MaxWait \in Nat /\ MaxDelay \in Nat
    BY <2>1, DispatcherAssumption DEF IndInv, TypeOK
  <2>3. delayed[i] \in Entries
    BY <2>2
  <2>4. delayed[i].dueIn \in Int
    BY <2>2, <2>3 DEF Entries, Late
  <2>5. delayed[i].dueIn > sleepFor[w] - Period
    BY <2>1 DEF AllWithin, Within
  <2> QED
    BY <2>2, <2>4, <2>5 DEF Period
<1> QED
  BY <1>2, <1>4, <1>5, PTL
=============================================================================

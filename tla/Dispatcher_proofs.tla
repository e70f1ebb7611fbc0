------------------------- MODULE Dispatcher_proofs -------------------------
(***************************************************************************)
(* Proofs about Dispatcher for any finite sets of threads and coroutines   *)
(* and any bounds.  IndInv is inductive; its parts say where the           *)
(* coroutines are, that the heap is sorted, what a sleeping thread knows   *)
(* of it, and which calls the threads of a single-threaded dispatcher can  *)
(* be in.                                                                  *)
(***************************************************************************)
EXTENDS Dispatcher, FiniteSetTheorems, SequenceTheorems, TLAPS

Queued == {tasks[i] : i \in DOMAIN tasks}
OnThreads == {running[w] : w \in Threads} \ {None}

\* No place holds a coroutine twice.
NoRepeats ==
    /\ \A i, j \in DOMAIN tasks : tasks[i] = tasks[j] => i = j
    /\ \A i, j \in DOMAIN delayed : delayed[i].task = delayed[j].task => i = j
    /\ \A v, w \in Threads : running[v] = running[w] /\ running[v] # None => v = w

\* And no two places hold the same one.
Apart ==
    /\ Coros = foreign \cup done \cup OnThreads \cup Queued \cup DelayedTasks
    /\ foreign \cap done = {}
    /\ OnThreads \cap (foreign \cup done) = {}
    /\ Queued \cap (foreign \cup done \cup OnThreads) = {}
    /\ DelayedTasks \cap (foreign \cup done \cup OnThreads \cup Queued) = {}

\* The heap has the first deadline in front.
Sorted ==
    \A i, j \in DOMAIN delayed : i <= j => delayed[i].dueIn <= delayed[j].dueIn

\* A thread sleeps no longer than its wait, nor than the delays that it knows;
\* and these are in the heap.
Early ==
    \A w \in Threads :
        /\ sleepFor[w] <= endIn[w]
        /\ knew[w] \subseteq DelayedTasks
        /\ \A i \in DOMAIN delayed :
             delayed[i].task \in knew[w] /\ delayed[i].dueIn >= 0
               => sleepFor[w] <= delayed[i].dueIn

Popping == {"peek", "peek_raced", "pop", "running"}

\* A thread has a deadline only while it sleeps.
Idle == \A w \in Threads : pc[w] \notin {"asleep", "woken"} => sleepFor[w] = 0

\* Only the owner of a single-threaded dispatcher gets beyond the first test
\* of run_one.
OwnerPops == singleThread => \A w \in Threads : pc[w] \in Popping => w = Owner

IndInv ==
    /\ TypeOK /\ NoRepeats /\ Apart /\ Sorted /\ Early /\ Idle
    /\ EnoughAwake /\ OwnerPops
-----------------------------------------------------------------------------
(* The sequences.                                                          *)

\* What the queue holds after a push, and after a pop.
LEMMA QueueChanges ==
    ASSUME TypeOK
    PROVE  /\ DOMAIN tasks = 1..Len(tasks) /\ Len(tasks) \in Nat
           /\ \A c \in Coros : tasks' = Append(tasks, c) =>
                /\ tasks' \in Seq(Coros) /\ Len(tasks') = Len(tasks) + 1
                /\ Queued' = Queued \cup {c}
                /\ c \notin Queued /\ NoRepeats =>
                     \A i, j \in DOMAIN tasks' : tasks'[i] = tasks'[j] => i = j
           /\ tasks # <<>> /\ tasks' = Tail(tasks) =>
                /\ tasks' \in Seq(Coros) /\ Len(tasks') = Len(tasks) - 1
                /\ Head(tasks) \in Queued
                /\ NoRepeats => /\ Queued' = Queued \ {Head(tasks)}
                                /\ \A i, j \in DOMAIN tasks' : tasks'[i] = tasks'[j] => i = j
<1>1. tasks \in Seq(Coros)
  BY DEF TypeOK
<1>2. DOMAIN tasks = 1..Len(tasks) /\ Len(tasks) \in Nat
  BY <1>1
<1>3. ASSUME NEW c \in Coros, tasks' = Append(tasks, c)
      PROVE  /\ tasks' \in Seq(Coros) /\ Len(tasks') = Len(tasks) + 1
             /\ Queued' = Queued \cup {c}
             /\ c \notin Queued /\ NoRepeats =>
                  \A i, j \in DOMAIN tasks' : tasks'[i] = tasks'[j] => i = j
  <2>1. /\ tasks' \in Seq(Coros) /\ Len(tasks') = Len(tasks) + 1
        /\ DOMAIN tasks' = 1..(Len(tasks) + 1)
        /\ \A i \in 1..Len(tasks) : tasks'[i] = tasks[i]
        /\ tasks'[Len(tasks) + 1] = c
    BY <1>1, <1>3, AppendProperties
  <2>2. Queued' = Queued \cup {c}
    BY <1>2, <2>1 DEF Queued
  <2>3. ASSUME c \notin Queued, NoRepeats
        PROVE  \A i, j \in DOMAIN tasks' : tasks'[i] = tasks'[j] => i = j
    BY <1>2, <2>1, <2>3 DEF Queued, NoRepeats
  <2> QED
    BY <2>1, <2>2, <2>3
<1>4. ASSUME tasks # <<>>, tasks' = Tail(tasks)
      PROVE  /\ tasks' \in Seq(Coros) /\ Len(tasks') = Len(tasks) - 1
             /\ Head(tasks) \in Queued
             /\ NoRepeats => /\ Queued' = Queued \ {Head(tasks)}
                             /\ \A i, j \in DOMAIN tasks' : tasks'[i] = tasks'[j] => i = j
  <2>1. /\ tasks' \in Seq(Coros) /\ Len(tasks') = Len(tasks) - 1
        /\ DOMAIN tasks' = 1..(Len(tasks) - 1)
        /\ \A i \in 1..(Len(tasks) - 1) : tasks'[i] = tasks[i + 1]
    BY <1>1, <1>4, HeadTailProperties
  <2>2. Head(tasks) = tasks[1] /\ 1 \in DOMAIN tasks /\ Len(tasks) >= 1
    BY <1>1, <1>4
  <2>3. ASSUME NoRepeats
        PROVE  /\ Queued' = Queued \ {Head(tasks)}
               /\ \A i, j \in DOMAIN tasks' : tasks'[i] = tasks'[j] => i = j
    <3>1. \A i \in 2..Len(tasks) : i - 1 \in 1..(Len(tasks) - 1) /\ tasks[i] = tasks'[i - 1]
      BY <1>2, <2>1
    <3>2. \A i \in DOMAIN tasks' : i + 1 \in DOMAIN tasks /\ tasks'[i] = tasks[i + 1]
      BY <1>2, <2>1
    <3>3. Queued' \subseteq Queued \ {Head(tasks)}
      BY <1>2, <2>1, <2>2, <2>3, <3>2 DEF Queued, NoRepeats
    <3>4. Queued \ {Head(tasks)} \subseteq Queued'
      BY <1>2, <2>1, <2>2, <3>1 DEF Queued
    <3>5. \A i, j \in DOMAIN tasks' : tasks'[i] = tasks'[j] => i = j
      BY <1>2, <2>1, <2>3, <3>2 DEF NoRepeats
    <3> QED
      BY <3>3, <3>4, <3>5
  <2> QED
    BY <2>1, <2>2, <2>3 DEF Queued
<1> QED
  BY <1>2, <1>3, <1>4

\* What the heap holds after pop_heap.
LEMMA HeapPops ==
    ASSUME TypeOK, NoRepeats, Sorted, delayed # <<>>, delayed' = Tail(delayed)
    PROVE  /\ delayed' \in Seq(Entries) /\ Head(delayed).task \in Coros
           /\ DelayedTasks' = DelayedTasks \ {Head(delayed).task}
           /\ Head(delayed).task \in DelayedTasks
           /\ \A i, j \in DOMAIN delayed' : delayed'[i].task = delayed'[j].task => i = j
           /\ Sorted'
           /\ \A i \in DOMAIN delayed' : \E j \in DOMAIN delayed : delayed'[i] = delayed[j]
<1>1. delayed \in Seq(Entries)
  BY DEF TypeOK
<1>2. DOMAIN delayed = 1..Len(delayed) /\ Len(delayed) \in Nat
  BY <1>1
<1>3. /\ delayed' \in Seq(Entries) /\ Len(delayed') = Len(delayed) - 1
      /\ DOMAIN delayed' = 1..(Len(delayed) - 1)
      /\ \A i \in 1..(Len(delayed) - 1) : delayed'[i] = delayed[i + 1]
  BY <1>1, HeadTailProperties
<1>4. /\ Head(delayed) = delayed[1] /\ 1 \in DOMAIN delayed /\ Len(delayed) >= 1
      /\ Head(delayed) \in Entries
  BY <1>1, HeadTailProperties
<1>5. \A i \in 2..Len(delayed) : i - 1 \in DOMAIN delayed' /\ delayed[i] = delayed'[i - 1]
  BY <1>2, <1>3
<1>6. \A i \in DOMAIN delayed' : i + 1 \in DOMAIN delayed /\ delayed'[i] = delayed[i + 1]
  BY <1>2, <1>3
<1>7. DelayedTasks' \subseteq DelayedTasks \ {Head(delayed).task}
  BY <1>2, <1>3, <1>4, <1>6 DEF DelayedTasks, NoRepeats
<1>8. DelayedTasks \ {Head(delayed).task} \subseteq DelayedTasks'
  <2> SUFFICES ASSUME NEW i \in DOMAIN delayed, delayed[i].task # Head(delayed).task
               PROVE  delayed[i].task \in DelayedTasks'
    BY DEF DelayedTasks
  <2>1. i \in 2..Len(delayed)
    BY <1>2, <1>4
  <2> QED
    BY <1>5, <2>1 DEF DelayedTasks
<1>9. \A i, j \in DOMAIN delayed' : delayed'[i].task = delayed'[j].task => i = j
  BY <1>2, <1>3, <1>6 DEF NoRepeats
<1>10. Sorted'
  BY <1>2, <1>3, <1>6 DEF Sorted
<1>11. Head(delayed).task \in Coros /\ Head(delayed).task \in DelayedTasks
  BY <1>4 DEF Entries, DelayedTasks
<1> QED
  BY <1>3, <1>6, <1>7, <1>8, <1>9, <1>10, <1>11

\* And after push_heap.
LEMMA HeapPushes ==
    ASSUME TypeOK, NoRepeats, Sorted, NEW c \in Coros, c \notin DelayedTasks,
           NEW d \in 1..MaxDelay, NEW i \in 0..Len(delayed), SortedPosition(i, d),
           delayed' = InsertAt(i, [task |-> c, dueIn |-> d])
    PROVE  /\ delayed' \in Seq(Entries)
           /\ DelayedTasks' = DelayedTasks \cup {c}
           /\ \A j, k \in DOMAIN delayed' : delayed'[j].task = delayed'[k].task => j = k
           /\ Sorted'
           /\ \A j \in DOMAIN delayed' :
                \/ delayed'[j] = [task |-> c, dueIn |-> d]
                \/ \E k \in DOMAIN delayed : delayed'[j] = delayed[k]
<1> DEFINE e == [task |-> c, dueIn |-> d]
           before == SubSeq(delayed, 1, i)
           behind == SubSeq(delayed, i + 1, Len(delayed))
           n == Len(delayed)
<1>1. delayed \in Seq(Entries) /\ DOMAIN delayed = 1..n /\ n \in Nat /\ i \in 0..n
  BY DEF TypeOK
<1>2. e \in Entries
  BY DispatcherAssumption DEF Entries, Late
<1>3. \A k \in 1..n : delayed[k] \in Entries
  BY <1>1
<1>4. /\ before \in Seq(Entries) /\ Len(before) = i
      /\ \A k \in 1..i : before[k] = delayed[k]
  BY <1>1, <1>3, SubSeqProperties
<1>5. /\ behind \in Seq(Entries) /\ Len(behind) = n - i
      /\ \A k \in 1..(n - i) : behind[k] = delayed[i + k]
  <2>1. \A k \in (i + 1)..n : delayed[k] \in Entries
    BY <1>1, <1>3
  <2>2. /\ behind \in Seq(Entries)
        /\ Len(behind) = IF i + 1 <= n THEN n - (i + 1) + 1 ELSE 0
        /\ \A k \in 1..(n - (i + 1) + 1) : behind[k] = delayed[(i + 1) + k - 1]
    BY <1>1, <2>1, SubSeqProperties
  <2> HIDE DEF behind, n
  <2>3. Len(behind) = n - i
    BY <1>1, <2>2
  <2>4. ASSUME NEW k \in 1..(n - i) PROVE behind[k] = delayed[i + k]
    <3>1. k \in 1..(n - (i + 1) + 1) /\ (i + 1) + k - 1 = i + k
      BY <1>1
    <3> QED
      BY <2>2, <3>1
  <2> QED
    BY <2>2, <2>3, <2>4
<1>6. /\ before \o <<e>> \in Seq(Entries) /\ Len(before \o <<e>>) = i + 1
      /\ \A k \in 1..i : (before \o <<e>>)[k] = delayed[k]
      /\ (before \o <<e>>)[i + 1] = e
  <2>1. <<e>> \in Seq(Entries) /\ Len(<<e>>) = 1 /\ <<e>>[1] = e
    BY <1>2
  <2> HIDE DEF before, e
  <2> QED
    BY <1>1, <1>4, <2>1, ConcatProperties
<1>7. /\ delayed' \in Seq(Entries) /\ Len(delayed') = n + 1
      /\ \A k \in 1..i : delayed'[k] = delayed[k]
      /\ delayed'[i + 1] = e
      /\ \A k \in (i + 2)..(n + 1) : delayed'[k] = delayed[k - 1]
  <2> DEFINE front == before \o <<e>>
  <2>1. delayed' = front \o behind
    BY DEF InsertAt
  <2>2. /\ front \in Seq(Entries) /\ Len(front) = i + 1
        /\ \A k \in 1..i : front[k] = delayed[k]
        /\ front[i + 1] = e
    BY <1>6
  <2> HIDE DEF before, behind, e, front
  <2>3. /\ delayed' \in Seq(Entries)
        /\ Len(delayed') = Len(front) + Len(behind)
        /\ \A k \in 1..(Len(front) + Len(behind)) :
             delayed'[k] = IF k <= Len(front) THEN front[k] ELSE behind[k - Len(front)]
    <3>1. front \in Seq(Entries) /\ behind \in Seq(Entries)
      BY <1>5, <2>2
    <3>2. /\ front \o behind \in Seq(Entries)
          /\ Len(front \o behind) = Len(front) + Len(behind)
          /\ \A k \in 1..(Len(front) + Len(behind)) :
               (front \o behind)[k] = IF k <= Len(front) THEN front[k] ELSE behind[k - Len(front)]
      BY <3>1, ConcatProperties
    <3> QED
      BY <2>1, <3>2
  <2> HIDE DEF n
  <2>4. \A k \in 1..(n + 1) : delayed'[k] = IF k <= i + 1 THEN front[k] ELSE behind[k - (i + 1)]
    <3>1. Len(front) = i + 1 /\ Len(behind) = n - i /\ (i + 1) + (n - i) = n + 1
      BY <1>1, <1>5, <2>2
    <3> QED
      BY <2>3, <3>1
  <2>5. \A k \in (i + 2)..(n + 1) : k - (i + 1) \in 1..(n - i) /\ i + (k - (i + 1)) = k - 1
    BY <1>1
  <2>6. ASSUME NEW k \in (i + 2)..(n + 1)
        PROVE  delayed'[k] = delayed[k - 1]
    <3>1. behind[k - (i + 1)] = delayed[i + (k - (i + 1))]
      BY <1>5, <2>5
    <3> QED
      BY <1>1, <2>4, <2>5, <3>1
  <2>7. /\ \A k \in 1..i : delayed'[k] = delayed[k]
        /\ delayed'[i + 1] = e
    BY <1>1, <2>2, <2>4
  <2>8. Len(delayed') = n + 1
    BY <1>1, <1>5, <2>2, <2>3
  <2> QED
    BY <2>3, <2>6, <2>7, <2>8
<1>8. DOMAIN delayed' = 1..(n + 1)
  BY <1>7
<1>9. /\ \A j \in 1..i : /\ delayed[j].dueIn <= d
      /\ \A j \in (i + 1)..n : delayed[j].dueIn >= d
  BY DEF SortedPosition
<1>10. \A k \in 1..n : delayed[k].task # c /\ delayed[k].task \in Coros /\ delayed[k].dueIn \in Int
  BY <1>1, <1>3, DispatcherAssumption, SMTT(30) DEF DelayedTasks, Entries, Late
<1>11. e.task = c /\ e.dueIn = d
  OBVIOUS
<1> HIDE DEF e
\* Each place of the new heap is that of the new element, or one of the old heap.
<1> DEFINE old(k) == IF k <= i THEN k ELSE k - 1
<1>12. \A k \in DOMAIN delayed' : k # i + 1 => old(k) \in 1..n /\ delayed'[k] = delayed[old(k)]
  BY <1>1, <1>7, <1>8
<1>13. \A k \in 1..n : \E j \in DOMAIN delayed' : j # i + 1 /\ old(j) = k
  <2> TAKE k \in 1..n
  <2>1. CASE k <= i
    <3>1. k \in DOMAIN delayed'
      BY <1>1, <1>8
    <3>2. k # i + 1 /\ old(k) = k
      BY <2>1
    <3> QED
      BY <3>1, <3>2
  <2>2. CASE k > i
    <3>1. k + 1 \in DOMAIN delayed' /\ k + 1 # i + 1 /\ old(k + 1) = k
      BY <1>1, <1>8, <2>2
    <3> QED
      BY <3>1
  <2> QED
    BY <2>1, <2>2
<1>14. DelayedTasks' = DelayedTasks \cup {c}
  <2>1. i + 1 \in DOMAIN delayed' /\ delayed'[i + 1].task = c
    BY <1>1, <1>7, <1>8, <1>11
  <2>2. ASSUME NEW j \in DOMAIN delayed'
        PROVE  delayed'[j].task \in DelayedTasks \cup {c}
    <3>1. CASE j = i + 1
      BY <2>1, <3>1
    <3>2. CASE j # i + 1
      <4>1. old(j) \in DOMAIN delayed /\ delayed'[j].task = delayed[old(j)].task
        BY <1>1, <1>12, <3>2
      <4> QED
        BY <4>1 DEF DelayedTasks
    <3> QED
      BY <3>1, <3>2
  <2>3. ASSUME NEW k \in DOMAIN delayed
        PROVE  delayed[k].task \in DelayedTasks'
    <3>1. PICK j \in DOMAIN delayed' : j # i + 1 /\ old(j) = k
      BY <1>1, <1>13
    <3>2. delayed'[j] = delayed[k]
      BY <1>12, <3>1
    <3> QED
      BY <3>2 DEF DelayedTasks
  <2>4. c \in DelayedTasks'
    BY <2>1 DEF DelayedTasks
  <2>5. DelayedTasks' \subseteq DelayedTasks \cup {c}
    BY <2>2 DEF DelayedTasks
  <2>6. DelayedTasks \subseteq DelayedTasks'
    BY <2>3 DEF DelayedTasks
  <2> QED
    BY <2>4, <2>5, <2>6
<1>15. \A j, k \in DOMAIN delayed' : delayed'[j].task = delayed'[k].task => j = k
  <2> TAKE j, k \in DOMAIN delayed'
  <2> HIDE DEF old
  <2>1. CASE j = i + 1 \/ k = i + 1
    <3>1. \A l \in DOMAIN delayed' : l # i + 1 => delayed'[l].task # c
      BY <1>10, <1>12
    <3> QED
      BY <1>7, <1>11, <2>1, <3>1
  <2>2. CASE j # i + 1 /\ k # i + 1
    <3>1. delayed'[j].task = delayed'[k].task => old(j) = old(k)
      BY <1>1, <1>12, <2>2 DEF NoRepeats
    <3>2. old(j) = old(k) => j = k
      BY <1>1, <1>8, <2>2 DEF old
    <3> QED
      BY <3>1, <3>2
  <2> QED
    BY <2>1, <2>2
<1>16. Sorted'
  <2> SUFFICES ASSUME NEW j \in DOMAIN delayed', NEW k \in DOMAIN delayed', j <= k
               PROVE  delayed'[j].dueIn <= delayed'[k].dueIn
    BY DEF Sorted
  <2>1. CASE j = i + 1 /\ k = i + 1
    BY <1>7, <1>11, <2>1
  <2>2. CASE j = i + 1 /\ k # i + 1
    BY <1>1, <1>7, <1>8, <1>9, <1>11, <1>12, <2>2, SMTT(30)
  <2>3. CASE j # i + 1 /\ k = i + 1
    BY <1>1, <1>7, <1>8, <1>9, <1>11, <1>12, <2>3
  <2>4. CASE j # i + 1 /\ k # i + 1
    <3>1. old(j) <= old(k) /\ old(j) \in DOMAIN delayed /\ old(k) \in DOMAIN delayed
      BY <1>1, <1>8, <1>12, <2>4
    <3> QED
      BY <1>12, <2>4, <3>1 DEF Sorted
  <2> QED
    BY <2>1, <2>2, <2>3, <2>4
<1>17. \A j \in DOMAIN delayed' :
         delayed'[j] = e \/ \E k \in DOMAIN delayed : delayed'[j] = delayed[k]
  BY <1>1, <1>7, <1>8, <1>12
<1> QED
  BY <1>7, <1>14, <1>15, <1>16, <1>17 DEF e
-----------------------------------------------------------------------------
(* The steps of one thread that leave the containers and the coroutines    *)
(* alone.                                                                  *)

Calls(w) ==
    \/ WaitLocked(w) \/ WakeUp(w) \/ WokenLocked(w) \/ RunOne(w)
    \/ PeekedSomething(w) \/ PeekedNothing(w) \/ PopNothing(w)
    \/ \E d \in 0..MaxWait : WaitTasksFor(w, d)

\* The locals of a thread, as Early wants them.
LocalsEarly(w) ==
    /\ sleepFor[w] <= endIn[w]
    /\ knew[w] \subseteq DelayedTasks
    /\ \A i \in DOMAIN delayed :
         delayed[i].task \in knew[w] /\ delayed[i].dueIn >= 0
           => sleepFor[w] <= delayed[i].dueIn

ThreadMove(w, p) ==
    /\ UnchangedQueues
    /\ pc[w] # "running" /\ p \in ThreadPCs \ {"running"}
    /\ pc' = [pc EXCEPT ![w] = p]
    /\ p = "asleep" => tasks = <<>>
    /\ singleThread /\ p \in Popping => w = Owner
    /\ endIn' \in [Threads -> 0..MaxWait] /\ sleepFor' \in [Threads -> 0..MaxWait]
    /\ result' \in [Threads -> BOOLEAN] /\ knew' \in [Threads -> SUBSET Coros]
    /\ \A v \in Threads \ {w} :
         endIn'[v] = endIn[v] /\ sleepFor'[v] = sleepFor[v] /\ knew'[v] = knew[v]
    /\ LocalsEarly(w)'
    /\ p \notin {"asleep", "woken"} => sleepFor'[w] = 0

\* A call that returns is a move of this shape.
LEMMA ReturnMoves ==
    ASSUME IndInv, NEW w \in Threads, NEW value \in BOOLEAN, pc[w] # "running",
           UnchangedQueues, Return(w, value)
    PROVE  ThreadMove(w, "out")
<1>1. endIn' = [endIn EXCEPT ![w] = 0] /\ sleepFor' = [sleepFor EXCEPT ![w] = 0]
      /\ knew' = [knew EXCEPT ![w] = {}] /\ result' = [result EXCEPT ![w] = value]
      /\ pc' = [pc EXCEPT ![w] = "out"]
  BY DEF Return, Goto
<1>2. /\ endIn \in [Threads -> 0..MaxWait] /\ sleepFor \in [Threads -> 0..MaxWait]
      /\ result \in [Threads -> BOOLEAN] /\ knew \in [Threads -> SUBSET Coros]
  BY DEF IndInv, TypeOK
<1>3. /\ endIn' \in [Threads -> 0..MaxWait] /\ sleepFor' \in [Threads -> 0..MaxWait]
      /\ result' \in [Threads -> BOOLEAN] /\ knew' \in [Threads -> SUBSET Coros]
  BY <1>1, <1>2, DispatcherAssumption
<1>4. endIn'[w] = 0 /\ sleepFor'[w] = 0 /\ knew'[w] = {}
  BY <1>1, <1>2
<1>5. LocalsEarly(w)'
  BY <1>4 DEF LocalsEarly
<1>6. \A v \in Threads \ {w} :
        endIn'[v] = endIn[v] /\ sleepFor'[v] = sleepFor[v] /\ knew'[v] = knew[v]
  BY <1>1, <1>2
<1> QED
  BY <1>1, <1>3, <1>5, <1>6 DEF ThreadMove, ThreadPCs, Popping

\* So is one that moves on and keeps its locals.
LEMMA KeepMoves ==
    ASSUME IndInv, NEW w \in Threads, NEW p \in ThreadPCs \ {"running"}, pc[w] # "running",
           UnchangedQueues, Goto(w, p), UNCHANGED <<endIn, sleepFor, knew>>,
           result' \in [Threads -> BOOLEAN],
           pc[w] \in {"asleep", "woken"} => p \in {"asleep", "woken"},
           p = "asleep" => tasks = <<>>, singleThread /\ p \in Popping => w = Owner
    PROVE  ThreadMove(w, p)
<1>1. LocalsEarly(w)'
  BY DEF IndInv, Early, LocalsEarly, UnchangedQueues, DelayedTasks
<1>2. p \notin {"asleep", "woken"} => sleepFor'[w] = 0
  BY DEF IndInv, Idle
<1> QED
  BY <1>1, <1>2 DEF ThreadMove, Goto, IndInv, TypeOK

\* What a thread that goes to sleep waits for.
LEMMA LocalEndFits ==
    ASSUME IndInv, NEW w \in Threads, ~IsTaskAvailable, endIn[w] > 0
    PROVE  /\ LocalEnd(w) \in 0..MaxWait /\ LocalEnd(w) <= endIn[w]
           /\ \A i \in DOMAIN delayed : LocalEnd(w) <= delayed[i].dueIn
           /\ tasks = <<>>
<1>1. /\ delayed \in Seq(Entries) /\ endIn[w] \in 0..MaxWait /\ MaxWait \in Nat
      /\ MaxLate \in Nat /\ MaxDelay \in Nat
  BY DispatcherAssumption DEF IndInv, TypeOK
<1>2. ASSUME delayed # <<>>
      PROVE  /\ 1 \in DOMAIN delayed /\ Head(delayed) = delayed[1]
             /\ delayed[1].dueIn \in Int /\ delayed[1].dueIn > 0
             /\ \A i \in DOMAIN delayed : delayed[i].dueIn \in Int /\ delayed[1].dueIn <= delayed[i].dueIn
  <2>1. 1 \in DOMAIN delayed /\ Head(delayed) = delayed[1] /\ DOMAIN delayed = 1..Len(delayed)
    BY <1>1, <1>2
  <2>2. \A i \in DOMAIN delayed : delayed[i].dueIn \in Int
    <3>1. \A i \in DOMAIN delayed : delayed[i] \in Entries
      BY <1>1, <2>1
    <3> QED
      BY <1>1, <3>1 DEF Entries, Late
  <2>3. \A i \in DOMAIN delayed : delayed[1].dueIn <= delayed[i].dueIn
    BY <1>1, <2>1 DEF IndInv, Sorted
  <2> QED
    BY <1>2, <2>1, <2>2, <2>3 DEF IsTaskAvailable, FrontIsDue
<1>3. tasks = <<>>
  BY DEF IsTaskAvailable
<1>4. CASE delayed = <<>>
  BY <1>1, <1>3, <1>4 DEF LocalEnd
<1>5. CASE delayed # <<>>
  BY <1>1, <1>2, <1>3, <1>5 DEF LocalEnd
<1> QED
  BY <1>4, <1>5

\* So is a round of the wait.
LEMMA RoundMoves ==
    ASSUME IndInv, NEW w \in Threads, pc[w] # "running", UnchangedQueues, WaitRound(w)
    PROVE  \E p \in ThreadPCs : ThreadMove(w, p)
<1>1. CASE Return(w, FALSE) \/ Return(w, TRUE)
  BY <1>1, ReturnMoves DEF ThreadPCs
<1>2. CASE /\ endIn[w] > 0 /\ ~IsTaskAvailable
           /\ sleepFor' = [sleepFor EXCEPT ![w] = LocalEnd(w)]
           /\ knew' = [knew EXCEPT ![w] = DelayedTasks]
           /\ Goto(w, "asleep") /\ UNCHANGED <<endIn, result>>
  <2>1. /\ LocalEnd(w) \in 0..MaxWait /\ LocalEnd(w) <= endIn[w]
        /\ \A i \in DOMAIN delayed : LocalEnd(w) <= delayed[i].dueIn
        /\ tasks = <<>>
    BY <1>2, LocalEndFits
  <2>2. /\ endIn \in [Threads -> 0..MaxWait] /\ sleepFor \in [Threads -> 0..MaxWait]
        /\ result \in [Threads -> BOOLEAN] /\ knew \in [Threads -> SUBSET Coros]
    BY DEF IndInv, TypeOK
  <2>3. DelayedTasks \subseteq Coros
    BY DEF IndInv, Apart
  <2>4. /\ endIn' \in [Threads -> 0..MaxWait] /\ sleepFor' \in [Threads -> 0..MaxWait]
        /\ result' \in [Threads -> BOOLEAN] /\ knew' \in [Threads -> SUBSET Coros]
    BY <1>2, <2>1, <2>2, <2>3
  <2>5. endIn'[w] = endIn[w] /\ sleepFor'[w] = LocalEnd(w) /\ knew'[w] = DelayedTasks
    BY <1>2, <2>2
  <2>6. LocalsEarly(w)'
    BY <2>1, <2>5 DEF LocalsEarly, UnchangedQueues, DelayedTasks
  <2>7. \A v \in Threads \ {w} :
          endIn'[v] = endIn[v] /\ sleepFor'[v] = sleepFor[v] /\ knew'[v] = knew[v]
    BY <1>2, <2>2
  <2>8. ThreadMove(w, "asleep")
    BY <1>2, <2>1, <2>4, <2>6, <2>7 DEF ThreadMove, ThreadPCs, Popping, Goto
  <2> QED
    BY <2>8 DEF ThreadPCs
<1> QED
  BY <1>1, <1>2 DEF WaitRound

\* And so are the other steps inside a call.
LEMMA CallsMove ==
    ASSUME IndInv, NEW w \in Threads, Calls(w)
    PROVE  \E p \in ThreadPCs : ThreadMove(w, p)
<1>1. result \in [Threads -> BOOLEAN] /\ (singleThread /\ pc[w] \in Popping => w = Owner)
  BY DEF IndInv, TypeOK, OwnerPops
<1>2. CASE WaitLocked(w)
  BY <1>2, RoundMoves DEF WaitLocked
<1>3. CASE WakeUp(w)
  <2>1. ThreadMove(w, "woken")
    BY <1>1, <1>3, KeepMoves DEF WakeUp, ThreadPCs, Popping
  <2> QED
    BY <2>1 DEF ThreadPCs
<1>4. CASE WokenLocked(w)
  <2>1. pc[w] # "running" /\ UnchangedQueues
    BY <1>4 DEF WokenLocked
  <2>2. CASE Return(w, TRUE)
    BY <2>1, <2>2, ReturnMoves DEF ThreadPCs
  <2>3. CASE ~IsTaskAvailable /\ Goto(w, "asleep") /\ UNCHANGED <<endIn, sleepFor, result, knew>>
    <3>1. ThreadMove(w, "asleep")
      BY <1>1, <2>1, <2>3, KeepMoves DEF ThreadPCs, Popping, IsTaskAvailable
    <3> QED
      BY <3>1 DEF ThreadPCs
  <2>4. CASE WaitRound(w)
    BY <2>1, <2>4, RoundMoves
  <2> QED
    BY <1>4, <2>2, <2>3, <2>4 DEF WokenLocked
<1>5. CASE RunOne(w)
  <2>1. pc[w] = "out" /\ UnchangedQueues
    BY <1>5 DEF RunOne
  <2>2. CASE Return(w, FALSE)
    BY <2>1, <2>2, ReturnMoves DEF ThreadPCs
  <2>3. CASE ~(singleThread /\ w # Owner) /\ Goto(w, "peek")
             /\ result' = [result EXCEPT ![w] = FALSE] /\ UNCHANGED <<endIn, sleepFor, knew>>
    <3>1. ThreadMove(w, "peek")
      BY <1>1, <2>1, <2>3, KeepMoves DEF ThreadPCs, Popping
    <3> QED
      BY <3>1 DEF ThreadPCs
  <2> QED
    BY <1>5, <2>2, <2>3 DEF RunOne
<1>6. CASE PeekedSomething(w)
  <2>1. ThreadMove(w, "pop")
    BY <1>1, <1>6, KeepMoves DEF PeekedSomething, ThreadPCs, Popping
  <2> QED
    BY <2>1 DEF ThreadPCs
<1>7. CASE PeekedNothing(w) \/ PopNothing(w)
  BY <1>7, ReturnMoves DEF PeekedNothing, PopNothing, ThreadPCs
<1>8. ASSUME NEW d \in 0..MaxWait, WaitTasksFor(w, d)
      PROVE  ThreadMove(w, "wait_lock")
  <2>1. /\ pc[w] = "out" /\ UnchangedQueues /\ UNCHANGED <<sleepFor, knew>>
        /\ pc' = [pc EXCEPT ![w] = "wait_lock"]
        /\ endIn' = [endIn EXCEPT ![w] = d] /\ result' = [result EXCEPT ![w] = FALSE]
    BY <1>8 DEF WaitTasksFor, Goto
  <2>2. sleepFor[w] <= d /\ LocalsEarly(w)
    <3>1. sleepFor[w] = 0
      BY <2>1 DEF IndInv, Idle
    <3> QED
      BY <3>1 DEF IndInv, Early, LocalsEarly
  <2>3. endIn'[w] = d /\ endIn' \in [Threads -> 0..MaxWait] /\ \A v \in Threads \ {w} : endIn'[v] = endIn[v]
    BY <2>1 DEF IndInv, TypeOK
  <2>4. LocalsEarly(w)'
    BY <2>1, <2>2, <2>3 DEF LocalsEarly, UnchangedQueues, DelayedTasks
  <2>5. sleepFor'[w] = 0
    BY <2>1 DEF IndInv, Idle
  <2> QED
    BY <1>1, <2>1, <2>3, <2>4, <2>5 DEF ThreadMove, ThreadPCs, Popping, IndInv, TypeOK
<1> QED
  BY <1>2, <1>3, <1>4, <1>5, <1>6, <1>7, <1>8 DEF Calls, ThreadPCs
-----------------------------------------------------------------------------
(* The steps of a coroutine.                                               *)

\* c is no longer where it ran, and the thread it ran on returns.
CoMove(c) ==
    /\ c \in foreign \cup OnThreads
    /\ running' = [w \in Threads |-> IF running[w] = c THEN None ELSE running[w]]
    /\ result' \in [Threads -> BOOLEAN]
    /\ pc' \in [Threads -> ThreadPCs]
    /\ \A w \in Threads : pc'[w] = "running" <=> running'[w] # None
    /\ \A w \in Threads : pc'[w] = "asleep" => pc[w] = "asleep"
    /\ \A w \in Threads : pc'[w] \in Popping => pc[w] \in Popping
    /\ \A w \in Threads : pc'[w] \notin {"asleep", "woken"} => pc[w] \notin {"asleep", "woken"}
    /\ UNCHANGED <<singleThread, endIn, sleepFor, knew>>

\* Where the threads are after their coroutine has left them, a push or a pop
\* has raced with those that look, and it has woken one of them or none.
LEMMA ReturningPCs ==
    ASSUME TypeOK, NEW c \in Coros, NEW woken \in SUBSET Sleepers,
           \/ pc' = [w \in Threads |-> IF w \in woken THEN "woken" ELSE Racing(Returning(c))[w]]
           \/ pc' = Racing(Returning(c))
           \/ pc' = Returning(c),
           running' = [w \in Threads |-> IF running[w] = c THEN None ELSE running[w]]
    PROVE  /\ pc' \in [Threads -> ThreadPCs]
           /\ \A w \in Threads : pc'[w] = "running" <=> running'[w] # None
           /\ \A w \in Threads : pc'[w] = "asleep" => pc[w] = "asleep"
           /\ \A w \in Threads : pc'[w] \in Popping => pc[w] \in Popping
           /\ \A w \in Threads : pc'[w] \notin {"asleep", "woken"} => pc[w] \notin {"asleep", "woken"}
<1>1. /\ \A w \in Threads : pc[w] \in ThreadPCs
      /\ \A w \in Threads : pc[w] = "running" <=> running[w] # None
      /\ c # None
  BY DispatcherAssumption DEF TypeOK
<1>2. \A w \in Threads : Returning(c)[w] = IF running[w] = c THEN "out" ELSE pc[w]
  BY DEF Returning
<1>3. \A w \in Threads : Racing(Returning(c))[w]
        = IF Returning(c)[w] = "peek" THEN "peek_raced" ELSE Returning(c)[w]
  BY DEF Racing
<1>4. DOMAIN pc' = Threads /\ pc' = [w \in Threads |-> pc'[w]]
  BY DEF Returning, Racing
<1>5. ASSUME NEW w \in Threads
      PROVE  \/ pc'[w] = IF running[w] = c THEN "out" ELSE pc[w]
             \/ pc[w] = "peek" /\ pc'[w] = "peek_raced"
             \/ pc[w] = "asleep" /\ pc'[w] = "woken"
  BY <1>1, <1>2, <1>3 DEF Sleepers
<1>6. \A w \in Threads : running'[w] = IF running[w] = c THEN None ELSE running[w]
  OBVIOUS
<1>7. \A w \in Threads : pc'[w] \in ThreadPCs
  BY <1>1, <1>5 DEF ThreadPCs
<1>8. ASSUME NEW w \in Threads
      PROVE  /\ pc'[w] = "running" <=> running'[w] # None
             /\ pc'[w] = "asleep" => pc[w] = "asleep"
             /\ pc'[w] \in Popping => pc[w] \in Popping
             /\ pc'[w] \notin {"asleep", "woken"} => pc[w] \notin {"asleep", "woken"}
  BY <1>1, <1>5, <1>6 DEF Popping
<1> QED
  BY <1>4, <1>7, <1>8

\* Wherever it ran, what its leaving changes is the same.
LEMMA LeavesPlace ==
    ASSUME IndInv, NEW c \in Coros, Leaves(c)
    PROVE  /\ c \in foreign \cup OnThreads
           /\ foreign' = foreign \ {c}
           /\ running' = [w \in Threads |-> IF running[w] = c THEN None ELSE running[w]]
           /\ result' \in [Threads -> BOOLEAN]
<1>1. /\ running \in [Threads -> Coros \cup {None}] /\ result \in [Threads -> BOOLEAN]
      /\ None \notin Coros
  BY DispatcherAssumption DEF IndInv, TypeOK
<1>2. CASE c \in foreign /\ foreign' = foreign \ {c} /\ UNCHANGED <<running, result>>
  <2>1. \A w \in Threads : running[w] # c
    BY <1>1, <1>2 DEF IndInv, Apart, OnThreads
  <2> QED
    BY <1>1, <1>2, <2>1
<1>3. ASSUME NEW w \in Threads, running[w] = c, running' = [running EXCEPT ![w] = None],
             result' = [result EXCEPT ![w] = TRUE], UNCHANGED foreign
      PROVE  /\ c \in foreign \cup OnThreads
             /\ foreign' = foreign \ {c}
             /\ running' = [v \in Threads |-> IF running[v] = c THEN None ELSE running[v]]
             /\ result' \in [Threads -> BOOLEAN]
  <2>1. c \in OnThreads
    BY <1>1, <1>3 DEF OnThreads
  <2>2. c \notin foreign
    BY <2>1 DEF IndInv, Apart
  <2>3. \A v \in Threads : running[v] = c => v = w
    BY <1>1, <1>3 DEF IndInv, NoRepeats
  <2> QED
    BY <1>1, <1>3, <2>1, <2>2, <2>3
<1> QED
  BY <1>2, <1>3 DEF Leaves

\* Every way in which a coroutine can leave is a move of this shape.
LEMMA CoMoves ==
    ASSUME IndInv, NEW c \in Coros
    PROVE  /\ CoDispatch(c) => CoMove(c) /\ foreign' = foreign \ {c}
           /\ \A d \in 1..MaxDelay : CoDelay(c, d) => CoMove(c) /\ foreign' = foreign \ {c}
           /\ Finish(c) => CoMove(c) /\ foreign' = foreign \ {c}
           /\ GoElsewhere(c) => CoMove(c) /\ foreign' = foreign \cup {c} /\ c \in OnThreads
<1>1. TypeOK /\ {} \subseteq Sleepers
  BY DEF IndInv
<1>3. ASSUME CoDispatch(c)
      PROVE  CoMove(c) /\ foreign' = foreign \ {c}
  <2>1. Leaves(c) /\ AddTask(c) /\ UNCHANGED <<singleThread, endIn, sleepFor, knew>>
    BY <1>3 DEF CoDispatch
  <2>2. CASE pc' = Racing(Returning(c))
    BY <1>1, <2>1, <2>2, LeavesPlace, ReturningPCs DEF CoMove
  <2>3. ASSUME NEW v \in Sleepers, pc' = Racing([Returning(c) EXCEPT ![v] = "woken"])
        PROVE  CoMove(c)
    <3>1. {v} \subseteq Sleepers /\ v \in Threads
      BY DEF Sleepers
    <3>2. pc' = [w \in Threads |-> IF w \in {v} THEN "woken" ELSE Racing(Returning(c))[w]]
      BY <2>3, <3>1 DEF Racing, Returning
    <3> QED
      BY <1>1, <2>1, <3>1, <3>2, LeavesPlace, ReturningPCs, ZenonT(60) DEF CoMove
  <2> QED
    BY <2>1, <2>2, <2>3, LeavesPlace DEF AddTask
<1>4. ASSUME NEW d \in 1..MaxDelay, CoDelay(c, d)
      PROVE  CoMove(c) /\ foreign' = foreign \ {c}
  <2>1. /\ Leaves(c) /\ pc' = Racing(Returning(c))
        /\ UNCHANGED <<singleThread, endIn, sleepFor, knew>>
    BY <1>4 DEF CoDelay, AddDelayTask
  <2> QED
    BY <1>1, <2>1, LeavesPlace, ReturningPCs DEF CoMove
<1>5. ASSUME Finish(c)
      PROVE  CoMove(c) /\ foreign' = foreign \ {c}
  <2>1. /\ Leaves(c) /\ pc' = Returning(c)
        /\ UNCHANGED <<singleThread, endIn, sleepFor, knew>>
    BY <1>5 DEF Finish
  <2> QED
    BY <1>1, <2>1, LeavesPlace, ReturningPCs DEF CoMove
<1>6. ASSUME GoElsewhere(c)
      PROVE  CoMove(c) /\ foreign' = foreign \cup {c} /\ c \in OnThreads
  <2>1. PICK w \in Threads : /\ running[w] = c
                             /\ running' = [running EXCEPT ![w] = None]
                             /\ result' = [result EXCEPT ![w] = TRUE]
    BY <1>6 DEF GoElsewhere
  <2>2. /\ running \in [Threads -> Coros \cup {None}] /\ result \in [Threads -> BOOLEAN]
        /\ None \notin Coros
    BY DispatcherAssumption DEF IndInv, TypeOK
  <2>3. \A v \in Threads : running[v] = c => v = w
    BY <2>1, <2>2 DEF IndInv, NoRepeats
  <2>4. running' = [v \in Threads |-> IF running[v] = c THEN None ELSE running[v]]
    BY <2>1, <2>2, <2>3
  <2>5. c \in OnThreads /\ result' \in [Threads -> BOOLEAN]
    BY <2>1, <2>2 DEF OnThreads
  <2>6. /\ pc' = Returning(c) /\ foreign' = foreign \cup {c}
        /\ UNCHANGED <<singleThread, endIn, sleepFor, knew>>
    BY <1>6 DEF GoElsewhere
  <2> QED
    BY <1>1, <2>4, <2>5, <2>6, ReturningPCs DEF CoMove
<1> QED
  BY <1>3, <1>4, <1>5, <1>6

\* What the threads run after a coroutine has left.
LEMMA LeavesThreads ==
    ASSUME IndInv, NEW c \in Coros, CoMove(c)
    PROVE  /\ running' \in [Threads -> Coros \cup {None}]
           /\ OnThreads' = OnThreads \ {c}
           /\ c \notin done \cup Queued \cup DelayedTasks
           /\ \A v, w \in Threads : running'[v] = running'[w] /\ running'[v] # None => v = w
<1>1. running \in [Threads -> Coros \cup {None}] /\ None \notin Coros
  BY DispatcherAssumption DEF IndInv, TypeOK
<1>2. \A w \in Threads : running'[w] = IF running[w] = c THEN None ELSE running[w]
  BY DEF CoMove
<1>3. running' \in [Threads -> Coros \cup {None}]
  BY <1>1 DEF CoMove
<1>4. OnThreads' = OnThreads \ {c}
  BY <1>1, <1>2 DEF OnThreads
<1>5. c \notin done \cup Queued \cup DelayedTasks
  BY DEF CoMove, IndInv, Apart
<1>6. \A v, w \in Threads : running'[v] = running'[w] /\ running'[v] # None => v = w
  BY <1>1, <1>2 DEF IndInv, NoRepeats
<1> QED
  BY <1>3, <1>4, <1>5, <1>6

\* A thread that resumes c runs nothing else.
ResumeMove(w, c) ==
    /\ pc[w] = "pop"
    /\ c \in Coros /\ running' = [running EXCEPT ![w] = c]
    /\ knew' = [v \in Threads |-> knew[v] \ {c}]
    /\ pc' = [v \in Threads |-> IF v = w THEN "running"
                                ELSE IF pc[v] = "peek" THEN "peek_raced" ELSE pc[v]]
    /\ UNCHANGED <<singleThread, foreign, done, endIn, sleepFor, result>>

\* The two ways to resume a coroutine.
LEMMA ResumeMoves ==
    ASSUME IndInv, NEW w \in Threads
    PROVE  /\ PopDelayed(w) => /\ ResumeMove(w, Head(delayed).task) /\ delayed # <<>>
                               /\ delayed' = Tail(delayed) /\ UNCHANGED tasks
           /\ PopTask(w) => /\ ResumeMove(w, Head(tasks)) /\ tasks # <<>>
                            /\ tasks' = Tail(tasks) /\ UNCHANGED delayed
<1>1. ASSUME NEW c \in Coros, pc[w] = "pop", Resume(w, c),
             UNCHANGED <<singleThread, foreign, done, endIn, sleepFor, result>>
      PROVE  ResumeMove(w, c)
  <2>1. pc' = Racing([pc EXCEPT ![w] = "running"]) /\ pc \in [Threads -> ThreadPCs]
    BY <1>1 DEF Resume, IndInv, TypeOK
  <2>2. \A v \in Threads : [pc EXCEPT ![w] = "running"][v] = IF v = w THEN "running" ELSE pc[v]
    BY <2>1
  <2> QED
    BY <1>1, <2>1, <2>2 DEF Resume, ResumeMove, Racing
<1>2. delayed # <<>> => Head(delayed) \in Entries
  BY DEF IndInv, TypeOK
<1>3. tasks # <<>> => Head(tasks) \in Coros
  BY DEF IndInv, TypeOK
<1> QED
  BY <1>1, <1>2, <1>3 DEF PopDelayed, PopTask, FrontIsDue, Entries

\* Resuming puts the coroutine on the thread.
LEMMA ResumesOnThread ==
    ASSUME IndInv, NEW w \in Threads, NEW c, ResumeMove(w, c), c \notin OnThreads
    PROVE  /\ running' \in [Threads -> Coros \cup {None}]
           /\ pc' \in [Threads -> ThreadPCs]
           /\ \A v \in Threads : pc'[v] = "running" <=> running'[v] # None
           /\ OnThreads' = OnThreads \cup {c}
           /\ \A u, v \in Threads : running'[u] = running'[v] /\ running'[u] # None => u = v
<1>1. /\ running \in [Threads -> Coros \cup {None}] /\ None \notin Coros
      /\ pc \in [Threads -> ThreadPCs]
      /\ \A v \in Threads : pc[v] = "running" <=> running[v] # None
  BY DispatcherAssumption DEF IndInv, TypeOK
<1>2. running[w] = None /\ c \in Coros
  BY <1>1 DEF ResumeMove
<1>3. \A v \in Threads : running'[v] = IF v = w THEN c ELSE running[v]
  BY <1>1 DEF ResumeMove
<1>4. running' \in [Threads -> Coros \cup {None}]
  BY <1>1, <1>2 DEF ResumeMove
<1>5. \A v \in Threads : pc'[v] = IF v = w THEN "running"
                                  ELSE IF pc[v] = "peek" THEN "peek_raced" ELSE pc[v]
  BY DEF ResumeMove
<1>6. pc' \in [Threads -> ThreadPCs]
  BY <1>1 DEF ResumeMove, ThreadPCs
<1>7. \A v \in Threads : pc'[v] = "running" <=> running'[v] # None
  BY <1>1, <1>2, <1>3, <1>5
<1>8. OnThreads' = OnThreads \cup {c}
  BY <1>1, <1>2, <1>3 DEF OnThreads
<1>9. \A u, v \in Threads : running'[u] = running'[v] /\ running'[u] # None => u = v
  BY <1>1, <1>2, <1>3 DEF IndInv, NoRepeats, OnThreads
<1> QED
  BY <1>4, <1>6, <1>7, <1>8, <1>9
-----------------------------------------------------------------------------
(* Every step keeps IndInv.                                                *)

\* Without a push, nothing that wakes threads up makes them too few.
LEMMA StillEnough ==
    ASSUME IndInv, pc' \in [Threads -> ThreadPCs], Len(tasks') \in Nat, Len(tasks') <= Len(tasks),
           \A w \in Threads : pc'[w] = "asleep" => pc[w] = "asleep"
    PROVE  EnoughAwake'
<1> DEFINE awake == Threads \ Sleepers
<1>1. Sleepers' \subseteq Sleepers /\ awake \subseteq awake'
  BY DEF Sleepers
<1>2. IsFiniteSet(awake) /\ IsFiniteSet(awake')
  BY DispatcherAssumption, FS_Subset DEF Sleepers
<1>3. Cardinality(awake) <= Cardinality(awake') /\ Cardinality(awake) \in Nat /\ Cardinality(awake') \in Nat
  BY <1>1, <1>2, FS_Subset, FS_CardinalityType
<1>4. Len(tasks) \in Nat
  BY DEF IndInv, TypeOK
<1>5. Sleepers # {} => Len(tasks) <= Cardinality(awake)
  BY DEF IndInv, EnoughAwake
<1> HIDE DEF awake
<1>6. Sleepers' # {} => Len(tasks') <= Cardinality(awake')
  BY <1>1, <1>3, <1>4, <1>5
<1> QED
  BY <1>6 DEF EnoughAwake, awake

\* A step of a thread that leaves the containers alone.
LEMMA MoveKeeps ==
    ASSUME IndInv, NEW w \in Threads, NEW p \in ThreadPCs, ThreadMove(w, p)
    PROVE  IndInv'
<1>1. pc' \in [Threads -> ThreadPCs] /\ \A v \in Threads : pc'[v] = IF v = w THEN p ELSE pc[v]
  BY DEF ThreadMove, IndInv, TypeOK
<1>2. UNCHANGED <<singleThread, tasks, delayed, foreign, done, running>>
  BY DEF ThreadMove, UnchangedQueues
<1>3. UNCHANGED <<Queued, DelayedTasks, OnThreads>>
  BY <1>2 DEF Queued, DelayedTasks, OnThreads
<1>4. TypeOK'
  BY <1>1, <1>2 DEF ThreadMove, IndInv, TypeOK
<1>5. NoRepeats' /\ Apart' /\ Sorted'
  BY <1>2, <1>3 DEF IndInv, NoRepeats, Apart, Sorted
<1>6. Early'
  BY <1>2, <1>3 DEF IndInv, Early, ThreadMove, LocalsEarly
<1>7. Idle'
  BY <1>1 DEF IndInv, Idle, ThreadMove
<1>8. EnoughAwake'
  <2>1. CASE p = "asleep"
    <3>1. Len(tasks') = 0
      BY <1>2, <2>1 DEF ThreadMove
    <3>2. Cardinality(Threads \ Sleepers') \in Nat
      BY DispatcherAssumption, FS_Subset, FS_CardinalityType
    <3> QED
      BY <3>1, <3>2 DEF EnoughAwake
  <2>2. CASE p # "asleep"
    <3>1. \A v \in Threads : pc'[v] = "asleep" => pc[v] = "asleep"
      BY <1>1, <2>2
    <3>2. Len(tasks') \in Nat /\ Len(tasks') <= Len(tasks)
      BY <1>2 DEF IndInv, TypeOK
    <3> QED
      BY <1>1, <3>1, <3>2, StillEnough
  <2> QED
    BY <2>1, <2>2
<1>9. OwnerPops'
  BY <1>1, <1>2 DEF IndInv, OwnerPops, ThreadMove
<1> QED
  BY <1>4, <1>5, <1>6, <1>7, <1>8, <1>9 DEF IndInv

\* What a step that resumes c keeps, whichever container c came from.
LEMMA ResumeKeeps ==
    ASSUME IndInv, NEW w \in Threads, NEW c, ResumeMove(w, c), c \notin OnThreads,
           tasks' \in Seq(Coros), Len(tasks') <= Len(tasks), delayed' \in Seq(Entries),
           DelayedTasks' = DelayedTasks \ {c},
           \A i \in DOMAIN delayed' : \E j \in DOMAIN delayed : delayed'[i] = delayed[j]
    PROVE  TypeOK' /\ Early' /\ Idle' /\ EnoughAwake' /\ OwnerPops'
<1>1. /\ running' \in [Threads -> Coros \cup {None}]
      /\ pc' \in [Threads -> ThreadPCs]
      /\ \A v \in Threads : pc'[v] = "running" <=> running'[v] # None
  BY ResumesOnThread
<1>2. UNCHANGED <<singleThread, foreign, done, endIn, sleepFor, result>>
  BY DEF ResumeMove
<1>3. knew' \in [Threads -> SUBSET Coros] /\ \A v \in Threads : knew'[v] = knew[v] \ {c}
  BY DEF ResumeMove, IndInv, TypeOK
<1>4. \A v \in Threads : pc'[v] = IF v = w THEN "running"
                                  ELSE IF pc[v] = "peek" THEN "peek_raced" ELSE pc[v]
  BY DEF ResumeMove
<1>5. pc[w] = "pop"
  BY DEF ResumeMove
<1>6. TypeOK'
  BY <1>1, <1>2, <1>3 DEF IndInv, TypeOK
<1>7. Early'
  <2> SUFFICES ASSUME NEW v \in Threads
               PROVE  /\ sleepFor[v] <= endIn[v]
                      /\ knew'[v] \subseteq DelayedTasks'
                      /\ \A i \in DOMAIN delayed' :
                           delayed'[i].task \in knew'[v] /\ delayed'[i].dueIn >= 0
                             => sleepFor[v] <= delayed'[i].dueIn
    BY <1>2 DEF Early
  <2>1. sleepFor[v] <= endIn[v] /\ knew[v] \subseteq DelayedTasks
    BY DEF IndInv, Early
  <2>2. ASSUME NEW i \in DOMAIN delayed', delayed'[i].task \in knew'[v], delayed'[i].dueIn >= 0
        PROVE  sleepFor[v] <= delayed'[i].dueIn
    <3>1. PICK j \in DOMAIN delayed : delayed'[i] = delayed[j]
      OBVIOUS
    <3> QED
      BY <1>3, <2>2, <3>1 DEF IndInv, Early
  <2> QED
    BY <1>3, <2>1, <2>2
<1>8. Idle'
  BY <1>2, <1>4, <1>5 DEF IndInv, Idle
<1>9. EnoughAwake'
  <2>1. \A v \in Threads : pc'[v] = "asleep" => pc[v] = "asleep"
    BY <1>4
  <2> QED
    BY <1>1, <2>1, StillEnough
<1>10. OwnerPops'
  BY <1>2, <1>4, <1>5 DEF IndInv, OwnerPops, Popping
<1> QED
  BY <1>6, <1>7, <1>8, <1>9, <1>10

\* run_one takes a delay that is due.
LEMMA DelayedPopKeeps ==
    ASSUME IndInv, NEW w \in Threads, PopDelayed(w)
    PROVE  IndInv'
<1> DEFINE c == Head(delayed).task
<1>1. ResumeMove(w, c) /\ delayed # <<>> /\ delayed' = Tail(delayed) /\ UNCHANGED tasks
  BY ResumeMoves
<1>2. /\ delayed' \in Seq(Entries)
      /\ DelayedTasks' = DelayedTasks \ {c} /\ c \in DelayedTasks
      /\ \A i, j \in DOMAIN delayed' : delayed'[i].task = delayed'[j].task => i = j
      /\ Sorted'
      /\ \A i \in DOMAIN delayed' : \E j \in DOMAIN delayed : delayed'[i] = delayed[j]
  BY <1>1, HeapPops DEF IndInv
<1> HIDE DEF c
<1>3. c \notin OnThreads
  BY <1>2 DEF IndInv, Apart
<1>4. /\ OnThreads' = OnThreads \cup {c}
      /\ \A u, v \in Threads : running'[u] = running'[v] /\ running'[u] # None => u = v
  BY <1>1, <1>3, ResumesOnThread
<1>5. tasks' \in Seq(Coros) /\ Len(tasks') <= Len(tasks)
  BY <1>1 DEF IndInv, TypeOK
<1>6. TypeOK' /\ Early' /\ Idle' /\ EnoughAwake' /\ OwnerPops'
  BY <1>1, <1>2, <1>3, <1>5, ResumeKeeps
<1>7. NoRepeats'
  BY <1>1, <1>2, <1>4 DEF IndInv, NoRepeats
<1>8. Queued' = Queued /\ foreign' = foreign /\ done' = done
  BY <1>1 DEF Queued, ResumeMove
<1>9. Apart'
  BY <1>2, <1>4, <1>8 DEF IndInv, Apart
<1> QED
  BY <1>2, <1>6, <1>7, <1>9 DEF IndInv

\* run_one takes from the queue.
LEMMA TaskPopKeeps ==
    ASSUME IndInv, NEW w \in Threads, PopTask(w)
    PROVE  IndInv'
<1> DEFINE c == Head(tasks)
<1>1. ResumeMove(w, c) /\ tasks # <<>> /\ tasks' = Tail(tasks) /\ UNCHANGED delayed
  BY ResumeMoves
<1>2. /\ tasks' \in Seq(Coros) /\ Len(tasks') = Len(tasks) - 1
      /\ c \in Queued /\ Queued' = Queued \ {c}
      /\ \A i, j \in DOMAIN tasks' : tasks'[i] = tasks'[j] => i = j
  BY <1>1, QueueChanges DEF IndInv
<1> HIDE DEF c
<1>3. c \notin OnThreads /\ c \notin DelayedTasks
  BY <1>2 DEF IndInv, Apart
<1>4. /\ OnThreads' = OnThreads \cup {c}
      /\ \A u, v \in Threads : running'[u] = running'[v] /\ running'[u] # None => u = v
  BY <1>1, <1>3, ResumesOnThread
<1>5. /\ delayed' \in Seq(Entries) /\ DelayedTasks' = DelayedTasks \ {c}
      /\ \A i \in DOMAIN delayed' : \E j \in DOMAIN delayed : delayed'[i] = delayed[j]
  BY <1>1, <1>3 DEF IndInv, TypeOK, DelayedTasks
<1>6. Len(tasks') <= Len(tasks)
  BY <1>2 DEF IndInv, TypeOK
<1>7. TypeOK' /\ Early' /\ Idle' /\ EnoughAwake' /\ OwnerPops'
  BY <1>1, <1>2, <1>3, <1>5, <1>6, ResumeKeeps
<1>8. NoRepeats' /\ Sorted'
  BY <1>1, <1>2, <1>4 DEF IndInv, NoRepeats, Sorted
<1>9. DelayedTasks' = DelayedTasks /\ foreign' = foreign /\ done' = done
  BY <1>1, <1>3, <1>5 DEF ResumeMove
<1>10. Apart'
  BY <1>2, <1>4, <1>9 DEF IndInv, Apart
<1> QED
  BY <1>7, <1>8, <1>10 DEF IndInv

\* What a step of a coroutine keeps, wherever it goes.
LEMMA CoMoveKeeps ==
    ASSUME IndInv, NEW c \in Coros, CoMove(c)
    PROVE  /\ Idle' /\ OwnerPops'
           /\ UNCHANGED <<tasks, delayed>> => Sorted' /\ Early' /\ EnoughAwake'
<1>1. UNCHANGED <<singleThread, endIn, sleepFor, knew>>
  BY DEF CoMove
<1>2. Idle'
  BY <1>1 DEF IndInv, Idle, CoMove
<1>3. OwnerPops'
  BY <1>1 DEF IndInv, OwnerPops, CoMove
<1>4. ASSUME UNCHANGED <<tasks, delayed>>
      PROVE  Sorted' /\ Early' /\ EnoughAwake'
  <2>1. Sorted' /\ Early'
    BY <1>1, <1>4 DEF IndInv, Sorted, Early, DelayedTasks
  <2>2. Len(tasks') \in Nat /\ Len(tasks') <= Len(tasks)
    BY <1>4 DEF IndInv, TypeOK
  <2>3. EnoughAwake'
    BY <2>2, StillEnough DEF CoMove
  <2> QED
    BY <2>1, <2>3
<1> QED
  BY <1>2, <1>3, <1>4

\* co_dispatch queues the coroutine.
LEMMA DispatchKeeps ==
    ASSUME IndInv, NEW c \in Coros, CoDispatch(c)
    PROVE  IndInv'
<1>1. CoMove(c) /\ foreign' = foreign \ {c} /\ tasks' = Append(tasks, c)
      /\ UNCHANGED <<delayed, done>> /\ AddTask(c)
  BY CoMoves DEF CoDispatch, AddTask
<1>2. /\ running' \in [Threads -> Coros \cup {None}]
      /\ OnThreads' = OnThreads \ {c}
      /\ c \notin done \cup Queued \cup DelayedTasks
      /\ \A v, w \in Threads : running'[v] = running'[w] /\ running'[v] # None => v = w
  BY <1>1, LeavesThreads
<1>3. /\ tasks' \in Seq(Coros) /\ Len(tasks') = Len(tasks) + 1 /\ Len(tasks) \in Nat
      /\ Queued' = Queued \cup {c}
      /\ \A i, j \in DOMAIN tasks' : tasks'[i] = tasks'[j] => i = j
  BY <1>1, <1>2, QueueChanges DEF IndInv
<1>4. Idle' /\ OwnerPops'
  BY <1>1, CoMoveKeeps
<1>5. DelayedTasks' = DelayedTasks
  BY <1>1 DEF DelayedTasks
<1>6. TypeOK'
  BY <1>1, <1>2, <1>3 DEF IndInv, TypeOK, CoMove
<1>7. NoRepeats' /\ Sorted'
  BY <1>1, <1>2, <1>3 DEF IndInv, NoRepeats, Sorted
<1>8. Apart'
  BY <1>1, <1>2, <1>3, <1>5 DEF IndInv, Apart, CoMove
<1>9. Early'
  BY <1>1, <1>5 DEF IndInv, Early, CoMove
<1>10. EnoughAwake'
  <2>1. CASE Sleepers = {}
    <3>1. Sleepers' = {}
      BY <1>1, <2>1 DEF Sleepers, CoMove
    <3> QED
      BY <3>1 DEF EnoughAwake
  <2>2. ASSUME NEW v \in Sleepers, pc' = Racing([Returning(c) EXCEPT ![v] = "woken"])
        PROVE  EnoughAwake'
    <3> DEFINE awake == Threads \ Sleepers
    <3>1. v \in Threads /\ v \notin awake
      BY DEF Sleepers
    <3>2. pc'[v] # "asleep"
      BY <3>1, <2>2 DEF Racing, Returning
    <3>3. awake \cup {v} \subseteq awake'
      BY <1>1, <3>1, <3>2 DEF Sleepers, CoMove
    <3>4. IsFiniteSet(awake) /\ IsFiniteSet(awake')
      BY DispatcherAssumption, FS_Subset DEF Sleepers
    <3>5. Cardinality(awake \cup {v}) = Cardinality(awake) + 1 /\ IsFiniteSet(awake \cup {v})
      BY <3>1, <3>4, FS_AddElement
    <3>6. /\ Cardinality(awake) + 1 <= Cardinality(awake')
          /\ Cardinality(awake) \in Nat /\ Cardinality(awake') \in Nat
      BY <3>3, <3>4, <3>5, FS_Subset, FS_CardinalityType
    <3>7. Len(tasks) <= Cardinality(awake)
      BY DEF IndInv, EnoughAwake
    <3> HIDE DEF awake
    <3>8. Len(tasks') <= Cardinality(awake')
      BY <1>3, <3>6, <3>7
    <3> QED
      BY <3>8 DEF EnoughAwake, awake
  <2> QED
    BY <1>1, <2>1, <2>2 DEF AddTask
<1> QED
  BY <1>4, <1>6, <1>7, <1>8, <1>9, <1>10 DEF IndInv

\* co_delay_for puts the coroutine into the heap.
LEMMA DelayKeeps ==
    ASSUME IndInv, NEW c \in Coros, NEW d \in 1..MaxDelay, CoDelay(c, d)
    PROVE  IndInv'
<1>1. CoMove(c) /\ foreign' = foreign \ {c} /\ UNCHANGED <<tasks, done>>
  BY CoMoves DEF CoDelay
<1>2. /\ running' \in [Threads -> Coros \cup {None}]
      /\ OnThreads' = OnThreads \ {c}
      /\ c \notin done \cup Queued \cup DelayedTasks
      /\ \A v, w \in Threads : running'[v] = running'[w] /\ running'[v] # None => v = w
  BY <1>1, LeavesThreads
<1>3. PICK i \in 0..Len(delayed) :
        SortedPosition(i, d) /\ delayed' = InsertAt(i, [task |-> c, dueIn |-> d])
  BY DEF CoDelay, AddDelayTask
<1>4. /\ delayed' \in Seq(Entries)
      /\ DelayedTasks' = DelayedTasks \cup {c}
      /\ \A j, k \in DOMAIN delayed' : delayed'[j].task = delayed'[k].task => j = k
      /\ Sorted'
      /\ \A j \in DOMAIN delayed' :
           delayed'[j].task = c \/ \E k \in DOMAIN delayed : delayed'[j] = delayed[k]
  BY <1>2, <1>3, HeapPushes DEF IndInv
<1>5. Queued' = Queued
  BY <1>1 DEF Queued
<1>6. Idle' /\ OwnerPops'
  BY <1>1, CoMoveKeeps
<1>7. TypeOK'
  BY <1>1, <1>2, <1>4 DEF IndInv, TypeOK, CoMove
<1>8. NoRepeats'
  BY <1>1, <1>2, <1>4 DEF IndInv, NoRepeats
<1>9. Apart'
  BY <1>1, <1>2, <1>4, <1>5 DEF IndInv, Apart, CoMove
<1>10. Early'
  <2> SUFFICES ASSUME NEW w \in Threads
               PROVE  /\ sleepFor[w] <= endIn[w]
                      /\ knew[w] \subseteq DelayedTasks'
                      /\ \A j \in DOMAIN delayed' :
                           delayed'[j].task \in knew[w] /\ delayed'[j].dueIn >= 0
                             => sleepFor[w] <= delayed'[j].dueIn
    BY <1>1 DEF CoMove, Early
  <2>1. sleepFor[w] <= endIn[w] /\ knew[w] \subseteq DelayedTasks
    BY DEF IndInv, Early
  <2>2. ASSUME NEW j \in DOMAIN delayed', delayed'[j].task \in knew[w], delayed'[j].dueIn >= 0
        PROVE  sleepFor[w] <= delayed'[j].dueIn
    <3>1. delayed'[j].task # c
      BY <1>2, <2>1, <2>2
    <3>2. PICK k \in DOMAIN delayed : delayed'[j] = delayed[k]
      BY <1>4, <3>1
    <3> QED
      BY <2>2, <3>2 DEF IndInv, Early
  <2> QED
    BY <1>4, <2>1, <2>2
<1>11. EnoughAwake'
  <2>1. Len(tasks') \in Nat /\ Len(tasks') <= Len(tasks)
    BY <1>1 DEF IndInv, TypeOK
  <2> QED
    BY <1>1, <2>1, StillEnough DEF CoMove
<1> QED
  BY <1>4, <1>6, <1>7, <1>8, <1>9, <1>10, <1>11 DEF IndInv

\* A coroutine ends, or goes on elsewhere.
LEMMA LeaveKeeps ==
    ASSUME IndInv, NEW c \in Coros, Finish(c) \/ GoElsewhere(c)
    PROVE  IndInv'
<1>1. /\ CoMove(c) /\ UNCHANGED <<tasks, delayed>>
      /\ \/ foreign' = foreign \ {c} /\ done' = done \cup {c}
         \/ foreign' = foreign \cup {c} /\ done' = done /\ c \in OnThreads
  BY CoMoves DEF Finish, GoElsewhere
<1>2. /\ running' \in [Threads -> Coros \cup {None}]
      /\ OnThreads' = OnThreads \ {c}
      /\ c \notin done \cup Queued \cup DelayedTasks
      /\ \A v, w \in Threads : running'[v] = running'[w] /\ running'[v] # None => v = w
  BY <1>1, LeavesThreads
<1>3. Queued' = Queued /\ DelayedTasks' = DelayedTasks
  BY <1>1 DEF Queued, DelayedTasks
<1>4. Idle' /\ OwnerPops' /\ Sorted' /\ Early' /\ EnoughAwake'
  BY <1>1, CoMoveKeeps
<1>5. TypeOK'
  <2>1. foreign' \subseteq Coros /\ done' \subseteq Coros
    BY <1>1 DEF IndInv, TypeOK
  <2> QED
    BY <1>1, <1>2, <2>1 DEF IndInv, TypeOK, CoMove
<1>6. NoRepeats'
  BY <1>1, <1>2 DEF IndInv, NoRepeats
<1>7. Apart'
  BY <1>1, <1>2, <1>3 DEF IndInv, Apart, CoMove
<1> QED
  BY <1>4, <1>5, <1>6, <1>7 DEF IndInv

\* A tick moves every deadline by one, down to where its clock stops.
LEMMA TickKeeps ==
    ASSUME IndInv, Tick
    PROVE  IndInv'
<1>1. UNCHANGED <<singleThread, tasks, foreign, done, running, pc, result, knew>>
  BY DEF Tick
<1>2. /\ delayed \in Seq(Entries) /\ DOMAIN delayed = 1..Len(delayed) /\ Len(delayed) \in Nat
      /\ MaxLate \in Nat /\ MaxDelay \in Nat /\ MaxWait \in Nat
  BY DispatcherAssumption DEF IndInv, TypeOK
<1>3. \A i \in DOMAIN delayed : delayed[i] \in Entries
  BY <1>2
<1>4. delayed' = [i \in 1..Len(delayed) |-> [delayed[i] EXCEPT !.dueIn = Passed(@, Late)]]
  BY <1>2 DEF Tick
<1>5. /\ DOMAIN delayed' = DOMAIN delayed
      /\ \A i \in DOMAIN delayed : /\ delayed'[i].task = delayed[i].task
                                   /\ delayed'[i].dueIn = Passed(delayed[i].dueIn, Late)
                                   /\ delayed'[i] \in Entries
                                   /\ delayed[i].dueIn \in Late..MaxDelay
  <2>1. DOMAIN delayed' = DOMAIN delayed
    BY <1>2, <1>4
  <2>2. ASSUME NEW i \in DOMAIN delayed
        PROVE  /\ delayed'[i].task = delayed[i].task
               /\ delayed'[i].dueIn = Passed(delayed[i].dueIn, Late)
               /\ delayed'[i] \in Entries
               /\ delayed[i].dueIn \in Late..MaxDelay
    <3>1. delayed[i] \in [task : Coros, dueIn : Late..MaxDelay]
      BY <1>3 DEF Entries
    <3>2. delayed'[i] = [delayed[i] EXCEPT !.dueIn = Passed(@, Late)]
      BY <1>2, <1>4
    <3>3. delayed[i].dueIn \in Late..MaxDelay
      BY <3>1
    <3>4. Passed(delayed[i].dueIn, Late) \in Late..MaxDelay
      BY <1>2, <3>3 DEF Passed, Late
    <3> QED
      BY <3>1, <3>2, <3>3, <3>4 DEF Entries
  <2> QED
    BY <2>1, <2>2
<1>6. delayed' \in Seq(Entries)
  <2>1. DOMAIN delayed' = 1..Len(delayed) /\ delayed' = [i \in 1..Len(delayed) |-> delayed'[i]]
    BY <1>2, <1>4, <1>5
  <2>2. delayed' \in [1..Len(delayed) -> Entries]
    BY <1>2, <1>5, <2>1
  <2> QED
    BY <1>2, <2>2, SeqDef
<1>7. /\ endIn \in [Threads -> 0..MaxWait] /\ sleepFor \in [Threads -> 0..MaxWait]
      /\ endIn' \in [Threads -> 0..MaxWait] /\ sleepFor' \in [Threads -> 0..MaxWait]
      /\ \A w \in Threads : endIn'[w] = Passed(endIn[w], 0) /\ sleepFor'[w] = Passed(sleepFor[w], 0)
  BY <1>2 DEF IndInv, TypeOK, Tick, Passed
<1>8. DelayedTasks' = DelayedTasks /\ Queued' = Queued /\ OnThreads' = OnThreads
  BY <1>1, <1>5 DEF DelayedTasks, Queued, OnThreads
<1>9. TypeOK'
  BY <1>1, <1>6, <1>7 DEF IndInv, TypeOK
<1>10. NoRepeats' /\ Apart'
  BY <1>1, <1>5, <1>8 DEF IndInv, NoRepeats, Apart
<1>11. Sorted'
  BY <1>2, <1>5 DEF IndInv, Sorted, Passed, Late
<1>12. Early'
  <2> SUFFICES ASSUME NEW w \in Threads
               PROVE  /\ sleepFor'[w] <= endIn'[w]
                      /\ \A i \in DOMAIN delayed :
                           delayed[i].task \in knew[w] /\ delayed'[i].dueIn >= 0
                             => sleepFor'[w] <= delayed'[i].dueIn
    BY <1>1, <1>5, <1>8 DEF IndInv, Early
  <2>1. sleepFor'[w] <= endIn'[w]
    BY <1>2, <1>7 DEF IndInv, Early, Passed
  <2>2. ASSUME NEW i \in DOMAIN delayed, delayed[i].task \in knew[w], delayed'[i].dueIn >= 0
        PROVE  sleepFor'[w] <= delayed'[i].dueIn
    <3>1. /\ delayed[i].dueIn \in Late..MaxDelay /\ sleepFor[w] \in 0..MaxWait
          /\ delayed'[i].dueIn = Passed(delayed[i].dueIn, Late)
          /\ sleepFor'[w] = Passed(sleepFor[w], 0)
      BY <1>5, <1>7
    <3>2. delayed[i].dueIn >= 0
      BY <1>2, <2>2, <3>1 DEF Passed, Late
    <3>3. sleepFor[w] <= delayed[i].dueIn
      BY <2>2, <3>2 DEF IndInv, Early
    <3> QED
      BY <1>2, <2>2, <3>1, <3>3 DEF Passed, Late
  <2> QED
    BY <2>1, <2>2
<1>13. Idle'
  BY <1>1, <1>7 DEF IndInv, Idle, Passed
<1>14. EnoughAwake' /\ OwnerPops'
  BY <1>1 DEF IndInv, EnoughAwake, Sleepers, OwnerPops
<1> QED
  BY <1>9, <1>10, <1>11, <1>12, <1>13, <1>14 DEF IndInv

\* At first every coroutine is elsewhere and every thread is in no call.
LEMMA InitIndInv == Init => IndInv
<1> SUFFICES ASSUME Init PROVE IndInv
  OBVIOUS
<1> USE DispatcherAssumption DEF Init
<1>1. TypeOK
  BY DEF TypeOK, ThreadPCs
<1>2. tasks = <<>> /\ delayed = <<>> /\ DOMAIN tasks = {} /\ DOMAIN delayed = {} /\ Sleepers = {}
  BY DEF Sleepers
<1>3. Queued = {} /\ DelayedTasks = {} /\ OnThreads = {}
  BY <1>2 DEF Queued, DelayedTasks, OnThreads
<1>4. NoRepeats
  BY <1>2 DEF NoRepeats
<1>5. Apart /\ Sorted /\ EnoughAwake
  BY <1>2, <1>3 DEF Apart, Sorted, EnoughAwake
<1>6. Early /\ Idle /\ OwnerPops
  BY <1>2 DEF Early, Idle, OwnerPops, Popping
<1> QED
  BY <1>1, <1>4, <1>5, <1>6 DEF IndInv

\* Every step of the dispatcher keeps it.
LEMMA NextIndInv == IndInv /\ [Next]_vars => IndInv'
<1> SUFFICES ASSUME IndInv, [Next]_vars PROVE IndInv'
  OBVIOUS
<1>1. ASSUME NEW w \in Threads, Calls(w) PROVE IndInv'
  BY <1>1, CallsMove, MoveKeeps
<1>2. ASSUME NEW w \in Threads, PopDelayed(w) \/ PopTask(w) PROVE IndInv'
  BY <1>2, DelayedPopKeeps, TaskPopKeeps
<1>3. ASSUME NEW c \in Coros, CoDispatch(c) PROVE IndInv'
  BY <1>3, DispatchKeeps
<1>4. ASSUME NEW c \in Coros, NEW d \in 1..MaxDelay, CoDelay(c, d) PROVE IndInv'
  BY <1>4, DelayKeeps
<1>5. ASSUME NEW c \in Coros, Finish(c) \/ GoElsewhere(c) PROVE IndInv'
  BY <1>5, LeaveKeeps
<1>6. CASE Tick
  BY <1>6, TickKeeps
<1>7. CASE UNCHANGED vars
  <2>1. UNCHANGED <<singleThread, tasks, delayed, foreign, done, running, pc, endIn,
                    sleepFor, result, knew>>
    BY <1>7 DEF vars
  <2>2. UNCHANGED <<Queued, OnThreads, DelayedTasks, Sleepers>>
    BY <2>1 DEF Queued, OnThreads, DelayedTasks, Sleepers
  <2>3. TypeOK'
    BY <2>1 DEF IndInv, TypeOK
  <2>4. NoRepeats' /\ Apart'
    BY <2>1, <2>2 DEF IndInv, NoRepeats, Apart
  <2>5. Sorted' /\ Early'
    BY <2>1, <2>2 DEF IndInv, Sorted, Early
  <2>6. Idle' /\ EnoughAwake' /\ OwnerPops'
    BY <2>1, <2>2 DEF IndInv, Idle, EnoughAwake, OwnerPops
  <2> QED
    BY <2>3, <2>4, <2>5, <2>6 DEF IndInv
<1> QED
  BY <1>1, <1>2, <1>3, <1>4, <1>5, <1>6, <1>7 DEF Next, ThreadStep, TimedOut, Calls

\* The inductive invariant holds in every reachable state.
THEOREM Invariance == Spec => []IndInv
BY InitIndInv, NextIndInv, PTL DEF Spec
-----------------------------------------------------------------------------
(* The theorems.                                                           *)

\* The types, for any threads, coroutines and bounds: a thread is inside
\* resume() exactly while it has a coroutine there.
THEOREM TypeCorrect == Spec => []TypeOK
<1>1. IndInv => TypeOK
  BY DEF IndInv
<1> QED
  BY <1>1, Invariance, PTL

\* A set whose elements are all the same has one or none.
LEMMA OneOrNone ==
    ASSUME NEW S, \A x, y \in S : x = y
    PROVE  Cardinality(S) = IF S = {} THEN 0 ELSE 1
<1>1. CASE S = {}
  BY <1>1, FS_EmptySet
<1>2. CASE S # {}
  <2>1. PICK x \in S : TRUE
    BY <1>2
  <2>2. S = {x}
    BY <2>1
  <2> QED
    BY <1>2, <2>2, FS_Singleton
<1> QED
  BY <1>1, <1>2

\* A coroutine is in exactly one place, once: never lost, never resumed while
\* it runs and never resumed twice for one suspension.
THEOREM OnlyOnePlace == Spec => []OnePlace
<1>1. ASSUME IndInv PROVE OnePlace
  <2> SUFFICES ASSUME NEW c \in Coros PROVE Places(c) = 1
    BY DEF OnePlace
  <2> DEFINE inQueue == {i \in DOMAIN tasks : tasks[i] = c}
             inHeap == {i \in DOMAIN delayed : delayed[i].task = c}
             onThread == {w \in Threads : running[w] = c}
             other == {s \in {"foreign", "done"} : c \in (IF s = "done" THEN done ELSE foreign)}
  <2>1. c # None
    BY DispatcherAssumption
  <2>2. Cardinality(inQueue) = IF c \in Queued THEN 1 ELSE 0
    <3>1. (\A i, j \in inQueue : i = j) /\ (inQueue = {} <=> c \notin Queued)
      BY <1>1 DEF IndInv, NoRepeats, Queued
    <3> QED
      BY <3>1, OneOrNone
  <2>3. Cardinality(inHeap) = IF c \in DelayedTasks THEN 1 ELSE 0
    <3>1. (\A i, j \in inHeap : i = j) /\ (inHeap = {} <=> c \notin DelayedTasks)
      BY <1>1 DEF IndInv, NoRepeats, DelayedTasks
    <3> QED
      BY <3>1, OneOrNone
  <2>4. Cardinality(onThread) = IF c \in OnThreads THEN 1 ELSE 0
    <3>1. (\A v, w \in onThread : v = w) /\ (onThread = {} <=> c \notin OnThreads)
      BY <1>1, <2>1 DEF IndInv, NoRepeats, OnThreads
    <3> QED
      BY <3>1, OneOrNone
  <2>5. Cardinality(other) = IF c \in foreign \cup done THEN 1 ELSE 0
    <3>1. (\A s, t \in other : s = t) /\ (other = {} <=> c \notin foreign \cup done)
      BY <1>1 DEF IndInv, Apart
    <3> QED
      BY <3>1, OneOrNone
  <2>6. Places(c) = Cardinality(inQueue) + Cardinality(inHeap) + Cardinality(onThread)
                      + Cardinality(other)
    BY DEF Places
  <2> HIDE DEF inQueue, inHeap, onThread, other
  <2> QED
    BY <1>1, <2>2, <2>3, <2>4, <2>5, <2>6 DEF IndInv, Apart
<1> QED
  BY <1>1, Invariance, PTL

\* While a thread sleeps there is one awake for every queued task: one
\* notify_one per push loses no task.
THEOREM NotificationsSuffice == Spec => []EnoughAwake
<1>1. IndInv => EnoughAwake
  BY DEF IndInv
<1> QED
  BY <1>1, Invariance, PTL

\* No thread sleeps past the end of its wait, or past a delay it has seen.
THEOREM NoOversleeping == Spec => []WakesForKnownDelays
<1>1. IndInv => WakesForKnownDelays
  BY DEF IndInv, Early, WakesForKnownDelays, Sleepers
<1> QED
  BY <1>1, Invariance, PTL

\* On a single-threaded dispatcher no thread but the owner resumes anything.
THEOREM OwnerResumes == Spec => OnlyOwnerResumes
<1> DEFINE Step == singleThread =>
         \A w \in Threads : running'[w] # running[w] /\ running'[w] # None => w = Owner
<1>1. IndInv /\ [Next]_vars => [Step]_vars
  <2> SUFFICES ASSUME IndInv, Next, singleThread, NEW w \in Threads,
                      running'[w] # running[w], running'[w] # None
               PROVE  w = Owner
    OBVIOUS
  <2>1. ASSUME NEW v \in Threads, PopDelayed(v) \/ PopTask(v)
        PROVE  w = Owner
    <3>1. PICK c : ResumeMove(v, c)
      BY <2>1, ResumeMoves
    <3>2. w = v
      BY <3>1 DEF ResumeMove, IndInv, TypeOK
    <3> QED
      BY <3>1, <3>2 DEF ResumeMove, IndInv, OwnerPops, Popping
  <2>2. ASSUME NEW c \in Coros, CoMove(c)
        PROVE  FALSE
    BY <2>2 DEF CoMove
  <2>3. ASSUME NEW c \in Coros, \/ CoDispatch(c) \/ Finish(c) \/ GoElsewhere(c)
                                \/ \E d \in 1..MaxDelay : CoDelay(c, d)
        PROVE  CoMove(c)
    BY <2>3, CoMoves
  <2>4. ASSUME NEW v \in Threads, Calls(v)
        PROVE  FALSE
    <3>1. UNCHANGED running
      BY <2>4, CallsMove DEF ThreadMove, UnchangedQueues
    <3> QED
      BY <3>1
  <2>5. CASE Tick
    BY <2>5 DEF Tick
  <2> QED
    BY <2>1, <2>2, <2>3, <2>4, <2>5 DEF Next, ThreadStep, TimedOut, Calls
<1> HIDE DEF Step
<1>2. Spec => [][Step]_vars
  BY <1>1, Invariance, PTL DEF Spec
<1> QED
  BY <1>2 DEF OnlyOwnerResumes, Step
=============================================================================

------------------------- MODULE TaskPromise_proofs -------------------------
(***************************************************************************)
(* Proofs about TaskPromise for any finite sets of tasks and promises, of  *)
(* both kinds of shared state.  IndInv is inductive; its parts relate the  *)
(* count to the handles, the lock to whoever is inside set_state, the flag *)
(* of final_suspend to the place of the body, a resumed user to its        *)
(* resumer and a suspended user to the list that holds it.                 *)
(***************************************************************************)
EXTENDS TaskPromise, FiniteSetTheorems, TLAPS

Emplacing == {"emplace_value", "emplace_exception"}
PastFinal == {"suspending", "suspended", "destroying", "done"}

\* Each kind of actor stays within its own control points.
PCKinds ==
    /\ \A t \in Tasks : pc[t] \in TaskPCs
    /\ \A p \in Promises : pc[p] \in SetterPCs
    /\ IsCoroutine => pc[Body] \in BodyPCs

\* Whoever is inside an operation of a handle holds a reference.
Occupied == \A h \in Handles : pc[h] \notin {"idle", "free"} => holds[h]

\* The lock outlives a step only inside set_state, while m_State is valueless.
Owner ==
    /\ mutex # NoOne => mutex \in Setters /\ pc[mutex] \in Emplacing
    /\ \A s \in Setters : pc[s] \in Emplacing => mutex = s
    /\ mState = "npos" <=> mutex # NoOne

\* Freeing begins after the final suspend, at count zero, and happens once.
Ended ==
    /\ finalSuspendHasRun <=> IsCoroutine /\ pc[Body] \in PastFinal
    /\ IsCoroutine /\ refCount = REFCOUNT_UNSET => pc[Body] = "created"
    /\ \A h \in Handles : pc[h] = "free" => finalSuspendHasRun /\ refCount = 0
    /\ IsCoroutine /\ pc[Body] = "destroying" => refCount = 0
    /\ \A g, h \in Handles : pc[g] = "free" /\ pc[h] = "free" => g = h
    /\ \A h \in Handles : IsCoroutine /\ pc[h] = "free" => pc[Body] # "destroying"
    /\ freed => /\ finalSuspendHasRun /\ refCount = 0
                /\ \A h \in Handles : pc[h] # "free"
                /\ IsCoroutine => pc[Body] # "destroying"

\* A setter runs at most one waiter, and is inside resume() while it does.
Driven ==
    /\ \A t \in Tasks : driver[t] # NoOne => pc[driver[t]] = "resuming"
    /\ \A t, u \in Tasks : driver[t] = driver[u] /\ driver[t] # NoOne => t = u

Line(q) ==
    /\ \A i \in 1..Len(q) : pc[q[i]] = "suspended"
    /\ \A i, j \in 1..Len(q) : q[i] = q[j] => i = j

\* Suspended users are lined up, each once, before the outcome in the waiters
\* and from then on in the list of the one setter that took them.
Queued ==
    /\ Line(waiters)
    /\ \A s \in Setters : Line(toResume[s])
    /\ mState # "waiters" => waiters = <<>>
    /\ mState = "waiters" => \A s \in Setters : toResume[s] = <<>>
    /\ \A s, r \in Setters : toResume[s] # <<>> /\ toResume[r] # <<>> => s = r
    /\ \A t \in Tasks : pc[t] = "suspended" =>
          \/ \E i \in 1..Len(waiters) : waiters[i] = t
          \/ \E s \in Setters : \E i \in 1..Len(toResume[s]) : toResume[s][i] = t

\* What follows an outcome: no sleepers; and what needs one: fetching,
\* resuming.
Resolved ==
    /\ IsReady => \A t \in Tasks : pc[t] \notin {"wait_cv", "timed_cv"}
    /\ \A t \in Tasks : pc[t] = "fetch" => IsReady
    /\ \A s \in Setters : pc[s] \in {"loop", "resuming"} => IsReady

IndInv == /\ TypeOK /\ PCKinds /\ RefCountExact /\ Occupied /\ Owner
          /\ Ended /\ Driven /\ Queued /\ Resolved

-----------------------------------------------------------------------------
(* The sets of actors.                                                     *)

\* Handles and setters are actors; a task is never a setter.
LEMMA ActorSets ==
    /\ Handles \subseteq Actors /\ Setters \subseteq Actors
    /\ Tasks \subseteq Handles /\ Promises \subseteq Handles
    /\ Tasks \cap Promises = {} /\ Tasks \cap Setters = {} /\ NoOne \notin Actors /\ Body \notin Handles
    /\ IsCoroutine => Setters = {Body} /\ Handles = Tasks
    /\ ~IsCoroutine => Setters = Promises /\ Handles = Actors
BY HandlesAssumption DEF Handles, Actors, Setters, IsCoroutine

\* There are finitely many handles.
LEMMA HandlesFinite == IsFiniteSet(Handles)
BY HandlesAssumption, FS_Union DEF Handles

-----------------------------------------------------------------------------
(* The cases of a step.                                                    *)

\* The steps of a user that touch only its own control point and answer.
UserStep(t) ==
    \/ CoAwait(t) \/ Get(t) \/ WaitFor(t) \/ State(t) \/ AwaitSuspend(t)
    \/ WaitLocked(t) \/ Fetch(t) \/ TimedLocked(t) \/ Timeout(t)
    \/ TimedOutLocked(t) \/ Spurious(t)

Answers == {"none", "running", "timeout", "ready"} \cup Outcomes

UserMove(t, w) ==
    /\ UnchangedShared /\ waiters' = waiters
    /\ got' \in [Tasks -> Answers]
    /\ pc' = [pc EXCEPT ![t] = w]
    /\ holds[t] /\ pc[t] \notin {"suspended", "free"}
    /\ w \in TaskPCs \ {"suspended", "free"}
    /\ w = "fetch" => IsReady
    /\ w \in {"wait_cv", "timed_cv"} => ~IsReady

\* The cases of Next, with the steps that change nothing put together.
LEMMA NextCases ==
    ASSUME [Next]_vars
    PROVE  \/ \E h \in Handles : Create(h) \/ Release(h) \/ Free(h)
           \/ \E from, to \in Handles : Copy(from, to) \/ Move(from, to)
           \/ \E t \in Tasks : UserStep(t) \/ AwaitLocked(t) \/ Yield(t)
           \/ \E s \in Setters :
                 \/ ResumeNext(s) \/ EndSetState(s)
                 \/ \E o \in Outcomes : FinishSetState(s, o) \/ BeginSetState(s, o)
           \/ FinalSuspend \/ SuspendFrame \/ DestroyFrame
           \/ UNCHANGED vars
BY DEF Next, TaskCall, TaskStep, SetStateStep, BodyStep, UserStep,
       AlreadySatisfied, Terminated

\* Each of the user's own steps is a move of this shape.
LEMMA UserMoves ==
    ASSUME IndInv, NEW t \in Tasks, UserStep(t)
    PROVE  \E w \in TaskPCs : UserMove(t, w)
<1> USE ActorSets DEF IndInv, TypeOK, PCKinds, Occupied, Resolved, Goto,
        UnchangedShared, TaskPCs, Answers, Outcomes, IsReady, CanUse, Idle, UserMove
<1>1. CASE CoAwait(t) \/ Get(t) \/ WaitFor(t) \/ AwaitSuspend(t)
  BY <1>1 DEF CoAwait, Get, WaitFor, AwaitSuspend
<1>2. CASE State(t)
  BY <1>2 DEF State
<1>3. CASE WaitLocked(t)
  BY <1>3 DEF WaitLocked
<1>7. CASE Fetch(t)
  BY <1>7 DEF Fetch
<1>4. CASE TimedLocked(t)
  BY <1>4 DEF TimedLocked
<1>5. CASE Timeout(t) \/ Spurious(t)
  BY <1>5 DEF Timeout, Spurious
<1>6. CASE TimedOutLocked(t)
  BY <1>6 DEF TimedOutLocked
<1> QED
  BY <1>1, <1>2, <1>3, <1>4, <1>5, <1>6, <1>7 DEF UserStep

\* A finishing set_state moves the setter on and wakes the sleepers.
FinishMoves(s, o) ==
    /\ pc[s] \in Emplacing /\ mState' = o /\ mutex' = NoOne
    /\ UNCHANGED <<waiters, refCount, finalSuspendHasRun, freed, holds, toResume,
                   driver, got>>
    /\ pc' \in [Actors -> TaskPCs \cup SetterPCs \cup BodyPCs]
    /\ pc'[s] = "loop"
    /\ \A a \in Actors : pc'[a] \notin {"wait_cv", "timed_cv"}
    /\ \A a \in Actors : a # s => \/ pc'[a] = pc[a]
                                  \/ pc[a] = "wait_cv" /\ pc'[a] = "wait_lock"
                                  \/ pc[a] = "timed_cv" /\ pc'[a] = "timed_lock"

\* Finishing a set_state is a move of this shape.
LEMMA FinishPC ==
    ASSUME TypeOK, NEW s \in Setters, NEW o \in Outcomes, FinishSetState(s, o)
    PROVE  FinishMoves(s, o)
<1> DEFINE p == [pc EXCEPT ![s] = "loop"]
<1>1. \A a \in Actors : p[a] = IF a = s THEN "loop" ELSE pc[a]
  BY DEF TypeOK
<1>2. pc' = NotifyAll(p)
  BY DEF FinishSetState
<1>3. \A a \in Actors : pc'[a] = CASE p[a] = "wait_cv"  -> "wait_lock"
                                   [] p[a] = "timed_cv" -> "timed_lock"
                                   [] OTHER             -> p[a]
  BY <1>2 DEF NotifyAll
<1>4. \A a \in Actors : \/ p[a] = "wait_cv" /\ pc'[a] = "wait_lock"
                        \/ p[a] = "timed_cv" /\ pc'[a] = "timed_lock"
                        \/ p[a] \notin {"wait_cv", "timed_cv"} /\ pc'[a] = p[a]
  BY <1>3
<1>5. DOMAIN pc' = Actors /\ pc' = [a \in Actors |-> pc'[a]]
  BY <1>2 DEF NotifyAll
<1>6. s \in Actors
  BY ActorSets
<1>7. \A a \in Actors : pc[a] \in TaskPCs \cup SetterPCs \cup BodyPCs
  BY DEF TypeOK
<1>8. /\ pc[s] \in Emplacing /\ mState' = o /\ mutex' = NoOne
      /\ UNCHANGED <<waiters, refCount, finalSuspendHasRun, freed, holds, toResume,
                     driver, got>>
  BY DEF FinishSetState, EmplacePC, Emplacing
<1> HIDE DEF p
<1> QED
  BY <1>1, <1>4, <1>5, <1>6, <1>7, <1>8
  DEF FinishMoves, TaskPCs, SetterPCs, BodyPCs

\* The waiter that set_state resumes is a suspended user.
ResumeMoves(s, t) ==
    /\ pc[s] = "loop" /\ toResume[s] # <<>> /\ t = Head(toResume[s])
    /\ pc[t] = "suspended"
    /\ pc' = [pc EXCEPT ![s] = "resuming", ![t] = "fetch"]
    /\ driver' = [driver EXCEPT ![t] = s]
    /\ toResume' = [toResume EXCEPT ![s] = Tail(@)]
    /\ UNCHANGED <<mState, waiters, refCount, finalSuspendHasRun, mutex, freed,
                   holds, got>>

\* Resuming the next waiter is a move of this shape.
LEMMA ResumePC ==
    ASSUME TypeOK, Queued, NEW s \in Setters, ResumeNext(s)
    PROVE  \E t \in Tasks : ResumeMoves(s, t)
<1>1. toResume[s] \in Seq(Tasks) /\ toResume[s] # <<>>
  BY DEF ResumeNext, TypeOK
<1>2. Head(toResume[s]) \in Tasks /\ Head(toResume[s]) = toResume[s][1] /\ 1 \in 1..Len(toResume[s])
  BY <1>1
<1>3. pc[Head(toResume[s])] = "suspended"
  BY <1>2 DEF Queued, Line
<1> QED
  BY <1>1, <1>2, <1>3 DEF ResumeNext, ResumeMoves

-----------------------------------------------------------------------------
(* Counting handles.                                                       *)

\* The number of holders follows one handle that is filled, emptied or moved.
LEMMA HoldersChange ==
    ASSUME holds \in [Handles -> BOOLEAN], NEW h \in Handles
    PROVE  /\ IsFiniteSet(Holders) /\ Cardinality(Holders) \in Nat
           /\ holds[h] => Cardinality(Holders) >= 1
           /\ ~holds[h] /\ holds' = [holds EXCEPT ![h] = TRUE]
                => Cardinality(Holders') = Cardinality(Holders) + 1
           /\ holds[h] /\ holds' = [holds EXCEPT ![h] = FALSE]
                => Cardinality(Holders') = Cardinality(Holders) - 1
           /\ \A g \in Handles :
                holds[h] /\ ~holds[g] /\ holds' = [holds EXCEPT ![h] = FALSE, ![g] = TRUE]
                  => Cardinality(Holders') = Cardinality(Holders)
<1>1. IsFiniteSet(Holders) /\ Cardinality(Holders) \in Nat
  BY HandlesFinite, FS_Subset, FS_CardinalityType DEF Holders
<1>2. ASSUME ~holds[h], holds' = [holds EXCEPT ![h] = TRUE]
      PROVE  Cardinality(Holders') = Cardinality(Holders) + 1
  <2>1. Holders' = Holders \cup {h} /\ h \notin Holders
    BY <1>2 DEF Holders
  <2> QED
    BY <1>1, <2>1, FS_AddElement
<1>3. ASSUME holds[h]
      PROVE  /\ Cardinality(Holders \ {h}) = Cardinality(Holders) - 1
             /\ Cardinality(Holders) >= 1
  <2>1. h \in Holders
    BY <1>3 DEF Holders
  <2>2. IsFiniteSet(Holders \ {h}) /\ Cardinality(Holders \ {h}) = Cardinality(Holders) - 1
    BY <1>1, <2>1, FS_RemoveElement
  <2> QED
    BY <1>1, <2>2, FS_CardinalityType
<1>4. ASSUME holds[h], holds' = [holds EXCEPT ![h] = FALSE]
      PROVE  Cardinality(Holders') = Cardinality(Holders) - 1
  <2>1. Holders' = Holders \ {h}
    BY <1>4 DEF Holders
  <2> QED
    BY <1>3, <1>4, <2>1
<1>5. ASSUME NEW g \in Handles, holds[h], ~holds[g],
             holds' = [holds EXCEPT ![h] = FALSE, ![g] = TRUE]
      PROVE  Cardinality(Holders') = Cardinality(Holders)
  <2>1. Holders' = (Holders \ {h}) \cup {g} /\ g \notin Holders \ {h}
    BY <1>5 DEF Holders
  <2>2. IsFiniteSet(Holders \ {h})
    BY <1>1, FS_Subset
  <2>3. Cardinality(Holders') = Cardinality(Holders \ {h}) + 1
    BY <2>1, <2>2, FS_AddElement
  <2> QED
    BY <1>1, <1>3, <1>5, <2>3
<1> QED
  BY <1>1, <1>2, <1>3, <1>4, <1>5

\* A handle that is not empty makes the count a positive number.
LEMMA HeldCount ==
    ASSUME TypeOK, RefCountExact, NEW h \in Handles, holds[h]
    PROVE  refCount \in Nat /\ refCount >= 1
<1>1. Holders # {} /\ refCount = Cardinality(Holders)
  BY DEF Holders, RefCountExact
<1> QED
  BY <1>1, HoldersChange DEF TypeOK

-----------------------------------------------------------------------------
(* Every step keeps each part of IndInv.                                   *)

\* A step keeps the types.
LEMMA TypeKept == IndInv /\ [Next]_vars => TypeOK'
<1> SUFFICES ASSUME IndInv, [Next]_vars PROVE TypeOK'
  OBVIOUS
<1>I. TypeOK /\ RefCountExact /\ Driven /\ Queued
  BY DEF IndInv
<1>H. holds \in [Handles -> BOOLEAN]
  BY DEF IndInv, TypeOK
<1> USE DEF TypeOK, Goto, UnchangedShared, Answers, REFCOUNT_UNSET, AddRef,
    Outcomes, TaskPCs, SetterPCs, BodyPCs
<1>Create. ASSUME NEW h \in Handles, Create(h) PROVE TypeOK'
  BY <1>I, ActorSets, <1>Create DEF Create
<1>Release. ASSUME NEW h \in Handles, Release(h) PROVE TypeOK'
  BY <1>I, ActorSets, <1>Release, HeldCount DEF Release, CanUse
<1>Free. ASSUME NEW h \in Handles, Free(h) PROVE TypeOK'
  BY <1>I, ActorSets, <1>Free DEF Free
<1>Copy. ASSUME NEW from \in Handles, NEW to \in Handles, Copy(from, to) PROVE TypeOK'
  BY <1>I, ActorSets, <1>Copy DEF Copy
<1>Move. ASSUME NEW from \in Handles, NEW to \in Handles, Move(from, to) PROVE TypeOK'
  <2>1. holds' \in [Handles -> BOOLEAN]
    BY <1>H, <1>Move DEF Move
  <2>2. UNCHANGED <<mState, waiters, refCount, finalSuspendHasRun, mutex, freed,
                    pc, toResume, driver, got>>
    BY <1>Move DEF Move
  <2> QED
    BY <1>I, <2>1, <2>2
<1>User. ASSUME NEW t \in Tasks, NEW w, UserMove(t, w) PROVE TypeOK'
  BY <1>I, ActorSets, <1>User DEF UserMove
<1>AwaitLocked. ASSUME NEW t \in Tasks, AwaitLocked(t) PROVE TypeOK'
  BY <1>I, ActorSets, <1>AwaitLocked DEF AwaitLocked
<1>Yield. ASSUME NEW t \in Tasks, Yield(t) PROVE TypeOK'
  BY <1>I, ActorSets, <1>Yield DEF Yield
<1>Finish. ASSUME NEW s \in Setters, NEW o \in Outcomes, FinishSetState(s, o) PROVE TypeOK'
  <2>1. FinishMoves(s, o)
    BY <1>I, <1>Finish, FinishPC
  <2> QED
    BY <1>I, ActorSets, <2>1 DEF FinishMoves, Emplacing
<1>Begin. ASSUME NEW s \in Setters, NEW o \in Outcomes, BeginSetState(s, o) PROVE TypeOK'
  BY <1>I, ActorSets, <1>Begin DEF BeginSetState, EmplacePC
<1>Resume. ASSUME NEW s \in Setters, ResumeNext(s) PROVE TypeOK'
  <2>1. PICK t \in Tasks : ResumeMoves(s, t)
    BY <1>I, <1>Resume, ResumePC
  <2>2. pc' \in [Actors -> TaskPCs \cup SetterPCs \cup BodyPCs]
    BY <1>I, ActorSets, <2>1 DEF ResumeMoves
  <2>3. toResume' \in [Setters -> Seq(Tasks)] /\ driver' \in [Tasks -> Setters \cup {NoOne}]
    BY <1>I, <2>1 DEF ResumeMoves
  <2> QED
    BY <1>I, <2>1, <2>2, <2>3 DEF ResumeMoves
<1>End. ASSUME NEW s \in Setters, EndSetState(s) PROVE TypeOK'
  BY <1>I, ActorSets, <1>End DEF EndSetState
<1>Final. ASSUME FinalSuspend PROVE TypeOK'
  BY <1>I, ActorSets, <1>Final DEF FinalSuspend
<1>Suspend. ASSUME SuspendFrame PROVE TypeOK'
  BY <1>I, ActorSets, <1>Suspend DEF SuspendFrame
<1>Destroy. ASSUME DestroyFrame PROVE TypeOK'
  BY <1>I, ActorSets, <1>Destroy DEF DestroyFrame
<1>Same. CASE UNCHANGED vars
  BY <1>I, <1>Same DEF vars
<1> HIDE DEF TypeOK, Goto, UnchangedShared, Answers, REFCOUNT_UNSET, AddRef,
    Outcomes, TaskPCs, SetterPCs, BodyPCs
<1> QED
  BY <1>Create, <1>Release, <1>Free, <1>Copy, <1>Move, <1>User, <1>AwaitLocked,
      <1>Yield, <1>Finish, <1>Begin, <1>Resume, <1>End, <1>Final, <1>Suspend,
      <1>Destroy, <1>Same, NextCases, UserMoves

\* A step keeps each actor within its control points.
LEMMA PCKindsKept == IndInv /\ [Next]_vars => PCKinds'
<1> SUFFICES ASSUME IndInv, [Next]_vars PROVE PCKinds'
  OBVIOUS
<1>I. TypeOK /\ PCKinds /\ Driven /\ Queued
  BY DEF IndInv
<1> USE DEF TypeOK, PCKinds, Driven, Goto, TaskPCs, SetterPCs, BodyPCs,
    Emplacing, IsReady
<1>Create. ASSUME NEW h \in Handles, Create(h) PROVE PCKinds'
  BY <1>I, ActorSets, <1>Create DEF Create
<1>Release. ASSUME NEW h \in Handles, Release(h) PROVE PCKinds'
  BY <1>I, ActorSets, <1>Release DEF Release
<1>Free. ASSUME NEW h \in Handles, Free(h) PROVE PCKinds'
  BY <1>I, ActorSets, <1>Free DEF Free
<1>Copy. ASSUME NEW from \in Handles, NEW to \in Handles, Copy(from, to) PROVE PCKinds'
  BY <1>I, ActorSets, <1>Copy DEF Copy
<1>Move. ASSUME NEW from \in Handles, NEW to \in Handles, Move(from, to) PROVE PCKinds'
  BY <1>I, ActorSets, <1>Move DEF Move
<1>User. ASSUME NEW t \in Tasks, NEW w, UserMove(t, w) PROVE PCKinds'
  BY <1>I, ActorSets, <1>User DEF UserMove
<1>AwaitLocked. ASSUME NEW t \in Tasks, AwaitLocked(t) PROVE PCKinds'
  BY <1>I, ActorSets, <1>AwaitLocked DEF AwaitLocked
<1>Yield. ASSUME NEW t \in Tasks, Yield(t) PROVE PCKinds'
  BY <1>I, ActorSets, <1>Yield DEF Yield
<1>Finish. ASSUME NEW s \in Setters, NEW o \in Outcomes, FinishSetState(s, o) PROVE PCKinds'
  <2>1. FinishMoves(s, o)
    BY <1>I, <1>Finish, FinishPC
  <2> QED
    BY <1>I, ActorSets, <2>1 DEF FinishMoves, Emplacing
<1>Begin. ASSUME NEW s \in Setters, NEW o \in Outcomes, BeginSetState(s, o) PROVE PCKinds'
  BY <1>I, ActorSets, <1>Begin DEF BeginSetState, EmplacePC
<1>Resume. ASSUME NEW s \in Setters, ResumeNext(s) PROVE PCKinds'
  <2>1. PICK t \in Tasks : ResumeMoves(s, t)
    BY <1>I, <1>Resume, ResumePC
  <2> QED
    BY <1>I, ActorSets, <2>1 DEF ResumeMoves
<1>End. ASSUME NEW s \in Setters, EndSetState(s) PROVE PCKinds'
  BY <1>I, ActorSets, <1>End DEF EndSetState
<1>Final. ASSUME FinalSuspend PROVE PCKinds'
  BY <1>I, ActorSets, <1>Final DEF FinalSuspend
<1>Suspend. ASSUME SuspendFrame PROVE PCKinds'
  BY <1>I, ActorSets, <1>Suspend DEF SuspendFrame
<1>Destroy. ASSUME DestroyFrame PROVE PCKinds'
  BY <1>I, ActorSets, <1>Destroy DEF DestroyFrame
<1>Same. CASE UNCHANGED vars
  BY <1>I, <1>Same DEF vars
<1> HIDE DEF TypeOK, PCKinds, Driven, Goto, TaskPCs, SetterPCs, BodyPCs,
    Emplacing, IsReady
<1> QED
  BY <1>Create, <1>Release, <1>Free, <1>Copy, <1>Move, <1>User, <1>AwaitLocked,
      <1>Yield, <1>Finish, <1>Begin, <1>Resume, <1>End, <1>Final, <1>Suspend,
      <1>Destroy, <1>Same, NextCases, UserMoves

\* A step keeps the count equal to the number of handles.
LEMMA CountKept == IndInv /\ [Next]_vars => RefCountExact'
<1> SUFFICES ASSUME IndInv, [Next]_vars PROVE RefCountExact'
  OBVIOUS
<1>I. TypeOK /\ RefCountExact
  BY DEF IndInv
<1>H. holds \in [Handles -> BOOLEAN]
  BY DEF IndInv, TypeOK
<1> USE DEF TypeOK, RefCountExact, REFCOUNT_UNSET, AddRef, CanUse, UnchangedShared
<1>Create. ASSUME NEW h \in Handles, Create(h) PROVE RefCountExact'
  <2>1. Holders = {} /\ refCount' = 1
    BY <1>I, <1>Create DEF Create
  <2>2. Holders' = {h}
    BY <1>H, <1>Create, <2>1 DEF Create, Holders
  <2>3. Cardinality({h}) = 1
    BY FS_Singleton
  <2> QED
    BY <2>1, <2>2, <2>3
<1>Release. ASSUME NEW h \in Handles, Release(h) PROVE RefCountExact'
  <2>1. refCount = Cardinality(Holders) /\ refCount \in Nat /\ refCount >= 1
    BY <1>I, <1>Release, HeldCount DEF Release
  <2>2. Cardinality(Holders') = Cardinality(Holders) - 1
    BY <1>H, <1>Release, HoldersChange DEF Release
  <2> QED
    BY <1>Release, <2>1, <2>2 DEF Release
<1>Copy. ASSUME NEW from \in Handles, NEW to \in Handles, Copy(from, to) PROVE RefCountExact'
  <2>1. refCount = Cardinality(Holders) /\ refCount \in Nat /\ refCount >= 1
    BY <1>I, <1>Copy, HeldCount DEF Copy
  <2>2. Cardinality(Holders') = Cardinality(Holders) + 1
    BY <1>H, <1>Copy, HoldersChange DEF Copy
  <2> QED
    BY <1>Copy, <2>1, <2>2 DEF Copy
<1>Move. ASSUME NEW from \in Handles, NEW to \in Handles, Move(from, to) PROVE RefCountExact'
  <2>1. refCount = Cardinality(Holders) /\ refCount \in Nat /\ refCount >= 1
    BY <1>I, <1>Move, HeldCount DEF Move
  <2>2. Cardinality(Holders') = Cardinality(Holders)
    BY <1>H, <1>Move, HoldersChange DEF Move
  <2> QED
    BY <1>Move, <2>1, <2>2 DEF Move
<1>Quiet. ASSUME UNCHANGED <<refCount, holds>> PROVE RefCountExact'
  BY <1>I, <1>Quiet DEF Holders
<1> HIDE DEF TypeOK, RefCountExact, REFCOUNT_UNSET, AddRef, CanUse, UnchangedShared
<1> QED
  BY <1>Create, <1>Release, <1>Copy, <1>Move, <1>Quiet, NextCases, UserMoves
  DEF vars, UnchangedShared, Free, UserMove, AwaitLocked, Yield,
      FinishSetState, BeginSetState, ResumeNext, EndSetState, FinalSuspend,
      SuspendFrame, DestroyFrame

\* A step keeps a reference under every operation.
LEMMA OccupiedKept == IndInv /\ [Next]_vars => Occupied'
<1> SUFFICES ASSUME IndInv, [Next]_vars PROVE Occupied'
  OBVIOUS
<1>I. TypeOK /\ PCKinds /\ Occupied /\ Driven /\ Queued
  BY DEF IndInv
<1> USE DEF TypeOK, Occupied, Driven, Goto, UnchangedShared, CanUse, Idle, MaySet
<1>Create. ASSUME NEW h \in Handles, Create(h) PROVE Occupied'
  BY <1>I, ActorSets, <1>Create DEF Create
<1>Release. ASSUME NEW h \in Handles, Release(h) PROVE Occupied'
  BY <1>I, ActorSets, <1>Release DEF Release
<1>Free. ASSUME NEW h \in Handles, Free(h) PROVE Occupied'
  BY <1>I, ActorSets, <1>Free DEF Free
<1>Copy. ASSUME NEW from \in Handles, NEW to \in Handles, Copy(from, to) PROVE Occupied'
  BY <1>I, ActorSets, <1>Copy DEF Copy
<1>Move. ASSUME NEW from \in Handles, NEW to \in Handles, Move(from, to) PROVE Occupied'
  BY <1>I, ActorSets, <1>Move, ZenonT(60) DEF Move
<1>User. ASSUME NEW t \in Tasks, NEW w, UserMove(t, w) PROVE Occupied'
  BY <1>I, ActorSets, <1>User DEF UserMove
<1>AwaitLocked. ASSUME NEW t \in Tasks, AwaitLocked(t) PROVE Occupied'
  BY <1>I, ActorSets, <1>AwaitLocked DEF AwaitLocked
<1>Yield. ASSUME NEW t \in Tasks, Yield(t) PROVE Occupied'
  BY <1>I, ActorSets, <1>Yield DEF Yield
<1>Finish. ASSUME NEW s \in Setters, NEW o \in Outcomes, FinishSetState(s, o) PROVE Occupied'
  <2>1. FinishMoves(s, o)
    BY <1>I, <1>Finish, FinishPC
  <2> QED
    BY <1>I, ActorSets, <2>1 DEF FinishMoves, Emplacing
<1>Begin. ASSUME NEW s \in Setters, NEW o \in Outcomes, BeginSetState(s, o) PROVE Occupied'
  BY <1>I, ActorSets, <1>Begin DEF BeginSetState, EmplacePC
<1>Resume. ASSUME NEW s \in Setters, ResumeNext(s) PROVE Occupied'
  <2>1. PICK t \in Tasks : ResumeMoves(s, t)
    BY <1>I, <1>Resume, ResumePC
  <2> QED
    BY <1>I, ActorSets, <2>1 DEF ResumeMoves
<1>End. ASSUME NEW s \in Setters, EndSetState(s) PROVE Occupied'
  BY <1>I, ActorSets, <1>End DEF EndSetState
<1>Final. ASSUME FinalSuspend PROVE Occupied'
  BY <1>I, ActorSets, <1>Final DEF FinalSuspend
<1>Suspend. ASSUME SuspendFrame PROVE Occupied'
  BY <1>I, ActorSets, <1>Suspend DEF SuspendFrame
<1>Destroy. ASSUME DestroyFrame PROVE Occupied'
  BY <1>I, ActorSets, <1>Destroy DEF DestroyFrame
<1>Same. CASE UNCHANGED vars
  BY <1>I, <1>Same DEF vars
<1> HIDE DEF TypeOK, Occupied, Driven, Goto, UnchangedShared, CanUse, Idle, MaySet
<1> QED
  BY <1>Create, <1>Release, <1>Free, <1>Copy, <1>Move, <1>User, <1>AwaitLocked,
      <1>Yield, <1>Finish, <1>Begin, <1>Resume, <1>End, <1>Final, <1>Suspend,
      <1>Destroy, <1>Same, NextCases, UserMoves

\* A step keeps the lock and the valueless state together.
LEMMA OwnerKept == IndInv /\ [Next]_vars => Owner'
<1> SUFFICES ASSUME IndInv, [Next]_vars PROVE Owner'
  OBVIOUS
<1>I. TypeOK /\ PCKinds /\ Owner /\ Ended /\ Driven /\ Queued
  BY DEF IndInv
<1> USE DEF TypeOK, Owner, Ended, Driven, Goto, UnchangedShared, CanUse, Idle,
    MaySet, Emplacing, LockFree, TaskPCs, Outcomes
<1>Create. ASSUME NEW h \in Handles, Create(h) PROVE Owner'
  BY <1>I, ActorSets, <1>Create DEF Create
<1>Release. ASSUME NEW h \in Handles, Release(h) PROVE Owner'
  BY <1>I, ActorSets, <1>Release DEF Release
<1>Free. ASSUME NEW h \in Handles, Free(h) PROVE Owner'
  BY <1>I, ActorSets, <1>Free DEF Free
<1>Copy. ASSUME NEW from \in Handles, NEW to \in Handles, Copy(from, to) PROVE Owner'
  BY <1>I, ActorSets, <1>Copy DEF Copy
<1>Move. ASSUME NEW from \in Handles, NEW to \in Handles, Move(from, to) PROVE Owner'
  BY <1>I, ActorSets, <1>Move DEF Move
<1>User. ASSUME NEW t \in Tasks, NEW w, UserMove(t, w) PROVE Owner'
  BY <1>I, ActorSets, <1>User DEF UserMove
<1>AwaitLocked. ASSUME NEW t \in Tasks, AwaitLocked(t) PROVE Owner'
  BY <1>I, ActorSets, <1>AwaitLocked DEF AwaitLocked
<1>Yield. ASSUME NEW t \in Tasks, Yield(t) PROVE Owner'
  BY <1>I, ActorSets, <1>Yield DEF Yield
<1>Finish. ASSUME NEW s \in Setters, NEW o \in Outcomes, FinishSetState(s, o) PROVE Owner'
  <2>1. FinishMoves(s, o)
    BY <1>I, <1>Finish, FinishPC
  <2> QED
    BY <1>I, ActorSets, <2>1 DEF FinishMoves, Emplacing
<1>Begin. ASSUME NEW s \in Setters, NEW o \in Outcomes, BeginSetState(s, o) PROVE Owner'
  BY <1>I, ActorSets, <1>Begin DEF BeginSetState, EmplacePC
<1>Resume. ASSUME NEW s \in Setters, ResumeNext(s) PROVE Owner'
  <2>1. PICK t \in Tasks : ResumeMoves(s, t)
    BY <1>I, <1>Resume, ResumePC
  <2> QED
    BY <1>I, ActorSets, <2>1 DEF ResumeMoves
<1>End. ASSUME NEW s \in Setters, EndSetState(s) PROVE Owner'
  BY <1>I, ActorSets, <1>End DEF EndSetState
<1>Final. ASSUME FinalSuspend PROVE Owner'
  BY <1>I, ActorSets, <1>Final DEF FinalSuspend
<1>Suspend. ASSUME SuspendFrame PROVE Owner'
  BY <1>I, ActorSets, <1>Suspend DEF SuspendFrame
<1>Destroy. ASSUME DestroyFrame PROVE Owner'
  BY <1>I, ActorSets, <1>Destroy DEF DestroyFrame
<1>Same. CASE UNCHANGED vars
  BY <1>I, <1>Same DEF vars
<1> HIDE DEF TypeOK, Owner, Ended, Driven, Goto, UnchangedShared, CanUse, Idle,
    MaySet, Emplacing, LockFree, TaskPCs, Outcomes
<1> QED
  BY <1>Create, <1>Release, <1>Free, <1>Copy, <1>Move, <1>User, <1>AwaitLocked,
      <1>Yield, <1>Finish, <1>Begin, <1>Resume, <1>End, <1>Final, <1>Suspend,
      <1>Destroy, <1>Same, NextCases, UserMoves

\* A step keeps the order of the end: final suspend, count zero, one free.
LEMMA EndedKept == IndInv /\ [Next]_vars => Ended'
<1> SUFFICES ASSUME IndInv, [Next]_vars PROVE Ended'
  OBVIOUS
<1>I. TypeOK /\ PCKinds /\ RefCountExact /\ Ended /\ Driven /\ Queued
  BY DEF IndInv
<1> USE DEF TypeOK, PCKinds, Ended, Driven, Goto, UnchangedShared, CanUse,
    Idle, MaySet, PastFinal, Emplacing, AddRef, REFCOUNT_UNSET, TaskPCs,
    SetterPCs, BodyPCs
<1>Create. ASSUME NEW h \in Handles, Create(h) PROVE Ended'
  BY <1>I, ActorSets, <1>Create DEF Create
<1>Release. ASSUME NEW h \in Handles, Release(h) PROVE Ended'
  BY <1>I, ActorSets, <1>Release, HeldCount DEF Release, CanUse
<1>Free. ASSUME NEW h \in Handles, Free(h) PROVE Ended'
  BY <1>I, ActorSets, <1>Free DEF Free
<1>Copy. ASSUME NEW from \in Handles, NEW to \in Handles, Copy(from, to) PROVE Ended'
  BY <1>I, ActorSets, <1>Copy, HeldCount DEF Copy
<1>Move. ASSUME NEW from \in Handles, NEW to \in Handles, Move(from, to) PROVE Ended'
  BY <1>I, ActorSets, <1>Move DEF Move
<1>User. ASSUME NEW t \in Tasks, NEW w, UserMove(t, w) PROVE Ended'
  BY <1>I, ActorSets, <1>User DEF UserMove
<1>AwaitLocked. ASSUME NEW t \in Tasks, AwaitLocked(t) PROVE Ended'
  BY <1>I, ActorSets, <1>AwaitLocked DEF AwaitLocked
<1>Yield. ASSUME NEW t \in Tasks, Yield(t) PROVE Ended'
  BY <1>I, ActorSets, <1>Yield DEF Yield
<1>Finish. ASSUME NEW s \in Setters, NEW o \in Outcomes, FinishSetState(s, o) PROVE Ended'
  <2>1. FinishMoves(s, o)
    BY <1>I, <1>Finish, FinishPC
  <2>2. \A a \in Actors : /\ pc'[a] \in PastFinal <=> pc[a] \in PastFinal
                          /\ pc'[a] = "free" <=> pc[a] = "free"
                          /\ pc'[a] = "destroying" <=> pc[a] = "destroying"
                          /\ pc'[a] = "created" <=> pc[a] = "created"
    BY <2>1 DEF FinishMoves
  <2>3. IsCoroutine => Body \in Actors
    BY ActorSets
  <2> QED
    BY <1>I, ActorSets, <2>1, <2>2, <2>3 DEF FinishMoves
<1>Begin. ASSUME NEW s \in Setters, NEW o \in Outcomes, BeginSetState(s, o) PROVE Ended'
  BY <1>I, ActorSets, <1>Begin DEF BeginSetState, EmplacePC
<1>Resume. ASSUME NEW s \in Setters, ResumeNext(s) PROVE Ended'
  <2>1. PICK t \in Tasks : ResumeMoves(s, t)
    BY <1>I, <1>Resume, ResumePC
  <2> QED
    BY <1>I, ActorSets, <2>1 DEF ResumeMoves
<1>End. ASSUME NEW s \in Setters, EndSetState(s) PROVE Ended'
  BY <1>I, ActorSets, <1>End DEF EndSetState
<1>Final. ASSUME FinalSuspend PROVE Ended'
  BY <1>I, ActorSets, <1>Final DEF FinalSuspend
<1>Suspend. ASSUME SuspendFrame PROVE Ended'
  BY <1>I, ActorSets, <1>Suspend DEF SuspendFrame
<1>Destroy. ASSUME DestroyFrame PROVE Ended'
  BY <1>I, ActorSets, <1>Destroy DEF DestroyFrame
<1>Same. CASE UNCHANGED vars
  BY <1>I, <1>Same DEF vars
<1> HIDE DEF TypeOK, PCKinds, Ended, Driven, Goto, UnchangedShared, CanUse,
    Idle, MaySet, PastFinal, Emplacing, AddRef, REFCOUNT_UNSET, TaskPCs,
    SetterPCs, BodyPCs
<1> QED
  BY <1>Create, <1>Release, <1>Free, <1>Copy, <1>Move, <1>User, <1>AwaitLocked,
      <1>Yield, <1>Finish, <1>Begin, <1>Resume, <1>End, <1>Final, <1>Suspend,
      <1>Destroy, <1>Same, NextCases, UserMoves

\* A step keeps resumed users and their resumers paired.
LEMMA DrivenKept == IndInv /\ [Next]_vars => Driven'
<1> SUFFICES ASSUME IndInv, [Next]_vars PROVE Driven'
  OBVIOUS
<1>I. TypeOK /\ PCKinds /\ Ended /\ Driven /\ Queued
  BY DEF IndInv
<1> USE DEF TypeOK, PCKinds, Ended, Driven, Goto, UnchangedShared, CanUse,
    Idle, MaySet, Emplacing, TaskPCs, SetterPCs
<1>Create. ASSUME NEW h \in Handles, Create(h) PROVE Driven'
  BY <1>I, ActorSets, <1>Create DEF Create
<1>Release. ASSUME NEW h \in Handles, Release(h) PROVE Driven'
  BY <1>I, ActorSets, <1>Release DEF Release
<1>Free. ASSUME NEW h \in Handles, Free(h) PROVE Driven'
  BY <1>I, ActorSets, <1>Free DEF Free
<1>Copy. ASSUME NEW from \in Handles, NEW to \in Handles, Copy(from, to) PROVE Driven'
  BY <1>I, ActorSets, <1>Copy DEF Copy
<1>Move. ASSUME NEW from \in Handles, NEW to \in Handles, Move(from, to) PROVE Driven'
  BY <1>I, ActorSets, <1>Move DEF Move
<1>User. ASSUME NEW t \in Tasks, NEW w, UserMove(t, w) PROVE Driven'
  BY <1>I, ActorSets, <1>User DEF UserMove
<1>AwaitLocked. ASSUME NEW t \in Tasks, AwaitLocked(t) PROVE Driven'
  BY <1>I, ActorSets, <1>AwaitLocked DEF AwaitLocked
<1>Yield. ASSUME NEW t \in Tasks, Yield(t) PROVE Driven'
  BY <1>I, ActorSets, <1>Yield DEF Yield
<1>Finish. ASSUME NEW s \in Setters, NEW o \in Outcomes, FinishSetState(s, o) PROVE Driven'
  <2>1. FinishMoves(s, o)
    BY <1>I, <1>Finish, FinishPC
  <2> QED
    BY <1>I, ActorSets, <2>1 DEF FinishMoves, Emplacing
<1>Begin. ASSUME NEW s \in Setters, NEW o \in Outcomes, BeginSetState(s, o) PROVE Driven'
  BY <1>I, ActorSets, <1>Begin DEF BeginSetState, EmplacePC
<1>Resume. ASSUME NEW s \in Setters, ResumeNext(s) PROVE Driven'
  <2>1. PICK t \in Tasks : ResumeMoves(s, t)
    BY <1>I, <1>Resume, ResumePC
  <2> QED
    BY <1>I, ActorSets, <2>1 DEF ResumeMoves
<1>End. ASSUME NEW s \in Setters, EndSetState(s) PROVE Driven'
  BY <1>I, ActorSets, <1>End DEF EndSetState
<1>Final. ASSUME FinalSuspend PROVE Driven'
  BY <1>I, ActorSets, <1>Final DEF FinalSuspend
<1>Suspend. ASSUME SuspendFrame PROVE Driven'
  BY <1>I, ActorSets, <1>Suspend DEF SuspendFrame
<1>Destroy. ASSUME DestroyFrame PROVE Driven'
  BY <1>I, ActorSets, <1>Destroy DEF DestroyFrame
<1>Same. CASE UNCHANGED vars
  BY <1>I, <1>Same DEF vars
<1> HIDE DEF TypeOK, PCKinds, Ended, Driven, Goto, UnchangedShared, CanUse,
    Idle, MaySet, Emplacing, TaskPCs, SetterPCs
<1> QED
  BY <1>Create, <1>Release, <1>Free, <1>Copy, <1>Move, <1>User, <1>AwaitLocked,
      <1>Yield, <1>Finish, <1>Begin, <1>Resume, <1>End, <1>Final, <1>Suspend,
      <1>Destroy, <1>Same, NextCases, UserMoves

\* A step that moves no user into or out of suspension and leaves the lists
\* alone keeps the line-up.
LEMMA QueuedFrame ==
    ASSUME TypeOK, Queued, UNCHANGED <<waiters, toResume>>,
           (mState = "waiters") = (mState' = "waiters"),
           \A t \in Tasks : pc'[t] = "suspended" <=> pc[t] = "suspended"
    PROVE  Queued'
<1>1. \A i \in 1..Len(waiters) : waiters[i] \in Tasks
  BY DEF TypeOK
<1>2. \A s \in Setters : \A i \in 1..Len(toResume[s]) : toResume[s][i] \in Tasks
  BY DEF TypeOK
<1>3. Line(waiters)'
  BY <1>1 DEF Queued, Line
<1>4. \A s \in Setters : Line(toResume[s])'
  BY <1>2 DEF Queued, Line
<1> QED
  BY <1>3, <1>4 DEF Queued

\* The first waiter leaves its line, and the rest stays a line.
LEMMA LineTail ==
    ASSUME NEW q \in Seq(Tasks), q # <<>>
    PROVE  /\ Tail(q) \in Seq(Tasks) /\ Len(Tail(q)) = Len(q) - 1 /\ Len(q) \in Nat
           /\ Head(q) = q[1] /\ 1 \in 1..Len(q)
           /\ \A i \in 1..Len(Tail(q)) : i + 1 \in 1..Len(q) /\ Tail(q)[i] = q[i + 1]
           /\ \A i \in 1..Len(q) : i # 1 => i - 1 \in 1..Len(Tail(q)) /\ q[i] = Tail(q)[i - 1]
OBVIOUS

\* A step keeps the suspended users lined up, each once.
LEMMA QueuedKept == IndInv /\ [Next]_vars => Queued'
<1> SUFFICES ASSUME IndInv, [Next]_vars PROVE Queued'
  OBVIOUS
<1>I. TypeOK /\ PCKinds /\ Owner /\ Driven /\ Queued
  BY DEF IndInv
<1>Create. ASSUME NEW h \in Handles, Create(h) PROVE Queued'
  <2>1. \A u \in Tasks : pc'[u] = "suspended" <=> pc[u] = "suspended"
    BY <1>I, ActorSets, <1>Create DEF Create, Goto, CanUse, Idle, TaskPCs,
        TypeOK, TypeOK
  <2> QED
    BY <1>I, <1>Create, <2>1, QueuedFrame DEF Create, UnchangedShared
<1>Release. ASSUME NEW h \in Handles, Release(h) PROVE Queued'
  <2>1. \A u \in Tasks : pc'[u] = "suspended" <=> pc[u] = "suspended"
    BY <1>I, ActorSets, <1>Release DEF Release, Goto, CanUse, Idle, TaskPCs, TypeOK
  <2> QED
    BY <1>I, <1>Release, <2>1, QueuedFrame DEF Release, UnchangedShared
<1>Free. ASSUME NEW h \in Handles, Free(h) PROVE Queued'
  <2>1. \A u \in Tasks : pc'[u] = "suspended" <=> pc[u] = "suspended"
    BY <1>I, ActorSets, <1>Free DEF Free, Goto, CanUse, Idle, TaskPCs, TypeOK
  <2> QED
    BY <1>I, <1>Free, <2>1, QueuedFrame DEF Free, UnchangedShared
<1>Copy. ASSUME NEW from \in Handles, NEW to \in Handles, Copy(from, to) PROVE Queued'
  <2>1. \A u \in Tasks : pc'[u] = "suspended" <=> pc[u] = "suspended"
    BY <1>I, ActorSets, <1>Copy DEF Copy, Goto, CanUse, Idle, TaskPCs, TypeOK
  <2> QED
    BY <1>I, <1>Copy, <2>1, QueuedFrame DEF Copy, UnchangedShared
<1>Move. ASSUME NEW from \in Handles, NEW to \in Handles, Move(from, to) PROVE Queued'
  <2>1. \A u \in Tasks : pc'[u] = "suspended" <=> pc[u] = "suspended"
    BY <1>I, ActorSets, <1>Move DEF Move, Goto, CanUse, Idle, TaskPCs, TypeOK
  <2> QED
    BY <1>I, <1>Move, <2>1, QueuedFrame DEF Move, UnchangedShared
<1>User. ASSUME NEW t \in Tasks, NEW w, UserMove(t, w) PROVE Queued'
  <2>1. \A u \in Tasks : pc'[u] = "suspended" <=> pc[u] = "suspended"
    BY <1>I, ActorSets, <1>User DEF UserMove, Goto, CanUse, Idle, TaskPCs, TypeOK
  <2> QED
    BY <1>I, <1>User, <2>1, QueuedFrame DEF UserMove, UnchangedShared
<1>AwaitLocked. ASSUME NEW t \in Tasks, AwaitLocked(t) PROVE Queued'
  <2>1. CASE IsReady
    <3>1. /\ \A u \in Tasks : pc'[u] = "suspended" <=> pc[u] = "suspended"
          /\ UNCHANGED <<mState, waiters, toResume>>
      BY <1>I, ActorSets, <1>AwaitLocked, <2>1
      DEF AwaitLocked, Goto, TypeOK, UnchangedShared
    <3> QED
      BY <1>I, <3>1, QueuedFrame
  <2>2. CASE ~IsReady
    <3>1. /\ mState = "waiters" /\ mState' = "waiters" /\ pc[t] # "suspended"
          /\ waiters' = Append(waiters, t) /\ UNCHANGED toResume
      BY <1>I, <1>AwaitLocked, <2>2
      DEF AwaitLocked, TypeOK, Owner, LockFree, IsReady, UnchangedShared
    <3>2. \A u \in Tasks : pc'[u] = IF u = t THEN "suspended" ELSE pc[u]
      BY <1>I, ActorSets, <1>AwaitLocked, <2>2 DEF AwaitLocked, Goto, TypeOK
    <3>3. /\ Len(waiters) \in Nat /\ Len(waiters') = Len(waiters) + 1
          /\ \A i \in 1..Len(waiters) : waiters[i] \in Tasks /\ waiters'[i] = waiters[i]
          /\ waiters'[Len(waiters) + 1] = t
      BY <1>I, <3>1 DEF TypeOK
    <3>4. \A i \in 1..Len(waiters) : waiters[i] # t
      BY <1>I, <3>1 DEF Queued, Line
    <3>5. Line(waiters)'
      BY <1>I, <3>2, <3>3, <3>4 DEF Queued, Line
    <3>6. \A s \in Setters : toResume'[s] = <<>>
      BY <1>I, <3>1 DEF Queued
    <3>7. \A u \in Tasks : pc'[u] = "suspended" =>
              \E i \in 1..Len(waiters') : waiters'[i] = u
      BY <1>I, <3>1, <3>2, <3>3 DEF Queued
    <3> QED
      BY <3>1, <3>5, <3>6, <3>7 DEF Queued, Line
  <2> QED
    BY <2>1, <2>2
<1>Yield. ASSUME NEW t \in Tasks, Yield(t) PROVE Queued'
  <2>1. \A u \in Tasks : pc'[u] = "suspended" <=> pc[u] = "suspended"
    BY <1>I, ActorSets, <1>Yield DEF Yield, Goto, CanUse, Idle, TaskPCs,
        MaySet, TypeOK, Driven
  <2> QED
    BY <1>I, <1>Yield, <2>1, QueuedFrame DEF Yield, UnchangedShared
<1>Finish. ASSUME NEW s \in Setters, NEW o \in Outcomes, FinishSetState(s, o) PROVE Queued'
  <2>1. FinishMoves(s, o)
    BY <1>I, <1>Finish, FinishPC
  <2>2. mutex = s /\ mState # "waiters" /\ mState' # "waiters"
    BY <1>I, ActorSets, <2>1 DEF FinishMoves, Owner, Outcomes
  <2>3. \A u \in Tasks : pc'[u] = "suspended" <=> pc[u] = "suspended"
    BY <1>I, ActorSets, <2>1 DEF FinishMoves
  <2> QED
    BY <1>I, <2>1, <2>2, <2>3, QueuedFrame DEF FinishMoves
<1>Begin. ASSUME NEW s \in Setters, NEW o \in Outcomes, BeginSetState(s, o) PROVE Queued'
  <2>1. /\ mState = "waiters" /\ mState' = "npos" /\ waiters' = <<>>
        /\ toResume' = [toResume EXCEPT ![s] = waiters]
    BY <1>I, <1>Begin DEF BeginSetState, TypeOK, Owner, LockFree, IsReady
  <2>2. \A r \in Setters : toResume'[r] = IF r = s THEN waiters ELSE <<>>
    BY <1>I, <2>1 DEF TypeOK, Queued
  <2>3. \A u \in Tasks : pc'[u] = pc[u]
    BY <1>I, ActorSets, <1>Begin DEF BeginSetState, Goto, TypeOK
  <2>4. \A i \in 1..Len(waiters) : waiters[i] \in Tasks
    BY <1>I DEF TypeOK
  <2>5. Line(waiters)' /\ \A r \in Setters : Line(toResume[r])'
    BY <1>I, <2>1, <2>2, <2>3, <2>4 DEF Queued, Line
  <2>6. \A u \in Tasks : pc'[u] = "suspended" =>
            \E i \in 1..Len(toResume'[s]) : toResume'[s][i] = u
    BY <1>I, <2>1, <2>2, <2>3 DEF Queued
  <2> QED
    BY <2>1, <2>2, <2>5, <2>6 DEF Queued
<1>Resume. ASSUME NEW s \in Setters, ResumeNext(s) PROVE Queued'
  <2>1. PICK t \in Tasks : ResumeMoves(s, t)
    BY <1>I, <1>Resume, ResumePC
  <2> DEFINE q == toResume[s]
  <2>2. q \in Seq(Tasks) /\ q # <<>> /\ t = Head(q) /\ Line(q)
    BY <1>I, <2>1 DEF TypeOK, Queued, ResumeMoves
  <2>3. mState # "waiters" /\ mState' = mState /\ waiters = <<>> /\ waiters' = <<>>
    BY <1>I, <2>1 DEF Queued, ResumeMoves
  <2>4. \A r \in Setters : toResume'[r] = IF r = s THEN Tail(q) ELSE <<>>
    BY <1>I, <2>1 DEF TypeOK, Queued, ResumeMoves
  <2>5. \A u \in Tasks : pc'[u] = IF u = t THEN "fetch" ELSE pc[u]
    BY <1>I, ActorSets, <2>1 DEF TypeOK, ResumeMoves
  <2> HIDE DEF q
  <2>6. \A i \in 1..Len(q) : q[i] \in Tasks /\ (i # 1 => q[i] # t)
    BY <2>2, LineTail DEF Line
  <2>7. /\ \A i \in 1..Len(Tail(q)) : pc'[Tail(q)[i]] = "suspended"
        /\ \A i, j \in 1..Len(Tail(q)) : Tail(q)[i] = Tail(q)[j] => i = j
    <3>1. \A i \in 1..Len(Tail(q)) :
              /\ i + 1 \in 1..Len(q) /\ i + 1 # 1 /\ Tail(q)[i] = q[i + 1]
      BY <2>2, LineTail
    <3>2. \A i \in 1..Len(Tail(q)) : pc'[Tail(q)[i]] = "suspended"
      BY <2>2, <2>5, <2>6, <3>1 DEF Line
    <3>3. ASSUME NEW i \in 1..Len(Tail(q)), NEW j \in 1..Len(Tail(q)),
                 Tail(q)[i] = Tail(q)[j]
          PROVE  i = j
      <4>1. q[i + 1] = q[j + 1]
        BY <3>1, <3>3
      <4>2. i + 1 = j + 1
        BY <2>2, <3>1, <4>1 DEF Line
      <4> QED
        BY <4>2
    <3> QED
      BY <3>2, <3>3
  <2>8. Line(waiters)' /\ \A r \in Setters : Line(toResume[r])'
    <3>1. Line(waiters)'
      BY <2>3 DEF Line
    <3>2. Line(toResume[s])'
      BY <2>4, <2>7 DEF Line
    <3>3. ASSUME NEW r \in Setters, r # s PROVE Line(toResume[r])'
      BY <2>4, <3>3 DEF Line
    <3> QED
      BY <3>1, <3>2, <3>3
  <2>9. ASSUME NEW u \in Tasks, pc'[u] = "suspended"
        PROVE  \E i \in 1..Len(toResume'[s]) : toResume'[s][i] = u
    <3>1. u # t /\ pc[u] = "suspended"
      BY <2>5, <2>9
    <3>2. PICK r \in Setters : \E i \in 1..Len(toResume[r]) : toResume[r][i] = u
      BY <1>I, <2>3, <3>1 DEF Queued
    <3>3. toResume[r] # <<>>
      BY <3>2
    <3>4. r = s
      BY <1>I, <2>2, <3>3 DEF Queued, q
    <3>5. \E i \in 1..Len(q) : q[i] = u
      BY <3>2, <3>4 DEF q
    <3>6. PICK i \in 1..Len(q) : q[i] = u
      BY <3>5
    <3>7. i # 1 /\ i - 1 \in 1..Len(Tail(q)) /\ Tail(q)[i - 1] = u
      BY <2>2, <3>1, <3>6, LineTail
    <3> QED
      BY <2>4, <3>7
  <2> QED
    BY <2>3, <2>4, <2>8, <2>9 DEF Queued
<1>End. ASSUME NEW s \in Setters, EndSetState(s) PROVE Queued'
  <2>1. \A u \in Tasks : pc'[u] = "suspended" <=> pc[u] = "suspended"
    BY <1>I, ActorSets, <1>End DEF EndSetState, Goto, CanUse, Idle, TaskPCs, TypeOK
  <2> QED
    BY <1>I, <1>End, <2>1, QueuedFrame DEF EndSetState, UnchangedShared
<1>Final. ASSUME FinalSuspend PROVE Queued'
  <2>1. \A u \in Tasks : pc'[u] = "suspended" <=> pc[u] = "suspended"
    BY <1>I, ActorSets, <1>Final DEF FinalSuspend, Goto, CanUse, Idle, TaskPCs,
        TypeOK
  <2> QED
    BY <1>I, <1>Final, <2>1, QueuedFrame DEF FinalSuspend, UnchangedShared
<1>Suspend. ASSUME SuspendFrame PROVE Queued'
  <2>1. \A u \in Tasks : pc'[u] = "suspended" <=> pc[u] = "suspended"
    BY <1>I, ActorSets, <1>Suspend DEF SuspendFrame, Goto, CanUse, Idle,
        TaskPCs, TypeOK
  <2> QED
    BY <1>I, <1>Suspend, <2>1, QueuedFrame DEF SuspendFrame, UnchangedShared
<1>Destroy. ASSUME DestroyFrame PROVE Queued'
  <2>1. \A u \in Tasks : pc'[u] = "suspended" <=> pc[u] = "suspended"
    BY <1>I, ActorSets, <1>Destroy DEF DestroyFrame, Goto, CanUse, Idle,
        TaskPCs, TypeOK
  <2> QED
    BY <1>I, <1>Destroy, <2>1, QueuedFrame DEF DestroyFrame, UnchangedShared
<1>Same. CASE UNCHANGED vars
  BY <1>I, <1>Same, QueuedFrame DEF vars
<1> QED
  BY <1>Create, <1>Release, <1>Free, <1>Copy, <1>Move, <1>User, <1>AwaitLocked,
      <1>Yield, <1>Finish, <1>Begin, <1>Resume, <1>End, <1>Final, <1>Suspend,
      <1>Destroy, <1>Same, NextCases, UserMoves

\* A step keeps whoever needs an outcome behind it and the sleepers before it.
LEMMA ResolvedKept == IndInv /\ [Next]_vars => Resolved'
<1> SUFFICES ASSUME IndInv, [Next]_vars PROVE Resolved'
  OBVIOUS
<1>I. TypeOK /\ PCKinds /\ Owner /\ Driven /\ Resolved /\ Queued
  BY DEF IndInv
<1> USE DEF TypeOK, Owner, Resolved, Driven, Goto, UnchangedShared, CanUse,
    Idle, MaySet, Emplacing, LockFree, Outcomes, IsReady
<1>Create. ASSUME NEW h \in Handles, Create(h) PROVE Resolved'
  BY <1>I, ActorSets, <1>Create DEF Create
<1>Release. ASSUME NEW h \in Handles, Release(h) PROVE Resolved'
  BY <1>I, ActorSets, <1>Release DEF Release
<1>Free. ASSUME NEW h \in Handles, Free(h) PROVE Resolved'
  BY <1>I, ActorSets, <1>Free DEF Free
<1>Copy. ASSUME NEW from \in Handles, NEW to \in Handles, Copy(from, to) PROVE Resolved'
  BY <1>I, ActorSets, <1>Copy DEF Copy
<1>Move. ASSUME NEW from \in Handles, NEW to \in Handles, Move(from, to) PROVE Resolved'
  BY <1>I, ActorSets, <1>Move DEF Move
<1>User. ASSUME NEW t \in Tasks, NEW w, UserMove(t, w) PROVE Resolved'
  BY <1>I, ActorSets, <1>User DEF UserMove
<1>AwaitLocked. ASSUME NEW t \in Tasks, AwaitLocked(t) PROVE Resolved'
  BY <1>I, ActorSets, <1>AwaitLocked DEF AwaitLocked
<1>Yield. ASSUME NEW t \in Tasks, Yield(t) PROVE Resolved'
  BY <1>I, ActorSets, <1>Yield DEF Yield
<1>Finish. ASSUME NEW s \in Setters, NEW o \in Outcomes, FinishSetState(s, o) PROVE Resolved'
  <2>1. FinishMoves(s, o)
    BY <1>I, <1>Finish, FinishPC
  <2> QED
    BY <1>I, ActorSets, <2>1 DEF FinishMoves, Emplacing
<1>Begin. ASSUME NEW s \in Setters, NEW o \in Outcomes, BeginSetState(s, o) PROVE Resolved'
  BY <1>I, ActorSets, <1>Begin DEF BeginSetState, EmplacePC
<1>Resume. ASSUME NEW s \in Setters, ResumeNext(s) PROVE Resolved'
  <2>1. PICK t \in Tasks : ResumeMoves(s, t)
    BY <1>I, <1>Resume, ResumePC
  <2> QED
    BY <1>I, ActorSets, <2>1 DEF ResumeMoves
<1>End. ASSUME NEW s \in Setters, EndSetState(s) PROVE Resolved'
  BY <1>I, ActorSets, <1>End DEF EndSetState
<1>Final. ASSUME FinalSuspend PROVE Resolved'
  BY <1>I, ActorSets, <1>Final DEF FinalSuspend
<1>Suspend. ASSUME SuspendFrame PROVE Resolved'
  BY <1>I, ActorSets, <1>Suspend DEF SuspendFrame
<1>Destroy. ASSUME DestroyFrame PROVE Resolved'
  BY <1>I, ActorSets, <1>Destroy DEF DestroyFrame
<1>Same. CASE UNCHANGED vars
  BY <1>I, <1>Same DEF vars
<1> HIDE DEF TypeOK, Owner, Resolved, Driven, Goto, UnchangedShared, CanUse,
    Idle, MaySet, Emplacing, LockFree, Outcomes, IsReady
<1> QED
  BY <1>Create, <1>Release, <1>Free, <1>Copy, <1>Move, <1>User, <1>AwaitLocked,
      <1>Yield, <1>Finish, <1>Begin, <1>Resume, <1>End, <1>Final, <1>Suspend,
      <1>Destroy, <1>Same, NextCases, UserMoves

-----------------------------------------------------------------------------
(* The inductive invariant.                                                *)

\* It holds when the shared state is made.
LEMMA InitIndInv == Init => IndInv
<1> SUFFICES ASSUME Init PROVE IndInv
  OBVIOUS
<1> USE ActorSets DEF Init
<1>1. \A a \in Actors : pc[a] = IF a = Body THEN "created" ELSE "idle"
  OBVIOUS
<1>2. TypeOK
  <2>1. <<>> \in Seq(Tasks)
    OBVIOUS
  <2>2. pc \in [Actors -> TaskPCs \cup SetterPCs \cup BodyPCs]
    BY DEF TaskPCs, SetterPCs, BodyPCs
  <2> QED
    BY <2>1, <2>2 DEF TypeOK, Outcomes, REFCOUNT_UNSET
<1>3. PCKinds
  BY <1>1 DEF PCKinds, TaskPCs, SetterPCs, BodyPCs
<1>4. RefCountExact
  BY DEF RefCountExact, Holders
<1>5. Occupied /\ Owner
  BY <1>1 DEF Occupied, Owner, Emplacing
<1>6. Ended
  BY <1>1 DEF Ended, PastFinal
<1>7. Driven /\ Resolved
  BY <1>1 DEF Driven, Resolved, IsReady, Outcomes
<1>8. Queued
  BY <1>1 DEF Queued, Line
<1> QED
  BY <1>2, <1>3, <1>4, <1>5, <1>6, <1>7, <1>8 DEF IndInv

\* Every step keeps it.
LEMMA StepIndInv == IndInv /\ [Next]_vars => IndInv'
BY TypeKept, PCKindsKept, CountKept, OccupiedKept, OwnerKept, EndedKept,
   DrivenKept, QueuedKept, ResolvedKept
DEF IndInv

\* It is an invariant of every behaviour.
LEMMA Invariance == Spec => []IndInv
BY InitIndInv, StepIndInv, PTL DEF Spec

-----------------------------------------------------------------------------
(* Theorems.                                                               *)

\* The variables keep their types: the state of m_State, the lists of waiters
\* and every actor's place.
THEOREM TypeCorrect == Spec => []TypeOK
<1>1. IndInv => TypeOK
  BY DEF IndInv
<1> QED
  BY <1>1, Invariance, PTL

\* m_RefCount is the number of handles that are not empty (add_ref, remove_ref).
THEOREM CountCorrect == Spec => []RefCountExact
<1>1. IndInv => RefCountExact
  BY DEF IndInv
<1> QED
  BY <1>1, Invariance, PTL

\* The state is destroyed once, by one actor, after the final suspend, when no
\* handle refers to it and no one is in its lock (release_promise_ref,
\* final_suspend, ~promise_base).
THEOREM DestroyedOnce == Spec => []DestroyedOnceUnreferenced
<1>1. ASSUME IndInv PROVE DestroyedOnceUnreferenced
  <2> SUFFICES ASSUME Freeing # {} PROVE /\ Cardinality(Freeing) = 1
                                         /\ ~freed /\ Holders = {}
                                         /\ finalSuspendHasRun /\ LockFree
    BY DEF DestroyedOnceUnreferenced
  <2>1. PICK f \in Freeing : TRUE
    OBVIOUS
  <2>2. finalSuspendHasRun /\ refCount = 0 /\ ~freed
    BY <1>1, <2>1 DEF IndInv, Ended, Freeing, PastFinal
  <2>3. Freeing = {f}
    BY <1>1, <2>1, ActorSets DEF IndInv, Ended, Freeing
  <2>4. Cardinality(Freeing) = 1
    BY <2>3, FS_Singleton
  <2>5. Holders = {}
    <3>1. holds \in [Handles -> BOOLEAN] /\ RefCountExact
      BY <1>1 DEF IndInv, TypeOK
    <3>2. \A h \in Handles : holds[h] => Cardinality(Holders) >= 1
      BY <3>1, HoldersChange
    <3> QED
      BY <2>2, <3>1, <3>2 DEF RefCountExact, Holders, REFCOUNT_UNSET
  <2>6. LockFree
    BY <1>1, <2>2, ActorSets DEF IndInv, Ended, Owner, PastFinal, Emplacing,
        LockFree
  <2> QED
    BY <2>2, <2>4, <2>5, <2>6
<1> QED
  BY <1>1, Invariance, PTL

\* After that no user is in an operation of the state or can start one.
THEOREM NoUseAfter == Spec => []NoUseAfterFree
<1>1. ASSUME IndInv PROVE NoUseAfterFree
  <2> SUFFICES ASSUME freed PROVE NoUseAfterFree
    BY DEF NoUseAfterFree
  <2>1. /\ finalSuspendHasRun /\ refCount = 0 /\ Freeing = {}
        /\ IsCoroutine /\ pc[Body] \in PastFinal \ {"destroying"}
        /\ \A h \in Handles : pc[h] # "free"
    BY <1>1 DEF IndInv, Ended, Freeing
  <2>2. Holders = {}
    <3>1. holds \in [Handles -> BOOLEAN] /\ RefCountExact
      BY <1>1 DEF IndInv, TypeOK
    <3>2. \A h \in Handles : holds[h] => Cardinality(Holders) >= 1
      BY <3>1, HoldersChange
    <3> QED
      BY <2>1, <3>1, <3>2 DEF RefCountExact, Holders, REFCOUNT_UNSET
  <2>3. LockFree
    BY <1>1, <2>1, ActorSets DEF IndInv, Owner, PastFinal, Emplacing, LockFree
  <2>4. \A t \in Tasks : Idle(t)
    BY <1>1, <2>1, <2>2, ActorSets DEF IndInv, Occupied, Holders, Idle
  <2>5. \A s \in Setters : pc[s] \in {"idle", "suspending", "suspended", "done"}
    BY <2>1, ActorSets DEF PastFinal
  <2> QED
    BY <2>1, <2>2, <2>3, <2>4, <2>5 DEF NoUseAfterFree
<1> QED
  BY <1>1, Invariance, PTL

\* No one sleeps or stays listed once the outcome is there (set_state,
\* await_suspend, wait).
THEOREM NoLostWakeup == Spec => []NoSleepOnReady
<1>1. IndInv => NoSleepOnReady
  BY DEF IndInv, Queued, Resolved, NoSleepOnReady, IsReady, Outcomes
<1> QED
  BY <1>1, Invariance, PTL

\* Whoever goes on to read the outcome finds one (the assertions of
\* await_resume and wait).
THEOREM FetchSafe == Spec => []FetchFindsOutcome
<1>1. IndInv => FetchFindsOutcome
  BY DEF IndInv, Resolved, FetchFindsOutcome
<1> QED
  BY <1>1, Invariance, PTL

\* The first outcome stays (the exception of set_state).
THEOREM FirstOutcomeStays == Spec => OutcomeIsFinal
<1>1. IndInv /\ [Next]_vars => [IsReady => mState' = mState]_vars
  <2> SUFFICES ASSUME IndInv, [Next]_vars, IsReady PROVE mState' = mState
    OBVIOUS
  <2>1. ASSUME NEW s \in Setters, NEW o \in Outcomes, FinishSetState(s, o)
        PROVE  mState' = mState
    BY <2>1, ActorSets DEF IndInv, Owner, FinishSetState, EmplacePC, Emplacing,
        IsReady, Outcomes
  <2>2. ASSUME NEW s \in Setters, NEW o \in Outcomes, BeginSetState(s, o)
        PROVE  mState' = mState
    BY <2>2 DEF BeginSetState
  <2> QED
    BY <2>1, <2>2, NextCases
    DEF Create, Release, Free, Copy, Move, UserStep, CoAwait, Get, WaitFor, State,
        AwaitSuspend, WaitLocked, Fetch, TimedLocked, Timeout, TimedOutLocked,
        Spurious, UnchangedShared, AwaitLocked, Yield, ResumeNext, EndSetState,
        FinalSuspend, SuspendFrame, DestroyFrame, vars
<1> QED
  BY <1>1, Invariance, PTL DEF Spec, OutcomeIsFinal

\* Each suspended user waits in one place, and only suspended users do
\* (await_suspend, set_state).
THEOREM Conserved == Spec => []WaitersConserved
<1>1. ASSUME IndInv, NEW t \in Tasks, pc[t] # "suspended" PROVE Places(t) = {}
  <2>1. \A j \in DOMAIN waiters : waiters[j] # t
    BY <1>1 DEF IndInv, Queued, Line, TypeOK
  <2>2. ASSUME NEW s \in Setters, NEW j \in DOMAIN toResume[s]
        PROVE  toResume[s][j] # t
    <3>1. toResume[s] \in Seq(Tasks) /\ Line(toResume[s])
      BY <1>1 DEF IndInv, TypeOK, Queued
    <3> QED
      BY <1>1, <2>2, <3>1 DEF Line
  <2> QED
    BY <2>1, <2>2 DEF Places
<1>2. ASSUME IndInv, NEW t \in Tasks, pc[t] = "suspended" PROVE \E x : Places(t) = {x}
  <2>1. CASE mState = "waiters"
    <3>1. \A s \in Setters : toResume[s] = <<>>
      BY <1>2, <2>1 DEF IndInv, Queued
    <3>2. PICK i \in 1..Len(waiters) : waiters[i] = t
      BY <1>2, <3>1 DEF IndInv, Queued
    <3>3. \A j \in DOMAIN waiters : j \in 1..Len(waiters)
      BY <1>2 DEF IndInv, TypeOK
    <3>4. \A j \in DOMAIN waiters : waiters[j] = t => j = i
      BY <1>2, <3>2, <3>3 DEF IndInv, Queued, Line
    <3>5. i \in DOMAIN waiters
      BY <1>2, <3>2 DEF IndInv, TypeOK
    <3>6. Places(t) = {<<NoOne, i>>}
      BY <3>1, <3>2, <3>4, <3>5 DEF Places
    <3> QED
      BY <3>6
  <2>2. CASE mState # "waiters"
    <3>1. waiters = <<>>
      BY <1>2, <2>2 DEF IndInv, Queued
    <3>2. PICK s \in Setters : \E i \in 1..Len(toResume[s]) : toResume[s][i] = t
      BY <1>2, <3>1 DEF IndInv, Queued
    <3> DEFINE q == toResume[s]
    <3>3. PICK i \in 1..Len(q) : q[i] = t
      BY <3>2
    <3>4. \A r \in Setters : r # s => toResume[r] = <<>>
      BY <1>2, <3>3 DEF IndInv, Queued
    <3>5. q \in Seq(Tasks) /\ Line(q)
      BY <1>2 DEF IndInv, TypeOK, Queued
    <3>6. DOMAIN q = 1..Len(q)
      BY <3>5
    <3>7. \A j \in DOMAIN q : q[j] = t => j = i
      BY <3>3, <3>5, <3>6 DEF Line
    <3>8. \A r \in Setters : {<<r, k>> : k \in {j \in DOMAIN toResume[r] : toResume[r][j] = t}}
                              = IF r = s THEN {<<s, i>>} ELSE {}
      BY <3>3, <3>4, <3>6, <3>7
    <3>9. Places(t) = {<<s, i>>}
      BY <3>1, <3>8 DEF Places
    <3> QED
      BY <3>9
  <2> QED
    BY <2>1, <2>2
<1>3. IndInv => WaitersConserved
  BY <1>1, <1>2, FS_EmptySet, FS_Singleton DEF WaitersConserved
<1> QED
  BY <1>3, Invariance, PTL

\* Every behaviour of the shared state is one of the abstract cell: callers are
\* answered only with the one outcome, and told `timeout` only before it.
THEOREM Refinement == Spec => ImplementsFutureCell
<1> USE DEF Cell!Init, Cell!Next, Cell!cellVars, Cell!Resolve, Cell!Ask,
    Cell!Answer,
            Cell!GiveUp, Cell!Look, Cell!Reply
<1>1. Init => Cell!Init
  BY ActorSets DEF Init, IsReady, Outcomes
<1>2. ASSUME IndInv, [Next]_vars PROVE [Cell!Next]_(Cell!cellVars)
  <2>I. TypeOK /\ PCKinds /\ Owner /\ Queued /\ Resolved
    BY <1>2 DEF IndInv
  <2>1. ASSUME NEW h \in Handles, Create(h) \/ Release(h) \/ Free(h)
        PROVE  UNCHANGED Cell!cellVars
    <3>1. \A t \in Tasks : pc'[t] \in {"idle", "free"} <=> pc[t] \in {"idle", "free"}
      BY <2>I, <2>1, ActorSets DEF Create, Release, Free, CanUse, Idle, TypeOK
    <3> QED
      BY <2>1, <3>1 DEF Create, Release, Free, IsReady
  <2>2. ASSUME NEW from \in Handles, NEW to \in Handles, Copy(from, to) \/ Move(from, to)
        PROVE  UNCHANGED Cell!cellVars
    BY <2>2 DEF Copy, Move, IsReady
  <2>3. ASSUME NEW t \in Tasks, CoAwait(t) \/ Get(t) \/ WaitFor(t)
        PROVE  Cell!Ask(t)
    <3>1. PICK w : /\ w \notin {"idle", "free"} /\ pc' = [pc EXCEPT ![t] = w]
                   /\ pc[t] = "idle" /\ UNCHANGED <<mState, got>>
      BY <2>3 DEF CoAwait, Get, WaitFor, CanUse, Idle, Goto, UnchangedShared
    <3>2. \A u \in Tasks : pc'[u] = IF u = t THEN w ELSE pc[u]
      BY <2>I, <3>1, ActorSets DEF TypeOK
    <3> QED
      BY <3>1, <3>2 DEF IsReady
  <2>4. ASSUME NEW t \in Tasks, State(t)
        PROVE  Cell!Look(t)
    <3>1. /\ pc[t] = "idle" /\ UNCHANGED <<mState, pc>>
          /\ got' = [got EXCEPT ![t] = IF IsReady THEN mState ELSE "running"]
      BY <2>4 DEF State, CanUse, Idle, UnchangedShared
    <3>2. mState # "pending"
      BY <2>I DEF TypeOK, Outcomes
    <3> QED
      BY <3>1, <3>2 DEF IsReady
  <2>5. ASSUME NEW t \in Tasks,
               \/ AwaitSuspend(t) \/ AwaitLocked(t) \/ WaitLocked(t)
               \/ Timeout(t) \/ Spurious(t)
        PROVE  UNCHANGED Cell!cellVars
    <3>1. PICK w : /\ w \notin {"idle", "free"} /\ pc' = [pc EXCEPT ![t] = w]
                   /\ pc[t] \notin {"idle", "free"} /\ UNCHANGED <<mState, got>>
      BY <2>5 DEF AwaitSuspend, AwaitLocked, WaitLocked, Timeout, Spurious, Goto,
                  UnchangedShared
    <3>2. \A u \in Tasks : pc'[u] = IF u = t THEN w ELSE pc[u]
      BY <2>I, <3>1, ActorSets DEF TypeOK
    <3> QED
      BY <3>1, <3>2 DEF IsReady
  <2>6. ASSUME NEW t \in Tasks, Fetch(t) \/ TimedLocked(t) \/ TimedOutLocked(t)
        PROVE  \/ UNCHANGED Cell!cellVars
               \/ Cell!Answer(t) \/ Cell!GiveUp(t)
    <3>1. PICK w : /\ pc' = [pc EXCEPT ![t] = w] /\ pc[t] \notin {"idle", "free"}
                   /\ UNCHANGED mState
                   /\ \/ w = "timed_cv" /\ UNCHANGED got
                      \/ w = "idle" /\ IsReady /\ got' = [got EXCEPT ![t] = mState]
                      \/ w = "idle" /\ IsReady /\ got' = [got EXCEPT ![t] = "ready"]
                      \/ w = "idle" /\ ~IsReady /\ got' = [got EXCEPT ![t] = "timeout"]
      <4>1. CASE Fetch(t)
        BY <2>I, <4>1 DEF Fetch, Goto, UnchangedShared, Resolved
      <4>2. CASE TimedLocked(t)
        BY <2>I, <4>2 DEF TimedLocked, Goto, UnchangedShared, TypeOK
      <4>3. CASE TimedOutLocked(t)
        BY <2>I, <4>3 DEF TimedOutLocked, Goto, UnchangedShared
      <4> QED
        BY <2>6, <4>1, <4>2, <4>3
    <3>2. \A u \in Tasks : pc'[u] = IF u = t THEN w ELSE pc[u]
      BY <2>I, <3>1, ActorSets DEF TypeOK
    <3>3. mState # "pending"
      BY <2>I DEF TypeOK, Outcomes
    <3> QED
      BY <3>1, <3>2, <3>3 DEF IsReady
  <2>7. ASSUME NEW t \in Tasks, Yield(t)
        PROVE  UNCHANGED Cell!cellVars
    <3>1. \A u \in Tasks : pc'[u] = pc[u]
      BY <2>I, <2>7, ActorSets DEF Yield, Goto, TypeOK
    <3> QED
      BY <2>7, <3>1 DEF Yield, IsReady
  <2>8. ASSUME NEW s \in Setters, EndSetState(s)
        PROVE  UNCHANGED Cell!cellVars
    <3>1. \A u \in Tasks : pc'[u] = pc[u]
      BY <2>I, <2>8, ActorSets DEF EndSetState, Goto, TypeOK
    <3> QED
      BY <2>8, <3>1 DEF EndSetState, IsReady
  <2>9. ASSUME NEW s \in Setters, ResumeNext(s)
        PROVE  UNCHANGED Cell!cellVars
    <3>1. PICK t \in Tasks : ResumeMoves(s, t)
      BY <2>I, <2>9, ResumePC
    <3>2. \A u \in Tasks : pc'[u] = IF u = t THEN "fetch" ELSE pc[u]
      BY <2>I, <3>1, ActorSets DEF TypeOK, ResumeMoves
    <3>3. pc[t] = "suspended" /\ UNCHANGED <<mState, got>>
      BY <3>1 DEF ResumeMoves
    <3> QED
      BY <3>2, <3>3 DEF IsReady
  <2>10. ASSUME FinalSuspend \/ SuspendFrame \/ DestroyFrame
         PROVE  UNCHANGED Cell!cellVars
    <3>1. \A u \in Tasks : pc'[u] = pc[u]
      BY <2>I, <2>10, ActorSets DEF FinalSuspend, SuspendFrame, DestroyFrame,
          Goto, TypeOK
    <3> QED
      BY <2>10, <3>1 DEF FinalSuspend, SuspendFrame, DestroyFrame, IsReady
  <2>11. ASSUME NEW s \in Setters, NEW o \in Outcomes, BeginSetState(s, o)
         PROVE  UNCHANGED Cell!cellVars
    <3>1. \A u \in Tasks : pc'[u] = pc[u]
      BY <2>I, <2>11, ActorSets DEF BeginSetState, Goto, TypeOK
    <3> QED
      BY <2>11, <3>1 DEF BeginSetState, IsReady, Outcomes
  <2>12. ASSUME NEW s \in Setters, NEW o \in Outcomes, FinishSetState(s, o)
         PROVE  Cell!Resolve
    <3>1. FinishMoves(s, o)
      BY <2>I, <2>12, FinishPC
    <3>2. ~IsReady /\ IsReady' /\ mState' = o /\ UNCHANGED got
      BY <2>I, <3>1, ActorSets DEF Owner, FinishMoves, IsReady, Outcomes
    <3>3. \A u \in Tasks : pc'[u] \in {"idle", "free"} <=> pc[u] \in {"idle", "free"}
      BY <3>1, ActorSets DEF FinishMoves
    <3> QED
      BY <3>2, <3>3
  <2>13. CASE UNCHANGED vars
    BY <2>13 DEF vars, IsReady
  <2> HIDE DEF Cell!cellVars, Cell!Resolve, Cell!Ask, Cell!Answer, Cell!GiveUp, Cell!Look
  <2> QED
    BY <1>2, <2>1, <2>2, <2>3, <2>4, <2>5, <2>6, <2>7, <2>8, <2>9, <2>10, <2>11,
       <2>12, <2>13, NextCases
    DEF UserStep
<1> QED
  BY <1>1, <1>2, Invariance, PTL DEF Spec, Cell!Spec, ImplementsFutureCell
=============================================================================

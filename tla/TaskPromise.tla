---------------------------- MODULE TaskPromise ----------------------------
(***************************************************************************)
(* One shared state of mh::task (coroutine/task.hpp, coroutine/future.hpp):*)
(* the promise_base object that a set of handles (mh::task, mh::future,    *)
(* mh::shared_future, mh::promise) points to, the coroutine or the         *)
(* mh::promise that resolves it, and the users of the handles, each on a   *)
(* thread or in a coroutine of its own.                                    *)
(*                                                                         *)
(* The promise is either the promise of a coroutine, and lives in its      *)
(* frame (Promises = {}), or an object made by `new detail::promise` for   *)
(* the handles in Promises.                                                *)
(*                                                                         *)
(* Every section under m_Mutex is one step, taken when no one else holds   *)
(* the lock; only set_state is cut in two, because m_State is valueless    *)
(* while emplace destroys the old alternative and readers do not lock.     *)
(* After the emplace, the notify_all and the unlock belong to the same     *)
(* step: whoever reads the new index in between locks before its next      *)
(* write.  m_RefCount is incremented without the lock, but only by the     *)
(* copy of a handle that holds a reference, so the failed exchange and the *)
(* increment of add_ref are one step.                                      *)
(***************************************************************************)
EXTENDS Integers, Sequences, FiniteSets

CONSTANTS
    Tasks,      \* the task handles, each with one user
    Promises,   \* the mh::promise handles; {} when a coroutine resolves
    Body,       \* the coroutine body
    NoOne       \* no owner of the lock, no resumer

IsCoroutine == Promises = {}
Setters == IF IsCoroutine THEN {Body} ELSE Promises
Handles == Tasks \cup Promises
Actors  == Tasks \cup Setters

ASSUME HandlesAssumption ==
    /\ IsFiniteSet(Tasks) /\ IsFiniteSet(Promises)
    /\ Tasks # {} /\ Tasks \cap Promises = {}
    /\ Body \notin Handles /\ NoOne \notin Handles /\ NoOne # Body

REFCOUNT_UNSET == -1234

Outcomes == {"value", "exception"}

TaskPCs == {"idle",
            "await_suspend", "await_lock", "suspended",     \* co_await
            "wait_lock", "wait_cv", "fetch",                \* get, wait
            "timed_lock", "timed_cv", "timed_out",          \* wait_for
            "free"}                                         \* release
SetterPCs == {"idle", "emplace_value", "emplace_exception", "loop", "resuming",
              "free"}
BodyPCs == {"created", "running", "emplace_value", "emplace_exception", "loop",
            "resuming", "final", "suspending", "suspended", "destroying",
            "done"}

VARIABLES
    mState,             \* the alternative in m_State, or "npos" amid emplace
    waiters,            \* the vector in m_State while it is "waiters"
    refCount,           \* m_RefCount
    finalSuspendHasRun, \* m_FinalSuspendHasRun
    mutex,              \* the actor that holds m_Mutex, or NoOne
    freed,              \* the frame or the object has been destroyed
    pc,                 \* where each actor is
    holds,              \* which handles are not empty
    toResume,           \* the local `waiters` of each set_state
    driver,             \* the setter whose resume() runs this user, or NoOne
    got                 \* what the handle's last finished query returned

vars == <<mState, waiters, refCount, finalSuspendHasRun, mutex, freed, pc,
          holds, toResume, driver, got>>

IsReady == mState \in Outcomes
LockFree == mutex = NoOne
Holders == {h \in Handles : holds[h]}
Idle(h) == pc[h] = "idle"
CanUse(h) == holds[h] /\ Idle(h)

Init ==
    /\ mState = "waiters" /\ waiters = <<>>
    /\ refCount = REFCOUNT_UNSET
    /\ finalSuspendHasRun = FALSE
    /\ mutex = NoOne /\ freed = FALSE
    /\ pc = [a \in Actors |-> IF a = Body THEN "created" ELSE "idle"]
    /\ holds = [h \in Handles |-> FALSE]
    /\ toResume = [s \in Setters |-> <<>>]
    /\ driver = [t \in Tasks |-> NoOne]
    /\ got = [t \in Tasks |-> "none"]

----------------------------------------------------------------------------
(* Handles: construction, copy, move and release.                          *)

\* Mutant: the first reference is counted from the unset value.
AddRefFromUnset == refCount' = refCount + 1

AddRef == refCount' = IF refCount = REFCOUNT_UNSET THEN 1 ELSE refCount + 1

\* The first handle: get_return_object for a coroutine, which then runs at
\* once (initial_suspend never suspends), or the constructor of mh::promise.
Create(h) ==
    /\ refCount = REFCOUNT_UNSET
    /\ h \in (IF IsCoroutine THEN Tasks ELSE Promises)
    /\ AddRef
    /\ holds' = [holds EXCEPT ![h] = TRUE]
    /\ pc' = IF IsCoroutine THEN [pc EXCEPT ![Body] = "running"] ELSE pc
    /\ UNCHANGED <<mState, waiters, finalSuspendHasRun, mutex, freed,
                   toResume, driver, got>>

\* A promise hands out tasks and copies of itself, a task only tasks.
Compatible(from, to) == from \in Tasks => to \in Tasks

\* Copy construction, get_task, get_future and the first half of share().
\* Copy assignment is Release(to) and then this step (self-assignment, which
\* releases the handle it is about to read, is Release alone).
Copy(from, to) ==
    /\ CanUse(from) /\ Idle(to) /\ ~holds[to] /\ Compatible(from, to)
    /\ AddRef
    /\ holds' = [holds EXCEPT ![to] = TRUE]
    /\ UNCHANGED <<mState, waiters, finalSuspendHasRun, mutex, freed, pc,
                   toResume, driver, got>>

\* Mutant: the source keeps its pointer.
MoveKeepsSource(from, to) ==
    /\ CanUse(from) /\ Idle(to) /\ ~holds[to]
    /\ (from \in Tasks) = (to \in Tasks)
    /\ holds' = [holds EXCEPT ![to] = TRUE]
    /\ UNCHANGED <<mState, waiters, refCount, finalSuspendHasRun, mutex, freed,
                   pc, toResume, driver, got>>

\* Move construction; move assignment is Release(to) and then this step.
Move(from, to) ==
    /\ CanUse(from) /\ Idle(to) /\ ~holds[to]
    /\ (from \in Tasks) = (to \in Tasks)
    /\ holds' = [holds EXCEPT ![from] = FALSE, ![to] = TRUE]
    /\ UNCHANGED <<mState, waiters, refCount, finalSuspendHasRun, mutex, freed,
                   pc, toResume, driver, got>>

\* Mutant: the last reference does not wait for the final suspend.
ReleaseFreesAtZero(h) ==
    /\ CanUse(h) /\ LockFree
    /\ refCount' = refCount - 1
    /\ holds' = [holds EXCEPT ![h] = FALSE]
    /\ pc' = [pc EXCEPT ![h] = IF refCount - 1 <= 0 THEN "free" ELSE "idle"]
    /\ UNCHANGED <<mState, waiters, finalSuspendHasRun, mutex, freed,
                   toResume, driver, got>>

\* release() up to the unlock of release_promise_ref: the last reference
\* frees the state if the coroutine has passed its final suspend point.
Release(h) ==
    /\ CanUse(h) /\ LockFree
    /\ refCount' = refCount - 1
    /\ holds' = [holds EXCEPT ![h] = FALSE]
    /\ pc' = [pc EXCEPT ![h] = IF refCount - 1 <= 0 /\ finalSuspendHasRun
                               THEN "free" ELSE "idle"]
    /\ UNCHANGED <<mState, waiters, finalSuspendHasRun, mutex, freed,
                   toResume, driver, got>>

\* freeFunc(): m_HandleOpt.destroy() or delete m_PromiseOpt.
Free(h) ==
    /\ pc[h] = "free"
    /\ freed' = TRUE
    /\ pc' = [pc EXCEPT ![h] = "idle"]
    /\ UNCHANGED <<mState, waiters, refCount, finalSuspendHasRun, mutex, holds,
                   toResume, driver, got>>
----------------------------------------------------------------------------
(* The user of a task: co_await, get, wait_for, state.                     *)

Goto(a, where) == pc' = [pc EXCEPT ![a] = where]

UnchangedShared == UNCHANGED <<mState, refCount, finalSuspendHasRun, mutex,
                               freed, holds, toResume, driver>>

\* co_await t: await_ready reads the index without the lock.
CoAwait(t) ==
    /\ CanUse(t)
    /\ Goto(t, IF IsReady THEN "fetch" ELSE "await_suspend")
    /\ UnchangedShared /\ UNCHANGED <<waiters, got>>

\* await_suspend, the first check, without the lock.
AwaitSuspend(t) ==
    /\ pc[t] = "await_suspend"
    /\ Goto(t, IF IsReady THEN "fetch" ELSE "await_lock")
    /\ UnchangedShared /\ UNCHANGED <<waiters, got>>

\* Mutant: no second check under the lock.
AwaitLockedUnchecked(t) ==
    /\ pc[t] = "await_lock" /\ LockFree
    /\ Goto(t, "suspended")
    /\ waiters' = Append(waiters, t)
    /\ UnchangedShared /\ UNCHANGED got

\* await_suspend, the check under the lock: resolved in the meantime, or the
\* coroutine of the user joins the waiters and stays suspended.  A resumed
\* user that suspends would leave its resumer's stack.
AwaitLocked(t) ==
    /\ pc[t] = "await_lock" /\ LockFree
    /\ Goto(t, IF IsReady THEN "fetch" ELSE "suspended")
    /\ waiters' = IF IsReady THEN waiters ELSE Append(waiters, t)
    /\ UnchangedShared /\ UNCHANGED got

\* get(): wait() looks at the index without the lock first.
Get(t) ==
    /\ CanUse(t)
    /\ Goto(t, IF IsReady THEN "fetch" ELSE "wait_lock")
    /\ UnchangedShared /\ UNCHANGED <<waiters, got>>

\* wait(): lock, or wake up with the lock, and test the predicate.
WaitLocked(t) ==
    /\ pc[t] = "wait_lock" /\ LockFree
    /\ Goto(t, IF IsReady THEN "fetch" ELSE "wait_cv")
    /\ UnchangedShared /\ UNCHANGED <<waiters, got>>

\* The rest of get_value and await_resume: rethrow_if_exception, under the
\* lock, or the value.
Fetch(t) ==
    /\ pc[t] = "fetch" /\ LockFree
    /\ got' = [got EXCEPT ![t] = mState]
    /\ Goto(t, "idle")
    /\ UnchangedShared /\ UNCHANGED waiters

\* wait_for and wait_until with a deadline.
WaitFor(t) ==
    /\ CanUse(t)
    /\ Goto(t, "timed_lock")
    /\ UnchangedShared /\ UNCHANGED <<waiters, got>>

TimedLocked(t) ==
    /\ pc[t] = "timed_lock" /\ LockFree
    /\ got' = [got EXCEPT ![t] = IF IsReady THEN "ready" ELSE @]
    /\ Goto(t, IF IsReady THEN "idle" ELSE "timed_cv")
    /\ UnchangedShared /\ UNCHANGED waiters

\* The deadline passes; the lock is taken again before wait_for looks.
Timeout(t) ==
    /\ pc[t] = "timed_cv"
    /\ Goto(t, "timed_out")
    /\ UnchangedShared /\ UNCHANGED <<waiters, got>>

\* Mutant: a deadline that passes is a timeout, whatever happened meanwhile.
TimedOutUnchecked(t) ==
    /\ pc[t] = "timed_out" /\ LockFree
    /\ got' = [got EXCEPT ![t] = "timeout"]
    /\ Goto(t, "idle")
    /\ UnchangedShared /\ UNCHANGED waiters

TimedOutLocked(t) ==
    /\ pc[t] = "timed_out" /\ LockFree
    /\ got' = [got EXCEPT ![t] = IF IsReady THEN "ready" ELSE "timeout"]
    /\ Goto(t, "idle")
    /\ UnchangedShared /\ UNCHANGED waiters

\* state(): get_task_state switches on the index, read without the lock; an
\* index it does not know falls through to `running`.
State(t) ==
    /\ CanUse(t)
    /\ got' = [got EXCEPT ![t] = IF IsReady THEN mState ELSE "running"]
    /\ UnchangedShared /\ UNCHANGED <<waiters, pc>>

\* Mutant: wait() without a predicate.
SpuriousUnchecked(t) ==
    /\ pc[t] \in {"wait_cv", "timed_cv"}
    /\ Goto(t, IF pc[t] = "wait_cv" THEN "fetch" ELSE "timed_lock")
    /\ UnchangedShared /\ UNCHANGED <<waiters, got>>

\* A condition variable may return without a notification.
Spurious(t) ==
    /\ pc[t] \in {"wait_cv", "timed_cv"}
    /\ Goto(t, IF pc[t] = "wait_cv" THEN "wait_lock" ELSE "timed_lock")
    /\ UnchangedShared /\ UNCHANGED <<waiters, got>>

\* A user that runs inside the resume() of a setter suspends elsewhere or
\* finishes, which returns control to the setter.
Yield(t) ==
    /\ Idle(t) /\ driver[t] # NoOne
    /\ Goto(driver[t], "loop")
    /\ driver' = [driver EXCEPT ![t] = NoOne]
    /\ UNCHANGED <<mState, waiters, refCount, finalSuspendHasRun, mutex, freed,
                   holds, toResume, got>>
----------------------------------------------------------------------------
(* The setter: return_value, unhandled_exception, set_value, set_exception.*)

MaySet(s) == IF s = Body THEN pc[s] = "running" ELSE CanUse(s)

EmplacePC(outcome) == IF outcome = "value" THEN "emplace_value"
                                           ELSE "emplace_exception"

\* Mutant: a second outcome replaces the first.
BeginSetStateAgain(s, outcome) ==
    /\ MaySet(s) /\ LockFree
    /\ mutex' = s
    /\ toResume' = [toResume EXCEPT ![s] = waiters]
    /\ waiters' = <<>>
    /\ mState' = "npos"
    /\ Goto(s, EmplacePC(outcome))
    /\ UNCHANGED <<refCount, finalSuspendHasRun, freed, holds, driver, got>>

\* Mutant: the vector dies with the alternative, before it is moved out.
BeginSetStateDropsWaiters(s, outcome) ==
    /\ MaySet(s) /\ LockFree /\ ~IsReady
    /\ mutex' = s
    /\ waiters' = <<>>
    /\ mState' = "npos"
    /\ Goto(s, EmplacePC(outcome))
    /\ UNCHANGED <<refCount, finalSuspendHasRun, freed, holds, toResume, driver,
                   got>>

\* set_state up to the point where emplace has destroyed the vector.
BeginSetState(s, outcome) ==
    /\ MaySet(s) /\ LockFree /\ ~IsReady
    /\ mutex' = s
    /\ toResume' = [toResume EXCEPT ![s] = waiters]
    /\ waiters' = <<>>
    /\ mState' = "npos"
    /\ Goto(s, EmplacePC(outcome))
    /\ UNCHANGED <<refCount, finalSuspendHasRun, freed, holds, driver, got>>

\* A second set_value or set_exception throws promise_already_satisfied.
AlreadySatisfied(s) ==
    /\ MaySet(s) /\ LockFree /\ IsReady
    /\ UNCHANGED vars

\* Mutant: no notification.
NotifyNone(p) == p

\* Whoever sleeps on m_ValueReadyCV goes on to take the lock.
NotifyAll(p) ==
    [a \in Actors |-> CASE p[a] = "wait_cv"  -> "wait_lock"
                        [] p[a] = "timed_cv" -> "timed_lock"
                        [] OTHER             -> p[a]]

\* set_state: the new alternative, notify_all and the unlock.
FinishSetState(s, outcome) ==
    /\ pc[s] = EmplacePC(outcome)
    /\ mState' = outcome
    /\ mutex' = NoOne
    /\ pc' = NotifyAll([pc EXCEPT ![s] = "loop"])
    /\ UNCHANGED <<waiters, refCount, finalSuspendHasRun, freed, holds,
                   toResume, driver, got>>

\* set_state: the next waiter runs inside waiter.resume().
ResumeNext(s) ==
    /\ pc[s] = "loop" /\ toResume[s] # <<>>
    /\ LET t == Head(toResume[s]) IN
         /\ pc' = [pc EXCEPT ![s] = "resuming", ![t] = "fetch"]
         /\ driver' = [driver EXCEPT ![t] = s]
    /\ toResume' = [toResume EXCEPT ![s] = Tail(@)]
    /\ UNCHANGED <<mState, waiters, refCount, finalSuspendHasRun, mutex, freed,
                   holds, got>>

\* Mutant: the loop stops early and forgets the waiters that are left.
EndSetStateEarly(s) ==
    /\ pc[s] = "loop"
    /\ Goto(s, IF s = Body THEN "final" ELSE "idle")
    /\ toResume' = [toResume EXCEPT ![s] = <<>>]
    /\ UNCHANGED <<mState, waiters, refCount, finalSuspendHasRun, mutex, freed,
                   holds, driver, got>>

\* set_state returns: the coroutine goes on to final_suspend.
EndSetState(s) ==
    /\ pc[s] = "loop" /\ toResume[s] = <<>>
    /\ Goto(s, IF s = Body THEN "final" ELSE "idle")
    /\ UNCHANGED <<mState, waiters, refCount, finalSuspendHasRun, mutex, freed,
                   holds, toResume, driver, got>>

\* Mutant: final_suspend is suspend_never.
FinalSuspendNever ==
    /\ IsCoroutine /\ pc[Body] = "final" /\ LockFree
    /\ finalSuspendHasRun' = TRUE
    /\ Goto(Body, "destroying")
    /\ UNCHANGED <<mState, waiters, refCount, mutex, freed, holds, toResume,
                   driver, got>>

\* Mutant: final_suspend is suspend_always.
FinalSuspendAlways ==
    /\ IsCoroutine /\ pc[Body] = "final" /\ LockFree
    /\ finalSuspendHasRun' = TRUE
    /\ Goto(Body, "suspending")
    /\ UNCHANGED <<mState, waiters, refCount, mutex, freed, holds, toResume,
                   driver, got>>

\* final_suspend, all of it under the lock: whether to suspend is decided by
\* the references that are left.
FinalSuspend ==
    /\ IsCoroutine /\ pc[Body] = "final" /\ LockFree
    /\ finalSuspendHasRun' = TRUE
    /\ Goto(Body, IF refCount # 0 THEN "suspending" ELSE "destroying")
    /\ UNCHANGED <<mState, waiters, refCount, mutex, freed, holds, toResume,
                   driver, got>>

\* The coroutine stores its suspend point in the frame and is at rest.
SuspendFrame ==
    /\ IsCoroutine /\ pc[Body] = "suspending"
    /\ Goto(Body, "suspended")
    /\ UNCHANGED <<mState, waiters, refCount, finalSuspendHasRun, mutex, freed,
                   holds, toResume, driver, got>>

\* Not suspended at the final suspend point, the coroutine destroys itself.
DestroyFrame ==
    /\ IsCoroutine /\ pc[Body] = "destroying"
    /\ freed' = TRUE
    /\ Goto(Body, "done")
    /\ UNCHANGED <<mState, waiters, refCount, finalSuspendHasRun, mutex, holds,
                   toResume, driver, got>>
----------------------------------------------------------------------------
\* No handle is left and no one is inside an operation.
Terminated ==
    /\ Holders = {}
    /\ \A t \in Tasks : Idle(t) /\ driver[t] = NoOne
    /\ \A s \in Setters : pc[s] \in {"idle", "suspended", "done"}
    /\ UNCHANGED vars

TaskStep(t) ==
    \/ AwaitSuspend(t) \/ AwaitLocked(t) \/ WaitLocked(t) \/ Fetch(t)
    \/ TimedLocked(t) \/ Timeout(t) \/ TimedOutLocked(t)

TaskCall(t) == CoAwait(t) \/ Get(t) \/ WaitFor(t) \/ State(t)

SetStateStep(s) ==
    \/ \E o \in Outcomes : FinishSetState(s, o)
    \/ ResumeNext(s) \/ EndSetState(s)

BodyStep == FinalSuspend \/ SuspendFrame \/ DestroyFrame

Next ==
    \/ \E h \in Handles : Create(h) \/ Release(h) \/ Free(h)
    \/ \E from, to \in Handles : Copy(from, to) \/ Move(from, to)
    \/ \E t \in Tasks : TaskCall(t) \/ TaskStep(t) \/ Spurious(t) \/ Yield(t)
    \/ \E s \in Setters :
         \/ SetStateStep(s) \/ AlreadySatisfied(s)
         \/ \E o \in Outcomes : BeginSetState(s, o)
    \/ BodyStep
    \/ Terminated

Spec == Init /\ [][Next]_vars

\* Threads are scheduled, so a step that stays enabled is taken; a coroutine
\* body ends with a value or an exception; a user resumed by a setter does
\* not run for ever, though it may use its task again before it yields.  No
\* mh::promise is forced to be set, and no one to release a handle.
Fairness ==
    /\ \A t \in Tasks : WF_vars(TaskStep(t)) /\ SF_vars(Yield(t))
    /\ \A h \in Handles : WF_vars(Free(h))
    /\ \A s \in Setters : WF_vars(SetStateStep(s))
    /\ WF_vars(BodyStep)
    /\ WF_vars(IsCoroutine /\ \E o \in Outcomes : BeginSetState(Body, o))

FairSpec == Spec /\ Fairness
----------------------------------------------------------------------------
(* Properties.                                                             *)

\* The type invariant.
TypeOK ==
    /\ mState \in {"waiters", "npos"} \cup Outcomes
    /\ waiters \in Seq(Tasks)
    /\ refCount \in Nat \cup {REFCOUNT_UNSET}
    /\ finalSuspendHasRun \in BOOLEAN /\ freed \in BOOLEAN
    /\ mutex \in Setters \cup {NoOne}
    /\ pc \in [Actors -> TaskPCs \cup SetterPCs \cup BodyPCs]
    /\ holds \in [Handles -> BOOLEAN]
    /\ toResume \in [Setters -> Seq(Tasks)]
    /\ driver \in [Tasks -> Setters \cup {NoOne}]
    /\ got \in [Tasks -> {"none", "running", "timeout", "ready"} \cup Outcomes]

\* m_RefCount is the number of handles that are not empty, through copies,
\* moves and releases on any threads; before the first handle it is unset.
RefCountExact ==
    IF refCount = REFCOUNT_UNSET THEN Holders = {}
                                 ELSE refCount = Cardinality(Holders)

Freeing == {h \in Handles : pc[h] = "free"}
           \cup (IF IsCoroutine /\ pc[Body] = "destroying" THEN {Body} ELSE {})

\* Whoever destroys the state is the only one to do so, does it once, when no
\* handle refers to it (the assertion of ~promise_base), the coroutine is past
\* its final suspend and no one holds or waits for m_Mutex.
DestroyedOnceUnreferenced ==
    Freeing # {} =>
        /\ Cardinality(Freeing) = 1
        /\ ~freed /\ Holders = {} /\ finalSuspendHasRun /\ LockFree

\* Once the state is destroyed no user is inside one of its operations, none
\* can start one, and no setter is left in set_state or before final_suspend.
NoUseAfterFree ==
    freed => /\ Holders = {} /\ Freeing = {} /\ LockFree
             /\ \A t \in Tasks : Idle(t)
             /\ \A s \in Setters : pc[s] \in {"idle", "suspending", "suspended", "done"}

\* The places where the handle of t's coroutine waits to be resumed.
Places(t) ==
    {<<NoOne, i>> : i \in {j \in DOMAIN waiters : waiters[j] = t}}
    \cup UNION {{<<s, i>> : i \in {j \in DOMAIN toResume[s] : toResume[s][j] = t}}
                  : s \in Setters}

\* A suspended user is in the promise's list of waiters or in that of one
\* set_state that has yet to resume it, exactly once; a user that runs is in
\* neither, so that it is never resumed while it runs.
WaitersConserved ==
    \A t \in Tasks :
        Cardinality(Places(t)) = (IF pc[t] = "suspended" THEN 1 ELSE 0)

\* After the outcome is there, no one sleeps on the condition variable and no
\* coroutine is left in the list that nobody will read again.
NoSleepOnReady ==
    IsReady => /\ waiters = <<>>
               /\ \A t \in Tasks : pc[t] \notin {"wait_cv", "timed_cv"}

\* await_resume and the end of wait() find an outcome (their assertions),
\* whoever resumed or notified the user and whatever happened in between.
FetchFindsOutcome == \A t \in Tasks : pc[t] = "fetch" => IsReady

\* An outcome is final: no second set_value, set_exception or unhandled
\* exception replaces it, and no waiting consumer takes it away.
OutcomeIsFinal == [][IsReady => mState' = mState]_vars

\* The state and its users implement the abstract cell.
Cell == INSTANCE FutureCell WITH
    Clients <- Tasks,
    outcome <- IF IsReady THEN mState ELSE "pending",
    asking  <- {t \in Tasks : pc[t] \notin {"idle", "free"}},
    answer  <- got
ImplementsFutureCell == Cell!Spec

\* Everybody who asks for the outcome of a coroutine that ends is answered.
Answered == \A t \in Tasks : pc[t] # "idle" ~> pc[t] = "idle"

\* Once there is an outcome, everybody who waits for it gets out of the call,
\* also when the promise that resolved it was the first of several to try.
Unblocked == \A t \in Tasks : (IsReady /\ pc[t] # "idle") ~> pc[t] = "idle"

\* The frame of a coroutine all of whose tasks are gone is destroyed, before
\* or after it has ended (the discarded tasks of coroutine_task_test.cpp).
DiscardedIsDestroyed == (refCount = 0) ~> freed

----------------------------------------------------------------------------
(* Statements of the source that the code does not keep (README, Findings).*)

\* "All referencing tasks have gone out of scope, so just delete ourselves
\* when we're done": the frame is destroyed by its coroutine, or when that is
\* at rest at its final suspend point.
DestroyedAtRest ==
    freed /\ IsCoroutine => pc[Body] \in {"suspended", "done"}

\* The last reference deletes the object: when the last handle is gone and
\* no one is about to free it, it has been freed.
LastReferenceFrees ==
    refCount = 0 /\ Freeing = {} => freed
============================================================================

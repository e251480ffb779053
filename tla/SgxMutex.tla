------------------------------ MODULE SgxMutex ------------------------------
(***************************************************************************)
(* SgxThreadMutex and SgxReentrantThreadMutex (sys/mutex.rs) over the      *)
(* thread events.  Every method body runs under the mutex's spin lock and  *)
(* is one step here; the event ocalls are made after the spin lock was     *)
(* released and take the steps of module SgxEvent.                         *)
(*                                                                         *)
(* Threads call the methods in any order.  The only obligation on a caller *)
(* is the documented one: an SgxThreadMutex is not locked by the thread    *)
(* that owns it.  An SgxReentrantThreadMutex may be, also after destroy    *)
(* has made it not recursive.                                              *)
(***************************************************************************)
EXTENDS SgxEvent

CONSTANTS
    NoThread,       \* SGX_THREAD_T_NULL
    Recursive,      \* is the mutex created recursive?
    MaxDepth        \* bound: how often a recursive mutex is locked

ASSUME NoThreadAssumption == NoThread \notin Thread
ASSUME RecursiveAssumption == Recursive \in BOOLEAN
ASSUME MaxDepthAssumption == MaxDepth \in Nat \ {0}

VARIABLES
    owner,      \* the owning thread or NoThread
    refcount,   \* how often the owner has locked the mutex
    control,    \* "recursive" or "nonrecursive"
    queue,      \* the threads that wait in lock, first come first served
    pc,         \* pc[t]: the method t is in: "idle" or "lock"
    held        \* ghost: the locks t was granted and has not released

mxVars == <<owner, refcount, control, queue, pc, held>>

MutexOK ==
    /\ owner \in Thread \cup {NoThread}
    /\ refcount \in Nat
    /\ control \in {"recursive", "nonrecursive"}
    /\ queue \in Seq(Thread)
    /\ held \in [Thread -> Nat]

MxTypeOK ==
    /\ EvTypeOK
    /\ MutexOK
    /\ pc \in [Thread -> {"idle", "lock"}]

MxInit ==
    /\ EvInit
    /\ owner = NoThread
    /\ refcount = 0
    /\ control = IF Recursive THEN "recursive" ELSE "nonrecursive"
    /\ queue = << >>
    /\ pc = [t \in Thread |-> "idle"]
    /\ held = [t \in Thread |-> 0]

-----------------------------------------------------------------------------
(***************************************************************************)
(* The critical sections of lock, try_lock and unlock_lazy.                *)
(***************************************************************************)

\* Mutant of Reenter: any thread re-enters a recursive mutex that is owned.
Reenter_AnyThread(t) ==
    /\ control = "recursive"
    /\ owner # NoThread
    /\ refcount < MaxDepth
    /\ refcount' = refcount + 1
    /\ held' = [held EXCEPT ![t] = @ + 1]
    /\ UNCHANGED <<owner, control, queue>>

\* The owner of a recursive mutex locks it once more.
Reenter(t) ==
    /\ control = "recursive"
    /\ owner = t
    /\ refcount < MaxDepth
    /\ refcount' = refcount + 1
    /\ held' = [held EXCEPT ![t] = @ + 1]
    /\ UNCHANGED <<owner, control, queue>>

\* queue.front(), NoThread standing for None.
FirstWaiter == IF queue = << >> THEN NoThread ELSE Head(queue)

\* Mutant of Available: the waiting list is not looked at.
Available_Barging(t) == owner = NoThread

\* May t take the mutex now?  Only a free one, and only as the first waiter.
Available(t) == owner = NoThread /\ FirstWaiter \in {t, NoThread}

Acquire(t) ==
    /\ Available(t)
    /\ queue' = IF FirstWaiter = t THEN Tail(queue) ELSE queue
    /\ owner' = t
    /\ refcount' = refcount + 1
    /\ held' = [held EXCEPT ![t] = @ + 1]
    /\ UNCHANGED control

\* Mutant of Enqueue: every turn of the loop queues t again.
Enqueue_Again(t) ==
    /\ ~Available(t) /\ ~(control = "recursive" /\ owner = t)
    /\ queue' = Append(queue, t)
    /\ UNCHANGED <<owner, refcount, control, held>>

\* Neither: t joins the queue unless it is in it, and waits for its event.
Enqueue(t) ==
    /\ ~Available(t) /\ ~(control = "recursive" /\ owner = t)
    /\ queue' = IF Contains(queue, t) THEN queue ELSE Append(queue, t)
    /\ UNCHANGED <<owner, refcount, control, held>>

\* Mutant of UnlockLazy: the owner is not checked.
UnlockLazy_Unchecked(t) ==
    /\ refcount' = refcount - 1
    /\ owner' = IF refcount = 1 THEN NoThread ELSE owner
    /\ held' = [held EXCEPT ![t] = @ - 1]
    /\ UNCHANGED <<control, queue>>

\* unlock_lazy by the owner; the first waiter is left in the queue.
UnlockLazy(t) ==
    /\ owner = t
    /\ refcount' = refcount - 1
    /\ owner' = IF refcount = 1 THEN NoThread ELSE owner
    /\ held' = [held EXCEPT ![t] = @ - 1]
    /\ UNCHANGED <<control, queue>>

\* Mutants of Waiter: the last waiter; the count before the decrement.
Waiter_Last == IF refcount = 1 /\ queue # << >> THEN Last(queue) ELSE NoThread
Waiter_Before == IF refcount = 0 THEN FirstWaiter ELSE NoThread

\* The thread unlock_lazy hands back for its caller to wake.
Waiter == IF refcount = 1 THEN FirstWaiter ELSE NoThread

-----------------------------------------------------------------------------
(***************************************************************************)
(* The methods.                                                            *)
(***************************************************************************)
Idle(t) == pc[t] = "idle" /\ oc[t] = "none"

CallLock(t) ==
    /\ Idle(t)
    /\ owner = t => Recursive
    /\ pc' = [pc EXCEPT ![t] = "lock"]
    /\ UNCHANGED <<evVars, owner, refcount, control, queue, held>>

\* One turn of the loop in lock.
LockStep(t) ==
    /\ pc[t] = "lock"
    /\ oc[t] = "none"
    /\ \/ /\ Reenter(t) \/ Acquire(t)
          /\ pc' = [pc EXCEPT ![t] = "idle"]
          /\ UNCHANGED evVars
       \/ /\ Enqueue(t)
          /\ BeginWait(t, "wait")
          /\ UNCHANGED pc

TryLock(t) ==
    /\ Idle(t)
    /\ \/ Reenter(t) \/ Acquire(t)
       \/ /\ ~Available(t) /\ ~(control = "recursive" /\ owner = t)    \* EBUSY
          /\ UNCHANGED <<owner, refcount, control, queue, held>>
    /\ UNCHANGED <<evVars, pc>>

\* Mutant of Unlock: the waiter that unlock_lazy hands back is not woken.
Unlock_Silent(t) ==
    /\ Idle(t)
    /\ UnlockLazy(t)
    /\ UNCHANGED <<evVars, pc>>

Unlock(t) ==
    /\ Idle(t)
    /\ \/ /\ UnlockLazy(t)
          /\ \/ Waiter = NoThread /\ UNCHANGED evVars
             \/ Waiter # NoThread /\ BeginSet(t, <<Waiter>>, "set")
       \/ /\ owner # t                                   \* EPERM
          /\ UNCHANGED <<evVars, owner, refcount, control, queue, held>>
    /\ UNCHANGED pc

\* Mutant of Destroy: a mutex that is owned is reset.
Destroy_Owned(t) ==
    /\ Idle(t)
    /\ queue = << >>
    /\ control' = "nonrecursive"
    /\ UNCHANGED <<evVars, owner, refcount, queue, pc, held>>

Destroy(t) ==
    /\ Idle(t)
    /\ \/ /\ owner = NoThread /\ queue = << >>
          /\ control' = "nonrecursive"
          /\ refcount' = 0
       \/ /\ owner # NoThread \/ queue # << >>            \* EBUSY
          /\ UNCHANGED <<control, refcount>>
    /\ UNCHANGED <<evVars, owner, queue, pc, held>>

EventStep(t) == EvStep(t) /\ UNCHANGED mxVars

EventEnvironment(t) == EvEnvironment(t) /\ UNCHANGED mxVars

MxNext ==
    \E t \in Thread :
        \/ CallLock(t)
        \/ LockStep(t)
        \/ TryLock(t)
        \/ Unlock(t)
        \/ Destroy(t)
        \/ EventStep(t)
        \/ EventEnvironment(t)

mxAllVars == <<evVars, mxVars>>

(***************************************************************************)
(* Threads inside a method or an ocall are eventually scheduled, and a     *)
(* caller that was granted the mutex eventually unlocks it.                *)
(***************************************************************************)
MxFairness ==
    \A t \in Thread :
        /\ WF_mxAllVars(LockStep(t))
        /\ WF_mxAllVars(EventStep(t))
        /\ WF_mxAllVars(owner = t /\ Unlock(t))

MxSpec == MxInit /\ [][MxNext]_mxAllVars /\ MxFairness

-----------------------------------------------------------------------------
(***************************************************************************)
(* Safety.                                                                 *)
(***************************************************************************)

\* Mutual exclusion as the callers see it: a thread that was told Ok by lock
\* or try_lock more often than by unlock owns the mutex, refcount is exactly
\* its tally, and nobody else has one.
MutualExclusion ==
    \A t \in Thread : held[t] = IF owner = t THEN refcount ELSE 0

\* The waiting list is the set of threads inside lock that found the mutex
\* taken, each once: no thread is forgotten in it and none waits outside it.
QueueIsWaiters ==
    /\ \A i, j \in 1 .. Len(queue) : queue[i] = queue[j] => i = j
    /\ \A t \in Thread : Contains(queue, t) => pc[t] = "lock"
    /\ \A t \in Thread : pc[t] = "lock" /\ oc[t] # "none" => Contains(queue, t)

\* lock makes a thread wait for itself only when the mutex was created
\* recursive, destroy has reset it, and the thread has locked it once since:
\* destroy does not take the recursion from a mutex that is locked, so that a
\* thread that could lock it again once can do so until it has released it.
SelfWaitAfterDestroy ==
    Contains(queue, owner)
        => Recursive /\ control = "nonrecursive" /\ refcount = 1

\* No wake-up is lost between unlock_lazy, which reads the first waiter under
\* the spin lock, and the set that follows it: whenever the mutex is free and
\* a thread is first in the queue, that thread has been called.
FrontIsCalled == owner = NoThread /\ queue # << >> => Called(Head(queue))

\* The consequence: a free mutex is never left with its first waiter asleep
\* and nobody on the way to wake it, unless the event lost a set of it.
NoLostWakeup ==
    owner = NoThread /\ queue # << >> =>
        LET f == Head(queue)
        IN  oc[f] = "asleep" =>
               SetterOf(f) \/ WakerOf(f) \/ note[f] = "lost"

\* The same without the way out: what the documentation of lock promises,
\* "Acquires a mutex, blocking the current thread until it is able to do so".
FreeMutexWakesFront ==
    owner = NoThread /\ queue # << >> =>
        LET f == Head(queue)
        IN  oc[f] = "asleep" => SetterOf(f) \/ WakerOf(f)

\* Liveness of lock: every thread in lock obtains the mutex, provided that no
\* set of its event is lost.
LockSucceeds ==
    []EventsReliable
        => \A t \in Thread : pc[t] = "lock" ~> owner = t

(***************************************************************************)
(* Refinement: with the events hidden, the mutex is a fair lock.           *)
(***************************************************************************)
Abstract == INSTANCE FairLock WITH holder <- owner, waiting <- queue

\* SgxThreadMutex hands the mutex to the threads in the order in which lock
\* queued them, lets nobody overtake (try_lock included) and is released by
\* its owner only.
IsFairLock == Abstract!Spec
=============================================================================

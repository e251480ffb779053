----------------------------- MODULE SgxCondvar -----------------------------
(***************************************************************************)
(* SgxThreadCondvar (sys/condvar.rs) with the mutex its callers wait on,   *)
(* over the thread events.  wait and wait_timeout push the caller on the   *)
(* queue and release the mutex while they hold the condition variable's    *)
(* spin lock, so that is one step; each turn of their loop that ends with  *)
(* the spin lock taken again is another.  A thread has one event for       *)
(* everything: a set made for the condition variable may be consumed in    *)
(* mutex.lock and the other way round.                                     *)
(***************************************************************************)
EXTENDS SgxMutex

CONSTANT CvUser     \* the threads that wait on the condition variable

ASSUME CvUsers == CvUser \subseteq Thread

VARIABLES
    cvQueue,    \* the threads waiting on the condition variable
    result,     \* result[t]: what the wait of t will return to its caller
    notified    \* ghost: signal or broadcast has taken t off the queue

cvVars == <<cvQueue, result, notified>>

CvMethod == {"wait", "wait_timeout"}

CvTypeOK ==
    /\ EvTypeOK
    /\ MutexOK
    /\ pc \in [Thread -> {"idle", "lock"} \cup CvMethod]
    /\ cvQueue \in Seq(Thread)
    /\ result \in [Thread -> {"none", "ok", "ETIMEDOUT"}]
    /\ notified \in [Thread -> BOOLEAN]

CvInit ==
    /\ MxInit
    /\ cvQueue = << >>
    /\ result = [t \in Thread |-> "none"]
    /\ notified = [t \in Thread |-> FALSE]

-----------------------------------------------------------------------------
OcallMode(method) == IF method = "wait" THEN "wait" ELSE "timed"

\* Mutant of CallWait: the thread that waits for the mutex is not woken.
CallWait_NoSet(t, method) ==
    /\ Idle(t)
    /\ UnlockLazy(t)
    /\ cvQueue' = Append(cvQueue, t)
    /\ pc' = [pc EXCEPT ![t] = method]
    /\ BeginWait(t, OcallMode(method))
    /\ UNCHANGED <<result, notified>>

\* wait and wait_timeout up to the first ocall: the first thread waiting for
\* the mutex is woken and the caller put to sleep in one ocall.
CallWait(t, method) ==
    /\ Idle(t)
    /\ UnlockLazy(t)
    /\ cvQueue' = Append(cvQueue, t)
    /\ pc' = [pc EXCEPT ![t] = method]
    /\ \/ /\ Waiter = NoThread
          /\ BeginWait(t, OcallMode(method))
       \/ /\ Waiter # NoThread
          /\ BeginSet(t, <<Waiter>>, OcallMode(method))
    /\ UNCHANGED <<result, notified>>

\* The wait of t on the condition variable is over: on to mutex.lock.
LeaveWait(t, r) ==
    /\ result' = [result EXCEPT ![t] = r]
    /\ pc' = [pc EXCEPT ![t] = "lock"]
    /\ ended' = [ended EXCEPT ![t] = "woken"]
    /\ UNCHANGED <<ev, oc, todo, mode, note>>
    /\ UNCHANGED <<owner, refcount, control, queue, held, notified>>

\* Mutant of WaitStep: the timeout is looked at before the queue.
WaitStep_TimeoutFirst(t) ==
    /\ pc[t] \in CvMethod
    /\ oc[t] = "none"
    /\ \/ /\ pc[t] = "wait_timeout" /\ ended[t] = "timeout"
          /\ LeaveWait(t, "ETIMEDOUT")
          /\ cvQueue' = RemoveFirst(cvQueue, t)
       \/ /\ ended[t] # "timeout" /\ ~Contains(cvQueue, t)
          /\ LeaveWait(t, "ok")
          /\ UNCHANGED cvQueue
       \/ /\ ended[t] # "timeout" /\ Contains(cvQueue, t)
          /\ BeginWait(t, OcallMode(pc[t]))
          /\ UNCHANGED <<mxVars, cvVars>>

\* The ocall has returned: a thread that is off the queue was notified, one
\* that is still on it leaves on a timeout only and otherwise waits again,
\* for the whole duration.
WaitStep(t) ==
    /\ pc[t] \in CvMethod
    /\ oc[t] = "none"
    /\ \/ /\ ~Contains(cvQueue, t)
          /\ LeaveWait(t, "ok")
          /\ UNCHANGED cvQueue
       \/ /\ Contains(cvQueue, t)
          /\ pc[t] = "wait_timeout" /\ ended[t] = "timeout"
          /\ LeaveWait(t, "ETIMEDOUT")
          /\ cvQueue' = RemoveFirst(cvQueue, t)
       \/ /\ Contains(cvQueue, t)
          /\ ~(pc[t] = "wait_timeout" /\ ended[t] = "timeout")
          /\ BeginWait(t, OcallMode(pc[t]))
          /\ UNCHANGED <<mxVars, cvVars>>

\* Mutant of Signal: the event of the last waiter is set, the first one popped.
Signal_Last(t) ==
    /\ Idle(t)
    /\ cvQueue # << >>
    /\ cvQueue' = Tail(cvQueue)
    /\ notified' = [notified EXCEPT ![Head(cvQueue)] = TRUE]
    /\ BeginSet(t, <<Last(cvQueue)>>, "set")
    /\ UNCHANGED <<mxVars, result>>

\* Mutant of Signal: the first waiter is popped and its event is not set.
Signal_Silent(t) ==
    /\ Idle(t)
    /\ cvQueue # << >>
    /\ cvQueue' = Tail(cvQueue)
    /\ notified' = [notified EXCEPT ![Head(cvQueue)] = TRUE]
    /\ UNCHANGED <<evVars, mxVars, result>>

Signal(t) ==
    /\ Idle(t)
    /\ cvQueue # << >>
    /\ cvQueue' = Tail(cvQueue)
    /\ notified' = [notified EXCEPT ![Head(cvQueue)] = TRUE]
    /\ BeginSet(t, <<Head(cvQueue)>>, "set")
    /\ UNCHANGED <<mxVars, result>>

\* Mutant of Broadcast: the queue is emptied, one event is set.
Broadcast_One(t) ==
    /\ Idle(t)
    /\ cvQueue # << >>
    /\ cvQueue' = << >>
    /\ notified' = [u \in Thread |-> notified[u] \/ Contains(cvQueue, u)]
    /\ BeginSet(t, <<Head(cvQueue)>>, "set")
    /\ UNCHANGED <<mxVars, result>>

\* broadcast empties the queue from its back.
Broadcast(t) ==
    /\ Idle(t)
    /\ cvQueue # << >>
    /\ cvQueue' = << >>
    /\ notified' = [u \in Thread |-> notified[u] \/ Contains(cvQueue, u)]
    /\ BeginSet(t, Reverse(cvQueue), "set")
    /\ UNCHANGED <<mxVars, result>>

\* The mutex is used as in SgxMutex.
MutexCall(t) ==
    /\ CallLock(t) \/ TryLock(t) \/ Unlock(t) \/ Destroy(t)
    /\ UNCHANGED cvVars

\* mutex.lock() at the end of a wait: the wait returns with the lock.
MutexStep(t) ==
    \/ /\ LockStep(t)
       /\ \/ /\ pc'[t] = "idle"
             /\ result' = [result EXCEPT ![t] = "none"]
             /\ notified' = [notified EXCEPT ![t] = FALSE]
          \/ /\ pc'[t] # "idle"
             /\ UNCHANGED <<result, notified>>
       /\ UNCHANGED cvQueue
    \/ /\ EventStep(t)
       /\ UNCHANGED cvVars

MutexEnvironment(t) ==
    /\ EventEnvironment(t)
    /\ UNCHANGED cvVars

CvNext ==
    \E t \in Thread :
        \/ t \in CvUser /\ \E method \in CvMethod : CallWait(t, method)
        \/ WaitStep(t)
        \/ Signal(t)
        \/ Broadcast(t)
        \/ MutexCall(t)
        \/ MutexStep(t)
        \/ MutexEnvironment(t)

cvAllVars == <<evVars, mxVars, cvVars>>

(***************************************************************************)
(* Threads inside a method or an ocall are eventually scheduled, and the   *)
(* owner of the mutex eventually releases it.                              *)
(***************************************************************************)
CvFairness ==
    \A t \in Thread :
        /\ WF_cvAllVars(WaitStep(t))
        /\ WF_cvAllVars(MutexStep(t))
        /\ WF_cvAllVars(owner = t /\ Unlock(t) /\ UNCHANGED cvVars)

CvSpec == CvInit /\ [][CvNext]_cvAllVars /\ CvFairness

-----------------------------------------------------------------------------
(***************************************************************************)
(* Properties.                                                             *)
(***************************************************************************)

\* signal and broadcast are never stolen by a timeout: a waiter is on the
\* queue exactly until it is notified, and wait_timeout reports ETIMEDOUT
\* only to a thread that was not notified, Ok only to one that was.
NotificationHonoured ==
    \A t \in Thread :
        /\ pc[t] \in CvMethod => (notified[t] <=> ~Contains(cvQueue, t))
        /\ pc[t] \notin CvMethod => ~Contains(cvQueue, t)
        /\ result[t] = "ok" => notified[t]
        /\ result[t] = "ETIMEDOUT" => ~notified[t]

\* A waiter that signal or broadcast took off the queue under the spin lock
\* is called, although the set of its event comes after the unlock.
NotifiedIsCalled ==
    \A t \in Thread :
        pc[t] \in CvMethod /\ ~Contains(cvQueue, t) => Called(t)

\* A waiter that was taken off the queue does not sleep on with nobody on
\* the way to wake it, unless the event lost a set of it.
NoLostNotification ==
    \A t \in Thread :
        pc[t] \in CvMethod /\ ~Contains(cvQueue, t) /\ oc[t] = "asleep" =>
            SetterOf(t) \/ WakerOf(t) \/ note[t] = "lost"

\* Liveness: a notified waiter returns, owning the mutex.
NotifiedReturns ==
    []EventsReliable
        => \A t \in Thread :
              (pc[t] \in CvMethod /\ notified[t]) ~> owner = t
=============================================================================

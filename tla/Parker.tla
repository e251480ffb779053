------------------------------- MODULE Parker -------------------------------
(***************************************************************************)
(* thread::park, park_timeout and unpark (sys_common/thread_parker/        *)
(* generic.rs): an atomic state, a mutex and a condition variable.  The    *)
(* mutex and the condition variable are what SgxMutex and SgxCondvar were  *)
(* shown to provide: exclusion, and a wait that releases the mutex and     *)
(* queues the caller in one step and is left by a notification, or by its  *)
(* timeout, only.                                                          *)
(***************************************************************************)
EXTENDS Naturals

CONSTANTS
    Owner,          \* the thread the parker belongs to: it parks
    Unparker,       \* the threads that unpark it
    NoThread        \* nobody holds the mutex

ASSUME ParkerThreads ==
    Owner \notin Unparker /\ NoThread \notin Unparker /\ NoThread # Owner

VARIABLES
    state,      \* "EMPTY", "PARKED" or "NOTIFIED"
    lock,       \* the holder of the mutex or NoThread
    cvar,       \* "queued" while the owner is on the condition variable
    method,     \* the call the owner is in: "park" or "park_timeout"
    at,         \* where the owner is in it
    up          \* up[u]: where u is in unpark

parkVars == <<state, lock, cvar, method, at, up>>

ParkState == {"EMPTY", "PARKED", "NOTIFIED"}
ParkPhase == {"idle", "lock", "prepare", "consume", "wait", "waiting", "relock",
              "check", "drop", "panic"}
UpPhase   == {"idle", "lock", "unlock", "notify"}

PkTypeOK ==
    /\ state \in ParkState
    /\ lock \in Unparker \cup {Owner, NoThread}
    /\ cvar \in {"empty", "queued"}
    /\ method \in {"park", "park_timeout"}
    /\ at \in ParkPhase
    /\ up \in [Unparker -> UpPhase]

PkInit ==
    /\ state = "EMPTY"
    /\ lock = NoThread
    /\ cvar = "empty"
    /\ method = "park"
    /\ at = "idle"
    /\ up = [u \in Unparker |-> "idle"]

-----------------------------------------------------------------------------
(***************************************************************************)
(* park and park_timeout.                                                  *)
(***************************************************************************)

\* The fast path: a notification that is there already is consumed.
Park(m) ==
    /\ at = "idle"
    /\ method' = m
    /\ \/ state = "NOTIFIED" /\ state' = "EMPTY" /\ UNCHANGED at
       \/ state # "NOTIFIED" /\ at' = "lock" /\ UNCHANGED state
    /\ UNCHANGED <<lock, cvar, up>>

OwnerLock ==
    /\ at \in {"lock", "relock"}
    /\ lock = NoThread
    /\ lock' = Owner
    /\ at' = IF at = "lock" THEN "prepare" ELSE "check"
    /\ UNCHANGED <<state, cvar, method, up>>

\* Mutant of Prepare: PARKED is stored without looking for a notification.
Prepare_Store ==
    /\ at = "prepare"
    /\ state' = "PARKED" /\ at' = "wait"
    /\ UNCHANGED <<lock, cvar, method, up>>

\* compare_exchange(EMPTY, PARKED) under the mutex.
Prepare ==
    /\ at = "prepare"
    /\ \/ state = "EMPTY" /\ state' = "PARKED" /\ at' = "wait"
       \/ state = "NOTIFIED" /\ at' = "consume" /\ UNCHANGED state
       \/ state = "PARKED" /\ at' = "panic" /\ UNCHANGED state
    /\ UNCHANGED <<lock, cvar, method, up>>

\* swap(EMPTY) of the notification that was found there.
Consume ==
    /\ at = "consume"
    /\ state' = "EMPTY"
    /\ at' = IF state = "NOTIFIED" THEN "drop" ELSE "panic"
    /\ UNCHANGED <<lock, cvar, method, up>>

\* cvar.wait: the mutex is released and the owner queued.
Wait ==
    /\ at = "wait"
    /\ cvar' = "queued"
    /\ lock' = NoThread
    /\ at' = "waiting"
    /\ UNCHANGED <<state, method, up>>

\* The wait is over: the owner was taken off the queue, or its time is up.
WaitOver ==
    /\ at = "waiting"
    /\ cvar = "empty" \/ method = "park_timeout"
    /\ cvar' = "empty"
    /\ at' = "relock"
    /\ UNCHANGED <<state, lock, method, up>>

\* Mutant of Check: a timeout leaves the state PARKED.
Check_NoReset ==
    /\ at = "check"
    /\ \/ /\ state = "NOTIFIED"
          /\ state' = "EMPTY" /\ at' = "drop"
       \/ /\ state # "NOTIFIED"
          /\ at' = IF method = "park" THEN "wait" ELSE "drop"
          /\ UNCHANGED state
    /\ UNCHANGED <<lock, cvar, method, up>>

\* park sleeps again unless it was notified; park_timeout returns anyway.
Check ==
    /\ at = "check"
    /\ \/ /\ state = "NOTIFIED"
          /\ state' = "EMPTY" /\ at' = "drop"
       \/ /\ method = "park" /\ state # "NOTIFIED"
          /\ at' = "wait" /\ UNCHANGED state
       \/ /\ method = "park_timeout" /\ state # "NOTIFIED"
          /\ state' = "EMPTY"
          /\ at' = IF state = "PARKED" THEN "drop" ELSE "panic"
    /\ UNCHANGED <<lock, cvar, method, up>>

\* The guard is dropped and the call returns.
Return ==
    /\ at = "drop"
    /\ lock' = NoThread
    /\ at' = "idle"
    /\ UNCHANGED <<state, cvar, method, up>>

(***************************************************************************)
(* unpark.                                                                 *)
(***************************************************************************)

\* Mutant of Unpark: a parked owner is notified without taking the mutex.
Unpark_NoLock(u) ==
    /\ up[u] = "idle"
    /\ state' = "NOTIFIED"
    /\ up' = [up EXCEPT ![u] = IF state = "PARKED" THEN "notify" ELSE "idle"]
    /\ UNCHANGED <<lock, cvar, method, at>>

\* swap(NOTIFIED): only a parked owner has to be woken.
Unpark(u) ==
    /\ up[u] = "idle"
    /\ state' = "NOTIFIED"
    /\ up' = [up EXCEPT ![u] = IF state = "PARKED" THEN "lock" ELSE "idle"]
    /\ UNCHANGED <<lock, cvar, method, at>>

UnparkLock(u) ==
    /\ up[u] = "lock"
    /\ lock = NoThread
    /\ lock' = u
    /\ up' = [up EXCEPT ![u] = "unlock"]
    /\ UNCHANGED <<state, cvar, method, at>>

UnparkUnlock(u) ==
    /\ up[u] = "unlock"
    /\ lock' = NoThread
    /\ up' = [up EXCEPT ![u] = "notify"]
    /\ UNCHANGED <<state, cvar, method, at>>

\* cvar.notify_one
Notify(u) ==
    /\ up[u] = "notify"
    /\ cvar' = "empty"
    /\ up' = [up EXCEPT ![u] = "idle"]
    /\ UNCHANGED <<state, lock, method, at>>

OwnerStep == OwnerLock \/ Prepare \/ Consume \/ Wait \/ WaitOver \/ Check \/ Return

UnparkStep(u) == UnparkLock(u) \/ UnparkUnlock(u) \/ Notify(u)

PkNext ==
    \/ \E m \in {"park", "park_timeout"} : Park(m)
    \/ OwnerStep
    \/ \E u \in Unparker : Unpark(u) \/ UnparkStep(u)

(***************************************************************************)
(* Threads are scheduled, and the mutex is handed over in the order of its *)
(* queue (SgxMutex!IsFairLock, SgxMutex!LockSucceeds), so a thread that    *)
(* asks for it does not miss it for ever.                                  *)
(***************************************************************************)
PkFairness ==
    /\ WF_parkVars(OwnerStep) /\ SF_parkVars(OwnerLock)
    /\ \A u \in Unparker : WF_parkVars(UnparkStep(u)) /\ SF_parkVars(UnparkLock(u))

PkSpec == PkInit /\ [][PkNext]_parkVars /\ PkFairness

-----------------------------------------------------------------------------
(***************************************************************************)
(* Properties.                                                             *)
(***************************************************************************)

\* The panics "inconsistent park state", "park state changed unexpectedly"
\* and "inconsistent park_timeout state" are unreachable.
NeverInconsistent == at # "panic"

\* "If we were to notify during this period it would be ignored": an owner
\* that is queued, or holds the mutex to queue itself, although it was
\* unparked, is still going to be notified, and before it is queued its
\* notifier has not yet had the mutex.
UnparkNotLost ==
    state = "NOTIFIED" =>
        /\ at = "waiting" /\ cvar = "queued" => \E u \in Unparker : up[u] # "idle"
        /\ at = "wait" => \E u \in Unparker : up[u] = "lock"

\* unpark makes park return: the owner does not stay parked once notified.
UnparkedReturns == state = "NOTIFIED" /\ at # "idle" ~> at = "idle"

(***************************************************************************)
(* What makes the invariants inductive: the mutex is held exactly in the   *)
(* critical sections, the owner is PARKED only while it is between Prepare *)
(* and its last look at the state, and queued only while it waits.         *)
(***************************************************************************)
PkInv ==
    /\ PkTypeOK
    /\ NeverInconsistent
    /\ UnparkNotLost
    /\ lock = Owner <=> at \in {"prepare", "consume", "wait", "check", "drop"}
    /\ \A u \in Unparker : lock = u <=> up[u] = "unlock"
    /\ at \in {"wait", "waiting", "relock", "check"} => state \in {"PARKED", "NOTIFIED"}
    /\ at \in {"idle", "lock", "prepare", "drop"} => state \in {"EMPTY", "NOTIFIED"}
    /\ at = "consume" => state = "NOTIFIED"
    /\ cvar = "queued" => at = "waiting"
=============================================================================

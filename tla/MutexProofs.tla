---------------------------- MODULE MutexProofs -----------------------------
(***************************************************************************)
(* The safety properties of SgxThreadMutex and SgxThreadCondvar, for any   *)
(* set of threads, any bounds, and events that may time out, be            *)
(* interrupted or fail.                                                    *)
(*                                                                         *)
(* MutexInv is inductive, whatever other methods the threads call between  *)
(* lock and unlock.  An ocall step changes neither owner nor queue, and    *)
(* keeps a called thread called (CalledStable); a critical section either  *)
(* leaves the mutex owned, or calls the first waiter itself (Unlock and    *)
(* CallWait), or is that first waiter's own turn of the loop.              *)
(***************************************************************************)
EXTENDS SgxCondvar, EventProofs

-----------------------------------------------------------------------------
(***************************************************************************)
(* The inductive invariant behind the safety properties.  MutexInv leaves  *)
(* open which methods a thread may be in, for the specifications that use  *)
(* the mutex.                                                              *)
(***************************************************************************)

\* The methods a thread may be in, those of SgxCondvar included.
Method == {"idle", "lock", "wait", "wait_timeout"}

\* The mutex is owned while it is locked, and only a recursive one is locked
\* more than once.
DepthOK ==
    /\ owner = NoThread <=> refcount = 0
    /\ refcount > 1 => control = "recursive"

\* destroy only resets the control word; the owner locks again only what was
\* created recursive, and waits for itself only when that was reset.
RelockOK ==
    /\ control = "recursive" => Recursive
    /\ \A t \in Thread : pc[t] = "lock" /\ owner = t => Recursive
    /\ Contains(queue, owner) => control = "nonrecursive"

MutexInv ==
    /\ EvInv
    /\ MutexOK
    /\ pc \in [Thread -> Method]
    /\ DepthOK
    /\ MutualExclusion
    /\ QueueIsWaiters
    /\ RelockOK
    /\ FrontIsCalled

MxInv == MxTypeOK /\ MutexInv

\* A thread waits once, has no result before its wait is over, and carries no
\* notification into its next wait; the owner of the mutex that waits has
\* locked a recursive one more than once.
WaitsInOrder ==
    /\ IsInjective(cvQueue)
    /\ \A t \in Thread :
          /\ pc[t] # "lock" => result[t] = "none"
          /\ pc[t] = "idle" => ~notified[t]
          /\ pc[t] \in CvMethod /\ owner = t => control = "recursive"

CvInv ==
    /\ MutexInv
    /\ CvTypeOK
    /\ WaitsInOrder
    /\ NotificationHonoured
    /\ NotifiedIsCalled

-----------------------------------------------------------------------------
(***************************************************************************)
(* Lemmas and theorems.                                                    *)
(***************************************************************************)

\* The part of the invariant that does not mention the ocalls' data.
LEMMA MutexFacts ==
  ASSUME MutexInv
  PROVE  /\ owner \in Thread \cup {NoThread} /\ refcount \in Nat
         /\ queue \in Seq(Thread) /\ held \in [Thread -> Nat]
         /\ control \in {"recursive", "nonrecursive"}
         /\ pc \in [Thread -> Method]
         /\ NoThread \notin Thread
         /\ EvInv /\ EvTypeOK /\ oc \in [Thread -> OcPhase]
         /\ owner = NoThread <=> refcount = 0
  BY NoThreadAssumption DEF MutexInv, MutexOK, DepthOK, EvInv, EvTypeOK

\* Nobody owns the mutex, nobody waits for it.
LEMMA MutexInitInv == MxInit => MxInv
<1> SUFFICES ASSUME MxInit, EvInit PROVE MxInv
  BY DEF MxInit
<1>1. EvInv /\ EvTypeOK
  BY EvInitInv DEF EvInv
<1>2. MxTypeOK /\ MutexOK /\ pc \in [Thread -> Method]
  BY <1>1 DEF MxInit, MxTypeOK, MutexOK, Method
<1>3. MutualExclusion /\ DepthOK
  BY NoThreadAssumption DEF MxInit, MutualExclusion, DepthOK
<1>4. QueueIsWaiters
  BY ContainsEmpty DEF MxInit, EvInit, QueueIsWaiters
<1>5. RelockOK /\ FrontIsCalled
  <2>1. control = "recursive" => Recursive
    BY DEF MxInit
  <2>2. \A t \in Thread : pc[t] # "lock"
    BY DEF MxInit
  <2>3. ~Contains(queue, owner)
    BY ContainsEmpty DEF MxInit
  <2> QED BY <2>1, <2>2, <2>3 DEF MxInit, RelockOK, FrontIsCalled
<1> QED BY <1>1, <1>2, <1>3, <1>4, <1>5 DEF MutexInv, MxInv

\* Calls that change nothing.
LEMMA MutexStutterInv ==
  ASSUME MutexInv, UNCHANGED <<evVars, mxVars>>
  PROVE  MutexInv'
  BY EvStutterInv
  DEF MutexInv, MutexOK, DepthOK, MutualExclusion, QueueIsWaiters,
      RelockOK, FrontIsCalled, Called, SetterOf, evVars, mxVars

\* A step of an ocall, or something that happens in one.
LEMMA MutexEventInv ==
  ASSUME MutexInv, NEW t \in Thread, EvStep(t) \/ EvEnvironment(t),
         UNCHANGED mxVars
  PROVE  MutexInv'
<1>1. EvInv /\ EvInv'
  BY EvStepInv DEF MutexInv
<1>2. MutexOK' /\ DepthOK' /\ MutualExclusion' /\ RelockOK'
  BY DEF MutexInv, MutexOK, DepthOK, MutualExclusion, RelockOK, mxVars
<1>3. pc' \in [Thread -> Method]
  BY DEF MutexInv, mxVars
<1>4. QueueIsWaiters'
  <2>1. \A u \in Thread : oc[u] = "none" => oc'[u] = "none"
    BY <1>1, EvStepKeepsOut
  <2> QED BY <2>1 DEF MutexInv, QueueIsWaiters, mxVars
<1>5. FrontIsCalled'
  <2> SUFFICES ASSUME owner = NoThread, queue # << >> PROVE FrontIsCalled'
    BY DEF FrontIsCalled, mxVars
  <2>1. PICK f \in Thread : f = Head(queue)
    BY MutexFacts
  <2>2. Called(f)'
    BY <1>1, <2>1, CalledStable DEF MutexInv, FrontIsCalled
  <2> QED BY <2>1, <2>2 DEF FrontIsCalled, mxVars, Called, SetterOf
<1> QED BY <1>1, <1>2, <1>3, <1>4, <1>5 DEF MutexInv

\* A thread that is not in lock enters an ocall.
LEMMA MutexOcallInv ==
  ASSUME MutexInv, NEW t \in Thread, oc[t] = "none", pc[t] # "lock",
         UNCHANGED mxVars,
         \/ \E m \in {"wait", "timed"} : BeginWait(t, m)
         \/ \E m \in OcMode, s \in Seq(Thread) : s # << >> /\ BeginSet(t, s, m)
  PROVE  MutexInv'
<1>0. EvInv /\ EvTypeOK /\ queue \in Seq(Thread)
  BY MutexFacts
<1>1. EvInv' /\ \A u \in Thread : u # t => oc'[u] = oc[u]
  BY <1>0, BeginWaitInv, BeginSetInv DEF BeginWait, BeginSet, OcMode, EvTypeOK
<1>2. MutexOK' /\ DepthOK' /\ MutualExclusion' /\ RelockOK'
  BY DEF MutexInv, MutexOK, DepthOK, MutualExclusion, RelockOK, mxVars
<1>3. pc' \in [Thread -> Method]
  BY DEF MutexInv, mxVars
<1>4. QueueIsWaiters'
  BY <1>1 DEF MutexInv, QueueIsWaiters, mxVars
<1>5. FrontIsCalled'
  <2> SUFFICES ASSUME owner = NoThread, queue # << >> PROVE FrontIsCalled'
    BY DEF FrontIsCalled, mxVars
  <2>1. PICK f \in Thread : f = Head(queue)
    BY <1>0
  <2>2. f # t
    BY <1>0, <2>1, ContainsHeadTail DEF MutexInv, QueueIsWaiters
  <2>3. Called(f) /\ "wait" \in OcMode /\ "timed" \in OcMode
    BY <2>1, Phases DEF MutexInv, FrontIsCalled
  <2>4. Called(f)'
    BY <1>0, <2>2, <2>3, CalledOther
  <2> QED BY <2>1, <2>4 DEF FrontIsCalled, mxVars, Called, SetterOf
<1> QED BY <1>1, <1>2, <1>3, <1>4, <1>5 DEF MutexInv

\* Entering lock, from outside or at the end of a wait.
LEMMA EnterLockInv ==
  ASSUME MutexInv, NEW t \in Thread, oc[t] = "none", pc[t] # "lock",
         owner = t => Recursive,
         pc' = [pc EXCEPT ![t] = "lock"], EvInv', UNCHANGED <<oc, todo, note>>,
         UNCHANGED <<owner, refcount, control, queue, held>>
  PROVE  MutexInv'
<1>1. MutexOK' /\ DepthOK' /\ MutualExclusion'
  BY DEF MutexInv, MutexOK, DepthOK, MutualExclusion
<1>2. pc' \in [Thread -> Method]
  BY MutexFacts DEF Method
<1>3. QueueIsWaiters'
  BY MutexFacts DEF MutexInv, QueueIsWaiters
<1>4. RelockOK'
  BY MutexFacts DEF MutexInv, RelockOK
<1>5. FrontIsCalled'
  BY DEF MutexInv, FrontIsCalled, Called, SetterOf
<1> QED BY <1>1, <1>2, <1>3, <1>4, <1>5 DEF MutexInv

\* Calling lock.
LEMMA CallLockInv == ASSUME MutexInv, NEW t \in Thread, CallLock(t) PROVE MutexInv'
<1>1. EvInv'
  BY EvStutterInv DEF MutexInv, CallLock
<1> QED BY <1>1, EnterLockInv DEF CallLock, Idle, evVars

\* What lock and try_lock do when they succeed: the data of the mutex.
LEMMA GrantFacts ==
  ASSUME MutexInv, NEW t \in Thread, Reenter(t) \/ Acquire(t)
  PROVE  /\ MutexOK' /\ DepthOK' /\ MutualExclusion'
         /\ owner' = t /\ control' = control
         /\ \A u : Contains(queue', u) <=> Contains(queue, u) /\ u # t
         /\ \A i, j \in 1 .. Len(queue') : queue'[i] = queue'[j] => i = j
<1>0. /\ owner \in Thread \cup {NoThread} /\ refcount \in Nat
      /\ queue \in Seq(Thread) /\ held \in [Thread -> Nat]
      /\ NoThread \notin Thread
      /\ owner = NoThread <=> refcount = 0
      /\ control \in {"recursive", "nonrecursive"}
  BY MutexFacts
<1>1. /\ \A i, j \in 1 .. Len(queue) : queue[i] = queue[j] => i = j
      /\ Reenter(t) => ~Contains(queue, t)
  BY DEF MutexInv, QueueIsWaiters, RelockOK, Reenter
<1>2. \A u \in Thread : held[u] = IF owner = u THEN refcount ELSE 0
  BY DEF MutexInv, MutualExclusion
<1>3. CASE Reenter(t)
  BY <1>0, <1>1, <1>2, <1>3 DEF Reenter, MutexOK, DepthOK, MutualExclusion
<1>4. CASE Acquire(t)
  <2>1. /\ owner = NoThread /\ owner' = t /\ refcount' = 1 /\ control' = control
        /\ held' = [held EXCEPT ![t] = @ + 1]
    BY <1>0, <1>4 DEF Acquire, Available
  <2>2. CASE queue = << >>
    <3>1. queue' = << >>
      BY <1>0, <1>4, <2>2 DEF Acquire, FirstWaiter
    <3> QED BY <1>0, <1>2, <2>1, <2>2, <3>1, ContainsEmpty
            DEF MutexOK, DepthOK, MutualExclusion
  <2>3. CASE queue # << >>
    <3>1. Head(queue) = t /\ queue' = Tail(queue)
      BY <1>0, <1>4, <2>3 DEF Acquire, Available, FirstWaiter
    <3>2. \A u : Contains(queue, u) <=> (u = t \/ Contains(queue', u))
      BY <1>0, <2>3, <3>1, ContainsHeadTail
    <3>3. /\ queue' \in Seq(Thread) /\ ~Contains(queue', t)
          /\ \A i, j \in 1 .. Len(queue') : queue'[i] = queue'[j] => i = j
      BY <1>0, <1>1, <2>3, <3>1 DEF Contains
    <3>4. MutexOK' /\ MutualExclusion' /\ DepthOK'
      BY <1>0, <1>2, <2>1, <3>3 DEF MutexOK, DepthOK, MutualExclusion
    <3> QED BY <2>1, <3>2, <3>3, <3>4
  <2> QED BY <2>2, <2>3
<1> QED BY <1>3, <1>4

\* lock and try_lock of a mutex that can be had.
LEMMA GrantInv ==
  ASSUME MutexInv, NEW t \in Thread, oc[t] = "none", Reenter(t) \/ Acquire(t),
         UNCHANGED evVars, pc' = [pc EXCEPT ![t] = "idle"]
  PROVE  MutexInv'
<1>1. EvInv' /\ oc' = oc
  BY EvStutterInv DEF MutexInv, evVars
<1>2. /\ MutexOK' /\ MutualExclusion' /\ DepthOK'
      /\ owner' = t
      /\ \A u : Contains(queue', u) <=> Contains(queue, u) /\ u # t
      /\ \A i, j \in 1 .. Len(queue') : queue'[i] = queue'[j] => i = j
      /\ NoThread # t
  BY GrantFacts, NoThreadAssumption
<1>3. pc' \in [Thread -> Method]
  BY MutexFacts DEF Method
<1>4. QueueIsWaiters'
  BY <1>1, <1>2, MutexFacts DEF MutexInv, QueueIsWaiters
<1>5. RelockOK'
  <2>1. control' = control /\ ~Contains(queue', owner')
    BY <1>2, GrantFacts
  <2>2. pc'[t] # "lock"
    BY MutexFacts
  <2> QED BY <1>2, <2>1, <2>2 DEF MutexInv, RelockOK
<1>6. FrontIsCalled'
  BY <1>2 DEF FrontIsCalled
<1> QED BY <1>1, <1>2, <1>3, <1>4, <1>5, <1>6 DEF MutexInv

\* lock of a mutex that cannot be had: the caller is in the queue when it
\* starts to wait, and a first waiter that was called is another thread.
LEMMA EnqueueInv ==
  ASSUME MutexInv, NEW t \in Thread, pc[t] = "lock", oc[t] = "none",
         Enqueue(t), BeginWait(t, "wait"), UNCHANGED pc
  PROVE  MutexInv'
<1>0. /\ owner \in Thread \cup {NoThread} /\ queue \in Seq(Thread)
      /\ NoThread \notin Thread /\ oc \in [Thread -> OcPhase]
      /\ UNCHANGED <<owner, refcount, control, held, pc>>
      /\ oc' = [oc EXCEPT ![t] = "dec"] /\ UNCHANGED <<todo, note>>
  BY MutexFacts DEF Enqueue, BeginWait
<1>1. EvInv'
  BY BeginWaitInv DEF MutexInv
<1>2. /\ queue' \in Seq(Thread) /\ queue' # << >>
      /\ \A u : Contains(queue', u) <=> Contains(queue, u) \/ u = t
      /\ \/ queue = << >> /\ Head(queue') = t
         \/ queue # << >> /\ Head(queue') = Head(queue)
  <2>1. CASE Contains(queue, t)
    BY <1>0, <2>1, ContainsEmpty DEF Enqueue
  <2>2. CASE ~Contains(queue, t)
    BY <1>0, <2>2 DEF Enqueue, Contains
  <2> QED BY <2>1, <2>2
<1>3. MutexOK' /\ pc' \in [Thread -> Method] /\ MutualExclusion' /\ DepthOK'
  BY <1>0, <1>2 DEF MutexInv, MutexOK, DepthOK, MutualExclusion
<1>4. RelockOK'
  <2>1. owner = t => control = "nonrecursive"
    BY MutexFacts DEF Enqueue
  <2> QED BY <1>0, <1>2, <2>1 DEF MutexInv, RelockOK
<1>5. QueueIsWaiters'
  <2>1. \A i, j \in 1 .. Len(queue') : queue'[i] = queue'[j] => i = j
    BY <1>0 DEF MutexInv, QueueIsWaiters, Enqueue, Contains
  <2>2. \A u \in Thread : Contains(queue', u) => pc'[u] = "lock"
    BY <1>0, <1>2 DEF MutexInv, QueueIsWaiters
  <2>3. \A u \in Thread : pc'[u] = "lock" /\ oc'[u] # "none" => Contains(queue', u)
    <3>1. \A u \in Thread : pc[u] = "lock" /\ oc[u] # "none" => Contains(queue, u)
      BY DEF MutexInv, QueueIsWaiters
    <3>2. \A u \in Thread : u # t => oc'[u] = oc[u]
      BY <1>0
    <3> QED BY <1>0, <1>2, <3>1, <3>2
  <2> QED BY <2>1, <2>2, <2>3 DEF QueueIsWaiters
<1>6. FrontIsCalled'
  <2> SUFFICES ASSUME owner = NoThread PROVE FrontIsCalled'
    BY <1>0 DEF FrontIsCalled
  <2>1. queue # << >> /\ Head(queue) # t
    BY <1>0 DEF Enqueue, Available, FirstWaiter
  <2>2. PICK f \in Thread : f = Head(queue) /\ f # t /\ Called(f)
    BY <1>0, <2>1 DEF MutexInv, FrontIsCalled
  <2>3. SetterOf(f) => SetterOf(f)'
    BY <1>0 DEF SetterOf
  <2>4. Called(f)'
    BY <1>0, <2>2, <2>3 DEF Called
  <2>5. Head(queue') = f
    BY <1>2, <2>1, <2>2
  <2> QED BY <2>4, <2>5 DEF FrontIsCalled, Called, SetterOf
<1> QED BY <1>1, <1>3, <1>4, <1>5, <1>6 DEF MutexInv

\* unlock_lazy and the ocall after it: the owner releases one of its locks
\* and, with the last, calls the first waiter.  The caller returns or waits.
LEMMA ReleaseInv ==
  ASSUME MutexInv, NEW t \in Thread, Idle(t), UnlockLazy(t),
         \/ /\ Waiter = NoThread
            /\ UNCHANGED evVars \/ \E m \in {"wait", "timed"} : BeginWait(t, m)
         \/ Waiter # NoThread /\ \E m \in OcMode : BeginSet(t, <<Waiter>>, m),
         NEW p \in Method \ {"lock"}, pc' = [pc EXCEPT ![t] = p]
  PROVE  MutexInv'
<1>0. /\ owner = t /\ refcount \in Nat
      /\ queue \in Seq(Thread) /\ held \in [Thread -> Nat]
      /\ control \in {"recursive", "nonrecursive"}
      /\ NoThread \notin Thread /\ oc \in [Thread -> OcPhase] /\ EvTypeOK
      /\ owner = NoThread <=> refcount = 0
      /\ pc \in [Thread -> Method] /\ pc[t] = "idle" /\ oc[t] = "none"
  BY MutexFacts DEF Idle, UnlockLazy
<1>1. /\ refcount' = refcount - 1 /\ refcount' \in Nat
      /\ owner' = IF refcount = 1 THEN NoThread ELSE t
      /\ held' = [held EXCEPT ![t] = @ - 1]
      /\ held[t] = refcount
      /\ \A u \in Thread : u # t => held[u] = 0
      /\ UNCHANGED <<control, queue>>
  BY <1>0 DEF UnlockLazy, MutexInv, MutualExclusion
<1>2. MutexOK' /\ MutualExclusion' /\ DepthOK'
  <2>1. held' \in [Thread -> Nat]
    BY <1>0, <1>1
  <2>2. MutexOK'
    BY <1>0, <1>1, <2>1 DEF MutexOK
  <2>3. \A u \in Thread : held'[u] = IF owner' = u THEN refcount' ELSE 0
    BY <1>0, <1>1
  <2> QED BY <1>0, <1>1, <2>2, <2>3 DEF MutexInv, DepthOK, MutualExclusion
<1>3. EvInv' /\ \A u \in Thread : u # t => oc'[u] = oc[u]
  <2>1. CASE Waiter = NoThread
    <3>1. EvInv'
      BY <1>0, <2>1, EvStutterInv, BeginWaitInv DEF MutexInv
    <3> QED BY <1>0, <2>1, <3>1 DEF BeginWait, evVars
  <2>2. CASE Waiter # NoThread
    <3>1. PICK w \in Thread : w = Waiter
      BY <1>0, <2>2 DEF Waiter, FirstWaiter
    <3>2. PICK m \in OcMode : BeginSet(t, <<w>>, m)
      BY <2>2, <3>1
    <3>3. <<w>> \in Seq(Thread) /\ <<w>> # << >>
      OBVIOUS
    <3>4. EvInv'
      BY <1>0, <3>2, <3>3, BeginSetInv DEF MutexInv, OcMode
    <3> QED BY <1>0, <3>2, <3>4 DEF BeginSet
  <2> QED BY <2>1, <2>2
<1>4. pc' \in [Thread -> Method] /\ RelockOK'
  <2>1. ~Contains(queue', owner')
    BY <1>0, <1>1 DEF MutexInv, QueueIsWaiters, Contains
  <2> QED BY <1>0, <1>1, <2>1 DEF MutexInv, RelockOK
<1>5. QueueIsWaiters'
  <2>1. ~Contains(queue, t)
    BY <1>0 DEF MutexInv, QueueIsWaiters
  <2> QED BY <1>0, <1>1, <1>3, <2>1 DEF MutexInv, QueueIsWaiters
<1>6. FrontIsCalled'
  <2> SUFFICES ASSUME owner' = NoThread, queue # << >> PROVE FrontIsCalled'
    BY <1>1 DEF FrontIsCalled
  <2>1. PICK f \in Thread : f = Head(queue) /\ f = Waiter
    BY <1>0, <1>1 DEF Waiter, FirstWaiter
  <2>2. oc'[t] = "inc" /\ todo'[t] = <<f>>
    BY <1>0, <2>1 DEF BeginSet, EvTypeOK
  <2>3. Called(f)'
    BY <2>2 DEF Called, SetterOf, Contains
  <2> QED BY <1>1, <2>1, <2>3 DEF FrontIsCalled, Called, SetterOf
<1> QED BY <1>2, <1>3, <1>4, <1>5, <1>6 DEF MutexInv

\* unlock, by the owner or, in vain, by another thread.
LEMMA UnlockInv == ASSUME MutexInv, NEW t \in Thread, Unlock(t) PROVE MutexInv'
<1>1. CASE owner # t
  BY <1>1, MutexStutterInv DEF Unlock, UnlockLazy, mxVars
<1>2. CASE owner = t
  <2>1. Idle(t) /\ pc' = [pc EXCEPT ![t] = "idle"] /\ "idle" \in Method \ {"lock"}
    BY MutexFacts DEF Unlock, Idle, Method
  <2>2. /\ UnlockLazy(t)
        /\ \/ Waiter = NoThread /\ UNCHANGED evVars
           \/ Waiter # NoThread /\ BeginSet(t, <<Waiter>>, "set")
    BY <1>2 DEF Unlock
  <2> QED BY <2>1, <2>2, ReleaseInv, Phases
<1> QED BY <1>1, <1>2

\* destroy changes a free mutex only.
LEMMA DestroyInv == ASSUME MutexInv, NEW t \in Thread, Destroy(t) PROVE MutexInv'
<1>1. /\ UNCHANGED <<evVars, owner, queue, pc, held>>
      /\ \/ UNCHANGED <<control, refcount>>
         \/ owner = NoThread /\ control' = "nonrecursive" /\ refcount' = 0
  BY DEF Destroy
<1>2. EvInv'
  BY <1>1, EvStutterInv DEF MutexInv
<1>3. MutexOK' /\ pc' \in [Thread -> Method] /\ DepthOK'
  BY <1>1 DEF MutexInv, MutexOK, DepthOK
<1>4. MutualExclusion' /\ RelockOK'
  BY <1>1, NoThreadAssumption, MutexFacts
  DEF MutexInv, MutualExclusion, RelockOK, Contains
<1>5. QueueIsWaiters' /\ FrontIsCalled'
  BY <1>1 DEF MutexInv, QueueIsWaiters, FrontIsCalled, Called, SetterOf, evVars
<1> QED BY <1>2, <1>3, <1>4, <1>5 DEF MutexInv

\* One turn of the loop in lock.
LEMMA LockStepInv ==
  ASSUME MutexInv, NEW t \in Thread, LockStep(t) PROVE MutexInv'
  BY GrantInv, EnqueueInv DEF LockStep

\* try_lock, successful or not.
LEMMA TryLockInv ==
  ASSUME MutexInv, NEW t \in Thread, TryLock(t) PROVE MutexInv'
<1>1. UNCHANGED <<evVars, pc>> /\ oc[t] = "none" /\ pc' = [pc EXCEPT ![t] = "idle"]
  BY MutexFacts DEF TryLock, Idle
<1>2. CASE Reenter(t) \/ Acquire(t)
  BY <1>1, <1>2, GrantInv
<1>3. CASE UNCHANGED <<owner, refcount, control, queue, held>>
  BY <1>1, <1>3, MutexStutterInv DEF mxVars
<1> QED BY <1>2, <1>3 DEF TryLock

\* Every step preserves the invariant.
LEMMA MxNextInv == MxInv /\ [MxNext]_mxAllVars => MxInv'
<1> SUFFICES ASSUME MxInv, MutexInv, [MxNext]_mxAllVars PROVE MxInv'
  BY DEF MxInv
<1>0. pc \in [Thread -> {"idle", "lock"}]
  BY DEF MxInv, MxTypeOK
<1>1. CASE UNCHANGED mxAllVars
  <2>1. MutexInv' /\ pc' \in [Thread -> {"idle", "lock"}]
    BY <1>0, <1>1, MutexStutterInv DEF mxAllVars, mxVars
  <2> QED BY <2>1 DEF MxInv, MxTypeOK, MutexInv, EvInv
<1>2. ASSUME NEW t \in Thread,
             \/ CallLock(t) \/ LockStep(t) \/ TryLock(t) \/ Unlock(t)
             \/ Destroy(t) \/ EventStep(t) \/ EventEnvironment(t)
      PROVE  MxInv'
  <2>1. MutexInv'
    BY <1>2, CallLockInv, LockStepInv, TryLockInv, UnlockInv, DestroyInv,
       MutexEventInv DEF EventStep, EventEnvironment
  <2>2. pc' \in [Thread -> {"idle", "lock"}]
    BY <1>0, <1>2 DEF CallLock, LockStep, TryLock, Unlock, Destroy, EventStep,
                      EventEnvironment, mxVars
  <2> QED BY <2>1, <2>2 DEF MxInv, MxTypeOK, MutexInv, EvInv
<1> QED BY <1>1, <1>2 DEF MxNext

\* Type correctness of the mutex and of the events below it.
THEOREM MutexTypes == MxSpec => []MxTypeOK
<1>1. MxInv => MxTypeOK
  BY DEF MxInv
<1> QED BY <1>1, MutexInitInv, MxNextInv, PTL DEF MxSpec

\* lock and try_lock exclude: refcount is exactly what the one owner was
\* granted and has not released, and nobody else was granted anything.
THEOREM MutexExcludes == MxSpec => []MutualExclusion
<1>1. MxInv => MutualExclusion
  BY DEF MxInv, MutexInv
<1> QED BY <1>1, MutexInitInv, MxNextInv, PTL DEF MxSpec

\* The waiting list holds exactly the threads that lock made wait.
THEOREM MutexQueue == MxSpec => []QueueIsWaiters
<1>1. MxInv => QueueIsWaiters
  BY DEF MxInv, MutexInv
<1> QED BY <1>1, MutexInitInv, MxNextInv, PTL DEF MxSpec

\* Whatever destroy races with, a thread waits for itself in lock only in a
\* mutex that destroy has reset before that thread locked it: the recursion
\* is not taken from a mutex that is locked.
THEOREM MutexSelfWaits == MxSpec => []SelfWaitAfterDestroy
<1>1. MxInv => SelfWaitAfterDestroy
  <2> SUFFICES ASSUME MxInv, Contains(queue, owner)
               PROVE  Recursive /\ control = "nonrecursive" /\ refcount = 1
    BY DEF SelfWaitAfterDestroy
  <2>1. MutexInv /\ DepthOK /\ RelockOK /\ QueueIsWaiters
    BY DEF MxInv, MutexInv
  <2>2. owner \in Thread /\ refcount \in Nat
    BY <2>1, MutexFacts DEF Contains
  <2>3. control = "nonrecursive" /\ pc[owner] = "lock" /\ refcount # 0
    BY <2>1, <2>2, NoThreadAssumption DEF RelockOK, QueueIsWaiters, DepthOK
  <2> QED BY <2>1, <2>2, <2>3 DEF DepthOK, RelockOK
<1> QED BY <1>1, MutexInitInv, MxNextInv, PTL DEF MxSpec

\* The waiter that unlock_lazy found is set after the spin lock is released:
\* whatever happens in between, the first waiter of a free mutex is called.
THEOREM MutexCallsFront == MxSpec => []FrontIsCalled
<1>1. MxInv => FrontIsCalled
  BY DEF MxInv, MutexInv
<1> QED BY <1>1, MutexInitInv, MxNextInv, PTL DEF MxSpec

\* A first waiter that is called is asleep only with somebody on the way to
\* wake it, or after the event lost a set of it.
LEMMA FrontIsWoken == MutexInv => NoLostWakeup
<1> SUFFICES ASSUME MutexInv, owner = NoThread, queue # << >>,
                    oc[Head(queue)] = "asleep"
             PROVE  \/ SetterOf(Head(queue)) \/ WakerOf(Head(queue))
                    \/ note[Head(queue)] = "lost"
  BY DEF NoLostWakeup
<1>1. EvInv /\ Head(queue) \in Thread /\ Called(Head(queue))
  BY MutexFacts DEF MutexInv, FrontIsCalled
<1> QED BY <1>1, CalledIsWoken

\* A free mutex is never left with its first waiter asleep and nobody on the
\* way to wake it, unless the event lost a set of that waiter.
THEOREM MutexWakes == MxSpec => []NoLostWakeup
<1>1. MxInv => NoLostWakeup
  BY FrontIsWoken DEF MxInv
<1> QED BY <1>1, MutexInitInv, MxNextInv, PTL DEF MxSpec

\* lock and try_lock take a free mutex, as a newcomer or as the first waiter.
LEMMA AcquireIsLockStep ==
  ASSUME MutexInv, NEW t \in Thread, Acquire(t) PROVE Abstract!Next
<1>0. queue \in Seq(Thread) /\ NoThread \notin Thread
  BY MutexFacts
<1>1. CASE queue = << >>
  <2>1. Abstract!Enter(t)
    BY <1>0, <1>1 DEF Acquire, Available, FirstWaiter, Abstract!Enter
  <2> QED BY <2>1 DEF Abstract!Next
<1>2. CASE queue # << >>
  <2>1. Abstract!Serve
    BY <1>0, <1>2 DEF Acquire, Available, FirstWaiter, Abstract!Serve
  <2> QED BY <2>1 DEF Abstract!Next
<1> QED BY <1>1, <1>2

\* lock of a taken mutex joins the queue once.
LEMMA EnqueueIsLockStep ==
  ASSUME MutexInv, NEW t \in Thread, pc[t] = "lock", Enqueue(t)
  PROVE  Abstract!Next \/ UNCHANGED <<owner, queue>>
<1>1. CASE Contains(queue, t)
  BY <1>1 DEF Enqueue
<1>2. CASE ~Contains(queue, t)
  <2>2. owner # NoThread \/ queue # << >>
    BY DEF Enqueue, Available, FirstWaiter
  <2>3. Abstract!Join(t)
    BY <1>2, <2>2
    DEF Enqueue, Abstract!Join, Contains, Abstract!Contains
  <2> QED BY <2>3 DEF Abstract!Next
<1> QED BY <1>1, <1>2

\* unlock_lazy leaves the mutex with the last lock of its owner.
LEMMA ReleaseIsLockStep ==
  ASSUME NEW t \in Thread, UnlockLazy(t)
  PROVE  Abstract!Next \/ UNCHANGED <<owner, queue>>
<1>1. CASE refcount = 1
  <2>1. Abstract!Leave(t)
    BY <1>1 DEF UnlockLazy, Abstract!Leave
  <2> QED BY <2>1 DEF Abstract!Next
<1> QED BY <1>1 DEF UnlockLazy

\* What every method of the mutex and every event does to the fair lock.
LEMMA MutexActionIsLockStep ==
  ASSUME MutexInv, NEW t \in Thread,
         \/ CallLock(t) \/ LockStep(t) \/ TryLock(t) \/ Unlock(t)
         \/ Destroy(t) \/ EventStep(t) \/ EventEnvironment(t)
  PROVE  Abstract!Next \/ UNCHANGED <<owner, queue>>
<1>1. CASE LockStep(t) \/ TryLock(t) \/ Unlock(t)
  BY <1>1, AcquireIsLockStep, EnqueueIsLockStep, ReleaseIsLockStep
  DEF LockStep, TryLock, Unlock, Reenter
<1>2. CASE CallLock(t) \/ Destroy(t) \/ EventStep(t) \/ EventEnvironment(t)
  BY <1>2 DEF CallLock, Destroy, EventStep, EventEnvironment, mxVars
<1> QED BY <1>1, <1>2

\* Every step of the mutex is a step of the fair lock or changes nothing of it.
LEMMA MutexStepIsLockStep ==
  MxInv /\ [MxNext]_mxAllVars => [Abstract!Next]_(Abstract!lockVars)
<1> SUFFICES ASSUME MutexInv, [MxNext]_mxAllVars
             PROVE  Abstract!Next \/ UNCHANGED <<owner, queue>>
  BY DEF Abstract!lockVars, MxInv
<1>1. CASE UNCHANGED mxAllVars
  BY <1>1 DEF mxAllVars, mxVars
<1> QED BY <1>1, MutexActionIsLockStep DEF MxNext

\* SgxThreadMutex and SgxReentrantThreadMutex implement the fair lock: the
\* queue is served in order, try_lock does not overtake it, and only the
\* owner's last unlock releases.
THEOREM MutexIsFairLock == MxSpec => IsFairLock
<1>1. MxInit => Abstract!Init
  BY DEF MxInit, Abstract!Init
<1> QED BY <1>1, MutexInitInv, MxNextInv, MutexStepIsLockStep, PTL
        DEF MxSpec, IsFairLock, Abstract!Spec
-----------------------------------------------------------------------------
(***************************************************************************)
(* The condition variable.  CvInv adds to MutexInv that a waiter that is   *)
(* off the queue is called: signal and broadcast take it off and enter the *)
(* ocall that sets its event in one step, and no later step but the turn   *)
(* of the waiter's own loop ends that (CalledStable, CalledOther).         *)
(***************************************************************************)

\* The part of the invariant that types the condition variable's data.
LEMMA CvFacts ==
  ASSUME CvInv
  PROVE  /\ MutexInv /\ EvInv /\ EvTypeOK
         /\ cvQueue \in Seq(Thread) /\ IsInjective(cvQueue)
         /\ result \in [Thread -> {"none", "ok", "ETIMEDOUT"}]
         /\ notified \in [Thread -> BOOLEAN]
         /\ pc \in [Thread -> Method]
         /\ oc \in [Thread -> OcPhase]
         /\ NoThread \notin Thread
  BY MutexFacts DEF CvInv, CvTypeOK, WaitsInOrder

\* The types, from the invariant of the mutex and the queue.
LEMMA CvTypes ==
  ASSUME MutexInv, cvQueue \in Seq(Thread),
         result \in [Thread -> {"none", "ok", "ETIMEDOUT"}],
         notified \in [Thread -> BOOLEAN]
  PROVE  CvTypeOK
  BY MutexFacts DEF MutexInv, CvTypeOK, Method, CvMethod

\* Nobody waits and nobody has been notified.
LEMMA CvInitInv == CvInit => CvInv
<1> SUFFICES ASSUME CvInit PROVE CvInv
  OBVIOUS
<1>1. MutexInv /\ pc = [t \in Thread |-> "idle"]
  BY MutexInitInv DEF CvInit, MxInv, MxInit
<1>2. /\ cvQueue = << >> /\ cvQueue \in Seq(Thread)
      /\ result = [t \in Thread |-> "none"]
      /\ notified = [t \in Thread |-> FALSE]
  BY DEF CvInit
<1>3. CvTypeOK
  BY <1>1, <1>2, CvTypes
<1>4. IsInjective(cvQueue)
  BY <1>2 DEF IsInjective
<1>5. WaitsInOrder
  BY <1>1, <1>2, <1>4 DEF WaitsInOrder, CvMethod
<1>6. NotificationHonoured
  BY <1>1, <1>2, ContainsEmpty DEF NotificationHonoured, CvMethod
<1>7. NotifiedIsCalled
  BY <1>1 DEF NotifiedIsCalled, CvMethod
<1> QED BY <1>1, <1>3, <1>5, <1>6, <1>7 DEF CvInv

\* A step that leaves the condition variable alone: nobody begins or ends a
\* wait, and the threads that were called still are.
LEMMA CvKeepInv ==
  ASSUME CvInv, MutexInv', UNCHANGED cvVars,
         \A u \in Thread : pc'[u] = pc[u] \/ (pc[u] = "idle" /\ pc'[u] = "lock"),
         \A u \in Thread : pc[u] \in CvMethod /\ owner' = u
                             => owner = u /\ control' = control,
         \A u \in Thread : pc[u] \in CvMethod /\ Called(u) => Called(u)'
  PROVE  CvInv'
<1>0. /\ cvQueue' = cvQueue /\ result' = result /\ notified' = notified
      /\ cvQueue \in Seq(Thread) /\ IsInjective(cvQueue)
      /\ result \in [Thread -> {"none", "ok", "ETIMEDOUT"}]
      /\ notified \in [Thread -> BOOLEAN]
      /\ \A u \in Thread : pc'[u] \in CvMethod <=> pc[u] \in CvMethod
      /\ \A u \in Thread : pc'[u] \in CvMethod => pc'[u] = pc[u]
  BY CvFacts DEF cvVars, CvMethod
<1>1. CvTypeOK'
  BY <1>0 DEF MutexInv, EvInv, CvTypeOK, Method, CvMethod
<1>2. WaitsInOrder'
  BY <1>0 DEF CvInv, WaitsInOrder
<1>3. NotificationHonoured'
  BY <1>0 DEF CvInv, NotificationHonoured
<1>4. NotifiedIsCalled'
  <2> SUFFICES ASSUME NEW u \in Thread, pc'[u] \in CvMethod,
                      ~Contains(cvQueue', u)
               PROVE  Called(u)'
    BY DEF NotifiedIsCalled
  <2>1. Called(u)
    BY <1>0 DEF CvInv, NotifiedIsCalled
  <2> QED BY <1>0, <2>1
<1> QED BY <1>1, <1>2, <1>3, <1>4 DEF CvInv

\* A call that enters no ocall, or the ocall of another thread, leaves the
\* threads in a wait called.
LEMMA OthersStayCalled ==
  ASSUME CvInv, NEW t \in Thread, oc[t] = "none", pc[t] \notin CvMethod,
         \/ UNCHANGED evVars
         \/ \E m \in OcMode : BeginWait(t, m)
         \/ \E m \in OcMode, s \in Seq(Thread) : BeginSet(t, s, m)
  PROVE  \A u \in Thread : pc[u] \in CvMethod /\ Called(u) => Called(u)'
<1> SUFFICES ASSUME NEW u \in Thread, pc[u] \in CvMethod, Called(u)
             PROVE  Called(u)'
  OBVIOUS
<1>1. u # t /\ EvInv
  BY CvFacts
<1> QED BY <1>1, CalledOther

\* lock, try_lock, unlock and destroy, called by a thread that does not wait.
LEMMA MutexCallInv == ASSUME CvInv, NEW t \in Thread, MutexCall(t) PROVE CvInv'
<1>0. /\ MutexInv /\ pc \in [Thread -> Method] /\ UNCHANGED cvVars
      /\ pc[t] = "idle" /\ oc[t] = "none" /\ pc[t] \notin CvMethod
      /\ queue \in Seq(Thread) /\ NoThread \notin Thread
  BY CvFacts, MutexFacts
  DEF MutexCall, CallLock, TryLock, Unlock, Destroy, Idle, CvMethod
<1>1. MutexInv'
  BY <1>0, CallLockInv, TryLockInv, UnlockInv, DestroyInv DEF MutexCall
<1>2. \A u \in Thread : pc'[u] = pc[u] \/ (pc[u] = "idle" /\ pc'[u] = "lock")
  BY <1>0 DEF MutexCall, CallLock, TryLock, Unlock, Destroy
<1>3. \A u \in Thread : pc[u] \in CvMethod /\ owner' = u
                          => owner = u /\ control' = control
  BY <1>0 DEF MutexCall, CallLock, TryLock, Unlock, Destroy, Reenter, Acquire,
              UnlockLazy
<1>4. \/ UNCHANGED evVars
      \/ \E m \in OcMode, s \in Seq(Thread) : BeginSet(t, s, m)
  <2>1. CASE Unlock(t) /\ ~UNCHANGED evVars
    <3>1. Waiter \in Thread /\ BeginSet(t, <<Waiter>>, "set")
      BY <1>0, <2>1 DEF Unlock, Waiter, FirstWaiter
    <3>2. <<Waiter>> \in Seq(Thread)
      BY <3>1
    <3> QED BY <3>1, <3>2, Phases
  <2> QED BY <2>1 DEF MutexCall, CallLock, TryLock, Destroy
<1>5. \A u \in Thread : pc[u] \in CvMethod /\ Called(u) => Called(u)'
  BY <1>0, <1>4, OthersStayCalled
<1> QED BY <1>0, <1>1, <1>2, <1>3, <1>5, CvKeepInv

\* A step of an ocall.
LEMMA CvEventInv ==
  ASSUME CvInv, NEW t \in Thread, EventStep(t) \/ EventEnvironment(t),
         UNCHANGED cvVars
  PROVE  CvInv'
<1>1. EvInv /\ (EvStep(t) \/ EvEnvironment(t)) /\ UNCHANGED mxVars
  BY CvFacts DEF EventStep, EventEnvironment
<1>2. MutexInv'
  BY <1>1, CvFacts, MutexEventInv
<1>3. \A u \in Thread : Called(u) => Called(u)'
  BY <1>1, CalledStable
<1> QED BY <1>1, <1>2, <1>3, CvKeepInv DEF mxVars

\* A turn of the loop in lock: a wait returns with the lock, and forgets its
\* notification and its result.
LEMMA CvLockStepInv ==
  ASSUME CvInv, NEW t \in Thread, LockStep(t), UNCHANGED cvQueue,
         \/ /\ pc'[t] = "idle"
            /\ result' = [result EXCEPT ![t] = "none"]
            /\ notified' = [notified EXCEPT ![t] = FALSE]
         \/ pc'[t] # "idle" /\ UNCHANGED <<result, notified>>
  PROVE  CvInv'
<1>0. /\ MutexInv /\ pc \in [Thread -> Method] /\ pc[t] = "lock" /\ oc[t] = "none"
      /\ pc[t] \notin CvMethod
      /\ cvQueue \in Seq(Thread) /\ IsInjective(cvQueue)
      /\ result \in [Thread -> {"none", "ok", "ETIMEDOUT"}]
      /\ notified \in [Thread -> BOOLEAN]
  BY CvFacts DEF LockStep, CvMethod
<1>1. MutexInv'
  BY <1>0, LockStepInv
<1>2. \/ UNCHANGED evVars
      \/ \E m \in OcMode : BeginWait(t, m)
  BY Phases DEF LockStep
<1>3. \A u \in Thread : pc[u] \in CvMethod /\ Called(u) => Called(u)'
  BY <1>0, <1>2, OthersStayCalled
<1>4. CASE pc'[t] # "idle"
  <2>1. /\ UNCHANGED <<pc, owner, control>> /\ UNCHANGED cvVars
    BY <1>0, <1>4 DEF LockStep, Enqueue, cvVars
  <2> QED BY <1>1, <1>3, <2>1, CvKeepInv
<1>5. CASE pc'[t] = "idle"
  <2>1. /\ pc' = [pc EXCEPT ![t] = "idle"] /\ owner' = t /\ control' = control
        /\ result' = [result EXCEPT ![t] = "none"]
        /\ notified' = [notified EXCEPT ![t] = FALSE]
        /\ "idle" \notin CvMethod
    BY <1>0, <1>5 DEF LockStep, Reenter, Acquire, CvMethod
  <2>2. /\ \A u \in Thread : u # t => /\ pc'[u] = pc[u]
                                      /\ result'[u] = result[u]
                                      /\ notified'[u] = notified[u]
        /\ result'[t] = "none" /\ ~notified'[t] /\ pc'[t] = "idle"
    BY <1>0, <2>1
  <2>3. result' \in [Thread -> {"none", "ok", "ETIMEDOUT"}]
    BY <1>0, <2>1
  <2>4. notified' \in [Thread -> BOOLEAN]
    BY <1>0, <2>1
  <2>5. CvTypeOK'
    BY <1>0, <1>1, <2>3, <2>4 DEF MutexInv, EvInv, CvTypeOK, Method, CvMethod
  <2>6. WaitsInOrder'
    BY <1>0, <2>1, <2>2 DEF CvInv, WaitsInOrder, CvMethod
  <2>7. NotificationHonoured'
    BY <1>0, <2>1, <2>2 DEF CvInv, NotificationHonoured
  <2>8. NotifiedIsCalled'
    <3> SUFFICES ASSUME NEW u \in Thread, pc'[u] \in CvMethod,
                        ~Contains(cvQueue', u)
                 PROVE  Called(u)'
      BY DEF NotifiedIsCalled
    <3>1. u # t /\ pc[u] \in CvMethod /\ Called(u)
      BY <2>1, <2>2 DEF CvInv, NotifiedIsCalled
    <3> QED BY <1>3, <3>1
  <2> QED BY <1>1, <2>5, <2>6, <2>7, <2>8 DEF CvInv
<1> QED BY <1>4, <1>5

\* wait and wait_timeout up to the first ocall: the caller joins the queue and
\* releases the mutex in one step.
LEMMA CallWaitInv ==
  ASSUME CvInv, NEW t \in Thread, NEW method \in CvMethod, CallWait(t, method)
  PROVE  CvInv'
<1>0. /\ MutexInv /\ pc \in [Thread -> Method] /\ pc[t] = "idle" /\ oc[t] = "none"
      /\ pc[t] \notin CvMethod /\ method \in Method \ {"lock"}
      /\ method # "idle" /\ method # "lock"
      /\ cvQueue \in Seq(Thread) /\ IsInjective(cvQueue)
      /\ result \in [Thread -> {"none", "ok", "ETIMEDOUT"}]
      /\ notified \in [Thread -> BOOLEAN]
      /\ queue \in Seq(Thread) /\ NoThread \notin Thread
      /\ owner = t /\ refcount \in Nat
      /\ cvQueue' = Append(cvQueue, t) /\ result' = result /\ notified' = notified
      /\ pc' = [pc EXCEPT ![t] = method]
  BY CvFacts, MutexFacts DEF CallWait, Idle, CvMethod, Method, UnlockLazy
<1>1. OcallMode(method) \in {"wait", "timed"} /\ OcallMode(method) \in OcMode
  BY Phases DEF OcallMode
<1>2. MutexInv'
  BY <1>0, <1>1, ReleaseInv DEF CallWait
<1>3. /\ ~Contains(cvQueue, t)
      /\ \A u : Contains(cvQueue', u) <=> (Contains(cvQueue, u) \/ u = t)
      /\ cvQueue' \in Seq(Thread) /\ IsInjective(cvQueue')
  <2>1. ~Contains(cvQueue, t)
    BY <1>0 DEF CvInv, NotificationHonoured
  <2> QED BY <1>0, <2>1, ContainsAppend, AppendDistinct
<1>4. CvTypeOK'
  BY <1>0, <1>2, <1>3 DEF MutexInv, EvInv, CvTypeOK, Method, CvMethod
<1>5. result[t] = "none" /\ ~notified[t]
  BY <1>0 DEF CvInv, WaitsInOrder
<1>6. WaitsInOrder'
  <2>1. owner' = t => control' = "recursive"
    BY <1>0 DEF CallWait, UnlockLazy, MutexInv, DepthOK
  <2>2. \A u \in Thread : u # t => owner' # u
    BY <1>0 DEF CallWait, UnlockLazy
  <2> QED BY <1>0, <1>3, <1>5, <2>1, <2>2 DEF CvInv, WaitsInOrder
<1>7. NotificationHonoured'
  BY <1>0, <1>3, <1>5 DEF CvInv, NotificationHonoured
<1>8. NotifiedIsCalled'
  <2>1. \/ \E m \in OcMode : BeginWait(t, m)
        \/ \E m \in OcMode, s \in Seq(Thread) : BeginSet(t, s, m)
    <3>1. CASE Waiter # NoThread
      <4>1. <<Waiter>> \in Seq(Thread)
        BY <1>0, <3>1 DEF Waiter, FirstWaiter
      <4> QED BY <1>1, <3>1, <4>1 DEF CallWait
    <3> QED BY <1>1, <3>1 DEF CallWait
  <2>2. \A u \in Thread : pc[u] \in CvMethod /\ Called(u) => Called(u)'
    BY <1>0, <2>1, OthersStayCalled
  <2> SUFFICES ASSUME NEW u \in Thread, pc'[u] \in CvMethod,
                      ~Contains(cvQueue', u)
               PROVE  Called(u)'
    BY DEF NotifiedIsCalled
  <2>3. u # t /\ pc[u] \in CvMethod /\ Called(u)
    BY <1>0, <1>3 DEF CvInv, NotifiedIsCalled
  <2> QED BY <2>2, <2>3
<1> QED BY <1>2, <1>4, <1>6, <1>7, <1>8 DEF CvInv

\* The end of a wait on the condition variable, notified or not.
LEMMA LeaveWaitInv ==
  ASSUME CvInv, NEW t \in Thread, pc[t] \in CvMethod, oc[t] = "none",
         NEW r \in {"ok", "ETIMEDOUT"}, LeaveWait(t, r),
         cvQueue' \in Seq(Thread), IsInjective(cvQueue'),
         \A u : Contains(cvQueue', u) <=> (Contains(cvQueue, u) /\ u # t),
         r = "ok" <=> ~Contains(cvQueue, t)
  PROVE  CvInv'
<1>0. /\ MutexInv /\ pc \in [Thread -> Method]
      /\ pc[t] # "lock" /\ "lock" \notin CvMethod
      /\ result \in [Thread -> {"none", "ok", "ETIMEDOUT"}]
      /\ notified \in [Thread -> BOOLEAN] /\ notified' = notified
      /\ result' = [result EXCEPT ![t] = r]
      /\ pc' = [pc EXCEPT ![t] = "lock"]
      /\ UNCHANGED <<oc, todo, note>>
      /\ UNCHANGED <<owner, refcount, control, queue, held>>
      /\ owner = t => Recursive
      /\ notified[t] <=> ~Contains(cvQueue, t)
  BY CvFacts DEF LeaveWait, CvMethod, CvInv, WaitsInOrder, NotificationHonoured,
                MutexInv, RelockOK
<1>1. EvInv'
  <2>1. EvInv /\ ended \in [Thread -> WaitEnd] /\ "woken" \in WaitEnd
    BY CvFacts, Phases DEF EvTypeOK
  <2>2. UNCHANGED <<ev, oc, todo, mode, note>> /\ ended' \in [Thread -> WaitEnd]
    BY <2>1 DEF LeaveWait
  <2> QED BY <2>1, <2>2 DEF EvInv, EvTypeOK, WordsAgree, SleeperHasWaker, WakerOf
<1>2. MutexInv'
  BY <1>0, <1>1, EnterLockInv
<1>3. CvTypeOK'
  BY <1>0, <1>2 DEF MutexInv, EvInv, CvTypeOK, Method, CvMethod
<1>4. WaitsInOrder'
  BY <1>0 DEF CvInv, WaitsInOrder
<1>5. NotificationHonoured'
  BY <1>0 DEF CvInv, NotificationHonoured
<1>6. NotifiedIsCalled'
  BY <1>0 DEF CvInv, NotifiedIsCalled, Called, SetterOf
<1> QED BY <1>2, <1>3, <1>4, <1>5, <1>6 DEF CvInv

\* A turn of the loop in wait and wait_timeout.
LEMMA WaitStepInv == ASSUME CvInv, NEW t \in Thread, WaitStep(t) PROVE CvInv'
<1>0. /\ pc[t] \in CvMethod /\ oc[t] = "none" /\ pc[t] # "lock"
      /\ cvQueue \in Seq(Thread) /\ IsInjective(cvQueue)
      /\ MutexInv /\ EvInv
  BY CvFacts DEF WaitStep, CvMethod
<1>1. CASE ~Contains(cvQueue, t)
  BY <1>0, <1>1, LeaveWaitInv DEF WaitStep
<1>2. CASE Contains(cvQueue, t) /\ cvQueue' = RemoveFirst(cvQueue, t)
           /\ LeaveWait(t, "ETIMEDOUT")
  BY <1>0, <1>2, LeaveWaitInv, RemoveFromQueue
<1>3. CASE /\ Contains(cvQueue, t) /\ BeginWait(t, OcallMode(pc[t]))
           /\ UNCHANGED <<mxVars, cvVars>>
  <2>1. OcallMode(pc[t]) \in {"wait", "timed"} /\ OcallMode(pc[t]) \in OcMode
    BY Phases DEF OcallMode
  <2>2. MutexInv'
    BY <1>0, <1>3, <2>1, MutexOcallInv
  <2>3. CvTypeOK'
    BY <1>3, <2>2 DEF MutexInv, EvInv, CvInv, CvTypeOK, mxVars, cvVars
  <2>4. WaitsInOrder' /\ NotificationHonoured'
    BY <1>3 DEF CvInv, WaitsInOrder, NotificationHonoured, mxVars, cvVars
  <2>5. NotifiedIsCalled'
    <3> SUFFICES ASSUME NEW u \in Thread, pc'[u] \in CvMethod,
                        ~Contains(cvQueue', u)
                 PROVE  Called(u)'
      BY DEF NotifiedIsCalled
    <3>1. u # t /\ Called(u)
      BY <1>3 DEF CvInv, NotifiedIsCalled, mxVars, cvVars
    <3> QED BY <1>0, <1>3, <2>1, <3>1, CalledOther
  <2> QED BY <2>2, <2>3, <2>4, <2>5 DEF CvInv
<1> QED BY <1>1, <1>2, <1>3 DEF WaitStep

\* signal and broadcast: the threads taken off the queue are those whose
\* events the ocall sets.
LEMMA NotifyInv ==
  ASSUME CvInv, NEW t \in Thread, Idle(t), UNCHANGED <<mxVars, result>>,
         NEW s \in Seq(Thread), s # << >>, BeginSet(t, s, "set"),
         cvQueue' \in Seq(Thread), IsInjective(cvQueue'),
         \A u : Contains(cvQueue', u) => Contains(cvQueue, u),
         \A u : Contains(cvQueue, u) /\ ~Contains(cvQueue', u) => Contains(s, u),
         notified' \in [Thread -> BOOLEAN],
         \A u \in Thread : notified'[u] <=>
            (notified[u] \/ (Contains(cvQueue, u) /\ ~Contains(cvQueue', u)))
  PROVE  CvInv'
<1>0. /\ MutexInv /\ EvInv /\ pc \in [Thread -> Method] /\ pc' = pc
      /\ pc[t] = "idle" /\ oc[t] = "none"
      /\ pc[t] \notin CvMethod /\ pc[t] # "lock"
      /\ result \in [Thread -> {"none", "ok", "ETIMEDOUT"}] /\ result' = result
      /\ owner' = owner /\ control' = control
      /\ \E m \in OcMode : BeginSet(t, s, m)
  BY CvFacts, Phases DEF Idle, CvMethod, mxVars
<1>1. MutexInv'
  BY <1>0, MutexOcallInv
<1>2. CvTypeOK'
  BY <1>0, <1>1 DEF MutexInv, EvInv, CvTypeOK, Method, CvMethod
<1>3. \A u \in Thread : Contains(cvQueue, u) => pc[u] \in CvMethod
  BY DEF CvInv, NotificationHonoured
<1>4. WaitsInOrder'
  BY <1>0, <1>3 DEF CvInv, WaitsInOrder, CvMethod
<1>5. NotificationHonoured'
  <2>1. \A u \in Thread : pc[u] \in CvMethod => result[u] = "none"
    BY DEF CvInv, WaitsInOrder, CvMethod
  <2> QED BY <1>0, <1>3, <2>1 DEF CvInv, NotificationHonoured
<1>6. NotifiedIsCalled'
  <2> SUFFICES ASSUME NEW u \in Thread, pc[u] \in CvMethod,
                      ~Contains(cvQueue', u)
               PROVE  Called(u)'
    BY <1>0 DEF NotifiedIsCalled
  <2>1. CASE Contains(cvQueue, u)
    BY <1>0, <2>1, SetCalls
  <2>2. CASE ~Contains(cvQueue, u)
    <3>1. Called(u) /\ u # t
      BY <1>0, <2>2 DEF CvInv, NotifiedIsCalled
    <3> QED BY <1>0, <3>1, CalledOther
  <2> QED BY <2>1, <2>2
<1> QED BY <1>1, <1>2, <1>4, <1>5, <1>6 DEF CvInv

\* signal takes the first waiter off the queue.
LEMMA SignalInv == ASSUME CvInv, NEW t \in Thread, Signal(t) PROVE CvInv'
<1>0. /\ cvQueue \in Seq(Thread) /\ IsInjective(cvQueue) /\ cvQueue # << >>
      /\ notified \in [Thread -> BOOLEAN] /\ Head(cvQueue) \in Thread
      /\ DOMAIN cvQueue = 1 .. Len(cvQueue)
      /\ cvQueue' = Tail(cvQueue)
      /\ notified' = [notified EXCEPT ![Head(cvQueue)] = TRUE]
  BY CvFacts DEF Signal
<1>1. /\ cvQueue' \in Seq(Thread) /\ Len(cvQueue') = Len(cvQueue) - 1
      /\ DOMAIN cvQueue' = 1 .. Len(cvQueue')
      /\ \A i \in 1 .. Len(cvQueue') : cvQueue'[i] = cvQueue[i + 1]
      /\ Head(cvQueue) = cvQueue[1] /\ Len(cvQueue) \in Nat \ {0}
  BY <1>0
<1>2. IsInjective(cvQueue') /\ ~Contains(cvQueue', Head(cvQueue))
  BY <1>0, <1>1 DEF IsInjective, Contains
<1>3. \A u : Contains(cvQueue, u) <=> (u = Head(cvQueue) \/ Contains(cvQueue', u))
  BY <1>0, ContainsHeadTail
<1>4. /\ <<Head(cvQueue)>> \in Seq(Thread) /\ <<Head(cvQueue)>> # << >>
      /\ Contains(<<Head(cvQueue)>>, Head(cvQueue))
  BY <1>0 DEF Contains
<1>5. notified' \in [Thread -> BOOLEAN]
  BY <1>0
<1>6. \A u \in Thread : notified'[u] <=>
          (notified[u] \/ (Contains(cvQueue, u) /\ ~Contains(cvQueue', u)))
  BY <1>0, <1>2, <1>3
<1>7. PICK s \in Seq(Thread) :
         s # << >> /\ Contains(s, Head(cvQueue)) /\ BeginSet(t, s, "set")
  BY <1>4 DEF Signal
<1>8. \A u : Contains(cvQueue, u) /\ ~Contains(cvQueue', u) => Contains(s, u)
  BY <1>3, <1>7
<1>9. Idle(t) /\ UNCHANGED <<mxVars, result>>
  BY DEF Signal
<1> QED BY <1>1, <1>2, <1>3, <1>5, <1>6, <1>7, <1>8, <1>9, NotifyInv

\* broadcast takes all of them.
LEMMA BroadcastInv == ASSUME CvInv, NEW t \in Thread, Broadcast(t) PROVE CvInv'
<1>0. /\ cvQueue \in Seq(Thread) /\ cvQueue # << >> /\ cvQueue' = << >>
      /\ notified' = [u \in Thread |-> notified[u] \/ Contains(cvQueue, u)]
      /\ notified \in [Thread -> BOOLEAN]
  BY CvFacts DEF Broadcast
<1>1. /\ Reverse(cvQueue) \in Seq(Thread) /\ Reverse(cvQueue) # << >>
      /\ \A u : Contains(cvQueue, u) => Contains(Reverse(cvQueue), u)
  BY <1>0, ContainsReverse
<1>2. cvQueue' \in Seq(Thread) /\ IsInjective(cvQueue')
  BY <1>0 DEF IsInjective
<1>3. \A u : ~Contains(cvQueue', u)
  BY <1>0, ContainsEmpty
<1>4. notified' \in [Thread -> BOOLEAN]
  BY <1>0 DEF Contains
<1>5. \A u \in Thread : notified'[u] <=>
          (notified[u] \/ (Contains(cvQueue, u) /\ ~Contains(cvQueue', u)))
  BY <1>0, <1>3
<1>6. Idle(t) /\ UNCHANGED <<mxVars, result>> /\ BeginSet(t, Reverse(cvQueue), "set")
  BY DEF Broadcast
<1> QED BY <1>1, <1>2, <1>3, <1>4, <1>5, <1>6, NotifyInv

\* Every step preserves the invariant.
LEMMA CvNextInv == CvInv /\ [CvNext]_cvAllVars => CvInv'
<1> SUFFICES ASSUME CvInv, [CvNext]_cvAllVars PROVE CvInv'
  OBVIOUS
<1>1. CASE UNCHANGED cvAllVars
  <2>1. MutexInv' /\ UNCHANGED <<evVars, mxVars>> /\ UNCHANGED cvVars
    BY <1>1, CvFacts, MutexStutterInv DEF cvAllVars
  <2>2. \A u \in Thread : Called(u) => Called(u)'
    BY <2>1 DEF Called, SetterOf, evVars
  <2> QED BY <2>1, <2>2, CvKeepInv DEF mxVars
<1>2. ASSUME NEW t \in Thread, NEW method \in CvMethod, CallWait(t, method)
      PROVE  CvInv'
  BY <1>2, CallWaitInv
<1>3. ASSUME NEW t \in Thread, WaitStep(t) \/ Signal(t) \/ Broadcast(t)
      PROVE  CvInv'
  BY <1>3, WaitStepInv, SignalInv, BroadcastInv
<1>4. ASSUME NEW t \in Thread, MutexCall(t) \/ MutexStep(t) \/ MutexEnvironment(t)
      PROVE  CvInv'
  BY <1>4, MutexCallInv, CvLockStepInv, CvEventInv DEF MutexStep, MutexEnvironment
<1> QED BY <1>1, <1>2, <1>3, <1>4 DEF CvNext

\* Type correctness of the condition variable, the mutex and the events.
THEOREM CondvarTypes == CvSpec => []CvTypeOK
<1>1. CvInv => CvTypeOK
  BY DEF CvInv
<1> QED BY <1>1, CvInitInv, CvNextInv, PTL DEF CvSpec

\* No notification is stolen by a timeout and no timeout is reported as a
\* notification, whatever signal, broadcast and the timer race for.
THEOREM CondvarHonours == CvSpec => []NotificationHonoured
<1>1. CvInv => NotificationHonoured
  BY DEF CvInv
<1> QED BY <1>1, CvInitInv, CvNextInv, PTL DEF CvSpec

\* The events that signal and broadcast set after they have released the spin
\* lock reach every waiter that they took off the queue under it.
THEOREM CondvarCalls == CvSpec => []NotifiedIsCalled
<1>1. CvInv => NotifiedIsCalled
  BY DEF CvInv
<1> QED BY <1>1, CvInitInv, CvNextInv, PTL DEF CvSpec

\* A notified waiter does not sleep on with nobody on the way to wake it,
\* unless the event lost a set of it.
THEOREM CondvarWakes == CvSpec => []NoLostNotification
<1>1. CvInv => NoLostNotification
  <2> SUFFICES ASSUME CvInv, NEW t \in Thread, pc[t] \in CvMethod,
                      ~Contains(cvQueue, t), oc[t] = "asleep"
               PROVE  SetterOf(t) \/ WakerOf(t) \/ note[t] = "lost"
    BY DEF NoLostNotification
  <2>1. EvInv /\ Called(t)
    BY CvFacts DEF CvInv, NotifiedIsCalled
  <2> QED BY <2>1, CalledIsWoken
<1> QED BY <1>1, CvInitInv, CvNextInv, PTL DEF CvSpec

\* wait releases the mutex and takes it back like unlock and lock: among
\* threads that use the condition variable too, the mutex still excludes, and
\* the first waiter of a free one is called, by unlock or by wait.
THEOREM CondvarKeepsMutex ==
  CvSpec => [](MutualExclusion /\ QueueIsWaiters /\ FrontIsCalled /\ NoLostWakeup)
<1>1. CvInv => MutualExclusion /\ QueueIsWaiters /\ FrontIsCalled
  BY DEF CvInv, MutexInv
<1>2. CvInv => NoLostWakeup
  BY CvFacts, FrontIsWoken
<1> QED BY <1>1, <1>2, CvInitInv, CvNextInv, PTL DEF CvSpec

\* Every step of the condition variable is a step of the fair lock.
LEMMA CvStepIsLockStep ==
  CvInv /\ [CvNext]_cvAllVars => [Abstract!Next]_(Abstract!lockVars)
<1> SUFFICES ASSUME CvInv, MutexInv, [CvNext]_cvAllVars
             PROVE  Abstract!Next \/ UNCHANGED <<owner, queue>>
  BY CvFacts DEF Abstract!lockVars
<1>1. CASE UNCHANGED cvAllVars
  BY <1>1 DEF cvAllVars, mxVars
<1>2. ASSUME NEW t \in Thread, NEW method \in CvMethod, CallWait(t, method)
      PROVE  Abstract!Next \/ UNCHANGED <<owner, queue>>
  BY <1>2, ReleaseIsLockStep DEF CallWait
<1>3. ASSUME NEW t \in Thread, WaitStep(t) \/ Signal(t) \/ Broadcast(t)
      PROVE  UNCHANGED <<owner, queue>>
  BY <1>3 DEF WaitStep, LeaveWait, Signal, Broadcast, mxVars
<1>4. ASSUME NEW t \in Thread, MutexCall(t) \/ MutexStep(t) \/ MutexEnvironment(t)
      PROVE  Abstract!Next \/ UNCHANGED <<owner, queue>>
  BY <1>4, MutexActionIsLockStep DEF MutexCall, MutexStep, MutexEnvironment
<1> QED BY <1>1, <1>2, <1>3, <1>4 DEF CvNext

\* The mutex is a fair lock also where wait releases and reacquires it: the
\* threads that return from a wait queue up like any other.
THEOREM CondvarIsFairLock == CvSpec => IsFairLock
<1>1. CvInit => Abstract!Init
  BY DEF CvInit, MxInit, Abstract!Init
<1> QED BY <1>1, CvInitInv, CvNextInv, CvStepIsLockStep, PTL
        DEF CvSpec, IsFairLock, Abstract!Spec
=============================================================================

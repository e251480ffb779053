------------------------------ MODULE Barrier -------------------------------
(***************************************************************************)
(* sync/barrier.rs: threads rendezvous in generations.  The mutex and the  *)
(* condition variable are what SgxMutex and SgxCondvar were shown to       *)
(* provide.  More threads than the barrier counts may use it, and a thread *)
(* that is slow to wake may find that later generations have come and      *)
(* gone.                                                                   *)
(***************************************************************************)
EXTENDS Integers, FiniteSets

CONSTANTS
    Thread,
    NoThread,       \* nobody holds the mutex
    NumThreads,     \* num_threads
    MaxGeneration   \* bound: wait is called before this generation only

ASSUME BarrierThreads == NoThread \notin Thread /\ IsFiniteSet(Thread)
ASSUME BarrierBounds == NumThreads \in Nat /\ MaxGeneration \in Nat

VARIABLES
    lock,       \* the holder of the mutex or NoThread
    count,      \* threads that have arrived in this generation
    generation, \* generation_id
    queue,      \* the threads on the condition variable
    pc,         \* pc[t]: where t is in wait
    localGen,   \* localGen[t]: the generation t arrived in
    arrived     \* ghost: arrived[g]: the threads that arrived in generation g

barVars == <<lock, count, generation, queue, pc, localGen, arrived>>

\* The calls that are under way may still complete one generation each.
Generations == 0 .. MaxGeneration + Cardinality(Thread)

BarPhase == {"idle", "lock", "arrive", "test", "waiting", "relock", "drop"}

BarTypeOK ==
    /\ lock \in Thread \cup {NoThread}
    /\ count \in Nat
    /\ generation \in Generations
    /\ queue \subseteq Thread
    /\ pc \in [Thread -> BarPhase]
    /\ localGen \in [Thread -> Generations]
    /\ arrived \in [Generations -> SUBSET Thread]

BarInit ==
    /\ lock = NoThread
    /\ count = 0
    /\ generation = 0
    /\ queue = {}
    /\ pc = [t \in Thread |-> "idle"]
    /\ localGen = [t \in Thread |-> 0]
    /\ arrived = [g \in Generations |-> {}]

-----------------------------------------------------------------------------
Call(t) ==
    /\ pc[t] = "idle"
    /\ generation < MaxGeneration
    /\ pc' = [pc EXCEPT ![t] = "lock"]
    /\ UNCHANGED <<lock, count, generation, queue, localGen, arrived>>

Lock(t) ==
    /\ pc[t] \in {"lock", "relock"}
    /\ lock = NoThread
    /\ lock' = t
    /\ pc' = [pc EXCEPT ![t] = IF @ = "lock" THEN "arrive" ELSE "test"]
    /\ UNCHANGED <<count, generation, queue, localGen, arrived>>

\* The first part of wait: t takes down the generation it arrives in.
JoinGeneration(t) ==
    /\ pc[t] = "arrive"
    /\ localGen' = [localGen EXCEPT ![t] = generation]
    /\ arrived' = [arrived EXCEPT ![generation] = @ \cup {t}]
    /\ UNCHANGED lock

\* Mutant of Arrive: the leader leaves the count as it is.
Arrive_NoReset(t) ==
    /\ JoinGeneration(t)
    /\ count' = count + 1
    /\ \/ /\ count + 1 < NumThreads
          /\ pc' = [pc EXCEPT ![t] = "test"]
          /\ UNCHANGED <<generation, queue>>
       \/ /\ count + 1 >= NumThreads
          /\ generation' = generation + 1
          /\ queue' = {}
          /\ pc' = [pc EXCEPT ![t] = "drop"]

\* Mutant of Arrive: notify_one instead of notify_all.
Arrive_NotifyOne(t) ==
    /\ JoinGeneration(t)
    /\ \/ /\ count + 1 < NumThreads
          /\ count' = count + 1
          /\ pc' = [pc EXCEPT ![t] = "test"]
          /\ UNCHANGED <<generation, queue>>
       \/ /\ count + 1 >= NumThreads
          /\ count' = 0
          /\ generation' = generation + 1
          /\ queue' = IF queue = {} THEN {} ELSE queue \ {CHOOSE u \in queue : TRUE}
          /\ pc' = [pc EXCEPT ![t] = "drop"]

\* The last thread of a generation starts the next one and wakes the others.
Arrive(t) ==
    /\ JoinGeneration(t)
    /\ \/ /\ count + 1 < NumThreads
          /\ count' = count + 1
          /\ pc' = [pc EXCEPT ![t] = "test"]
          /\ UNCHANGED <<generation, queue>>
       \/ /\ count + 1 >= NumThreads
          /\ count' = 0
          /\ generation' = generation + 1
          /\ queue' = {}
          /\ pc' = [pc EXCEPT ![t] = "drop"]

\* while local_gen == lock.generation_id: wait once more.
Test(t) ==
    /\ pc[t] = "test"
    /\ \/ /\ localGen[t] = generation
          /\ queue' = queue \cup {t}
          /\ lock' = NoThread
          /\ pc' = [pc EXCEPT ![t] = "waiting"]
       \/ /\ localGen[t] # generation
          /\ pc' = [pc EXCEPT ![t] = "drop"]
          /\ UNCHANGED <<lock, queue>>
    /\ UNCHANGED <<count, generation, localGen, arrived>>

WaitOver(t) ==
    /\ pc[t] = "waiting"
    /\ t \notin queue
    /\ pc' = [pc EXCEPT ![t] = "relock"]
    /\ UNCHANGED <<lock, count, generation, queue, localGen, arrived>>

\* The guard is dropped and wait returns.
Return(t) ==
    /\ pc[t] = "drop"
    /\ lock' = NoThread
    /\ pc' = [pc EXCEPT ![t] = "idle"]
    /\ UNCHANGED <<count, generation, queue, localGen, arrived>>

BarStep(t) == Lock(t) \/ Arrive(t) \/ Test(t) \/ WaitOver(t) \/ Return(t)

BarNext == \E t \in Thread : Call(t) \/ BarStep(t)

\* Threads are scheduled and the mutex is fair (SgxMutex!LockSucceeds).
BarFairness == \A t \in Thread : WF_barVars(BarStep(t)) /\ SF_barVars(Lock(t))

BarSpec == BarInit /\ [][BarNext]_barVars /\ BarFairness

-----------------------------------------------------------------------------
(***************************************************************************)
(* Properties.                                                             *)
(***************************************************************************)

\* A barrier for no thread lets every thread pass alone, like one for one.
Size == IF NumThreads = 0 THEN 1 ELSE NumThreads

\* "block `n`-1 threads [...] and then wake up all threads at once when the
\* `n`th thread calls wait()": a generation that is over was joined by exactly
\* n threads, and a thread is past the barrier only in a later generation
\* than the one it joined.
Rendezvous ==
    /\ \A g \in 0 .. generation - 1 : Cardinality(arrived[g]) = Size
    /\ \A t \in Thread : pc[t] = "drop" => localGen[t] < generation

\* The threads of the current generation that have not passed the barrier.
Joined == {t \in Thread :
             pc[t] \in {"test", "waiting", "relock"} /\ localGen[t] = generation}

\* The re-used counter never mixes generations: it counts exactly the threads
\* that are blocked in the current one, however late those of earlier ones
\* leave, and only threads of the current one are asleep.
CountIsJoined ==
    /\ BarTypeOK
    /\ count = Cardinality(Joined)
    /\ \A t \in queue : localGen[t] = generation

\* A thread whose generation is over gets out.
AllPass ==
    \A t \in Thread :
        pc[t] = "waiting" /\ localGen[t] # generation ~> pc[t] = "idle"
=============================================================================

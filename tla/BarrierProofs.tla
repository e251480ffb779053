---------------------------- MODULE BarrierProofs ---------------------------
(***************************************************************************)
(* The safety properties of Barrier for any number of threads, any size of *)
(* the barrier and any number of generations.                              *)
(*                                                                         *)
(* The argument: while the generation is open, arrived[generation] is the  *)
(* set of threads blocked in it and count its cardinality.  The arrival    *)
(* that completes it resets the count and moves on, so that nobody is in   *)
(* the new generation, and the threads of the old one are late, but no     *)
(* longer counted.                                                         *)
(***************************************************************************)
EXTENDS Barrier, FiniteSetTheorems, TLAPS

-----------------------------------------------------------------------------
(***************************************************************************)
(* The inductive invariant behind the safety properties.                   *)
(***************************************************************************)

\* The mutex is held between lock and the wait or the return.
HolderOK ==
    \A t \in Thread : pc[t] \in {"arrive", "test", "drop"} <=> lock = t

\* The threads that have called wait and not arrived can each complete one
\* more generation, no more.
Entering == {t \in Thread : pc[t] \in {"lock", "arrive"}}

RoomLeft == generation + Cardinality(Entering) <= MaxGeneration + Cardinality(Thread)

\* The current generation is incomplete, and nobody has joined a later one.
GenerationOpen ==
    /\ count < Size
    /\ arrived[generation] = Joined
    /\ \A g \in Generations : g > generation => arrived[g] = {}
    /\ \A t \in Thread :
          pc[t] \in {"test", "waiting", "relock"} => localGen[t] <= generation
    /\ \A t \in queue : pc[t] = "waiting"

BarInv == HolderOK /\ RoomLeft /\ CountIsJoined /\ GenerationOpen /\ Rendezvous

-----------------------------------------------------------------------------
(***************************************************************************)
(* Lemmas and theorems.                                                    *)
(***************************************************************************)

\* Sets of threads have a cardinality.
LEMMA ThreadSets ==
  ASSUME NEW S, S \subseteq Thread
  PROVE  /\ IsFiniteSet(S) /\ Cardinality(S) \in Nat
         /\ Cardinality(S) <= Cardinality(Thread)
         /\ Cardinality(Thread) \in Nat
  BY BarrierThreads, FS_Subset, FS_CardinalityType

\* One thread more or one less.
LEMMA OneMore ==
  ASSUME NEW S, S \subseteq Thread, NEW t \in Thread
  PROVE  /\ t \notin S => Cardinality(S \cup {t}) = Cardinality(S) + 1
         /\ t \in S => Cardinality(S \ {t}) = Cardinality(S) - 1
  BY ThreadSets, FS_AddElement, FS_RemoveElement

\* The types, and the numbers the generations are counted with.
LEMMA BarFacts ==
  ASSUME BarInv
  PROVE  /\ lock \in Thread \cup {NoThread} /\ NoThread \notin Thread
         /\ count \in Nat /\ generation \in Generations /\ generation \in Nat
         /\ Generations \subseteq Nat
         /\ queue \subseteq Thread /\ pc \in [Thread -> BarPhase]
         /\ localGen \in [Thread -> Generations]
         /\ arrived \in [Generations -> SUBSET Thread]
         /\ Size \in Nat \ {0} /\ NumThreads \in Nat
         /\ MaxGeneration \in Nat /\ Cardinality(Thread) \in Nat
         /\ Joined \subseteq Thread /\ Entering \subseteq Thread
<1>1. MaxGeneration \in Nat /\ NumThreads \in Nat /\ Cardinality(Thread) \in Nat
  BY BarrierBounds, ThreadSets
<1> QED BY <1>1, BarrierThreads
        DEF BarInv, CountIsJoined, BarTypeOK, Generations, Size, Joined, Entering

\* Nobody has arrived.
LEMMA BarInitInv == BarInit => BarInv
<1> SUFFICES ASSUME BarInit PROVE BarInv
  OBVIOUS
<1>0. MaxGeneration \in Nat /\ NumThreads \in Nat /\ Cardinality(Thread) \in Nat
  BY BarrierBounds, ThreadSets
<1>1. Joined = {} /\ Entering = {} /\ Cardinality({}) = 0
  BY FS_EmptySet DEF BarInit, Joined, Entering
<1>2. BarTypeOK
  BY <1>0 DEF BarInit, BarTypeOK, Generations, BarPhase
<1>3. CountIsJoined
  BY <1>1, <1>2 DEF BarInit, CountIsJoined
<1>4. HolderOK
  BY BarrierThreads DEF BarInit, HolderOK
<1>5. RoomLeft
  BY <1>0, <1>1 DEF BarInit, RoomLeft
<1>6. GenerationOpen
  BY <1>0, <1>1 DEF BarInit, GenerationOpen, Size, Generations
<1>7. Rendezvous
  BY DEF BarInit, Rendezvous
<1> QED BY <1>3, <1>4, <1>5, <1>6, <1>7 DEF BarInv

\* A step that changes neither the generation nor who has joined it.
LEMMA SameGenerationInv ==
  ASSUME BarInv, NEW t \in Thread, NEW p \in BarPhase,
         pc' = [pc EXCEPT ![t] = p], HolderOK',
         lock' \in Thread \cup {NoThread}, queue' \subseteq queue \cup {t},
         UNCHANGED <<count, generation, localGen, arrived>>,
         p = "lock" => generation < MaxGeneration,
         p = "arrive" => pc[t] = "lock",
         pc[t] \in {"test", "waiting", "relock"} /\ localGen[t] = generation
           <=> p \in {"test", "waiting", "relock"} /\ localGen[t] = generation,
         p \in {"test", "waiting", "relock"} => localGen[t] <= generation,
         t \in queue' => p = "waiting" /\ localGen[t] = generation,
         p = "drop" => localGen[t] < generation
  PROVE  BarInv'
<1>0. /\ count \in Nat /\ generation \in Generations /\ generation \in Nat
      /\ pc \in [Thread -> BarPhase] /\ queue' \subseteq Thread
      /\ localGen \in [Thread -> Generations]
      /\ arrived \in [Generations -> SUBSET Thread]
      /\ MaxGeneration \in Nat /\ Cardinality(Thread) \in Nat
      /\ Entering \subseteq Thread
      /\ pc'[t] = p /\ \A u \in Thread : u # t => pc'[u] = pc[u]
  BY BarFacts
<1>1. BarTypeOK'
  BY <1>0 DEF BarTypeOK
<1>2. Joined' = Joined
  BY <1>0 DEF Joined
<1>3. CountIsJoined'
  BY <1>1, <1>2 DEF BarInv, CountIsJoined
<1>4. RoomLeft'
  <2>1. Entering' \subseteq Thread
    BY DEF Entering
  <2>2. CASE p = "lock"
    BY <1>0, <2>1, <2>2, ThreadSets DEF RoomLeft
  <2>3. CASE p # "lock"
    <3>1. Entering' \subseteq Entering
      BY <1>0, <2>3 DEF Entering
    <3>2. Cardinality(Entering') <= Cardinality(Entering)
      BY <1>0, <3>1, ThreadSets, FS_Subset
    <3> QED BY <1>0, <2>1, <3>2, ThreadSets DEF BarInv, RoomLeft
  <2> QED BY <2>2, <2>3
<1>5. GenerationOpen'
  BY <1>0, <1>2 DEF BarInv, GenerationOpen
<1>6. Rendezvous'
  BY <1>0 DEF BarInv, Rendezvous
<1> QED BY <1>3, <1>4, <1>5, <1>6 DEF BarInv

\* Who holds the mutex after a step of t.
LEMMA HolderStep ==
  ASSUME BarInv, NEW t \in Thread,
         Call(t) \/ BarStep(t)
  PROVE  HolderOK' /\ lock' \in Thread \cup {NoThread}
<1>0. /\ pc \in [Thread -> BarPhase] /\ NoThread \notin Thread
      /\ lock \in Thread \cup {NoThread}
      /\ \A u \in Thread : pc[u] \in {"arrive", "test", "drop"} <=> lock = u
  BY BarFacts DEF BarInv, HolderOK
<1>1. CASE Call(t)
  BY <1>0, <1>1 DEF Call, HolderOK
<1>2. CASE Lock(t)
  BY <1>0, <1>2 DEF Lock, HolderOK
<1>3. CASE Arrive(t)
  BY <1>0, <1>3 DEF Arrive, JoinGeneration, HolderOK
<1>4. CASE Test(t)
  BY <1>0, <1>4 DEF Test, HolderOK
<1>5. CASE WaitOver(t)
  BY <1>0, <1>5 DEF WaitOver, HolderOK
<1>6. CASE Return(t)
  BY <1>0, <1>6 DEF Return, HolderOK
<1> QED BY <1>1, <1>2, <1>3, <1>4, <1>5, <1>6 DEF BarStep

\* Every step but an arrival leaves the generation as it is.
LEMMA QuietStepInv ==
  ASSUME BarInv, NEW t \in Thread,
         Call(t) \/ Lock(t) \/ Test(t) \/ WaitOver(t) \/ Return(t)
  PROVE  BarInv'
<1>0. /\ pc \in [Thread -> BarPhase] /\ queue \subseteq Thread
      /\ localGen \in [Thread -> Generations] /\ generation \in Nat
      /\ Generations \subseteq Nat
      /\ \A u \in queue : pc[u] = "waiting" /\ localGen[u] = generation
      /\ pc[t] \in {"test", "waiting", "relock"} => localGen[t] <= generation
  BY BarFacts DEF BarInv, GenerationOpen, CountIsJoined
<1>1. HolderOK' /\ lock' \in Thread \cup {NoThread}
  BY HolderStep DEF BarStep
<1>2. CASE Call(t)
  <2>1. "lock" \in BarPhase
    BY DEF BarPhase
  <2> QED BY <1>0, <1>1, <1>2, <2>1, SameGenerationInv DEF Call
<1>3. CASE Lock(t)
  <2>1. PICK p \in {"arrive", "test"} :
           /\ pc' = [pc EXCEPT ![t] = p]
           /\ p = "arrive" <=> pc[t] = "lock"
    BY <1>0, <1>3 DEF Lock
  <2>2. p \in BarPhase
    BY <2>1 DEF BarPhase
  <2> QED BY <1>0, <1>1, <1>3, <2>1, <2>2, SameGenerationInv DEF Lock
<1>4. CASE Test(t)
  <2>1. /\ pc[t] = "test" /\ localGen[t] \in Nat /\ localGen[t] <= generation
        /\ t \notin queue /\ UNCHANGED <<count, generation, localGen, arrived>>
        /\ "waiting" \in BarPhase /\ "drop" \in BarPhase
    BY <1>0, <1>4 DEF Test, BarPhase
  <2>2. CASE localGen[t] = generation
    <3>1. pc' = [pc EXCEPT ![t] = "waiting"] /\ queue' = queue \cup {t}
      BY <1>4, <2>2 DEF Test
    <3> QED BY <1>0, <1>1, <2>1, <2>2, <3>1, SameGenerationInv
  <2>3. CASE localGen[t] # generation
    <3>1. /\ pc' = [pc EXCEPT ![t] = "drop"] /\ queue' = queue
          /\ localGen[t] < generation
      BY <1>0, <1>4, <2>1, <2>3 DEF Test
    <3> QED BY <1>0, <1>1, <2>1, <2>3, <3>1, SameGenerationInv
  <2> QED BY <2>2, <2>3
<1>5. CASE WaitOver(t)
  <2>1. "relock" \in BarPhase
    BY DEF BarPhase
  <2> QED BY <1>0, <1>1, <1>5, <2>1, SameGenerationInv DEF WaitOver
<1>6. CASE Return(t)
  <2>1. "idle" \in BarPhase
    BY DEF BarPhase
  <2> QED BY <1>0, <1>1, <1>6, <2>1, SameGenerationInv DEF Return
<1> QED BY <1>2, <1>3, <1>4, <1>5, <1>6

\* An arrival: one more thread in the generation, or the end of it.
LEMMA ArriveInv == ASSUME BarInv, NEW t \in Thread, Arrive(t) PROVE BarInv'
<1>0. /\ count \in Nat /\ generation \in Generations /\ generation \in Nat
      /\ Generations \subseteq Nat /\ NoThread \notin Thread
      /\ queue \subseteq Thread /\ pc \in [Thread -> BarPhase]
      /\ localGen \in [Thread -> Generations]
      /\ arrived \in [Generations -> SUBSET Thread]
      /\ Size \in Nat \ {0} /\ NumThreads \in Nat
      /\ MaxGeneration \in Nat /\ Cardinality(Thread) \in Nat
      /\ Joined \subseteq Thread /\ Entering \subseteq Thread
  BY BarFacts
<1>1. /\ pc[t] = "arrive" /\ lock' = lock
      /\ localGen' = [localGen EXCEPT ![t] = generation]
      /\ arrived' = [arrived EXCEPT ![generation] = @ \cup {t}]
  BY DEF Arrive, JoinGeneration
<1>2. /\ count = Cardinality(Joined) /\ count < Size
      /\ arrived[generation] = Joined
      /\ \A g \in Generations : g > generation => arrived[g] = {}
      /\ \A u \in Thread :
            pc[u] \in {"test", "waiting", "relock"} => localGen[u] <= generation
      /\ \A u \in queue : pc[u] = "waiting" /\ localGen[u] = generation
      /\ \A g \in 0 .. generation - 1 : Cardinality(arrived[g]) = Size
      /\ \A u \in Thread : pc[u] = "drop" => localGen[u] < generation
  BY DEF BarInv, CountIsJoined, GenerationOpen, Rendezvous
<1>3. HolderOK' /\ lock' \in Thread \cup {NoThread}
  BY HolderStep DEF BarStep
<1>4. t \notin Joined /\ Cardinality(Joined \cup {t}) = count + 1
  BY <1>0, <1>1, <1>2, OneMore DEF Joined
<1>5. /\ t \in Entering /\ Cardinality(Entering \ {t}) = Cardinality(Entering) - 1
      /\ Cardinality(Entering) \in Nat \ {0}
      /\ generation + Cardinality(Entering) <= MaxGeneration + Cardinality(Thread)
  <2>1. t \in Entering
    BY <1>1 DEF Entering
  <2>2. Cardinality(Entering \ {t}) \in Nat /\ Cardinality(Entering) \in Nat
    BY <1>0, ThreadSets
  <2> QED BY <1>0, <2>1, <2>2, OneMore DEF BarInv, RoomLeft
<1>6. arrived'[generation] = Joined \cup {t}
  BY <1>0, <1>1, <1>2
<1>7. \A g \in Generations : g # generation => arrived'[g] = arrived[g]
  BY <1>0, <1>1
<1>8. /\ localGen'[t] = generation
      /\ \A u \in Thread : u # t => localGen'[u] = localGen[u]
      /\ localGen' \in [Thread -> Generations]
      /\ arrived' \in [Generations -> SUBSET Thread]
      /\ \A u \in Thread : localGen[u] \in Nat /\ localGen'[u] \in Nat
  BY <1>0, <1>1
<1>9. CASE count + 1 < NumThreads
  <2>1. /\ count' = count + 1 /\ pc' = [pc EXCEPT ![t] = "test"]
        /\ UNCHANGED <<generation, queue>> /\ "test" \in BarPhase
    BY <1>0, <1>9 DEF Arrive, BarPhase
  <2>2. pc'[t] = "test" /\ \A u \in Thread : u # t => pc'[u] = pc[u]
    BY <1>0, <2>1
  <2>3. Joined' = Joined \cup {t} /\ Entering' = Entering \ {t}
    BY <1>0, <1>1, <1>8, <2>1, <2>2 DEF Joined, Entering
  <2>4. BarTypeOK'
    BY <1>0, <1>3, <1>8, <2>1 DEF BarTypeOK
  <2>5. CountIsJoined'
    BY <1>0, <1>2, <1>4, <1>8, <2>1, <2>3, <2>4 DEF CountIsJoined
  <2>6. RoomLeft'
    BY <1>0, <1>5, <2>1, <2>3 DEF RoomLeft
  <2>7. GenerationOpen'
    BY <1>0, <1>1, <1>2, <1>6, <1>7, <1>8, <1>9, <2>1, <2>2, <2>3
    DEF GenerationOpen, Size
  <2>8. Rendezvous'
    <3>1. \A g \in 0 .. generation - 1 : g \in Generations
      BY <1>0 DEF Generations
    <3> QED BY <1>0, <1>2, <1>7, <1>8, <2>1, <2>2, <3>1 DEF Rendezvous
  <2> QED BY <1>3, <2>5, <2>6, <2>7, <2>8 DEF BarInv
<1>10. CASE count + 1 >= NumThreads
  <2>1. /\ count' = 0 /\ pc' = [pc EXCEPT ![t] = "drop"] /\ queue' = {}
        /\ generation' = generation + 1 /\ "drop" \in BarPhase
    BY <1>0, <1>10 DEF Arrive, BarPhase
  <2>2. pc'[t] = "drop" /\ \A u \in Thread : u # t => pc'[u] = pc[u]
    BY <1>0, <2>1
  <2>3. generation' \in Generations /\ generation' > generation
    BY <1>0, <1>5, <2>1 DEF Generations
  <2>4. Joined' = {} /\ Entering' = Entering \ {t} /\ Cardinality({}) = 0
    <3>1. \A u \in Thread : localGen'[u] = generation'
              => pc'[u] \notin {"test", "waiting", "relock"}
      BY <1>0, <1>2, <1>8, <2>1, <2>2
    <3> QED BY <1>0, <2>2, <3>1, FS_EmptySet DEF Joined, Entering
  <2>5. BarTypeOK'
    BY <1>0, <1>3, <1>8, <2>1, <2>3 DEF BarTypeOK
  <2>6. CountIsJoined'
    BY <2>1, <2>4, <2>5 DEF CountIsJoined
  <2>7. RoomLeft'
    BY <1>0, <1>5, <2>1, <2>4 DEF RoomLeft
  <2>8. GenerationOpen'
    <3>1. \A g \in Generations : g > generation => arrived'[g] = {}
      BY <1>0, <1>2, <1>7
    <3>2. \A u \in Thread :
             pc'[u] \in {"test", "waiting", "relock"} => localGen'[u] <= generation'
      BY <1>0, <1>2, <1>8, <2>1, <2>2
    <3> QED BY <1>0, <2>1, <2>3, <2>4, <3>1, <3>2 DEF GenerationOpen, Size
  <2>9. Rendezvous'
    <3>1. \A g \in 0 .. generation - 1 : g \in Generations /\ g # generation
      BY <1>0 DEF Generations
    <3>2. Cardinality(arrived'[generation]) = Size
      BY <1>0, <1>2, <1>4, <1>6, <1>10 DEF Size
    <3>3. \A g \in 0 .. generation' - 1 : Cardinality(arrived'[g]) = Size
      BY <1>0, <1>2, <1>7, <2>1, <3>1, <3>2
    <3>4. \A u \in Thread : pc'[u] = "drop" => localGen'[u] < generation'
      BY <1>0, <1>2, <1>8, <2>1, <2>2
    <3> QED BY <3>3, <3>4 DEF Rendezvous
  <2> QED BY <1>3, <2>6, <2>7, <2>8, <2>9 DEF BarInv
<1> QED BY <1>0, <1>9, <1>10

\* Every step preserves the invariant.
LEMMA BarNextInv == BarInv /\ [BarNext]_barVars => BarInv'
<1> SUFFICES ASSUME BarInv, [BarNext]_barVars PROVE BarInv'
  OBVIOUS
<1>1. CASE UNCHANGED barVars
  BY <1>1 DEF barVars, BarInv, HolderOK, RoomLeft, CountIsJoined, BarTypeOK,
              GenerationOpen, Rendezvous, Joined, Entering
<1> QED BY <1>1, QuietStepInv, ArriveInv DEF BarNext, BarStep

\* Every completed generation was joined by exactly as many threads as the
\* barrier is for, and no thread passes before its generation is complete.
THEOREM BarrierRendezvous == BarSpec => []Rendezvous
<1>1. BarInv => Rendezvous
  BY DEF BarInv
<1> QED BY <1>1, BarInitInv, BarNextInv, PTL DEF BarSpec

\* The counter that every generation uses again counts exactly the threads
\* blocked in the current one, however late those of earlier ones leave.
THEOREM BarrierCounts == BarSpec => []CountIsJoined
<1>1. BarInv => CountIsJoined
  BY DEF BarInv
<1> QED BY <1>1, BarInitInv, BarNextInv, PTL DEF BarSpec
=============================================================================

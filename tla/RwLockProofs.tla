---------------------------- MODULE RwLockProofs ----------------------------
(***************************************************************************)
(* The safety properties of SgxThreadRwLock, for any finite set of threads *)
(* and any bounds, with events that may be interrupted or fail and with    *)
(* the reads through freed nodes of the writer queue.                      *)
(*                                                                         *)
(* RwInv is inductive.  The book-keeping part needs the read accesses as a *)
(* set (ReadGuards), so that counting them is the cardinality of that set. *)
(* The wake-up part rests on three facts: a step of an ocall never takes   *)
(* back a call (CalledStable); a thread that starts to wait finds the lock *)
(* taken, which makes WaitersAreCalled say nothing of it; and a reference  *)
(* dangles only after its writer was granted the lock.                     *)
(***************************************************************************)
EXTENDS SgxRwLock, EventProofs, FiniteSetTheorems

-----------------------------------------------------------------------------
(***************************************************************************)
(* The inductive invariant behind the safety properties.                   *)
(***************************************************************************)

\* No thread is in a queue twice, a reference is to the node of a thread and
\* is held between the two steps of an unlock only.
RefsAndQueues ==
    /\ IsInjective(readerQueue) /\ IsInjective(writerQueue)
    /\ \A t \in Thread : IF pc[t] = "deref" THEN ref[t] \in Thread
                          ELSE ref[t] = NoThread /\ ~dangling[t]

RwInv ==
    /\ EvInv
    /\ QueuesAreWaiters
    /\ RefsAndQueues
    /\ CountsAgree
    /\ owner # NoThread => readerCount = 0
    /\ \A t \in Thread : pc[t] = "read" => reads[t] < MaxReads
    /\ WaitersAreCalled

-----------------------------------------------------------------------------
(***************************************************************************)
(* Lemmas and theorems.                                                    *)
(***************************************************************************)

\* What the steps below use of the invariant's types.
LEMMA RwFacts ==
  ASSUME RwInv
  PROVE  /\ EvInv /\ EvTypeOK /\ oc \in [Thread -> OcPhase]
         /\ owner \in Thread \cup {NoThread} /\ NoThread \notin Thread
         /\ readerCount \in Nat
         /\ readerQueue \in Seq(Thread) /\ writerQueue \in Seq(Thread)
         /\ pc \in [Thread -> {"idle", "read", "write", "deref"}]
         /\ ref \in [Thread -> Thread \cup {NoThread}]
         /\ dangling \in [Thread -> BOOLEAN]
         /\ reads \in [Thread -> 0 .. MaxReads]
         /\ writes \in [Thread -> BOOLEAN]
         /\ MaxReads \in Nat
  BY RwThreads, MaxReadsAssumption
  DEF RwInv, QueuesAreWaiters, RwTypeOK, EvInv, EvTypeOK

\* The read accesses are finitely many.
LEMMA GuardsFinite == IsFiniteSet(ReadGuards)
<1>1. IsFiniteSet(1 .. MaxReads)
  BY MaxReadsAssumption, FS_Interval
<1>2. IsFiniteSet(Thread \X (1 .. MaxReads))
  BY <1>1, RwThreads, FS_Product
<1> QED BY <1>2, FS_Subset DEF ReadGuards

\* One more read access of t.
LEMMA GuardAdded ==
  ASSUME RwInv, NEW t \in Thread, reads[t] < MaxReads,
         reads' = [reads EXCEPT ![t] = @ + 1]
  PROVE  Cardinality(ReadGuards') = Cardinality(ReadGuards) + 1
<1> DEFINE g == <<t, reads[t] + 1>>
<1>0. reads \in [Thread -> 0 .. MaxReads] /\ MaxReads \in Nat
  BY RwFacts
<1>1. g \notin ReadGuards
  BY <1>0 DEF ReadGuards
<1>2. ReadGuards' = ReadGuards \cup {g}
  <2>1. ASSUME NEW h \in Thread \X (1 .. MaxReads)
        PROVE  h[2] <= reads'[h[1]] <=> (h[2] <= reads[h[1]] \/ h = g)
    <3>1. PICK u \in Thread, n \in 1 .. MaxReads : h = <<u, n>>
      OBVIOUS
    <3>2. CASE u = t
      BY <1>0, <3>1, <3>2
    <3>3. CASE u # t
      BY <1>0, <3>1, <3>3
    <3> QED BY <3>2, <3>3
  <2>2. g \in Thread \X (1 .. MaxReads)
    BY <1>0
  <2> QED BY <2>1, <2>2 DEF ReadGuards
<1> QED BY <1>1, <1>2, GuardsFinite, FS_AddElement

\* One read access of t less.
LEMMA GuardRemoved ==
  ASSUME RwInv, NEW t \in Thread, reads[t] > 0,
         reads' = [reads EXCEPT ![t] = @ - 1]
  PROVE  /\ Cardinality(ReadGuards') = Cardinality(ReadGuards) - 1
         /\ Cardinality(ReadGuards) \in Nat \ {0}
<1> DEFINE g == <<t, reads[t]>>
<1>0. reads \in [Thread -> 0 .. MaxReads] /\ MaxReads \in Nat
  BY RwFacts
<1>1. g \in ReadGuards
  BY <1>0 DEF ReadGuards
<1>2. ReadGuards' = ReadGuards \ {g}
  <2>1. ASSUME NEW h \in Thread \X (1 .. MaxReads)
        PROVE  h[2] <= reads'[h[1]] <=> (h[2] <= reads[h[1]] /\ h # g)
    <3>1. PICK u \in Thread, n \in 1 .. MaxReads : h = <<u, n>>
      OBVIOUS
    <3>2. CASE u = t
      BY <1>0, <3>1, <3>2
    <3>3. CASE u # t
      BY <1>0, <3>1, <3>3
    <3> QED BY <3>2, <3>3
  <2> QED BY <2>1 DEF ReadGuards
<1>3. Cardinality(ReadGuards) \in Nat /\ Cardinality(ReadGuards) # 0
  BY <1>1, GuardsFinite, FS_CardinalityType, FS_EmptySet
<1> QED BY <1>1, <1>2, <1>3, GuardsFinite, FS_RemoveElement

\* Nobody holds the lock, nobody waits for it.
LEMMA RwInitInv == RwInit => RwInv
<1> SUFFICES ASSUME RwInit PROVE RwInv
  OBVIOUS
<1>1. EvInv /\ EvTypeOK /\ oc = [t \in Thread |-> "none"]
  BY EvInitInv DEF RwInit, EvInv, EvInit
<1>2. RwTypeOK
  BY <1>1, MaxReadsAssumption DEF RwInit, RwTypeOK
<1>3. QueuesAreWaiters /\ WaitersAreCalled
  BY <1>2, ContainsEmpty DEF RwInit, QueuesAreWaiters, WaitersAreCalled
<1>4. RefsAndQueues
  BY DEF RwInit, RefsAndQueues, IsInjective
<1>5. CountsAgree
  <2>1. ReadGuards = {}
    BY MaxReadsAssumption DEF RwInit, ReadGuards
  <2> QED BY <2>1, RwThreads, FS_EmptySet DEF RwInit, CountsAgree
<1> QED BY <1>1, <1>3, <1>4, <1>5 DEF RwInit, RwInv

\* A call, or a reference that will make one, is not taken back by a step of
\* another thread that enters at most an ocall and leaves the references.
LEMMA ReferredKept ==
  ASSUME RwInv, NEW t \in Thread, oc[t] = "none", pc[t] # "deref",
         NEW u \in Thread, u # t, CalledOrReferred(u),
         \/ UNCHANGED evVars
         \/ \E m \in OcMode : BeginWait(t, m)
         \/ \E m \in OcMode, s \in Seq(Thread) : BeginSet(t, s, m),
         \A v \in Thread : v # t => /\ pc'[v] = pc[v] /\ ref'[v] = ref[v]
                                   /\ dangling'[v] = dangling[v]
  PROVE  CalledOrReferred(u)'
<1>1. EvInv
  BY DEF RwInv
<1>2. CASE Called(u)
  <2>1. Called(u)'
    BY <1>1, <1>2, CalledOther
  <2> QED BY <2>1 DEF CalledOrReferred
<1>3. CASE \E v \in Thread : pc[v] = "deref" /\ ref[v] = u /\ ~dangling[v]
  <2>1. PICK v \in Thread : pc[v] = "deref" /\ ref[v] = u /\ ~dangling[v] /\ v # t
    BY <1>3
  <2> QED BY <2>1 DEF CalledOrReferred
<1> QED BY <1>2, <1>3 DEF CalledOrReferred

\* Calls that change nothing.
LEMMA RwStutterInv == ASSUME RwInv, UNCHANGED rwAllVars PROVE RwInv'
<1>1. EvInv' /\ UNCHANGED <<evVars, rwVars>>
  BY EvStutterInv DEF RwInv, rwAllVars
<1>2. RwTypeOK' /\ QueuesAreWaiters' /\ RefsAndQueues' /\ CountsAgree'
  BY <1>1 DEF RwInv, RwTypeOK, EvInv, EvTypeOK, QueuesAreWaiters, RefsAndQueues,
              CountsAgree, ReadGuards, rwVars
<1>3. WaitersAreCalled'
  BY <1>1 DEF RwInv, WaitersAreCalled, CalledOrReferred, Called, SetterOf,
              evVars, rwVars
<1> QED BY <1>1, <1>2, <1>3 DEF RwInv, rwVars

\* read and try_read of a lock that nobody writes, at once or after waiting.
LEMMA ReadGranted ==
  ASSUME RwInv, NEW t \in Thread, oc[t] = "none", pc[t] \in {"idle", "read"},
         reads[t] < MaxReads, GrantRead(t),
         UNCHANGED <<evVars, writerQueue, ref, dangling>>,
         readerQueue' = RemoveFirst(readerQueue, t),
         pc' = [pc EXCEPT ![t] = "idle"]
  PROVE  RwInv'
<1>0. /\ EvInv /\ EvTypeOK /\ oc \in [Thread -> OcPhase]
      /\ owner \in Thread \cup {NoThread} /\ NoThread \notin Thread
      /\ readerCount \in Nat
      /\ readerQueue \in Seq(Thread) /\ writerQueue \in Seq(Thread)
      /\ pc \in [Thread -> {"idle", "read", "write", "deref"}]
      /\ reads \in [Thread -> 0 .. MaxReads] /\ MaxReads \in Nat
  BY RwFacts
<1>1. /\ owner = NoThread /\ readerCount' = readerCount + 1
      /\ reads' = [reads EXCEPT ![t] = @ + 1]
      /\ UNCHANGED <<owner, writes>>
  BY DEF GrantRead, Readable
<1>2. /\ readerQueue' \in Seq(Thread) /\ IsInjective(readerQueue')
      /\ \A u : Contains(readerQueue', u) <=> (Contains(readerQueue, u) /\ u # t)
  BY <1>0, RemoveFromQueue DEF RwInv, RefsAndQueues
<1>3. EvInv' /\ EvTypeOK'
  BY <1>0, EvStutterInv DEF EvInv
<1>4. RwTypeOK'
  <2>1. reads' \in [Thread -> 0 .. MaxReads] /\ readerCount' \in Nat
    BY <1>0, <1>1
  <2>2. pc' \in [Thread -> {"idle", "read", "write", "deref"}]
    BY <1>0
  <2> QED BY <1>1, <1>2, <1>3, <2>1, <2>2 DEF RwInv, QueuesAreWaiters, RwTypeOK
<1>5. QueuesAreWaiters'
  <2>1. \A u \in Thread : Contains(readerQueue', u) <=> pc'[u] = "read"
    BY <1>0, <1>2 DEF RwInv, QueuesAreWaiters
  <2>2. \A u \in Thread : Contains(writerQueue', u) <=> pc'[u] = "write"
    BY <1>0 DEF RwInv, QueuesAreWaiters
  <2>3. \A u \in Thread : pc'[u] = "deref" /\ ~dangling'[u] => pc'[ref'[u]] = "write"
    BY <1>0, RwFacts DEF RwInv, QueuesAreWaiters, RefsAndQueues
  <2> QED BY <1>4, <2>1, <2>2, <2>3 DEF QueuesAreWaiters
<1>6. RefsAndQueues'
  BY <1>0, <1>2 DEF RwInv, RefsAndQueues
<1>7. CountsAgree'
  BY <1>0, <1>1, GuardAdded DEF RwInv, CountsAgree
<1>8. WaitersAreCalled'
  <2>1. readerCount' # 0
    BY <1>0, <1>1
  <2>2. ASSUME NEW u \in Thread, Contains(readerQueue', u) PROVE CalledOrReferred(u)'
    <3>1. CalledOrReferred(u) /\ u # t
      BY <1>1, <1>2, <2>2 DEF RwInv, WaitersAreCalled
    <3> QED BY <1>0, <3>1, ReferredKept
  <2> QED BY <2>1, <2>2 DEF WaitersAreCalled
<1>9. \A u \in Thread : pc'[u] = "read" => reads'[u] < MaxReads
  BY <1>0, <1>1 DEF RwInv
<1> QED BY <1>1, <1>3, <1>5, <1>6, <1>7, <1>8, <1>9 DEF RwInv

\* write and try_write of a free lock, at once or after waiting; references to
\* the node of the new writer dangle from here on.
LEMMA WriteGranted ==
  ASSUME RwInv, NEW t \in Thread, oc[t] = "none", pc[t] \in {"idle", "write"},
         GrantWrite(t), UNCHANGED <<evVars, readerQueue, ref>>,
         writerQueue' = RemoveFirst(writerQueue, t),
         dangling' = [u \in Thread |-> dangling[u] \/ ref[u] = t],
         pc' = [pc EXCEPT ![t] = "idle"]
  PROVE  RwInv'
<1>0. /\ EvInv /\ EvTypeOK /\ oc \in [Thread -> OcPhase]
      /\ owner \in Thread \cup {NoThread} /\ NoThread \notin Thread
      /\ readerCount \in Nat
      /\ readerQueue \in Seq(Thread) /\ writerQueue \in Seq(Thread)
      /\ pc \in [Thread -> {"idle", "read", "write", "deref"}]
      /\ ref \in [Thread -> Thread \cup {NoThread}]
      /\ reads \in [Thread -> 0 .. MaxReads] /\ MaxReads \in Nat
  BY RwFacts
<1>1. /\ owner = NoThread /\ readerCount = 0 /\ owner' = t
      /\ writes' = [writes EXCEPT ![t] = TRUE]
      /\ UNCHANGED <<readerCount, reads>>
  BY DEF GrantWrite, Writable
<1>2. /\ writerQueue' \in Seq(Thread) /\ IsInjective(writerQueue')
      /\ \A u : Contains(writerQueue', u) <=> (Contains(writerQueue, u) /\ u # t)
  BY <1>0, RemoveFromQueue DEF RwInv, RefsAndQueues
<1>3. EvInv' /\ EvTypeOK'
  BY <1>0, EvStutterInv DEF EvInv
<1>4. RwTypeOK'
  <2>1. writes \in [Thread -> BOOLEAN] /\ dangling \in [Thread -> BOOLEAN]
    BY RwFacts
  <2>2. writes' \in [Thread -> BOOLEAN]
    BY <1>1, <2>1
  <2>3. dangling' \in [Thread -> BOOLEAN]
    BY <2>1, Zenon
  <2>4. pc' \in [Thread -> {"idle", "read", "write", "deref"}]
    BY <1>0
  <2>5. owner' \in Thread \cup {NoThread}
    BY <1>1
  <2> QED BY <1>0, <1>1, <1>2, <1>3, <2>2, <2>3, <2>4, <2>5
          DEF RwInv, QueuesAreWaiters, RwTypeOK
<1>5. QueuesAreWaiters'
  <2>1. \A u \in Thread : Contains(readerQueue', u) <=> pc'[u] = "read"
    BY <1>0 DEF RwInv, QueuesAreWaiters
  <2>2. \A u \in Thread : Contains(writerQueue', u) <=> pc'[u] = "write"
    BY <1>0, <1>2 DEF RwInv, QueuesAreWaiters
  <2>3. ASSUME NEW u \in Thread, pc'[u] = "deref", ~dangling'[u]
        PROVE  pc'[ref'[u]] = "write"
    <3>1. pc[u] = "deref" /\ ~dangling[u] /\ ref[u] # t
      BY <1>0, <2>3
    <3>2. pc[ref[u]] = "write" /\ ref[u] \in Thread
      BY <3>1 DEF RwInv, QueuesAreWaiters, RefsAndQueues
    <3> QED BY <1>0, <3>1, <3>2
  <2> QED BY <1>4, <2>1, <2>2, <2>3 DEF QueuesAreWaiters
<1>6. RefsAndQueues'
  <2>1. ASSUME NEW u \in Thread
        PROVE  IF pc'[u] = "deref" THEN ref'[u] \in Thread
               ELSE ref'[u] = NoThread /\ ~dangling'[u]
    <3>1. IF pc[u] = "deref" THEN ref[u] \in Thread
          ELSE ref[u] = NoThread /\ ~dangling[u]
      BY DEF RwInv, RefsAndQueues
    <3>2. pc'[u] = "deref" <=> pc[u] = "deref"
      BY <1>0
    <3>3. dangling'[u] <=> (dangling[u] \/ ref[u] = t)
      OBVIOUS
    <3> QED BY <1>0, <3>1, <3>2, <3>3
  <2>2. IsInjective(readerQueue')
    BY DEF RwInv, RefsAndQueues
  <2> QED BY <1>2, <2>1, <2>2 DEF RefsAndQueues
<1>7. CountsAgree'
  <2>1. \A u \in Thread : writes'[u] <=> owner' = u
    BY <1>0, <1>1, RwFacts DEF RwInv, CountsAgree
  <2> QED BY <1>1, <2>1 DEF RwInv, CountsAgree, ReadGuards
<1>8. WaitersAreCalled' /\ (owner' # NoThread => readerCount' = 0)
  BY <1>0, <1>1 DEF WaitersAreCalled
<1>9. \A u \in Thread : pc'[u] = "read" => reads'[u] < MaxReads
  BY <1>0, <1>1 DEF RwInv
<1> QED BY <1>3, <1>5, <1>6, <1>7, <1>8, <1>9 DEF RwInv

\* read finds a writer: the caller is in the queue when it starts to wait.
LEMMA WaitsToRead ==
  ASSUME RwInv, NEW t \in Thread, oc[t] = "none", owner # NoThread,
         \/ /\ pc[t] = "idle" /\ reads[t] < MaxReads
            /\ readerQueue' = Append(readerQueue, t)
         \/ pc[t] = "read" /\ readerQueue' = readerQueue,
         pc' = [pc EXCEPT ![t] = "read"], BeginWait(t, "wait"),
         UNCHANGED <<owner, readerCount, writerQueue, ref, dangling, reads, writes>>
  PROVE  RwInv'
<1>0. /\ EvInv /\ EvTypeOK /\ oc \in [Thread -> OcPhase]
      /\ owner \in Thread \cup {NoThread} /\ NoThread \notin Thread
      /\ readerCount \in Nat
      /\ readerQueue \in Seq(Thread) /\ writerQueue \in Seq(Thread)
      /\ pc \in [Thread -> {"idle", "read", "write", "deref"}]
      /\ ref \in [Thread -> Thread \cup {NoThread}]
      /\ reads \in [Thread -> 0 .. MaxReads] /\ MaxReads \in Nat
  BY RwFacts
<1>2. /\ readerQueue' \in Seq(Thread) /\ IsInjective(readerQueue')
      /\ \A u : Contains(readerQueue', u) <=> (Contains(readerQueue, u) \/ u = t)
  <2>1. IsInjective(readerQueue) /\ (Contains(readerQueue, t) <=> pc[t] = "read")
    BY DEF RwInv, QueuesAreWaiters, RefsAndQueues
  <2>2. CASE pc[t] = "idle"
    <3>1. readerQueue' = Append(readerQueue, t) /\ ~Contains(readerQueue, t)
      BY <2>1, <2>2
    <3>2. IsInjective(readerQueue')
      BY <1>0, <2>1, <3>1, AppendDistinct
    <3> QED BY <1>0, <3>1, <3>2, ContainsAppend
  <2>3. CASE pc[t] = "read"
    BY <1>0, <2>1, <2>3
  <2> QED BY <2>2, <2>3
<1>3. EvInv' /\ EvTypeOK'
  BY <1>0, BeginWaitInv DEF EvInv
<1>4. RwTypeOK'
  <2>1. pc' \in [Thread -> {"idle", "read", "write", "deref"}]
    BY <1>0
  <2> QED BY <1>2, <1>3, <2>1 DEF RwInv, QueuesAreWaiters, RwTypeOK
<1>5. QueuesAreWaiters'
  <2>1. \A u \in Thread : Contains(readerQueue', u) <=> pc'[u] = "read"
    BY <1>0, <1>2 DEF RwInv, QueuesAreWaiters
  <2>2. \A u \in Thread : Contains(writerQueue', u) <=> pc'[u] = "write"
    BY <1>0 DEF RwInv, QueuesAreWaiters
  <2>3. \A u \in Thread : pc'[u] = "deref" /\ ~dangling'[u] => pc'[ref'[u]] = "write"
    BY <1>0 DEF RwInv, QueuesAreWaiters, RefsAndQueues
  <2> QED BY <1>4, <2>1, <2>2, <2>3 DEF QueuesAreWaiters
<1>6. RefsAndQueues'
  BY <1>0, <1>2 DEF RwInv, RefsAndQueues
<1>7. CountsAgree' /\ WaitersAreCalled' /\ (owner' # NoThread => readerCount' = 0)
  BY DEF RwInv, CountsAgree, ReadGuards, WaitersAreCalled
<1>8. \A u \in Thread : pc'[u] = "read" => reads'[u] < MaxReads
  BY <1>0 DEF RwInv
<1> QED BY <1>3, <1>5, <1>6, <1>7, <1>8 DEF RwInv

\* write finds the lock taken: the caller is in the queue when it starts to
\* wait, and readers that were called stay called.
LEMMA WaitsToWrite ==
  ASSUME RwInv, NEW t \in Thread, oc[t] = "none", ~Writable,
         \/ pc[t] = "idle" /\ writerQueue' = Append(writerQueue, t)
         \/ pc[t] = "write" /\ writerQueue' = writerQueue,
         pc' = [pc EXCEPT ![t] = "write"], BeginWait(t, "wait"),
         UNCHANGED <<owner, readerCount, readerQueue, ref, dangling, reads, writes>>
  PROVE  RwInv'
<1>0. /\ EvInv /\ EvTypeOK /\ oc \in [Thread -> OcPhase]
      /\ owner \in Thread \cup {NoThread} /\ NoThread \notin Thread
      /\ readerCount \in Nat
      /\ readerQueue \in Seq(Thread) /\ writerQueue \in Seq(Thread)
      /\ pc \in [Thread -> {"idle", "read", "write", "deref"}]
      /\ ref \in [Thread -> Thread \cup {NoThread}]
      /\ reads \in [Thread -> 0 .. MaxReads] /\ MaxReads \in Nat
  BY RwFacts
<1>2. /\ writerQueue' \in Seq(Thread) /\ IsInjective(writerQueue')
      /\ \A u : Contains(writerQueue', u) <=> (Contains(writerQueue, u) \/ u = t)
  <2>1. IsInjective(writerQueue) /\ (Contains(writerQueue, t) <=> pc[t] = "write")
    BY DEF RwInv, QueuesAreWaiters, RefsAndQueues
  <2>2. CASE pc[t] = "idle"
    <3>1. writerQueue' = Append(writerQueue, t) /\ ~Contains(writerQueue, t)
      BY <2>1, <2>2
    <3>2. IsInjective(writerQueue')
      BY <1>0, <2>1, <3>1, AppendDistinct
    <3> QED BY <1>0, <3>1, <3>2, ContainsAppend
  <2>3. CASE pc[t] = "write"
    BY <1>0, <2>1, <2>3
  <2> QED BY <2>2, <2>3
<1>3. EvInv' /\ EvTypeOK'
  BY <1>0, BeginWaitInv DEF EvInv
<1>4. RwTypeOK'
  <2>1. pc' \in [Thread -> {"idle", "read", "write", "deref"}]
    BY <1>0
  <2> QED BY <1>2, <1>3, <2>1 DEF RwInv, QueuesAreWaiters, RwTypeOK
<1>5. QueuesAreWaiters'
  <2>1. \A u \in Thread : Contains(writerQueue', u) <=> pc'[u] = "write"
    BY <1>0, <1>2 DEF RwInv, QueuesAreWaiters
  <2>2. \A u \in Thread : Contains(readerQueue', u) <=> pc'[u] = "read"
    BY <1>0 DEF RwInv, QueuesAreWaiters
  <2>3. \A u \in Thread : pc'[u] = "deref" /\ ~dangling'[u] => pc'[ref'[u]] = "write"
    BY <1>0 DEF RwInv, QueuesAreWaiters, RefsAndQueues
  <2> QED BY <1>4, <2>1, <2>2, <2>3 DEF QueuesAreWaiters
<1>6. RefsAndQueues'
  BY <1>0, <1>2 DEF RwInv, RefsAndQueues
<1>7. CountsAgree' /\ (owner' # NoThread => readerCount' = 0)
  BY DEF RwInv, CountsAgree, ReadGuards
<1>8. WaitersAreCalled'
  <2> SUFFICES ASSUME owner = NoThread PROVE WaitersAreCalled'
    BY DEF WaitersAreCalled
  <2>1. readerCount' # 0
    BY DEF Writable
  <2>2. ASSUME NEW u \in Thread, Contains(readerQueue', u) PROVE CalledOrReferred(u)'
    <3>1. CalledOrReferred(u) /\ pc[u] = "read"
      BY <2>2 DEF RwInv, WaitersAreCalled, QueuesAreWaiters
    <3>2. u # t /\ "wait" \in OcMode
      BY <3>1, Phases
    <3> QED BY <1>0, <3>1, <3>2, ReferredKept
  <2> QED BY <2>1, <2>2 DEF WaitersAreCalled
<1>9. \A u \in Thread : pc'[u] = "read" => reads'[u] < MaxReads
  BY <1>0 DEF RwInv
<1> QED BY <1>3, <1>5, <1>6, <1>7, <1>8, <1>9 DEF RwInv

\* A step that keeps the queues and the book-keeping's relation to the callers,
\* enters at most an ocall, and may take a reference to the first writer: the
\* releases.  What is left to show is that the waiters are called.
LEMMA ReleaseInv ==
  ASSUME RwInv, NEW t \in Thread, oc[t] = "none", pc[t] = "idle",
         EvInv', CountsAgree', owner' \in {owner, NoThread},
         readerCount' \in Nat, owner' # NoThread => readerCount' = 0,
         \A u \in Thread : reads'[u] \in 0 .. MaxReads /\ reads'[u] <= reads[u],
         reads' \in [Thread -> 0 .. MaxReads], writes' \in [Thread -> BOOLEAN],
         UNCHANGED <<readerQueue, writerQueue, dangling>>,
         UNCHANGED <<pc, ref>> \/ (writerQueue # << >> /\ ReferFrontWriter(t)),
         WaitersAreCalled'
  PROVE  RwInv'
<1>0. /\ EvInv /\ EvTypeOK /\ oc \in [Thread -> OcPhase]
      /\ owner \in Thread \cup {NoThread} /\ NoThread \notin Thread
      /\ readerCount \in Nat
      /\ readerQueue \in Seq(Thread) /\ writerQueue \in Seq(Thread)
      /\ pc \in [Thread -> {"idle", "read", "write", "deref"}]
      /\ ref \in [Thread -> Thread \cup {NoThread}]
      /\ reads \in [Thread -> 0 .. MaxReads] /\ MaxReads \in Nat
  BY RwFacts
<1>1. pc' = pc \/ pc' = [pc EXCEPT ![t] = "deref"]
  BY DEF ReferFrontWriter
<1>2. RwTypeOK'
  <2>1. EvTypeOK'
    BY DEF EvInv
  <2>2. pc' \in [Thread -> {"idle", "read", "write", "deref"}]
    BY <1>0, <1>1
  <2>3. ref' \in [Thread -> Thread \cup {NoThread}]
    <3>1. CASE ref' = ref
      BY <1>0, <3>1
    <3>2. CASE ref' # ref
      <4>1. Head(writerQueue) \in Thread /\ ref' = [ref EXCEPT ![t] = Head(writerQueue)]
        BY <1>0, <3>2 DEF ReferFrontWriter
      <4> QED BY <1>0, <4>1
    <3> QED BY <3>1, <3>2
  <2>4. owner' \in Thread \cup {NoThread}
    BY <1>0
  <2>5. dangling' \in [Thread -> BOOLEAN]
    BY RwFacts
  <2> QED BY <1>0, <2>1, <2>2, <2>3, <2>4, <2>5 DEF RwTypeOK
<1>3. QueuesAreWaiters' /\ RefsAndQueues'
  <2>1. CASE UNCHANGED <<pc, ref>>
    BY <1>2, <2>1 DEF RwInv, QueuesAreWaiters, RefsAndQueues
  <2>2. CASE writerQueue # << >> /\ ReferFrontWriter(t)
    <3>1. PICK w \in Thread : w = Head(writerQueue)
      BY <1>0, <2>2
    <3>2. pc[w] = "write"
      BY <1>0, <2>2, <3>1, ContainsHeadTail DEF RwInv, QueuesAreWaiters
    <3>3. pc' = [pc EXCEPT ![t] = "deref"] /\ ref' = [ref EXCEPT ![t] = w]
      BY <2>2, <3>1 DEF ReferFrontWriter
    <3>4. QueuesAreWaiters'
      <4>1. \A u \in Thread : /\ Contains(readerQueue', u) <=> pc'[u] = "read"
                              /\ Contains(writerQueue', u) <=> pc'[u] = "write"
        BY <1>0, <3>3 DEF RwInv, QueuesAreWaiters
      <4>2. ASSUME NEW u \in Thread, pc'[u] = "deref", ~dangling'[u]
            PROVE  pc'[ref'[u]] = "write"
        <5>1. CASE u = t
          BY <1>0, <3>2, <3>3, <5>1
        <5>2. CASE u # t
          BY <1>0, <3>3, <4>2, <5>2 DEF RwInv, QueuesAreWaiters, RefsAndQueues
        <5> QED BY <5>1, <5>2
      <4> QED BY <1>2, <4>1, <4>2 DEF QueuesAreWaiters
    <3>5. RefsAndQueues'
      BY <1>0, <3>3 DEF RwInv, RefsAndQueues
    <3> QED BY <3>4, <3>5
  <2> QED BY <2>1, <2>2
<1>4. \A u \in Thread : pc'[u] = "read" => reads'[u] < MaxReads
  BY <1>0, <1>1 DEF RwInv
<1> QED BY <1>3, <1>4 DEF RwInv

\* The new reference of t will call the first writer.
LEMMA FrontReferred ==
  ASSUME RwInv, NEW t \in Thread, pc[t] = "idle",
         UNCHANGED <<dangling, writerQueue>>,
         writerQueue # << >>, ReferFrontWriter(t)
  PROVE  CalledOrReferred(Head(writerQueue))'
<1>1. PICK w \in Thread : w = Head(writerQueue)
  BY RwFacts
<1>2. pc'[t] = "deref" /\ ref'[t] = w /\ ~dangling'[t]
  BY <1>1, RwFacts DEF ReferFrontWriter, RwInv, RefsAndQueues
<1>3. ref'[t] = Head(writerQueue')
  BY <1>1, <1>2
<1> QED BY <1>2, <1>3 DEF CalledOrReferred

\* Neither release changes the references or phases of other threads.
LEMMA OthersKeepRefs ==
  ASSUME RwInv, NEW t \in Thread, UNCHANGED dangling,
         UNCHANGED <<pc, ref>> \/ ReferFrontWriter(t)
  PROVE  \A v \in Thread : v # t => /\ pc'[v] = pc[v] /\ ref'[v] = ref[v]
                                    /\ dangling'[v] = dangling[v]
  BY RwFacts DEF ReferFrontWriter

\* read_unlock: the last reader refers to the first writer.
LEMMA ReadUnlockInv == ASSUME RwInv, NEW t \in Thread, ReadUnlock(t) PROVE RwInv'
<1>0. /\ EvInv /\ EvTypeOK /\ oc \in [Thread -> OcPhase]
      /\ owner \in Thread \cup {NoThread} /\ NoThread \notin Thread
      /\ readerCount \in Nat
      /\ readerQueue \in Seq(Thread) /\ writerQueue \in Seq(Thread)
      /\ pc \in [Thread -> {"idle", "read", "write", "deref"}]
      /\ ref \in [Thread -> Thread \cup {NoThread}]
      /\ reads \in [Thread -> 0 .. MaxReads] /\ MaxReads \in Nat
  BY RwFacts
<1>1. /\ oc[t] = "none" /\ pc[t] = "idle" /\ EvInv'
      /\ UNCHANGED <<evVars, owner, readerQueue, writerQueue, dangling, writes>>
  BY <1>0, EvStutterInv DEF ReadUnlock, Idle
<1>2. CASE UNCHANGED <<readerCount, reads, pc, ref>>
  BY <1>1, <1>2, RwStutterInv DEF rwAllVars, rwVars
<1>3. CASE reads[t] > 0 /\ ReleaseRead(t)
  <2>1. /\ readerCount' = readerCount - 1
        /\ reads' = [reads EXCEPT ![t] = @ - 1]
        /\ \/ readerCount = 1 /\ ReferFrontWriter(t)
           \/ readerCount # 1 /\ UNCHANGED <<pc, ref>>
    BY <1>3 DEF ReleaseRead
  <2>2. /\ readerCount = Cardinality(ReadGuards)
        /\ Cardinality(ReadGuards') = Cardinality(ReadGuards) - 1
        /\ Cardinality(ReadGuards) \in Nat \ {0}
    BY <1>3, <2>1, GuardRemoved DEF RwInv, CountsAgree
  <2>3. CountsAgree' /\ owner = NoThread /\ readerCount' \in Nat
    BY <1>1, <2>1, <2>2 DEF RwInv, CountsAgree
  <2>4. /\ reads' \in [Thread -> 0 .. MaxReads]
        /\ \A u \in Thread : reads'[u] \in 0 .. MaxReads /\ reads'[u] <= reads[u]
    BY <1>0, <1>3, <2>1
  <2>5. UNCHANGED <<pc, ref>> \/ (writerQueue # << >> /\ ReferFrontWriter(t))
    BY <2>1 DEF ReferFrontWriter
  <2>6. WaitersAreCalled'
    <3>1. ASSUME NEW u \in Thread, Contains(readerQueue', u) PROVE CalledOrReferred(u)'
      <4>1. CalledOrReferred(u) /\ pc[u] = "read"
        BY <1>1, <2>3, <3>1 DEF RwInv, WaitersAreCalled, QueuesAreWaiters
      <4> QED BY <1>1, <2>5, <4>1, OthersKeepRefs, ReferredKept
    <3>2. ASSUME readerCount' = 0, writerQueue' # << >>
          PROVE  CalledOrReferred(Head(writerQueue))'
      <4>1. writerQueue # << >> /\ ReferFrontWriter(t)
        BY <1>0, <1>1, <2>1, <3>2
      <4> QED BY <1>1, <4>1, FrontReferred
    <3> QED BY <3>1, <3>2 DEF WaitersAreCalled
  <2>7. writes' \in [Thread -> BOOLEAN]
    BY <1>1, RwFacts
  <2> QED BY <1>1, <2>3, <2>4, <2>5, <2>6, <2>7, ReleaseInv
<1> QED BY <1>2, <1>3 DEF ReadUnlock

\* write_unlock: all waiting readers are called, or the first writer referred
\* to.
LEMMA WriteUnlockInv == ASSUME RwInv, NEW t \in Thread, WriteUnlock(t) PROVE RwInv'
<1>0. /\ EvInv /\ EvTypeOK /\ oc \in [Thread -> OcPhase]
      /\ owner \in Thread \cup {NoThread} /\ NoThread \notin Thread
      /\ readerCount \in Nat
      /\ readerQueue \in Seq(Thread) /\ writerQueue \in Seq(Thread)
      /\ pc \in [Thread -> {"idle", "read", "write", "deref"}]
      /\ ref \in [Thread -> Thread \cup {NoThread}]
      /\ reads \in [Thread -> 0 .. MaxReads] /\ MaxReads \in Nat
  BY RwFacts
<1>1. /\ oc[t] = "none" /\ pc[t] = "idle"
      /\ UNCHANGED <<readerCount, readerQueue, writerQueue, dangling, reads>>
  BY DEF WriteUnlock, Idle
<1>2. CASE owner # t
  BY <1>1, <1>2, RwStutterInv DEF WriteUnlock, rwAllVars, rwVars
<1>3. CASE owner = t
  <2>1. /\ owner' = NoThread /\ writes' = [writes EXCEPT ![t] = FALSE]
        /\ \/ /\ readerQueue # << >> /\ BeginSet(t, readerQueue, "set")
              /\ UNCHANGED <<pc, ref>>
           \/ /\ readerQueue = << >> /\ ReferFrontWriter(t)
              /\ UNCHANGED evVars
    BY <1>3 DEF WriteUnlock
  <2>2. EvInv'
    BY <1>0, <1>1, <2>1, EvStutterInv, BeginSetInv
  <2>3. CountsAgree' /\ readerCount = 0
    <3>1. \A u \in Thread : writes'[u] <=> owner' = u
      BY <1>0, <1>3, <2>1, RwFacts DEF RwInv, CountsAgree
    <3> QED BY <1>0, <1>1, <1>3, <3>1 DEF RwInv, CountsAgree, ReadGuards
  <2>4. UNCHANGED <<pc, ref>> \/ (writerQueue # << >> /\ ReferFrontWriter(t))
    BY <2>1 DEF ReferFrontWriter
  <2>5. WaitersAreCalled'
    <3>1. CASE readerQueue # << >>
      <4>1. ASSUME NEW u \in Thread, Contains(readerQueue', u) PROVE CalledOrReferred(u)'
        <5>1. Called(u)'
          BY <1>0, <1>1, <2>1, <3>1, <4>1, SetCalls
        <5> QED BY <5>1 DEF CalledOrReferred
      <4> QED BY <1>1, <3>1, <4>1 DEF WaitersAreCalled
    <3>2. CASE readerQueue = << >>
      <4>1. \A u : ~Contains(readerQueue', u)
        BY <1>1, <3>2, ContainsEmpty
      <4>2. ASSUME writerQueue' # << >> PROVE CalledOrReferred(Head(writerQueue))'
        BY <1>1, <2>1, <3>2, <4>2, FrontReferred
      <4> QED BY <4>1, <4>2 DEF WaitersAreCalled
    <3> QED BY <3>1, <3>2
  <2>6. writes' \in [Thread -> BOOLEAN]
    BY <2>1, RwFacts
  <2>7. /\ reads' \in [Thread -> 0 .. MaxReads]
        /\ \A u \in Thread : reads'[u] \in 0 .. MaxReads /\ reads'[u] <= reads[u]
    BY <1>0, <1>1
  <2> QED BY <1>0, <1>1, <2>1, <2>2, <2>3, <2>4, <2>5, <2>6, <2>7, ReleaseInv
<1> QED BY <1>2, <1>3

\* The event is set that the reference leads to, or any other, or none.
LEMMA DerefInv == ASSUME RwInv, NEW t \in Thread, Deref(t) PROVE RwInv'
<1>0. /\ EvInv /\ EvTypeOK /\ oc \in [Thread -> OcPhase]
      /\ owner \in Thread \cup {NoThread} /\ NoThread \notin Thread
      /\ readerCount \in Nat
      /\ readerQueue \in Seq(Thread) /\ writerQueue \in Seq(Thread)
      /\ pc \in [Thread -> {"idle", "read", "write", "deref"}]
      /\ ref \in [Thread -> Thread \cup {NoThread}]
      /\ reads \in [Thread -> 0 .. MaxReads] /\ MaxReads \in Nat
  BY RwFacts
<1>1. /\ pc[t] = "deref" /\ oc[t] = "none"
      /\ pc' = [pc EXCEPT ![t] = "idle"]
      /\ ref' = [ref EXCEPT ![t] = NoThread]
      /\ dangling' = [dangling EXCEPT ![t] = FALSE]
      /\ UNCHANGED <<owner, readerCount, readerQueue, writerQueue, reads, writes>>
      /\ ref[t] \in Thread
  BY DEF Deref, RwInv, RefsAndQueues
<1>2. \/ UNCHANGED evVars
      \/ \E s \in Seq(Thread) : s # << >> /\ BeginSet(t, s, "set")
  <2>1. \A u \in Thread : <<u>> \in Seq(Thread) /\ <<u>> # << >>
    OBVIOUS
  <2> QED BY <1>1, <2>1 DEF Deref
<1>3. EvInv' /\ EvTypeOK'
  BY <1>0, <1>1, <1>2, EvStutterInv, BeginSetInv DEF EvInv
<1>4. RwTypeOK'
  <2>1. pc' \in [Thread -> {"idle", "read", "write", "deref"}]
    BY <1>0, <1>1
  <2>2. ref' \in [Thread -> Thread \cup {NoThread}]
    BY <1>0, <1>1
  <2>3. dangling' \in [Thread -> BOOLEAN] /\ writes' \in [Thread -> BOOLEAN]
    BY <1>1, RwFacts
  <2> QED BY <1>0, <1>1, <1>3, <2>1, <2>2, <2>3 DEF RwTypeOK
<1>5. QueuesAreWaiters'
  <2>1. \A u \in Thread : /\ Contains(readerQueue', u) <=> pc'[u] = "read"
                          /\ Contains(writerQueue', u) <=> pc'[u] = "write"
    BY <1>0, <1>1 DEF RwInv, QueuesAreWaiters
  <2>2. ASSUME NEW u \in Thread, pc'[u] = "deref", ~dangling'[u]
        PROVE  pc'[ref'[u]] = "write"
    <3>1. u # t /\ pc[u] = "deref" /\ ~dangling[u] /\ ref'[u] = ref[u]
      BY <1>0, <1>1, <2>2, RwFacts
    <3> QED BY <1>0, <1>1, <3>1 DEF RwInv, QueuesAreWaiters, RefsAndQueues
  <2> QED BY <1>4, <2>1, <2>2 DEF QueuesAreWaiters
<1>6. RefsAndQueues'
  BY <1>0, <1>1, RwFacts DEF RwInv, RefsAndQueues
<1>7. CountsAgree' /\ (owner' # NoThread => readerCount' = 0)
  BY <1>1 DEF RwInv, CountsAgree, ReadGuards
<1>8. ASSUME NEW u \in Thread, u # t, CalledOrReferred(u) PROVE CalledOrReferred(u)'
  <2>1. CASE Called(u)
    <3>1. Called(u)'
      BY <1>0, <1>1, <1>2, <1>8, <2>1, CalledOther, Phases
    <3> QED BY <3>1 DEF CalledOrReferred
  <2>2. CASE pc[t] = "deref" /\ ref[t] = u /\ ~dangling[t]
    <3>1. BeginSet(t, <<u>>, "set") /\ Contains(<<u>>, u)
      BY <2>2 DEF Deref, Contains
    <3>2. Called(u)'
      BY <1>0, <3>1, SetCalls
    <3> QED BY <3>2 DEF CalledOrReferred
  <2>3. CASE \E v \in Thread : v # t /\ pc[v] = "deref" /\ ref[v] = u /\ ~dangling[v]
    <3>1. PICK v \in Thread : v # t /\ pc[v] = "deref" /\ ref[v] = u /\ ~dangling[v]
      BY <2>3
    <3>2. pc'[v] = "deref" /\ ref'[v] = u /\ ~dangling'[v]
      BY <1>0, <1>1, <3>1, RwFacts
    <3> QED BY <3>2 DEF CalledOrReferred
  <2> QED BY <1>8, <2>1, <2>2, <2>3 DEF CalledOrReferred
<1>9. WaitersAreCalled'
  <2>1. \A u \in Thread : Contains(readerQueue, u) \/ Contains(writerQueue, u) => u # t
    BY <1>1 DEF RwInv, QueuesAreWaiters
  <2>2. writerQueue # << >> => Head(writerQueue) \in Thread /\ Head(writerQueue) # t
    BY <1>0, <2>1, ContainsHeadTail
  <2>3. ASSUME owner = NoThread, NEW u \in Thread, Contains(readerQueue, u)
        PROVE  CalledOrReferred(u)'
    BY <1>8, <2>1, <2>3 DEF RwInv, WaitersAreCalled
  <2>4. ASSUME owner = NoThread, readerCount = 0, readerQueue = << >>,
               writerQueue # << >>
        PROVE  CalledOrReferred(Head(writerQueue))'
    <3>1. PICK w \in Thread : w = Head(writerQueue) /\ w # t
      BY <2>2, <2>4
    <3>2. CalledOrReferred(w)'
      BY <1>8, <2>4, <3>1 DEF RwInv, WaitersAreCalled
    <3> QED BY <1>1, <3>1, <3>2 DEF CalledOrReferred, Called, SetterOf
  <2> QED BY <1>1, <2>3, <2>4 DEF WaitersAreCalled
<1>10. \A u \in Thread : pc'[u] = "read" => reads'[u] < MaxReads
  BY <1>0, <1>1 DEF RwInv
<1> QED BY <1>3, <1>5, <1>6, <1>7, <1>9, <1>10 DEF RwInv

\* A step of an ocall, or something that happens in one.
LEMMA RwEventInv ==
  ASSUME RwInv, NEW t \in Thread, EvStep(t) \/ EvEnvironment(t), UNCHANGED rwVars
  PROVE  RwInv'
<1>1. EvInv /\ EvInv' /\ EvTypeOK'
  BY EvStepInv DEF RwInv, EvInv
<1>2. RwTypeOK' /\ QueuesAreWaiters' /\ RefsAndQueues' /\ CountsAgree'
  BY <1>1 DEF RwInv, RwTypeOK, QueuesAreWaiters, RefsAndQueues, CountsAgree,
              ReadGuards, rwVars
<1>3. ASSUME NEW u \in Thread, CalledOrReferred(u) PROVE CalledOrReferred(u)'
  <2>1. Called(u) => Called(u)'
    BY <1>1, CalledStable
  <2> QED BY <1>3, <2>1 DEF CalledOrReferred, rwVars
<1>4. WaitersAreCalled'
  <2>1. ASSUME owner = NoThread, NEW u \in Thread, Contains(readerQueue, u)
        PROVE  CalledOrReferred(u)'
    BY <1>3, <2>1 DEF RwInv, WaitersAreCalled
  <2>2. ASSUME owner = NoThread, readerCount = 0, readerQueue = << >>,
               writerQueue # << >>
        PROVE  CalledOrReferred(Head(writerQueue))'
    <3>1. PICK w \in Thread : w = Head(writerQueue)
      BY <2>2, RwFacts
    <3>2. CalledOrReferred(w)'
      BY <1>3, <2>2, <3>1 DEF RwInv, WaitersAreCalled
    <3> QED BY <3>1, <3>2 DEF CalledOrReferred, Called, SetterOf, rwVars
  <2> QED BY <2>1, <2>2 DEF WaitersAreCalled, rwVars
<1> QED BY <1>1, <1>2, <1>4 DEF RwInv, rwVars

\* A thread outside the loops is in no queue, and no live reference is to it.
LEMMA IdleFacts ==
  ASSUME RwInv, NEW t \in Thread, pc[t] = "idle"
  PROVE  /\ RemoveFirst(readerQueue, t) = readerQueue
         /\ RemoveFirst(writerQueue, t) = writerQueue
         /\ dangling = [u \in Thread |-> dangling[u] \/ ref[u] = t]
         /\ pc = [pc EXCEPT ![t] = "idle"]
<1>1. ~Contains(readerQueue, t) /\ ~Contains(writerQueue, t)
  BY DEF RwInv, QueuesAreWaiters
<1>2. ASSUME NEW u \in Thread, ref[u] = t PROVE dangling[u]
  <2>1. pc[u] = "deref"
    BY <1>2, RwThreads DEF RwInv, RefsAndQueues
  <2>2. ~dangling[u] => pc[t] = "write"
    BY <1>2, <2>1 DEF RwInv, QueuesAreWaiters
  <2> QED BY <2>2
<1>3. dangling \in [Thread -> BOOLEAN]
  BY RwFacts
<1>4. dangling = [u \in Thread |-> dangling[u] \/ ref[u] = t]
  <2>1. \A u \in Thread : dangling[u] \in BOOLEAN
    BY <1>3
  <2>2. \A u \in Thread : dangling[u] = (dangling[u] \/ ref[u] = t)
    BY <1>2, <2>1
  <2> QED BY <1>3, <2>2
<1> QED BY <1>1, <1>4, RwFacts DEF RemoveFirst, Contains

\* Every step preserves the invariant.
LEMMA RwNextInv == RwInv /\ [RwNext]_rwAllVars => RwInv'
<1> SUFFICES ASSUME RwInv, [RwNext]_rwAllVars PROVE RwInv'
  OBVIOUS
<1>1. CASE UNCHANGED rwAllVars
  BY <1>1, RwStutterInv
<1>2. ASSUME NEW t \in Thread, Read(t) \/ TryRead(t) PROVE RwInv'
  <2>1. /\ pc[t] = "idle" /\ oc[t] = "none" /\ reads[t] < MaxReads
        /\ UNCHANGED <<writerQueue, ref, dangling>>
    BY <1>2 DEF Read, TryRead, Idle
  <2>2. CASE GrantRead(t) /\ UNCHANGED <<evVars, readerQueue, pc>>
    BY <2>1, <2>2, IdleFacts, ReadGranted
  <2>3. CASE UNCHANGED rwAllVars
    BY <2>3, RwStutterInv
  <2>4. CASE /\ owner # NoThread /\ readerQueue' = Append(readerQueue, t)
             /\ pc' = [pc EXCEPT ![t] = "read"] /\ BeginWait(t, "wait")
             /\ UNCHANGED <<owner, readerCount, reads, writes>>
    BY <2>1, <2>4, WaitsToRead
  <2> QED BY <1>2, <2>2, <2>3, <2>4 DEF Read, TryRead, rwAllVars, rwVars
<1>3. ASSUME NEW t \in Thread, ReadStep(t) PROVE RwInv'
  <2>1. /\ pc[t] = "read" /\ oc[t] = "none" /\ reads[t] < MaxReads
        /\ UNCHANGED <<writerQueue, ref, dangling>>
    BY <1>3 DEF ReadStep, RwInv
  <2>2. CASE GrantRead(t)
    BY <1>3, <2>1, <2>2, ReadGranted DEF ReadStep, GrantRead
  <2>3. CASE ~Readable
    <3>1. /\ BeginWait(t, "wait") /\ owner # NoThread
          /\ UNCHANGED <<owner, readerCount, readerQueue, pc, reads, writes>>
      BY <1>3, <2>3 DEF ReadStep, Readable, GrantRead
    <3>2. pc' = [pc EXCEPT ![t] = "read"]
      BY <2>1, <3>1, RwFacts
    <3> QED BY <2>1, <3>1, <3>2, WaitsToRead
  <2> QED BY <1>3, <2>2, <2>3 DEF ReadStep
<1>4. ASSUME NEW t \in Thread, Write(t) \/ TryWrite(t) PROVE RwInv'
  <2>1. /\ pc[t] = "idle" /\ oc[t] = "none"
        /\ UNCHANGED <<readerQueue, ref, dangling>>
    BY <1>4 DEF Write, TryWrite, Idle
  <2>2. CASE GrantWrite(t) /\ UNCHANGED <<evVars, writerQueue, pc>>
    BY <2>1, <2>2, IdleFacts, WriteGranted
  <2>3. CASE UNCHANGED rwAllVars
    BY <2>3, RwStutterInv
  <2>4. CASE /\ ~Writable /\ writerQueue' = Append(writerQueue, t)
             /\ pc' = [pc EXCEPT ![t] = "write"] /\ BeginWait(t, "wait")
             /\ UNCHANGED <<owner, readerCount, reads, writes>>
    BY <2>1, <2>4, WaitsToWrite
  <2> QED BY <1>4, <2>2, <2>3, <2>4 DEF Write, TryWrite, rwAllVars, rwVars
<1>5. ASSUME NEW t \in Thread, WriteStep(t) PROVE RwInv'
  <2>1. /\ pc[t] = "write" /\ oc[t] = "none" /\ UNCHANGED <<readerQueue, ref>>
    BY <1>5 DEF WriteStep
  <2>2. CASE GrantWrite(t)
    BY <1>5, <2>1, <2>2, WriteGranted DEF WriteStep, GrantWrite
  <2>3. CASE ~Writable
    <3>1. /\ BeginWait(t, "wait")
          /\ UNCHANGED <<owner, readerCount, writerQueue, dangling, pc, reads, writes>>
      BY <1>5, <2>3 DEF WriteStep, GrantWrite
    <3>2. pc' = [pc EXCEPT ![t] = "write"]
      BY <2>1, <3>1, RwFacts
    <3> QED BY <2>1, <2>3, <3>1, <3>2, WaitsToWrite
  <2> QED BY <1>5, <2>2, <2>3 DEF WriteStep
<1>6. ASSUME NEW t \in Thread, Deref(t) \/ RwRelease(t) PROVE RwInv'
  BY <1>6, DerefInv, ReadUnlockInv, WriteUnlockInv DEF RwRelease
<1>7. ASSUME NEW t \in Thread, EventStep(t) \/ EventEnvironment(t) PROVE RwInv'
  BY <1>7, RwEventInv DEF EventStep, EventEnvironment
<1> QED BY <1>1, <1>2, <1>3, <1>4, <1>5, <1>6, <1>7 DEF RwNext, RwStep

\* Types, and a thread is in a queue exactly while it is in the loop of read
\* or write; a live reference is to a thread that still waits.
THEOREM RwQueues == RwSpec => []QueuesAreWaiters
<1>1. RwInv => QueuesAreWaiters
  BY DEF RwInv
<1> QED BY <1>1, RwInitInv, RwNextInv, PTL DEF RwSpec

\* owner and reader_count are exactly what the callers were granted.
THEOREM RwCounts == RwSpec => []CountsAgree
<1>1. RwInv => CountsAgree
  BY DEF RwInv
<1> QED BY <1>1, RwInitInv, RwNextInv, PTL DEF RwSpec

\* The documented guarantee: whoever may write is alone.
THEOREM RwExcludes == RwSpec => []ReadersOrWriter
<1>1. RwInv => ReadersOrWriter
  <2> SUFFICES ASSUME RwInv, NEW t \in Thread, NEW u \in Thread, writes[t]
               PROVE  (writes[u] => u = t) /\ reads[u] = 0
    BY DEF ReadersOrWriter
  <2>1. owner = t /\ (writes[u] => u = t)
    BY DEF RwInv, CountsAgree
  <2>2. Cardinality(ReadGuards) = 0
    BY <2>1, RwFacts DEF RwInv, CountsAgree
  <2>3. ReadGuards = {}
    BY <2>2, GuardsFinite, FS_EmptySet
  <2>4. reads[u] # 0 => <<u, 1>> \in ReadGuards
    BY RwFacts DEF ReadGuards
  <2> QED BY <2>1, <2>3, <2>4
<1> QED BY <1>1, RwInitInv, RwNextInv, PTL DEF RwSpec

\* No wake-up is lost although the writer queue is referred to after the spin
\* lock was released: whenever nobody writes, the waiting readers are called,
\* and the first writer is when no reader is left or waits.
THEOREM RwWakes == RwSpec => []WaitersAreCalled
<1>1. RwInv => WaitersAreCalled
  BY DEF RwInv
<1> QED BY <1>1, RwInitInv, RwNextInv, PTL DEF RwSpec
=============================================================================

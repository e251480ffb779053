----------------------------- MODULE SgxRwLock ------------------------------
(***************************************************************************)
(* SgxThreadRwLock (sys/rwlock.rs) over the thread events.  Each stretch   *)
(* of code under the lock's spin lock is one step.                         *)
(*                                                                         *)
(* read_unlock and write_unlock take a REFERENCE to the front node of the  *)
(* writer queue under the spin lock and read the thread from it only after *)
(* the spin lock was released.  The reference is a variable of the model:  *)
(* when its writer has left the queue in between, the node is freed memory *)
(* and the read yields whatever the allocator has put there: any thread,   *)
(* or a value the ocall refuses.  (A value that makes the enclave fault    *)
(* ends the behaviour, which no property below forbids.)                   *)
(*                                                                         *)
(* Callers are the guards of sync/rwlock.rs: what was acquired is released *)
(* once, by the thread that acquired it, and a thread that holds the lock  *)
(* asks for it again only where the code answers without blocking.         *)
(***************************************************************************)
EXTENDS SgxEvent

CONSTANTS
    NoThread,       \* SGX_THREAD_T_NULL
    MaxReads        \* bound: read accesses held by one thread

ASSUME RwThreads == NoThread \notin Thread /\ IsFiniteSet(Thread)
ASSUME MaxReadsAssumption == MaxReads \in Nat \ {0}

VARIABLES
    owner,          \* the writing thread or NoThread
    readerCount,    \* read accesses granted and not released
    readerQueue,    \* threads waiting in read
    writerQueue,    \* threads waiting in write
    pc,             \* pc[t]: "idle", "read" or "write" (in the loop), "deref"
    ref,            \* ref[t]: the writer whose queue node t refers to
    dangling,       \* ghost: that node has been removed from the queue
    reads,          \* ghost: read accesses t was granted and has not released
    writes          \* ghost: t was granted write access

rwVars == <<owner, readerCount, readerQueue, writerQueue, pc, ref, dangling,
            reads, writes>>

RwTypeOK ==
    /\ EvTypeOK
    /\ owner \in Thread \cup {NoThread}
    /\ readerCount \in Nat
    /\ readerQueue \in Seq(Thread)
    /\ writerQueue \in Seq(Thread)
    /\ pc \in [Thread -> {"idle", "read", "write", "deref"}]
    /\ ref \in [Thread -> Thread \cup {NoThread}]
    /\ dangling \in [Thread -> BOOLEAN]
    /\ reads \in [Thread -> 0 .. MaxReads]
    /\ writes \in [Thread -> BOOLEAN]

RwInit ==
    /\ EvInit
    /\ owner = NoThread
    /\ readerCount = 0
    /\ readerQueue = << >>
    /\ writerQueue = << >>
    /\ pc = [t \in Thread |-> "idle"]
    /\ ref = [t \in Thread |-> NoThread]
    /\ dangling = [t \in Thread |-> FALSE]
    /\ reads = [t \in Thread |-> 0]
    /\ writes = [t \in Thread |-> FALSE]

-----------------------------------------------------------------------------
Idle(t) == pc[t] = "idle" /\ oc[t] = "none"

Readable == owner = NoThread
\* Mutant of Writable: readers are not counted.
Writable_IgnoresReaders == owner = NoThread

Writable == owner = NoThread /\ readerCount = 0

\* Mutant of GrantRead: the access is granted and not counted.
GrantRead_Uncounted(t) ==
    /\ Readable
    /\ reads' = [reads EXCEPT ![t] = @ + 1]
    /\ UNCHANGED <<owner, readerCount, writes>>

GrantRead(t) ==
    /\ Readable
    /\ readerCount' = readerCount + 1
    /\ reads' = [reads EXCEPT ![t] = @ + 1]
    /\ UNCHANGED <<owner, writes>>

GrantWrite(t) ==
    /\ Writable
    /\ owner' = t
    /\ writes' = [writes EXCEPT ![t] = TRUE]
    /\ UNCHANGED <<readerCount, reads>>

\* read: granted at once, refused to the writer itself (EDEADLK), or queued.
Read(t) ==
    /\ Idle(t)
    /\ reads[t] < MaxReads
    /\ \/ /\ GrantRead(t)
          /\ UNCHANGED <<evVars, readerQueue, pc>>
       \/ /\ owner = t
          /\ UNCHANGED <<evVars, owner, readerCount, readerQueue, pc, reads, writes>>
       \/ /\ owner \notin {t, NoThread}
          /\ readerQueue' = Append(readerQueue, t)
          /\ pc' = [pc EXCEPT ![t] = "read"]
          /\ BeginWait(t, "wait")
          /\ UNCHANGED <<owner, readerCount, reads, writes>>
    /\ UNCHANGED <<writerQueue, ref, dangling>>

\* Mutant of ReadStep: the reader stays in the queue.
ReadStep_Stays(t) ==
    /\ pc[t] = "read"
    /\ oc[t] = "none"
    /\ \/ /\ GrantRead(t)
          /\ pc' = [pc EXCEPT ![t] = "idle"]
          /\ UNCHANGED <<evVars, readerQueue>>
       \/ /\ ~Readable
          /\ BeginWait(t, "wait")
          /\ UNCHANGED <<owner, readerCount, readerQueue, pc, reads, writes>>
    /\ UNCHANGED <<writerQueue, ref, dangling>>

\* One turn of the loop in read.
ReadStep(t) ==
    /\ pc[t] = "read"
    /\ oc[t] = "none"
    /\ \/ /\ GrantRead(t)
          /\ readerQueue' = RemoveFirst(readerQueue, t)
          /\ pc' = [pc EXCEPT ![t] = "idle"]
          /\ UNCHANGED evVars
       \/ /\ ~Readable
          /\ BeginWait(t, "wait")
          /\ UNCHANGED <<owner, readerCount, readerQueue, pc, reads, writes>>
    /\ UNCHANGED <<writerQueue, ref, dangling>>

TryRead(t) ==
    /\ Idle(t)
    /\ reads[t] < MaxReads
    /\ \/ GrantRead(t)
       \/ ~Readable /\ UNCHANGED <<owner, readerCount, reads, writes>>   \* EBUSY
    /\ UNCHANGED <<evVars, readerQueue, writerQueue, pc, ref, dangling>>

\* write: granted at once, refused to the writer itself (EDEADLK), or queued.
Write(t) ==
    /\ Idle(t)
    /\ reads[t] = 0
    /\ \/ /\ GrantWrite(t)
          /\ UNCHANGED <<evVars, writerQueue, pc>>
       \/ /\ owner = t
          /\ UNCHANGED <<evVars, owner, readerCount, writerQueue, pc, reads, writes>>
       \/ /\ ~Writable /\ owner # t
          /\ writerQueue' = Append(writerQueue, t)
          /\ pc' = [pc EXCEPT ![t] = "write"]
          /\ BeginWait(t, "wait")
          /\ UNCHANGED <<owner, readerCount, reads, writes>>
    /\ UNCHANGED <<readerQueue, ref, dangling>>

\* One turn of the loop in write; the node of t is freed with its removal.
WriteStep(t) ==
    /\ pc[t] = "write"
    /\ oc[t] = "none"
    /\ \/ /\ GrantWrite(t)
          /\ writerQueue' = RemoveFirst(writerQueue, t)
          /\ dangling' = [u \in Thread |-> dangling[u] \/ ref[u] = t]
          /\ pc' = [pc EXCEPT ![t] = "idle"]
          /\ UNCHANGED evVars
       \/ /\ ~Writable
          /\ BeginWait(t, "wait")
          /\ UNCHANGED <<owner, readerCount, writerQueue, dangling, pc, reads, writes>>
    /\ UNCHANGED <<readerQueue, ref>>

TryWrite(t) ==
    /\ Idle(t)
    /\ \/ GrantWrite(t)
       \/ ~Writable /\ UNCHANGED <<owner, readerCount, reads, writes>>   \* EBUSY
    /\ UNCHANGED <<evVars, readerQueue, writerQueue, pc, ref, dangling>>

\* writer_queue.front() is taken as a reference; the spin lock is released.
ReferFrontWriter(t) ==
    \/ /\ writerQueue = << >>
       /\ UNCHANGED <<pc, ref>>
    \/ /\ writerQueue # << >>
       /\ ref' = [ref EXCEPT ![t] = Head(writerQueue)]
       /\ pc' = [pc EXCEPT ![t] = "deref"]

\* One read access of t is given back; the last of all refers to a writer.
ReleaseRead(t) ==
    /\ readerCount' = readerCount - 1
    /\ reads' = [reads EXCEPT ![t] = @ - 1]
    /\ \/ readerCount = 1 /\ ReferFrontWriter(t)
       \/ readerCount # 1 /\ UNCHANGED <<pc, ref>>

\* Mutant of ReadUnlock: the first writer is woken while one reader is left.
ReadUnlock_OffByOne(t) ==
    /\ Idle(t)
    /\ reads[t] > 0
    /\ readerCount' = readerCount - 1
    /\ reads' = [reads EXCEPT ![t] = @ - 1]
    /\ \/ readerCount = 2 /\ ReferFrontWriter(t)
       \/ readerCount # 2 /\ UNCHANGED <<pc, ref>>
    /\ UNCHANGED <<evVars, owner, readerQueue, writerQueue, dangling, writes>>

ReadUnlock(t) ==
    /\ Idle(t)
    /\ \/ reads[t] > 0 /\ ReleaseRead(t)
       \/ readerCount = 0 /\ UNCHANGED <<readerCount, reads, pc, ref>>   \* EPERM
    /\ UNCHANGED <<evVars, owner, readerQueue, writerQueue, dangling, writes>>

\* Mutant of WriteUnlock: only a waiting writer is woken when there is one.
WriteUnlock_WritersFirst(t) ==
    /\ Idle(t)
    /\ owner = t
    /\ owner' = NoThread
    /\ writes' = [writes EXCEPT ![t] = FALSE]
    /\ \/ /\ readerQueue # << >> /\ writerQueue = << >>
          /\ BeginSet(t, readerQueue, "set")
          /\ UNCHANGED <<pc, ref>>
       \/ /\ readerQueue = << >> \/ writerQueue # << >>
          /\ ReferFrontWriter(t)
          /\ UNCHANGED evVars
    /\ UNCHANGED <<readerCount, readerQueue, writerQueue, dangling, reads>>

\* Waiting readers are woken, all of them, before waiting writers.
WriteUnlock(t) ==
    /\ Idle(t)
    /\ \/ /\ owner = t
          /\ owner' = NoThread
          /\ writes' = [writes EXCEPT ![t] = FALSE]
          /\ \/ /\ readerQueue # << >>
                /\ BeginSet(t, readerQueue, "set")
                /\ UNCHANGED <<pc, ref>>
             \/ /\ readerQueue = << >>
                /\ ReferFrontWriter(t)
                /\ UNCHANGED evVars
       \/ /\ owner # t                                   \* EPERM
          /\ UNCHANGED <<evVars, owner, writes, pc, ref>>
    /\ UNCHANGED <<readerCount, readerQueue, writerQueue, dangling, reads>>

\* The thread is read through the reference, and its event is set.
Deref(t) ==
    /\ pc[t] = "deref"
    /\ oc[t] = "none"
    /\ \/ ~dangling[t] /\ BeginSet(t, <<ref[t]>>, "set")
       \/ dangling[t] /\ \E u \in Thread : BeginSet(t, <<u>>, "set")
       \/ dangling[t] /\ UNCHANGED evVars
    /\ pc' = [pc EXCEPT ![t] = "idle"]
    /\ ref' = [ref EXCEPT ![t] = NoThread]
    /\ dangling' = [dangling EXCEPT ![t] = FALSE]
    /\ UNCHANGED <<owner, readerCount, readerQueue, writerQueue, reads, writes>>

EventStep(t) == EvStep(t) /\ UNCHANGED rwVars

EventEnvironment(t) == EvEnvironment(t) /\ UNCHANGED rwVars

RwStep(t) == ReadStep(t) \/ WriteStep(t) \/ Deref(t) \/ EventStep(t)

RwRelease(t) == ReadUnlock(t) \/ WriteUnlock(t)

RwNext ==
    \E t \in Thread :
        \/ Read(t)
        \/ TryRead(t)
        \/ Write(t)
        \/ TryWrite(t)
        \/ RwStep(t)
        \/ RwRelease(t)
        \/ EventEnvironment(t)

rwAllVars == <<evVars, rwVars>>

(***************************************************************************)
(* Threads inside a method or an ocall are eventually scheduled, and what  *)
(* was acquired is eventually released.                                    *)
(***************************************************************************)
RwFairness ==
    \A t \in Thread : WF_rwAllVars(RwStep(t)) /\ WF_rwAllVars(RwRelease(t))

RwSpec == RwInit /\ [][RwNext]_rwAllVars /\ RwFairness

-----------------------------------------------------------------------------
(***************************************************************************)
(* Properties.                                                             *)
(***************************************************************************)

\* "a number of readers or at most one writer at any point in time", as the
\* callers see it: a thread with write access is alone.
ReadersOrWriter ==
    \A t, u \in Thread :
        writes[t] => (writes[u] => u = t) /\ reads[u] = 0

\* The read accesses that were granted and not released: the nth one of t.
ReadGuards == {g \in Thread \X (1 .. MaxReads) : g[2] <= reads[g[1]]}

\* The lock's own book-keeping agrees with what the callers were told.
CountsAgree ==
    /\ \A t \in Thread : writes[t] <=> owner = t
    /\ readerCount = Cardinality(ReadGuards)

\* A waiter that is called, or will be through a reference to its node.
CalledOrReferred(u) ==
    Called(u) \/ \E t \in Thread : pc[t] = "deref" /\ ref[t] = u /\ ~dangling[t]

\* No wake-up is lost: a reader that waits while nobody writes has been
\* called, and so has the first writer when nobody holds or waits to read.
WaitersAreCalled ==
    owner = NoThread =>
        /\ \A t \in Thread : Contains(readerQueue, t) => CalledOrReferred(t)
        /\ readerCount = 0 /\ readerQueue = << >> /\ writerQueue # << >>
              => CalledOrReferred(Head(writerQueue))

\* A thread is in a queue exactly while it is in the loop of read or write.
QueuesAreWaiters ==
    /\ RwTypeOK
    /\ \A t \in Thread : Contains(readerQueue, t) <=> pc[t] = "read"
    /\ \A t \in Thread : Contains(writerQueue, t) <=> pc[t] = "write"
    /\ \A t \in Thread : pc[t] = "deref" /\ ~dangling[t] => pc[ref[t]] = "write"

\* Liveness: a free lock does not stay free while threads wait for it.
LockIsTaken ==
    []EventsReliable
        => ((writerQueue # << >> \/ readerQueue # << >>) /\ Writable ~> ~Writable)
=============================================================================

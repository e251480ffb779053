# TLA+ models of the Teaclave SGX SDK: synchronization, signals, sessions

The SDK (Rust SGX SDK) lets Rust programs run inside an Intel SGX enclave. An
enclave cannot make system calls: everything that blocks, a mutex, a condition
variable, a parked thread, leaves the enclave through an *ocall* and sleeps on
a futex word of the untrusted host. The trusted half keeps the queues and
decides who is to be woken; the untrusted half sleeps and wakes. The protocol
between the two is the repository's own code, is used by all code above it, and
is next to untestable: what can go wrong takes three threads and a wake-up that
arrives late. It is the core of this project. Two more protocols of the
repository cross the enclave's border in the same way and are modelled too:
signals, which are masked twice and delivered by the host in the middle of
anything, and the key agreement between two enclaves, whose messages the host
carries as it likes.

## Inventory

| Component | State | Operations | Interacts with | Hard because |
|---|---|---|---|---|
| Thread events: `sgx_ustdc/event.c`, `sgx_urts/src/event.rs` | one futex word per TCS | wait, timed wait, set, set of a list, set-and-wait | kernel futexes; all primitives below | the word and the kernel's wait queue change in separate steps; timeouts, EINTR; ocalls that fail half way |
| Mutex: `sgx_tstd/src/sys/mutex.rs` | owner, refcount, control, queue | lock, try_lock, unlock, unlock_lazy, destroy | events | the waiter is read under the spin lock, its event set after it |
| Condition variable: `sys/condvar.rs` | queue | wait, wait_timeout, signal, broadcast | events, mutex | one event per thread serves two queues; timeout against signal |
| Reader-writer lock: `sys/rwlock.rs` | owner, reader count, two queues | read, write, try_*, *_unlock | events | a reference into a queue outlives the spin lock; wake-up order |
| Thread parker: `sys_common/thread_parker/generic.rs` | EMPTY, PARKED or NOTIFIED | park, park_timeout, unpark | mutex, condvar | the gap between PARKED and the wait |
| Once: `sync/once.rs` | state and list head in one word; nodes on stacks | call_once, call_once_force | parker | nodes die as soon as they are signaled; poisoning |
| Barrier: `sync/barrier.rs` | count, generation | wait | mutex, condvar | late leavers and re-use |
| Signal manager and dispatcher: `sgx_signal`, `sgx_ustdc/signal.c` | actions per signal, masks, signal-to-enclave table | sigaction, sigprocmask, register, unregister, handler | host signals, mutex, Once | check-then-act across locks, handlers in the middle of anything |
| Channels: `sync/mpsc` | one word (oneshot) and lock-free queues | send, recv, upgrade, disconnect | tokens over the parker | one word carries data, disconnection and a blocked receiver; upgrades under a waiting thread |
| at_exit: `sys_common/at_exit_imp.rs` | queue pointer | push, cleanup | spin lock | registration during cleanup |
| DH sessions: `sgx_tdh/src/dh.rs` | session state, keys | gen_msg1, proc_msg1..3 | crypto library | calls in a wrong order, replayed messages |
| Thread locals, threads, poisoning | keys, handles, flags | | host threads | lazy creation races |
| Sealing, key exchange, protected file system, crypto, trts, urts I/O | | | Intel SDK | wrappers and sequential data transformation |

`PROJECT.json` lists all components with the reason for what is left out, and
the hazards at their lines.

What makes each component correct:

* events: a set is not slept through; a sleeper whose word was moved is woken;
* mutex: exclusion, service in the order of the queue, no wake-up lost between
  `unlock_lazy` and the set, lock succeeds;
* condition variable: a notification is not lost and not stolen by a timeout;
* reader-writer lock: readers or one writer, no waiter of a free lock forgotten;
* parker: its panics are unreachable, an unparked thread returns;
* Once: one completed initialization, no node leaves the list early or stays;
* barrier: generations are complete and do not mix;
* oneshot channel: its `unreachable!`s are, an accepted message is received
  before anything else is, a receiver whose token was taken is woken;
* signals: a registration is not overwritten; the masks inside and outside are
  the same again after every call and handler, as long as the ocall that changes
  the host's does not fail; a signal that the host lets through is refused by the
  enclave only where the two sides were given different masks;
* sessions: whoever is given a key shares it with the enclave that is named to
  it, and no key is handed out twice.

## Modules

```
SgxEvent --- EventSystem --- MCEvent        FairLock <- (INSTANCE) SgxMutex
   |              \___ EventProofs
   +-- SgxMutex -- MCMutex     \___________
   |      \__ SgxCondvar -- MCCondvar      \
   |             |   \_____ CondvarTimed    +-- MutexProofs
   |             \_________________________/|
   \-- SgxRwLock -- MCRwLock                |
             \_______________________________\-- RwLockProofs

Parker -- Oneshot -- MCOneshot    Once -- MCOnce       Barrier -- MCBarrier
             \______ OneshotProofs    \__ OnceProofs        \____ BarrierProofs
SgxSignal -- MCSignal             DhSession -- MCDhSession
     \______ SignalProofs              \______ DhProofs
```

Operators named `X_Variant` are deliberately wrong versions of `X`, each
standing directly before it; no specification uses them. Putting one in the
place of `X` must make TLC report the property that `PROJECT.json` names
("mutants"), which shows that the property depends on this piece of code.

**SgxEvent** An enclave thread is identified with its TCS. `ev[t]` is the futex
word of t, `oc[t]` the place of t inside an event ocall: `dec` and `inc` are the
`__sync_fetch_and_add`s, `futex` is FUTEX_WAIT before the kernel has compared
the word, `asleep` is being in the kernel's queue, `cas` the compare-and-swap
after a timeout, `wake` the FUTEX_WAKE that follows an increment of a word that
was not 0. `todo` is the list of TCSs a multiple set still has to visit, `mode`
what follows the sets. `OcallFails` is the early return when no event can be
allocated (or the ocall fails), `Interrupt` is EINTR. The ghost `note[u]` says
what became of the sets made for u since its last wait returned; it is `lost`
exactly when a set was swallowed by a debt that an earlier wait had left in the
word, or was never made because an ocall failed. The events are created on
first use in the code and exist from the start in the model.

**SgxMutex** One step per critical section of `lock` (one turn of its loop),
`try_lock`, `unlock_lazy` and `destroy`; the ocall after it takes the steps of
SgxEvent. `held` is a ghost with the callers' view. A thread that owns an
`SgxThreadMutex` does not lock it again (documented precondition). An
`SgxReentrantThreadMutex` may be locked again by its owner at any time, also when
`destroy` has reset its control word and it is used on, which the documentation
of `destroy` leaves undefined: the owner then queues behind itself for ever.
`MaxDepth` bounds recursion. **FairLock** is what the mutex promises without
events: a holder, a queue served in order, nobody overtakes.

**SgxCondvar** adds the queue of the condition variable. `CallWait` is
`wait`/`wait_timeout` up to the ocall (push, `unlock_lazy`, release), with the
set-and-wait ocall when the mutex has a waiter; `WaitStep` is the part of the
loop after the ocall. `CvUser` are the threads that wait on it. A wait by a thread that does not own the mutex pops its
entry again under the same spin lock and changes nothing. **CondvarTimed** adds
a clock: a timer per FUTEX_WAIT, and how long a `wait_timeout` has slept.

**SgxRwLock** has the two queues and the reader count. `ref` and `dangling`
stand for the `Option<&sgx_thread_t>` that `read_unlock` and `write_unlock` take
from the writer queue and dereference after the spin lock is released. When the
writer has gone meanwhile the node is freed memory: the read may yield any
thread, or something no event is set for.

**Parker**, **Once** and **Barrier** sit on top: the parker and the barrier use
the mutex and the condition variable as the modules below them establish
(exclusion, fairness, a wait that is ended only by a notification or by its
timeout), and Once uses park and unpark as a token, which is what Parker
establishes. A parker belongs to one thread. In Once every atomic access is a
step and the nodes are the stack frames of waiting threads.

**Oneshot** is the first flavour of an mpsc channel, composed with the parker of
the receiving thread. `word` is the packet's atomic state and holds the token of
a blocked receiver, as in the code; every access of it is a step, together with
the cells that its result gives access to. `rx` and `tx` say where the two
halves are, `panic` standing for any `unreachable!`, `unwrap` or assertion. A
second send and a clone leave the new receiving half in the packet; both halves
are followed until they have left the old packet. A token that clone hands to
the shared packet (`heir`) is signalled by that packet, which is not modelled.
Other code of the same thread parks, and other threads unpark it, at any time.

**SgxSignal** has the trusted manager, the untrusted dispatcher and the kernel.
A thread is a stack of frames: the kernel puts a handler on top of a thread that
has an unblocked signal pending, wherever it is. The handler looks up the enclave
under the dispatcher's mutex, enters it, and runs the manager's `handler`. The
ecall may fail, and does when the thread was interrupted inside the enclave (an
asynchronous exit; `Entered`): `handle_signal` returns and the signal is lost.
Whether the untrusted runtime really refuses such an ecall is decided by the
Intel SDK, so this part is external. `inner` is the thread-local mask of the
enclave, `host` the kernel's. Any signal may be given closures with `register`
and handlers with `rsgx_sigaction`, each call with its own action of `Acts`
(`sa_mask`, `SA_RESETHAND`); the signals of `Registered` have a slot from the
start, whose closures were unregistered. In the threads of `Failing` the ocalls
of sigprocmask and sigaction, sigaction(2) and the allocation in the dispatcher's
table may fail; `Signalled` are the threads that signals are sent to. The ghost
`askew` has the threads whose sigprocmask ocall failed, until a SIG_SETMASK of
theirs succeeds. Handlers raise signals and unregister, but do not register and do
not change their mask; `SA_NODEFER` is left out. An `unwrap` on a slot that
vanished is `Panics`: the table is poisoned and every later use of it panics as
well.

**DhSession** has any number of initiator and responder sessions. The host keeps
every message and delivers any of them, to any session, any number of times, and
may change the target of message 1, which nothing authenticates. Cryptography is
symbolic: a shared secret is the pair of the two keys, hashes and CMACs are
injective, a report names its maker and the one enclave that can verify it. Each
enclave is built with `use_lav2` or without. Every call may fail, which clears
the session. `log` is a ghost: what was derived and what was returned to whom.

## Runs

| Run | Instance | Shows |
|---|---|---|
| `event` | 2 threads, words -3..2, EINTR, failing ocalls | `SleeperHasWaker`, `NoSetSleptThrough`, the supporting `WordsAgree`, and `SetWakesSleeper` (liveness) |
| `mutex_condvar` | 3 threads, not recursive, one of them also waits on the condition variable | `IsFairLock` (refinement), `QueueIsWaiters`, `NoLostWakeup`, `LockSucceeds` and `NotifiedReturns` (liveness) |
| `mutex_recursive` | 3 threads, depth 2, EINTR, failing ocalls, destroy | `MutualExclusion`, `SelfWaitAfterDestroy`, `FrontIsCalled` |
| `mutex_lost_set` | 3 threads, no faults at all | **violated**: `FreeMutexWakesFront`, see below |
| `condvar` | 3 threads | `NotificationHonoured`, `NotifiedIsCalled`, `NoLostNotification`, `FrontIsCalled` |
| `condvar_clock` | 2 threads, a short `dur` | **violated**: `BlockedNoLongerThanDur`, see below |
| `rwlock` | 3 threads, EINTR | `ReadersOrWriter`, `CountsAgree`, `WaitersAreCalled`, `QueuesAreWaiters`, `LockIsTaken` (liveness) |
| `oneshot` | a sender, a receiver, another thread that unparks it, 2 tokens | `NeverUnreachable`, `MessageKept`, `BlockedIsWoken` (liveness) of the channel; `NeverInconsistent`, `UnparkNotLost`, `UnparkedReturns` (liveness) of the parker |
| `once` | 3 threads, closures that fail | `InitializedOnce`, `ListsAreWaiting`, `WaiterGetsOn` (liveness) |
| `barrier` | 4 threads, barrier of 3, 2 generations and those under way | `Rendezvous`, `CountIsJoined`, `AllPass` (liveness) |
| `dh` | 2 responders in 2 enclaves, 2 initiators in one of them, 4 keys | `Agreement`, `AekReturnedOnce` |
| `signal` | 2 threads, one of them with signals and failing calls; 2 signals, one registered at the start; 2 actions, one with an `sa_mask` and one with `SA_RESETHAND`; 2 calls, 2 signals sent | `RegistrationKept`, `MasksInStep`, `RefusedOnlyOutOfSync`, `RegisteringNotInterrupted` |

**Bounds.** Three threads are the least with which a late waker, a sleeper and a
third thread that uses the primitive meanwhile can meet; four on a barrier of
three leave one over to run into the next generation. `MaxDebt` and `MaxToken`
bound how far a word goes below and above 0: the protocol only tells -1, 0 and
the two sides apart, and -2 and 2 are reached where they are not cut off to keep
the run small (mutex_condvar, condvar, rwlock). A thread held back by a bound is not counted as
stuck: the liveness properties assume `WithinBounds`. Symmetry is used in runs
without liveness, over the threads, which no definition tells apart.
`CHECK_DEADLOCK FALSE` is set where the bounds, or threads that simply all wait
for one another's sets, or halves of a channel that are both gone, may stop the
model; the run `once` checks for deadlock. In `dh` four keys are two complete
handshakes or an abandoned one and its repetition, and an initiator and a
responder share an enclave. In `signal` two registering or masking calls are the
least for a registration to meet another or a changed mask, and two signals nest
a handler in a handler in a call; one slot exists at the start so that two calls
can also replace what is there. Signals are sent to one thread and its calls are
those that fail, which keeps the run small: the other thread is there to register
at the same time. The second signal is SIGRTMAX, the one the enclave's mask leaves
out. The run visits about two million states; the proof covers more threads,
failures and depth. The wrap-around of a futex word after 2^31 turns of a loop that
does not sleep is beyond `MaxDebt` and not looked at.

**Fairness.** A thread inside a method or an ocall is eventually scheduled (weak
fairness of its steps): these are ordinary host threads. A thread that owns a
lock eventually releases it, as its guard is dropped. Interrupts, timeouts,
failures and new calls are not fair. Parker and Barrier use strong fairness for
taking the mutex, justified by `IsFairLock` and `LockSucceeds`: the mutex is
handed over in the order of the queue. In Oneshot a half that is inside a call
goes on with it, and the parker is as fair as before; nobody has to send, and a
deadline need not pass. The liveness properties over events
assume `EventsReliable`, that no set was lost; `mutex_lost_set` shows why this
must be said. The liveness properties above the condition variable and the parker
(`UnparkedReturns`, `BlockedIsWoken`, `WaiterGetsOn`, `AllPass`) rest on the same
assumption without naming it: the fairness of their mutex, their condition
variable and their park tokens is what the layers below give when the events lose
no set, and a lost set would leave their threads asleep as well.

## Findings

* **A set of an event can be lost** (`mutex_lost_set`). `se_event_wake`
  increments the word and calls FUTEX_WAKE in two steps. The waiter may see the
  increment first, go on and come back to a later wait of the same event; the
  late FUTEX_WAKE ends that one with the word still at -1. The next set only
  brings the word from -1 to 0, the waiter decrements 0 to -1 and sleeps. The
  mutex is then free with its first waiter asleep, and since nobody may
  overtake, every later `lock` joins the queue behind it. No signal, timeout or
  failing ocall is needed. All primitives over the events are exposed to it;
  theorem `MutexWakes` shows that for the mutex it is the only way.
* **`wait_timeout` may block longer than `dur`** (`condvar_clock`): its loop
  starts every wait with the whole duration.

The signal code has weaknesses that no document denies, so that they are part of
the model and listed as hazards, not as findings: `old_mask` is a copy that
nobody fills, so a registration leaves the empty mask behind; `set_action_impl`
panics when the slot it found is removed before it takes the lock again;
`register` returns Ok for an existing slot whether or not the host was told;
`get_eid_for_signal` takes its mutex while other signals may interrupt it;
`block` leaves out SIGRTMAX. Signals are really refused by the enclave, and lost,
in two cases that the comment in `t_signal_handler_ecall` provides for ("the signal
masks inside the enclave is out of sync with the untrusted signal mask"): when the
ocall of `rsgx_sigprocmask` has failed, which blocks inside nevertheless, and above
a handler that runs after `rsgx_sigaction` has set the enclave's `sa_mask` and
before, or without, its setting the kernel's. `RefusedOnlyOutOfSync` shows that
these are all, given handlers that do not change their mask.

## Proofs

Every invariant that a run checks is also proved, for any set of threads and any
values of the bounds and switches. The assumptions on the constants are their
types, that `NoThread`, `NoSig` and `Null` are none of the things they stand
beside, and, where threads are counted (reader-writer lock, barrier), that there
are finitely many. The inductive invariants that go beyond the properties stand
at the top of the proof modules; each was model-checked on the run's instance
before it was proved.

* **EventProofs** `EvInv` is inductive: types, `WordsAgree` and
  `SleeperHasWaker`. `WordsAgree` is needed because `NoSetSleptThrough` says
  nothing of the word: a set that will be noticed has left the word at 0 or more
  inside a wait and at 1 or more outside one, so a sleeper with such a note has
  its word off -1, and `SleeperHasWaker` gives it a waker. `EventsSafe`,
  `EventWords` and `SetsAreSeen` follow. `CalledStable`, that no step of an ocall
  makes a called thread uncalled, carries over to every primitive.
* **MutexProofs, the mutex** `MutexInv` adds to `EvInv` the mutex's types, `owner =
  NoThread <=> refcount = 0`, that only a recursive mutex is locked more than once,
  that its owner waits for itself only when it is not recursive (`RelockOK`), and the
  properties. `FrontIsCalled` is the
  heart: an unlock that frees the mutex calls the first waiter itself, an ocall
  step keeps it called, and a thread that queues on a free mutex is not first.
  `MutexExcludes`, `MutexQueue`, `MutexWakes`, `MutexSelfWaits` and
  `MutexCallsFront` follow, and `MutexIsFairLock` maps owner and queue to the
  abstract lock. The lemmas are about single actions of the mutex whatever else
  the thread does, so that they serve both specifications that contain it.
* **MutexProofs, the condition variable** `CvInv` is `MutexInv`, the types,
  `WaitsInOrder` (a thread is queued once, has no result before its wait is over,
  and carries no notification into the next one), `NotificationHonoured` and
  `NotifiedIsCalled`. `wait` releases the mutex with `unlock_lazy`, so it calls the
  first waiter like unlock does; a broadcast calls everybody it takes off the queue
  before anything else may uncall them. `CondvarHonours`, `CondvarCalls`,
  `CondvarWakes` and `CondvarKeepsMutex` follow, and `CondvarIsFairLock` shows that
  the composition still refines the fair lock.
* **RwLockProofs** `RwInv` adds `RefsAndQueues`: each thread is in a queue once, the
  references that are taken from the writer queue are to threads. `CountsAgree` is
  about the set of read guards (`ReadGuards`, pairs of a thread and a number), so
  that one grant or release changes a cardinality by one. `WaitersAreCalled`
  is kept by a reference to a node that is still queued, since only its owner
  dequeues it, and does not need one that dangles: the writer it referred to has
  taken the lock meanwhile, and calls the next waiters when it releases it.
* **BarrierProofs** `BarInv` says who holds the mutex (`HolderOK`), that the open
  generation has been joined by fewer than n threads, exactly those that are blocked
  in it, and no later one by anybody (`GenerationOpen`). `RoomLeft` is about the
  bound on the generations only. `BarrierRendezvous` and `BarrierCounts` follow.
* **OnceProofs** `ListsAreWaiting` is proved without recursion: what a list holds
  is the least set that has its head and is closed under `next` (`Reached`), and a
  handful of lemmas say what pushing, stepping and a write to a node that is not
  in a list do to it. `NoCycle` (no node is reached from its own successor) is what
  lets the walker step off a node. With `RunnerOK`, one thread runs exactly while the word
  says RUNNING, this gives `OnceInitializes`, `OnceListsIntact` and
  `OnceForgetsNobody`, which no run states: while a thread waits, somebody runs the
  closure or walks a list, and a thread whose flag is set has been or will be unparked.
* **SignalProofs** `SgInv`. `MasksOK` gives every frame of a thread's stack the mask
  inside (`InnerAt`) and the one on the host (`HostAt`) that will be in force when it
  is on top again: what the handler above it kept, and what the kernel saved. For the
  thread's own frame they are equal up to what its call has still to do, unless the
  thread is askew (`OwnMasks`); for a handler the host blocks what it interrupts and
  its sa_mask (`HandlerMasks`). In a pair below which everything is `Sound` (the
  thread is not askew and each running handler blocked inside no more than the kernel
  did) the inner mask is part of the host's, so a signal that starts a handler is not
  blocked inside (`Unblocked`). Delivering pushes such a pair, sigreturn takes it off,
  and any other step changes only the top one (`PushHandler`, `PopHandler`,
  `ReplaceTop`), which makes the proof independent of the depth of the stack.
  `SignalMasksInStep` and `SignalRefusedOnlyOutOfSync` are what it says of the bottom
  and of a fresh frame, `SignalRegistersAlone` holds since a thread that registers
  has all signals blocked. For `SignalKeepsActions`, `LockOK` and `CallOK` say that
  only the holder of `signal_action_lock` turns a slot on, so that a slot that
  was not found is still not there when it is filled.
* **DhProofs** `DhInv` is inductive. `MsgsLogged` ties every message 2 and 3 to
  the session that sent it: its CMAC is keyed by a secret that this session
  logged, its report names this session's enclave and the one it took for its
  peer. A session accepts only CMACs under its own secret and reports made for
  its own enclave, so `Agreement` is preserved. `KeysCreated` and `KeysOwned`
  give `AekReturnedOnce`: a waiting session's key pair is its own, has not been
  used for an AEK on its side, and is wiped when one is returned. That message 2
  carries no responder's key is needed to tell the two halves of a secret apart.
* **OneshotProofs, the parker** `PkInv` says which phases hold the mutex and which
  states go with which phases; `ParkerConsistent` and `ParkerWakes` follow.
* **OneshotProofs, the channel** `OsInv` is inductive in three parts. `TokenOwned`:
  the token in the word is the one the receiver waits with, is in nobody else's
  hands and was not signalled, so a woken or aborting receiver never finds its own
  token or EMPTY where it must not. `DisconnectedBy`: while the sender uses the
  packet only a receiver that has gone disconnects it, and a sender that has
  upgraded or left leaves it disconnected. `SlotAgrees`: what the data and upgrade
  cells hold goes with the word and the place of both halves.
  `OneshotReachesNoPanic` and `OneshotKeepsMessage` follow. `OsUsesParker` shows
  that the composition takes only steps of the parker's own specification, so
  `OneshotParks` carries `PkInv` over.

Only model-checked: the eight liveness properties (fairness and ENABLED are outside
the prover), and the two violations.

## What is not modelled

Weak memory: every atomic access is sequentially consistent here, as the code's
spin locks and SeqCst accesses make it for all but Once, whose Acquire/Release
pairs are argued in comments of the source. Poisoning and panics inside critical
sections. The cache of events by TCS and its allocation. Spin lock acquisition.
Addresses, errno values and timeouts as numbers (except in CondvarTimed). The
stream, shared and sync flavours of channels: their lock-free queues are built on
relaxed accesses, for which interleavings are the wrong model. The panic of
`recv_timeout` that `mpsc/mod.rs:1178` documents (#39364) is in the shared packet,
after an upgrade by `clone`, and so outside of Oneshot: `NeverUnreachable` does not
speak of it. The cleanup of the
signals at exit, `deregister_all_signals_for_eid` and at_exit itself. What is
sequential transformation of data (crypto, sealing, collections, paths, I/O
wrappers, serialization), which is most of the repository's lines, and what is
FFI to the Intel SDK (protected files, remote attestation, exceptions), whose
state is not in this repository: there is no control here for a model to check.

## Plan

1. at_exit with the cleanup of the signals, and handlers that register.
2. Composition of Parker with SgxCondvar by refinement, so that the token of
   Once and Oneshot rests on the events.

------------------------------ MODULE SgxEvent ------------------------------
(***************************************************************************)
(* The untrusted thread events every blocking primitive of the trusted     *)
(* standard library sleeps on: one futex word per TCS (event.c), reached   *)
(* from the enclave through the ocalls u_thread_wait_event_ocall,          *)
(* u_thread_set_event_ocall, u_thread_set_multiple_events_ocall and        *)
(* u_thread_setwait_events_ocall.                                          *)
(*                                                                         *)
(* An enclave thread is identified with its TCS.  An ocall is split into   *)
(* the atomic instructions and system calls that it is made of, because    *)
(* the word and the kernel's wait queue are changed in separate steps:     *)
(*                                                                         *)
(*   wait   "dec"    __sync_fetch_and_add(-1); returns unless it read 0    *)
(*          "futex"  FUTEX_WAIT(-1): sleeps iff the word is still -1       *)
(*          "asleep" blocked in the kernel                                 *)
(*          "cas"    ETIMEDOUT was returned; compare-and-swap -1 -> 0      *)
(*   set    "inc"    __sync_fetch_and_add(+1) on the next TCS of the list  *)
(*          "wake"   FUTEX_WAKE(1), only when the old value was not 0      *)
(*   "none"          the thread is not in an event ocall                   *)
(***************************************************************************)
EXTENDS Integers, SequencesExt

CONSTANTS
    Thread,         \* the enclave threads (TCSs)
    MaxDebt,        \* bound: a word is not decremented below -MaxDebt
    MaxToken,       \* bound: a word is not incremented above MaxToken
    Interrupts,     \* may a signal handler end FUTEX_WAIT with EINTR?
    OcallsFail      \* may an ocall fail (no event could be allocated)?

ASSUME EventBounds == MaxDebt \in Nat \ {0} /\ MaxToken \in Nat \ {0}
ASSUME EventSwitches == Interrupts \in BOOLEAN /\ OcallsFail \in BOOLEAN

VARIABLES
    ev,     \* ev[t]: the futex word of t
    oc,     \* oc[t]: where t is in an event ocall
    todo,   \* todo[t]: the TCSs t still has to set, the current one first
    mode,   \* mode[t]: after the sets, "set": return, "wait"/"timed": wait
    ended,  \* ended[t]: "timeout" if t's last wait returned ETIMEDOUT
    note    \* ghost, see Notified

evVars == <<ev, oc, todo, mode, ended, note>>

WaitPhase == {"futex", "asleep", "cas"}
SetPhase  == {"inc", "wake"}
OcPhase   == {"none", "dec", "futex", "asleep", "cas", "inc", "wake"}
OcMode    == {"set", "wait", "timed"}
WaitEnd   == {"woken", "timeout"}
Note      == {"no", "yes", "lost"}

EvTypeOK ==
    /\ ev \in [Thread -> Int]
    /\ oc \in [Thread -> OcPhase]
    /\ todo \in [Thread -> Seq(Thread)]
    /\ mode \in [Thread -> OcMode]
    /\ ended \in [Thread -> WaitEnd]
    /\ note \in [Thread -> Note]

EvInit ==
    /\ ev = [t \in Thread |-> 0]
    /\ oc = [t \in Thread |-> "none"]
    /\ todo = [t \in Thread |-> << >>]
    /\ mode = [t \in Thread |-> "set"]
    /\ ended = [t \in Thread |-> "woken"]
    /\ note = [t \in Thread |-> "no"]

-----------------------------------------------------------------------------
(***************************************************************************)
(* The ghost note[u] says what became of the sets of u's event since u     *)
(* last returned from a wait: "no" set was made, "yes" one was and will    *)
(* be noticed, "lost" one was but u slept through it.  A set is lost when  *)
(* it finds the word negative while u is NOT in a wait: the increment then *)
(* only pays back a decrement that an earlier wait of u left behind.       *)
(***************************************************************************)
InDebt(u) == ev[u] < 0 /\ oc[u] \notin WaitPhase

Notified(u) == IF note[u] = "lost" \/ InDebt(u) THEN "lost" ELSE "yes"

-----------------------------------------------------------------------------
(***************************************************************************)
(* Entering an ocall: conjoined with the enclave step that makes the call. *)
(***************************************************************************)
BeginWait(t, m) ==
    /\ oc' = [oc EXCEPT ![t] = "dec"]
    /\ mode' = [mode EXCEPT ![t] = m]
    /\ ended' = [ended EXCEPT ![t] = "woken"]
    /\ UNCHANGED <<ev, todo, note>>

BeginSet(t, list, m) ==
    /\ oc' = [oc EXCEPT ![t] = "inc"]
    /\ todo' = [todo EXCEPT ![t] = list]
    /\ mode' = [mode EXCEPT ![t] = m]
    /\ ended' = [ended EXCEPT ![t] = "woken"]
    /\ UNCHANGED <<ev, note>>

(***************************************************************************)
(* Steps inside an ocall.                                                  *)
(***************************************************************************)

\* The wait of t is over, by a "timeout" or, any other result, "woken".
WaitReturns(t, how) ==
    /\ oc' = [oc EXCEPT ![t] = "none"]
    /\ mode' = [mode EXCEPT ![t] = "set"]
    /\ ended' = [ended EXCEPT ![t] = how]
    /\ note' = [note EXCEPT ![t] = "no"]
    /\ UNCHANGED todo

\* __sync_fetch_and_add(se_event, -1): a word that was not 0 ends the wait.
Dec(t) ==
    /\ oc[t] = "dec"
    /\ ev[t] > -MaxDebt
    /\ ev' = [ev EXCEPT ![t] = @ - 1]
    /\ \/ /\ ev[t] = 0
          /\ oc' = [oc EXCEPT ![t] = "futex"]
          /\ UNCHANGED <<todo, mode, ended, note>>
       \/ /\ ev[t] # 0
          /\ WaitReturns(t, "woken")

\* Mutant of FutexWait: the word is not compared before the caller is queued.
FutexWait_NoCompare(t) ==
    /\ oc[t] = "futex"
    /\ oc' = [oc EXCEPT ![t] = "asleep"]
    /\ UNCHANGED <<ev, todo, mode, ended, note>>

\* FUTEX_WAIT compares the word with -1 and queues the caller atomically.
FutexWait(t) ==
    /\ oc[t] = "futex"
    /\ \/ /\ ev[t] = -1
          /\ oc' = [oc EXCEPT ![t] = "asleep"]
          /\ UNCHANGED <<ev, todo, mode, ended, note>>
       \/ /\ ev[t] # -1                                  \* EAGAIN
          /\ WaitReturns(t, "woken")
          /\ UNCHANGED ev

\* A signal handler ran: FUTEX_WAIT fails with EINTR, which counts as woken.
Interrupt(t) ==
    /\ Interrupts
    /\ oc[t] = "asleep"
    /\ WaitReturns(t, "woken")
    /\ UNCHANGED ev

\* The kernel's timer ends the wait before any FUTEX_WAKE did.
Timeout(t) ==
    /\ oc[t] = "asleep"
    /\ mode[t] = "timed"
    /\ oc' = [oc EXCEPT ![t] = "cas"]
    /\ UNCHANGED <<ev, todo, mode, ended, note>>

\* The word is put back to 0, unless a set has moved it since.
Cas(t) ==
    /\ oc[t] = "cas"
    /\ ev' = [ev EXCEPT ![t] = IF @ = -1 THEN 0 ELSE @]
    /\ WaitReturns(t, "timeout")

\* The current TCS of the list is done: where the ocall continues.
AfterSet(t) ==
    IF Tail(todo[t]) # << >> THEN "inc"
    ELSE IF mode[t] = "set" THEN "none" ELSE "dec"

\* Mutant of Inc: FUTEX_WAKE only after a positive word (> instead of !=).
Inc_WakePositive(t) ==
    /\ oc[t] = "inc"
    /\ LET u == Head(todo[t])
       IN  /\ ev[u] < MaxToken
           /\ ev' = [ev EXCEPT ![u] = @ + 1]
           /\ note' = [note EXCEPT ![u] = Notified(u)]
           /\ \/ /\ ev[u] <= 0
                 /\ oc' = [oc EXCEPT ![t] = AfterSet(t)]
                 /\ todo' = [todo EXCEPT ![t] = Tail(@)]
              \/ /\ ev[u] > 0
                 /\ oc' = [oc EXCEPT ![t] = "wake"]
                 /\ UNCHANGED todo
    /\ UNCHANGED <<mode, ended>>

\* Mutant of Inc: the increment is lost, the word is written back unchanged.
Inc_Lost(t) ==
    /\ oc[t] = "inc"
    /\ LET u == Head(todo[t])
       IN  /\ note' = [note EXCEPT ![u] = Notified(u)]
           /\ oc' = [oc EXCEPT ![t] = AfterSet(t)]
           /\ todo' = [todo EXCEPT ![t] = Tail(@)]
    /\ UNCHANGED <<ev, mode, ended>>

\* __sync_fetch_and_add(se_event, 1) on the current TCS of the list.
Inc(t) ==
    /\ oc[t] = "inc"
    /\ LET u == Head(todo[t])
       IN  /\ ev[u] < MaxToken
           /\ ev' = [ev EXCEPT ![u] = @ + 1]
           /\ note' = [note EXCEPT ![u] = Notified(u)]
           /\ \/ /\ ev[u] = 0
                 /\ oc' = [oc EXCEPT ![t] = AfterSet(t)]
                 /\ todo' = [todo EXCEPT ![t] = Tail(@)]
              \/ /\ ev[u] # 0
                 /\ oc' = [oc EXCEPT ![t] = "wake"]
                 /\ UNCHANGED todo
    /\ UNCHANGED <<mode, ended>>

\* Mutant of Wake: FUTEX_WAKE(0), nobody is woken.
Wake_None(t) ==
    /\ oc[t] = "wake"
    /\ todo' = [todo EXCEPT ![t] = Tail(@)]
    /\ oc' = [oc EXCEPT ![t] = AfterSet(t)]
    /\ UNCHANGED <<ev, mode, ended, note>>

\* FUTEX_WAKE(1): the sleeper, if there is one, returns from its wait.
Wake(t) ==
    /\ oc[t] = "wake"
    /\ todo' = [todo EXCEPT ![t] = Tail(@)]
    /\ LET u == Head(todo[t])
       IN  \/ /\ oc[u] = "asleep"
              /\ oc' = [oc EXCEPT ![t] = AfterSet(t), ![u] = "none"]
              /\ mode' = [mode EXCEPT ![u] = "set"]
              /\ note' = [note EXCEPT ![u] = "no"]
           \/ /\ oc[u] # "asleep"
              /\ oc' = [oc EXCEPT ![t] = AfterSet(t)]
              /\ UNCHANGED <<mode, note>>
    /\ UNCHANGED <<ev, ended>>

\* get_tcs_event returned NULL or the ocall itself failed: it returns -1 at
\* once, and the sets that were still to be made are never made.
OcallFails(t) ==
    /\ OcallsFail
    /\ oc[t] \in {"dec", "inc"}
    /\ oc' = [oc EXCEPT ![t] = "none"]
    /\ mode' = [mode EXCEPT ![t] = "set"]
    /\ note' = [u \in Thread |->
                  IF Contains(todo[t], u) THEN "lost" ELSE note[u]]
    /\ todo' = [todo EXCEPT ![t] = << >>]
    /\ UNCHANGED <<ev, ended>>

\* The steps that a running thread takes by itself ...
EvStep(t) ==
    \/ Dec(t)
    \/ FutexWait(t)
    \/ Cas(t)
    \/ Inc(t)
    \/ Wake(t)

\* ... and the ones that happen to it.
EvEnvironment(t) ==
    \/ Timeout(t)
    \/ Interrupt(t)
    \/ OcallFails(t)

-----------------------------------------------------------------------------
(***************************************************************************)
(* Properties.                                                             *)
(***************************************************************************)

\* FUTEX_WAKE of u's event is still to be called by some thread.
WakerOf(u) == \E t \in Thread : oc[t] = "wake" /\ Head(todo[t]) = u

\* A set of u's event is still to be made by some thread.
SetterOf(u) ==
    \E t \in Thread :
        \/ oc[t] = "inc" /\ Contains(todo[t], u)
        \/ oc[t] = "wake" /\ Contains(Tail(todo[t]), u)

\* u has been called: it is not in an ocall and about to look again, or its
\* event was set since it returned from its last wait, or will be.
Called(u) == oc[u] = "none" \/ note[u] # "no" \/ SetterOf(u)

\* No step of an ocall is held back by one of the bounds of the model.
WithinBounds ==
    \A t \in Thread :
        /\ oc[t] = "dec" => ev[t] > -MaxDebt
        /\ oc[t] = "inc" => ev[Head(todo[t])] < MaxToken

\* The events have behaved: no bound was met and no set of an event was lost.
EventsReliable == WithinBounds /\ \A t \in Thread : note[t] # "lost"

\* A thread asleep in se_event_wait whose word has been moved off -1 by
\* se_event_wake will be woken: the waker has not made its FUTEX_WAKE yet.
SleeperHasWaker ==
    \A u \in Thread : oc[u] = "asleep" /\ ev[u] # -1 => WakerOf(u)

\* se_event_wake before or during se_event_wait is not slept through: a
\* thread that is asleep although its event was set since its last wait has
\* a waker, unless the set was lost in the sense of the ghost note.
NoSetSleptThrough ==
    \A u \in Thread : oc[u] = "asleep" /\ note[u] = "yes" => WakerOf(u)

(***************************************************************************)
(* What makes the two inductive.                                           *)
(***************************************************************************)

\* Set lists and ocall phases agree; the word of a thread inside FUTEX_WAIT is
\* at least -1; a set that will be noticed has left a token in the word.
WordsAgree ==
    \A u \in Thread :
        /\ oc[u] \in SetPhase <=> todo[u] # << >>
        /\ oc[u] \in WaitPhase => ev[u] >= -1
        /\ oc[u] \in WaitPhase /\ note[u] = "yes" => ev[u] >= 0
        /\ oc[u] \notin WaitPhase /\ note[u] = "yes" => ev[u] >= 1

EvInv == EvTypeOK /\ WordsAgree /\ SleeperHasWaker
=============================================================================

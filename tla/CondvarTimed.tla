---------------------------- MODULE CondvarTimed ----------------------------
(***************************************************************************)
(* wait_timeout against a clock.  Every FUTEX_WAIT of a wait_timeout call  *)
(* is started with the caller's whole duration, because the loop passes    *)
(* dur unchanged (sys/condvar.rs:95-106); the kernel's timer fires when    *)
(* that many ticks have passed in this sleep.                              *)
(***************************************************************************)
EXTENDS SgxCondvar

CONSTANT Dur        \* dur, in ticks of the clock

VARIABLES
    left,       \* left[t]: ticks until the timer of t's FUTEX_WAIT fires
    blocked     \* ghost: ticks that t's wait_timeout has slept so far

timeVars == <<left, blocked>>

TimedSleeper(t) == oc[t] = "asleep" /\ mode[t] = "timed"

TimedInit ==
    /\ CvInit
    /\ left = [t \in Thread |-> 0]
    /\ blocked = [t \in Thread |-> 0]

\* A step of the program: FUTEX_WAIT starts its timer, a wait that is over
\* forgets what it has slept, and a timeout needs a timer that has run down.
TimedStep ==
    /\ CvNext
    /\ \A t \in Thread :
          TimedSleeper(t) /\ oc'[t] = "cas" => left[t] = 0
    /\ left' = [t \in Thread |->
          IF ~TimedSleeper(t) /\ TimedSleeper(t)' THEN Dur
          ELSE IF TimedSleeper(t)' THEN left[t] ELSE 0]
    /\ blocked' = [t \in Thread |->
          IF pc'[t] = "wait_timeout" THEN blocked[t] ELSE 0]

\* Time passes for the sleepers; no timer is overrun.
Tick ==
    /\ \E t \in Thread : TimedSleeper(t)
    /\ \A t \in Thread : TimedSleeper(t) => left[t] > 0
    /\ left' = [t \in Thread |-> IF TimedSleeper(t) THEN left[t] - 1 ELSE 0]
    /\ blocked' = [t \in Thread |->
          IF TimedSleeper(t) THEN blocked[t] + 1 ELSE blocked[t]]
    /\ UNCHANGED cvAllVars

TimedNext == TimedStep \/ Tick

TimedSpec == TimedInit /\ [][TimedNext]_<<cvAllVars, timeVars>>

-----------------------------------------------------------------------------
\* What the documentation of wait_timeout promises (sync/condvar.rs:345-359):
\* "the thread will be blocked for roughly no longer than `dur`", where "the
\* sleep-duration is decremented by the amount slept" in spite of spurious
\* wakes.
BlockedNoLongerThanDur == \A t \in Thread : blocked[t] <= Dur
=============================================================================

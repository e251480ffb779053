---------------------------- MODULE EventSystem -----------------------------
(***************************************************************************)
(* The thread events on their own: any thread makes any event ocall, in    *)
(* any order, as an enclave may.                                           *)
(***************************************************************************)
EXTENDS SgxEvent

CONSTANT SetLists   \* the TCS lists given to u_thread_set_multiple_events_ocall

ASSUME SetListsAssumption == \A s \in SetLists : s \in Seq(Thread) /\ s # << >>

CallWaitEvent(t) ==
    /\ oc[t] = "none"
    /\ \E m \in {"wait", "timed"} : BeginWait(t, m)

CallSetEvent(t) ==
    /\ oc[t] = "none"
    /\ \E u \in Thread : BeginSet(t, <<u>>, "set")

CallSetEvents(t) ==
    /\ oc[t] = "none"
    /\ \E s \in SetLists : BeginSet(t, s, "set")

CallSetWait(t) ==
    /\ oc[t] = "none"
    /\ \E u \in Thread, m \in {"wait", "timed"} : BeginSet(t, <<u>>, m)

EvNext ==
    \E t \in Thread :
        \/ CallWaitEvent(t)
        \/ CallSetEvent(t)
        \/ CallSetEvents(t)
        \/ CallSetWait(t)
        \/ EvStep(t)
        \/ EvEnvironment(t)

\* A thread that is running in an ocall is eventually scheduled.
EvFairness == \A t \in Thread : WF_evVars(EvStep(t))

EvSpec == EvInit /\ [][EvNext]_evVars /\ EvFairness

-----------------------------------------------------------------------------
\* Liveness of se_event_wake: a thread asleep in se_event_wait whose word was
\* moved off -1 does leave the futex wait.
SetWakesSleeper ==
    \A u \in Thread : (oc[u] = "asleep" /\ ev[u] # -1) ~> (oc[u] # "asleep")
=============================================================================

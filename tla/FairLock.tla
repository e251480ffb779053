------------------------------ MODULE FairLock ------------------------------
(***************************************************************************)
(* What the trusted mutex promises, without spin lock, events or ocalls:   *)
(* one holder at a time, released by the holder only, and threads that     *)
(* found it taken served in the order in which they joined the queue; a    *)
(* newcomer never overtakes them.                                          *)
(***************************************************************************)
EXTENDS SequencesExt

CONSTANTS Thread, NoThread

VARIABLES
    holder,     \* the thread that holds the lock, or NoThread
    waiting     \* the threads to be served, in order

lockVars == <<holder, waiting>>

Init == holder = NoThread /\ waiting = << >>

\* t finds the lock taken, or promised to others.
Join(t) ==
    /\ ~Contains(waiting, t)
    /\ holder # NoThread \/ waiting # << >>
    /\ waiting' = Append(waiting, t)
    /\ UNCHANGED holder

\* t finds the lock free and nobody waiting.
Enter(t) ==
    /\ holder = NoThread /\ waiting = << >>
    /\ holder' = t
    /\ UNCHANGED waiting

\* The first thread in the queue gets the free lock.
Serve ==
    /\ holder = NoThread /\ waiting # << >>
    /\ holder' = Head(waiting)
    /\ waiting' = Tail(waiting)

Leave(t) ==
    /\ holder = t
    /\ holder' = NoThread
    /\ UNCHANGED waiting

Next == Serve \/ \E t \in Thread : Join(t) \/ Enter(t) \/ Leave(t)

Spec == Init /\ [][Next]_lockVars
=============================================================================

-------------------------------- MODULE Once --------------------------------
(***************************************************************************)
(* sync/once.rs: one word that holds the state and, while an               *)
(* initialization runs, the head of a linked list of waiting threads.      *)
(* Every node of the list lives on the stack of the thread that waits, and *)
(* is gone when that thread has seen its flag signaled.  Each atomic       *)
(* access is a step.                                                       *)
(*                                                                         *)
(* Waiting threads sleep in thread::park, which module Parker shows to     *)
(* work as a token: unpark makes it available, park takes it.  Other code  *)
(* may unpark a thread at any time (SpuriousUnpark).                       *)
(***************************************************************************)
EXTENDS Naturals, FiniteSets

CONSTANTS
    Thread,
    Null        \* the null pointer

ASSUME NullAssumption == Null \notin Thread

VARIABLES
    word,       \* state_and_queue: its state and the head of the waiter list
    next,       \* next[t]: the next field of t's node
    signaled,   \* signaled[t]: the flag in t's node
    token,      \* token[t]: t was unparked and has not parked since
    pc,         \* pc[t]: where t is in call_once or call_once_force
    force,      \* force[t]: ignore_poisoning
    seen,       \* seen[t]: the word as t last read it
    cur,        \* cur[t]: the node t will signal next
    target,     \* target[t]: the thread t will unpark
    result,     \* ghost: what t's last call told its caller
    completed   \* ghost: how many initializations have completed

onceVars == <<word, next, signaled, token, pc, force, seen, cur, target, result,
              completed>>

OnceState == {"INCOMPLETE", "POISONED", "RUNNING", "COMPLETE"}
OncePhase == {"idle", "load", "exchange", "run", "signal", "unpark", "enqueue",
              "check", "park"}

Word(st, head) == [state |-> st, head |-> head]

NothingSeen == Word("INCOMPLETE", Null)

Pointer == Thread \cup {Null}

\* "All other values must be RUNNING with possibly a pointer to the waiter
\* queue": only a RUNNING word has a list.
OnceWord == {w \in [state : OnceState, head : Pointer] :
               w.head # Null => w.state = "RUNNING"}

OnceTypeOK ==
    /\ word \in OnceWord
    /\ next \in [Thread -> Pointer]
    /\ signaled \in [Thread -> BOOLEAN]
    /\ token \in [Thread -> BOOLEAN]
    /\ pc \in [Thread -> OncePhase]
    /\ force \in [Thread -> BOOLEAN]
    /\ seen \in [Thread -> OnceWord]
    /\ cur \in [Thread -> Pointer]
    /\ target \in [Thread -> Pointer]
    /\ result \in [Thread -> {"none", "done", "failed"}]
    /\ completed \in Nat

OnceInit ==
    /\ word = NothingSeen
    /\ next = [t \in Thread |-> Null]
    /\ signaled = [t \in Thread |-> FALSE]
    /\ token = [t \in Thread |-> FALSE]
    /\ pc = [t \in Thread |-> "idle"]
    /\ force = [t \in Thread |-> FALSE]
    /\ seen = [t \in Thread |-> NothingSeen]
    /\ cur = [t \in Thread |-> Null]
    /\ target = [t \in Thread |-> Null]
    /\ result = [t \in Thread |-> "none"]
    /\ completed = 0

-----------------------------------------------------------------------------
(***************************************************************************)
(* call_inner.                                                             *)
(***************************************************************************)

\* The call of t is over with result r.
Return(t, r) ==
    /\ pc' = [pc EXCEPT ![t] = "idle"]
    /\ seen' = [seen EXCEPT ![t] = NothingSeen]
    /\ result' = [result EXCEPT ![t] = r]

\* t goes on at phase p with the word it has just read.
GoOn(t, p) ==
    /\ pc' = [pc EXCEPT ![t] = p]
    /\ seen' = [seen EXCEPT ![t] = word]
    /\ UNCHANGED result

\* call_once and call_once_force: the fast path, or call_inner.
Call(t, f) ==
    /\ pc[t] = "idle"
    /\ force' = [force EXCEPT ![t] = f]
    /\ \/ word.state = "COMPLETE" /\ Return(t, "done")
       \/ /\ word.state # "COMPLETE"
          /\ pc' = [pc EXCEPT ![t] = "load"]
          /\ result' = [result EXCEPT ![t] = "none"]
          /\ UNCHANGED seen
    /\ UNCHANGED <<word, next, signaled, token, cur, target, completed>>

\* The match on a state_and_queue that was just read.
Match(t) ==
    \/ word.state = "COMPLETE" /\ Return(t, "done")
    \/ word.state = "POISONED" /\ ~force[t] /\ Return(t, "failed")
    \/ word.state = "POISONED" /\ force[t] /\ GoOn(t, "exchange")
    \/ word.state = "INCOMPLETE" /\ GoOn(t, "exchange")
    \/ word.state = "RUNNING" /\ GoOn(t, "enqueue")

Load(t) ==
    /\ pc[t] = "load"
    /\ Match(t)
    /\ UNCHANGED <<word, next, signaled, token, force, cur, target, completed>>

\* Mutant of Exchange: RUNNING is stored without comparing.
Exchange_Store(t) ==
    /\ pc[t] = "exchange"
    /\ word' = Word("RUNNING", Null)
    /\ GoOn(t, "run")
    /\ UNCHANGED <<next, signaled, token, force, cur, target, completed>>

\* compare_exchange(state_and_queue, RUNNING); what a failed one has read is
\* matched again.
Exchange(t) ==
    /\ pc[t] = "exchange"
    /\ \/ /\ word = seen[t]
          /\ word' = Word("RUNNING", Null)
          /\ pc' = [pc EXCEPT ![t] = "run"]
          /\ seen' = [seen EXCEPT ![t] = NothingSeen]
          /\ UNCHANGED result
       \/ /\ word # seen[t]
          /\ Match(t)
          /\ UNCHANGED word
    /\ UNCHANGED <<next, signaled, token, force, cur, target, completed>>

\* The closure has returned, or it has panicked or called OnceState::poison:
\* WaiterQueue is dropped and takes the list of waiters with it.
Finish(t, st) ==
    /\ pc[t] = "run"
    /\ word' = Word(st, Null)
    /\ cur' = [cur EXCEPT ![t] = word.head]
    /\ completed' = IF st = "COMPLETE" THEN completed + 1 ELSE completed
    /\ result' = [result EXCEPT ![t] = IF st = "COMPLETE" THEN "done" ELSE "failed"]
    /\ pc' = [pc EXCEPT ![t] = IF word.head = Null THEN "idle" ELSE "signal"]
    /\ UNCHANGED <<next, signaled, token, force, seen, target>>

\* Mutant of Signal: next is read after signaled was stored, when the node may
\* be gone from the stack of its thread.
Signal_NextLater(t) ==
    /\ pc[t] = "signal"
    /\ target' = [target EXCEPT ![t] = cur[t]]
    /\ \E p \in {next[cur[t]], Null} : cur' = [cur EXCEPT ![t] = p]
    /\ signaled' = [signaled EXCEPT ![cur[t]] = TRUE]
    /\ pc' = [pc EXCEPT ![t] = "unpark"]
    /\ UNCHANGED <<word, next, token, force, seen, result, completed>>

\* next and thread are read from the node, then signaled is stored.
Signal(t) ==
    /\ pc[t] = "signal"
    /\ target' = [target EXCEPT ![t] = cur[t]]
    /\ cur' = [cur EXCEPT ![t] = next[cur[t]]]
    /\ signaled' = [signaled EXCEPT ![cur[t]] = TRUE]
    /\ pc' = [pc EXCEPT ![t] = "unpark"]
    /\ UNCHANGED <<word, next, token, force, seen, result, completed>>

\* Mutant of Unpark: the list is left after its first node.
Unpark_First(t) ==
    /\ pc[t] = "unpark"
    /\ token' = [token EXCEPT ![target[t]] = TRUE]
    /\ target' = [target EXCEPT ![t] = Null]
    /\ cur' = [cur EXCEPT ![t] = Null]
    /\ pc' = [pc EXCEPT ![t] = "idle"]
    /\ UNCHANGED <<word, next, signaled, force, seen, result, completed>>

\* thread.unpark(), and on to the next node.
Unpark(t) ==
    /\ pc[t] = "unpark"
    /\ token' = [token EXCEPT ![target[t]] = TRUE]
    /\ target' = [target EXCEPT ![t] = Null]
    /\ pc' = [pc EXCEPT ![t] = IF cur[t] = Null THEN "idle" ELSE "signal"]
    /\ UNCHANGED <<word, next, signaled, force, seen, cur, result, completed>>

(***************************************************************************)
(* wait.                                                                   *)
(***************************************************************************)

\* A new node is pushed on the list if the word is still as it was read; a
\* word that is no longer RUNNING ends the wait.
Enqueue(t) ==
    /\ pc[t] = "enqueue"
    /\ \/ /\ word = seen[t]
          /\ next' = [next EXCEPT ![t] = word.head]
          /\ signaled' = [signaled EXCEPT ![t] = FALSE]
          /\ word' = Word("RUNNING", t)
          /\ pc' = [pc EXCEPT ![t] = "check"]
          /\ seen' = [seen EXCEPT ![t] = NothingSeen]
       \/ /\ word # seen[t]
          /\ \/ /\ word.state = "RUNNING"
                /\ seen' = [seen EXCEPT ![t] = word]
                /\ UNCHANGED pc
             \/ /\ word.state # "RUNNING"
                /\ seen' = [seen EXCEPT ![t] = NothingSeen]
                /\ pc' = [pc EXCEPT ![t] = "load"]
          /\ UNCHANGED <<word, next, signaled>>
    /\ UNCHANGED <<token, force, cur, target, result, completed>>

\* The node is dropped with the first look that finds it signaled.
Check(t) ==
    /\ pc[t] = "check"
    /\ \/ /\ signaled[t]
          /\ pc' = [pc EXCEPT ![t] = "load"]
          /\ next' = [next EXCEPT ![t] = Null]
       \/ /\ ~signaled[t]
          /\ pc' = [pc EXCEPT ![t] = "park"]
          /\ UNCHANGED next
    /\ UNCHANGED <<word, signaled, token, force, seen, cur, target, result, completed>>

Park(t) ==
    /\ pc[t] = "park"
    /\ token[t]
    /\ token' = [token EXCEPT ![t] = FALSE]
    /\ pc' = [pc EXCEPT ![t] = "check"]
    /\ UNCHANGED <<word, next, signaled, force, seen, cur, target, result, completed>>

SpuriousUnpark(t) ==
    /\ pc[t] = "park"
    /\ ~token[t]
    /\ token' = [token EXCEPT ![t] = TRUE]
    /\ UNCHANGED <<word, next, signaled, pc, force, seen, cur, target, result, completed>>

OnceStep(t) ==
    \/ Load(t)
    \/ Exchange(t)
    \/ \E st \in {"COMPLETE", "POISONED"} : Finish(t, st)
    \/ Signal(t)
    \/ Unpark(t)
    \/ Enqueue(t)
    \/ Check(t)
    \/ Park(t)

OnceNext ==
    \E t \in Thread :
        \/ \E f \in BOOLEAN : Call(t, f)
        \/ OnceStep(t)
        \/ SpuriousUnpark(t)

\* Threads are scheduled, and every closure returns or panics.
OnceFairness == \A t \in Thread : WF_onceVars(OnceStep(t))

OnceSpec == OnceInit /\ [][OnceNext]_onceVars /\ OnceFairness

-----------------------------------------------------------------------------
(***************************************************************************)
(* Properties.                                                             *)
(***************************************************************************)

\* The closure runs in one thread at a time and only while the word says so
\* (the assertion in WaiterQueue::drop), it completes at most once, and a
\* call that returns normally finds it completed.
InitializedOnce ==
    /\ \A t \in Thread : pc[t] = "run" => word.state = "RUNNING"
    /\ Cardinality({t \in Thread : pc[t] = "run"}) <= 1
    /\ completed = IF word.state = "COMPLETE" THEN 1 ELSE 0
    /\ \A t \in Thread :
          pc[t] = "idle" /\ result[t] = "done" => word.state = "COMPLETE"

\* The threads whose node is in memory and not signaled yet.
Waiting == {t \in Thread : pc[t] \in {"check", "park"} /\ ~signaled[t]}

\* The nodes that are reached from pointer p over next fields nx: the least
\* set that has p and with every node the node after it.
Reached(nx, p) ==
    {u \in Thread : \A S \in SUBSET Thread :
        p \in S \cup {Null} /\ (\A v \in S : nx[v] \in S \cup {Null}) => u \in S}

Chain(p) == Reached(next, p)

\* "It is important not to return before being signaled, otherwise we would
\* drop our `Waiter` node and leave a hole in the linked list": the nodes that
\* are reached from the word and from the threads that walk a list they took
\* from it are exactly the nodes that wait to be signaled, each in one list.
ListsAreWaiting ==
    /\ OnceTypeOK
    /\ Waiting = Chain(word.head) \cup UNION {Chain(cur[t]) : t \in Thread}
    /\ \A t \in Thread : Chain(word.head) \cap Chain(cur[t]) = {}
    /\ \A t, u \in Thread : t # u => Chain(cur[t]) \cap Chain(cur[u]) = {}

\* A thread that waits for a running initialization gets on.
WaiterGetsOn == \A t \in Thread : pc[t] = "park" ~> pc[t] = "load"
=============================================================================

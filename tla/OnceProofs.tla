----------------------------- MODULE OnceProofs -----------------------------
(***************************************************************************)
(* The safety properties of Once for any set of threads: the closure runs  *)
(* in one thread at a time and completes at most once, the lists of nodes  *)
(* on the stacks of waiting threads are intact, and no thread parks with   *)
(* nobody to unpark it.                                                    *)
(*                                                                         *)
(* The nodes reached from a pointer are the least set closed under next,   *)
(* so what a step does to a list is shown by naming a closed set, without  *)
(* an induction along the list.                                            *)
(***************************************************************************)
EXTENDS Once, FiniteSetTheorems, TLAPS

-----------------------------------------------------------------------------
(***************************************************************************)
(* The inductive invariant behind the safety properties.                   *)
(***************************************************************************)

\* A compare_exchange starts an initialization from a state in which none has
\* run, and pushes a node on the list of one that does.
SeenOK ==
    \A t \in Thread :
        /\ pc[t] = "exchange" => seen[t].state \in {"INCOMPLETE", "POISONED"}
        /\ pc[t] = "enqueue" => seen[t].state = "RUNNING"

\* The word says RUNNING as long as one thread runs the closure, and whoever
\* was told that the initialization is done was told the truth.
RunnerOK ==
    /\ word.state = "RUNNING" <=> \E t \in Thread : pc[t] = "run"
    /\ \A t, u \in Thread : pc[t] = "run" /\ pc[u] = "run" => t = u
    /\ \A t \in Thread : result[t] = "done" => word.state = "COMPLETE"
    /\ completed = IF word.state = "COMPLETE" THEN 1 ELSE 0

\* A thread walks a list from the end of its initialization to the list's end.
WalkOK ==
    \A t \in Thread :
        /\ cur[t] # Null => pc[t] \in {"signal", "unpark"}
        /\ pc[t] = "signal" => cur[t] # Null
        /\ pc[t] = "unpark" => target[t] # Null

\* No node that waits is reached from itself.
NoCycle == \A t \in Waiting : t \notin Chain(next[t])

\* The flag of a node is set before its thread is unparked: a thread that
\* parks all the same has been unparked or will be.
SignaledIsWoken ==
    \A t \in Thread : pc[t] = "park" /\ signaled[t] =>
        token[t] \/ \E u \in Thread : pc[u] = "unpark" /\ target[u] = t

\* A thread that waits is not forgotten: until its flag is set some thread
\* runs the closure or walks a list, and afterwards it is unparked.
ParkedIsWoken ==
    /\ SignaledIsWoken
    /\ \A t \in Waiting :
          \E u \in Thread : pc[u] \in {"run", "signal", "unpark"}

OnceInv ==
    /\ SeenOK
    /\ RunnerOK
    /\ WalkOK
    /\ ListsAreWaiting
    /\ NoCycle
    /\ SignaledIsWoken

-----------------------------------------------------------------------------
(***************************************************************************)
(* Linked lists.                                                           *)
(***************************************************************************)

\* The set that is reached has the first node and is closed under next.
LEMMA ReachedClosed ==
  ASSUME NEW f \in [Thread -> Pointer], NEW p \in Pointer
  PROVE  /\ Reached(f, p) \subseteq Thread
         /\ p \in Reached(f, p) \cup {Null}
         /\ \A v \in Reached(f, p) : f[v] \in Reached(f, p) \cup {Null}
  BY DEF Reached, Pointer

\* It is the least such set.
LEMMA ReachedLeast ==
  ASSUME NEW f, NEW p, NEW S \in SUBSET Thread, p \in S \cup {Null},
         \A v \in S : f[v] \in S \cup {Null}
  PROVE  Reached(f, p) \subseteq S
  BY DEF Reached

\* Nothing is reached from the null pointer.
LEMMA ReachedNull == ASSUME NEW f PROVE Reached(f, Null) = {}
<1>1. PICK S \in SUBSET Thread : S = {}
  OBVIOUS
<1>2. Null \in S \cup {Null} /\ \A v \in S : f[v] \in S \cup {Null}
  BY <1>1
<1>3. Reached(f, Null) \subseteq S
  BY <1>2, ReachedLeast
<1> QED BY <1>1, <1>3

\* Next fields of nodes that are not reached do not matter.
LEMMA ReachedFrame ==
  ASSUME NEW f \in [Thread -> Pointer], NEW g \in [Thread -> Pointer],
         NEW p \in Pointer, \A v \in Reached(f, p) : g[v] = f[v]
  PROVE  Reached(g, p) = Reached(f, p)
<1>1. Reached(g, p) \subseteq Reached(f, p)
  BY ReachedClosed, ReachedLeast
<1>2. Reached(f, p) \subseteq Reached(g, p)
  <2> DEFINE S == Reached(f, p) \cap Reached(g, p)
  <2>1. S \in SUBSET Thread /\ p \in S \cup {Null}
    BY ReachedClosed
  <2>2. \A v \in S : f[v] \in S \cup {Null}
    BY ReachedClosed
  <2> HIDE DEF S
  <2>3. Reached(f, p) \subseteq S
    BY <2>1, <2>2, ReachedLeast
  <2> QED BY <2>3 DEF S
<1> QED BY <1>1, <1>2

\* A list is its first node and the list after it.
LEMMA ReachedCons ==
  ASSUME NEW f \in [Thread -> Pointer], NEW p \in Thread
  PROVE  Reached(f, p) = {p} \cup Reached(f, f[p])
<1>0. p \in Pointer /\ f[p] \in Pointer /\ p # Null
  BY NullAssumption DEF Pointer
<1>1. Reached(f, p) \subseteq {p} \cup Reached(f, f[p])
  <2> DEFINE S == {p} \cup Reached(f, f[p])
  <2>1. S \in SUBSET Thread /\ p \in S \cup {Null}
    BY <1>0, ReachedClosed
  <2>2. \A v \in S : f[v] \in S \cup {Null}
    BY <1>0, ReachedClosed
  <2> HIDE DEF S
  <2>3. Reached(f, p) \subseteq S
    BY <2>1, <2>2, ReachedLeast
  <2> QED BY <2>3 DEF S
<1>2. p \in Reached(f, p) /\ f[p] \in Reached(f, p) \cup {Null}
  BY <1>0, ReachedClosed
<1>3. Reached(f, f[p]) \subseteq Reached(f, p)
  <2>1. Reached(f, p) \in SUBSET Thread
    BY <1>0, ReachedClosed
  <2>2. \A v \in Reached(f, p) : f[v] \in Reached(f, p) \cup {Null}
    BY <1>0, ReachedClosed
  <2> QED BY <1>2, <2>1, <2>2, ReachedLeast
<1> QED BY <1>1, <1>2, <1>3

\* What comes after a node of a list is in the list.
LEMMA ReachedFrom ==
  ASSUME NEW f \in [Thread -> Pointer], NEW p \in Pointer,
         NEW v \in Reached(f, p)
  PROVE  Reached(f, f[v]) \subseteq Reached(f, p)
<1>1. /\ Reached(f, p) \in SUBSET Thread
      /\ f[v] \in Reached(f, p) \cup {Null}
      /\ \A w \in Reached(f, p) : f[w] \in Reached(f, p) \cup {Null}
  BY ReachedClosed
<1> QED BY <1>1, ReachedLeast

-----------------------------------------------------------------------------
(***************************************************************************)
(* The lists of waiting threads.                                           *)
(***************************************************************************)

\* The words that the code stores.
LEMMA Words ==
  /\ \A w \in OnceWord : /\ w.state \in OnceState /\ w.head \in Pointer
                         /\ w.head # Null => w.state = "RUNNING"
  /\ \A st \in OnceState, h \in Pointer :
        (h # Null => st = "RUNNING")
           => /\ Word(st, h) \in OnceWord
              /\ Word(st, h).state = st /\ Word(st, h).head = h
  /\ Null \in Pointer /\ Thread \subseteq Pointer
  /\ "INCOMPLETE" \in OnceState /\ "POISONED" \in OnceState
  /\ "RUNNING" \in OnceState /\ "COMPLETE" \in OnceState
  BY DEF OnceWord, Word, Pointer, OnceState

\* The types, from the invariant.
LEMMA OnceFacts ==
  ASSUME OnceInv
  PROVE  /\ OnceTypeOK
         /\ word \in OnceWord /\ word.state \in OnceState /\ word.head \in Pointer
         /\ word.head # Null => word.state = "RUNNING"
         /\ next \in [Thread -> Pointer] /\ cur \in [Thread -> Pointer]
         /\ target \in [Thread -> Pointer]
         /\ pc \in [Thread -> OncePhase] /\ seen \in [Thread -> OnceWord]
         /\ signaled \in [Thread -> BOOLEAN] /\ token \in [Thread -> BOOLEAN]
         /\ result \in [Thread -> {"none", "done", "failed"}]
         /\ NothingSeen \in OnceWord
  BY Words DEF OnceInv, ListsAreWaiting, OnceTypeOK, NothingSeen

\* Every list consists of waiting nodes, and every waiting node is in one.
LEMMA ListFacts ==
  ASSUME OnceInv
  PROVE  /\ Reached(next, word.head) \subseteq Waiting
         /\ \A t \in Thread : Reached(next, cur[t]) \subseteq Waiting
         /\ \A v \in Waiting :
               \/ v \in Reached(next, word.head)
               \/ \E t \in Thread : v \in Reached(next, cur[t])
         /\ \A v \in Waiting : Reached(next, next[v]) \subseteq Waiting
         /\ \A v \in Waiting : v \notin Reached(next, next[v])
         /\ \A t \in Thread :
               Reached(next, word.head) \cap Reached(next, cur[t]) = {}
         /\ \A t, u \in Thread :
               t # u => Reached(next, cur[t]) \cap Reached(next, cur[u]) = {}
         /\ Waiting \subseteq Thread
<1>1. Waiting = Reached(next, word.head)
                  \cup UNION {Reached(next, cur[t]) : t \in Thread}
  BY DEF OnceInv, ListsAreWaiting, Chain
<1>2. \A v \in Waiting : \/ v \in Reached(next, word.head)
                         \/ \E t \in Thread : v \in Reached(next, cur[t])
  BY <1>1
<1>3. \A t \in Thread : Reached(next, cur[t]) \subseteq Waiting
  BY <1>1
<1>4. Reached(next, word.head) \subseteq Waiting
  BY <1>1
<1>5. ASSUME NEW v \in Waiting PROVE Reached(next, next[v]) \subseteq Waiting
  <2>1. CASE v \in Reached(next, word.head)
    BY <1>4, <2>1, OnceFacts, ReachedFrom
  <2>2. ASSUME NEW t \in Thread, v \in Reached(next, cur[t])
        PROVE  Reached(next, next[v]) \subseteq Waiting
    <3>1. Reached(next, next[v]) \subseteq Reached(next, cur[t])
      BY <2>2, OnceFacts, ReachedFrom
    <3> QED BY <1>3, <3>1
  <2> QED BY <1>2, <2>1, <2>2
<1>6. \A v \in Waiting : v \notin Reached(next, next[v])
  BY DEF OnceInv, NoCycle, Chain
<1>7. /\ \A t \in Thread :
            Reached(next, word.head) \cap Reached(next, cur[t]) = {}
      /\ \A t, u \in Thread :
            t # u => Reached(next, cur[t]) \cap Reached(next, cur[u]) = {}
  BY DEF OnceInv, ListsAreWaiting, Chain
<1>8. Waiting \subseteq Thread
  BY DEF Waiting
<1> QED BY <1>2, <1>3, <1>4, <1>5, <1>6, <1>7, <1>8

\* A list is not touched by changes of next fields outside the lists.
LEMMA ListFrame ==
  ASSUME OnceInv, next' \in [Thread -> Pointer],
         \A v \in Waiting : next'[v] = next[v]
  PROVE  /\ Reached(next', word.head) = Reached(next, word.head)
         /\ \A t \in Thread : Reached(next', cur[t]) = Reached(next, cur[t])
         /\ \A v \in Waiting : Reached(next', next'[v]) = Reached(next, next[v])
<1>0. /\ next \in [Thread -> Pointer] /\ word.head \in Pointer
      /\ cur \in [Thread -> Pointer] /\ Waiting \subseteq Thread
  BY OnceFacts, ListFacts
<1>1. Reached(next', word.head) = Reached(next, word.head)
  <2>1. \A v \in Reached(next, word.head) : next'[v] = next[v]
    BY ListFacts
  <2> QED BY <1>0, <2>1, ReachedFrame
<1>2. ASSUME NEW t \in Thread
      PROVE  Reached(next', cur[t]) = Reached(next, cur[t])
  <2>1. \A v \in Reached(next, cur[t]) : next'[v] = next[v]
    BY ListFacts
  <2>2. cur[t] \in Pointer
    BY <1>0
  <2> QED BY <1>0, <2>1, <2>2, ReachedFrame
<1>3. ASSUME NEW v \in Waiting
      PROVE  Reached(next', next'[v]) = Reached(next, next[v])
  <2>1. next'[v] = next[v] /\ next[v] \in Pointer
    BY <1>0
  <2>2. \A w \in Reached(next, next[v]) : next'[w] = next[w]
    BY ListFacts
  <2>3. Reached(next', next[v]) = Reached(next, next[v])
    BY <1>0, <2>1, <2>2, ReachedFrame
  <2> QED BY <2>1, <2>3
<1> QED BY <1>1, <1>2, <1>3

\* Steps that leave the lists as they are.
LEMMA SameLists ==
  ASSUME OnceInv, OnceTypeOK', word'.head = word.head, cur' = cur,
         Waiting' = Waiting, \A v \in Waiting : next'[v] = next[v]
  PROVE  ListsAreWaiting' /\ NoCycle'
<1>1. /\ Reached(next', word'.head) = Reached(next, word.head)
      /\ \A t \in Thread : Reached(next', cur'[t]) = Reached(next, cur[t])
      /\ \A v \in Waiting : Reached(next', next'[v]) = Reached(next, next[v])
  <2>1. next' \in [Thread -> Pointer]
    BY DEF OnceTypeOK
  <2> QED BY <2>1, ListFrame
<1>2. UNION {Reached(next', cur'[t]) : t \in Thread}
        = UNION {Reached(next, cur[t]) : t \in Thread}
  BY <1>1
<1>3. Waiting = Reached(next, word.head)
                  \cup UNION {Reached(next, cur[t]) : t \in Thread}
  BY DEF OnceInv, ListsAreWaiting, Chain
<1>4. ListsAreWaiting'
  BY <1>1, <1>2, <1>3, ListFacts DEF ListsAreWaiting, Chain
<1>5. NoCycle'
  BY <1>1, ListFacts DEF NoCycle, Chain
<1> QED BY <1>4, <1>5

\* The thread that ends an initialization takes the list from the word.
LEMMA FinishLists ==
  ASSUME OnceInv, OnceTypeOK', NEW t \in Thread, cur[t] = Null,
         word'.head = Null, cur' = [cur EXCEPT ![t] = word.head],
         next' = next, Waiting' = Waiting
  PROVE  ListsAreWaiting' /\ NoCycle'
<1>0. cur \in [Thread -> Pointer]
  BY OnceFacts
<1>1. /\ Reached(next', word'.head) = {}
      /\ Reached(next', cur'[t]) = Reached(next, word.head)
      /\ \A u \in Thread : u # t => Reached(next', cur'[u]) = Reached(next, cur[u])
      /\ Reached(next, cur[t]) = {}
  BY <1>0, ReachedNull
<1>2. UNION {Reached(next', cur'[u]) : u \in Thread}
        = Reached(next, word.head) \cup UNION {Reached(next, cur[u]) : u \in Thread}
  BY <1>1
<1>3. Waiting = Reached(next, word.head)
                  \cup UNION {Reached(next, cur[u]) : u \in Thread}
  BY DEF OnceInv, ListsAreWaiting, Chain
<1>4. ListsAreWaiting'
  <2>1. Waiting' = Reached(next', word'.head)
                     \cup UNION {Reached(next', cur'[u]) : u \in Thread}
    BY <1>1, <1>2, <1>3
  <2>2. \A u \in Thread : Reached(next', word'.head) \cap Reached(next', cur'[u]) = {}
    BY <1>1
  <2>3. \A u, v \in Thread :
           u # v => Reached(next', cur'[u]) \cap Reached(next', cur'[v]) = {}
    BY <1>1, ListFacts
  <2> QED BY <2>1, <2>2, <2>3 DEF ListsAreWaiting, Chain
<1>5. NoCycle'
  BY DEF OnceInv, NoCycle, Chain
<1> QED BY <1>4, <1>5

\* The walker signals the first node of its list, which leaves the list.
LEMMA SignalLists ==
  ASSUME OnceInv, OnceTypeOK', NEW t \in Thread, cur[t] \in Thread,
         word' = word, cur' = [cur EXCEPT ![t] = next[cur[t]]],
         next' = next, Waiting' = Waiting \ {cur[t]}
  PROVE  ListsAreWaiting' /\ NoCycle'
<1> DEFINE c == cur[t]
<1>0. /\ cur \in [Thread -> Pointer] /\ next \in [Thread -> Pointer]
      /\ c \in Thread /\ cur'[t] = next[c]
      /\ \A u \in Thread : u # t => cur'[u] = cur[u]
  BY OnceFacts
<1>1. Reached(next, c) = {c} \cup Reached(next, next[c])
  BY <1>0, ReachedCons
<1>2. c \in Waiting /\ c \notin Reached(next, next[c])
  BY <1>1, ListFacts
<1>3. /\ c \notin Reached(next, word.head)
      /\ \A u \in Thread : u # t => c \notin Reached(next, cur[u])
  BY <1>1, ListFacts
<1>4. /\ Reached(next', word'.head) = Reached(next, word.head)
      /\ Reached(next', cur'[t]) = Reached(next, cur[t]) \ {c}
      /\ \A u \in Thread : u # t => Reached(next', cur'[u]) = Reached(next, cur[u])
  BY <1>0, <1>1, <1>2
<1>5. Waiting = Reached(next, word.head)
                  \cup UNION {Reached(next, cur[u]) : u \in Thread}
  BY DEF OnceInv, ListsAreWaiting, Chain
<1>6. \A u \in Thread : Reached(next', cur'[u]) = Reached(next, cur[u]) \ {c}
  BY <1>3, <1>4
<1>7. UNION {Reached(next', cur'[u]) : u \in Thread}
        = (UNION {Reached(next, cur[u]) : u \in Thread}) \ {c}
  BY <1>6
<1>8. ListsAreWaiting'
  <2>1. Waiting' = Reached(next', word'.head)
                     \cup UNION {Reached(next', cur'[u]) : u \in Thread}
    BY <1>3, <1>4, <1>5, <1>7
  <2>2. \A u \in Thread : Reached(next', word'.head) \cap Reached(next', cur'[u]) = {}
    BY <1>4, <1>6, ListFacts
  <2>3. \A u, v \in Thread :
           u # v => Reached(next', cur'[u]) \cap Reached(next', cur'[v]) = {}
    BY <1>6, ListFacts
  <2> QED BY <2>1, <2>2, <2>3 DEF ListsAreWaiting, Chain
<1>9. NoCycle'
  BY DEF OnceInv, NoCycle, Chain
<1> QED BY <1>8, <1>9

\* A thread that was not waiting pushes its node on the list of the word.
LEMMA EnqueueLists ==
  ASSUME OnceInv, OnceTypeOK', NEW t \in Thread, t \notin Waiting,
         word'.head = t, cur' = cur, Waiting' = Waiting \cup {t},
         next' = [next EXCEPT ![t] = word.head]
  PROVE  ListsAreWaiting' /\ NoCycle'
<1>0. /\ next \in [Thread -> Pointer] /\ next' \in [Thread -> Pointer]
      /\ next'[t] = word.head /\ Waiting \subseteq Thread
      /\ \A v \in Waiting : next'[v] = next[v]
  BY OnceFacts, ListFacts DEF OnceTypeOK
<1>1. /\ Reached(next', word.head) = Reached(next, word.head)
      /\ \A u \in Thread : Reached(next', cur'[u]) = Reached(next, cur[u])
      /\ \A v \in Waiting : Reached(next', next'[v]) = Reached(next, next[v])
  BY <1>0, ListFrame
<1>2. Reached(next', word'.head) = {t} \cup Reached(next, word.head)
  <2>1. Reached(next', t) = {t} \cup Reached(next', next'[t])
    BY <1>0, ReachedCons
  <2> QED BY <1>0, <1>1, <2>1
<1>3. UNION {Reached(next', cur'[u]) : u \in Thread}
        = UNION {Reached(next, cur[u]) : u \in Thread}
  BY <1>1
<1>4. Waiting = Reached(next, word.head)
                  \cup UNION {Reached(next, cur[u]) : u \in Thread}
  BY DEF OnceInv, ListsAreWaiting, Chain
<1>5. ListsAreWaiting'
  <2>1. Waiting' = Reached(next', word'.head)
                     \cup UNION {Reached(next', cur'[u]) : u \in Thread}
    BY <1>2, <1>3, <1>4
  <2>2. \A u \in Thread : Reached(next', word'.head) \cap Reached(next', cur'[u]) = {}
    <3> SUFFICES ASSUME NEW u \in Thread
                 PROVE  Reached(next', word'.head) \cap Reached(next', cur'[u]) = {}
      OBVIOUS
    <3>1. /\ t \notin Reached(next, cur[u])
          /\ Reached(next, word.head) \cap Reached(next, cur[u]) = {}
      BY ListFacts
    <3> QED BY <1>1, <1>2, <3>1
  <2>3. \A u, v \in Thread :
           u # v => Reached(next', cur'[u]) \cap Reached(next', cur'[v]) = {}
    BY <1>1, ListFacts
  <2> QED BY <2>1, <2>2, <2>3 DEF ListsAreWaiting, Chain
<1>6. NoCycle'
  <2>1. t \notin Reached(next', next'[t])
    BY <1>0, <1>1, ListFacts
  <2>2. \A v \in Waiting : v \notin Reached(next', next'[v])
    BY <1>1, ListFacts
  <2> QED BY <2>1, <2>2 DEF NoCycle, Chain
<1> QED BY <1>5, <1>6

-----------------------------------------------------------------------------
(***************************************************************************)
(* The steps.                                                              *)
(***************************************************************************)

\* The word is INCOMPLETE, nobody runs, waits or walks.
LEMMA OnceInitInv == OnceInit => OnceInv
<1> SUFFICES ASSUME OnceInit PROVE OnceInv
  OBVIOUS
<1>0. NothingSeen \in OnceWord /\ NothingSeen.state = "INCOMPLETE"
      /\ NothingSeen.head = Null
  BY Words DEF NothingSeen
<1>1. OnceTypeOK
  BY <1>0, Words DEF OnceInit, OnceTypeOK, OncePhase
<1>2. SeenOK /\ RunnerOK /\ WalkOK /\ SignaledIsWoken
  BY <1>0 DEF OnceInit, SeenOK, RunnerOK, WalkOK, SignaledIsWoken
<1>3. Waiting = {}
  BY DEF OnceInit, Waiting
<1>4. Reached(next, word.head) = {} /\ \A t \in Thread : Reached(next, cur[t]) = {}
  BY <1>0, ReachedNull DEF OnceInit
<1>5. ListsAreWaiting
  BY <1>1, <1>3, <1>4 DEF ListsAreWaiting, Chain
<1>6. NoCycle
  BY <1>3 DEF NoCycle
<1> QED BY <1>2, <1>5, <1>6 DEF OnceInv

\* The phases, and the ones in which a thread waits.
LEMMA OncePhases ==
  /\ "idle" \in OncePhase /\ "load" \in OncePhase /\ "exchange" \in OncePhase
  /\ "run" \in OncePhase /\ "signal" \in OncePhase /\ "unpark" \in OncePhase
  /\ "enqueue" \in OncePhase /\ "check" \in OncePhase /\ "park" \in OncePhase
  BY DEF OncePhase

\* A step of t between phases in which it neither runs, walks nor waits, with
\* the word, the nodes and the tokens as they are.
LEMMA LookInv ==
  ASSUME OnceInv, NEW t \in Thread,
         pc[t] \in {"idle", "load", "exchange", "enqueue"},
         NEW p \in {"idle", "load", "exchange", "enqueue"},
         pc' = [pc EXCEPT ![t] = p], NEW w \in OnceWord,
         seen' = [seen EXCEPT ![t] = w], NEW r \in {"none", "done", "failed"},
         result' = [result EXCEPT ![t] = r], force' \in [Thread -> BOOLEAN],
         p = "exchange" => w.state \in {"INCOMPLETE", "POISONED"},
         p = "enqueue" => w.state = "RUNNING",
         r = "done" => word.state = "COMPLETE",
         UNCHANGED <<word, next, signaled, token, cur, target, completed>>
  PROVE  OnceInv'
<1>0. /\ pc \in [Thread -> OncePhase] /\ p \in OncePhase
      /\ seen \in [Thread -> OnceWord]
      /\ result \in [Thread -> {"none", "done", "failed"}]
      /\ pc'[t] = p /\ \A u \in Thread : u # t => pc'[u] = pc[u]
      /\ seen'[t] = w /\ \A u \in Thread : u # t => seen'[u] = seen[u]
      /\ result'[t] = r /\ \A u \in Thread : u # t => result'[u] = result[u]
  BY OnceFacts, OncePhases
<1>1. OnceTypeOK'
  BY <1>0, OnceFacts DEF OnceTypeOK
<1>2. SeenOK'
  BY <1>0 DEF OnceInv, SeenOK
<1>3. RunnerOK'
  BY <1>0 DEF OnceInv, RunnerOK
<1>4. WalkOK' /\ SignaledIsWoken'
  BY <1>0 DEF OnceInv, WalkOK, SignaledIsWoken
<1>5. Waiting' = Waiting
  BY <1>0 DEF Waiting
<1>6. ListsAreWaiting' /\ NoCycle'
  BY <1>1, <1>5, SameLists
<1> QED BY <1>2, <1>3, <1>4, <1>6 DEF OnceInv

\* The match on the word that was just read.
LEMMA MatchInv ==
  ASSUME OnceInv, NEW t \in Thread, pc[t] \in {"load", "exchange"}, Match(t),
         UNCHANGED <<word, next, signaled, token, force, cur, target, completed>>
  PROVE  OnceInv'
<1>0. /\ word \in OnceWord /\ NothingSeen \in OnceWord
      /\ result \in [Thread -> {"none", "done", "failed"}]
      /\ force' \in [Thread -> BOOLEAN]
      /\ result[t] = "done" => word.state = "COMPLETE"
  BY OnceFacts DEF OnceTypeOK, OnceInv, RunnerOK
<1>1. ASSUME NEW r \in {"none", "done", "failed"}, Return(t, r),
             r = "done" => word.state = "COMPLETE"
      PROVE  OnceInv'
  BY <1>0, <1>1, LookInv DEF Return
<1>2. ASSUME NEW p \in {"exchange", "enqueue"}, GoOn(t, p),
             p = "exchange" => word.state \in {"INCOMPLETE", "POISONED"},
             p = "enqueue" => word.state = "RUNNING"
      PROVE  OnceInv'
  <2>1. result' = [result EXCEPT ![t] = result[t]]
    BY <1>0, <1>2 DEF GoOn
  <2>2. result[t] \in {"none", "done", "failed"}
    BY <1>0
  <2> QED BY <1>0, <1>2, <2>1, <2>2, LookInv DEF GoOn
<1> QED BY <1>1, <1>2 DEF Match

\* call_once and call_once_force.
LEMMA OnceCallInv ==
  ASSUME OnceInv, NEW t \in Thread, NEW f \in BOOLEAN, Call(t, f)
  PROVE  OnceInv'
<1>0. /\ NothingSeen \in OnceWord /\ pc[t] = "idle" /\ force' \in [Thread -> BOOLEAN]
      /\ seen \in [Thread -> OnceWord]
  BY OnceFacts DEF OnceTypeOK, Call
<1>1. CASE word.state = "COMPLETE"
  <2>1. Return(t, "done") /\ word.state = "COMPLETE"
    BY <1>1 DEF Call
  <2> QED BY <1>0, <2>1, LookInv DEF Call, Return
<1>2. CASE word.state # "COMPLETE"
  <2>1. seen' = [seen EXCEPT ![t] = seen[t]] /\ seen[t] \in OnceWord
    BY <1>0, <1>2 DEF Call
  <2> QED BY <1>0, <1>2, <2>1, LookInv DEF Call
<1> QED BY <1>1, <1>2

\* compare_exchange to RUNNING.
LEMMA ExchangeInv == ASSUME OnceInv, NEW t \in Thread, Exchange(t) PROVE OnceInv'
<1>1. CASE word # seen[t]
  BY <1>1, MatchInv DEF Exchange
<1>2. CASE word = seen[t]
  <2>0. /\ pc \in [Thread -> OncePhase] /\ seen \in [Thread -> OnceWord]
        /\ pc[t] = "exchange"
        /\ word' = Word("RUNNING", Null) /\ pc' = [pc EXCEPT ![t] = "run"]
        /\ seen' = [seen EXCEPT ![t] = NothingSeen]
        /\ UNCHANGED <<next, signaled, token, force, cur, target, completed, result>>
        /\ NothingSeen \in OnceWord
    BY <1>2, OnceFacts DEF Exchange
  <2>1. /\ word' \in OnceWord /\ word'.state = "RUNNING" /\ word'.head = Null
    BY <2>0, Words
  <2>2. word.state \in {"INCOMPLETE", "POISONED"} /\ word.head = Null
    BY <1>2, <2>0, OnceFacts DEF OnceInv, SeenOK
  <2>3. /\ pc'[t] = "run" /\ \A u \in Thread : u # t => pc'[u] = pc[u]
        /\ \A u \in Thread : u # t => seen'[u] = seen[u]
    BY <2>0
  <2>4. OnceTypeOK'
    BY <2>0, <2>1, OnceFacts, OncePhases DEF OnceTypeOK
  <2>5. SeenOK'
    BY <2>3 DEF OnceInv, SeenOK
  <2>6. RunnerOK'
    BY <2>0, <2>1, <2>2, <2>3 DEF OnceInv, RunnerOK
  <2>7. WalkOK' /\ SignaledIsWoken'
    BY <2>0, <2>3 DEF OnceInv, WalkOK, SignaledIsWoken
  <2>8. Waiting' = Waiting
    BY <2>0, <2>3 DEF Waiting
  <2>9. ListsAreWaiting' /\ NoCycle'
    BY <2>0, <2>1, <2>2, <2>4, <2>8, SameLists
  <2> QED BY <2>5, <2>6, <2>7, <2>9 DEF OnceInv
<1> QED BY <1>1, <1>2

\* The end of an initialization.
LEMMA FinishInv ==
  ASSUME OnceInv, NEW t \in Thread, NEW st \in {"COMPLETE", "POISONED"},
         Finish(t, st)
  PROVE  OnceInv'
<1>0. /\ pc \in [Thread -> OncePhase] /\ cur \in [Thread -> Pointer]
      /\ result \in [Thread -> {"none", "done", "failed"}] /\ completed \in Nat
      /\ word.head \in Pointer /\ pc[t] = "run"
      /\ word' = Word(st, Null) /\ cur' = [cur EXCEPT ![t] = word.head]
      /\ UNCHANGED <<next, signaled, token, force, seen, target>>
  BY OnceFacts DEF Finish, OnceTypeOK
<1>1. /\ word' \in OnceWord /\ word'.state = st /\ word'.head = Null
  BY <1>0, Words
<1>2. PICK p \in {"idle", "signal"} :
         /\ pc' = [pc EXCEPT ![t] = p] /\ (p = "signal" <=> word.head # Null)
  BY DEF Finish
<1>3. PICK r \in {"done", "failed"} :
         /\ result' = [result EXCEPT ![t] = r] /\ (r = "done" <=> st = "COMPLETE")
  BY DEF Finish
<1>4. /\ pc'[t] = p /\ \A u \in Thread : u # t => pc'[u] = pc[u]
      /\ result'[t] = r /\ \A u \in Thread : u # t => result'[u] = result[u]
      /\ cur'[t] = word.head /\ \A u \in Thread : u # t => cur'[u] = cur[u]
      /\ p \in OncePhase
  BY <1>0, <1>2, <1>3, OncePhases
<1>5. /\ word.state = "RUNNING" /\ completed = 0
      /\ completed' = IF st = "COMPLETE" THEN 1 ELSE 0
      /\ \A u \in Thread : u # t => pc[u] # "run"
      /\ \A u \in Thread : result[u] # "done"
  BY <1>0 DEF OnceInv, RunnerOK, Finish
<1>6. OnceTypeOK'
  BY <1>0, <1>1, <1>2, <1>3, <1>4, <1>5, OnceFacts DEF OnceTypeOK
<1>7. SeenOK'
  BY <1>0, <1>4 DEF OnceInv, SeenOK
<1>8. RunnerOK'
  BY <1>0, <1>1, <1>3, <1>4, <1>5 DEF RunnerOK
<1>9. cur[t] = Null
  BY <1>0 DEF OnceInv, WalkOK
<1>10. WalkOK' /\ SignaledIsWoken'
  BY <1>0, <1>2, <1>4, <1>9 DEF OnceInv, WalkOK, SignaledIsWoken
<1>11. Waiting' = Waiting
  BY <1>0, <1>4 DEF Waiting
<1>12. ListsAreWaiting' /\ NoCycle'
  BY <1>0, <1>1, <1>6, <1>9, <1>11, FinishLists
<1> QED BY <1>7, <1>8, <1>10, <1>12 DEF OnceInv

\* The walker reads the next field and the thread of a node and then sets its
\* flag.
LEMMA OnceSignalInv == ASSUME OnceInv, NEW t \in Thread, Signal(t) PROVE OnceInv'
<1> DEFINE c == cur[t]
<1>0. /\ pc \in [Thread -> OncePhase] /\ cur \in [Thread -> Pointer]
      /\ next \in [Thread -> Pointer] /\ target \in [Thread -> Pointer]
      /\ signaled \in [Thread -> BOOLEAN] /\ pc[t] = "signal"
      /\ target' = [target EXCEPT ![t] = c]
      /\ cur' = [cur EXCEPT ![t] = next[c]]
      /\ signaled' = [signaled EXCEPT ![c] = TRUE]
      /\ pc' = [pc EXCEPT ![t] = "unpark"]
      /\ UNCHANGED <<word, next, token, force, seen, result, completed>>
  BY OnceFacts DEF Signal
<1>1. c \in Thread
  BY <1>0 DEF OnceInv, WalkOK, Pointer
<1>2. /\ pc'[t] = "unpark" /\ \A u \in Thread : u # t => pc'[u] = pc[u]
      /\ target'[t] = c /\ \A u \in Thread : u # t => target'[u] = target[u]
      /\ \A u \in Thread : u # t => cur'[u] = cur[u]
  BY <1>0
<1>3. signaled'[c] /\ \A u \in Thread : u # c => signaled'[u] = signaled[u]
  BY <1>0, <1>1
<1>4. c # t /\ c \in Waiting
  <2>1. c \in Waiting
    BY <1>0, <1>1, ReachedCons, ListFacts
  <2> QED BY <1>0, <2>1 DEF Waiting
<1>5. signaled' \in [Thread -> BOOLEAN]
  BY <1>0
<1>6. OnceTypeOK'
  BY <1>0, <1>1, <1>5, OnceFacts, OncePhases DEF OnceTypeOK
<1>7. SeenOK'
  BY <1>0, <1>2 DEF OnceInv, SeenOK
<1>8. RunnerOK'
  BY <1>0, <1>2 DEF OnceInv, RunnerOK
<1>9. WalkOK'
  BY <1>0, <1>1, <1>2, NullAssumption DEF OnceInv, WalkOK
<1>10. SignaledIsWoken'
  BY <1>0, <1>2, <1>3 DEF OnceInv, SignaledIsWoken
<1>11. Waiting' = Waiting \ {c}
  BY <1>0, <1>2, <1>3, <1>4 DEF Waiting
<1>12. ListsAreWaiting' /\ NoCycle'
  BY <1>0, <1>1, <1>6, <1>11, SignalLists
<1> QED BY <1>7, <1>8, <1>9, <1>10, <1>12 DEF OnceInv

\* The walker unparks the thread and goes on.
LEMMA OnceUnparkInv == ASSUME OnceInv, NEW t \in Thread, Unpark(t) PROVE OnceInv'
<1>0. /\ pc \in [Thread -> OncePhase] /\ target \in [Thread -> Pointer]
      /\ token \in [Thread -> BOOLEAN] /\ pc[t] = "unpark"
      /\ token' = [token EXCEPT ![target[t]] = TRUE]
      /\ target' = [target EXCEPT ![t] = Null]
      /\ UNCHANGED <<word, next, signaled, force, seen, cur, result, completed>>
  BY OnceFacts DEF Unpark
<1>1. target[t] \in Thread
  BY <1>0 DEF OnceInv, WalkOK, Pointer
<1>2. PICK p \in {"idle", "signal"} :
         /\ pc' = [pc EXCEPT ![t] = p] /\ (p = "signal" <=> cur[t] # Null)
  BY DEF Unpark
<1>3. /\ pc'[t] = p /\ \A u \in Thread : u # t => pc'[u] = pc[u]
      /\ \A u \in Thread : u # t => target'[u] = target[u]
      /\ p \in OncePhase
  BY <1>0, <1>2, OncePhases
<1>4. token'[target[t]] /\ \A u \in Thread : token[u] => token'[u]
  BY <1>0, <1>1
<1>5. token' \in [Thread -> BOOLEAN]
  BY <1>0
<1>6. OnceTypeOK'
  BY <1>0, <1>2, <1>3, <1>5, Words, OnceFacts DEF OnceTypeOK
<1>7. SeenOK' /\ RunnerOK'
  BY <1>0, <1>3 DEF OnceInv, SeenOK, RunnerOK
<1>8. WalkOK'
  BY <1>0, <1>2, <1>3 DEF OnceInv, WalkOK
<1>9. SignaledIsWoken'
  BY <1>0, <1>3, <1>4 DEF OnceInv, SignaledIsWoken
<1>10. Waiting' = Waiting
  BY <1>0, <1>3 DEF Waiting
<1>11. ListsAreWaiting' /\ NoCycle'
  BY <1>0, <1>6, <1>10, SameLists
<1> QED BY <1>7, <1>8, <1>9, <1>11 DEF OnceInv

\* A node is pushed, or the word has changed in the meantime.
LEMMA OnceEnqueueInv == ASSUME OnceInv, NEW t \in Thread, Enqueue(t) PROVE OnceInv'
<1>0. /\ pc \in [Thread -> OncePhase] /\ seen \in [Thread -> OnceWord]
      /\ next \in [Thread -> Pointer] /\ signaled \in [Thread -> BOOLEAN]
      /\ result \in [Thread -> {"none", "done", "failed"}]
      /\ word \in OnceWord /\ word.head \in Pointer /\ NothingSeen \in OnceWord
      /\ pc[t] = "enqueue" /\ force' \in [Thread -> BOOLEAN]
      /\ UNCHANGED <<token, force, cur, target, result, completed>>
  BY OnceFacts DEF Enqueue, OnceTypeOK
<1>1. CASE word # seen[t]
  <2>1. UNCHANGED <<word, next, signaled>>
    BY <1>1 DEF Enqueue
  <2>2. /\ result' = [result EXCEPT ![t] = result[t]]
        /\ result[t] \in {"none", "done", "failed"}
        /\ result[t] = "done" => word.state = "COMPLETE"
    BY <1>0 DEF OnceInv, RunnerOK
  <2>3. CASE word.state = "RUNNING"
    <3>1. seen' = [seen EXCEPT ![t] = word] /\ pc' = [pc EXCEPT ![t] = "enqueue"]
      BY <1>0, <1>1, <2>3 DEF Enqueue
    <3> QED BY <1>0, <2>1, <2>2, <2>3, <3>1, LookInv
  <2>4. CASE word.state # "RUNNING"
    <3>1. seen' = [seen EXCEPT ![t] = NothingSeen] /\ pc' = [pc EXCEPT ![t] = "load"]
      BY <1>0, <1>1, <2>4 DEF Enqueue
    <3> QED BY <1>0, <2>1, <2>2, <3>1, LookInv
  <2> QED BY <2>3, <2>4
<1>2. CASE word = seen[t]
  <2>0. /\ next' = [next EXCEPT ![t] = word.head]
        /\ signaled' = [signaled EXCEPT ![t] = FALSE]
        /\ word' = Word("RUNNING", t)
        /\ pc' = [pc EXCEPT ![t] = "check"]
        /\ seen' = [seen EXCEPT ![t] = NothingSeen]
    BY <1>2 DEF Enqueue
  <2>1. word' \in OnceWord /\ word'.state = "RUNNING" /\ word'.head = t
    BY <2>0, Words
  <2>2. word.state = "RUNNING"
    BY <1>0, <1>2 DEF OnceInv, SeenOK
  <2>3. /\ pc'[t] = "check" /\ \A u \in Thread : u # t => pc'[u] = pc[u]
        /\ \A u \in Thread : u # t => seen'[u] = seen[u]
        /\ ~signaled'[t] /\ \A u \in Thread : u # t => signaled'[u] = signaled[u]
    BY <1>0, <2>0
  <2>4. signaled' \in [Thread -> BOOLEAN]
    BY <1>0, <2>0
  <2>5. OnceTypeOK'
    BY <1>0, <2>0, <2>1, <2>4, OnceFacts, OncePhases DEF OnceTypeOK
  <2>6. SeenOK'
    BY <2>3 DEF OnceInv, SeenOK
  <2>7. RunnerOK'
    BY <1>0, <2>1, <2>2, <2>3 DEF OnceInv, RunnerOK
  <2>8. WalkOK' /\ SignaledIsWoken'
    BY <1>0, <2>3 DEF OnceInv, WalkOK, SignaledIsWoken
  <2>9. t \notin Waiting /\ Waiting' = Waiting \cup {t}
    BY <1>0, <2>3 DEF Waiting
  <2>10. ListsAreWaiting' /\ NoCycle'
    BY <1>0, <2>0, <2>1, <2>5, <2>9, EnqueueLists
  <2> QED BY <2>6, <2>7, <2>8, <2>10 DEF OnceInv
<1> QED BY <1>1, <1>2

\* A waiting thread looks at its flag, sleeps, or is unparked by other code.
LEMMA WaiterInv ==
  ASSUME OnceInv, NEW t \in Thread, Check(t) \/ Park(t) \/ SpuriousUnpark(t)
  PROVE  OnceInv'
<1>0. /\ pc \in [Thread -> OncePhase] /\ token \in [Thread -> BOOLEAN]
      /\ next \in [Thread -> Pointer] /\ pc[t] \in {"check", "park"}
      /\ UNCHANGED <<word, signaled, force, seen, cur, target, result, completed>>
  BY OnceFacts DEF Check, Park, SpuriousUnpark
<1>1. PICK p \in {"check", "park", "load"} :
         /\ pc' = [pc EXCEPT ![t] = p]
         /\ p = "load" => signaled[t]
         /\ p = "park" => ~signaled[t] \/ token'[t]
         /\ p # "load" => next' = next
  BY <1>0 DEF Check, Park, SpuriousUnpark
<1>2. /\ pc'[t] = p /\ \A u \in Thread : u # t => pc'[u] = pc[u]
      /\ p \in OncePhase
  BY <1>0, <1>1, OncePhases
<1>3. token' \in [Thread -> BOOLEAN]
  BY <1>0 DEF Check, Park, SpuriousUnpark
<1>4. \A u \in Thread : u # t => token'[u] = token[u] /\ next'[u] = next[u]
  BY <1>0 DEF Check, Park, SpuriousUnpark
<1>5. next' \in [Thread -> Pointer]
  BY <1>0, Words DEF Check, Park, SpuriousUnpark
<1>6. OnceTypeOK'
  BY <1>0, <1>1, <1>2, <1>3, <1>5, OnceFacts DEF OnceTypeOK
<1>7. SeenOK' /\ RunnerOK' /\ WalkOK'
  BY <1>0, <1>2 DEF OnceInv, SeenOK, RunnerOK, WalkOK
<1>8. SignaledIsWoken'
  BY <1>0, <1>1, <1>2, <1>4 DEF OnceInv, SignaledIsWoken
<1>9. Waiting' = Waiting
  BY <1>0, <1>1, <1>2 DEF Waiting
<1>10. \A v \in Waiting : next'[v] = next[v]
  BY <1>0, <1>1, <1>4 DEF Waiting
<1>11. ListsAreWaiting' /\ NoCycle'
  BY <1>0, <1>6, <1>9, <1>10, SameLists
<1> QED BY <1>7, <1>8, <1>11 DEF OnceInv

\* Every step preserves the invariant.
LEMMA OnceNextInv == OnceInv /\ [OnceNext]_onceVars => OnceInv'
<1> SUFFICES ASSUME OnceInv, [OnceNext]_onceVars PROVE OnceInv'
  OBVIOUS
<1>1. CASE UNCHANGED onceVars
  BY <1>1 DEF onceVars, OnceInv, SeenOK, RunnerOK, WalkOK, ListsAreWaiting,
              OnceTypeOK, NoCycle, Chain, Waiting, SignaledIsWoken
<1>2. ASSUME NEW t \in Thread, NEW f \in BOOLEAN, Call(t, f) PROVE OnceInv'
  BY <1>2, OnceCallInv
<1>3. ASSUME NEW t \in Thread, Load(t) PROVE OnceInv'
  BY <1>3, MatchInv DEF Load
<1>4. ASSUME NEW t \in Thread, NEW st \in {"COMPLETE", "POISONED"}, Finish(t, st)
      PROVE  OnceInv'
  BY <1>4, FinishInv
<1>5. ASSUME NEW t \in Thread,
             \/ Exchange(t) \/ Signal(t) \/ Unpark(t) \/ Enqueue(t)
             \/ Check(t) \/ Park(t) \/ SpuriousUnpark(t)
      PROVE  OnceInv'
  BY <1>5, ExchangeInv, OnceSignalInv, OnceUnparkInv, OnceEnqueueInv, WaiterInv
<1> QED BY <1>1, <1>2, <1>3, <1>4, <1>5 DEF OnceNext, OnceStep

\* The closure runs in one thread at a time, completes at most once, and a
\* call that returns normally finds it completed.
THEOREM OnceInitializes == OnceSpec => []InitializedOnce
<1>1. OnceInv => InitializedOnce
  <2> SUFFICES ASSUME OnceInv PROVE InitializedOnce
    OBVIOUS
  <2> DEFINE R == {t \in Thread : pc[t] = "run"}
  <2>1. Cardinality(R) <= 1
    <3>1. CASE R = {}
      BY <3>1, FS_EmptySet
    <3>2. CASE R # {}
      <4>1. PICK t \in Thread : R = {t}
        BY <3>2 DEF OnceInv, RunnerOK
      <4>2. Cardinality({t}) = 1
        BY FS_Singleton
      <4> QED BY <4>1, <4>2
    <3> QED BY <3>1, <3>2
  <2> QED BY <2>1 DEF OnceInv, RunnerOK, InitializedOnce
<1> QED BY <1>1, OnceInitInv, OnceNextInv, PTL DEF OnceSpec

\* No list has a hole: the nodes that are reached from the word and from the
\* walkers are exactly those that wait to be signaled, each in one list.
THEOREM OnceListsIntact == OnceSpec => []ListsAreWaiting
<1>1. OnceInv => ListsAreWaiting
  BY DEF OnceInv
<1> QED BY <1>1, OnceInitInv, OnceNextInv, PTL DEF OnceSpec

\* No thread parks for good with nobody to unpark it.
THEOREM OnceForgetsNobody == OnceSpec => []ParkedIsWoken
<1>1. OnceInv => ParkedIsWoken
  <2> SUFFICES ASSUME OnceInv, NEW t \in Waiting
               PROVE  \E u \in Thread : pc[u] \in {"run", "signal", "unpark"}
    BY DEF OnceInv, ParkedIsWoken
  <2>1. CASE t \in Reached(next, word.head)
    <3>1. word.head # Null
      BY <2>1, ReachedNull
    <3> QED BY <3>1, OnceFacts DEF OnceInv, RunnerOK
  <2>2. ASSUME NEW u \in Thread, t \in Reached(next, cur[u])
        PROVE  pc[u] \in {"signal", "unpark"}
    <3>1. cur[u] # Null
      BY <2>2, ReachedNull
    <3> QED BY <3>1 DEF OnceInv, WalkOK
  <2> QED BY <2>1, <2>2, ListFacts
<1> QED BY <1>1, OnceInitInv, OnceNextInv, PTL DEF OnceSpec
=============================================================================

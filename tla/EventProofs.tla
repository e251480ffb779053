---------------------------- MODULE EventProofs -----------------------------
(***************************************************************************)
(* Proofs about the steps of the thread events, for any set of threads and *)
(* any bounds: every step of an ocall, and entering one, preserves EvInv.  *)
(* The specifications that use the events build on these lemmas.           *)
(***************************************************************************)
EXTENDS EventSystem, SequenceTheorems, TLAPS

\* What a queue contains, by its first element and the rest.
LEMMA ContainsHeadTail ==
  ASSUME NEW T, NEW s \in Seq(T), s # << >>
  PROVE  \A u : Contains(s, u) <=> (u = Head(s) \/ Contains(Tail(s), u))
  BY DEF Contains

\* The empty queue contains nothing.
LEMMA ContainsEmpty == \A u : ~Contains(<< >>, u)
  BY DEF Contains

\* What a queue contains after push_back.
LEMMA ContainsAppend ==
  ASSUME NEW T, NEW s \in Seq(T), NEW e \in T
  PROVE  /\ \A u : Contains(Append(s, e), u) <=> (Contains(s, u) \/ u = e)
         /\ Append(s, e) \in Seq(T) /\ Append(s, e) # << >>
         /\ s # << >> => Head(Append(s, e)) = Head(s)
<1>1. /\ Append(s, e) \in Seq(T) /\ Append(s, e) # << >>
      /\ Len(Append(s, e)) = Len(s) + 1
      /\ \A i \in 1 .. Len(s) : Append(s, e)[i] = s[i]
      /\ Append(s, e)[Len(s) + 1] = e
  BY AppendProperties
<1>2. ASSUME NEW u PROVE Contains(Append(s, e), u) <=> (Contains(s, u) \/ u = e)
  <2>1. Len(s) \in Nat
    OBVIOUS
  <2>2. 1 .. Len(Append(s, e)) = (1 .. Len(s)) \cup {Len(s) + 1}
    BY <1>1, <2>1
  <2> QED BY <1>1, <2>2 DEF Contains
<1>3. s # << >> => Head(Append(s, e)) = Head(s)
  OBVIOUS
<1> QED BY <1>1, <1>2, <1>3

\* push_back of a thread that is not in the queue keeps it free of duplicates.
LEMMA AppendDistinct ==
  ASSUME NEW T, NEW s \in Seq(T), NEW e \in T, IsInjective(s), ~Contains(s, e)
  PROVE  IsInjective(Append(s, e))
<1>1. /\ DOMAIN s = 1 .. Len(s) /\ DOMAIN Append(s, e) = 1 .. Len(s) + 1
      /\ Len(s) \in Nat
      /\ \A i \in 1 .. Len(s) : Append(s, e)[i] = s[i]
      /\ Append(s, e)[Len(s) + 1] = e
  OBVIOUS
<1> QED BY <1>1 DEF IsInjective, Contains

\* What a queue contains does not depend on its order.
LEMMA ContainsReverse ==
  ASSUME NEW T, NEW s \in Seq(T)
  PROVE  /\ Reverse(s) \in Seq(T)
         /\ s # << >> => Reverse(s) # << >>
         /\ \A u : Contains(s, u) => Contains(Reverse(s), u)
<1>1. /\ Reverse(s) \in Seq(T) /\ Len(Reverse(s)) = Len(s) /\ Len(s) \in Nat
      /\ \A i \in 1 .. Len(s) : Reverse(s)[i] = s[(Len(s) - i) + 1]
  BY DEF Reverse
<1>2. ASSUME NEW u, Contains(s, u) PROVE Contains(Reverse(s), u)
  <2>1. PICK i \in 1 .. Len(s) : s[i] = u
    BY <1>2 DEF Contains
  <2>2. /\ (Len(s) - i) + 1 \in 1 .. Len(s)
        /\ (Len(s) - ((Len(s) - i) + 1)) + 1 = i
    BY <1>1
  <2>3. Reverse(s)[(Len(s) - i) + 1] = u
    BY <1>1, <2>1, <2>2
  <2> QED BY <1>1, <2>2, <2>3 DEF Contains
<1>3. s # << >> => Reverse(s) # << >>
  BY <1>1
<1> QED BY <1>1, <1>2, <1>3

\* position and remove: a queue without duplicates loses just that element.
LEMMA RemoveFromQueue ==
  ASSUME NEW T, NEW s \in Seq(T), IsInjective(s), NEW e \in T
  PROVE  /\ RemoveFirst(s, e) \in Seq(T)
         /\ IsInjective(RemoveFirst(s, e))
         /\ \A u : Contains(RemoveFirst(s, e), u) <=> (Contains(s, u) /\ u # e)
         /\ s # << >> /\ Head(s) # e
              => RemoveFirst(s, e) # << >> /\ Head(RemoveFirst(s, e)) = Head(s)
<1> DEFINE r == RemoveFirst(s, e)
<1>0. Len(s) \in Nat /\ \A i \in 1 .. Len(s) : s[i] \in T
  OBVIOUS
<1>1. CASE ~Contains(s, e)
  BY <1>1 DEF RemoveFirst, Contains
<1>2. ASSUME NEW p \in 1 .. Len(s), s[p] = e
      PROVE  /\ r \in Seq(T) /\ Len(r) = Len(s) - 1
             /\ \A i \in 1 .. Len(s) - 1 : r[i] = IF i < p THEN s[i] ELSE s[i + 1]
  <2>1. {i \in 1 .. Len(s) : s[i] = e} = {p}
    BY <1>2 DEF IsInjective
  <2>2. SelectInSeq(s, LAMBDA v : v = e) = p
    BY <2>1 DEF SelectInSeq, Min
  <2>3. r = RemoveAt(s, p)
    BY <1>2, <2>2 DEF RemoveFirst
  <2> DEFINE a == SubSeq(s, 1, p - 1)
             b == SubSeq(s, p + 1, Len(s))
  <2>4. /\ a \in Seq(T) /\ Len(a) = p - 1
        /\ \A i \in 1 .. p - 1 : a[i] = s[i]
    <3>1. \A i \in 1 .. p - 1 : s[i] \in T
      BY <1>0
    <3>2. /\ a \in Seq(T) /\ Len(a) = IF 1 <= p - 1 THEN p - 1 - 1 + 1 ELSE 0
          /\ \A i \in 1 .. p - 1 - 1 + 1 : a[i] = s[1 + i - 1]
      BY <3>1, SubSeqProperties
    <3> QED BY <3>2
  <2>5. /\ b \in Seq(T) /\ Len(b) = Len(s) - p
        /\ \A i \in 1 .. Len(s) - p : b[i] = s[p + i]
    <3>1. \A i \in p + 1 .. Len(s) : s[i] \in T
      BY <1>0
    <3>2. /\ b \in Seq(T)
          /\ Len(b) = IF p + 1 <= Len(s) THEN Len(s) - (p + 1) + 1 ELSE 0
          /\ \A i \in 1 .. Len(s) - (p + 1) + 1 : b[i] = s[p + 1 + i - 1]
      BY <1>0, <3>1, SubSeqProperties
    <3> QED BY <1>0, <3>2
  <2>6. /\ a \o b \in Seq(T) /\ Len(a \o b) = Len(a) + Len(b)
        /\ \A i \in 1 .. Len(a) + Len(b) :
              (a \o b)[i] = IF i <= Len(a) THEN a[i] ELSE b[i - Len(a)]
    BY <2>4, <2>5, ConcatProperties
  <2>7. r = a \o b
    BY <2>3 DEF RemoveAt
  <2> HIDE DEF a, b, r
  <2>8. ASSUME NEW i \in 1 .. Len(s) - 1
        PROVE  r[i] = IF i < p THEN s[i] ELSE s[i + 1]
    <3>1. CASE i < p
      BY <1>0, <2>4, <2>5, <2>6, <2>7, <3>1
    <3>2. CASE ~(i < p)
      <4>1. i - Len(a) \in 1 .. Len(s) - p /\ p + (i - Len(a)) = i + 1
        BY <1>0, <2>4, <3>2
      <4>2. i \in 1 .. Len(a) + Len(b) /\ ~(i <= Len(a))
        BY <1>0, <2>4, <2>5, <3>2
      <4>3. r[i] = b[i - Len(a)]
        BY <2>6, <2>7, <4>2
      <4>4. b[i - Len(a)] = s[i + 1]
        BY <2>5, <4>1
      <4> QED BY <3>2, <4>3, <4>4
    <3> QED BY <3>1, <3>2
  <2>9. Len(r) = Len(s) - 1
    BY <1>0, <2>4, <2>5, <2>6, <2>7
  <2>10. r \in Seq(T)
    BY <2>6, <2>7
  <2> QED BY <2>8, <2>9, <2>10
<1>3. CASE Contains(s, e)
  <2>1. PICK p \in 1 .. Len(s) : s[p] = e
    BY <1>3 DEF Contains
  <2>2. /\ r \in Seq(T) /\ Len(r) = Len(s) - 1
        /\ \A i \in 1 .. Len(s) - 1 : r[i] = IF i < p THEN s[i] ELSE s[i + 1]
    BY <1>2, <2>1
  <2> HIDE DEF r
  <2>3. \A i \in 1 .. Len(s) : s[i] = e => i = p
    BY <2>1 DEF IsInjective
  <2>4. IsInjective(r)
    <3>1. DOMAIN r = 1 .. Len(s) - 1
      BY <1>0, <2>2
    <3>2. \A i, j \in 1 .. Len(s) : s[i] = s[j] => i = j
      BY DEF IsInjective
    <3>3. ASSUME NEW i \in DOMAIN r, NEW j \in DOMAIN r, r[i] = r[j] PROVE i = j
      BY <1>0, <2>2, <3>1, <3>2, <3>3
    <3> QED BY <3>3 DEF IsInjective
  <2>5. ASSUME NEW u PROVE Contains(r, u) => (Contains(s, u) /\ u # e)
    BY <1>0, <2>2, <2>3 DEF Contains
  <2>6. ASSUME NEW u, Contains(s, u), u # e PROVE Contains(r, u)
    <3>1. PICK i \in 1 .. Len(s) : s[i] = u /\ i # p
      BY <2>1, <2>6 DEF Contains
    <3>2. CASE i < p
      BY <1>0, <2>2, <3>1, <3>2 DEF Contains
    <3>3. CASE i > p
      <4>1. i - 1 \in 1 .. Len(s) - 1 /\ r[i - 1] = u
        BY <1>0, <2>2, <3>1, <3>3
      <4> QED BY <2>2, <4>1 DEF Contains
    <3> QED BY <3>1, <3>2, <3>3
  <2>7. s # << >> /\ Head(s) # e => r # << >> /\ Head(r) = Head(s)
    BY <1>0, <2>1, <2>2
  <2>8. r \in Seq(T) /\ IsInjective(r)
        /\ (\A u : Contains(r, u) <=> (Contains(s, u) /\ u # e))
        /\ (s # << >> /\ Head(s) # e => r # << >> /\ Head(r) = Head(s))
    BY <2>2, <2>4, <2>5, <2>6, <2>7
  <2> QED BY <2>8 DEF r
<1> QED BY <1>1, <1>3

\* The values of the ghost and of the ocall phases, for the provers: the sets
\* stay folded below.
LEMMA Phases ==
  /\ "none" \in OcPhase /\ "dec" \in OcPhase /\ "futex" \in OcPhase
  /\ "asleep" \in OcPhase /\ "cas" \in OcPhase
  /\ "inc" \in OcPhase /\ "wake" \in OcPhase
  /\ "set" \in OcMode /\ "wait" \in OcMode /\ "timed" \in OcMode
  /\ "woken" \in WaitEnd /\ "timeout" \in WaitEnd
  /\ "no" \in Note /\ "yes" \in Note /\ "lost" \in Note
  BY DEF OcPhase, OcMode, WaitEnd, Note

\* The initial words, phases and lists satisfy the invariant.
LEMMA EvInitInv == EvInit => EvInv
  BY Phases DEF EvInit, EvInv, EvTypeOK, WordsAgree, SleeperHasWaker,
         WaitPhase, SetPhase

\* A set that was made and will be noticed is not slept through.
LEMMA EvInvSetSeen == EvInv => NoSetSleptThrough
  BY DEF EvInv, EvTypeOK, WordsAgree, SleeperHasWaker, NoSetSleptThrough,
         WaitPhase

\* Entering u_thread_wait_event_ocall.
LEMMA BeginWaitInv ==
  ASSUME EvInv, NEW t \in Thread, oc[t] = "none",
         NEW m \in {"wait", "timed"}, BeginWait(t, m)
  PROVE  EvInv'
  BY Phases DEF EvInv, EvTypeOK, WordsAgree, SleeperHasWaker, WakerOf,
         WaitPhase, SetPhase, BeginWait

\* Entering one of the ocalls that set events.
LEMMA BeginSetInv ==
  ASSUME EvInv, NEW t \in Thread, oc[t] = "none",
         NEW m \in {"set", "wait", "timed"},
         NEW s \in Seq(Thread), s # << >>, BeginSet(t, s, m)
  PROVE  EvInv'
  BY Phases DEF EvInv, EvTypeOK, WordsAgree, SleeperHasWaker, WakerOf,
         WaitPhase, SetPhase, BeginSet

\* Returning from a wait keeps the types.
LEMMA WaitReturnsType ==
  ASSUME EvTypeOK, NEW t \in Thread, NEW how \in WaitEnd,
         WaitReturns(t, how), ev' \in [Thread -> Int]
  PROVE  EvTypeOK'
  BY Phases DEF EvTypeOK, WaitReturns

\* Returning from a wait keeps the rest of the invariant, if the word does.
LEMMA WaitReturnsInv ==
  ASSUME EvInv, NEW t \in Thread, NEW how \in WaitEnd, WaitReturns(t, how),
         ev' \in [Thread -> Int], oc[t] \in {"dec", "futex", "asleep", "cas"},
         \A u \in Thread : u # t => ev'[u] = ev[u]
  PROVE  EvInv'
<1>1. EvTypeOK'
  BY WaitReturnsType DEF EvInv
<1>2. WordsAgree'
  BY <1>1 DEF EvInv, EvTypeOK, WordsAgree, WaitReturns, WaitPhase, SetPhase
<1>3. SleeperHasWaker'
  BY <1>1 DEF EvInv, EvTypeOK, SleeperHasWaker, WakerOf, WaitReturns
<1> QED BY <1>1, <1>2, <1>3 DEF EvInv

\* The decrement of a wait.
LEMMA DecInv == ASSUME EvInv, NEW t \in Thread, Dec(t) PROVE EvInv'
<1>1. ev' \in [Thread -> Int] /\ \A u \in Thread : u # t => ev'[u] = ev[u]
  BY DEF EvInv, EvTypeOK, Dec
<1>2. CASE ev[t] = 0
  <2>1. /\ oc[t] = "dec"
        /\ ev' = [ev EXCEPT ![t] = -1]
        /\ oc' = [oc EXCEPT ![t] = "futex"]
        /\ UNCHANGED <<todo, mode, ended, note>>
    BY <1>2 DEF Dec, EvInv, EvTypeOK
  <2>2. EvTypeOK'
    BY <1>1, <2>1, Phases DEF EvInv, EvTypeOK
  <2>3. WordsAgree'
    BY <1>2, <2>1, <2>2 DEF EvInv, EvTypeOK, WordsAgree, WaitPhase, SetPhase
  <2>4. SleeperHasWaker'
    BY <1>1, <2>1, <2>2 DEF EvInv, EvTypeOK, SleeperHasWaker, WakerOf
  <2> QED BY <2>2, <2>3, <2>4 DEF EvInv
<1>3. CASE ev[t] # 0
  <2>1. oc[t] = "dec" /\ WaitReturns(t, "woken")
    BY <1>3 DEF Dec
  <2> QED BY <1>1, <2>1, WaitReturnsInv, Phases
<1> QED BY <1>2, <1>3

\* FUTEX_WAIT goes to sleep only on -1.
LEMMA FutexWaitInv == ASSUME EvInv, NEW t \in Thread, FutexWait(t) PROVE EvInv'
<1>1. oc[t] = "futex" /\ ev' = ev /\ ev \in [Thread -> Int]
  BY DEF EvInv, EvTypeOK, FutexWait
<1>2. CASE ev[t] = -1
  <2>1. /\ oc' = [oc EXCEPT ![t] = "asleep"]
        /\ UNCHANGED <<ev, todo, mode, ended, note>>
    BY <1>2 DEF FutexWait
  <2>2. EvTypeOK'
    BY <2>1, Phases DEF EvInv, EvTypeOK
  <2>3. WordsAgree'
    BY <1>1, <1>2, <2>1, <2>2 DEF EvInv, EvTypeOK, WordsAgree, WaitPhase, SetPhase
  <2>4. SleeperHasWaker'
    BY <1>1, <1>2, <2>1, <2>2 DEF EvInv, EvTypeOK, SleeperHasWaker, WakerOf
  <2> QED BY <2>2, <2>3, <2>4 DEF EvInv
<1>3. CASE ev[t] # -1
  <2>1. WaitReturns(t, "woken")
    BY <1>3 DEF FutexWait
  <2> QED BY <1>1, <2>1, WaitReturnsInv, Phases
<1> QED BY <1>2, <1>3

\* A signal handler ends the wait.
LEMMA InterruptInv == ASSUME EvInv, NEW t \in Thread, Interrupt(t) PROVE EvInv'
  BY WaitReturnsInv, Phases DEF Interrupt, EvInv, EvTypeOK

\* The timer ends the wait.
LEMMA TimeoutInv == ASSUME EvInv, NEW t \in Thread, Timeout(t) PROVE EvInv'
<1>1. EvTypeOK'
  BY Phases DEF EvInv, EvTypeOK, Timeout
<1>2. WordsAgree'
  BY <1>1 DEF EvInv, EvTypeOK, WordsAgree, WaitPhase, SetPhase, Timeout
<1>3. SleeperHasWaker'
  BY <1>1 DEF EvInv, EvTypeOK, SleeperHasWaker, WakerOf, Timeout
<1> QED BY <1>1, <1>2, <1>3 DEF EvInv

\* The compare-and-swap that follows a timeout.
LEMMA CasInv == ASSUME EvInv, NEW t \in Thread, Cas(t) PROVE EvInv'
<1>1. /\ oc[t] = "cas" /\ WaitReturns(t, "timeout")
      /\ ev' \in [Thread -> Int] /\ \A u \in Thread : u # t => ev'[u] = ev[u]
  BY DEF Cas, EvInv, EvTypeOK
<1> QED BY <1>1, WaitReturnsInv, Phases

\* The TCS at the head of the list of a thread that is setting events.
LEMMA CurrentTcs ==
  ASSUME EvInv, NEW t \in Thread, oc[t] \in SetPhase
  PROVE  /\ Head(todo[t]) \in Thread
         /\ Tail(todo[t]) \in Seq(Thread)
         /\ todo[t] # << >>
         /\ AfterSet(t) \in OcPhase
         /\ AfterSet(t) \in {"inc", "none", "dec"}
         /\ AfterSet(t) = "inc" <=> Tail(todo[t]) # << >>
  BY Phases DEF EvInv, EvTypeOK, WordsAgree, AfterSet

\* The increment of a set.
LEMMA IncInv == ASSUME EvInv, NEW t \in Thread, Inc(t) PROVE EvInv'
<1> DEFINE u == Head(todo[t])
<1>1. oc[t] = "inc" /\ oc[t] \in SetPhase
  BY DEF Inc, SetPhase
<1>2. /\ u \in Thread /\ Tail(todo[t]) \in Seq(Thread)
      /\ AfterSet(t) \in OcPhase /\ AfterSet(t) \in {"inc", "none", "dec"}
      /\ AfterSet(t) = "inc" <=> Tail(todo[t]) # << >>
      /\ todo[t] # << >>
  BY <1>1, CurrentTcs
<1>3. /\ ev' = [ev EXCEPT ![u] = @ + 1]
      /\ note' = [note EXCEPT ![u] = Notified(u)]
      /\ UNCHANGED <<mode, ended>>
  BY DEF Inc
<1>4. \/ /\ ev[u] = 0 /\ oc' = [oc EXCEPT ![t] = AfterSet(t)]
         /\ todo' = [todo EXCEPT ![t] = Tail(@)]
      \/ /\ ev[u] # 0 /\ oc' = [oc EXCEPT ![t] = "wake"]
         /\ todo' = todo
  BY DEF Inc
<1>5. EvTypeOK'
  <2>1. ev' \in [Thread -> Int] /\ note' \in [Thread -> Note]
    BY <1>2, <1>3, Phases DEF EvInv, EvTypeOK, Notified
  <2>2. oc' \in [Thread -> OcPhase] /\ todo' \in [Thread -> Seq(Thread)]
    BY <1>2, <1>4, Phases DEF EvInv, EvTypeOK
  <2> QED BY <2>1, <2>2, <1>3 DEF EvInv, EvTypeOK
<1>6. WordsAgree'
  <2> SUFFICES ASSUME NEW v \in Thread PROVE WordsAgree!(v)'
    BY DEF WordsAgree
  <2>1. (oc[v] \in SetPhase <=> todo[v] # << >>)'
    BY <1>1, <1>2, <1>4 DEF EvInv, EvTypeOK, WordsAgree, SetPhase
  <2>2. (oc[v] \in WaitPhase <=> oc'[v] \in WaitPhase) /\ WordsAgree!(v)
    BY <1>1, <1>2, <1>4 DEF EvInv, EvTypeOK, WordsAgree, WaitPhase
  <2>3. CASE v = u
    BY <1>2, <1>3, <2>1, <2>2, <2>3 DEF EvInv, EvTypeOK, Notified, InDebt
  <2>4. CASE v # u
    BY <1>2, <1>3, <2>1, <2>2, <2>4 DEF EvInv, EvTypeOK
  <2> QED BY <2>3, <2>4
<1>7. SleeperHasWaker'
  <2> SUFFICES ASSUME NEW v \in Thread, oc'[v] = "asleep", ev'[v] # -1
               PROVE  WakerOf(v)'
    BY DEF SleeperHasWaker
  <2>1. v # t /\ oc[v] = "asleep"
    BY <1>1, <1>2, <1>4 DEF EvInv, EvTypeOK
  <2>2. CASE v = u /\ ev[u] # 0
    BY <1>4, <2>2 DEF WakerOf, EvInv, EvTypeOK
  <2>3. CASE v = u /\ ev[u] = 0
    <3>1. PICK w \in Thread : oc[w] = "wake" /\ Head(todo[w]) = v
      BY <2>1, <2>3 DEF EvInv, SleeperHasWaker, WakerOf
    <3> QED BY <1>1, <1>4, <3>1, <2>3 DEF WakerOf, EvInv, EvTypeOK
  <2>4. CASE v # u
    <3>1. PICK w \in Thread : oc[w] = "wake" /\ Head(todo[w]) = v
      BY <1>3, <2>1, <2>4 DEF EvInv, EvTypeOK, SleeperHasWaker, WakerOf
    <3> QED BY <1>1, <1>4, <3>1 DEF WakerOf, EvInv, EvTypeOK
  <2> QED BY <2>2, <2>3, <2>4
<1> QED BY <1>5, <1>6, <1>7 DEF EvInv

\* FUTEX_WAKE ends the wait of the sleeper.
LEMMA WakeInv == ASSUME EvInv, NEW t \in Thread, Wake(t) PROVE EvInv'
<1> DEFINE u == Head(todo[t])
<1>1. oc[t] = "wake" /\ oc[t] \in SetPhase
  BY DEF Wake, SetPhase
<1>2. /\ u \in Thread /\ Tail(todo[t]) \in Seq(Thread)
      /\ AfterSet(t) \in OcPhase /\ AfterSet(t) \in {"inc", "none", "dec"}
      /\ AfterSet(t) = "inc" <=> Tail(todo[t]) # << >>
      /\ todo[t] # << >>
  BY <1>1, CurrentTcs
<1>3. todo' = [todo EXCEPT ![t] = Tail(@)] /\ UNCHANGED <<ev, ended>>
  BY DEF Wake
<1>4. \/ /\ oc[u] = "asleep" /\ oc' = [oc EXCEPT ![t] = AfterSet(t), ![u] = "none"]
         /\ mode' = [mode EXCEPT ![u] = "set"]
         /\ note' = [note EXCEPT ![u] = "no"]
      \/ /\ oc[u] # "asleep" /\ oc' = [oc EXCEPT ![t] = AfterSet(t)]
         /\ mode' = mode /\ note' = note
  BY DEF Wake
<1>5. EvTypeOK'
  <2>1. oc' \in [Thread -> OcPhase] /\ todo' \in [Thread -> Seq(Thread)]
    BY <1>2, <1>3, <1>4, Phases DEF EvInv, EvTypeOK
  <2>2. mode' \in [Thread -> OcMode] /\ note' \in [Thread -> Note]
    BY <1>2, <1>4, Phases DEF EvInv, EvTypeOK
  <2> QED BY <2>1, <2>2, <1>3 DEF EvInv, EvTypeOK
<1>6. WordsAgree'
  <2> SUFFICES ASSUME NEW v \in Thread PROVE WordsAgree!(v)'
    BY DEF WordsAgree
  <2>0. WordsAgree!(v)
    BY DEF EvInv, WordsAgree
  <2>1. CASE v = t
    <3>1. oc'[t] = AfterSet(t) /\ todo'[t] = Tail(todo[t]) /\ note'[t] = note[t]
      BY <1>1, <1>2, <1>3, <1>4 DEF EvInv, EvTypeOK
    <3> QED BY <1>1, <1>2, <1>3, <2>0, <2>1, <3>1
            DEF EvInv, EvTypeOK, WaitPhase, SetPhase
  <2>2. CASE v # t /\ v = u /\ oc[u] = "asleep"
    BY <1>2, <1>3, <1>4, <2>0, <2>2 DEF EvInv, EvTypeOK, WaitPhase, SetPhase
  <2>3. CASE v # t /\ (v # u \/ oc[u] # "asleep")
    BY <1>2, <1>3, <1>4, <2>0, <2>3 DEF EvInv, EvTypeOK
  <2> QED BY <2>1, <2>2, <2>3
<1>7. SleeperHasWaker'
  <2> SUFFICES ASSUME NEW v \in Thread, oc'[v] = "asleep", ev'[v] # -1
               PROVE  WakerOf(v)'
    BY DEF SleeperHasWaker
  <2>1. v # t /\ v # u /\ oc[v] = "asleep" /\ ev[v] # -1
    BY <1>1, <1>2, <1>3, <1>4 DEF EvInv, EvTypeOK
  <2>2. PICK w \in Thread : oc[w] = "wake" /\ Head(todo[w]) = v
    BY <2>1 DEF EvInv, SleeperHasWaker, WakerOf
  <2>3. w # t /\ oc'[w] = "wake" /\ todo'[w] = todo[w]
    BY <1>2, <1>3, <1>4, <2>1, <2>2 DEF EvInv, EvTypeOK
  <2> QED BY <2>2, <2>3 DEF WakerOf
<1> QED BY <1>5, <1>6, <1>7 DEF EvInv

\* An ocall that fails leaves no set pending and no sleeper behind.
LEMMA OcallFailsInv == ASSUME EvInv, NEW t \in Thread, OcallFails(t) PROVE EvInv'
<1>1. EvTypeOK'
  BY Phases DEF EvInv, EvTypeOK, OcallFails
<1>2. WordsAgree'
  BY <1>1 DEF EvInv, EvTypeOK, WordsAgree, OcallFails, WaitPhase, SetPhase
<1>3. SleeperHasWaker'
  BY <1>1 DEF EvInv, EvTypeOK, SleeperHasWaker, WakerOf, OcallFails
<1> QED BY <1>1, <1>2, <1>3 DEF EvInv

\* All of them.
LEMMA EvStepInv ==
  ASSUME EvInv, NEW t \in Thread, EvStep(t) \/ EvEnvironment(t)
  PROVE  EvInv'
  BY DecInv, FutexWaitInv, InterruptInv, TimeoutInv, CasInv, IncInv, WakeInv,
     OcallFailsInv DEF EvStep, EvEnvironment

\* A thread outside the ocalls is not drawn into one by a step of an ocall.
LEMMA EvStepKeepsOut ==
  ASSUME EvInv, NEW t \in Thread, EvStep(t) \/ EvEnvironment(t),
         NEW u \in Thread, oc[u] = "none"
  PROVE  oc'[u] = "none"
<1>1. t # u /\ oc[t] # "none"
  BY DEF EvStep, EvEnvironment, Dec, FutexWait, Cas, Inc, Wake, Timeout,
         Interrupt, OcallFails
<1>2. oc' = [oc EXCEPT ![t] = oc'[t]] \/ Wake(t)
  BY <1>1 DEF EvStep, EvEnvironment, Dec, FutexWait, Cas, Inc, Timeout,
              Interrupt, OcallFails, WaitReturns, EvInv, EvTypeOK
<1>3. CASE Wake(t)
  BY <1>1, <1>3 DEF Wake, EvInv, EvTypeOK
<1> QED BY <1>1, <1>2, <1>3 DEF EvInv, EvTypeOK

\* A step of an ocall does not take back a call.
LEMMA CalledStable ==
  ASSUME EvInv, NEW t \in Thread, EvStep(t) \/ EvEnvironment(t),
         NEW u \in Thread, Called(u)
  PROVE  Called(u)'
<1>0. oc[u] = "none" => oc'[u] = "none"
  BY EvStepKeepsOut
<1>1. CASE Dec(t) \/ FutexWait(t) \/ Cas(t) \/ Interrupt(t) \/ Timeout(t)
  <2>1. /\ todo' = todo /\ oc[t] \notin SetPhase
        /\ \A v \in Thread : v # t => oc'[v] = oc[v] /\ note'[v] = note[v]
        /\ oc'[t] = "none" \/ note'[t] = note[t]
    BY <1>1 DEF Dec, FutexWait, Cas, Interrupt, Timeout, WaitReturns, SetPhase,
                EvInv, EvTypeOK
  <2>2. SetterOf(u) => SetterOf(u)'
    BY <2>1 DEF SetterOf, SetPhase
  <2> QED BY <1>0, <2>1, <2>2 DEF Called
<1>2. CASE Inc(t)
  <2> DEFINE h == Head(todo[t])
  <2>1. oc[t] = "inc" /\ oc[t] \in SetPhase
    BY <1>2 DEF Inc, SetPhase
  <2>2. /\ h \in Thread /\ todo[t] \in Seq(Thread) /\ todo[t] # << >>
        /\ AfterSet(t) = "inc" <=> Tail(todo[t]) # << >>
    BY <2>1, CurrentTcs DEF EvInv, EvTypeOK
  <2>3. /\ note' = [note EXCEPT ![h] = Notified(h)]
        /\ \/ /\ oc' = [oc EXCEPT ![t] = AfterSet(t)]
              /\ todo' = [todo EXCEPT ![t] = Tail(@)]
           \/ /\ oc' = [oc EXCEPT ![t] = "wake"]
              /\ todo' = todo
    BY <1>2 DEF Inc
  <2>4. u = h => note'[u] # "no"
    BY <2>2, <2>3 DEF Notified, EvInv, EvTypeOK
  <2>5. u # h => note'[u] = note[u]
    BY <2>2, <2>3 DEF EvInv, EvTypeOK
  <2>6. ASSUME SetterOf(u), u # h PROVE SetterOf(u)'
    <3>1. PICK w \in Thread :
             \/ oc[w] = "inc" /\ Contains(todo[w], u)
             \/ oc[w] = "wake" /\ Contains(Tail(todo[w]), u)
      BY <2>6 DEF SetterOf
    <3>2. CASE w # t
      <4>1. oc'[w] = oc[w] /\ todo'[w] = todo[w]
        BY <2>3, <3>2 DEF EvInv, EvTypeOK
      <4> QED BY <3>1, <4>1 DEF SetterOf
    <3>3. CASE w = t
      <4>1. Contains(Tail(todo[t]), u)
        BY <2>1, <2>2, <2>6, <3>1, <3>3, ContainsHeadTail
      <4>2. Tail(todo[t]) # << >>
        BY <4>1, ContainsEmpty
      <4>3. \/ oc'[t] = "inc" /\ todo'[t] = Tail(todo[t])
            \/ oc'[t] = "wake" /\ todo'[t] = todo[t]
        BY <2>2, <2>3, <4>2 DEF EvInv, EvTypeOK
      <4> QED BY <4>1, <4>3 DEF SetterOf
    <3> QED BY <3>2, <3>3
  <2> QED BY <1>0, <2>4, <2>5, <2>6 DEF Called
<1>3. CASE Wake(t)
  <2> DEFINE h == Head(todo[t])
  <2>1. oc[t] = "wake" /\ oc[t] \in SetPhase
    BY <1>3 DEF Wake, SetPhase
  <2>2. /\ h \in Thread /\ todo[t] \in Seq(Thread) /\ todo[t] # << >>
        /\ AfterSet(t) = "inc" <=> Tail(todo[t]) # << >>
    BY <2>1, CurrentTcs DEF EvInv, EvTypeOK
  <2>3. /\ todo' = [todo EXCEPT ![t] = Tail(@)]
        /\ \/ /\ oc[h] = "asleep"
              /\ oc' = [oc EXCEPT ![t] = AfterSet(t), ![h] = "none"]
              /\ note' = [note EXCEPT ![h] = "no"]
           \/ /\ oc[h] # "asleep"
              /\ oc' = [oc EXCEPT ![t] = AfterSet(t)]
              /\ note' = note
    BY <1>3 DEF Wake
  <2>4. oc'[u] = "none" \/ note'[u] = note[u]
    BY <2>2, <2>3 DEF EvInv, EvTypeOK
  <2>5. ASSUME SetterOf(u) PROVE SetterOf(u)'
    <3>1. PICK w \in Thread :
             \/ oc[w] = "inc" /\ Contains(todo[w], u)
             \/ oc[w] = "wake" /\ Contains(Tail(todo[w]), u)
      BY <2>5 DEF SetterOf
    <3>2. CASE w # t
      <4>1. oc'[w] = oc[w] /\ todo'[w] = todo[w]
        BY <2>2, <2>3, <3>1, <3>2 DEF EvInv, EvTypeOK
      <4> QED BY <3>1, <4>1 DEF SetterOf
    <3>3. CASE w = t
      <4>1. Contains(Tail(todo[t]), u) /\ Tail(todo[t]) # << >>
        BY <2>1, <3>1, <3>3, ContainsEmpty
      <4>2. oc'[t] = "inc" /\ todo'[t] = Tail(todo[t])
        BY <2>1, <2>2, <2>3, <4>1 DEF EvInv, EvTypeOK
      <4> QED BY <4>1, <4>2 DEF SetterOf
    <3> QED BY <3>2, <3>3
  <2> QED BY <1>0, <2>4, <2>5 DEF Called
<1>4. CASE OcallFails(t)
  <2>1. /\ oc[t] \in {"dec", "inc"} /\ oc'[t] = "none"
        /\ \A v \in Thread : v # t => oc'[v] = oc[v] /\ todo'[v] = todo[v]
        /\ \A v \in Thread : note'[v] = IF Contains(todo[t], v) THEN "lost" ELSE note[v]
    BY <1>4 DEF OcallFails, EvInv, EvTypeOK
  <2>2. CASE Contains(todo[t], u)
    BY <2>1, <2>2 DEF Called
  <2>3. CASE ~Contains(todo[t], u)
    <3>1. note'[u] = note[u]
      BY <2>1, <2>3
    <3>2. SetterOf(u) => SetterOf(u)'
      BY <2>1, <2>3 DEF SetterOf
    <3> QED BY <1>0, <3>1, <3>2 DEF Called
  <2> QED BY <2>2, <2>3
<1> QED BY <1>1, <1>2, <1>3, <1>4 DEF EvStep, EvEnvironment

\* Entering an ocall does not take back the call of another thread.
LEMMA CalledOther ==
  ASSUME EvInv, NEW t \in Thread, oc[t] = "none",
         NEW u \in Thread, u # t, Called(u),
         \/ UNCHANGED evVars
         \/ \E m \in OcMode : BeginWait(t, m)
         \/ \E m \in OcMode, s \in Seq(Thread) : BeginSet(t, s, m)
  PROVE  Called(u)'
<1>1. /\ \A v \in Thread : v # t => oc'[v] = oc[v] /\ todo'[v] = todo[v]
      /\ note' = note
  BY DEF evVars, BeginWait, BeginSet, EvInv, EvTypeOK
<1> QED BY <1>1 DEF Called, SetterOf

\* An ocall that sets events calls the threads of its list.
LEMMA SetCalls ==
  ASSUME EvInv, NEW t \in Thread, NEW u \in Thread, NEW s, NEW m,
         BeginSet(t, s, m), Contains(s, u)
  PROVE  Called(u)'
<1>1. oc'[t] = "inc" /\ todo'[t] = s
  BY DEF BeginSet, EvInv, EvTypeOK
<1> QED BY <1>1 DEF Called, SetterOf

\* A called thread that is asleep has a setter or a waker on the way, unless
\* a set was lost.
LEMMA CalledIsWoken ==
  ASSUME EvInv, NEW u \in Thread, Called(u), oc[u] = "asleep"
  PROVE  SetterOf(u) \/ WakerOf(u) \/ note[u] = "lost"
  BY EvInvSetSeen DEF Called, NoSetSleptThrough, EvInv, EvTypeOK, Note

\* Nothing changes.
LEMMA EvStutterInv == ASSUME EvInv, UNCHANGED evVars PROVE EvInv'
  BY DEF EvInv, EvTypeOK, WordsAgree, SleeperHasWaker, WakerOf, evVars

-----------------------------------------------------------------------------
(***************************************************************************)
(* The specification of module EventSystem: the invariants hold whatever   *)
(* ocalls the enclave makes.                                               *)
(***************************************************************************)

\* Every call of an event ocall and every step of one preserves EvInv.
LEMMA EvNextInv == EvInv /\ [EvNext]_evVars => EvInv'
<1> SUFFICES ASSUME EvInv, [EvNext]_evVars PROVE EvInv'
  OBVIOUS
<1>1. ASSUME NEW t \in Thread, CallWaitEvent(t) PROVE EvInv'
  BY <1>1, BeginWaitInv DEF CallWaitEvent
<1>2. ASSUME NEW t \in Thread, CallSetEvents(t) PROVE EvInv'
  <2>1. PICK s \in SetLists : BeginSet(t, s, "set")
    BY <1>2 DEF CallSetEvents
  <2>2. oc[t] = "none" /\ s \in Seq(Thread) /\ s # << >>
    BY <1>2, SetListsAssumption DEF CallSetEvents
  <2> QED BY <2>1, <2>2, BeginSetInv
<1>3. ASSUME NEW t \in Thread, CallSetWait(t) PROVE EvInv'
  <2>1. PICK u \in Thread, m \in {"wait", "timed"} : BeginSet(t, <<u>>, m)
    BY <1>3 DEF CallSetWait
  <2>2. oc[t] = "none" /\ <<u>> \in Seq(Thread) /\ <<u>> # << >>
    BY <1>3 DEF CallSetWait
  <2> QED BY <2>1, <2>2, BeginSetInv
<1>4. ASSUME NEW t \in Thread, EvStep(t) \/ EvEnvironment(t) PROVE EvInv'
  BY <1>4, EvStepInv
<1>5. CASE UNCHANGED evVars
  BY <1>5, EvStutterInv
<1>6. ASSUME NEW t \in Thread, CallSetEvent(t) PROVE EvInv'
  <2>1. PICK u \in Thread : BeginSet(t, <<u>>, "set")
    BY <1>6 DEF CallSetEvent
  <2>2. oc[t] = "none" /\ <<u>> \in Seq(Thread) /\ <<u>> # << >>
    BY <1>6 DEF CallSetEvent
  <2> QED BY <2>1, <2>2, BeginSetInv
<1> QED BY <1>1, <1>2, <1>3, <1>4, <1>5, <1>6 DEF EvNext

\* Type correctness and the two invariants: a sleeper whose word was moved off
\* -1 has a waker, and no set that counts is slept through.
THEOREM EventsSafe == EvSpec => [](EvTypeOK /\ WordsAgree /\ SleeperHasWaker)
<1>1. EvInit => EvInv
  BY EvInitInv
<1>2. EvInv => EvTypeOK /\ WordsAgree /\ SleeperHasWaker
  BY DEF EvInv
<1> QED BY <1>1, <1>2, EvNextInv, PTL DEF EvSpec

\* The words and the ghost agree: a thread inside FUTEX_WAIT has a word of at
\* least -1, and a set that will be noticed has left its token in the word.
THEOREM EventWords == EvSpec => []WordsAgree
<1>1. EvInit => EvInv
  BY EvInitInv
<1>2. EvInv => WordsAgree
  BY DEF EvInv
<1> QED BY <1>1, <1>2, EvNextInv, PTL DEF EvSpec

\* se_event_wake before or during se_event_wait is not slept through.
THEOREM SetsAreSeen == EvSpec => []NoSetSleptThrough
<1>1. EvInit => EvInv
  BY EvInitInv
<1> QED BY <1>1, EvInvSetSeen, EvNextInv, PTL DEF EvSpec
=============================================================================

--------------------------- MODULE OneshotProofs ----------------------------
(***************************************************************************)
(* The parker's state machine is consistent and no unpark is lost, for any *)
(* number of unparking threads.  The oneshot channel never reaches an      *)
(* unreachable! or a failing unwrap and keeps its message, for any number  *)
(* of threads that unpark the receiver and any number of tokens; and it    *)
(* uses the parker as Parker says.                                         *)
(***************************************************************************)
EXTENDS Oneshot, TLAPS

-----------------------------------------------------------------------------
(***************************************************************************)
(* The parker.                                                             *)
(***************************************************************************)

\* Nobody is parked at first.
LEMMA PkInitInv == PkInit => PkInv
  BY ParkerThreads DEF PkInit, PkInv, PkTypeOK, ParkState, ParkPhase, UpPhase,
     NeverInconsistent, UnparkNotLost

\* The calls and steps of the owner.
LEMMA OwnerInv ==
  ASSUME PkInv, OwnerStep \/ \E m \in {"park", "park_timeout"} : Park(m)
  PROVE  PkInv'
<1> USE ParkerThreads DEF PkInv, PkTypeOK, ParkState, ParkPhase, UpPhase,
      NeverInconsistent, UnparkNotLost
<1>1. ASSUME NEW m \in {"park", "park_timeout"}, Park(m) PROVE PkInv'
  BY <1>1 DEF Park
<1>2. CASE OwnerLock
  BY <1>2 DEF OwnerLock
<1>3. CASE Prepare
  BY <1>3 DEF Prepare
<1>4. CASE Consume
  BY <1>4 DEF Consume
<1>5. CASE Wait
  BY <1>5 DEF Wait
<1>6. CASE WaitOver
  BY <1>6 DEF WaitOver
<1>7. CASE Check
  BY <1>7 DEF Check
<1>8. CASE Return
  BY <1>8 DEF Return
<1> QED BY <1>1, <1>2, <1>3, <1>4, <1>5, <1>6, <1>7, <1>8 DEF OwnerStep

\* The calls and steps of an unparking thread.
LEMMA UnparkInv ==
  ASSUME PkInv, NEW u \in Unparker, Unpark(u) \/ UnparkStep(u)
  PROVE  PkInv'
<1> USE ParkerThreads DEF PkInv, PkTypeOK, ParkState, ParkPhase, UpPhase,
      NeverInconsistent, UnparkNotLost
<1>1. CASE Unpark(u)
  BY <1>1 DEF Unpark
<1>2. CASE UnparkLock(u)
  BY <1>2 DEF UnparkLock
<1>3. CASE UnparkUnlock(u)
  BY <1>3 DEF UnparkUnlock
<1>4. CASE Notify(u)
  BY <1>4 DEF Notify
<1> QED BY <1>1, <1>2, <1>3, <1>4 DEF UnparkStep

\* Every step preserves the invariant.
LEMMA PkNextInv == PkInv /\ [PkNext]_parkVars => PkInv'
<1> SUFFICES ASSUME PkInv, [PkNext]_parkVars PROVE PkInv'
  OBVIOUS
<1>1. CASE UNCHANGED parkVars
  BY <1>1 DEF parkVars, PkInv, PkTypeOK, NeverInconsistent, UnparkNotLost
<1> QED BY <1>1, OwnerInv, UnparkInv DEF PkNext

\* None of the panics of park, park_timeout and unpark is reachable.
THEOREM ParkerConsistent == PkSpec => []NeverInconsistent
<1>1. PkInv => NeverInconsistent
  BY DEF PkInv
<1> QED BY <1>1, PkInitInv, PkNextInv, PTL DEF PkSpec

\* An unpark between the owner's decision to sleep and its sleep is not lost.
THEOREM ParkerWakes == PkSpec => []UnparkNotLost
<1>1. PkInv => UnparkNotLost
  BY DEF PkInv
<1> QED BY <1>1, PkInitInv, PkNextInv, PTL DEF PkSpec

-----------------------------------------------------------------------------
(***************************************************************************)
(* The oneshot channel.                                                    *)
(***************************************************************************)

\* The initial packet is empty.
LEMMA OsInitInv == OsInit => OsInv
  BY OneshotThreads DEF OsInit, OsInv, OsTypeOK, TokenOwned, DisconnectedBy, SlotAgrees,
     NeverUnreachable, MessageKept, Signalling, Waiting, SenderOn, Blocked

\* The calls and steps of the sending half.
LEMMA SenderInv ==
  ASSUME OsInv,
         \/ Send \/ SendSwap \/ SendUndo \/ UpgradeSwap \/ DropChan
         \/ Signal \/ SignalUnpark
         \/ \E how \in {"second_send", "clone"} : Upgrade(how)
  PROVE  OsInv'
<1> USE OneshotThreads DEF OsInv, OsTypeOK, TokenOwned, DisconnectedBy, SlotAgrees,
      NeverUnreachable, MessageKept, Signalling, Waiting, SenderOn, Blocked
<1>1. CASE Send
  BY <1>1 DEF Send
<1>2. CASE SendSwap
  BY <1>2 DEF SendSwap, TakeToken
<1>3. CASE SendUndo
  BY <1>3 DEF SendUndo
<1>4. CASE UpgradeSwap
  BY <1>4 DEF UpgradeSwap, TakeToken
<1>5. CASE DropChan
  BY <1>5 DEF DropChan, TakeToken
<1>6. CASE Signal
  BY <1>6 DEF Signal
<1>7. CASE SignalUnpark
  BY <1>7 DEF SignalUnpark
<1>8. ASSUME NEW how \in {"second_send", "clone"}, Upgrade(how) PROVE OsInv'
  BY <1>8 DEF Upgrade
<1> QED BY <1>1, <1>2, <1>3, <1>4, <1>5, <1>6, <1>7, <1>8

\* The calls and steps of the receiving half.
LEMMA ReceiverInv ==
  ASSUME OsInv,
         \/ Block \/ Woken \/ TimedOut \/ Abort \/ AbortCas \/ TryRecv
         \/ Reset \/ Take \/ DropPort
         \/ \E c \in {"try_recv", "recv", "recv_deadline"} : Recv(c)
  PROVE  OsInv'
<1> USE OneshotThreads DEF OsInv, OsTypeOK, TokenOwned, DisconnectedBy, SlotAgrees,
      NeverUnreachable, MessageKept, Signalling, Waiting, SenderOn, Blocked
<1>1. CASE Block
  BY <1>1 DEF Block
<1>2. CASE Woken
  BY <1>2 DEF Woken
<1>3. CASE TimedOut
  BY <1>3 DEF TimedOut
<1>4. CASE Abort
  BY <1>4 DEF Abort, Aborted
<1>5. CASE AbortCas
  BY <1>5 DEF AbortCas, Aborted
<1>6. CASE TryRecv
  <2>1. data' \in BOOLEAN
    <3>1. data' = data \/ data' = FALSE
      BY <1>6, Zenon DEF TryRecv
    <3>2. data \in BOOLEAN
      OBVIOUS
    <3> QED BY <3>1, <3>2, Zenon
  <2> QED BY <1>6, <2>1 DEF TryRecv
<1>7. CASE Reset
  BY <1>7 DEF Reset
<1>8. CASE Take
  <2>1. data' \in BOOLEAN
    <3>1. data' = data \/ data' = FALSE
      BY <1>8, Zenon DEF Take
    <3>2. data \in BOOLEAN
      OBVIOUS
    <3> QED BY <3>1, <3>2, Zenon
  <2> QED BY <1>8, <2>1 DEF Take
<1>9. CASE DropPort
  <2>1. data' \in BOOLEAN
    <3>1. data' = data \/ data' = FALSE
      BY <1>9, Zenon DEF DropPort
    <3>2. data \in BOOLEAN
      OBVIOUS
    <3> QED BY <3>1, <3>2, Zenon
  <2> QED BY <1>9, <2>1 DEF DropPort
<1>10. ASSUME NEW c \in {"try_recv", "recv", "recv_deadline"}, Recv(c) PROVE OsInv'
  BY <1>10 DEF Recv
<1> QED BY <1>1, <1>2, <1>3, <1>4, <1>5, <1>6, <1>7, <1>8, <1>9, <1>10

\* A token that was handed to the shared packet is not in the word.
LEMMA HeirInv == ASSUME OsInv, HeirSignals PROVE OsInv'
  BY OneshotThreads DEF HeirSignals, OsInv, OsTypeOK, TokenOwned, DisconnectedBy,
     SlotAgrees, NeverUnreachable, MessageKept, Signalling, Waiting, SenderOn, Blocked

\* The invariant is about the channel's own state only.
LEMMA OsFrame == ASSUME OsInv, UNCHANGED chanVars PROVE OsInv'
  BY DEF chanVars, OsInv, OsTypeOK, TokenOwned, DisconnectedBy,
     SlotAgrees, NeverUnreachable, MessageKept, Signalling, Waiting, SenderOn, Blocked

\* Every step preserves the invariant.
LEMMA OsNextInv == OsInv /\ [OsNext]_osVars => OsInv'
<1> SUFFICES ASSUME OsInv, [OsNext]_osVars PROVE OsInv'
  OBVIOUS
<1>1. CASE UNCHANGED osVars
  BY <1>1, OsFrame DEF osVars
<1>2. CASE WaitPark \/ ParkerStep \/ OtherPark \/ OtherUnpark
  BY <1>2, OsFrame DEF WaitPark, ParkerStep, OtherPark, OtherUnpark
<1> QED
  BY <1>1, <1>2, SenderInv, ReceiverInv, HeirInv DEF OsNext, SenderStep, ReceiverStep

\* No unreachable!, unwrap or assertion of the packet is hit.
THEOREM OneshotReachesNoPanic == OsSpec => []NeverUnreachable
<1>1. OsInv => NeverUnreachable
  BY DEF OsInv
<1> QED BY <1>1, OsInitInv, OsNextInv, PTL DEF OsSpec

\* An accepted message is neither lost nor overtaken by the disconnection.
THEOREM OneshotKeepsMessage == OsSpec => []MessageKept
<1>1. OsInv => MessageKept
  BY DEF OsInv
<1> QED BY <1>1, OsInitInv, OsNextInv, PTL DEF OsSpec

\* What the channel does to the parker are calls of park and unpark and
\* their steps.
LEMMA OsUsesParker == [OsNext]_osVars => [PkNext]_parkVars
<1> SUFFICES ASSUME [OsNext]_osVars PROVE [PkNext]_parkVars
  OBVIOUS
<1>1. CASE UNCHANGED osVars
  BY <1>1 DEF osVars
<1>2. CASE SignalUnpark
  BY <1>2, OneshotThreads DEF SignalUnpark, PkNext
<1>3. CASE WaitPark
  BY <1>3 DEF WaitPark, PkNext
<1>4. CASE ParkerStep \/ OtherPark
  BY <1>4 DEF ParkerStep, OtherPark, PkNext
<1>5. CASE OtherUnpark \/ HeirSignals
  BY <1>5 DEF OtherUnpark, HeirSignals, PkNext
<1> QED BY <1>1, <1>2, <1>3, <1>4, <1>5 DEF OsNext, SenderStep, ReceiverStep

\* Under the channel, the panics of the parker are unreachable and no unpark
\* falls into the gap before the wait.
THEOREM OneshotParks == OsSpec => [](NeverInconsistent /\ UnparkNotLost)
<1>1. PkInv => NeverInconsistent /\ UnparkNotLost
  BY DEF PkInv
<1>2. OsInit => PkInv
  BY PkInitInv DEF OsInit
<1>3. PkInv /\ [OsNext]_osVars => PkInv'
  BY PkNextInv, OsUsesParker
<1> QED BY <1>1, <1>2, <1>3, PTL DEF OsSpec
=============================================================================

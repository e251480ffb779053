---------------------------- MODULE SignalProofs ----------------------------
(***************************************************************************)
(* The safety properties of the signal manager and the dispatcher for any  *)
(* threads, signals, actions and bounds, and any depth of handlers that    *)
(* interrupt each other.                                                   *)
(*                                                                         *)
(* The masks: every frame of a thread's stack is given the mask inside and *)
(* the one on the host that will be in force when it is on top again.      *)
(* They are in step for the thread's own frame, up to what its current     *)
(* call has still to do and unless the thread is askew.  A handler that    *)
(* returns leaves both masks as it found them, whatever sa_mask it had.    *)
(* Only when every running handler below had the same sa_mask on both      *)
(* sides is nothing blocked inside that is not blocked on the host, so     *)
(* that no signal gets through to be refused.                              *)
(*                                                                         *)
(* The table: only the holder of signal_action_lock turns a slot on, so a  *)
(* slot that set_action_impl did not find is not overwritten in between.   *)
(***************************************************************************)
EXTENDS SgxSignal, SequenceTheorems, TLAPS

-----------------------------------------------------------------------------
(***************************************************************************)
(* The inductive invariant behind these properties.                        *)
(***************************************************************************)
RegPc == {"reg_lock", "reg_insert", "reg_restore"}
MaskPc == {"mask_out", "mask_ret"}
OwnPc == {"user", "mask_out", "mask_ret", "set", "use", "unlock", "act_out",
          "reg_lock", "reg_insert", "reg_restore", "act_sys", "act_ret",
          "raise_out", "dead"}
HandlerPc == {"eid_lock", "eid_get", "ecall", "handler", "reset", "user",
              "raise_out", "sigreturn", "dead"}
Lobby == {"eid_lock", "eid_get", "ecall", "sigreturn"}  \* of a handler

Inside == Blockable(Sig)    \* what can be blocked inside

ActType == [mask : SUBSET Sig, reset : BOOLEAN]

SlotType == [on : BOOLEAN, mask : SUBSET Sig, acts : SUBSET Nat]

FrameType ==
    [sig : Sig \cup {NoSig}, pc : OwnPc \cup HandlerPc,
     op : {"none", "register", "sigaction"}, about : Sig \cup {NoSig},
     act : ActType, how : {"BLOCK", "UNBLOCK", "SETMASK"}, mask : SUBSET Sig,
     next : {"user", "set", "unlock"}, exist : BOOLEAN, found : BOOLEAN,
     old : SUBSET Sig, saved : SUBSET Sig, keep : SUBSET Inside, slot : SlotType]

SignalId == [signal : Sig, action : Nat]

SgTypeOK ==
    /\ slots \in [Sig -> SlotType] /\ resetSet \subseteq Sig
    /\ counter \in Nat /\ poisoned \in BOOLEAN
    /\ actionLock \in Thread \cup {NoThread}
    /\ inner \in [Thread -> SUBSET Inside] /\ host \in [Thread -> SUBSET Sig]
    /\ pending \in [Thread -> SUBSET Sig]
    /\ disp \in [Sig -> [on : BOOLEAN, mask : SUBSET Sig, reset : BOOLEAN]]
    /\ table \subseteq Sig /\ dispLock \in Thread \cup {NoThread}
    /\ stack \in [Thread -> Seq(FrameType)]
    /\ calls \in Nat /\ raised \in Nat /\ alive \in BOOLEAN
    /\ returned \subseteq SignalId /\ gone \subseteq SignalId
    /\ askew \subseteq Thread

\* The thread's own frame is at the bottom, handlers are above it.  A frame
\* that was interrupted is not registering, and when it is in the enclave then
\* the handlers above it are not.
StackOK(st) ==
    /\ Len(st) >= 1
    /\ st[1].pc \in OwnPc
    /\ \A n \in 2 .. Len(st) : st[n].pc \in HandlerPc /\ st[n].sig \in Sig
    /\ \A n \in 1 .. Len(st) - 1 : st[n].pc \notin RegPc
    /\ \A n, k \in 1 .. Len(st) : n < k => st[n].pc \in Outside \/ st[k].pc \in Lobby

\* The thread when its masks are askew: in askew, or else nothing.
Askew(t) == askew \cap {t}

\* The masks of frame n ought to be in step: neither the thread's own calls,
\* nor the handlers up to n have left them otherwise.
Sound(st, a, n) == a = {} /\ \A k \in 2 .. n : Faithful(st[k])

\* The host's mask when frame n is on top, now or again.
HostAt(st, h, n) == IF n = Len(st) THEN h ELSE st[n + 1].saved

\* The masks i inside and h on the host when the thread's own frame f is on
\* top: in step unless askew, but for what the call of f has still to do.
OwnMasks(f, i, h, a) ==
    /\ f.pc = "mask_out" => i \cap ToUnblock(f.how, f.mask) = {}
    /\ f.pc = "mask_out" /\ a = {} => i = Blockable(h) \ ToUnblock(f.how, f.mask)
    /\ f.pc = "mask_ret" /\ a = {} => i \cup Blockable(ToBlock(f.how, f.mask)) = Blockable(h)
    /\ f.pc \in RegPc => h = Sig
    /\ f.pc \in RegPc /\ a = {} => i = Blockable(f.old)
    /\ f.pc \notin MaskPc \cup RegPc \cup {"dead"} /\ a = {} => i = Blockable(h)

\* The same for a handler's frame: what it interrupts and its sa_mask are
\* blocked on the host, and when the masks below it are sound then its signal
\* is not blocked inside until it was passed in.
HandlerMasks(f, h) == f.saved \cup f.act.mask \subseteq h
Unblocked(f, i) == f.pc \in {"eid_lock", "eid_get", "ecall"} => f.sig \notin i

\* The masks of what the top frame of t interrupts ought to be in step.
Below(t) == Sound(stack[t], Askew(t), Len(stack[t]) - 1)

\* I[n] is the mask inside when frame n is on top, now or again: what the
\* handler above it kept, or what it still is.
InnerAt(st, i, I) ==
    /\ I[Len(st)] = i
    /\ \A n \in 1 .. Len(st) - 1 :
          I[n] = IF Running(st[n + 1]) THEN st[n + 1].keep ELSE I[n + 1]

MasksOK(st, i, h, a) ==
    \E I \in [1 .. Len(st) -> SUBSET Inside] :
        /\ InnerAt(st, i, I)
        /\ \A n \in 1 .. Len(st) : Sound(st, a, n) => I[n] \subseteq HostAt(st, h, n)
        /\ OwnMasks(st[1], I[1], HostAt(st, h, 1), a)
        /\ \A n \in 2 .. Len(st) :
              /\ HandlerMasks(st[n], HostAt(st, h, n))
              /\ Sound(st, a, n - 1) => Unblocked(st[n], I[n])

ThreadsOK ==
    \A t \in Thread :
        StackOK(stack[t]) /\ MasksOK(stack[t], inner[t], host[t], Askew(t))

\* Frame f of a thread is in a call of register or rsgx_sigaction, before the
\* action is in the table or at any time under signal_action_lock.
Looking(f) == f.pc \in {"set", "use"} \/ (f.pc \in MaskPc /\ f.next = "set")
Critical(f) == Looking(f) \/ f.pc = "unlock" \/ (f.pc \in MaskPc /\ f.next = "unlock")
Idle(f) == f.pc \in {"user", "raise_out"} \/ (f.pc \in MaskPc /\ f.next = "user")

\* signal_action_lock is held throughout, unless the thread has panicked in
\* a handler that interrupted it.
LockOK ==
    \A t \in Thread : Critical(stack[t][1]) /\ ~At(t, "dead") => actionLock = t

Kept(id) ==
    id \in gone \/ (slots[id.signal].on /\ id.action \in slots[id.signal].acts)

\* The action that a call has put in the table is kept before its id is
\* returned, and a slot that was not found is still not there when it is used.
CallOK(f) ==
    /\ \A a \in f.slot.acts : Kept([signal |-> f.about, action |-> a])
    /\ Looking(f) \/ Idle(f) => f.slot.acts = {}
    /\ ~Idle(f) => f.about \in Sig
    /\ f.pc = "use" /\ ~f.found => ~slots[f.about].on

CallsOK == \A t \in Thread : CallOK(stack[t][1])

SgInv ==
    /\ SgTypeOK
    /\ ThreadsOK
    /\ LockOK
    /\ CallsOK
    /\ RegistrationKept

-----------------------------------------------------------------------------
(***************************************************************************)
(* Frames and stacks.                                                      *)
(***************************************************************************)

\* A fresh frame.
LEMMA FrameNew ==
  ASSUME NEW s \in Sig \cup {NoSig}, NEW at \in OwnPc \cup HandlerPc
  PROVE  /\ Frame(s, at) \in FrameType
         /\ Frame(s, at).sig = s /\ Frame(s, at).pc = at
         /\ Frame(s, at).slot = NoSlot /\ Frame(s, at).slot.acts = {}
         /\ Frame(s, at).op = "none"
  BY DEF Frame, FrameType, SlotType, NoSlot, ActType, NoAct

\* A frame that goes on.
LEMMA FrameGoto ==
  ASSUME NEW f \in FrameType, NEW p \in OwnPc \cup HandlerPc
  PROVE  LET g == [f EXCEPT !.pc = p]
         IN  /\ g \in FrameType /\ g.pc = p
             /\ g.sig = f.sig /\ g.op = f.op /\ g.about = f.about
             /\ g.act = f.act /\ g.how = f.how /\ g.mask = f.mask /\ g.next = f.next
             /\ g.exist = f.exist /\ g.found = f.found /\ g.old = f.old
             /\ g.saved = f.saved /\ g.keep = f.keep /\ g.slot = f.slot
  BY DEF FrameType

\* The length of a stack.
LEMMA StackLen ==
  ASSUME NEW st \in Seq(FrameType), StackOK(st)
  PROVE  Len(st) \in Nat /\ Len(st) >= 1 /\ (Len(st) # 1 => Len(st) > 1)
<1>1. Len(st) >= 1
  BY DEF StackOK
<1>2. Len(st) \in Nat
  OBVIOUS
<1> QED BY <1>1, <1>2

\* Types of the top frame.
LEMMA TopFacts ==
  ASSUME SgTypeOK, ThreadsOK, NEW t \in Thread
  PROVE  /\ stack[t] \in Seq(FrameType) /\ Len(stack[t]) \in Nat \ {0}
         /\ Top(t) = stack[t][Len(stack[t])] /\ Top(t) \in FrameType
         /\ stack[t][1] \in FrameType
         /\ Len(stack[t]) = 1 => Top(t) = stack[t][1]
         /\ Top(t).pc \notin HandlerPc => Len(stack[t]) = 1
         /\ Top(t).pc \notin OwnPc => Len(stack[t]) # 1
         /\ Len(stack[t]) # 1 => Top(t).pc \in HandlerPc /\ Top(t).sig \in Sig
         /\ Len(stack[t]) = 1 => Top(t).pc \in OwnPc
<1>1. stack[t] \in Seq(FrameType) /\ StackOK(stack[t])
  BY DEF SgTypeOK, ThreadsOK
<1>2. Len(stack[t]) \in Nat \ {0}
  BY <1>1 DEF StackOK
<1>3. Top(t) = stack[t][Len(stack[t])]
  BY <1>1, <1>2 DEF Top, Last
<1>4. Top(t) \in FrameType /\ stack[t][1] \in FrameType
  BY <1>1, <1>2, <1>3
<1>5. Len(stack[t]) # 1 => Top(t).pc \in HandlerPc /\ Top(t).sig \in Sig
  <2>1. PICK m \in Nat \ {0} : m = Len(stack[t])
    BY <1>2
  <2>2. m # 1 => m \in 2 .. m
    OBVIOUS
  <2> QED BY <1>1, <1>3, <2>1, <2>2 DEF StackOK
<1>6. Len(stack[t]) = 1 => Top(t).pc \in OwnPc
  BY <1>1, <1>3 DEF StackOK
<1> QED BY <1>1, <1>2, <1>3, <1>4, <1>5, <1>6

\* What a change of the top frame leaves alone.
LEMMA SetTopFacts ==
  ASSUME SgTypeOK, ThreadsOK, NEW t \in Thread, NEW g \in FrameType, SetTop(t, g)
  PROVE  /\ stack' \in [Thread -> Seq(FrameType)]
         /\ Len(stack'[t]) = Len(stack[t])
         /\ stack'[t][Len(stack[t])] = g /\ Top(t)' = g
         /\ \A n \in 1 .. Len(stack[t]) - 1 : stack'[t][n] = stack[t][n]
         /\ \A u \in Thread : u # t => stack'[u] = stack[u]
         /\ Len(stack[t]) = 1 => stack'[t][1] = g
         /\ Len(stack[t]) # 1 => stack'[t][1] = stack[t][1]
<1>1. stack \in [Thread -> Seq(FrameType)] /\ Len(stack[t]) \in Nat \ {0}
  BY TopFacts DEF SgTypeOK
<1>2. stack' = [stack EXCEPT ![t] = [stack[t] EXCEPT ![Len(stack[t])] = g]]
  BY DEF SetTop
<1>3. [stack[t] EXCEPT ![Len(stack[t])] = g] \in Seq(FrameType)
  BY <1>1
<1>4. stack'[t] = [stack[t] EXCEPT ![Len(stack[t])] = g]
      /\ \A u \in Thread : u # t => stack'[u] = stack[u]
  BY <1>1, <1>2
<1>5. /\ Len(stack'[t]) = Len(stack[t]) /\ stack'[t][Len(stack[t])] = g
      /\ \A n \in 1 .. Len(stack[t]) - 1 : stack'[t][n] = stack[t][n]
  BY <1>1, <1>4
<1>6. stack' \in [Thread -> Seq(FrameType)]
  BY <1>1, <1>2, <1>3
<1> QED BY <1>1, <1>4, <1>5, <1>6 DEF Top, Last

\* The masks of the thread's own frame, and of the top one.
LEMMA SoundOwn ==
  ASSUME NEW st, NEW a
  PROVE  Sound(st, a, 1) <=> a = {}
  BY DEF Sound

LEMMA SoundUp ==
  ASSUME NEW st, NEW a, NEW m \in Nat, m >= 1
  PROVE  Sound(st, a, m + 1) <=> Sound(st, a, m) /\ Faithful(st[m + 1])
<1>1. 2 .. m + 1 = (2 .. m) \cup {m + 1}
  OBVIOUS
<1> QED BY <1>1 DEF Sound

\* Two stacks with the same frames up to n.
LEMMA SoundSame ==
  ASSUME NEW st, NEW nt, NEW a, NEW n \in Nat,
         \A k \in 1 .. n : nt[k] = st[k]
  PROVE  Sound(nt, a, n) <=> Sound(st, a, n)
  BY DEF Sound, Faithful, Running

\* A thread that runs no handler.
LEMMA OwnFrameOnly ==
  ASSUME NEW st \in Seq(FrameType), Len(st) = 1,
         NEW i \in SUBSET Inside, NEW h \in SUBSET Sig, NEW a
  PROVE  StackOK(st) /\ MasksOK(st, i, h, a)
           <=> st[1].pc \in OwnPc /\ (a = {} => i \subseteq h) /\ OwnMasks(st[1], i, h, a)
<1>1. StackOK(st) <=> st[1].pc \in OwnPc
  <2>1. \A n, k \in 1 .. 1 : ~(n < k)
    OBVIOUS
  <2> QED BY <2>1 DEF StackOK
<1>2. HostAt(st, h, 1) = h
  BY DEF HostAt
<1>3. MasksOK(st, i, h, a) => (a = {} => i \subseteq h) /\ OwnMasks(st[1], i, h, a)
  BY <1>2, SoundOwn DEF MasksOK, InnerAt
<1>4. ASSUME a = {} => i \subseteq h, OwnMasks(st[1], i, h, a) PROVE MasksOK(st, i, h, a)
  <2> DEFINE I == [n \in 1 .. 1 |-> i]
  <2>1. I \in [1 .. Len(st) -> SUBSET Inside] /\ I[1] = i
    OBVIOUS
  <2>2. InnerAt(st, i, I)
    BY DEF InnerAt
  <2>3. \A n \in 1 .. Len(st) : Sound(st, a, n) => I[n] \subseteq HostAt(st, h, n)
    <3>1. \A n \in 1 .. Len(st) : n = 1
      OBVIOUS
    <3> QED BY <3>1, <1>2, <1>4, <2>1, SoundOwn
  <2>4. OwnMasks(st[1], I[1], HostAt(st, h, 1), a)
    BY <1>2, <1>4
  <2>5. \A n \in 2 .. Len(st) :
          /\ HandlerMasks(st[n], HostAt(st, h, n))
          /\ Sound(st, a, n - 1) => Unblocked(st[n], I[n])
    OBVIOUS
  <2> QED BY <2>1, <2>2, <2>3, <2>4, <2>5 DEF MasksOK
<1> QED BY <1>1, <1>3, <1>4

\* A handler is in the enclave only when the frames below it are outside.
LEMMA LobbyOnly ==
  ASSUME NEW st \in Seq(FrameType), StackOK(st)
  PROVE  st[Len(st)].pc \notin Lobby => \A n \in 1 .. Len(st) - 1 : st[n].pc \in Outside
<1> SUFFICES ASSUME st[Len(st)].pc \notin Lobby, NEW n \in 1 .. Len(st) - 1
             PROVE  st[n].pc \in Outside
  OBVIOUS
<1>1. PICK m \in Nat : m = Len(st)
  OBVIOUS
<1>2. n \in 1 .. m /\ m \in 1 .. m /\ n < m
  BY <1>1
<1> QED BY <1>1, <1>2 DEF StackOK

\* What the masks of a thread that runs a handler say of the handler.
TopMasks(st, i, h, a, f) ==
    LET below == Sound(st, a, Len(st) - 1)
    IN  /\ below /\ Faithful(f) => i \subseteq h
        /\ below => Unblocked(f, i)
        /\ HandlerMasks(f, h)
        /\ below /\ Running(f) => f.keep \subseteq f.saved
        /\ below /\ ~Running(f) => i \subseteq f.saved

LEMMA HandlerTop ==
  ASSUME NEW st \in Seq(FrameType), NEW i \in SUBSET Inside, NEW h \in SUBSET Sig,
         NEW a, StackOK(st), MasksOK(st, i, h, a), Len(st) # 1,
         NEW f \in FrameType, f = st[Len(st)]
  PROVE  TopMasks(st, i, h, a, f)
<1>1. PICK I \in [1 .. Len(st) -> SUBSET Inside] :
        /\ InnerAt(st, i, I)
        /\ \A n \in 1 .. Len(st) : Sound(st, a, n) => I[n] \subseteq HostAt(st, h, n)
        /\ \A n \in 2 .. Len(st) :
              /\ HandlerMasks(st[n], HostAt(st, h, n))
              /\ Sound(st, a, n - 1) => Unblocked(st[n], I[n])
  BY DEF MasksOK
<1>2. PICK m \in Nat : m + 1 = Len(st) /\ m >= 1
  <2>1. Len(st) \in Nat /\ Len(st) > 1
    BY StackLen
  <2> QED BY <2>1
<1>3. I[m + 1] = i /\ HostAt(st, h, m + 1) = h /\ st[m + 1] = f
  BY <1>1, <1>2 DEF InnerAt, HostAt
<1>4. HostAt(st, h, m) = f.saved
  BY <1>2, <1>3 DEF HostAt
<1>5. I[m] = IF Running(f) THEN f.keep ELSE i
  <2>1. m \in 1 .. Len(st) - 1
    BY <1>2
  <2>2. I[m] = IF Running(st[m + 1]) THEN st[m + 1].keep ELSE I[m + 1]
    BY <2>1, <1>1 DEF InnerAt
  <2> QED BY <2>2, <1>3
<1>6. Sound(st, a, m) => I[m] \subseteq f.saved
  <2>1. m \in 1 .. Len(st)
    BY <1>2
  <2> QED BY <2>1, <1>1, <1>4
<1>7. HandlerMasks(f, h) /\ (Sound(st, a, m) => Unblocked(f, i))
  <2>1. m + 1 \in 2 .. Len(st) /\ (m + 1) - 1 = m
    BY <1>2
  <2> QED BY <2>1, <1>1, <1>3
<1>8. Sound(st, a, m) /\ Faithful(f) => i \subseteq h
  <2>1. m + 1 \in 1 .. Len(st)
    BY <1>2
  <2>2. Sound(st, a, m + 1) <=> Sound(st, a, m) /\ Faithful(st[m + 1])
    BY <1>2, SoundUp
  <2> QED BY <2>1, <2>2, <1>1, <1>3
<1>10. Len(st) - 1 = m
  BY <1>2
<1> QED BY <1>5, <1>6, <1>7, <1>8, <1>10 DEF TopMasks

\* A handler's frame goes on: the frames below it are untouched when what
\* they get back is.
LEMMA ReplaceTop ==
  ASSUME NEW st \in Seq(FrameType), NEW nt \in Seq(FrameType),
         NEW i \in SUBSET Inside, NEW j \in SUBSET Inside, NEW h \in SUBSET Sig,
         NEW a, StackOK(st), MasksOK(st, i, h, a), Len(st) # 1,
         Len(nt) = Len(st), \A n \in 1 .. Len(st) - 1 : nt[n] = st[n],
         NEW f \in FrameType, NEW g \in FrameType, f = st[Len(st)], g = nt[Len(st)],
         g.pc \in HandlerPc,
         g.pc \in Lobby \/ \A n \in 1 .. Len(st) - 1 : st[n].pc \in Outside,
         g.sig = f.sig, g.saved = f.saved,
         (IF Running(g) THEN g.keep ELSE j) = (IF Running(f) THEN f.keep ELSE i),
         Sound(st, a, Len(st) - 1) /\ Faithful(g) => j \subseteq h,
         Sound(st, a, Len(st) - 1) => Unblocked(g, j), HandlerMasks(g, h)
  PROVE  StackOK(nt) /\ MasksOK(nt, j, h, a)
<1>1. PICK I \in [1 .. Len(st) -> SUBSET Inside] :
        /\ InnerAt(st, i, I)
        /\ \A n \in 1 .. Len(st) : Sound(st, a, n) => I[n] \subseteq HostAt(st, h, n)
        /\ OwnMasks(st[1], I[1], HostAt(st, h, 1), a)
        /\ \A n \in 2 .. Len(st) :
              /\ HandlerMasks(st[n], HostAt(st, h, n))
              /\ Sound(st, a, n - 1) => Unblocked(st[n], I[n])
  BY DEF MasksOK
<1>2. PICK m \in Nat : m = Len(st) /\ m > 1
  BY DEF StackOK
<1>3. PICK J \in [1 .. m -> SUBSET Inside] :
        J[m] = j /\ \A n \in 1 .. m - 1 : J[n] = I[n]
  <2> DEFINE J == [n \in 1 .. m |-> IF n = m THEN j ELSE I[n]]
  <2>1. J \in [1 .. m -> SUBSET Inside]
    BY <1>1, <1>2
  <2>2. J[m] = j /\ \A n \in 1 .. m - 1 : J[n] = I[n]
    BY <1>2
  <2> QED BY <2>1, <2>2
<1>4. \A n \in 1 .. m : HostAt(nt, h, n) = HostAt(st, h, n)
  <2> SUFFICES ASSUME NEW n \in 1 .. m PROVE HostAt(nt, h, n) = HostAt(st, h, n)
    OBVIOUS
  <2>1. ASSUME n # m PROVE nt[n + 1].saved = st[n + 1].saved
    <3>1. n + 1 = m \/ n + 1 \in 1 .. m - 1
      BY <2>1, <1>2
    <3> QED BY <3>1, <1>2
  <2> QED BY <2>1, <1>2 DEF HostAt
<1>5. HostAt(st, h, m) = h
  BY <1>2 DEF HostAt
<1>6. StackOK(nt)
  <2>1. \A n \in 2 .. m : nt[n].pc \in HandlerPc /\ nt[n].sig \in Sig
    <3> SUFFICES ASSUME NEW n \in 2 .. m PROVE nt[n].pc \in HandlerPc /\ nt[n].sig \in Sig
      OBVIOUS
    <3>1. st[n].pc \in HandlerPc /\ st[n].sig \in Sig
      BY <1>2 DEF StackOK
    <3>2. CASE n = m
      BY <3>1, <3>2, <1>2
    <3>3. CASE n # m
      <4>1. n \in 1 .. m - 1
        BY <3>3, <1>2
      <4>2. nt[n] = st[n]
        BY <4>1, <1>2
      <4> QED BY <3>1, <4>2
    <3> QED BY <3>2, <3>3
  <2>2. \A n \in 1 .. m - 1 : nt[n].pc \notin RegPc
    BY <1>2 DEF StackOK
  <2>3. nt[1].pc \in OwnPc
    BY <1>2 DEF StackOK
  <2>4. ASSUME NEW n \in 1 .. m, NEW k \in 1 .. m, n < k
        PROVE  nt[n].pc \in Outside \/ nt[k].pc \in Lobby
    <3>4. n \in 1 .. m - 1
      BY <2>4
    <3>1. n \in 1 .. m - 1 /\ nt[n] = st[n]
      BY <3>4, <1>2
    <3>2. CASE k = m
      BY <3>1, <3>2, <1>2
    <3>3. CASE k # m
      <4>1. nt[k] = st[k]
        BY <3>3, <1>2
      <4> QED BY <4>1, <3>1, <2>4, <1>2 DEF StackOK
    <3> QED BY <3>2, <3>3
  <2> QED BY <2>1, <2>2, <2>3, <2>4, <1>2 DEF StackOK
<1>7. InnerAt(nt, j, J)
  <2> SUFFICES ASSUME NEW n \in 1 .. m - 1
               PROVE  J[n] = IF Running(nt[n + 1]) THEN nt[n + 1].keep ELSE J[n + 1]
    BY <1>2, <1>3 DEF InnerAt
  <2>1. I[n] = IF Running(st[n + 1]) THEN st[n + 1].keep ELSE I[n + 1]
    BY <1>1, <1>2 DEF InnerAt
  <2>2. I[m] = i
    BY <1>1, <1>2 DEF InnerAt
  <2>3. CASE n = m - 1
    BY <2>1, <2>2, <2>3, <1>2, <1>3
  <2>4. CASE n # m - 1
    <3>1. n + 1 \in 1 .. m - 1 /\ nt[n + 1] = st[n + 1] /\ J[n + 1] = I[n + 1]
      BY <2>4, <1>2, <1>3
    <3> QED BY <2>1, <3>1, <1>3
  <2> QED BY <2>3, <2>4
<1>8. \A n \in 1 .. m - 1 : Sound(nt, a, n) <=> Sound(st, a, n)
  <2> SUFFICES ASSUME NEW n \in 1 .. m - 1 PROVE Sound(nt, a, n) <=> Sound(st, a, n)
    OBVIOUS
  <2>1. n \in Nat /\ \A k \in 1 .. n : k \in 1 .. m - 1
    BY <1>2
  <2>2. \A k \in 1 .. n : nt[k] = st[k]
    BY <2>1, <1>2
  <2> QED BY <2>1, <2>2, SoundSame
<1>11. \A n \in 1 .. m : Sound(nt, a, n) => J[n] \subseteq HostAt(nt, h, n)
  <2> SUFFICES ASSUME NEW n \in 1 .. m, Sound(nt, a, n) PROVE J[n] \subseteq HostAt(st, h, n)
    BY <1>4
  <2>1. CASE n = m
    <3>1. PICK p \in Nat : m = p + 1 /\ p >= 1
      <4>1. m \in Nat /\ m > 1
        BY <1>2
      <4>2. m - 1 \in Nat /\ m = (m - 1) + 1 /\ m - 1 >= 1
        BY <4>1
      <4> QED BY <4>2
    <3>2. Sound(nt, a, p) /\ Faithful(nt[m])
      BY <2>1, <3>1, SoundUp
    <3>3. Sound(st, a, p)
      BY <3>1, <3>2, <1>8
    <3>4. j \subseteq h
      BY <3>1, <3>2, <3>3, <1>2
    <3> QED BY <2>1, <3>4, <1>3, <1>5
  <2>2. CASE n # m
    BY <2>2, <1>1, <1>2, <1>3, <1>8
  <2> QED BY <2>1, <2>2
<1>9. OwnMasks(nt[1], J[1], HostAt(nt, h, 1), a)
  <2>1. nt[1] = st[1] /\ J[1] = I[1] /\ HostAt(nt, h, 1) = HostAt(st, h, 1)
    BY <1>2, <1>3, <1>4
  <2> QED BY <2>1, <1>1
<1>10. \A n \in 2 .. m : /\ HandlerMasks(nt[n], HostAt(nt, h, n))
                         /\ Sound(nt, a, n - 1) => Unblocked(nt[n], J[n])
  <2> SUFFICES ASSUME NEW n \in 2 .. m
               PROVE  /\ HandlerMasks(nt[n], HostAt(st, h, n))
                      /\ Sound(st, a, n - 1) => Unblocked(nt[n], J[n])
    <3>1. \A n \in 2 .. m : n \in 1 .. m /\ n - 1 \in 1 .. m - 1
      BY <1>2
    <3> QED BY <3>1, <1>4, <1>8
  <2>1. CASE n = m
    <3>1. nt[n] = g /\ J[n] = j /\ HostAt(st, h, n) = h /\ n - 1 = Len(st) - 1
      BY <2>1, <1>2, <1>3, <1>5
    <3> QED BY <3>1
  <2>2. CASE n # m
    <3>1. n \in 1 .. m - 1 /\ n \in 2 .. Len(st)
      BY <2>2, <1>2
    <3>2. nt[n] = st[n] /\ J[n] = I[n]
      BY <3>1, <1>2, <1>3
    <3> QED BY <3>1, <3>2, <1>1
  <2> QED BY <2>1, <2>2
<1>12. MasksOK(nt, j, h, a)
  <2>1. Len(nt) = m /\ J \in [1 .. Len(nt) -> SUBSET Inside]
    BY <1>2, <1>3
  <2>2. \A n \in 1 .. Len(nt) : Sound(nt, a, n) => J[n] \subseteq HostAt(nt, h, n)
    BY <2>1, <1>11
  <2>3. \A n \in 2 .. Len(nt) : /\ HandlerMasks(nt[n], HostAt(nt, h, n))
                                /\ Sound(nt, a, n - 1) => Unblocked(nt[n], J[n])
    BY <2>1, <1>10
  <2> QED BY <2>1, <2>2, <2>3, <1>7, <1>9 DEF MasksOK
<1> QED BY <1>6, <1>12

\* A handler starts: the frame that it interrupts is as it was, with the mask
\* that the kernel has saved.
LEMMA PushHandler ==
  ASSUME NEW st \in Seq(FrameType), NEW g \in FrameType,
         NEW i \in SUBSET Inside, NEW h \in SUBSET Sig, NEW k \in SUBSET Sig,
         NEW a, StackOK(st), MasksOK(st, i, h, a),
         st[Len(st)].pc \notin RegPc,
         g.pc = "eid_lock", g.sig \in Sig, g.saved = h,
         g.sig \notin h, h \cup g.act.mask \subseteq k
  PROVE  StackOK(Append(st, g)) /\ MasksOK(Append(st, g), i, k, a)
<1>1. PICK I \in [1 .. Len(st) -> SUBSET Inside] :
        /\ InnerAt(st, i, I)
        /\ \A n \in 1 .. Len(st) : Sound(st, a, n) => I[n] \subseteq HostAt(st, h, n)
        /\ OwnMasks(st[1], I[1], HostAt(st, h, 1), a)
        /\ \A n \in 2 .. Len(st) :
              /\ HandlerMasks(st[n], HostAt(st, h, n))
              /\ Sound(st, a, n - 1) => Unblocked(st[n], I[n])
  BY DEF MasksOK
<1>2. PICK m \in Nat : m = Len(st) /\ m >= 1
  BY DEF StackOK
<1>3. PICK nt \in Seq(FrameType) :
        /\ nt = Append(st, g) /\ Len(nt) = m + 1
        /\ nt[m + 1] = g /\ \A n \in 1 .. m : nt[n] = st[n]
  <2>1. Append(st, g) \in Seq(FrameType) /\ Len(Append(st, g)) = m + 1
    BY <1>2
  <2>2. Append(st, g)[m + 1] = g /\ \A n \in 1 .. m : Append(st, g)[n] = st[n]
    BY <1>2
  <2> QED BY <2>1, <2>2
<1>4. PICK J \in [1 .. m + 1 -> SUBSET Inside] :
        J[m + 1] = i /\ \A n \in 1 .. m : J[n] = I[n]
  <2> DEFINE J == [n \in 1 .. m + 1 |-> IF n = m + 1 THEN i ELSE I[n]]
  <2>1. J \in [1 .. m + 1 -> SUBSET Inside]
    BY <1>1, <1>2
  <2>2. J[m + 1] = i /\ \A n \in 1 .. m : J[n] = I[n]
    BY <1>2
  <2> QED BY <2>1, <2>2
<1>5. \A n \in 1 .. m : HostAt(nt, k, n) = HostAt(st, h, n)
  <2> SUFFICES ASSUME NEW n \in 1 .. m PROVE HostAt(nt, k, n) = HostAt(st, h, n)
    OBVIOUS
  <2>1. n # m => nt[n + 1].saved = st[n + 1].saved
    BY <1>2, <1>3
  <2> QED BY <2>1, <1>2, <1>3 DEF HostAt
<1>6. HostAt(nt, k, m + 1) = k /\ HostAt(st, h, m) = h
  BY <1>2, <1>3 DEF HostAt
<1>7. StackOK(nt)
  <2>1. \A n \in 2 .. m + 1 : nt[n].pc \in HandlerPc /\ nt[n].sig \in Sig
    BY <1>2, <1>3 DEF StackOK, HandlerPc
  <2>2. \A n \in 1 .. m : nt[n].pc \notin RegPc
    <3> SUFFICES ASSUME NEW n \in 1 .. m PROVE st[n].pc \notin RegPc
      BY <1>3
    <3>1. n # m => n \in 1 .. Len(st) - 1
      BY <1>2
    <3> QED BY <3>1, <1>2 DEF StackOK
  <2>3. nt[1].pc \in OwnPc
    BY <1>2, <1>3 DEF StackOK
  <2>4. ASSUME NEW n \in 1 .. m + 1, NEW l \in 1 .. m + 1, n < l
        PROVE  nt[n].pc \in Outside \/ nt[l].pc \in Lobby
    <3>1. CASE l = m + 1
      BY <3>1, <1>3 DEF Lobby
    <3>2. CASE l # m + 1
      <4>1. n \in 1 .. m /\ l \in 1 .. m /\ nt[n] = st[n] /\ nt[l] = st[l]
        BY <3>2, <2>4, <1>2, <1>3
      <4> QED BY <4>1, <2>4, <1>2 DEF StackOK
    <3> QED BY <3>1, <3>2
  <2> QED BY <2>1, <2>2, <2>3, <2>4, <1>2, <1>3 DEF StackOK
<1>8. InnerAt(nt, i, J)
  <2> SUFFICES ASSUME NEW n \in 1 .. m
               PROVE  J[n] = IF Running(nt[n + 1]) THEN nt[n + 1].keep ELSE J[n + 1]
    BY <1>2, <1>3, <1>4 DEF InnerAt
  <2>1. I[m] = i
    BY <1>1, <1>2 DEF InnerAt
  <2>2. CASE n = m
    BY <2>1, <2>2, <1>2, <1>3, <1>4 DEF Running
  <2>3. CASE n # m
    <3>1. n \in 1 .. m - 1 /\ n + 1 \in 1 .. m /\ nt[n + 1] = st[n + 1]
          /\ J[n + 1] = I[n + 1]
      BY <2>3, <1>2, <1>3, <1>4
    <3>2. I[n] = IF Running(st[n + 1]) THEN st[n + 1].keep ELSE I[n + 1]
      BY <1>1, <1>2, <3>1 DEF InnerAt
    <3> QED BY <3>1, <3>2, <1>4
  <2> QED BY <2>2, <2>3
<1>9. Sound(st, a, m) => i \subseteq h
  BY <1>1, <1>2, <1>6 DEF InnerAt
<1>14. \A n \in 1 .. m : Sound(nt, a, n) <=> Sound(st, a, n)
  <2> SUFFICES ASSUME NEW n \in 1 .. m PROVE Sound(nt, a, n) <=> Sound(st, a, n)
    OBVIOUS
  <2>1. n \in Nat /\ \A l \in 1 .. n : nt[l] = st[l]
    BY <1>2, <1>3
  <2> QED BY <2>1, SoundSame
<1>10. \A n \in 1 .. m + 1 : Sound(nt, a, n) => J[n] \subseteq HostAt(nt, k, n)
  <2> SUFFICES ASSUME NEW n \in 1 .. m + 1, Sound(nt, a, n)
               PROVE  J[n] \subseteq HostAt(nt, k, n)
    OBVIOUS
  <2>1. CASE n = m + 1
    <3>1. Sound(st, a, m)
      BY <2>1, <1>2, <1>14, SoundUp
    <3> QED BY <2>1, <3>1, <1>4, <1>6, <1>9
  <2>2. CASE n # m + 1
    <3>1. n \in 1 .. m
      BY <2>2, <1>2
    <3> QED BY <3>1, <1>1, <1>2, <1>4, <1>5, <1>14
  <2> QED BY <2>1, <2>2
<1>11. OwnMasks(nt[1], J[1], HostAt(nt, k, 1), a)
  <2>1. nt[1] = st[1] /\ J[1] = I[1] /\ HostAt(nt, k, 1) = HostAt(st, h, 1)
    BY <1>2, <1>3, <1>4, <1>5
  <2> QED BY <2>1, <1>1
<1>12. \A n \in 2 .. m + 1 : /\ HandlerMasks(nt[n], HostAt(nt, k, n))
                             /\ Sound(nt, a, n - 1) => Unblocked(nt[n], J[n])
  <2> SUFFICES ASSUME NEW n \in 2 .. m + 1
               PROVE  /\ HandlerMasks(nt[n], HostAt(nt, k, n))
                      /\ Sound(st, a, n - 1) => Unblocked(nt[n], J[n])
    <3>1. \A n \in 2 .. m + 1 : n - 1 \in 1 .. m
      BY <1>2
    <3> QED BY <3>1, <1>14
  <2>1. CASE n = m + 1
    <3>1. HandlerMasks(g, k) /\ (Sound(st, a, m) => Unblocked(g, i))
      BY <1>9 DEF HandlerMasks, Unblocked
    <3>2. n - 1 = m
      BY <2>1, <1>2
    <3> QED BY <2>1, <3>1, <3>2, <1>3, <1>4, <1>6
  <2>2. CASE n # m + 1
    <3>1. n \in 1 .. m /\ n \in 2 .. Len(st)
      BY <2>2, <1>2
    <3>2. nt[n] = st[n] /\ J[n] = I[n] /\ HostAt(nt, k, n) = HostAt(st, h, n)
      BY <3>1, <1>3, <1>4, <1>5
    <3> QED BY <3>1, <3>2, <1>1
  <2> QED BY <2>1, <2>2
<1>13. MasksOK(nt, i, k, a)
  <2>1. Len(nt) = m + 1 /\ J \in [1 .. Len(nt) -> SUBSET Inside]
    BY <1>3, <1>4
  <2>2. \A n \in 1 .. Len(nt) : Sound(nt, a, n) => J[n] \subseteq HostAt(nt, k, n)
    BY <2>1, <1>10
  <2>3. \A n \in 2 .. Len(nt) : /\ HandlerMasks(nt[n], HostAt(nt, k, n))
                                /\ Sound(nt, a, n - 1) => Unblocked(nt[n], J[n])
    BY <2>1, <1>12
  <2> QED BY <2>1, <2>2, <2>3, <1>8, <1>11 DEF MasksOK
<1> QED BY <1>3, <1>7, <1>13

\* A handler that runs no action any more returns.
LEMMA PopHandler ==
  ASSUME NEW st \in Seq(FrameType), NEW i \in SUBSET Inside, NEW h \in SUBSET Sig,
         NEW a, StackOK(st), MasksOK(st, i, h, a), Len(st) # 1, ~Running(st[Len(st)])
  PROVE  /\ Front(st) \in Seq(FrameType) /\ Len(Front(st)) = Len(st) - 1
         /\ \A n \in 1 .. Len(st) - 1 : Front(st)[n] = st[n]
         /\ StackOK(Front(st)) /\ MasksOK(Front(st), i, st[Len(st)].saved, a)
<1>1. PICK I \in [1 .. Len(st) -> SUBSET Inside] :
        /\ InnerAt(st, i, I)
        /\ \A n \in 1 .. Len(st) : Sound(st, a, n) => I[n] \subseteq HostAt(st, h, n)
        /\ OwnMasks(st[1], I[1], HostAt(st, h, 1), a)
        /\ \A n \in 2 .. Len(st) :
              /\ HandlerMasks(st[n], HostAt(st, h, n))
              /\ Sound(st, a, n - 1) => Unblocked(st[n], I[n])
  BY DEF MasksOK
<1>2. PICK m \in Nat : m + 1 = Len(st) /\ m >= 1
  <2>1. Len(st) \in Nat /\ Len(st) > 1
    BY StackLen
  <2> QED BY <2>1
<1>3. Front(st) \in Seq(FrameType) /\ Len(Front(st)) = m
      /\ \A n \in 1 .. m : Front(st)[n] = st[n]
  BY <1>2 DEF Front
<1>4. PICK nt \in Seq(FrameType) :
        nt = Front(st) /\ Len(nt) = m /\ \A n \in 1 .. m : nt[n] = st[n]
  BY <1>3
<1>5. PICK k \in SUBSET Sig : k = st[m + 1].saved
  <2>1. st[m + 1] \in FrameType
    BY <1>2
  <2> QED BY <2>1 DEF FrameType
<1>6. PICK J \in [1 .. m -> SUBSET Inside] : \A n \in 1 .. m : J[n] = I[n]
  <2> DEFINE J == [n \in 1 .. m |-> I[n]]
  <2>1. \A n \in 1 .. m : I[n] \in SUBSET Inside
    <3>1. \A n \in 1 .. m : n \in 1 .. Len(st)
      BY <1>2
    <3> QED BY <3>1, <1>1
  <2>2. J \in [1 .. m -> SUBSET Inside]
    BY <2>1
  <2>3. \A n \in 1 .. m : J[n] = I[n]
    OBVIOUS
  <2> QED BY <2>2, <2>3
<1>7. \A n \in 1 .. m : HostAt(nt, k, n) = HostAt(st, h, n)
  <2> SUFFICES ASSUME NEW n \in 1 .. m PROVE HostAt(nt, k, n) = HostAt(st, h, n)
    OBVIOUS
  <2>1. n # m => nt[n + 1].saved = st[n + 1].saved
    BY <1>2, <1>4
  <2>2. n # Len(st)
    BY <1>2
  <2> QED BY <2>1, <2>2, <1>4, <1>5 DEF HostAt
<1>8. StackOK(nt)
  <2>1. \A n \in 2 .. m : nt[n].pc \in HandlerPc /\ nt[n].sig \in Sig
    BY <1>2, <1>4 DEF StackOK
  <2>2. \A n \in 1 .. m - 1 : nt[n].pc \notin RegPc
    BY <1>2, <1>4 DEF StackOK
  <2>3. nt[1].pc \in OwnPc
    BY <1>2, <1>4 DEF StackOK
  <2>4. \A n, l \in 1 .. m : n < l => nt[n].pc \in Outside \/ nt[l].pc \in Lobby
    BY <1>2, <1>4 DEF StackOK
  <2> QED BY <2>1, <2>2, <2>3, <2>4, <1>2, <1>4 DEF StackOK
<1>9. InnerAt(nt, i, J)
  <2>1. I[m + 1] = i /\ I[m] = I[m + 1]
    BY <1>1, <1>2 DEF InnerAt
  <2>2. ASSUME NEW n \in 1 .. m - 1
        PROVE  J[n] = IF Running(nt[n + 1]) THEN nt[n + 1].keep ELSE J[n + 1]
    <3>1. n \in 1 .. m /\ n + 1 \in 1 .. m
      BY <1>2
    <3>2. I[n] = IF Running(st[n + 1]) THEN st[n + 1].keep ELSE I[n + 1]
      BY <1>1, <1>2, <3>1 DEF InnerAt
    <3> QED BY <3>1, <3>2, <1>4, <1>6
  <2>3. J[m] = i
    BY <2>1, <1>2, <1>6
  <2> QED BY <2>2, <2>3, <1>4 DEF InnerAt
<1>14. \A n \in 1 .. m : Sound(nt, a, n) <=> Sound(st, a, n)
  <2> SUFFICES ASSUME NEW n \in 1 .. m PROVE Sound(nt, a, n) <=> Sound(st, a, n)
    OBVIOUS
  <2>1. n \in Nat /\ \A l \in 1 .. n : nt[l] = st[l]
    BY <1>2, <1>4
  <2> QED BY <2>1, SoundSame
<1>10. \A n \in 1 .. m : Sound(nt, a, n) => J[n] \subseteq HostAt(nt, k, n)
  BY <1>1, <1>2, <1>6, <1>7, <1>14
<1>11. OwnMasks(nt[1], J[1], HostAt(nt, k, 1), a)
  <2>1. nt[1] = st[1] /\ J[1] = I[1] /\ HostAt(nt, k, 1) = HostAt(st, h, 1)
    BY <1>2, <1>4, <1>6, <1>7
  <2> QED BY <2>1, <1>1
<1>12. \A n \in 2 .. m : /\ HandlerMasks(nt[n], HostAt(nt, k, n))
                         /\ Sound(nt, a, n - 1) => Unblocked(nt[n], J[n])
  <2> SUFFICES ASSUME NEW n \in 2 .. m
               PROVE  /\ HandlerMasks(nt[n], HostAt(nt, k, n))
                      /\ Sound(st, a, n - 1) => Unblocked(nt[n], J[n])
    <3>1. \A n \in 2 .. m : n - 1 \in 1 .. m
      BY <1>2
    <3> QED BY <3>1, <1>14
  <2>1. n \in 1 .. m /\ n \in 2 .. Len(st)
    BY <1>2
  <2>2. nt[n] = st[n] /\ J[n] = I[n] /\ HostAt(nt, k, n) = HostAt(st, h, n)
    BY <2>1, <1>4, <1>6, <1>7
  <2> QED BY <2>1, <2>2, <1>1
<1>13. MasksOK(nt, i, k, a)
  <2>1. Len(nt) = m /\ J \in [1 .. Len(nt) -> SUBSET Inside]
    BY <1>4, <1>6
  <2>2. \A n \in 1 .. Len(nt) : Sound(nt, a, n) => J[n] \subseteq HostAt(nt, k, n)
    BY <2>1, <1>10
  <2>3. \A n \in 2 .. Len(nt) : /\ HandlerMasks(nt[n], HostAt(nt, k, n))
                                /\ Sound(nt, a, n - 1) => Unblocked(nt[n], J[n])
    BY <2>1, <1>12
  <2> QED BY <2>1, <2>2, <2>3, <1>9, <1>11 DEF MasksOK
<1> QED BY <1>2, <1>3, <1>4, <1>5, <1>8, <1>13

-----------------------------------------------------------------------------
(***************************************************************************)
(* What a step of one thread has to show.                                  *)
(***************************************************************************)

\* The masks, when the thread runs no handler.
LEMMA OwnStep ==
  ASSUME SgInv, NEW t \in Thread, NEW g \in FrameType, SetTop(t, g),
         Len(stack[t]) = 1, g.pc \in OwnPc,
         inner' \in [Thread -> SUBSET Inside], host' \in [Thread -> SUBSET Sig],
         \A u \in Thread : u # t => inner'[u] = inner[u] /\ host'[u] = host[u],
         \A u \in Thread : u # t => Askew(u)' = Askew(u),
         NEW i \in SUBSET Inside, NEW h \in SUBSET Sig, NEW a,
         i = inner'[t], h = host'[t], a = Askew(t)',
         a = {} => i \subseteq h, OwnMasks(g, i, h, a)
  PROVE  ThreadsOK'
<1>1. SgTypeOK /\ ThreadsOK
  BY DEF SgInv
<1>2. /\ stack' \in [Thread -> Seq(FrameType)] /\ Len(stack'[t]) = 1
      /\ stack'[t][1] = g /\ \A u \in Thread : u # t => stack'[u] = stack[u]
  BY <1>1, SetTopFacts
<1>3. ASSUME NEW u \in Thread, u # t
      PROVE  StackOK(stack'[u]) /\ MasksOK(stack'[u], inner'[u], host'[u], Askew(u)')
  BY <1>1, <1>2, <1>3 DEF ThreadsOK
<1>4. StackOK(stack'[t]) /\ MasksOK(stack'[t], inner'[t], host'[t], Askew(t)')
  <2>1. PICK st \in Seq(FrameType) : st = stack'[t]
    BY <1>2
  <2>2. Len(st) = 1 /\ st[1] = g
    BY <1>2, <2>1
  <2>3. StackOK(st) /\ MasksOK(st, i, h, a)
    BY <2>2, OwnFrameOnly
  <2> QED BY <2>1, <2>3
<1> QED BY <1>3, <1>4 DEF ThreadsOK

\* What the masks say when it runs none.
LEMMA OwnFacts ==
  ASSUME SgInv, NEW t \in Thread, Len(stack[t]) = 1
  PROVE  /\ inner[t] \in SUBSET Inside /\ host[t] \in SUBSET Sig
         /\ Askew(t) = {} => inner[t] \subseteq host[t]
         /\ OwnMasks(Top(t), inner[t], host[t], Askew(t))
<1>1. SgTypeOK /\ ThreadsOK
  BY DEF SgInv
<1>2. Top(t) = stack[t][1] /\ stack[t] \in Seq(FrameType)
  BY <1>1, TopFacts
<1>3. inner[t] \in SUBSET Inside /\ host[t] \in SUBSET Sig
  BY <1>1 DEF SgTypeOK
<1>4. PICK st \in Seq(FrameType), i \in SUBSET Inside, h \in SUBSET Sig :
        st = stack[t] /\ i = inner[t] /\ h = host[t]
  BY <1>2, <1>3
<1>5. StackOK(st) /\ MasksOK(st, i, h, Askew(t)) /\ Len(st) = 1
  BY <1>1, <1>4 DEF ThreadsOK
<1>6. (Askew(t) = {} => i \subseteq h) /\ OwnMasks(st[1], i, h, Askew(t))
  BY <1>5, OwnFrameOnly
<1> QED BY <1>2, <1>3, <1>4, <1>6

\* The same two for a thread that runs a handler.
LEMMA HandlerStep ==
  ASSUME SgInv, NEW t \in Thread, NEW g \in FrameType, SetTop(t, g),
         Len(stack[t]) # 1, g.pc \in HandlerPc,
         g.pc \in Lobby \/ Top(t).pc \notin Lobby \/ ~Entered(t),
         inner' \in [Thread -> SUBSET Inside], host' = host, askew' = askew,
         \A u \in Thread : u # t => inner'[u] = inner[u],
         g.sig = Top(t).sig, g.saved = Top(t).saved,
         (IF Running(g) THEN g.keep ELSE inner'[t])
           = (IF Running(Top(t)) THEN Top(t).keep ELSE inner[t]),
         Below(t) /\ Faithful(g) => inner'[t] \subseteq host[t],
         Below(t) => Unblocked(g, inner'[t]), HandlerMasks(g, host[t])
  PROVE  ThreadsOK'
<1>1. SgTypeOK /\ ThreadsOK
  BY DEF SgInv
<1>2. /\ stack' \in [Thread -> Seq(FrameType)] /\ Len(stack'[t]) = Len(stack[t])
      /\ stack'[t][Len(stack[t])] = g
      /\ \A n \in 1 .. Len(stack[t]) - 1 : stack'[t][n] = stack[t][n]
      /\ \A u \in Thread : u # t => stack'[u] = stack[u]
  BY <1>1, SetTopFacts
<1>5. \A u \in Thread : Askew(u)' = Askew(u)
  BY DEF Askew
<1>3. ASSUME NEW u \in Thread, u # t
      PROVE  StackOK(stack'[u]) /\ MasksOK(stack'[u], inner'[u], host'[u], Askew(u)')
  BY <1>1, <1>2, <1>3, <1>5 DEF ThreadsOK
<1>4. StackOK(stack'[t]) /\ MasksOK(stack'[t], inner'[t], host'[t], Askew(t)')
  <2>1. PICK st \in Seq(FrameType), nt \in Seq(FrameType) :
          st = stack[t] /\ nt = stack'[t]
    BY <1>1, <1>2 DEF SgTypeOK
  <2>2. PICK i \in SUBSET Inside, j \in SUBSET Inside, h \in SUBSET Sig, a \in SUBSET Thread :
          i = inner[t] /\ j = inner'[t] /\ h = host[t] /\ a = Askew(t)
    BY <1>1 DEF SgTypeOK, Askew
  <2>3. Top(t) = st[Len(st)]
    BY <1>1, <2>1, TopFacts
  <2>4. StackOK(st) /\ MasksOK(st, i, h, a)
    BY <1>1, <2>1, <2>2 DEF ThreadsOK
  <2>5. Len(nt) = Len(st) /\ nt[Len(st)] = g
        /\ \A n \in 1 .. Len(st) - 1 : nt[n] = st[n]
    BY <1>2, <2>1
  <2>6. PICK f \in FrameType : f = Top(t)
    BY <1>1, TopFacts
  <2>7. /\ g.pc \in HandlerPc /\ g.sig = f.sig /\ g.saved = f.saved
        /\ (IF Running(g) THEN g.keep ELSE j) = (IF Running(f) THEN f.keep ELSE i)
    BY <2>2, <2>6
  <2>8. f = st[Len(st)] /\ g = nt[Len(st)] /\ Len(st) # 1
    BY <2>1, <2>3, <2>5, <2>6
  <2>9. /\ Sound(st, a, Len(st) - 1) /\ Faithful(g) => j \subseteq h
        /\ Sound(st, a, Len(st) - 1) => Unblocked(g, j)
        /\ HandlerMasks(g, h)
    BY <2>1, <2>2 DEF Below
  <2>10. g.pc \in Lobby \/ \A n \in 1 .. Len(st) - 1 : st[n].pc \in Outside
    <3>1. st[Len(st)].pc \notin Lobby => \A n \in 1 .. Len(st) - 1 : st[n].pc \in Outside
      BY <2>4, LobbyOnly
    <3>2. ~Entered(t) => \A n \in 1 .. Len(st) - 1 : st[n].pc \in Outside
      BY <2>1 DEF Entered
    <3> QED BY <3>1, <3>2, <2>6, <2>8
  <2>11. StackOK(nt) /\ MasksOK(nt, j, h, a)
    BY <2>4, <2>5, <2>7, <2>8, <2>9, <2>10, ReplaceTop
  <2> QED BY <2>1, <2>2, <2>11, <1>5
<1> QED BY <1>3, <1>4 DEF ThreadsOK

LEMMA HandlerFacts ==
  ASSUME SgInv, NEW t \in Thread, Len(stack[t]) # 1
  PROVE  /\ inner[t] \in SUBSET Inside /\ host[t] \in SUBSET Sig
         /\ Below(t) /\ Faithful(Top(t)) => inner[t] \subseteq host[t]
         /\ Below(t) => Unblocked(Top(t), inner[t])
         /\ HandlerMasks(Top(t), host[t])
         /\ Below(t) /\ Running(Top(t)) => Top(t).keep \subseteq Top(t).saved
         /\ Below(t) /\ ~Running(Top(t)) => inner[t] \subseteq Top(t).saved
<1>1. SgTypeOK /\ ThreadsOK
  BY DEF SgInv
<1>2. Top(t) = stack[t][Len(stack[t])] /\ stack[t] \in Seq(FrameType)
      /\ Top(t) \in FrameType
  BY <1>1, TopFacts
<1>3. inner[t] \in SUBSET Inside /\ host[t] \in SUBSET Sig
  BY <1>1 DEF SgTypeOK
<1>4. PICK st \in Seq(FrameType), i \in SUBSET Inside, h \in SUBSET Sig, f \in FrameType,
           a \in SUBSET Thread :
        st = stack[t] /\ i = inner[t] /\ h = host[t] /\ f = Top(t) /\ a = Askew(t)
  BY <1>2, <1>3 DEF Askew
<1>5. StackOK(st) /\ MasksOK(st, i, h, a) /\ Len(st) # 1 /\ f = st[Len(st)]
  BY <1>1, <1>2, <1>4 DEF ThreadsOK
<1>6. TopMasks(st, i, h, a, f)
  BY <1>5, HandlerTop
<1> QED BY <1>3, <1>4, <1>6 DEF Below, TopMasks

\* signal_action_lock, when only t may take or release it.
LEMMA LockStep ==
  ASSUME SgInv, NEW t \in Thread,
         \A u \in Thread : u # t => stack'[u] = stack[u],
         actionLock \notin {t, NoThread} => actionLock' = actionLock,
         (Critical(stack[t][1]) /\ ~At(t, "dead"))' => actionLock' = t
  PROVE  LockOK'
<1> SUFFICES ASSUME NEW u \in Thread, (Critical(stack[u][1]) /\ ~At(u, "dead"))'
             PROVE  actionLock' = u
  BY DEF LockOK
<1>1. CASE u # t
  <2>1. Critical(stack[u][1]) /\ ~At(u, "dead")
    BY <1>1 DEF Critical, Looking, At, Top
  <2>2. actionLock = u
    BY <2>1 DEF SgInv, LockOK
  <2>3. u # NoThread
    BY SignalSets
  <2> QED BY <1>1, <2>2, <2>3
<1>2. CASE u = t
  BY <1>2
<1> QED BY <1>1, <1>2

\* An own frame that is set aside: what is in the table for it stays there.
LEMMA CallKept ==
  ASSUME NEW f \in FrameType, CallOK(f),
         \A id \in SignalId : Kept(id) => Kept(id)',
         f.pc = "use" => \A s \in Sig : slots'[s].on => slots[s].on
  PROVE  CallOK(f)'
<1>1. ASSUME NEW a \in f.slot.acts PROVE Kept([signal |-> f.about, action |-> a])'
  <2>1. ~Idle(f)
    BY <1>1 DEF CallOK
  <2>2. f.about \in Sig /\ a \in Nat
    BY <2>1, <1>1 DEF CallOK, FrameType, SlotType
  <2>3. [signal |-> f.about, action |-> a] \in SignalId
    BY <2>2 DEF SignalId
  <2>4. Kept([signal |-> f.about, action |-> a])
    BY <1>1 DEF CallOK
  <2> QED BY <2>3, <2>4
<1>2. ASSUME f.pc = "use", ~f.found PROVE ~slots'[f.about].on
  <2>1. f.about \in Sig
    BY <1>2 DEF CallOK, Idle, MaskPc
  <2> QED BY <1>2, <2>1 DEF CallOK
<1>3. (Looking(f) \/ Idle(f) => f.slot.acts = {}) /\ (~Idle(f) => f.about \in Sig)
  BY DEF CallOK
<1> QED BY <1>1, <1>2, <1>3 DEF CallOK

\* The calls of all threads, when t's own frame is looked at by itself.
LEMMA CallsStep ==
  ASSUME SgInv, NEW t \in Thread,
         \A u \in Thread : u # t => stack'[u] = stack[u],
         \A id \in SignalId : Kept(id) => Kept(id)',
         actionLock = t \/ \A s \in Sig : slots'[s].on => slots[s].on,
         CallOK(stack[t][1])'
  PROVE  CallsOK'
<1> SUFFICES ASSUME NEW u \in Thread, u # t PROVE CallOK(stack[u][1])'
  BY DEF CallsOK
<1>1. SgTypeOK /\ ThreadsOK /\ CallsOK /\ LockOK
  BY DEF SgInv
<1>2. PICK f \in FrameType : f = stack[u][1]
  BY <1>1, TopFacts
<1>3. CallOK(f)
  BY <1>1, <1>2 DEF CallsOK
<1>4. ASSUME f.pc = "use" PROVE actionLock = u
  <2>1. CASE Len(stack[u]) = 1
    <3>1. Top(u) = f
      BY <2>1, <1>1, <1>2, TopFacts
    <3>2. Critical(f) /\ ~At(u, "dead")
      BY <3>1, <1>4 DEF Critical, Looking, At
    <3> QED BY <3>2, <1>1, <1>2 DEF LockOK
  <2>2. CASE Len(stack[u]) # 1
    <3>1. PICK st \in Seq(FrameType) : st = stack[u] /\ StackOK(st)
      BY <1>1 DEF SgTypeOK, ThreadsOK
    <3>2. PICK m \in Nat : m = Len(st) /\ m > 1
      BY <2>2, <3>1, StackLen
    <3>3. 1 \in 1 .. m /\ m \in 1 .. m /\ 1 < m
      BY <3>2
    <3>4. st[1].pc \in Outside \/ st[m].pc \in Lobby
      BY <3>1, <3>2, <3>3 DEF StackOK
    <3>5. st[m].pc \in Lobby
      BY <3>1, <3>4, <1>2, <1>4 DEF Outside
    <3>6. Top(u).pc \in Lobby
      BY <3>1, <3>2, <3>5, <1>1, TopFacts
    <3>7. Critical(f) /\ ~At(u, "dead")
      BY <3>6, <1>4 DEF Critical, Looking, At, Lobby
    <3> QED BY <3>7, <1>1, <1>2 DEF LockOK
  <2> QED BY <2>1, <2>2
<1>5. f.pc = "use" => \A s \in Sig : slots'[s].on => slots[s].on
  BY <1>4
<1>6. CallOK(f)'
  BY <1>3, <1>5, CallKept
<1>7. stack'[u][1] = f
  BY <1>2
<1> QED BY <1>6, <1>7 DEF CallOK, Kept

\* The same when no thread's own frame changes.
LEMMA CallsSame ==
  ASSUME SgInv, \A u \in Thread : stack'[u][1] = stack[u][1],
         \A id \in SignalId : Kept(id) => Kept(id)',
         \A s \in Sig : slots'[s].on => slots[s].on
  PROVE  CallsOK'
<1> SUFFICES ASSUME NEW u \in Thread PROVE CallOK(stack[u][1])'
  BY DEF CallsOK
<1>1. SgTypeOK /\ ThreadsOK /\ CallsOK
  BY DEF SgInv
<1>2. PICK f \in FrameType : f = stack[u][1]
  BY <1>1, TopFacts
<1>3. CallOK(f)'
  BY <1>1, <1>2, CallKept DEF CallsOK
<1>4. stack'[u][1] = f
  BY <1>2
<1> QED BY <1>3, <1>4 DEF CallOK, Kept

\* The ids that were returned.
LEMMA KeptStep ==
  ASSUME SgInv, \A id \in SignalId : Kept(id) => Kept(id)',
         \A id \in returned' : id \in returned \/ Kept(id)'
  PROVE  RegistrationKept'
<1>1. \A id \in returned : Kept(id) /\ id \in SignalId
  BY DEF SgInv, SgTypeOK, RegistrationKept, Kept
<1>2. \A id \in returned' : Kept(id)'
  BY <1>1
<1> QED BY <1>2 DEF RegistrationKept, Kept

\* What a step that leaves the two tables alone keeps.
LEMMA SameTables ==
  ASSUME SgInv, UNCHANGED <<slots, gone>>
  PROVE  /\ \A id \in SignalId : Kept(id) => Kept(id)'
         /\ \A s \in Sig : slots'[s].on => slots[s].on
         /\ UNCHANGED returned => RegistrationKept'
BY DEF SgInv, Kept, RegistrationKept

\* A handler's frame goes on and nothing else but locks and ghosts changes.
LEMMA HandlerGoto ==
  ASSUME SgInv, NEW t \in Thread, Len(stack[t]) # 1,
         NEW p \in HandlerPc, Goto(t, p),
         p \in Lobby \/ Top(t).pc \notin Lobby \/ ~Entered(t),
         p \in {"user", "raise_out"} <=> Running(Top(t)),
         p \in {"eid_lock", "eid_get", "ecall"} /\ Below(t) => Top(t).sig \notin inner[t],
         UNCHANGED <<slots, gone, returned, inner, host, askew>>
  PROVE  /\ stack' \in [Thread -> Seq(FrameType)]
         /\ ThreadsOK' /\ CallsOK' /\ RegistrationKept'
         /\ \A u \in Thread : u # t => stack'[u] = stack[u]
         /\ stack'[t][1] = stack[t][1] /\ Top(t)'.pc = p
         /\ UNCHANGED actionLock /\ Top(t).pc # "dead" => LockOK'
<1>1. SgTypeOK /\ ThreadsOK /\ LockOK
  BY DEF SgInv
<1>2. PICK f \in FrameType : f = Top(t)
  BY <1>1, TopFacts
<1>3. PICK g \in FrameType : g = [f EXCEPT !.pc = p]
  BY <1>2, FrameGoto
<1>4. /\ g.pc = p /\ g.sig = f.sig /\ g.saved = f.saved /\ g.keep = f.keep
  BY <1>3, FrameGoto
<1>5. SetTop(t, g)
  BY <1>2, <1>3 DEF Goto
<1>6. /\ stack' \in [Thread -> Seq(FrameType)] /\ Top(t)' = g
      /\ \A u \in Thread : u # t => stack'[u] = stack[u]
      /\ stack'[t][1] = stack[t][1]
  BY <1>1, <1>5, SetTopFacts
<1>10. g.slot = f.slot /\ g.act = f.act
  BY <1>3, FrameGoto
<1>7. ThreadsOK'
  <2>1. /\ Below(t) /\ Faithful(f) => inner[t] \subseteq host[t]
        /\ HandlerMasks(f, host[t]) /\ (Below(t) => Unblocked(f, inner[t]))
    BY <1>2, HandlerFacts
  <2>2. HandlerMasks(g, host[t]) /\ (Below(t) => Unblocked(g, inner[t]))
    BY <2>1, <1>2, <1>4, <1>10 DEF HandlerMasks, Unblocked
  <2>3. (Running(g) <=> Running(f)) /\ (Faithful(g) <=> Faithful(f))
    BY <1>2, <1>4, <1>10 DEF Running, Faithful
  <2>4. inner' \in [Thread -> SUBSET Inside] /\ inner' = inner /\ host' = host
    BY <1>1 DEF SgTypeOK
  <2>5. g.pc \in Lobby \/ Top(t).pc \notin Lobby \/ ~Entered(t)
    BY <1>4
  <2>6. (IF Running(g) THEN g.keep ELSE inner'[t])
          = (IF Running(Top(t)) THEN Top(t).keep ELSE inner[t])
    BY <2>3, <2>4, <1>2, <1>4
  <2>7. Below(t) /\ Faithful(g) => inner'[t] \subseteq host[t]
    BY <2>1, <2>3, <2>4
  <2> QED BY <2>2, <2>4, <2>5, <2>6, <2>7, <1>2, <1>4, <1>5, HandlerStep
<1>8. CallsOK' /\ RegistrationKept'
  BY <1>6, CallsSame, SameTables
<1>9. ASSUME UNCHANGED actionLock, Top(t).pc # "dead" PROVE LockOK'
  <2>1. (Critical(stack[t][1]))' => Critical(stack[t][1])
    BY <1>6 DEF Critical, Looking
  <2>2. (Critical(stack[t][1]) /\ ~At(t, "dead"))' => actionLock' = t
    BY <2>1, <1>1, <1>9 DEF LockOK, At
  <2> QED BY <2>2, <1>6, <1>9, LockStep
<1> QED BY <1>4, <1>6, <1>7, <1>8, <1>9

\* The thread's own frame makes a call and the two tables are left alone.
LEMMA OwnCall ==
  ASSUME SgInv, NEW t \in Thread, Len(stack[t]) = 1,
         NEW g \in FrameType, SetTop(t, g), UNCHANGED <<slots, gone>>,
         CallOK(g), Critical(g) /\ g.pc # "dead" => actionLock' = t,
         actionLock \notin {t, NoThread} => actionLock' = actionLock,
         \A id \in returned' : id \in returned \/ Kept(id)
  PROVE  /\ stack' \in [Thread -> Seq(FrameType)]
         /\ CallsOK' /\ RegistrationKept' /\ LockOK'
<1>1. SgTypeOK /\ ThreadsOK
  BY DEF SgInv
<1>2. /\ stack' \in [Thread -> Seq(FrameType)] /\ Top(t)' = g
      /\ \A u \in Thread : u # t => stack'[u] = stack[u]
      /\ stack'[t][1] = g
  BY <1>1, SetTopFacts
<1>3. /\ \A id \in SignalId : Kept(id) => Kept(id)'
      /\ \A s \in Sig : slots'[s].on => slots[s].on
  BY SameTables
<1>4. CallOK(stack[t][1])'
  BY <1>2 DEF CallOK, Kept
<1>5. CallsOK'
  BY <1>2, <1>3, <1>4, CallsStep
<1>6. RegistrationKept'
  <2>1. \A id \in returned' : id \in returned \/ Kept(id)'
    BY DEF Kept
  <2> QED BY <2>1, <1>3, KeptStep
<1>7. LockOK'
  <2>1. (Critical(stack[t][1]) /\ ~At(t, "dead"))' => Critical(g) /\ g.pc # "dead"
    BY <1>2 DEF Critical, Looking, At
  <2> QED BY <2>1, <1>2, LockStep
<1> QED BY <1>2, <1>5, <1>6, <1>7

\* What is known of the own frame of a thread that runs no handler.
LEMMA OwnTop ==
  ASSUME SgInv, NEW t \in Thread, Len(stack[t]) = 1
  PROVE  /\ Top(t) \in FrameType /\ Top(t).pc \in OwnPc /\ CallOK(Top(t))
         /\ Critical(Top(t)) /\ Top(t).pc # "dead" => actionLock = t
         /\ actionLock \notin {t, NoThread} => ~Critical(Top(t)) \/ Top(t).pc = "dead"
<1>1. SgTypeOK /\ ThreadsOK /\ CallsOK /\ LockOK
  BY DEF SgInv
<1>2. Top(t) = stack[t][1] /\ Top(t) \in FrameType /\ Top(t).pc \in OwnPc
  BY <1>1, TopFacts
<1>3. CallOK(Top(t))
  BY <1>1, <1>2 DEF CallsOK
<1>4. Critical(Top(t)) /\ Top(t).pc # "dead" => actionLock = t
  BY <1>1, <1>2 DEF LockOK, At
<1> QED BY <1>2, <1>3, <1>4

\* Some places are only in a thread's own frame, others only in a handler's.
LEMMA WhereAt ==
  ASSUME SgInv, NEW t \in Thread
  PROVE  /\ Top(t) \in FrameType
         /\ Top(t).pc \in {"mask_out", "mask_ret", "set", "use", "unlock", "act_out",
              "reg_lock", "reg_insert", "reg_restore", "act_sys", "act_ret"}
              => Len(stack[t]) = 1
         /\ Top(t).pc \in {"eid_lock", "eid_get", "ecall", "handler", "reset", "sigreturn"}
              => Len(stack[t]) # 1 /\ Top(t).sig \in Sig
<1>1. SgTypeOK /\ ThreadsOK
  BY DEF SgInv
<1> QED BY <1>1, TopFacts DEF OwnPc, HandlerPc

-----------------------------------------------------------------------------
(***************************************************************************)
(* Each action keeps the invariant: handlers.                              *)
(***************************************************************************)

\* The dispatcher takes its mutex, and finds the enclave or not.
LEMMA EidLockKeeps ==
  ASSUME SgInv, NEW t \in Thread, EidLock(t)
  PROVE  SgInv'
<1>1. SgTypeOK
  BY DEF SgInv
<1>2. Top(t).pc = "eid_lock" /\ Goto(t, "eid_get")
  BY DEF EidLock, At
<1>3. Len(stack[t]) # 1
  BY <1>2, WhereAt
<1>4. Below(t) => Top(t).sig \notin inner[t]
  BY <1>2, <1>3, HandlerFacts DEF HandlerMasks, Unblocked
<1>5. UNCHANGED <<slots, gone, returned, inner, host, askew, actionLock>>
  BY DEF EidLock, mgrVars
<1>6. "eid_get" \in HandlerPc /\ ~Running(Top(t)) /\ "eid_get" \in Lobby
  BY <1>2 DEF HandlerPc, Running, Lobby
<1>7. /\ stack' \in [Thread -> Seq(FrameType)]
      /\ ThreadsOK' /\ CallsOK' /\ RegistrationKept' /\ LockOK'
  BY <1>2, <1>3, <1>4, <1>5, <1>6, HandlerGoto
<1>8. SgTypeOK'
  BY <1>1, <1>7 DEF SgTypeOK, EidLock, mgrVars
<1> QED BY <1>7, <1>8 DEF SgInv

LEMMA EidGetKeeps ==
  ASSUME SgInv, NEW t \in Thread, EidGet(t)
  PROVE  SgInv'
<1>1. SgTypeOK
  BY DEF SgInv
<1>2. PICK p \in {"ecall", "sigreturn"} : Top(t).pc = "eid_get" /\ Goto(t, p)
  BY DEF EidGet, At
<1>3. Len(stack[t]) # 1
  BY <1>2, WhereAt
<1>4. Below(t) => Top(t).sig \notin inner[t]
  BY <1>2, <1>3, HandlerFacts DEF HandlerMasks, Unblocked
<1>5. UNCHANGED <<slots, gone, returned, inner, host, askew, actionLock>>
  BY DEF EidGet, mgrVars
<1>6. p \in HandlerPc /\ ~Running(Top(t)) /\ p \notin {"user", "raise_out"} /\ p \in Lobby
  BY <1>2 DEF HandlerPc, Running, Lobby
<1>7. /\ stack' \in [Thread -> Seq(FrameType)]
      /\ ThreadsOK' /\ CallsOK' /\ RegistrationKept' /\ LockOK'
  BY <1>2, <1>3, <1>4, <1>5, <1>6, HandlerGoto
<1>8. SgTypeOK'
  BY <1>1, <1>7 DEF SgTypeOK, EidGet, mgrVars
<1> QED BY <1>7, <1>8 DEF SgInv

\* A signal is passed in only when the thread is not in the enclave below.
LEMMA EcallKeeps ==
  ASSUME SgInv, NEW t \in Thread, Ecall(t)
  PROVE  SgInv'
<1>1. SgTypeOK
  BY DEF SgInv
<1>2. Top(t).pc = "ecall"
  BY DEF Ecall, At
<1>3. Len(stack[t]) # 1
  BY <1>2, WhereAt
<1>4. PICK p \in {"handler", "sigreturn"} :
        Goto(t, p) /\ (p = "sigreturn" \/ ~Entered(t))
  BY DEF Ecall
<1>5. UNCHANGED <<slots, gone, returned, inner, host, askew, actionLock>>
  BY DEF Ecall, mgrVars, kernelVars
<1>6. /\ p \in HandlerPc /\ ~Running(Top(t))
      /\ p \notin {"user", "raise_out", "eid_lock", "eid_get", "ecall"}
  BY <1>2 DEF HandlerPc, Running
<1>7. p \in Lobby \/ ~Entered(t)
  BY <1>4 DEF Lobby
<1>8. /\ stack' \in [Thread -> Seq(FrameType)]
      /\ ThreadsOK' /\ CallsOK' /\ RegistrationKept' /\ LockOK'
  BY <1>2, <1>3, <1>4, <1>5, <1>6, <1>7, HandlerGoto
<1>9. SgTypeOK'
  BY <1>1, <1>8 DEF SgTypeOK, Ecall, mgrVars, kernelVars
<1> QED BY <1>8, <1>9 DEF SgInv

\* A step of a handler that is not dead leaves the lock with its holder.
LEMMA HandlerLock ==
  ASSUME SgInv, NEW t \in Thread, Top(t).pc # "dead", UNCHANGED actionLock,
         \A u \in Thread : u # t => stack'[u] = stack[u],
         stack'[t][1] = stack[t][1]
  PROVE  LockOK'
<1>1. (Critical(stack[t][1]))' => Critical(stack[t][1])
  BY DEF Critical, Looking
<1>2. (Critical(stack[t][1]) /\ ~At(t, "dead"))' => actionLock' = t
  BY <1>1 DEF SgInv, LockOK, At
<1> QED BY <1>2, LockStep

LEMMA GetActionKeeps ==
  ASSUME SgInv, NEW t \in Thread, GetAction(t)
  PROVE  SgInv'
<1>1. SgTypeOK /\ ThreadsOK
  BY DEF SgInv
<1>2. PICK f \in FrameType : f = Top(t) /\ f.pc = "handler"
  BY WhereAt DEF GetAction, At
<1>3. Len(stack[t]) # 1 /\ f.sig \in Sig
  BY <1>2, WhereAt
<1>4. PICK sl \in SlotType : sl = slots[f.sig]
  BY <1>1, <1>3 DEF SgTypeOK
<1>5. PICK p \in {"reset", "sigreturn"} : p = IF sl.on THEN "reset" ELSE "sigreturn"
  OBVIOUS
<1>6. PICK g \in FrameType : g = [f EXCEPT !.slot = sl, !.pc = p]
  BY DEF FrameType, HandlerPc
<1>7. g.pc = p /\ g.act = f.act /\ g.sig = f.sig /\ g.saved = f.saved /\ g.keep = f.keep
  BY <1>6 DEF FrameType
<1>8. SetTop(t, g)
  BY <1>2, <1>4, <1>5, <1>6 DEF GetAction
<1>9. UNCHANGED <<slots, gone, returned, inner, host, askew, actionLock>>
  BY DEF GetAction, mgrVars, kernelVars
<1>10. /\ stack' \in [Thread -> Seq(FrameType)]
       /\ \A u \in Thread : u # t => stack'[u] = stack[u]
       /\ stack'[t][1] = stack[t][1]
  BY <1>1, <1>3, <1>8, SetTopFacts
<1>11. ThreadsOK'
  <2>1. /\ Below(t) /\ Faithful(f) => inner[t] \subseteq host[t]
        /\ HandlerMasks(f, host[t]) /\ (Below(t) => Unblocked(f, inner[t]))
    BY <1>2, <1>3, HandlerFacts
  <2>2. HandlerMasks(g, host[t]) /\ (Below(t) => Unblocked(g, inner[t]))
    BY <2>1, <1>5, <1>7 DEF HandlerMasks, Unblocked
  <2>3. ~Running(g) /\ ~Running(f) /\ Faithful(f) /\ g.pc \in HandlerPc
    BY <1>2, <1>5, <1>7 DEF Running, Faithful, HandlerPc
  <2>4. inner' \in [Thread -> SUBSET Inside] /\ inner' = inner /\ host' = host
    BY <1>1, <1>9 DEF SgTypeOK
  <2>5. Top(t).pc \notin Lobby
    BY <1>2 DEF Lobby
  <2> QED BY <2>1, <2>2, <2>3, <2>4, <2>5, <1>2, <1>3, <1>7, <1>8, <1>9, HandlerStep
<1>12. CallsOK' /\ RegistrationKept'
  BY <1>9, <1>10, CallsSame, SameTables
<1>13. LockOK'
  BY <1>2, <1>9, <1>10, HandlerLock
<1>14. SgTypeOK'
  BY <1>1, <1>10 DEF SgTypeOK, GetAction, mgrVars, kernelVars
<1> QED BY <1>11, <1>12, <1>13, <1>14 DEF SgInv

\* Taking a slot out of the table, with its ids.
LEMMA SlotTaken ==
  ASSUME SgInv, NEW s \in Sig, slots' = [slots EXCEPT ![s] = NoSlot],
         gone' = gone \cup Ids(s)
  PROVE  /\ slots' \in [Sig -> SlotType] /\ gone' \subseteq SignalId
         /\ \A id \in SignalId : Kept(id) => Kept(id)'
         /\ \A r \in Sig : slots'[r].on => slots[r].on
<1>1. slots \in [Sig -> SlotType] /\ gone \subseteq SignalId
  BY DEF SgInv, SgTypeOK
<1>2. NoSlot \in SlotType /\ NoSlot.on = FALSE /\ NoSlot.mask = {}
  BY DEF NoSlot, SlotType
<1>3. slots[s].acts \subseteq Nat
  BY <1>1 DEF SlotType
<1>4. Ids(s) \subseteq SignalId
  BY <1>3 DEF Ids, SignalId
<1>5. slots' \in [Sig -> SlotType] /\ gone' \subseteq SignalId
  BY <1>1, <1>2, <1>4
<1>6. ASSUME NEW id \in SignalId, Kept(id) PROVE Kept(id)'
  <2>1. id.signal \in Sig /\ id.action \in Nat
        /\ id = [signal |-> id.signal, action |-> id.action]
    BY DEF SignalId
  <2>2. CASE id \in gone
    BY <2>2 DEF Kept
  <2>3. CASE id \notin gone /\ id.signal = s
    <3>1. id.action \in slots[s].acts
      BY <2>3, <1>6 DEF Kept
    <3>2. id \in Ids(s)
      BY <2>1, <2>3, <3>1 DEF Ids
    <3> QED BY <3>2 DEF Kept
  <2>4. CASE id \notin gone /\ id.signal # s
    <3>1. slots'[id.signal] = slots[id.signal]
      BY <2>1, <2>4, <1>1
    <3> QED BY <2>4, <3>1, <1>6 DEF Kept
  <2> QED BY <2>2, <2>3, <2>4
<1>7. \A r \in Sig : slots'[r].on => slots[r].on
  BY <1>1, <1>2
<1> QED BY <1>5, <1>6, <1>7

LEMMA ResetKeeps ==
  ASSUME SgInv, NEW t \in Thread, ResetOnHandle(t)
  PROVE  SgInv'
<1>1. SgTypeOK /\ ThreadsOK
  BY DEF SgInv
<1>2. PICK f \in FrameType : f = Top(t) /\ f.pc = "reset"
  BY WhereAt DEF ResetOnHandle, At
<1>3. Len(stack[t]) # 1 /\ f.sig \in Sig
  BY <1>2, WhereAt
<1>4. /\ inner[t] \in SUBSET Inside
      /\ Below(t) /\ Faithful(f) => inner[t] \subseteq host[t]
      /\ HandlerMasks(f, host[t]) /\ (Below(t) => Unblocked(f, inner[t]))
  BY <1>2, <1>3, HandlerFacts
<1>5. PICK g \in FrameType : g = [f EXCEPT !.pc = "user", !.keep = inner[t]]
  BY <1>4 DEF FrameType, HandlerPc
<1>6. g.pc = "user" /\ g.sig = f.sig /\ g.saved = f.saved /\ g.keep = inner[t]
      /\ g.slot = f.slot /\ g.act = f.act
  BY <1>5 DEF FrameType
<1>7. SetTop(t, g)
  BY <1>2, <1>5 DEF ResetOnHandle
<1>8. UNCHANGED <<returned, host, askew, actionLock>>
  BY DEF ResetOnHandle, kernelVars
<1>9. /\ stack' \in [Thread -> Seq(FrameType)]
      /\ \A u \in Thread : u # t => stack'[u] = stack[u]
      /\ stack'[t][1] = stack[t][1]
  BY <1>1, <1>3, <1>7, SetTopFacts
<1>10. inner' = [inner EXCEPT ![t] = @ \cup Blockable(f.slot.mask)]
  BY <1>2 DEF ResetOnHandle
<1>11. Blockable(f.slot.mask) \in SUBSET Inside
  <2>1. f.slot.mask \in SUBSET Sig
    BY DEF FrameType, SlotType
  <2> QED BY <2>1 DEF Blockable, Inside
<1>12. /\ inner' \in [Thread -> SUBSET Inside]
       /\ \A u \in Thread : u # t => inner'[u] = inner[u]
       /\ inner'[t] = inner[t] \cup Blockable(f.slot.mask)
  BY <1>1, <1>10, <1>11 DEF SgTypeOK
<1>13. ThreadsOK'
  <2>3. Running(g) /\ ~Running(f) /\ g.pc \in HandlerPc
    BY <1>2, <1>6 DEF Running, HandlerPc
  <2>1. ASSUME Below(t), Faithful(g) PROVE inner'[t] \subseteq host[t]
    <3>1. Faithful(f) /\ Blockable(f.slot.mask) \subseteq f.act.mask
      BY <2>1, <2>3, <1>6 DEF Faithful
    <3>2. inner[t] \subseteq host[t] /\ f.act.mask \subseteq host[t]
      BY <2>1, <3>1, <1>4 DEF HandlerMasks, Unblocked
    <3> QED BY <3>1, <3>2, <1>12
  <2>2. HandlerMasks(g, host[t]) /\ (Below(t) => Unblocked(g, inner'[t]))
    BY <1>4, <1>6 DEF HandlerMasks, Unblocked
  <2>4. Top(t).pc \notin Lobby
    BY <1>2 DEF Lobby
  <2> QED BY <2>1, <2>2, <2>3, <2>4, <1>2, <1>3, <1>6, <1>7, <1>8, <1>12, HandlerStep
<1>14. /\ slots' \in [Sig -> SlotType] /\ gone' \subseteq SignalId
       /\ \A id \in SignalId : Kept(id) => Kept(id)'
       /\ \A r \in Sig : slots'[r].on => slots[r].on
      
  <2>1. CASE f.sig \in resetSet
    <3>1. slots' = [slots EXCEPT ![f.sig] = NoSlot] /\ gone' = gone \cup Ids(f.sig)
      BY <2>1, <1>2 DEF ResetOnHandle
    <3> QED BY <3>1, <1>3, <1>8, SlotTaken
  <2>2. CASE f.sig \notin resetSet
    <3>1. slots' = slots /\ gone' = gone
      BY <2>2, <1>2 DEF ResetOnHandle
    <3> QED BY <3>1, <1>1, <1>8, SameTables DEF SgTypeOK
  <2> QED BY <2>1, <2>2
<1>15. CallsOK'
  BY <1>9, <1>14, CallsSame
<1>16. RegistrationKept'
  BY <1>8, <1>14, KeptStep
<1>17. LockOK'
  BY <1>2, <1>8, <1>9, HandlerLock
<1>18. SgTypeOK'
  BY <1>1, <1>9, <1>12, <1>14 DEF SgTypeOK, ResetOnHandle, kernelVars
<1> QED BY <1>13, <1>14, <1>15, <1>16, <1>17, <1>18 DEF SgInv

\* The handler gives back the mask it found inside.
LEMMA HandlerReturnsKeeps ==
  ASSUME SgInv, NEW t \in Thread, HandlerReturns(t)
  PROVE  SgInv'
<1>1. SgTypeOK /\ ThreadsOK
  BY DEF SgInv
<1>2. PICK f \in FrameType : f = Top(t) /\ f.pc = "user"
  BY WhereAt DEF HandlerReturns, At
<1>3. Len(stack[t]) # 1
  <2>1. PICK m \in Nat : m = Len(stack[t])
    BY <1>1, TopFacts
  <2>2. m > 1
    BY <2>1 DEF HandlerReturns
  <2>3. m # 1
    BY <2>2
  <2> QED BY <2>1, <2>3
<1>4. /\ HandlerMasks(f, host[t]) /\ (Below(t) => Unblocked(f, inner[t]))
      /\ Below(t) => f.keep \subseteq f.saved
      /\ f.saved \cup f.act.mask \subseteq host[t] /\ f.keep \in SUBSET Inside
  BY <1>2, <1>3, HandlerFacts DEF HandlerMasks, Unblocked, Running, FrameType
<1>5. PICK g \in FrameType : g = [f EXCEPT !.pc = "sigreturn"]
  BY DEF FrameType, HandlerPc
<1>6. g.pc = "sigreturn" /\ g.sig = f.sig /\ g.saved = f.saved /\ g.act = f.act
  BY <1>5 DEF FrameType
<1>7. SetTop(t, g)
  BY <1>2, <1>5 DEF HandlerReturns, Goto
<1>8. UNCHANGED <<slots, gone, returned, host, askew, actionLock>>
  BY DEF HandlerReturns, mgrVars, kernelVars
<1>9. /\ stack' \in [Thread -> Seq(FrameType)]
      /\ \A u \in Thread : u # t => stack'[u] = stack[u]
      /\ stack'[t][1] = stack[t][1]
  BY <1>1, <1>3, <1>7, SetTopFacts
<1>10. inner' = [inner EXCEPT ![t] = f.keep]
  BY <1>2 DEF HandlerReturns
<1>11. /\ inner' \in [Thread -> SUBSET Inside] /\ inner'[t] = f.keep
       /\ \A u \in Thread : u # t => inner'[u] = inner[u]
  BY <1>1, <1>4, <1>10 DEF SgTypeOK
<1>12. ThreadsOK'
  <2>1. Below(t) => inner'[t] \subseteq host[t]
    BY <1>4, <1>11
  <2>2. HandlerMasks(g, host[t]) /\ (Below(t) => Unblocked(g, inner'[t]))
    BY <1>4, <1>6 DEF HandlerMasks, Unblocked
  <2>3. ~Running(g) /\ Running(f) /\ g.pc \in HandlerPc
    BY <1>2, <1>6 DEF Running, HandlerPc
  <2>4. g.pc \in Lobby
    BY <1>6 DEF Lobby
  <2> QED BY <2>1, <2>2, <2>3, <2>4, <1>2, <1>3, <1>6, <1>7, <1>8, <1>11, HandlerStep
<1>13. CallsOK' /\ RegistrationKept'
  BY <1>8, <1>9, CallsSame, SameTables
<1>14. LockOK'
  BY <1>2, <1>8, <1>9, HandlerLock
<1>15. SgTypeOK'
  BY <1>1, <1>9, <1>11 DEF SgTypeOK, HandlerReturns, mgrVars, kernelVars
<1> QED BY <1>12, <1>13, <1>14, <1>15 DEF SgInv

\* The kernel puts back the mask it saved.
LEMMA SigreturnKeeps ==
  ASSUME SgInv, NEW t \in Thread, Sigreturn(t)
  PROVE  SgInv'
<1>1. SgTypeOK /\ ThreadsOK
  BY DEF SgInv
<1>2. PICK f \in FrameType : f = Top(t) /\ f.pc = "sigreturn"
  BY WhereAt DEF Sigreturn, At
<1>3. Len(stack[t]) # 1
  BY <1>2, WhereAt
<1>4. PICK st \in Seq(FrameType), i \in SUBSET Inside, h \in SUBSET Sig, a \in SUBSET Thread :
        st = stack[t] /\ i = inner[t] /\ h = host[t] /\ a = Askew(t)
  BY <1>1 DEF SgTypeOK, Askew
<1>5. StackOK(st) /\ MasksOK(st, i, h, a) /\ st[Len(st)] = f /\ Len(st) # 1
  BY <1>1, <1>2, <1>3, <1>4, TopFacts DEF ThreadsOK
<1>6. ~Running(f)
  BY <1>2 DEF Running
<1>7. PICK nt \in Seq(FrameType) :
        /\ nt = Front(st) /\ \A n \in 1 .. Len(st) - 1 : nt[n] = st[n]
        /\ StackOK(nt) /\ MasksOK(nt, i, f.saved, a)
  BY <1>5, <1>6, PopHandler
<1>8. nt[1] = st[1]
  <2>1. 1 \in 1 .. Len(st) - 1
    BY <1>5, StackLen
  <2> QED BY <2>1, <1>7
<1>9. stack' = [stack EXCEPT ![t] = nt]
  BY <1>4, <1>7 DEF Sigreturn
<1>10. /\ stack' \in [Thread -> Seq(FrameType)] /\ stack'[t] = nt
       /\ \A u \in Thread : u # t => stack'[u] = stack[u]
  BY <1>1, <1>9 DEF SgTypeOK
<1>11. host' = [host EXCEPT ![t] = f.saved] /\ f.saved \in SUBSET Sig
  BY <1>2 DEF Sigreturn, FrameType
<1>12. /\ host' \in [Thread -> SUBSET Sig] /\ host'[t] = f.saved
       /\ \A u \in Thread : u # t => host'[u] = host[u]
  BY <1>1, <1>11 DEF SgTypeOK
<1>13. UNCHANGED <<slots, gone, returned, inner, actionLock, askew>>
  BY DEF Sigreturn, mgrVars, kernelVars
<1>14. ThreadsOK'
  <2>1. \A u \in Thread : Askew(u)' = Askew(u)
    BY <1>13 DEF Askew
  <2> QED BY <2>1, <1>1, <1>4, <1>7, <1>10, <1>12, <1>13 DEF ThreadsOK
<1>15. \A u \in Thread : stack'[u][1] = stack[u][1]
  BY <1>4, <1>8, <1>10
<1>16. CallsOK' /\ RegistrationKept'
  BY <1>13, <1>15, CallsSame, SameTables
<1>17. LockOK'
  BY <1>2, <1>10, <1>13, <1>15, HandlerLock
<1>18. SgTypeOK'
  BY <1>1, <1>10, <1>12 DEF SgTypeOK, Sigreturn, mgrVars, kernelVars
<1> QED BY <1>14, <1>16, <1>17, <1>18 DEF SgInv

\* A signal is delivered: to a thread that is not registering, since that
\* one has everything blocked.
LEMMA DeliverKeeps ==
  ASSUME SgInv, NEW t \in Thread, NEW s \in Sig, Deliver(t, s)
  PROVE  SgInv'
<1>1. SgTypeOK /\ ThreadsOK /\ LockOK
  BY DEF SgInv
<1>2. PICK f \in FrameType : f = Top(t) /\ f.pc # "dead"
  BY WhereAt DEF Deliver, At
<1>3. PICK st \in Seq(FrameType), i \in SUBSET Inside, h \in SUBSET Sig, a \in SUBSET Thread :
        st = stack[t] /\ i = inner[t] /\ h = host[t] /\ a = Askew(t)
  BY <1>1 DEF SgTypeOK, Askew
<1>4. StackOK(st) /\ MasksOK(st, i, h, a) /\ st[Len(st)] = f
  BY <1>1, <1>2, <1>3, TopFacts DEF ThreadsOK
<1>5. s \notin h
  BY <1>3 DEF Deliver
<1>6. f.pc \notin RegPc
  <2> SUFFICES ASSUME f.pc \in RegPc PROVE FALSE
    OBVIOUS
  <2>1. Len(stack[t]) = 1
    BY <1>2, WhereAt DEF RegPc
  <2>2. host[t] = Sig
    BY <2>1, <1>2, OwnFacts DEF OwnMasks
  <2> QED BY <2>2, <1>3, <1>5
<1>7. UNCHANGED <<slots, gone, returned, inner, actionLock, askew>>
  BY DEF Deliver, mgrVars
<1>8. pending' \in [Thread -> SUBSET Sig]
  BY <1>1 DEF Deliver, SgTypeOK
<1>9. CASE disp[s].on
  <2>7. PICK dm \in SUBSET Sig : dm = disp[s].mask
    BY <1>1 DEF SgTypeOK
  <2>1. PICK g \in FrameType :
          g = [Frame(s, "eid_lock") EXCEPT !.saved = h, !.act.mask = dm]
    <3>1. Frame(s, "eid_lock") \in FrameType
      BY FrameNew DEF HandlerPc
    <3> QED BY <3>1 DEF FrameType, ActType
  <2>2. g.pc = "eid_lock" /\ g.sig = s /\ g.saved = h /\ g.act.mask = dm
    <3>1. Frame(s, "eid_lock").pc = "eid_lock" /\ Frame(s, "eid_lock").sig = s
          /\ Frame(s, "eid_lock") \in FrameType
      BY FrameNew DEF HandlerPc
    <3> QED BY <2>1, <3>1 DEF FrameType, ActType
  <2>3. stack' = [stack EXCEPT ![t] = Append(st, g)]
    BY <1>3, <1>9, <2>1, <2>7 DEF Deliver
  <2>4. PICK nt \in Seq(FrameType) : nt = Append(st, g)
    <3>1. Append(st, g) \in Seq(FrameType)
      OBVIOUS
    <3> QED BY <3>1
  <2>5. nt[1] = st[1]
    <3>1. Len(st) \in Nat /\ Len(st) >= 1
      BY <1>4, StackLen
    <3> QED BY <2>4, <3>1
  <2>6. /\ stack' \in [Thread -> Seq(FrameType)] /\ stack'[t] = nt
        /\ \A u \in Thread : u # t => stack'[u] = stack[u]
    BY <2>3, <2>4, <1>1 DEF SgTypeOK
  <2>8. PICK k \in SUBSET Sig : k = h \cup dm \cup {s}
    OBVIOUS
  <2>9. host' = [host EXCEPT ![t] = k]
    BY <1>3, <1>9, <2>7, <2>8 DEF Deliver
  <2>10. /\ host' \in [Thread -> SUBSET Sig] /\ host'[t] = k
         /\ \A u \in Thread : u # t => host'[u] = host[u]
    BY <2>9, <1>1 DEF SgTypeOK
  <2>11. StackOK(nt) /\ MasksOK(nt, i, k, a)
    <3>1. g.sig \notin h /\ h \cup g.act.mask \subseteq k /\ g.sig \in Sig
      BY <2>2, <2>8, <1>5
    <3>2. st[Len(st)].pc \notin RegPc
      BY <1>4, <1>6
    <3>3. StackOK(Append(st, g)) /\ MasksOK(Append(st, g), i, k, a)
      BY <3>1, <3>2, <2>2, <1>4, PushHandler
    <3> QED BY <2>4, <3>3
  <2>12. ThreadsOK'
    <3>1. \A u \in Thread : Askew(u)' = Askew(u)
      BY <1>7 DEF Askew
    <3> QED BY <3>1, <1>1, <1>3, <1>7, <2>6, <2>10, <2>11 DEF ThreadsOK
  <2>13. \A u \in Thread : stack'[u][1] = stack[u][1]
    BY <1>3, <2>5, <2>6
  <2>14. CallsOK' /\ RegistrationKept'
    BY <1>7, <2>13, CallsSame, SameTables
  <2>15. LockOK'
    BY <1>2, <1>7, <2>6, <2>13, HandlerLock
  <2>16. disp' = [disp EXCEPT ![s] = IF @.reset THEN SigDfl ELSE @]
    BY <1>9 DEF Deliver
  <2>17. SigDfl \in [on : BOOLEAN, mask : SUBSET Sig, reset : BOOLEAN] /\ ~SigDfl.on
    BY DEF SigDfl
  <2>18. disp' \in [Sig -> [on : BOOLEAN, mask : SUBSET Sig, reset : BOOLEAN]]
    BY <1>1, <2>16, <2>17 DEF SgTypeOK
  <2>20. SgTypeOK'
    BY <1>1, <1>8, <1>9, <2>6, <2>10, <2>18
       DEF SgTypeOK, Deliver, mgrVars
  <2> QED BY <2>12, <2>14, <2>15, <2>20 DEF SgInv
<1>10. CASE ~disp[s].on
  <2>1. UNCHANGED <<stack, host, disp>> /\ alive' = FALSE
    BY <1>10 DEF Deliver
  <2>2. ThreadsOK' /\ LockOK'
    BY <1>1, <1>7, <2>1 DEF ThreadsOK, LockOK, At, Top, Askew
  <2>3. CallsOK' /\ RegistrationKept'
    BY <1>7, <2>1, CallsSame, SameTables
  <2>4. SgTypeOK'
    BY <1>1, <1>8, <2>1 DEF SgTypeOK, Deliver, mgrVars
  <2> QED BY <2>2, <2>3, <2>4 DEF SgInv
<1> QED BY <1>9, <1>10

-----------------------------------------------------------------------------
(***************************************************************************)
(* Each action keeps the invariant: any frame.                             *)
(***************************************************************************)

\* Signals are raised by the thread's own code and by handlers.
LEMMA RaiseKeeps ==
  ASSUME SgInv, NEW t \in Thread,
         (\E s \in Sig : Raise(t, s)) \/ RaiseReturns(t)
  PROVE  SgInv'
<1>1. SgTypeOK /\ ThreadsOK
  BY DEF SgInv
<1>2. PICK p \in {"user", "raise_out"} :
        Top(t).pc \in {"user", "raise_out"} /\ Goto(t, p)
  BY DEF Raise, RaiseReturns, At
<1>3. UNCHANGED <<slots, gone, returned, inner, host, askew, actionLock>>
  BY DEF Raise, RaiseReturns, mgrVars, kernelVars
<1> DEFINE Goal == /\ stack' \in [Thread -> Seq(FrameType)] /\ ThreadsOK' /\ CallsOK'
                   /\ RegistrationKept' /\ LockOK'
<1>4. Goal
  <2>1. CASE Len(stack[t]) # 1
    <3>1. p \in HandlerPc /\ Running(Top(t)) /\ Top(t).pc \notin Lobby
      BY <1>2 DEF HandlerPc, Running, Lobby
    <3> QED BY <1>2, <1>3, <2>1, <3>1, HandlerGoto
  <2>2. CASE Len(stack[t]) = 1
    <3>1. PICK f \in FrameType : f = Top(t)
      BY WhereAt
    <3>2. PICK g \in FrameType : g = [f EXCEPT !.pc = p]
      BY FrameGoto DEF OwnPc
    <3>3. /\ g.pc = p /\ g.slot = f.slot /\ g.about = f.about /\ g.op = f.op
      BY <3>2 DEF FrameType
    <3>4. SetTop(t, g)
      BY <1>2, <3>1, <3>2 DEF Goto
    <3>5. CallOK(g) /\ ~Critical(g)
      BY <1>2, <2>2, <3>1, <3>3, OwnTop
         DEF CallOK, Idle, Looking, Critical, MaskPc
    <3>6. /\ OwnMasks(g, inner[t], host[t], Askew(t))
          /\ Askew(t) = {} => inner[t] \subseteq host[t]
      BY <1>2, <2>2, <3>1, <3>3, OwnFacts DEF OwnMasks, MaskPc, RegPc
    <3>7. inner' \in [Thread -> SUBSET Inside] /\ host' \in [Thread -> SUBSET Sig]
          /\ inner' = inner /\ host' = host /\ \A u \in Thread : Askew(u)' = Askew(u)
      BY <1>1, <1>3 DEF SgTypeOK, Askew
    <3>8. ThreadsOK'
      BY <1>2, <2>2, <3>3, <3>4, <3>6, <3>7, OwnStep DEF OwnPc
    <3>9. stack' \in [Thread -> Seq(FrameType)] /\ CallsOK' /\ RegistrationKept' /\ LockOK'
      BY <1>3, <2>2, <3>4, <3>5, OwnCall
    <3> QED BY <3>8, <3>9
  <2> QED BY <2>1, <2>2
<1>5. SgTypeOK'
  <2>1. ASSUME NEW s \in Sig, Raise(t, s)
        PROVE  pending' \in [Thread -> SUBSET Sig] /\ raised' \in Nat
    BY <1>1, <2>1 DEF SgTypeOK, Raise
  <2>2. RaiseReturns(t) => pending' = pending /\ raised' = raised
    BY DEF RaiseReturns, kernelVars
  <2>3. pending' \in [Thread -> SUBSET Sig] /\ raised' \in Nat
    BY <1>1, <2>1, <2>2 DEF SgTypeOK
  <2>4. /\ UNCHANGED <<mgrVars, disp, table, dispLock, alive>>
        /\ UNCHANGED <<inner, host, calls, askew>>
    BY DEF Raise, RaiseReturns, kernelVars
  <2> QED BY <1>1, <1>4, <2>3, <2>4 DEF SgTypeOK, mgrVars
<1> QED BY <1>4, <1>5 DEF SgInv

\* A signal from elsewhere, and unregister: the stacks stay as they are.
LEMMA ArriveKeeps ==
  ASSUME SgInv, NEW t \in Thread, NEW s \in Sig, Arrive(t, s)
  PROVE  SgInv'
<1>1. SgTypeOK /\ ThreadsOK /\ LockOK
  BY DEF SgInv
<1>2. UNCHANGED <<slots, gone, returned, inner, host, askew, actionLock, stack>>
  BY DEF Arrive, mgrVars
<1>3. ThreadsOK' /\ LockOK'
  BY <1>1, <1>2 DEF ThreadsOK, LockOK, At, Top, Askew
<1>4. CallsOK' /\ RegistrationKept'
  BY <1>2, CallsSame, SameTables
<1>5. SgTypeOK'
  BY <1>1 DEF SgTypeOK, Arrive, mgrVars
<1> QED BY <1>3, <1>4, <1>5 DEF SgInv

LEMMA UnregisterSignalKeeps ==
  ASSUME SgInv, NEW t \in Thread, NEW s \in Sig, UnregisterSignal(t, s)
  PROVE  SgInv'
<1>1. SgTypeOK /\ ThreadsOK /\ LockOK
  BY DEF SgInv
<1>2. UNCHANGED <<returned, inner, host, askew, actionLock, stack>>
  BY DEF UnregisterSignal, kernelVars
<1>3. ThreadsOK' /\ LockOK'
  BY <1>1, <1>2 DEF ThreadsOK, LockOK, At, Top, Askew
<1>4. slots' = [slots EXCEPT ![s] = NoSlot] /\ gone' = gone \cup Ids(s)
  BY DEF UnregisterSignal
<1>5. /\ slots' \in [Sig -> SlotType] /\ gone' \subseteq SignalId
      /\ \A id \in SignalId : Kept(id) => Kept(id)'
      /\ \A r \in Sig : slots'[r].on => slots[r].on
     
  BY <1>2, <1>4, SlotTaken
<1>6. CallsOK' /\ RegistrationKept'
  BY <1>2, <1>5, CallsSame, KeptStep
<1>7. SgTypeOK'
  BY <1>1, <1>5 DEF SgTypeOK, UnregisterSignal, kernelVars
<1> QED BY <1>3, <1>5, <1>6, <1>7 DEF SgInv

LEMMA UnregisterKeeps ==
  ASSUME SgInv, NEW t \in Thread, NEW x \in returned, Unregister(t, x)
  PROVE  SgInv'
<1>1. SgTypeOK /\ ThreadsOK /\ LockOK
  BY DEF SgInv
<1>2. UNCHANGED <<returned, inner, host, askew, actionLock, stack>>
  BY DEF Unregister, kernelVars
<1>3. ThreadsOK' /\ LockOK'
  BY <1>1, <1>2 DEF ThreadsOK, LockOK, At, Top, Askew
<1>4. x \in SignalId /\ x.signal \in Sig /\ x.action \in Nat
  BY <1>1 DEF SgTypeOK, SignalId
<1>5. slots \in [Sig -> SlotType] /\ gone \subseteq SignalId
  BY <1>1 DEF SgTypeOK
<1>6. slots' = [slots EXCEPT ![x.signal].acts = @ \ {x.action}]
      /\ gone' = gone \cup {x}
  BY DEF Unregister
<1>7. /\ slots' \in [Sig -> SlotType] /\ gone' \subseteq SignalId
      /\ \A r \in Sig : r # x.signal => slots'[r] = slots[r]
      /\ slots'[x.signal].on = slots[x.signal].on
      /\ slots'[x.signal].mask = slots[x.signal].mask
      /\ slots'[x.signal].acts = slots[x.signal].acts \ {x.action}
  BY <1>4, <1>5, <1>6 DEF SlotType
<1>8. ASSUME NEW id \in SignalId, Kept(id) PROVE Kept(id)'
  <2>1. CASE id \in gone'
    BY <2>1 DEF Kept
  <2>2. CASE id \notin gone'
    <3>1. id # x /\ id \notin gone
      BY <2>2, <1>6
    <3>2. slots[id.signal].on /\ id.action \in slots[id.signal].acts
      BY <3>1, <1>8 DEF Kept
    <3>3. id.signal \in Sig /\ (id.signal # x.signal \/ id.action # x.action)
      BY <3>1, <1>4 DEF SignalId
    <3>4. slots'[id.signal].on /\ id.action \in slots'[id.signal].acts
      BY <3>2, <3>3, <1>7
    <3> QED BY <3>4 DEF Kept
  <2> QED BY <2>1, <2>2
<1>9. \A r \in Sig : slots'[r].on => slots[r].on
  BY <1>7
<1>11. CallsOK' /\ RegistrationKept'
  BY <1>2, <1>8, <1>9, CallsSame, KeptStep
<1>12. SgTypeOK'
  BY <1>1, <1>7 DEF SgTypeOK, Unregister, kernelVars
<1> QED BY <1>3, <1>11, <1>12 DEF SgInv

\* A thread that panics gives up signal_action_lock, if it has it.
LEMMA PanicsKeeps ==
  ASSUME SgInv, NEW t \in Thread, Panics(t)
  PROVE  SgInv'
<1>1. SgTypeOK /\ ThreadsOK
  BY DEF SgInv
<1>2. Top(t).pc \in {"set", "use", "handler", "reset"} /\ Goto(t, "dead")
  BY DEF Panics, At
<1>3. UNCHANGED <<slots, gone, returned, inner, host, askew>>
  BY DEF Panics, kernelVars
<1>4. actionLock' \in Thread \cup {NoThread}
      /\ (actionLock \notin {t, NoThread} => actionLock' = actionLock)
  BY <1>1 DEF Panics, SgTypeOK
<1> DEFINE Goal == /\ stack' \in [Thread -> Seq(FrameType)] /\ ThreadsOK' /\ CallsOK'
                   /\ RegistrationKept' /\ LockOK'
<1>5. Goal
  <2>1. CASE Len(stack[t]) # 1
    <3>1. Top(t).pc \in {"handler", "reset"}
      BY <1>2, <2>1, WhereAt
    <3>2. "dead" \in HandlerPc /\ ~Running(Top(t)) /\ Top(t).pc \notin Lobby
      BY <3>1 DEF HandlerPc, Running, Lobby
    <3>3. /\ stack' \in [Thread -> Seq(FrameType)]
          /\ ThreadsOK' /\ CallsOK' /\ RegistrationKept'
          /\ \A u \in Thread : u # t => stack'[u] = stack[u]
          /\ Top(t)'.pc = "dead"
      BY <1>2, <1>3, <2>1, <3>2, HandlerGoto
    <3>4. (At(t, "dead"))'
      BY <3>3 DEF At
    <3> QED BY <3>3, <3>4, <1>4, LockStep
  <2>2. CASE Len(stack[t]) = 1
    <3>1. PICK f \in FrameType : f = Top(t) /\ f.pc \in {"set", "use"}
      BY <1>2, <2>2, WhereAt
    <3>2. PICK g \in FrameType : g = [f EXCEPT !.pc = "dead"]
      BY FrameGoto DEF OwnPc
    <3>3. /\ g.pc = "dead" /\ g.slot = f.slot /\ g.about = f.about /\ g.op = f.op
      BY <3>2 DEF FrameType
    <3>4. SetTop(t, g)
      BY <1>2, <3>1, <3>2 DEF Goto
    <3>5. CallOK(g)
      BY <2>2, <3>1, <3>3, OwnTop DEF CallOK, Idle, Looking, MaskPc
    <3>6. /\ OwnMasks(g, inner[t], host[t], Askew(t))
          /\ Askew(t) = {} => inner[t] \subseteq host[t]
      BY <2>2, <3>3, OwnFacts DEF OwnMasks, RegPc
    <3>7. inner' \in [Thread -> SUBSET Inside] /\ host' \in [Thread -> SUBSET Sig]
          /\ inner' = inner /\ host' = host /\ \A u \in Thread : Askew(u)' = Askew(u)
      BY <1>1, <1>3 DEF SgTypeOK, Askew
    <3>8. ThreadsOK'
      BY <2>2, <3>3, <3>4, <3>6, <3>7, OwnStep DEF OwnPc
    <3>9. stack' \in [Thread -> Seq(FrameType)] /\ CallsOK' /\ RegistrationKept' /\ LockOK'
      BY <1>3, <1>4, <2>2, <3>3, <3>4, <3>5, OwnCall
    <3> QED BY <3>8, <3>9
  <2> QED BY <2>1, <2>2
<1>6. SgTypeOK'
  BY <1>1, <1>4, <1>5 DEF SgTypeOK, Panics, kernelVars
<1> QED BY <1>5, <1>6 DEF SgInv

-----------------------------------------------------------------------------
(***************************************************************************)
(* Each action keeps the invariant: the thread's own calls.                *)
(***************************************************************************)

\* A call that leaves the table alone: the masks and the call by themselves.
LEMMA OwnKeeps ==
  ASSUME SgInv, NEW t \in Thread, Len(stack[t]) = 1,
         NEW g \in FrameType, SetTop(t, g), g.pc \in OwnPc,
         NEW i \in SUBSET Inside, NEW h \in SUBSET Sig, NEW a,
         inner' = [inner EXCEPT ![t] = i], host' = [host EXCEPT ![t] = h],
         a = Askew(t)', \A u \in Thread : u # t => Askew(u)' = Askew(u),
         a = {} => i \subseteq h, OwnMasks(g, i, h, a),
         UNCHANGED <<slots, gone>>, CallOK(g),
         Critical(g) /\ g.pc # "dead" => actionLock' = t,
         actionLock \notin {t, NoThread} => actionLock' = actionLock,
         \A id \in returned' : id \in returned \/ Kept(id)
  PROVE  /\ stack' \in [Thread -> Seq(FrameType)]
         /\ inner' \in [Thread -> SUBSET Inside] /\ host' \in [Thread -> SUBSET Sig]
         /\ SgTypeOK' => SgInv'
<1>1. inner \in [Thread -> SUBSET Inside] /\ host \in [Thread -> SUBSET Sig]
  BY DEF SgInv, SgTypeOK
<1>2. /\ inner' \in [Thread -> SUBSET Inside] /\ host' \in [Thread -> SUBSET Sig]
      /\ \A u \in Thread : u # t => inner'[u] = inner[u] /\ host'[u] = host[u]
      /\ i = inner'[t] /\ h = host'[t]
  BY <1>1
<1>3. ThreadsOK'
  BY <1>2, OwnStep
<1>4. stack' \in [Thread -> Seq(FrameType)] /\ CallsOK' /\ RegistrationKept' /\ LockOK'
  BY OwnCall
<1> QED BY <1>2, <1>3, <1>4 DEF SgInv

\* Threads that are as askew as before.
LEMMA SameAskew ==
  UNCHANGED askew => \A u \in Thread : Askew(u)' = Askew(u)
BY DEF Askew

\* A mask that does not change.
LEMMA SameMasks ==
  ASSUME SgInv, NEW t \in Thread
  PROVE  /\ UNCHANGED inner => inner' = [inner EXCEPT ![t] = inner[t]]
         /\ UNCHANGED host => host' = [host EXCEPT ![t] = host[t]]
<1>1. inner \in [Thread -> SUBSET Inside] /\ host \in [Thread -> SUBSET Sig]
  BY DEF SgInv, SgTypeOK
<1> QED BY <1>1

\* The inside of the mask arithmetic: block, unblock and SIGRTMAX.
LEMMA MaskSets ==
  ASSUME NEW how \in {"BLOCK", "UNBLOCK", "SETMASK"}, NEW set \in SUBSET Sig,
         NEW h \in SUBSET Sig
  PROVE  /\ ToBlock(how, set) \in SUBSET Sig /\ ToUnblock(how, set) \in SUBSET Sig
         /\ Blockable(h) \subseteq h /\ Blockable(h) \in SUBSET Inside
         /\ (Blockable(h) \ ToUnblock(how, set)) \cup Blockable(ToBlock(how, set))
              = Blockable((h \ ToUnblock(how, set)) \cup ToBlock(how, set))
BY DEF ToBlock, ToUnblock, Blockable, Inside

\* rsgx_sigprocmask begins when the masks are in step, or askew.
LEMMA BeginMaskFacts ==
  ASSUME SgInv, NEW t \in Thread, Len(stack[t]) = 1, NEW f \in FrameType,
         NEW how \in {"BLOCK", "UNBLOCK", "SETMASK"}, NEW set \in SUBSET Sig,
         NEW nx \in {"user", "set", "unlock"},
         Top(t).pc \in {"user", "set", "use"}, BeginMask(t, f, how, set, nx),
         UNCHANGED host
  PROVE  \E g \in FrameType, i \in SUBSET Inside :
           /\ SetTop(t, g) /\ g.pc = "mask_out" /\ g.next = nx
           /\ g.op = f.op /\ g.about = f.about /\ g.slot = f.slot
           /\ inner' = [inner EXCEPT ![t] = i]
           /\ Askew(t) = {} => i \subseteq host[t]
           /\ OwnMasks(g, i, host[t], Askew(t))
<1>1. PICK g \in FrameType :
        g = [f EXCEPT !.pc = "mask_out", !.how = how, !.mask = set, !.next = nx]
  BY DEF FrameType, OwnPc
<1>2. /\ g.pc = "mask_out" /\ g.next = nx /\ g.how = how /\ g.mask = set
      /\ g.op = f.op /\ g.about = f.about /\ g.slot = f.slot
  BY <1>1 DEF FrameType
<1>3. /\ inner[t] \in SUBSET Inside /\ host[t] \in SUBSET Sig
      /\ Askew(t) = {} => inner[t] = Blockable(host[t]) /\ inner[t] \subseteq host[t]
  BY OwnFacts DEF OwnMasks, MaskPc, RegPc
<1>4. PICK i \in SUBSET Inside : i = inner[t] \ ToUnblock(how, set)
  BY <1>3
<1>5. SetTop(t, g) /\ inner' = [inner EXCEPT ![t] = i]
  BY <1>1, <1>4 DEF BeginMask
<1>6. OwnMasks(g, i, host[t], Askew(t)) /\ (Askew(t) = {} => i \subseteq host[t])
  BY <1>2, <1>3, <1>4 DEF OwnMasks, MaskPc, RegPc
<1> QED BY <1>2, <1>5, <1>6

LEMMA SigprocmaskKeeps ==
  ASSUME SgInv, NEW t \in Thread, NEW how \in {"BLOCK", "UNBLOCK", "SETMASK"},
         NEW set \in SUBSET Sig, Sigprocmask(t, how, set)
  PROVE  SgInv'
<1>1. Len(stack[t]) = 1 /\ Top(t).pc = "user" /\ UNCHANGED host
      /\ BeginMask(t, Top(t), how, set, "user")
  BY DEF Sigprocmask, At
<1>2. PICK f \in FrameType : f = Top(t)
  BY WhereAt
<1>3. PICK g \in FrameType, i \in SUBSET Inside :
        /\ SetTop(t, g) /\ g.pc = "mask_out" /\ g.next = "user"
        /\ g.op = f.op /\ g.about = f.about /\ g.slot = f.slot
        /\ inner' = [inner EXCEPT ![t] = i]
        /\ Askew(t) = {} => i \subseteq host[t]
        /\ OwnMasks(g, i, host[t], Askew(t))
  BY <1>1, <1>2, BeginMaskFacts
<1>4. CallOK(g) /\ ~Critical(g)
  BY <1>1, <1>2, <1>3, OwnTop DEF CallOK, Idle, Looking, Critical, MaskPc
<1>5. UNCHANGED <<slots, gone, askew, actionLock, returned>>
  BY DEF Sigprocmask, mgrVars, kernelVars
<1>6. host[t] \in SUBSET Sig /\ host' = [host EXCEPT ![t] = host[t]]
  BY <1>1, OwnFacts, SameMasks
<1>7. "mask_out" \in OwnPc
  BY DEF OwnPc
<1>8. /\ stack' \in [Thread -> Seq(FrameType)]
      /\ inner' \in [Thread -> SUBSET Inside] /\ host' \in [Thread -> SUBSET Sig]
      /\ SgTypeOK' => SgInv'
  BY <1>1, <1>3, <1>4, <1>5, <1>6, <1>7, SameAskew, OwnKeeps
<1>9. SgTypeOK'
  BY <1>8 DEF SgInv, SgTypeOK, Sigprocmask, mgrVars, kernelVars
<1> QED BY <1>8, <1>9

\* The host's mask changes, or not, while the enclave has not blocked yet.
LEMMA HostMaskKeeps ==
  ASSUME SgInv, NEW t \in Thread, HostMask(t)
  PROVE  SgInv'
<1>1. PICK f \in FrameType : f = Top(t) /\ f.pc = "mask_out"
  BY WhereAt DEF HostMask, At
<1>2. Len(stack[t]) = 1
  BY <1>1, WhereAt
<1>3. PICK i \in SUBSET Inside, k \in SUBSET Sig : i = inner[t] /\ k = host[t]
  BY <1>2, OwnFacts
<1>4. f.how \in {"BLOCK", "UNBLOCK", "SETMASK"} /\ f.mask \in SUBSET Sig
  BY DEF FrameType
<1>5. /\ i \cap ToUnblock(f.how, f.mask) = {}
      /\ Askew(t) = {} => i = Blockable(k) \ ToUnblock(f.how, f.mask)
  BY <1>1, <1>2, <1>3, OwnFacts DEF OwnMasks
<1>6. PICK g \in FrameType : g = [f EXCEPT !.pc = "mask_ret"]
  BY FrameGoto DEF OwnPc
<1>7. /\ g.pc = "mask_ret" /\ g.how = f.how /\ g.mask = f.mask /\ g.next = f.next
      /\ g.op = f.op /\ g.about = f.about /\ g.slot = f.slot
  BY <1>6 DEF FrameType
<1>8. SetTop(t, g) /\ UNCHANGED inner
  BY <1>1, <1>6 DEF HostMask, Goto
<1>9. inner' = [inner EXCEPT ![t] = i]
  BY <1>3, <1>8, SameMasks
<1>10. PICK h \in SUBSET Sig :
         /\ host' = [host EXCEPT ![t] = h]
         /\ Askew(t)' = {} => i \cup Blockable(ToBlock(f.how, f.mask)) = Blockable(h)
  <2>1. CASE /\ host' = [host EXCEPT ![t] =
                   (@ \ ToUnblock(f.how, f.mask)) \cup ToBlock(f.how, f.mask)]
             /\ askew' = IF f.how = "SETMASK" THEN askew \ {t} ELSE askew
    <3>1. PICK h \in SUBSET Sig :
            h = (k \ ToUnblock(f.how, f.mask)) \cup ToBlock(f.how, f.mask)
      BY <1>4, MaskSets
    <3>2. host' = [host EXCEPT ![t] = h]
      BY <2>1, <3>1, <1>3
    <3>3. CASE f.how = "SETMASK"
      <4>1. h = f.mask /\ i \subseteq f.mask /\ i \subseteq Blockable(Sig)
        BY <3>1, <3>3, <1>4, <1>5 DEF ToBlock, ToUnblock, Inside, Blockable
      <4>2. i \cup Blockable(ToBlock(f.how, f.mask)) = Blockable(h)
        BY <3>3, <4>1 DEF ToBlock, Blockable
      <4> QED BY <3>2, <4>2
    <3>4. CASE f.how # "SETMASK"
      <4>1. Askew(t)' = Askew(t)
        BY <2>1, <3>4 DEF Askew
      <4>2. Askew(t) = {} => i \cup Blockable(ToBlock(f.how, f.mask)) = Blockable(h)
        BY <1>4, <1>5, <3>1, MaskSets
      <4> QED BY <3>2, <4>1, <4>2
    <3> QED BY <3>3, <3>4
  <2>2. CASE askew' = askew \cup {t} /\ UNCHANGED host
    <3>1. Askew(t)' # {}
      BY <2>2 DEF Askew
    <3> QED BY <2>2, <3>1, <1>3, SameMasks
  <2> QED BY <2>1, <2>2, <1>1 DEF HostMask
<1>11. Askew(t)' = {} => i \subseteq h
  <2>1. Blockable(h) \subseteq h
    BY DEF Blockable
  <2> QED BY <2>1, <1>10
<1>12. OwnMasks(g, i, h, Askew(t)')
  BY <1>7, <1>10 DEF OwnMasks, MaskPc, RegPc
<1>13. UNCHANGED <<slots, gone, actionLock, returned>>
  BY DEF HostMask, mgrVars, kernelVars
<1>14. CallOK(g) /\ (Critical(g) => actionLock = t) /\ g.pc \in OwnPc
  BY <1>1, <1>2, <1>7, OwnTop DEF CallOK, Idle, Looking, Critical, MaskPc, OwnPc
<1>15. askew' \subseteq Thread /\ \A u \in Thread : u # t => Askew(u)' = Askew(u)
  <2>1. askew' \in {askew, askew \ {t}, askew \cup {t}}
    BY DEF HostMask
  <2> QED BY <2>1 DEF SgInv, SgTypeOK, Askew
<1>16. PICK a : a = Askew(t)'
  OBVIOUS
<1>17. (a = {} => i \subseteq h) /\ OwnMasks(g, i, h, a)
  BY <1>11, <1>12, <1>16
<1>18. /\ stack' \in [Thread -> Seq(FrameType)]
       /\ inner' \in [Thread -> SUBSET Inside] /\ host' \in [Thread -> SUBSET Sig]
       /\ SgTypeOK' => SgInv'
  BY <1>2, <1>8, <1>9, <1>10, <1>13, <1>14, <1>15, <1>16, <1>17, OwnKeeps
<1>19. SgTypeOK'
  BY <1>15, <1>18 DEF SgInv, SgTypeOK, HostMask, mgrVars, kernelVars
<1> QED BY <1>18, <1>19

LEMMA MaskReturnsKeeps ==
  ASSUME SgInv, NEW t \in Thread, MaskReturns(t)
  PROVE  SgInv'
<1>1. PICK f \in FrameType : f = Top(t) /\ f.pc = "mask_ret"
  BY WhereAt DEF MaskReturns, At
<1>2. Len(stack[t]) = 1
  BY <1>1, WhereAt
<1>3. PICK j \in SUBSET Inside, h \in SUBSET Sig : j = inner[t] /\ h = host[t]
  BY <1>2, OwnFacts
<1>4. f.how \in {"BLOCK", "UNBLOCK", "SETMASK"} /\ f.mask \in SUBSET Sig
      /\ f.next \in {"user", "set", "unlock"}
  BY DEF FrameType
<1>5. PICK i \in SUBSET Inside : i = j \cup Blockable(ToBlock(f.how, f.mask))
  <2>1. ToBlock(f.how, f.mask) \in SUBSET Sig
    BY <1>4 DEF ToBlock
  <2>2. Blockable(ToBlock(f.how, f.mask)) \in SUBSET Inside
    BY <2>1 DEF Blockable, Inside
  <2> QED BY <2>2
<1>6. Askew(t) = {} => i = Blockable(h)
  BY <1>1, <1>2, <1>3, <1>5, OwnFacts DEF OwnMasks
<1>7. Askew(t) = {} => i \subseteq h
  BY <1>6 DEF Blockable
<1>8. PICK g \in FrameType :
        g = [f EXCEPT !.pc = f.next, !.how = "SETMASK", !.mask = {}]
  BY <1>4 DEF FrameType, OwnPc
<1>9. g.pc = f.next /\ g.op = f.op /\ g.about = f.about /\ g.slot = f.slot
  BY <1>8 DEF FrameType
<1>10. OwnMasks(g, i, h, Askew(t)) /\ g.pc \in OwnPc
  BY <1>4, <1>6, <1>9 DEF OwnMasks, MaskPc, RegPc, OwnPc
<1>11. SetTop(t, g) /\ inner' = [inner EXCEPT ![t] = i] /\ UNCHANGED host
  BY <1>1, <1>3, <1>5, <1>8 DEF MaskReturns
<1>12. host' = [host EXCEPT ![t] = h]
  BY <1>3, <1>11, SameMasks
<1>13. UNCHANGED <<slots, gone, askew, actionLock, returned>>
  BY DEF MaskReturns, mgrVars, kernelVars
<1>14. CallOK(g) /\ (Critical(g) => actionLock = t)
  BY <1>1, <1>2, <1>4, <1>9, OwnTop DEF CallOK, Idle, Looking, Critical, MaskPc
<1>15. /\ stack' \in [Thread -> Seq(FrameType)]
       /\ inner' \in [Thread -> SUBSET Inside] /\ host' \in [Thread -> SUBSET Sig]
       /\ SgTypeOK' => SgInv'
  BY <1>2, <1>7, <1>10, <1>11, <1>12, <1>13, <1>14, SameAskew, OwnKeeps
<1>16. SgTypeOK'
  BY <1>15 DEF SgInv, SgTypeOK, MaskReturns, mgrVars, kernelVars
<1> QED BY <1>15, <1>16

LEMMA RegisterKeeps ==
  ASSUME SgInv, NEW t \in Thread, NEW s \in Sig, NEW op \in {"register", "sigaction"},
         NEW act \in ActType, Register(t, s, op, act)
  PROVE  SgInv'
<1>1. Len(stack[t]) = 1 /\ Top(t).pc = "user" /\ UNCHANGED host
  BY DEF Register, At
<1>2. PICK e \in FrameType : e = Top(t)
  BY WhereAt
<1>3. PICK b \in BOOLEAN : b = slots[s].on
  BY DEF SgInv, SgTypeOK, SlotType
<1>5. PICK f \in FrameType :
        f = [e EXCEPT !.about = s, !.exist = b, !.op = op, !.act = act]
  BY DEF FrameType
<1>6. f.about = s /\ f.slot = e.slot
  BY <1>5 DEF FrameType
<1>7. BeginMask(t, f, "SETMASK", Sig, "set")
  BY <1>2, <1>3, <1>5 DEF Register
<1>8. PICK g \in FrameType, i \in SUBSET Inside :
        /\ SetTop(t, g) /\ g.pc = "mask_out" /\ g.next = "set"
        /\ g.op = f.op /\ g.about = f.about /\ g.slot = f.slot
        /\ inner' = [inner EXCEPT ![t] = i]
        /\ Askew(t) = {} => i \subseteq host[t]
        /\ OwnMasks(g, i, host[t], Askew(t))
  BY <1>1, <1>7, BeginMaskFacts
<1>9. CallOK(g) /\ g.pc \in OwnPc
  <2>1. g.slot.acts = {}
    BY <1>1, <1>2, <1>6, <1>8, OwnTop DEF CallOK, Idle
  <2> QED BY <2>1, <1>6, <1>8 DEF CallOK, Idle, Looking, MaskPc, OwnPc
<1>10. UNCHANGED <<slots, gone, askew, returned>>
       /\ actionLock = NoThread /\ actionLock' = t
  BY DEF Register, kernelVars
<1>11. host[t] \in SUBSET Sig /\ host' = [host EXCEPT ![t] = host[t]]
  BY <1>1, OwnFacts, SameMasks
<1>12. /\ stack' \in [Thread -> Seq(FrameType)]
       /\ inner' \in [Thread -> SUBSET Inside] /\ host' \in [Thread -> SUBSET Sig]
       /\ SgTypeOK' => SgInv'
  BY <1>1, <1>8, <1>9, <1>10, <1>11, SameAskew, OwnKeeps
<1>13. SgTypeOK'
  BY <1>12 DEF SgInv, SgTypeOK, Register, kernelVars
<1> QED BY <1>12, <1>13

\* Any other step of an own frame that leaves the table and the masks alone.
LEMMA OwnMoves ==
  ASSUME SgInv, NEW t \in Thread, Len(stack[t]) = 1,
         NEW g \in FrameType, SetTop(t, g), g.pc \in OwnPc,
         g.pc \notin MaskPc \cup RegPc, Top(t).pc \notin MaskPc \cup RegPc \cup {"dead"},
         UNCHANGED <<inner, host, slots, gone, askew>>, CallOK(g),
         Critical(g) /\ g.pc # "dead" => actionLock' = t,
         actionLock \notin {t, NoThread} => actionLock' = actionLock,
         \A id \in returned' : id \in returned \/ Kept(id)
  PROVE  /\ stack' \in [Thread -> Seq(FrameType)]
         /\ SgTypeOK' => SgInv'
<1>1. PICK i \in SUBSET Inside, h \in SUBSET Sig : i = inner[t] /\ h = host[t]
  BY OwnFacts
<1>2. Askew(t) = {} => i \subseteq h /\ i = Blockable(h)
  BY <1>1, OwnFacts DEF OwnMasks
<1>3. OwnMasks(g, i, h, Askew(t))
  BY <1>2 DEF OwnMasks, MaskPc
<1>4. inner' = [inner EXCEPT ![t] = i] /\ host' = [host EXCEPT ![t] = h]
  BY <1>1, SameMasks
<1> QED BY <1>2, <1>3, <1>4, SameAskew, OwnKeeps

\* The ids that a call returns are those that it has put in the table.
LEMMA MyIdKept ==
  ASSUME SgInv, NEW t \in Thread, Len(stack[t]) = 1, Top(t).pc \in {"unlock", "act_ret"}
  PROVE  /\ \A id \in MyId(t) : Kept(id) /\ id \in SignalId
<1>1. Top(t) \in FrameType /\ CallOK(Top(t))
  BY OwnTop
<1>2. Top(t).about \in Sig /\ Top(t).slot.acts \subseteq Nat
  BY <1>1 DEF CallOK, Idle, MaskPc, FrameType, SlotType
<1> QED BY <1>1, <1>2 DEF MyId, CallOK, SignalId

LEMMA UnlockKeeps ==
  ASSUME SgInv, NEW t \in Thread, Unlock(t)
  PROVE  SgInv'
<1>1. PICK f \in FrameType : f = Top(t) /\ f.pc = "unlock"
  BY WhereAt DEF Unlock, At
<1>2. Len(stack[t]) = 1
  BY <1>1, WhereAt
<1>3. UNCHANGED <<inner, host, slots, gone, askew>> /\ actionLock' = NoThread
  BY DEF Unlock, kernelVars
<1>4. actionLock = t /\ CallOK(f)
  BY <1>1, <1>2, OwnTop DEF Critical
<1>5. \A id \in returned' : id \in returned \/ (Kept(id) /\ id \in SignalId)
  <2>1. returned' \subseteq returned \cup MyId(t)
    BY DEF Unlock
  <2> QED BY <2>1, <1>1, <1>2, MyIdKept
<1>6. \E g \in FrameType : /\ SetTop(t, g) /\ CallOK(g) /\ ~Critical(g) /\ g.pc \in OwnPc
                           /\ g.pc \notin MaskPc \cup RegPc
  <2>1. CASE f.op = "register" /\ f.exist
    <3>1. f.sig \in Sig \cup {NoSig}
      BY DEF FrameType
    <3>2. PICK g \in FrameType : /\ g = Frame(f.sig, "user") /\ g.pc = "user"
                                 /\ g.slot.acts = {} /\ g.op = "none"
      BY <3>1, FrameNew DEF OwnPc
    <3>3. SetTop(t, g)
      BY <1>1, <2>1, <3>2 DEF Unlock
    <3> QED BY <3>2, <3>3 DEF CallOK, Idle, Looking, Critical, MaskPc, RegPc, OwnPc
  <2>2. CASE ~(f.op = "register" /\ f.exist)
    <3>1. PICK g \in FrameType : g = [f EXCEPT !.pc = "act_out"]
      BY FrameGoto DEF OwnPc
    <3>2. g.pc = "act_out" /\ g.slot = f.slot /\ g.about = f.about /\ g.op = f.op
      BY <3>1 DEF FrameType
    <3>3. SetTop(t, g)
      BY <1>1, <2>2, <3>1 DEF Unlock
    <3>4. CallOK(g)
      BY <1>1, <1>4, <3>2 DEF CallOK, Idle, Looking, MaskPc
    <3> QED BY <3>2, <3>3, <3>4 DEF Looking, Critical, MaskPc, RegPc, OwnPc
  <2> QED BY <2>1, <2>2
<1>7. Top(t).pc \notin MaskPc \cup RegPc \cup {"dead"}
  BY <1>1 DEF MaskPc, RegPc
<1>8. stack' \in [Thread -> Seq(FrameType)] /\ (SgTypeOK' => SgInv')
  BY <1>2, <1>3, <1>4, <1>5, <1>6, <1>7, OwnMoves
<1>9. SgTypeOK'
  <2>1. returned' \subseteq SignalId /\ resetSet' \subseteq Sig
    <3>1. returned \subseteq SignalId /\ resetSet \subseteq Sig
      BY DEF SgInv, SgTypeOK
    <3>2. resetSet' \subseteq resetSet \cup {f.about} /\ f.about \in Sig
      BY <1>1, <1>4 DEF Unlock, CallOK, Idle, MaskPc
    <3> QED BY <3>1, <3>2, <1>5
  <2> QED BY <1>8, <2>1 DEF SgInv, SgTypeOK, Unlock, kernelVars
<1> QED BY <1>8, <1>9

\* signal_register: everything is blocked while it has the mutex.
LEMMA RegMaskKeeps ==
  ASSUME SgInv, NEW t \in Thread, RegMask(t)
  PROVE  SgInv'
<1>1. PICK f \in FrameType : f = Top(t) /\ f.pc = "act_out"
  BY WhereAt DEF RegMask, At
<1>2. Len(stack[t]) = 1
  BY <1>1, WhereAt
<1>3. PICK i \in SUBSET Inside, k \in SUBSET Sig : i = inner[t] /\ k = host[t]
  BY <1>2, OwnFacts
<1>4. Askew(t) = {} => i = Blockable(k)
  BY <1>1, <1>2, <1>3, OwnFacts DEF OwnMasks, MaskPc, RegPc
<1>5. PICK g \in FrameType : g = [f EXCEPT !.pc = "reg_lock", !.old = k]
  BY DEF FrameType, OwnPc
<1>6. /\ g.pc = "reg_lock" /\ g.old = k
      /\ g.op = f.op /\ g.about = f.about /\ g.slot = f.slot
  BY <1>5 DEF FrameType
<1>7. OwnMasks(g, i, Sig, Askew(t)) /\ i \subseteq Sig /\ g.pc \in OwnPc
  BY <1>4, <1>6 DEF OwnMasks, MaskPc, RegPc, OwnPc, Inside, Blockable
<1>8. SetTop(t, g) /\ host' = [host EXCEPT ![t] = Sig] /\ UNCHANGED inner
  BY <1>1, <1>3, <1>5 DEF RegMask
<1>9. inner' = [inner EXCEPT ![t] = i]
  BY <1>3, <1>8, SameMasks
<1>10. UNCHANGED <<slots, gone, askew, actionLock, returned>>
  BY DEF RegMask, mgrVars, kernelVars
<1>11. CallOK(g) /\ ~Critical(g)
  BY <1>1, <1>2, <1>6, OwnTop DEF CallOK, Idle, Looking, Critical, MaskPc
<1>12. /\ stack' \in [Thread -> Seq(FrameType)]
       /\ inner' \in [Thread -> SUBSET Inside] /\ host' \in [Thread -> SUBSET Sig]
       /\ SgTypeOK' => SgInv'
  BY <1>2, <1>7, <1>8, <1>9, <1>10, <1>11, SameAskew, OwnKeeps
<1>13. SgTypeOK'
  BY <1>12 DEF SgInv, SgTypeOK, RegMask, mgrVars, kernelVars
<1> QED BY <1>12, <1>13

LEMMA RegLockInsertKeeps ==
  ASSUME SgInv, NEW t \in Thread, RegLock(t) \/ RegInsert(t)
  PROVE  SgInv'
<1>1. PICK f \in FrameType, p \in RegPc : f = Top(t) /\ f.pc \in RegPc /\ Goto(t, p)
  BY WhereAt DEF RegLock, RegInsert, At, RegPc
<1>2. Len(stack[t]) = 1
  BY <1>1, WhereAt DEF RegPc
<1>3. PICK i \in SUBSET Inside, h \in SUBSET Sig : i = inner[t] /\ h = host[t]
  BY <1>2, OwnFacts
<1>4. h = Sig /\ (Askew(t) = {} => i = Blockable(f.old) /\ i \subseteq h)
  BY <1>1, <1>2, <1>3, OwnFacts DEF OwnMasks
<1>5. PICK g \in FrameType : g = [f EXCEPT !.pc = p]
  BY FrameGoto DEF OwnPc, RegPc
<1>6. /\ g.pc = p /\ g.old = f.old
      /\ g.op = f.op /\ g.about = f.about /\ g.slot = f.slot
  BY <1>5 DEF FrameType
<1>7. OwnMasks(g, i, h, Askew(t)) /\ g.pc \in OwnPc
  BY <1>1, <1>4, <1>6 DEF OwnMasks, MaskPc, RegPc, OwnPc
<1>8. SetTop(t, g) /\ UNCHANGED <<inner, host>>
  BY <1>1, <1>5 DEF RegLock, RegInsert, Goto
<1>9. inner' = [inner EXCEPT ![t] = i] /\ host' = [host EXCEPT ![t] = h]
  BY <1>3, <1>8, SameMasks
<1>10. UNCHANGED <<slots, gone, askew, actionLock, returned>>
  BY DEF RegLock, RegInsert, mgrVars
<1>11. CallOK(g) /\ ~Critical(g)
  BY <1>1, <1>2, <1>6, OwnTop DEF CallOK, Idle, Looking, Critical, MaskPc, RegPc
<1>12. /\ stack' \in [Thread -> Seq(FrameType)]
       /\ inner' \in [Thread -> SUBSET Inside] /\ host' \in [Thread -> SUBSET Sig]
       /\ SgTypeOK' => SgInv'
  BY <1>2, <1>4, <1>7, <1>8, <1>9, <1>10, <1>11, SameAskew, OwnKeeps
<1>13. table' \subseteq Sig /\ dispLock' \in Thread \cup {NoThread}
  <2>1. table \subseteq Sig /\ f.about \in Sig
    BY <1>1, <1>2, OwnTop DEF SgInv, SgTypeOK, CallOK, Idle, MaskPc, RegPc
  <2> QED BY <2>1, <1>1 DEF RegLock, RegInsert
<1>14. SgTypeOK'
  BY <1>12, <1>13 DEF SgInv, SgTypeOK, RegLock, RegInsert, mgrVars
<1> QED BY <1>12, <1>14

LEMMA RegRestoreKeeps ==
  ASSUME SgInv, NEW t \in Thread, RegRestore(t)
  PROVE  SgInv'
<1>1. PICK f \in FrameType : f = Top(t) /\ f.pc = "reg_restore"
  BY WhereAt DEF RegRestore, At
<1>2. Len(stack[t]) = 1
  BY <1>1, WhereAt
<1>3. PICK i \in SUBSET Inside, h \in SUBSET Sig : i = inner[t] /\ h = f.old
  BY <1>2, OwnFacts DEF FrameType
<1>4. Askew(t) = {} => i = Blockable(h) /\ i \subseteq h
  BY <1>1, <1>2, <1>3, OwnFacts DEF OwnMasks, RegPc, Blockable
<1>5. PICK g \in FrameType : g = [f EXCEPT !.pc = "act_sys"]
  BY FrameGoto DEF OwnPc
<1>6. /\ g.pc = "act_sys" /\ g.op = f.op /\ g.about = f.about /\ g.slot = f.slot
  BY <1>5 DEF FrameType
<1>7. OwnMasks(g, i, h, Askew(t)) /\ g.pc \in OwnPc
  BY <1>4, <1>6 DEF OwnMasks, MaskPc, RegPc, OwnPc
<1>8. SetTop(t, g) /\ host' = [host EXCEPT ![t] = h] /\ UNCHANGED inner
  BY <1>1, <1>3, <1>5 DEF RegRestore, Goto
<1>9. inner' = [inner EXCEPT ![t] = i]
  BY <1>3, <1>8, SameMasks
<1>10. UNCHANGED <<slots, gone, askew, actionLock, returned>>
  BY DEF RegRestore, mgrVars, kernelVars
<1>11. CallOK(g) /\ ~Critical(g)
  BY <1>1, <1>2, <1>6, OwnTop DEF CallOK, Idle, Looking, Critical, MaskPc
<1>12. /\ stack' \in [Thread -> Seq(FrameType)]
       /\ inner' \in [Thread -> SUBSET Inside] /\ host' \in [Thread -> SUBSET Sig]
       /\ SgTypeOK' => SgInv'
  BY <1>2, <1>4, <1>7, <1>8, <1>9, <1>10, <1>11, SameAskew, OwnKeeps
<1>13. SgTypeOK'
  BY <1>12 DEF SgInv, SgTypeOK, RegRestore, mgrVars, kernelVars
<1> QED BY <1>12, <1>13

\* sigaction(2) gives the kernel the action of the call, or fails.
LEMMA SigactionKeeps ==
  ASSUME SgInv, NEW t \in Thread, Sigaction(t) \/ SigactionFails(t)
  PROVE  SgInv'
<1>1. PICK f \in FrameType : f = Top(t) /\ f.pc \in {"act_sys", "act_out"}
  BY WhereAt DEF Sigaction, SigactionFails, At
<1>2. Len(stack[t]) = 1
  BY <1>1, WhereAt
<1>3. CallOK(f) /\ f.about \in Sig
  BY <1>1, <1>2, OwnTop DEF CallOK, Idle, MaskPc
<1>4. UNCHANGED <<inner, host, slots, gone, askew, actionLock, returned>>
  BY DEF Sigaction, SigactionFails, mgrVars
<1>5. disp' \in [Sig -> [on : BOOLEAN, mask : SUBSET Sig, reset : BOOLEAN]]
  <2>1. disp \in [Sig -> [on : BOOLEAN, mask : SUBSET Sig, reset : BOOLEAN]]
    BY DEF SgInv, SgTypeOK
  <2>2. PICK d \in [on : BOOLEAN, mask : SUBSET Sig, reset : BOOLEAN] :
          d = [on |-> TRUE, mask |-> f.act.mask, reset |-> f.act.reset]
    BY DEF FrameType, ActType
  <2>3. disp' = disp \/ disp' = [disp EXCEPT ![f.about] = d]
    BY <1>1, <2>2 DEF Sigaction, SigactionFails, kernelVars
  <2> QED BY <2>1, <2>3
<1>6. \E g \in FrameType : /\ SetTop(t, g) /\ CallOK(g) /\ ~Critical(g) /\ g.pc \in OwnPc
                           /\ g.pc \notin MaskPc \cup RegPc
  <2>1. PICK sl \in SlotType : /\ sl = f.slot \/ sl.acts = {}
                               /\ SetTop(t, [f EXCEPT !.pc = "act_ret", !.slot = sl])
    <3>1. CASE SetTop(t, [f EXCEPT !.pc = "act_ret"])
      <4>1. f.slot \in SlotType
        BY DEF FrameType
      <4>2. [f EXCEPT !.pc = "act_ret", !.slot = f.slot] = [f EXCEPT !.pc = "act_ret"]
        BY DEF FrameType
      <4> QED BY <3>1, <4>1, <4>2
    <3>2. CASE SetTop(t, [f EXCEPT !.pc = "act_ret", !.slot = NoSlot])
      <4>1. NoSlot \in SlotType /\ NoSlot.acts = {}
        BY DEF NoSlot, SlotType
      <4> QED BY <3>2, <4>1
    <3> QED BY <3>1, <3>2, <1>1 DEF Sigaction, SigactionFails
  <2>2. PICK g \in FrameType : g = [f EXCEPT !.pc = "act_ret", !.slot = sl]
    BY DEF FrameType, OwnPc
  <2>3. g.pc = "act_ret" /\ g.slot = sl /\ g.about = f.about /\ g.op = f.op
    BY <2>2 DEF FrameType
  <2>4. SetTop(t, g)
    BY <2>1, <2>2
  <2>5. CallOK(g)
    BY <1>1, <1>3, <2>1, <2>3 DEF CallOK, Idle, Looking, MaskPc
  <2> QED BY <2>3, <2>4, <2>5 DEF Looking, Critical, MaskPc, RegPc, OwnPc
<1>7. Top(t).pc \notin MaskPc \cup RegPc \cup {"dead"}
  BY <1>1 DEF MaskPc, RegPc
<1>8. stack' \in [Thread -> Seq(FrameType)] /\ (SgTypeOK' => SgInv')
  BY <1>2, <1>4, <1>5, <1>6, <1>7, OwnMoves
<1>9. SgTypeOK'
  BY <1>4, <1>5, <1>8 DEF SgInv, SgTypeOK, Sigaction, SigactionFails, mgrVars, kernelVars
<1> QED BY <1>8, <1>9

LEMMA ActionReturnsKeeps ==
  ASSUME SgInv, NEW t \in Thread, ActionReturns(t)
  PROVE  SgInv'
<1>1. PICK f \in FrameType : f = Top(t) /\ f.pc = "act_ret"
  BY WhereAt DEF ActionReturns, At
<1>2. Len(stack[t]) = 1
  BY <1>1, WhereAt
<1>3. UNCHANGED <<inner, host, slots, gone, askew, actionLock>>
  BY DEF ActionReturns, kernelVars
<1>4. \A id \in returned' : id \in returned \/ (Kept(id) /\ id \in SignalId)
  BY <1>1, <1>2, MyIdKept DEF ActionReturns
<1>5. f.sig \in Sig \cup {NoSig}
  BY DEF FrameType
<1>6. PICK g \in FrameType : /\ g = Frame(f.sig, "user") /\ g.pc = "user"
                             /\ g.slot.acts = {} /\ g.op = "none"
  BY <1>5, FrameNew DEF OwnPc
<1>7. SetTop(t, g)
  BY <1>1, <1>6 DEF ActionReturns
<1>8. CallOK(g) /\ ~Critical(g) /\ g.pc \in OwnPc /\ g.pc \notin MaskPc \cup RegPc
  BY <1>6 DEF CallOK, Idle, Looking, Critical, MaskPc, RegPc, OwnPc
<1>9. Top(t).pc \notin MaskPc \cup RegPc \cup {"dead"}
  BY <1>1 DEF MaskPc, RegPc
<1>10. stack' \in [Thread -> Seq(FrameType)] /\ (SgTypeOK' => SgInv')
  BY <1>2, <1>3, <1>4, <1>7, <1>8, <1>9, OwnMoves
<1>11. returned' \subseteq SignalId
  BY <1>4 DEF SgInv, SgTypeOK
<1>12. SgTypeOK'
  BY <1>10, <1>11 DEF SgInv, SgTypeOK, ActionReturns, kernelVars
<1> QED BY <1>10, <1>12

\* A step of the holder of signal_action_lock that changes one slot and then
\* begins to restore the mask.
LEMMA SlotFilled ==
  ASSUME SgInv, NEW t \in Thread, Len(stack[t]) = 1, NEW f \in FrameType,
         Top(t).pc \in {"set", "use"}, BeginMask(t, f, "SETMASK", {}, "unlock"),
         f.about \in Sig,
         NEW sl \in SlotType, slots' = [slots EXCEPT ![f.about] = sl],
         sl.on, f.slot.acts \subseteq sl.acts,
         gone \subseteq gone', gone' \subseteq SignalId,
         \A id \in Ids(f.about) :
            (slots[f.about].on /\ id \notin gone') => id.action \in sl.acts,
         UNCHANGED <<host, askew, actionLock, returned>>
  PROVE  /\ stack' \in [Thread -> Seq(FrameType)] /\ slots' \in [Sig -> SlotType]
         /\ inner' \in [Thread -> SUBSET Inside]
         /\ SgTypeOK' => SgInv'
<1>1. SgTypeOK /\ ThreadsOK
  BY DEF SgInv
<1>2. PICK g \in FrameType, i \in SUBSET Inside :
        /\ SetTop(t, g) /\ g.pc = "mask_out" /\ g.next = "unlock"
        /\ g.op = f.op /\ g.about = f.about /\ g.slot = f.slot
        /\ inner' = [inner EXCEPT ![t] = i]
        /\ Askew(t) = {} => i \subseteq host[t]
        /\ OwnMasks(g, i, host[t], Askew(t))
  BY BeginMaskFacts
<1>3. /\ inner' \in [Thread -> SUBSET Inside] /\ i = inner'[t]
      /\ \A u \in Thread : u # t => inner'[u] = inner[u]
  BY <1>1, <1>2 DEF SgTypeOK
<1>4. ThreadsOK'
  <2>1. PICK h \in SUBSET Sig : h = host'[t] /\ h = host[t] /\ host' \in [Thread -> SUBSET Sig]
    BY <1>1 DEF SgTypeOK
  <2>2. g.pc \in OwnPc /\ OwnMasks(g, i, h, Askew(t))
    BY <1>2, <2>1 DEF OwnPc
  <2>3. \A u \in Thread : Askew(u)' = Askew(u)
    BY SameAskew
  <2> QED BY <2>1, <2>2, <2>3, <1>2, <1>3, OwnStep
<1>5. /\ stack' \in [Thread -> Seq(FrameType)] /\ stack'[t][1] = g
      /\ \A u \in Thread : u # t => stack'[u] = stack[u]
  BY <1>1, <1>2, SetTopFacts
<1>6. /\ slots' \in [Sig -> SlotType] /\ slots'[f.about] = sl
      /\ \A r \in Sig : r # f.about => slots'[r] = slots[r]
  BY <1>1 DEF SgTypeOK
<1>8. ASSUME NEW id \in SignalId, Kept(id) PROVE Kept(id)'
  <2>1. id.signal \in Sig /\ id = [signal |-> id.signal, action |-> id.action]
    BY DEF SignalId
  <2>2. CASE id \in gone'
    BY <2>2 DEF Kept
  <2>3. CASE id \notin gone'
    <3>1. slots[id.signal].on /\ id.action \in slots[id.signal].acts
      BY <2>3, <1>8 DEF Kept
    <3>2. CASE id.signal = f.about
      <4>1. id \in Ids(f.about)
        BY <2>1, <3>1, <3>2 DEF Ids
      <4>2. id.action \in sl.acts
        BY <2>3, <3>1, <3>2, <4>1
      <4> QED BY <3>2, <4>2, <1>6 DEF Kept
    <3>3. CASE id.signal # f.about
      BY <2>1, <3>1, <3>3, <1>6 DEF Kept
    <3> QED BY <3>2, <3>3
  <2> QED BY <2>2, <2>3
<1>9. actionLock = t
  BY OwnTop DEF Critical, Looking
<1>10. CallOK(stack[t][1])'
  <2>1. \A a \in g.slot.acts : Kept([signal |-> g.about, action |-> a])'
    BY <1>2, <1>6 DEF Kept
  <2> QED BY <2>1, <1>2, <1>5 DEF CallOK, Idle, Looking, MaskPc
<1>11. CallsOK'
  BY <1>5, <1>8, <1>9, <1>10, CallsStep
<1>12. RegistrationKept'
  BY <1>8, KeptStep
<1>13. LockOK'
  BY <1>5, <1>9, LockStep
<1> QED BY <1>1, <1>3, <1>4, <1>5, <1>6, <1>11, <1>12, <1>13 DEF SgInv

\* set_action, or the first half of set_action_impl.
LEMMA SetActionKeeps ==
  ASSUME SgInv, NEW t \in Thread, SetAction(t)
  PROVE  SgInv'
<1>1. PICK f \in FrameType : f = Top(t) /\ f.pc = "set"
  BY WhereAt DEF SetAction, At
<1>2. Len(stack[t]) = 1
  BY <1>1, WhereAt
<1>3. CallOK(f) /\ actionLock = t /\ f.about \in Sig /\ f.slot.acts = {}
  BY <1>1, <1>2, OwnTop DEF CallOK, Idle, Looking, Critical, MaskPc
<1>4. slots \in [Sig -> SlotType] /\ gone \subseteq SignalId
  BY DEF SgInv, SgTypeOK
<1>5. UNCHANGED <<host, askew, actionLock, returned>>
  BY DEF SetAction, kernelVars
<1>6. CASE f.op = "register"
  <2>1. PICK b \in BOOLEAN : b = slots[f.about].on
    BY <1>3, <1>4 DEF SlotType
  <2>2. PICK g \in FrameType : g = [f EXCEPT !.pc = "use", !.found = b]
    BY DEF FrameType, OwnPc
  <2>3. /\ g.pc = "use" /\ g.found = b /\ g.op = f.op /\ g.about = f.about
        /\ g.slot = f.slot
    BY <2>2 DEF FrameType
  <2>4. SetTop(t, g) /\ UNCHANGED <<slots, gone, inner>>
    BY <1>1, <1>6, <2>1, <2>2 DEF SetAction
  <2>5. CallOK(g)
    BY <1>3, <2>1, <2>3 DEF CallOK, Idle, MaskPc
  <2>6. g.pc \in OwnPc /\ g.pc \notin MaskPc \cup RegPc
        /\ Top(t).pc \notin MaskPc \cup RegPc \cup {"dead"}
    BY <1>1, <2>3 DEF OwnPc, MaskPc, RegPc
  <2>7. stack' \in [Thread -> Seq(FrameType)] /\ (SgTypeOK' => SgInv')
    BY <1>2, <1>3, <1>5, <2>4, <2>5, <2>6, OwnMoves
  <2>8. SgTypeOK'
    BY <2>4, <2>7 DEF SgInv, SgTypeOK, SetAction, kernelVars
  <2> QED BY <2>7, <2>8
<1>7. CASE f.op = "sigaction"
  <2>2. PICK sl \in SlotType : sl = [on |-> TRUE, mask |-> f.act.mask, acts |-> {}]
    BY DEF SlotType, FrameType, ActType
  <2>3. sl.on /\ sl.acts = {}
    BY <2>2
  <2>4. /\ slots' = [slots EXCEPT ![f.about] = sl] /\ gone' = gone \cup Ids(f.about)
        /\ BeginMask(t, f, "SETMASK", {}, "unlock")
    BY <1>1, <1>7, <2>2 DEF SetAction
  <2>5. Ids(f.about) \subseteq SignalId
    <3>1. slots[f.about].acts \subseteq Nat
      BY <1>3, <1>4 DEF SlotType
    <3> QED BY <3>1, <1>3 DEF Ids, SignalId
  <2>6. gone \subseteq gone' /\ gone' \subseteq SignalId /\ Ids(f.about) \subseteq gone'
    BY <1>4, <2>4, <2>5
  <2>7. /\ stack' \in [Thread -> Seq(FrameType)] /\ slots' \in [Sig -> SlotType]
        /\ inner' \in [Thread -> SUBSET Inside]
        /\ SgTypeOK' => SgInv'
    BY <1>1, <1>2, <1>3, <1>5, <2>3, <2>4, <2>6, SlotFilled
  <2>8. SgTypeOK'
    BY <2>6, <2>7 DEF SgInv, SgTypeOK, SetAction, kernelVars
  <2> QED BY <2>7, <2>8
<1> QED BY <1>1, <1>6, <1>7 DEF SetAction

\* The second half of set_action_impl: the slot that was found, or one where
\* there is still none.
LEMMA UseSlotKeeps ==
  ASSUME SgInv, NEW t \in Thread, UseSlot(t)
  PROVE  SgInv'
<1>1. PICK e \in FrameType : e = Top(t) /\ e.pc = "use"
  BY WhereAt DEF UseSlot, At
<1>2. Len(stack[t]) = 1
  BY <1>1, WhereAt
<1>3. CallOK(e) /\ e.about \in Sig
  BY <1>1, <1>2, OwnTop DEF CallOK, Idle, MaskPc
<1>4. slots \in [Sig -> SlotType] /\ gone \subseteq SignalId
  BY DEF SgInv, SgTypeOK
<1>5. PICK id \in Nat : id = counter + 1
  BY DEF SgInv, SgTypeOK
<1>6. UNCHANGED <<host, askew, actionLock, returned, gone>>
  BY DEF UseSlot, kernelVars
<1>7. PICK old \in SlotType : old = slots[e.about]
  BY <1>3, <1>4
<1>8. PICK sl \in SlotType :
        sl = IF e.found THEN [old EXCEPT !.acts = old.acts \cup {id}]
             ELSE [on |-> TRUE, mask |-> {}, acts |-> {id}]
  BY DEF SlotType
<1>9. slots' = [slots EXCEPT ![e.about] = sl]
  <2>1. slots' = [slots EXCEPT ![e.about] =
          IF e.found THEN [slots[e.about] EXCEPT !.acts = slots[e.about].acts \cup {id}]
          ELSE [on |-> TRUE, mask |-> {}, acts |-> {id}]]
    BY <1>1, <1>5 DEF UseSlot
  <2> QED BY <2>1, <1>7, <1>8
<1>10. sl.on /\ id \in sl.acts
  <2>2. e.found => old.on
    BY <1>1, <1>7 DEF UseSlot
  <2> QED BY <2>2, <1>8 DEF SlotType
<1>11. old.on => old.acts \subseteq sl.acts
  <2>1. old.on => e.found
    BY <1>1, <1>3, <1>7 DEF CallOK
  <2> QED BY <2>1, <1>8 DEF SlotType
<1>12. PICK f \in FrameType : f = [e EXCEPT !.slot.acts = {id}]
  BY DEF FrameType, SlotType
<1>13. f.about = e.about /\ f.op = e.op /\ f.slot.acts = {id}
  BY <1>12 DEF FrameType, SlotType
<1>14. BeginMask(t, f, "SETMASK", {}, "unlock")
  BY <1>1, <1>5, <1>12 DEF UseSlot
<1>15. \A x \in Ids(f.about) :
          (slots[f.about].on /\ x \notin gone') => x.action \in sl.acts
  BY <1>7, <1>11, <1>13 DEF Ids
<1>16. /\ f.about \in Sig /\ f.slot.acts \subseteq sl.acts
       /\ slots' = [slots EXCEPT ![f.about] = sl]
  BY <1>3, <1>9, <1>10, <1>13 DEF CallOK
<1>17. /\ stack' \in [Thread -> Seq(FrameType)] /\ slots' \in [Sig -> SlotType]
       /\ inner' \in [Thread -> SUBSET Inside]
       /\ SgTypeOK' => SgInv'
  BY <1>1, <1>2, <1>4, <1>6, <1>10, <1>14, <1>15, <1>16, SlotFilled
<1>18. SgTypeOK'
  BY <1>5, <1>17 DEF SgInv, SgTypeOK, UseSlot, kernelVars
<1> QED BY <1>17, <1>18

-----------------------------------------------------------------------------
(***************************************************************************)
(* The theorems.                                                           *)
(***************************************************************************)
LEMMA SignalInit == SgInit => SgInv
<1> SUFFICES ASSUME SgInit PROVE SgInv
  OBVIOUS
<1>1. PICK f \in FrameType : /\ f = Frame(NoSig, "user") /\ f.pc = "user"
                             /\ f.slot.acts = {} /\ f.op = "none"
  BY FrameNew DEF OwnPc
<1>2. PICK st \in Seq(FrameType) : st = <<f>> /\ Len(st) = 1 /\ st[1] = f
  <2>1. <<f>> \in Seq(FrameType) /\ Len(<<f>>) = 1 /\ <<f>>[1] = f
    OBVIOUS
  <2> QED BY <2>1
<1>3. \A t \in Thread : stack[t] = st /\ inner[t] = {} /\ host[t] = {}
                      /\ Askew(t) = {}
  BY <1>1, <1>2 DEF SgInit, Askew
<1>4. slots \in [Sig -> SlotType]
  <2>1. \A s \in Sig : [NoSlot EXCEPT !.on = s \in Registered] \in SlotType
    <3>1. \A s \in Sig : (s \in Registered) \in BOOLEAN
      OBVIOUS
    <3> QED BY <3>1 DEF NoSlot, SlotType
  <2> QED BY <2>1 DEF SgInit
<1>5. disp \in [Sig -> [on : BOOLEAN, mask : SUBSET Sig, reset : BOOLEAN]]
  <2>1. \A s \in Sig : [SigDfl EXCEPT !.on = s \in Registered]
                         \in [on : BOOLEAN, mask : SUBSET Sig, reset : BOOLEAN]
    <3>1. \A s \in Sig : (s \in Registered) \in BOOLEAN
      OBVIOUS
    <3> QED BY <3>1 DEF SigDfl
  <2> QED BY <2>1 DEF SgInit
<1>6. SgTypeOK
  <2>1. stack \in [Thread -> Seq(FrameType)]
    BY <1>1, <1>2 DEF SgInit
  <2>2. table \subseteq Sig
    BY SignalSets DEF SgInit
  <2>3. {} \in SUBSET Inside /\ {} \in SUBSET Sig
    OBVIOUS
  <2>4. inner \in [Thread -> SUBSET Inside] /\ host \in [Thread -> SUBSET Sig]
        /\ pending \in [Thread -> SUBSET Sig]
    BY <2>3 DEF SgInit
  <2>5. resetSet \subseteq Sig /\ returned \subseteq SignalId /\ gone \subseteq SignalId
        /\ askew \subseteq Thread
    BY DEF SgInit
  <2>6. counter \in Nat /\ calls \in Nat /\ raised \in Nat
    BY DEF SgInit
  <2>7. poisoned \in BOOLEAN /\ alive \in BOOLEAN
    BY DEF SgInit
  <2>8. actionLock \in Thread \cup {NoThread} /\ dispLock \in Thread \cup {NoThread}
    BY DEF SgInit
  <2> QED BY <1>4, <1>5, <2>1, <2>2, <2>4, <2>5, <2>6, <2>7, <2>8 DEF SgTypeOK
<1>7. ThreadsOK
  <2>1. OwnMasks(f, {}, {}, {}) /\ f.pc \in OwnPc
    BY <1>1 DEF OwnMasks, MaskPc, RegPc, OwnPc, Blockable
  <2>2. StackOK(st) /\ MasksOK(st, {}, {}, {})
    BY <1>2, <2>1, OwnFrameOnly
  <2> QED BY <1>3, <2>2 DEF ThreadsOK
<1>9. CallOK(f) /\ ~Critical(f)
  BY <1>1 DEF CallOK, Idle, Looking, Critical, MaskPc
<1>10. CallsOK /\ LockOK
  BY <1>2, <1>3, <1>9 DEF CallsOK, LockOK
<1>11. RegistrationKept
  BY DEF SgInit, RegistrationKept
<1> QED BY <1>6, <1>7, <1>10, <1>11 DEF SgInv

LEMMA SignalStutter == SgInv /\ UNCHANGED sgVars => SgInv'
<1> SUFFICES ASSUME SgInv, UNCHANGED sgVars PROVE SgInv'
  OBVIOUS
<1>1. UNCHANGED <<slots, resetSet, counter, poisoned, actionLock, returned, gone>>
      /\ UNCHANGED <<pending, disp, table, dispLock, alive, raised>>
      /\ UNCHANGED <<inner, host, stack, calls, askew>>
  BY DEF sgVars, mgrVars, kernelVars
<1>2. SgTypeOK' /\ RegistrationKept'
  BY <1>1 DEF SgInv, SgTypeOK, RegistrationKept
<1>3. ThreadsOK' /\ LockOK'
  BY <1>1 DEF SgInv, ThreadsOK, LockOK, At, Top, Askew
<1>4. CallsOK'
  BY <1>1 DEF SgInv, CallsOK, CallOK, Kept
<1> QED BY <1>2, <1>3, <1>4 DEF SgInv

LEMMA SignalStep == SgInv /\ [SgNext]_sgVars => SgInv'
<1> SUFFICES ASSUME SgInv, [SgNext]_sgVars PROVE SgInv'
  OBVIOUS
<1>1. CASE UNCHANGED sgVars
  BY <1>1, SignalStutter
<1>2. ASSUME NEW t \in Thread,
             \E how \in {"BLOCK", "UNBLOCK", "SETMASK"}, set \in SUBSET Sig :
                Sigprocmask(t, how, set)
      PROVE  SgInv'
  BY <1>2, SigprocmaskKeeps
<1>3. ASSUME NEW t \in Thread, HostMask(t) \/ MaskReturns(t) PROVE SgInv'
  BY <1>3, HostMaskKeeps, MaskReturnsKeeps
<1>4. ASSUME NEW t \in Thread, NEW s \in Sig,
             \/ Register(t, s, "register", NoAct)
             \/ \E act \in Acts : Register(t, s, "sigaction", act)
             \/ UnregisterSignal(t, s)
             \/ Raise(t, s) \/ Arrive(t, s) \/ Deliver(t, s)
      PROVE  SgInv'
  <2>1. NoAct \in ActType /\ Acts \subseteq ActType
    BY SignalSets DEF NoAct, ActType
  <2>6. Register(t, s, "register", NoAct) => SgInv'
    BY <2>1, RegisterKeeps
  <2>7. ASSUME NEW act \in Acts, Register(t, s, "sigaction", act) PROVE SgInv'
    BY <2>1, <2>7, RegisterKeeps
  <2>2. UnregisterSignal(t, s) => SgInv'
    BY UnregisterSignalKeeps
  <2>3. Raise(t, s) => SgInv'
    BY RaiseKeeps
  <2>4. Arrive(t, s) => SgInv'
    BY ArriveKeeps
  <2>5. Deliver(t, s) => SgInv'
    BY DeliverKeeps
  <2> QED BY <1>4, <2>2, <2>3, <2>4, <2>5, <2>6, <2>7
<1>5. ASSUME NEW t \in Thread,
             SetAction(t) \/ UseSlot(t) \/ Panics(t) \/ Unlock(t)
      PROVE  SgInv'
  BY <1>5, SetActionKeeps, UseSlotKeeps, PanicsKeeps, UnlockKeeps
<1>6. ASSUME NEW t \in Thread,
             \/ RegMask(t) \/ RegLock(t) \/ RegInsert(t) \/ RegRestore(t)
             \/ SigactionFails(t) \/ Sigaction(t) \/ ActionReturns(t)
      PROVE  SgInv'
  BY <1>6, RegMaskKeeps, RegLockInsertKeeps, RegRestoreKeeps, SigactionKeeps,
     ActionReturnsKeeps
<1>7. ASSUME NEW t \in Thread, \E id \in returned \ gone : Unregister(t, id)
      PROVE  SgInv'
  BY <1>7, UnregisterKeeps
<1>8. ASSUME NEW t \in Thread,
             \/ RaiseReturns(t) \/ EidLock(t) \/ EidGet(t) \/ Ecall(t)
             \/ GetAction(t) \/ ResetOnHandle(t) \/ HandlerReturns(t) \/ Sigreturn(t)
      PROVE  SgInv'
  BY <1>8, RaiseKeeps, EidLockKeeps, EidGetKeeps, EcallKeeps, GetActionKeeps,
     ResetKeeps, HandlerReturnsKeeps, SigreturnKeeps
<1>9. CASE SgNext
  <2>1. PICK t \in Thread :
          \/ \E how \in {"BLOCK", "UNBLOCK", "SETMASK"}, set \in SUBSET Sig :
                Sigprocmask(t, how, set)
          \/ HostMask(t) \/ MaskReturns(t)
          \/ \E s \in Sig :
                \/ Register(t, s, "register", NoAct)
                \/ \E act \in Acts : Register(t, s, "sigaction", act)
                \/ UnregisterSignal(t, s)
                \/ Raise(t, s) \/ Arrive(t, s) \/ Deliver(t, s)
          \/ SetAction(t) \/ UseSlot(t) \/ Panics(t) \/ Unlock(t)
          \/ RegMask(t) \/ RegLock(t) \/ RegInsert(t) \/ RegRestore(t)
          \/ SigactionFails(t) \/ Sigaction(t) \/ ActionReturns(t)
          \/ \E id \in returned \ gone : Unregister(t, id)
          \/ RaiseReturns(t) \/ EidLock(t) \/ EidGet(t) \/ Ecall(t)
          \/ GetAction(t) \/ ResetOnHandle(t) \/ HandlerReturns(t) \/ Sigreturn(t)
    BY <1>9 DEF SgNext
  <2> QED BY <2>1, <1>2, <1>3, <1>4, <1>5, <1>6, <1>7, <1>8
<1> QED BY <1>1, <1>9

LEMMA SignalInvariant == SgSpec => []SgInv
BY SignalInit, SignalStep, PTL DEF SgSpec

\* signal_action_lock: a closure whose SignalId register has returned is in
\* the table until it is unregistered, reset or replaced by rsgx_sigaction.
THEOREM SignalKeepsActions == SgSpec => []RegistrationKept
<1>1. SgInv => RegistrationKept
  BY DEF SgInv
<1> QED BY <1>1, SignalInvariant, PTL

\* rsgx_sigprocmask and the handlers, nested to any depth and with any
\* sa_masks, leave the mask that the enclave keeps and the kernel's in step,
\* until an ocall that changes the kernel's fails, and again from the next
\* SIG_SETMASK that succeeds.
THEOREM SignalMasksInStep == SgSpec => []MasksInStep
<1>1. SgInv => MasksInStep
  <2> SUFFICES ASSUME SgInv, NEW t \in Thread \ askew,
                      Len(stack[t]) = 1, At(t, "user")
               PROVE  inner[t] = Blockable(host[t])
    BY DEF MasksInStep
  <2>1. Askew(t) = {}
    BY DEF Askew
  <2>2. OwnMasks(Top(t), inner[t], host[t], Askew(t))
    BY OwnFacts
  <2> QED BY <2>1, <2>2 DEF At, OwnMasks, MaskPc, RegPc
<1> QED BY <1>1, SignalInvariant, PTL

\* t_signal_handler_ecall finds a signal blocked inside only after a failed
\* sigprocmask ocall, or above a handler for which the sa_mask in the
\* enclave's slot was not the one that the kernel had.
THEOREM SignalRefusedOnlyOutOfSync == SgSpec => []RefusedOnlyOutOfSync
<1>1. SgInv => RefusedOnlyOutOfSync
  <2> SUFFICES ASSUME SgInv, NEW t \in Thread \ askew, At(t, "ecall"),
                      \A n \in 2 .. Len(stack[t]) - 1 : Faithful(stack[t][n])
               PROVE  Top(t).sig \notin inner[t]
    BY DEF RefusedOnlyOutOfSync
  <2>1. Askew(t) = {}
    BY DEF Askew
  <2>2. Below(t)
    BY <2>1 DEF Below, Sound
  <2>3. Len(stack[t]) # 1
    BY WhereAt DEF At, OwnPc
  <2>4. Unblocked(Top(t), inner[t])
    BY <2>2, <2>3, HandlerFacts
  <2> QED BY <2>4 DEF At, Unblocked
<1> QED BY <1>1, SignalInvariant, PTL

\* No handler interrupts signal_register, whose mutex it would need.
THEOREM SignalRegistersAlone == SgSpec => []RegisteringNotInterrupted
<1>1. SgInv => RegisteringNotInterrupted
  BY DEF SgInv, ThreadsOK, StackOK, RegPc, RegisteringNotInterrupted
<1> QED BY <1>1, SignalInvariant, PTL
=============================================================================

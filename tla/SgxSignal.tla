----------------------------- MODULE SgxSignal ------------------------------
(***************************************************************************)
(* Signals of an enclave: the trusted manager (sgx_signal: manager.rs,     *)
(* signal.rs) and the untrusted dispatcher (sgx_ustdc/signal.c), with the  *)
(* kernel between them.  A thread has a stack of frames: its own code at   *)
(* the bottom and, above it, the handlers that the kernel has started.  A  *)
(* handler enters the enclave only when everything below it is outside, in *)
(* an ocall or on the way into or out of a handler's ecall.  Each thread   *)
(* has the mask the enclave keeps (inner) and the kernel's (host).         *)
(*                                                                         *)
(* Any signal may be given closures with register and actions, each with   *)
(* its own sa_mask, with rsgx_sigaction, in any order.  The handlers       *)
(* themselves may raise signals and unregister, but do not register or     *)
(* change their mask.  Every ocall may fail.                               *)
(***************************************************************************)
EXTENDS Naturals, SequencesExt

CONSTANTS
    Thread, NoThread,
    Sig, NoSig,
    RtMax,          \* the signal SIGRTMAX, or NoSig
    Acts,           \* the actions rsgx_sigaction is given: the sa_mask, and
                    \* whether the flags have SA_RESETHAND
    Registered,     \* the signals that are registered at the start, by closures
                    \* that are unregistered again
    Signalled,      \* bound: the threads that signals are sent to
    Failing,        \* bound: the threads for which calls on the host may fail
    MaxActions,     \* bound on the ActionIds
    MaxCalls,       \* bound on the calls that change masks and slots
    MaxRaised       \* bound on the signals that are raised

ASSUME SignalSets ==
    /\ NoThread \notin Thread /\ NoSig \notin Sig /\ Registered \subseteq Sig
    /\ Acts \subseteq [mask : SUBSET Sig, reset : BOOLEAN]

VARIABLES
    slots,      \* slots[s]: the ActionSlot of s in action_set
    resetSet,   \* reset_set
    counter,    \* the last ActionId
    poisoned,   \* action_set is poisoned: its lock().unwrap() panics
    actionLock, \* the holder of signal_action_lock
    inner,      \* inner[t]: SIGNAL_MASK
    host,       \* host[t]: the kernel's mask of t
    pending,    \* pending[t]: signals for t that are not delivered
    disp,       \* disp[s]: the kernel's disposition of s
    table,      \* signal_to_eid_set: the signals of this enclave
    dispLock,   \* the holder of the dispatcher's mutex
    stack,      \* stack[t]: the frames of t
    alive,      \* the process has not been killed by a default disposition
    calls, raised,
    returned,   \* ghost: the SignalIds that register has returned
    gone,       \* ghost: the SignalIds that were taken out of the table
    askew       \* ghost: the threads whose sigprocmask ocall has failed since
                \* their last SIG_SETMASK that succeeded

mgrVars == <<slots, resetSet, counter, poisoned, actionLock, returned, gone>>
kernelVars == <<pending, disp, table, dispLock, alive, raised>>
sgVars == <<mgrVars, kernelVars, inner, host, stack, calls, askew>>

NoAct == [mask |-> {}, reset |-> FALSE]     \* mem::zeroed()
NoSlot == [on |-> FALSE, mask |-> {}, acts |-> {}]
SigDfl == [on |-> FALSE, mask |-> {}, reset |-> FALSE]

\* A frame: the signal it handles, where it is, the call it makes (op, on
\* the signal about, with the action act), what that call does to the mask
\* and where it goes on, whether the slot existed and was found, the host
\* mask that signal_register saves, the one that the kernel restores, the
\* inner one that handler saves, and its copy of the slot.  In a handler's
\* frame act is the action that the kernel has started it with.
Frame(s, at) ==
    [sig |-> s, pc |-> at, op |-> "none", about |-> NoSig, act |-> NoAct,
     how |-> "SETMASK", mask |-> {}, next |-> "user", exist |-> FALSE,
     found |-> FALSE, old |-> {}, saved |-> {}, keep |-> {}, slot |-> NoSlot]

SgInit ==
    /\ slots = [s \in Sig |-> [NoSlot EXCEPT !.on = s \in Registered]]
    /\ resetSet = {} /\ counter = 0 /\ poisoned = FALSE
    /\ actionLock = NoThread
    /\ inner = [t \in Thread |-> {}]
    /\ host = [t \in Thread |-> {}]
    /\ pending = [t \in Thread |-> {}]
    /\ disp = [s \in Sig |-> [SigDfl EXCEPT !.on = s \in Registered]]
    /\ table = Registered /\ dispLock = NoThread
    /\ stack = [t \in Thread |-> <<Frame(NoSig, "user")>>]
    /\ alive = TRUE /\ calls = 0 /\ raised = 0
    /\ returned = {} /\ gone = {} /\ askew = {}

Top(t) == Last(stack[t])
At(t, at) == Top(t).pc = at
SetTop(t, f) == stack' = [stack EXCEPT ![t][Len(stack[t])] = f]
Goto(t, at) == SetTop(t, [Top(t) EXCEPT !.pc = at])

Outside == {"mask_out", "mask_ret", "act_out", "reg_lock", "reg_insert",
            "reg_restore", "act_sys", "act_ret", "raise_out",
            "eid_lock", "eid_get", "ecall", "sigreturn"}

\* The thread is in the enclave below its top frame: it was interrupted there
\* by an asynchronous exit and cannot enter again.
Entered(t) == \E n \in 1 .. Len(stack[t]) - 1 : stack[t][n].pc \notin Outside

Ids(s) == {[signal |-> s, action |-> a] : a \in slots[s].acts}

-----------------------------------------------------------------------------
(***************************************************************************)
(* rsgx_sigprocmask: unblock inside, change the host's mask, block inside. *)
(***************************************************************************)
Blockable(set) == set \ {RtMax}         \* block stops short of SIGRTMAX

ToBlock(how, set) == IF how = "UNBLOCK" THEN {} ELSE set

ToUnblock(how, set) ==
    IF how = "BLOCK" THEN {} ELSE IF how = "UNBLOCK" THEN set ELSE Sig \ set

\* Mutant of BeginMask: signals are blocked inside before the host.
BeginMask_BlockFirst(t, f, how, set, next) ==
    /\ inner' = [inner EXCEPT ![t] =
          (@ \ ToUnblock(how, set)) \cup Blockable(ToBlock(how, set))]
    /\ SetTop(t, [f EXCEPT !.pc = "mask_out", !.how = how, !.mask = set, !.next = next])

\* f is the frame as the caller leaves it.
BeginMask(t, f, how, set, next) ==
    /\ inner' = [inner EXCEPT ![t] = @ \ ToUnblock(how, set)]
    /\ SetTop(t, [f EXCEPT !.pc = "mask_out", !.how = how, !.mask = set, !.next = next])

\* The ocall changes the host's mask or fails.  Its result is only returned
\* to the caller.
HostMask(t) ==
    LET f == Top(t)
    IN  /\ At(t, "mask_out")
        /\ \/ /\ host' = [host EXCEPT ![t] =
                    (@ \ ToUnblock(f.how, f.mask)) \cup ToBlock(f.how, f.mask)]
              /\ askew' = IF f.how = "SETMASK" THEN askew \ {t} ELSE askew
           \/ /\ t \in Failing
              /\ askew' = askew \cup {t}
              /\ UNCHANGED host
        /\ Goto(t, "mask_ret")
        /\ UNCHANGED <<mgrVars, kernelVars, inner, calls>>

MaskReturns(t) ==
    /\ At(t, "mask_ret")
    /\ inner' = [inner EXCEPT ![t] = @ \cup Blockable(ToBlock(Top(t).how, Top(t).mask))]
    /\ SetTop(t, [Top(t) EXCEPT !.pc = Top(t).next, !.how = "SETMASK", !.mask = {}])
    /\ UNCHANGED <<mgrVars, kernelVars, host, calls, askew>>

Sigprocmask(t, how, set) ==
    /\ Len(stack[t]) = 1 /\ At(t, "user") /\ calls < MaxCalls
    /\ BeginMask(t, Top(t), how, set, "user")
    /\ calls' = calls + 1
    /\ UNCHANGED <<mgrVars, kernelVars, host, askew>>

-----------------------------------------------------------------------------
(***************************************************************************)
(* register and rsgx_sigaction (native_sigaction_impl, native_sigaction).  *)
(***************************************************************************)

\* Mutant of Register: signal_action_lock is not taken.
Register_NoLock(t, s, op, act) ==
    /\ Len(stack[t]) = 1 /\ At(t, "user") /\ calls < MaxCalls
    /\ ~poisoned
    /\ calls' = calls + 1
    /\ BeginMask(t, [Top(t) EXCEPT !.about = s, !.exist = slots[s].on, !.op = op, !.act = act],
                 "SETMASK", Sig, "set")
    /\ UNCHANGED <<mgrVars, kernelVars, host, askew>>

\* Under signal_action_lock: the old action is read, then everything is
\* blocked.
Register(t, s, op, act) ==
    /\ Len(stack[t]) = 1 /\ At(t, "user") /\ calls < MaxCalls
    /\ ~poisoned /\ actionLock = NoThread
    /\ calls' = calls + 1
    /\ actionLock' = t
    /\ BeginMask(t, [Top(t) EXCEPT !.about = s, !.exist = slots[s].on, !.op = op, !.act = act],
                 "SETMASK", Sig, "set")
    /\ UNCHANGED <<slots, resetSet, counter, poisoned, returned, gone>>
    /\ UNCHANGED <<kernelVars, host, askew>>

\* set_action replaces the slot; set_action_impl first asks whether there
\* is one.
SetAction(t) ==
    LET s == Top(t).about
    IN  /\ At(t, "set") /\ ~poisoned
        /\ \/ /\ Top(t).op = "register"
              /\ SetTop(t, [Top(t) EXCEPT !.pc = "use", !.found = slots[s].on])
              /\ UNCHANGED <<slots, gone, inner>>
           \/ /\ Top(t).op = "sigaction"
              /\ slots' = [slots EXCEPT ![s] = [on |-> TRUE, mask |-> Top(t).act.mask, acts |-> {}]]
              /\ gone' = gone \cup Ids(s)
              /\ BeginMask(t, Top(t), "SETMASK", {}, "unlock")
        /\ UNCHANGED <<resetSet, counter, poisoned, actionLock, returned>>
        /\ UNCHANGED <<kernelVars, host, calls, askew>>

\* The second half of set_action_impl, under another lock of the table: a
\* new slot, or one more action in the slot that was found.  What is
\* restored afterwards is the empty mask: old_mask is never filled.
UseSlot(t) ==
    LET s == Top(t).about
        id == counter + 1
    IN  /\ At(t, "use") /\ ~poisoned /\ counter < MaxActions
        /\ Top(t).found => slots[s].on
        /\ counter' = id
        /\ slots' = [slots EXCEPT ![s] =
              IF Top(t).found THEN [slots[s] EXCEPT !.acts = slots[s].acts \cup {id}]
              ELSE [on |-> TRUE, mask |-> {}, acts |-> {id}]]
        /\ BeginMask(t, [Top(t) EXCEPT !.slot.acts = {id}],
                     "SETMASK", {}, "unlock")
        /\ UNCHANGED <<resetSet, poisoned, actionLock, returned, gone>>
        /\ UNCHANGED <<kernelVars, host, calls, askew>>

\* unwrap of a slot that is gone again, in the table's lock; or any use of
\* the table after that.  The thread unwinds and is of no more interest.
Panics(t) ==
    /\ \/ At(t, "use") /\ Top(t).found /\ ~slots[Top(t).about].on
       \/ poisoned /\ Top(t).pc \in {"set", "use", "handler", "reset"}
    /\ poisoned' = TRUE
    /\ actionLock' = IF actionLock = t THEN NoThread ELSE actionLock
    /\ Goto(t, "dead")
    /\ UNCHANGED <<slots, resetSet, counter, returned, gone>>
    /\ UNCHANGED <<kernelVars, inner, host, calls, askew>>

MyId(t) == {[signal |-> Top(t).about, action |-> a] : a \in Top(t).slot.acts}

\* The end of the critical section.  register returns when the slot was
\* there before, without looking at the host.
Unlock(t) ==
    LET done == Top(t).op = "register" /\ Top(t).exist
        s == Top(t).about
    IN  /\ At(t, "unlock")
        /\ actionLock' = NoThread
        /\ returned' = IF done THEN returned \cup MyId(t) ELSE returned
        /\ resetSet' = IF ~done /\ Top(t).act.reset THEN resetSet \cup {s} ELSE resetSet
        /\ SetTop(t, IF done THEN Frame(Top(t).sig, "user") ELSE [Top(t) EXCEPT !.pc = "act_out"])
        /\ UNCHANGED <<slots, counter, poisoned, gone>>
        /\ UNCHANGED <<kernelVars, inner, host, calls, askew>>

\* Mutant of RegMask: signals are not blocked in the dispatcher.
RegMask_Open(t) ==
    /\ At(t, "act_out")
    /\ SetTop(t, [Top(t) EXCEPT !.pc = "reg_lock", !.old = host[t]])
    /\ UNCHANGED <<mgrVars, kernelVars, inner, host, calls, askew>>

\* u_sigaction_ocall: signal_register with all signals blocked.
RegMask(t) ==
    /\ At(t, "act_out")
    /\ host' = [host EXCEPT ![t] = Sig]
    /\ SetTop(t, [Top(t) EXCEPT !.pc = "reg_lock", !.old = host[t]])
    /\ UNCHANGED <<mgrVars, kernelVars, inner, calls, askew>>

RegLock(t) ==
    /\ At(t, "reg_lock") /\ dispLock = NoThread
    /\ dispLock' = t
    /\ Goto(t, "reg_insert")
    /\ UNCHANGED <<mgrVars, pending, disp, table, alive, raised, inner, host, calls, askew>>

\* The entry is allocated, or not; nobody is told.
RegInsert(t) ==
    /\ At(t, "reg_insert")
    /\ \/ table' = table \cup {Top(t).about}
       \/ t \in Failing /\ UNCHANGED table
    /\ dispLock' = NoThread
    /\ Goto(t, "reg_restore")
    /\ UNCHANGED <<mgrVars, pending, disp, alive, raised, inner, host, calls, askew>>

RegRestore(t) ==
    /\ At(t, "reg_restore")
    /\ host' = [host EXCEPT ![t] = Top(t).old]
    /\ Goto(t, "act_sys")
    /\ UNCHANGED <<mgrVars, kernelVars, inner, calls, askew>>

\* The ocall fails, and register with it: the slot stays in the table.
SigactionFails(t) ==
    /\ At(t, "act_out") /\ t \in Failing
    /\ SetTop(t, [Top(t) EXCEPT !.pc = "act_ret", !.slot = NoSlot])
    /\ UNCHANGED <<mgrVars, kernelVars, inner, host, calls, askew>>

\* sigaction(2), which may fail.
Sigaction(t) ==
    LET s == Top(t).about
    IN  /\ At(t, "act_sys")
        /\ \/ /\ disp' = [disp EXCEPT ![s] =
                    [on |-> TRUE, mask |-> Top(t).act.mask, reset |-> Top(t).act.reset]]
              /\ SetTop(t, [Top(t) EXCEPT !.pc = "act_ret"])
           \/ /\ t \in Failing
              /\ SetTop(t, [Top(t) EXCEPT !.pc = "act_ret", !.slot = NoSlot])
              /\ UNCHANGED disp
        /\ UNCHANGED <<mgrVars, pending, table, dispLock, alive, raised>>
        /\ UNCHANGED <<inner, host, calls, askew>>

ActionReturns(t) ==
    /\ At(t, "act_ret")
    /\ returned' = returned \cup MyId(t)
    /\ SetTop(t, Frame(Top(t).sig, "user"))
    /\ UNCHANGED <<slots, resetSet, counter, poisoned, actionLock, gone>>
    /\ UNCHANGED <<kernelVars, inner, host, calls, askew>>

\* unregister and unregister_signal: no lock but the table's.
Unregister(t, id) ==
    /\ At(t, "user") /\ ~poisoned
    /\ slots' = [slots EXCEPT ![id.signal].acts = @ \ {id.action}]
    /\ gone' = gone \cup {id}
    /\ UNCHANGED <<resetSet, counter, poisoned, actionLock, returned>>
    /\ UNCHANGED <<kernelVars, inner, host, stack, calls, askew>>

UnregisterSignal(t, s) ==
    /\ At(t, "user") /\ calls < MaxCalls /\ ~poisoned
    /\ slots' = [slots EXCEPT ![s] = NoSlot]
    /\ calls' = calls + 1
    /\ gone' = gone \cup Ids(s)
    /\ UNCHANGED <<resetSet, counter, poisoned, actionLock, returned>>
    /\ UNCHANGED <<kernelVars, inner, host, stack, askew>>

-----------------------------------------------------------------------------
(***************************************************************************)
(* Signals and their handlers.                                             *)
(***************************************************************************)
Raise(t, s) ==
    /\ At(t, "user") /\ t \in Signalled /\ raised < MaxRaised
    /\ raised' = raised + 1
    /\ pending' = [pending EXCEPT ![t] = @ \cup {s}]
    /\ Goto(t, "raise_out")
    /\ UNCHANGED <<mgrVars, disp, table, dispLock, alive, inner, host, calls, askew>>

\* raise(3) returns after the signal was delivered, unless it is blocked.
RaiseReturns(t) ==
    /\ At(t, "raise_out")
    /\ pending[t] \subseteq host[t]
    /\ Goto(t, "user")
    /\ UNCHANGED <<mgrVars, kernelVars, inner, host, calls, askew>>

\* A signal from elsewhere.
Arrive(t, s) ==
    /\ t \in Signalled /\ raised < MaxRaised
    /\ raised' = raised + 1
    /\ pending' = [pending EXCEPT ![t] = @ \cup {s}]
    /\ UNCHANGED <<mgrVars, disp, table, dispLock, alive, inner, host, stack, calls, askew>>

\* The kernel starts handle_signal_entry, wherever the thread is, or ends the
\* process.
Deliver(t, s) ==
    /\ ~At(t, "dead")
    /\ s \in pending[t] \ host[t]
    /\ pending' = [pending EXCEPT ![t] = @ \ {s}]
    /\ \/ /\ disp[s].on
          /\ stack' = [stack EXCEPT ![t] =
                Append(@, [Frame(s, "eid_lock") EXCEPT !.saved = host[t], !.act.mask = disp[s].mask])]
          /\ host' = [host EXCEPT ![t] = @ \cup disp[s].mask \cup {s}]
          /\ disp' = [disp EXCEPT ![s] = IF @.reset THEN SigDfl ELSE @]
          /\ UNCHANGED alive
       \/ /\ ~disp[s].on
          /\ alive' = FALSE
          /\ UNCHANGED <<stack, host, disp>>
    /\ UNCHANGED <<mgrVars, table, dispLock, raised, inner, calls, askew>>

\* get_eid_for_signal takes the dispatcher's mutex with nothing blocked but
\* what the kernel blocks for this handler.
EidLock(t) ==
    /\ At(t, "eid_lock") /\ dispLock = NoThread
    /\ dispLock' = t
    /\ Goto(t, "eid_get")
    /\ UNCHANGED <<mgrVars, pending, disp, table, alive, raised, inner, host, calls, askew>>

EidGet(t) ==
    /\ At(t, "eid_get")
    /\ dispLock' = NoThread
    /\ Goto(t, IF Top(t).sig \in table THEN "ecall" ELSE "sigreturn")
    /\ UNCHANGED <<mgrVars, pending, disp, table, alive, raised, inner, host, calls, askew>>

\* t_signal_handler_ecall refuses a signal that is blocked inside.  The ecall
\* may fail, and does in a thread that is inside already: the signal is lost.
Ecall(t) ==
    /\ At(t, "ecall")
    /\ \/ ~Entered(t) /\ Goto(t, IF Top(t).sig \in inner[t] THEN "sigreturn" ELSE "handler")
       \/ Goto(t, "sigreturn")
    /\ UNCHANGED <<mgrVars, kernelVars, inner, host, calls, askew>>

\* SignalManager::handler: a copy of the slot, the reset, and the mask.
GetAction(t) ==
    /\ At(t, "handler") /\ ~poisoned
    /\ LET slot == slots[Top(t).sig]
       IN  SetTop(t, [Top(t) EXCEPT !.slot = slot,
                         !.pc = IF slot.on THEN "reset" ELSE "sigreturn"])
    /\ UNCHANGED <<mgrVars, kernelVars, inner, host, calls, askew>>

ResetOnHandle(t) ==
    LET s == Top(t).sig
    IN  /\ At(t, "reset") /\ ~poisoned
        /\ slots' = IF s \in resetSet THEN [slots EXCEPT ![s] = NoSlot] ELSE slots
        /\ gone' = IF s \in resetSet THEN gone \cup Ids(s) ELSE gone
        /\ inner' = [inner EXCEPT ![t] = @ \cup Blockable(Top(t).slot.mask)]
        /\ SetTop(t, [Top(t) EXCEPT !.pc = "user", !.keep = inner[t]])
        /\ UNCHANGED <<resetSet, counter, poisoned, actionLock, returned>>
        /\ UNCHANGED <<kernelVars, host, calls, askew>>

\* Mutant of HandlerReturns: the mask inside is not restored.
HandlerReturns_KeepMask(t) ==
    /\ Len(stack[t]) > 1 /\ At(t, "user")
    /\ Goto(t, "sigreturn")
    /\ UNCHANGED <<mgrVars, kernelVars, inner, host, calls, askew>>

\* The handler and the actions have run: set_block_mask(old_mask).
HandlerReturns(t) ==
    /\ Len(stack[t]) > 1 /\ At(t, "user")
    /\ inner' = [inner EXCEPT ![t] = Top(t).keep]
    /\ Goto(t, "sigreturn")
    /\ UNCHANGED <<mgrVars, kernelVars, host, calls, askew>>

Sigreturn(t) ==
    /\ At(t, "sigreturn")
    /\ host' = [host EXCEPT ![t] = Top(t).saved]
    /\ stack' = [stack EXCEPT ![t] = Front(@)]
    /\ UNCHANGED <<mgrVars, kernelVars, inner, calls, askew>>

SgNext ==
    /\ alive
    /\ \E t \in Thread :
          \/ \E how \in {"BLOCK", "UNBLOCK", "SETMASK"}, set \in SUBSET Sig :
                Sigprocmask(t, how, set)
          \/ HostMask(t) \/ MaskReturns(t)
          \/ \E s \in Sig :
                \/ Register(t, s, "register", NoAct)
                \/ \E act \in Acts : Register(t, s, "sigaction", act)
                \/ UnregisterSignal(t, s)
                \/ Raise(t, s) \/ Arrive(t, s) \/ Deliver(t, s)
          \/ SetAction(t) \/ UseSlot(t) \/ Panics(t) \/ Unlock(t)
          \/ RegMask(t) \/ RegLock(t) \/ RegInsert(t) \/ RegRestore(t)
          \/ SigactionFails(t) \/ Sigaction(t) \/ ActionReturns(t)
          \/ \E id \in returned \ gone : Unregister(t, id)
          \/ RaiseReturns(t) \/ EidLock(t) \/ EidGet(t) \/ Ecall(t)
          \/ GetAction(t) \/ ResetOnHandle(t) \/ HandlerReturns(t) \/ Sigreturn(t)

SgSpec == SgInit /\ [][SgNext]_sgVars

-----------------------------------------------------------------------------
(***************************************************************************)
(* Properties.                                                             *)
(***************************************************************************)

\* signal_action_lock "is to ensure that signal handlers are not overwritten":
\* an action whose SignalId register returned is in the table until it is
\* unregistered, reset or replaced by rsgx_sigaction, although
\* set_action_impl looks for the slot and fills it under two locks.
RegistrationKept ==
    \A id \in returned \ gone :
        slots[id.signal].on /\ id.action \in slots[id.signal].acts

\* A thread that is in its own code, with all handlers returned, has the
\* same mask inside and on the host, but for SIGRTMAX, which the enclave
\* never records: whatever handlers interrupted its calls, and unless an
\* ocall of rsgx_sigprocmask failed, after which it blocks inside all the
\* same, and no SIG_SETMASK has succeeded since.
MasksInStep ==
    \A t \in Thread \ askew :
        Len(stack[t]) = 1 /\ At(t, "user") => inner[t] = Blockable(host[t])

\* The handler has set the inner mask and will restore the one it kept.
Running(f) == f.pc \in {"user", "raise_out"}

\* What the running handler f has blocked inside is in the sa_mask that the
\* kernel had when it started f.
Faithful(f) == Running(f) => Blockable(f.slot.mask) \subseteq f.act.mask

\* "If the signal is blocked and still passed into the enclave": what
\* t_signal_handler_ecall answers with -1, which loses the signal, happens only
\* after a failed sigprocmask ocall, or in a signal that interrupts a handler
\* for which rsgx_sigaction has set the enclave's sa_mask and not, or not yet,
\* the kernel's.
RefusedOnlyOutOfSync ==
    \A t \in Thread \ askew :
        At(t, "ecall") /\ Top(t).sig \in inner[t]
          => \E n \in 2 .. Len(stack[t]) - 1 : ~Faithful(stack[t][n])

\* "Block all signals when registering a signal handler to avoid deadlock":
\* no handler, which would need the dispatcher's mutex, starts on a thread
\* that is in signal_register.
RegisteringNotInterrupted ==
    \A t \in Thread : \A n \in 1 .. Len(stack[t]) - 1 :
        stack[t][n].pc \notin {"reg_lock", "reg_insert", "reg_restore"}
=============================================================================

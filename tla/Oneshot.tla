------------------------------ MODULE Oneshot -------------------------------
(***************************************************************************)
(* The oneshot flavour of mpsc channels (sync/mpsc/oneshot.rs) with the    *)
(* Sender and Receiver that use it (sync/mpsc/mod.rs), over the parker of  *)
(* the receiving thread: one atomic word carries the data flag, the        *)
(* disconnection and the token of a blocked receiver.  A step is one       *)
(* access of the word, with the cells that its result gives access to.     *)
(*                                                                         *)
(* A second send and a clone replace the packet by a stream or a shared    *)
(* packet: the model follows both halves up to the replacement.            *)
(***************************************************************************)
EXTENDS Parker

CONSTANTS
    Sender,         \* the thread that owns the sending half
    Token           \* the tokens that recv can block with

ASSUME OneshotThreads ==
    /\ Sender \in Unparker
    /\ Token \cap {"EMPTY", "DATA", "DISCONNECTED", "none"} = {}

VARIABLES
    word,       \* Packet.state
    data,       \* Packet.data: the message is in the slot
    upgrade,    \* Packet.upgrade
    woken,      \* woken[k]: Inner.woken of the token k
    rx,         \* where the receiver is
    call,       \* the call it is in: "try_recv", "recv" or "recv_deadline"
    tok,        \* the token of its last blocking call
    told,       \* what its last call returned
    tx,         \* where the sender is
    after,      \* where it goes when it has signalled
    held,       \* the token it took out of the word, "none" when signalled
    heir,       \* the token that clone handed to the shared packet
    sent        \* what send returned for the message

chanVars == <<word, data, upgrade, woken, rx, call, tok, told,
              tx, after, held, heir, sent>>

OsInit ==
    /\ PkInit
    /\ word = "EMPTY" /\ data = FALSE /\ upgrade = "NothingSent"
    /\ woken = [k \in Token |-> FALSE]
    /\ rx = "open" /\ call = "try_recv" /\ tok = "none" /\ told = "none"
    /\ tx = "open" /\ after = "open" /\ held = "none" /\ heir = "none"
    /\ sent = "none"

Blocked(w) == w \in Token

-----------------------------------------------------------------------------
(***************************************************************************)
(* The sender.                                                             *)
(***************************************************************************)
SenderIdle == up[Sender] = "idle"

\* What the sender does with the token it swapped out of the word.
TakeToken(next) ==
    /\ held' = word
    /\ tx' = "signal"
    /\ after' = next

\* send of the first message: the cells are written before the swap.
Send ==
    /\ tx = "open" /\ SenderIdle /\ upgrade = "NothingSent"
    /\ data' = TRUE
    /\ sent' = "none"
    /\ upgrade' = "SendUsed"
    /\ tx' = IF data THEN "panic" ELSE "swap"
    /\ UNCHANGED <<word, woken, rx, call, tok, told, after, held, heir>>

\* state.swap(DATA)
SendSwap ==
    /\ tx = "swap"
    /\ word' = "DATA"
    /\ \/ word = "EMPTY" /\ tx' = "open" /\ sent' = "Ok" /\ UNCHANGED <<held, after>>
       \/ word = "DISCONNECTED" /\ tx' = "undo" /\ UNCHANGED <<held, after, sent>>
       \/ word = "DATA" /\ tx' = "panic" /\ UNCHANGED <<held, after, sent>>
       \/ Blocked(word) /\ TakeToken("open") /\ sent' = "Ok"
    /\ UNCHANGED <<data, upgrade, woken, rx, call, tok, told, heir>>

\* The port hung up first: the message goes back to the caller.
SendUndo ==
    /\ tx = "undo"
    /\ word' = "DISCONNECTED"
    /\ upgrade' = "NothingSent"
    /\ data' = FALSE
    /\ tx' = IF data THEN "open" ELSE "panic"
    /\ sent' = "Err"
    /\ UNCHANGED <<woken, rx, call, tok, told, after, held, heir>>

\* A second send or a clone: the new receiving half is left in the packet.
Upgrade(how) ==
    /\ tx = "open" /\ SenderIdle
    /\ how = "second_send" => upgrade # "NothingSent"
    /\ upgrade' = "GoUp"
    /\ after' = upgrade
    /\ tx' = IF upgrade = "GoUp" THEN "panic" ELSE how
    /\ UNCHANGED <<word, data, woken, rx, call, tok, told, held, heir, sent>>

\* state.swap(DISCONNECTED) of upgrade: a blocked receiver is woken by
\* send; clone passes its token on to the shared packet (inherit_blocker).
\* The old packet is dropped by the sender afterwards.
UpgradeSwap ==
    /\ tx \in {"second_send", "clone"}
    /\ word' = "DISCONNECTED"
    /\ \/ /\ word \in {"DATA", "EMPTY"}
          /\ tx' = "drop"
          /\ UNCHANGED <<upgrade, held, heir, after>>
       \/ /\ word = "DISCONNECTED"
          /\ upgrade' = after
          /\ tx' = "drop"
          /\ UNCHANGED <<held, heir, after>>
       \/ /\ Blocked(word) /\ tx = "second_send"
          /\ TakeToken("drop")
          /\ UNCHANGED <<upgrade, heir>>
       \/ /\ Blocked(word) /\ tx = "clone"
          /\ heir' = word
          /\ tx' = "drop"
          /\ UNCHANGED <<upgrade, held, after>>
    /\ UNCHANGED <<data, woken, rx, call, tok, told, sent>>

\* Mutant of DropChan: nobody looks at the word that was swapped out.
DropChan_Silent ==
    /\ tx \in {"open", "drop"} /\ SenderIdle
    /\ word' = "DISCONNECTED"
    /\ tx' = "gone"
    /\ UNCHANGED <<data, upgrade, woken, rx, call, tok, told, after, held, heir, sent>>

DropChan ==
    /\ tx \in {"open", "drop"} /\ SenderIdle
    /\ word' = "DISCONNECTED"
    /\ \/ ~Blocked(word) /\ tx' = "gone" /\ UNCHANGED <<held, after>>
       \/ Blocked(word) /\ TakeToken("gone")
    /\ UNCHANGED <<data, upgrade, woken, rx, call, tok, told, heir, sent>>

\* SignalToken::signal, then unpark of the thread of the token.
Signal ==
    /\ tx = "signal"
    /\ woken' = [woken EXCEPT ![held] = TRUE]
    /\ tx' = "unpark"
    /\ UNCHANGED <<word, data, upgrade, rx, call, tok, told, after, held, heir, sent>>

SignalUnpark ==
    /\ tx = "unpark"
    /\ Unpark(Sender)
    /\ tx' = after
    /\ held' = "none"
    /\ UNCHANGED <<word, data, upgrade, woken, rx, call, tok, told, after, heir, sent>>

-----------------------------------------------------------------------------
(***************************************************************************)
(* The receiver.                                                           *)
(***************************************************************************)
ReceiverIdle == at = "idle"

\* recv and recv_deadline look at the word before they block; try_recv, and
\* a word that is not EMPTY, go on to Packet::try_recv.
Recv(c) ==
    /\ rx = "open" /\ ReceiverIdle
    /\ call' = c
    /\ rx' = IF c # "try_recv" /\ word = "EMPTY" THEN "block" ELSE "try"
    /\ UNCHANGED <<word, data, upgrade, woken, tok, told, tx, after, held, heir, sent>>

\* compare_exchange(EMPTY, token) with a token nobody else knows.
Block ==
    /\ rx = "block"
    /\ \E k \in Token \ {held, heir} :
          /\ tok' = k
          /\ woken' = [woken EXCEPT ![k] = FALSE]
          /\ \/ word = "EMPTY" /\ word' = k /\ rx' = "wait"
             \/ word # "EMPTY" /\ rx' = "try" /\ UNCHANGED word
    /\ UNCHANGED <<data, upgrade, call, told, tx, after, held, heir, sent>>

\* One turn of WaitToken::wait or wait_max_until: park unless woken.
WaitPark ==
    /\ rx = "wait" /\ ~woken[tok]
    /\ Park(IF call = "recv" THEN "park" ELSE "park_timeout")
    /\ UNCHANGED chanVars

Woken ==
    /\ rx = "wait" /\ ReceiverIdle /\ woken[tok]
    /\ rx' = IF call = "recv" /\ word = "EMPTY" THEN "panic" ELSE "try"
    /\ UNCHANGED <<word, data, upgrade, woken, call, tok, told, tx, after, held, heir, sent>>

TimedOut ==
    /\ rx = "wait" /\ ReceiverIdle /\ ~woken[tok] /\ call = "recv_deadline"
    /\ rx' = "abort"
    /\ UNCHANGED <<word, data, upgrade, woken, call, tok, told, tx, after, held, heir, sent>>

\* The branch of abort_selection for a word that is not the own token.
Aborted ==
    /\ \/ word = "EMPTY" /\ rx' = "panic" /\ UNCHANGED <<upgrade, told>>
       \/ word = "DATA" /\ rx' = "try" /\ UNCHANGED <<upgrade, told>>
       \/ /\ word = "DISCONNECTED" /\ data
          /\ rx' = "try"
          /\ UNCHANGED <<upgrade, told>>
       \/ /\ word = "DISCONNECTED" /\ ~data
          /\ upgrade' = "SendUsed"
          /\ \/ upgrade = "GoUp" /\ rx' = "drop" /\ told' = "Upgraded"
             \/ upgrade # "GoUp" /\ rx' = "try" /\ UNCHANGED told
    /\ UNCHANGED word

\* abort_selection: the load, and the compare_exchange of the own token,
\* which may come too late.
Abort ==
    /\ rx = "abort"
    /\ \/ Blocked(word) /\ rx' = "abort_cas" /\ UNCHANGED <<word, upgrade, told>>
       \/ ~Blocked(word) /\ Aborted
    /\ UNCHANGED <<data, woken, call, tok, tx, after, held, heir, sent>>

\* Mutant of AbortCas: the word is stored, not compared.
AbortCas_Store ==
    /\ rx = "abort_cas"
    /\ word' = "EMPTY" /\ rx' = "try" /\ UNCHANGED <<upgrade, told>>
    /\ UNCHANGED <<data, woken, call, tok, tx, after, held, heir, sent>>

AbortCas ==
    /\ rx = "abort_cas"
    /\ \/ Blocked(word) /\ word' = "EMPTY" /\ rx' = "try" /\ UNCHANGED <<upgrade, told>>
       \/ ~Blocked(word) /\ Aborted
    /\ UNCHANGED <<data, woken, call, tok, tx, after, held, heir, sent>>

\* Packet::try_recv: the load.  An upgrade looks like a disconnection, so
\* the data slot comes first.
TryRecv ==
    /\ rx = "try"
    /\ \/ /\ word = "EMPTY"
          /\ rx' = IF call = "recv" THEN "panic" ELSE "open"
          /\ told' = "Empty"
          /\ UNCHANGED <<data, upgrade>>
       \/ /\ word = "DATA"
          /\ rx' = "reset"
          /\ UNCHANGED <<data, upgrade, told>>
       \/ /\ word = "DISCONNECTED" /\ data
          /\ data' = FALSE /\ rx' = "open" /\ told' = "Ok"
          /\ UNCHANGED upgrade
       \/ /\ word = "DISCONNECTED" /\ ~data
          /\ upgrade' = "SendUsed"
          /\ \/ upgrade = "GoUp" /\ rx' = "drop" /\ told' = "Upgraded"
             \/ upgrade # "GoUp" /\ rx' = "open" /\ told' = "Disconnected"
          /\ UNCHANGED data
       \/ /\ Blocked(word)
          /\ rx' = "panic"
          /\ UNCHANGED <<data, upgrade, told>>
    /\ UNCHANGED <<word, woken, call, tok, tx, after, held, heir, sent>>

\* Mutant of Reset: DATA stays in the word.
Reset_Keep ==
    /\ rx = "reset"
    /\ rx' = "take"
    /\ UNCHANGED <<word, data, upgrade, woken, call, tok, told, tx, after, held, heir, sent>>

\* compare_exchange(DATA, EMPTY), whose failure does not matter.
Reset ==
    /\ rx = "reset"
    /\ word' = IF word = "DATA" THEN "EMPTY" ELSE word
    /\ rx' = "take"
    /\ UNCHANGED <<data, upgrade, woken, call, tok, told, tx, after, held, heir, sent>>

Take ==
    /\ rx = "take"
    /\ data' = FALSE
    /\ rx' = IF data THEN "open" ELSE "panic"
    /\ told' = "Ok"
    /\ UNCHANGED <<word, upgrade, woken, call, tok, tx, after, held, heir, sent>>

\* drop_port, of the Receiver or of the half that an upgrade replaced.
DropPort ==
    /\ rx \in {"open", "drop"} /\ ReceiverIdle
    /\ word' = "DISCONNECTED"
    /\ \/ word \in {"DISCONNECTED", "EMPTY"} /\ rx' = "gone" /\ UNCHANGED data
       \/ word = "DATA" /\ data' = FALSE /\ rx' = IF data THEN "gone" ELSE "panic"
       \/ Blocked(word) /\ rx' = "panic" /\ UNCHANGED data
    /\ UNCHANGED <<upgrade, woken, call, tok, told, tx, after, held, heir, sent>>

-----------------------------------------------------------------------------
\* Other code of the receiving thread parks, other threads unpark it, and
\* the shared packet signals the token it inherited.
OtherPark ==
    /\ rx \in {"open", "gone"}
    /\ \E m \in {"park", "park_timeout"} : Park(m)
    /\ UNCHANGED chanVars

OtherUnpark ==
    /\ \E u \in Unparker \ {Sender} : Unpark(u)
    /\ UNCHANGED chanVars

HeirSignals ==
    /\ heir # "none"
    /\ \E u \in Unparker \ {Sender} : Unpark(u)
    /\ woken' = [woken EXCEPT ![heir] = TRUE]
    /\ heir' = "none"
    /\ UNCHANGED <<word, data, upgrade, rx, call, tok, told, tx, after, held, sent>>

ParkerStep ==
    /\ OwnerStep \/ \E u \in Unparker : UnparkStep(u)
    /\ UNCHANGED chanVars

SenderStep ==
    \/ /\ SendSwap \/ SendUndo \/ UpgradeSwap \/ Signal \/ (tx = "drop" /\ DropChan)
       /\ UNCHANGED parkVars
    \/ SignalUnpark

ReceiverStep ==
    \/ /\ \/ Block \/ Woken \/ Abort \/ AbortCas \/ TryRecv \/ Reset \/ Take
          \/ (rx = "drop" /\ DropPort)
       /\ UNCHANGED parkVars
    \/ WaitPark

OsNext ==
    \/ /\ \/ Send
          \/ \E how \in {"second_send", "clone"} : Upgrade(how)
          \/ tx = "open" /\ DropChan
          \/ \E c \in {"try_recv", "recv", "recv_deadline"} : Recv(c)
          \/ TimedOut
          \/ rx = "open" /\ DropPort
       /\ UNCHANGED parkVars
    \/ SenderStep
    \/ ReceiverStep
    \/ ParkerStep
    \/ OtherPark
    \/ OtherUnpark
    \/ HeirSignals

osVars == <<parkVars, chanVars>>

(***************************************************************************)
(* A half that is in a call gets on with it, and the parker is as fair as  *)
(* PkFairness has it.  Nobody has to call anything, and a deadline need    *)
(* not pass.                                                               *)
(***************************************************************************)
OsFairness ==
    /\ WF_osVars(SenderStep)
    /\ WF_osVars(ReceiverStep)
    /\ WF_osVars(OwnerStep /\ UNCHANGED chanVars)
    /\ SF_osVars(OwnerLock /\ UNCHANGED chanVars)
    /\ \A u \in Unparker :
          /\ WF_osVars(UnparkStep(u) /\ UNCHANGED chanVars)
          /\ SF_osVars(UnparkLock(u) /\ UNCHANGED chanVars)

OsSpec == OsInit /\ [][OsNext]_osVars /\ OsFairness

-----------------------------------------------------------------------------
(***************************************************************************)
(* Properties.                                                             *)
(***************************************************************************)

\* No unreachable!, unwrap, panic! or assertion of the packet is hit,
\* whatever send, upgrade, timeout and disconnection race for the word; the
\* last one is the assert_eq of Packet::drop.
NeverUnreachable ==
    /\ rx # "panic" /\ tx # "panic"
    /\ rx = "gone" /\ tx = "gone" => word = "DISCONNECTED"

\* A message that send accepted is in the slot until the receiver has it or
\* drops the port, and the receiver is not sent away before: it is told
\* neither Disconnected nor Upgraded while the message is in the slot.
MessageKept ==
    /\ sent = "Err" => ~data
    /\ told \in {"Disconnected", "Upgraded"} => ~data
    /\ data /\ sent = "Ok" /\ rx = "open" => word \in {"DATA", "DISCONNECTED"}

\* Liveness: a receiver does not stay blocked on a channel whose word is no
\* longer its token, unless a clone handed the token on.
BlockedIsWoken == (rx = "wait" /\ word # tok /\ heir # tok) ~> rx # "wait"
(***************************************************************************)
(* The inductive invariant behind NeverUnreachable and MessageKept.        *)
(***************************************************************************)
OsTypeOK ==
    /\ word \in {"EMPTY", "DATA", "DISCONNECTED"} \cup Token
    /\ data \in BOOLEAN
    /\ upgrade \in {"NothingSent", "SendUsed", "GoUp"}
    /\ woken \in [Token -> BOOLEAN]
    /\ rx \in {"open", "block", "wait", "abort", "abort_cas", "try", "reset",
               "take", "drop", "gone", "panic"}
    /\ call \in {"try_recv", "recv", "recv_deadline"}
    /\ tok \in Token \cup {"none"}
    /\ told \in {"none", "Ok", "Empty", "Disconnected", "Upgraded"}
    /\ tx \in {"open", "swap", "undo", "second_send", "clone", "drop", "signal",
               "unpark", "gone", "panic"}
    /\ after \in {"open", "drop", "gone", "NothingSent", "SendUsed", "GoUp"}
    /\ held \in Token \cup {"none"}
    /\ heir \in Token \cup {"none"}
    /\ sent \in {"none", "Ok", "Err"}

Signalling == tx \in {"signal", "unpark"}
Waiting == rx \in {"wait", "abort", "abort_cas"}

\* The sending half still uses the packet: it has neither upgraded nor left.
SenderOn ==
    \/ tx \in {"open", "swap", "undo", "second_send", "clone"}
    \/ Signalling /\ after = "open"

\* The token in the word is the one the receiver waits with, nobody else has
\* it, and it was not signalled; a waiting receiver never sees EMPTY.
TokenOwned ==
    /\ Signalling => after \in {"open", "drop", "gone"}
    /\ tx = "signal" => held # "none"
    /\ Waiting => tok # "none" /\ word # "EMPTY"
    /\ rx \in {"abort", "abort_cas"} => call = "recv_deadline"
    /\ rx = "try" /\ call = "recv" => word # "EMPTY"
    /\ Blocked(word) =>
          Waiting /\ word = tok /\ word \notin {held, heir} /\ ~woken[word]

\* Who has disconnected, and that the word stays so.
DisconnectedBy ==
    /\ SenderOn /\ word = "DISCONNECTED" => rx = "gone"
    /\ ~SenderOn => word = "DISCONNECTED"
    /\ rx = "gone" /\ tx # "undo" => word = "DISCONNECTED"
    /\ rx = "drop" => word = "DISCONNECTED"
    /\ tx = "undo" => rx = "gone" /\ data
    /\ told \in {"Disconnected", "Upgraded"} => ~SenderOn

\* The slot goes with the word and with what the sender has done so far.
SlotAgrees ==
    /\ word = "DATA" => data
    /\ rx \in {"reset", "take"} => data /\ upgrade # "NothingSent" /\ tx # "swap"
    /\ rx = "take" => word # "DATA"
    /\ tx = "swap" => data /\ word # "DATA"
    /\ upgrade = "NothingSent" => ~data
    /\ tx \in {"second_send", "clone"} =>
          upgrade = "GoUp" /\ after \in {"NothingSent", "SendUsed"}
    /\ tx \in {"second_send", "clone"} /\ after = "NothingSent" => ~data
    /\ tx \in {"open", "swap", "undo"} \/ (Signalling /\ after = "open") =>
          upgrade # "GoUp"
    /\ data /\ sent = "Ok" /\ rx # "take" => word \in {"DATA", "DISCONNECTED"}

OsInv ==
    /\ OsTypeOK
    /\ TokenOwned
    /\ DisconnectedBy
    /\ SlotAgrees
    /\ NeverUnreachable
    /\ MessageKept
=============================================================================

----------------------------- MODULE DhSession ------------------------------
(***************************************************************************)
(* Diffie-Hellman session establishment between enclaves (sgx_tdh/dh.rs):  *)
(* SgxDhResponder and SgxDhInitiator, objects of the enclaves they live    *)
(* in, exchange messages 1 to 3 through the host, which may lose, repeat,  *)
(* reorder and misroute them, and damage message 1.  Either side may start *)
(* over at any time and every call into the cryptographic library may fail.*)
(*                                                                         *)
(* Cryptography is symbolic.  A key pair is a number, the secret that two  *)
(* of them share is the set of both, SMK and AEK are known by that secret, *)
(* a hash is the tuple of what was hashed, a CMAC the pair of its key and  *)
(* its text, and a report names the enclave that made it, the one that can *)
(* verify it and its report data.                                          *)
(***************************************************************************)
EXTENDS Naturals, Sequences

CONSTANTS
    Responder,      \* the responder sessions
    Initiator,      \* the initiator sessions
    Enclave,        \* the enclaves
    EnclaveOf,      \* EnclaveOf[s]: the enclave of the session s
    NoEnclave,      \* stands in a CMAC's text that holds no report
    MaxKeys         \* bound on the key pairs that are created

Session == Responder \cup Initiator

ASSUME DhSessions ==
    /\ Responder \cap Initiator = {}
    /\ EnclaveOf \in [Session -> Enclave]
    /\ NoEnclave \notin Enclave
    /\ MaxKeys \in Nat

VARIABLES
    lav2,       \* the enclaves that are built with the feature use_lav2
    state,      \* state[s]: SgxDhSessionState
    pub,        \* pub[s]: its key pair, 0 when cleared
    peer,       \* peer[s]: peer_pub_key, 0 when cleared
    shared,     \* shared[s]: shared_key, {} when cleared
    msgs,       \* every message that was ever handed to the host
    keys,       \* how many key pairs exist
    log         \* the secrets derived and the AEKs returned, in order

dhVars == <<lav2, state, pub, peer, shared, msgs, keys, log>>

Key == 1 .. MaxKeys
Word == 0 .. MaxKeys
Report == [from : Enclave, target : Enclave, data : Word \X Word]
NoReport == [from |-> NoEnclave, target |-> NoEnclave, data |-> <<0, 0>>]
CmacTag == [key : SUBSET Key, text : (Report \cup {NoReport}) \X Word]

Message ==
    [type : {"msg1"}, ga : Key, target : Enclave]
    \cup [type : {"msg2"}, gb : Key, report : Report, cmac : CmacTag]
    \cup [type : {"msg3"}, report : Report, cmac : CmacTag]

LogEntry ==
    [event : {"derived", "responder", "initiator"}, who : Session,
     key : SUBSET Key, peer : Enclave]

DhTypeOK ==
    /\ lav2 \in SUBSET Enclave
    /\ state \in [Session -> {"ERROR", "RESET", "WAIT_M2", "WAIT_M1", "WAIT_M3", "ACTIVE"}]
    /\ pub \in [Session -> Word]
    /\ peer \in [Session -> Word]
    /\ shared \in [Session -> SUBSET Key]
    /\ msgs \subseteq Message
    /\ keys \in Word
    /\ log \in Seq(LogEntry)

Default(s) == IF s \in Responder THEN "RESET" ELSE "WAIT_M1"

DhInit ==
    /\ lav2 \in SUBSET Enclave
    /\ state = [s \in Session |-> Default(s)]
    /\ pub = [s \in Session |-> 0]
    /\ peer = [s \in Session |-> 0]
    /\ shared = [s \in Session |-> {}]
    /\ msgs = {}
    /\ keys = 0
    /\ log = << >>

-----------------------------------------------------------------------------
\* Mutant of Wipe: an activated responder keeps waiting for message 2.
Wipe_KeepWaiting(s, st) ==
    IF st = "ACTIVE" /\ s \in Responder THEN UNCHANGED <<state, pub, peer, shared>>
    ELSE /\ state' = [state EXCEPT ![s] = st]
         /\ pub' = [pub EXCEPT ![s] = 0]
         /\ peer' = [peer EXCEPT ![s] = 0]
         /\ shared' = [shared EXCEPT ![s] = {}]

\* *self = Self::default(), in the state st.
Wipe(s, st) ==
    /\ state' = [state EXCEPT ![s] = st]
    /\ pub' = [pub EXCEPT ![s] = 0]
    /\ peer' = [peer EXCEPT ![s] = 0]
    /\ shared' = [shared EXCEPT ![s] = {}]

\* The caller replaces the session by a new one.
InitSession(s) ==
    /\ Wipe(s, Default(s))
    /\ UNCHANGED <<lav2, msgs, keys, log>>

\* A call that fails, in its checks, by its state or in the library, leaves
\* a cleared session: set_error, and the early returns of the calls.
Fails(s) ==
    /\ Wipe(s, "ERROR")
    /\ UNCHANGED <<lav2, msgs, keys, log>>

Lav2(s) == EnclaveOf[s] \in lav2

Secret(a, b) == {a, b}

\* What the report of message 2 and message 3 certifies: the hash of both
\* public keys, or of the protocol specification (0) and the sender's key.
Msg2Data(s, ga, gb) == IF Lav2(s) THEN <<0, gb>> ELSE <<ga, gb>>

Msg3Data(s, ga, gb) == IF Lav2(s) THEN <<ga, 0>> ELSE <<gb, ga>>

CreateReport(s, target, data) ==
    [from |-> EnclaveOf[s], target |-> target, data |-> data]

\* The CMAC covers the report, or the sender's public key alone.
Cmac(s, smk, report, g) ==
    [key |-> smk, text |-> IF Lav2(s) THEN <<NoReport, g>> ELSE <<report, 0>>]

Msg1(s, ga) == [type |-> "msg1", ga |-> ga, target |-> EnclaveOf[s]]

Msg2(s, m1, gb) ==
    LET report == CreateReport(s, m1.target, Msg2Data(s, m1.ga, gb))
    IN  [type |-> "msg2", gb |-> gb, report |-> report,
         cmac |-> Cmac(s, Secret(gb, m1.ga), report, gb)]

\* make_target_info: message 3 is made for the enclave that made message 2.
Msg3(s, m2) ==
    LET report == CreateReport(s, m2.report.from, Msg3Data(s, pub[s], m2.gb))
    IN  [type |-> "msg3", report |-> report,
         cmac |-> Cmac(s, Secret(pub[s], m2.gb), report, pub[s])]

VerifyReport(s, report) == report.target = EnclaveOf[s]

VerifyMsg2(s, m) ==
    /\ m.cmac = Cmac(s, Secret(pub[s], m.gb), m.report, m.gb)
    /\ VerifyReport(s, m.report)
    /\ m.report.data = Msg2Data(s, pub[s], m.gb)

\* Mutant of VerifyMsg3: the CMAC is not compared.
VerifyMsg3_NoMac(s, m) ==
    /\ VerifyReport(s, m.report)
    /\ m.report.data = Msg3Data(s, peer[s], pub[s])

VerifyMsg3(s, m) ==
    /\ m.cmac = Cmac(s, shared[s], m.report, peer[s])
    /\ VerifyReport(s, m.report)
    /\ m.report.data = Msg3Data(s, peer[s], pub[s])

Entry(event, s, secret, other) ==
    [event |-> event, who |-> s, key |-> secret, peer |-> other]

-----------------------------------------------------------------------------
\* gen_msg1 in another state than RESET, or one that fails, resets the
\* session and reports an error; the next one starts with a new key.
GenMsg1Fails(r) ==
    /\ Wipe(r, "RESET")
    /\ UNCHANGED <<lav2, msgs, keys, log>>

GenMsg1(r) ==
    /\ state[r] = "RESET" /\ keys < MaxKeys
    /\ keys' = keys + 1
    /\ pub' = [pub EXCEPT ![r] = keys']
    /\ state' = [state EXCEPT ![r] = "WAIT_M2"]
    /\ msgs' = msgs \cup {Msg1(r, keys')}
    /\ UNCHANGED <<lav2, peer, shared, log>>

\* The initiator answers message 1 with its own key and its report.
ProcMsg1(i, m) ==
    /\ state[i] = "WAIT_M1" /\ keys < MaxKeys
    /\ keys' = keys + 1
    /\ pub' = [pub EXCEPT ![i] = keys']
    /\ peer' = [peer EXCEPT ![i] = m.ga]
    /\ shared' = [shared EXCEPT ![i] = Secret(keys', m.ga)]
    /\ state' = [state EXCEPT ![i] = "WAIT_M3"]
    /\ msgs' = msgs \cup {Msg2(i, m, keys')}
    /\ log' = Append(log, Entry("derived", i, Secret(keys', m.ga), m.target))
    /\ UNCHANGED lav2

\* The responder returns the AEK and the initiator's identity to its caller
\* and message 3 for the initiator.
ProcMsg2(r, m) ==
    /\ state[r] = "WAIT_M2"
    /\ VerifyMsg2(r, m)
    /\ Wipe(r, "ACTIVE")
    /\ msgs' = msgs \cup {Msg3(r, m)}
    /\ log' = Append(log, Entry("responder", r, Secret(pub[r], m.gb), m.report.from))
    /\ UNCHANGED <<lav2, keys>>

\* The initiator returns the AEK and the responder's identity.
ProcMsg3(i, m) ==
    /\ state[i] = "WAIT_M3"
    /\ VerifyMsg3(i, m)
    /\ Wipe(i, "ACTIVE")
    /\ log' = Append(log, Entry("initiator", i, shared[i], m.report.from))
    /\ UNCHANGED <<lav2, msgs, keys>>

Sent(type) == {m \in msgs : m.type = type}

\* Nothing in message 1 authenticates its target.
Damaged(set) == {[m EXCEPT !.target = e] : m \in set, e \in Enclave}

DhNext ==
    \/ \E s \in Session : InitSession(s)
    \/ \E r \in Responder :
          \/ GenMsg1(r)
          \/ GenMsg1Fails(r)
          \/ \E m \in Sent("msg2") : ProcMsg2(r, m) \/ Fails(r)
    \/ \E i \in Initiator :
          \/ \E m \in Damaged(Sent("msg1")) : ProcMsg1(i, m) \/ Fails(i)
          \/ \E m \in Sent("msg3") : ProcMsg3(i, m) \/ Fails(i)

DhSpec == DhInit /\ [][DhNext]_dhVars

-----------------------------------------------------------------------------
(***************************************************************************)
(* Properties.                                                             *)
(***************************************************************************)
Logged(event) == {log[n] : n \in {k \in 1 .. Len(log) : log[k].event = event}}

\* The two sessions agree on each other's enclave and on the key.
Match(a, b) ==
    /\ a.key = b.key
    /\ a.peer = EnclaveOf[b.who]
    /\ b.peer = EnclaveOf[a.who]

\* An AEK that proc_msg3 returns was returned to exactly the enclave whose
\* identity comes with it, together with the own one, and an AEK that
\* proc_msg2 returns is the secret of a session of the enclave it names that
\* meant to talk to this one: whatever messages of other, failed or repeated
\* sessions come in between.
Agreement ==
    /\ \A a \in Logged("initiator") : \E b \in Logged("responder") : Match(a, b)
    /\ \A b \in Logged("responder") : \E a \in Logged("derived") : Match(a, b)

\* No AEK is returned twice to the same side: a repeated or late message
\* never revives a session.
AekReturnedOnce ==
    \A j, k \in 1 .. Len(log) :
        j # k /\ log[j].event = log[k].event => log[j].key # log[k].key

(***************************************************************************)
(* The inductive invariant behind them.                                    *)
(***************************************************************************)

\* Every message 2 and message 3 was sent by the session whose secret keys
\* its CMAC, for the enclave that this session took for its peer.
MsgsLogged ==
    /\ \A m \in Sent("msg2") : \E a \in Logged("derived") :
          a.key = m.cmac.key /\ EnclaveOf[a.who] = m.report.from /\ a.peer = m.report.target
    /\ \A m \in Sent("msg3") : \E b \in Logged("responder") :
          b.key = m.cmac.key /\ EnclaveOf[b.who] = m.report.from /\ b.peer = m.report.target

\* No key is in use before it is created.
KeysCreated ==
    /\ \A s \in Session : pub[s] <= keys /\ peer[s] <= keys
    /\ \A m \in Sent("msg1") : m.ga <= keys
    /\ \A m \in Sent("msg2") : m.gb <= keys
    /\ \A n \in 1 .. Len(log) : \A k \in log[n].key : k <= keys

\* A waiting session has a key of its own that its side was never given an
\* AEK for; keys of responders are not sent in message 2, nor keys of
\* initiators in message 1.
KeysOwned ==
    /\ \A s \in Session : state[s] \in {"WAIT_M2", "WAIT_M3"} => pub[s] # 0
    /\ \A s, u \in Session : s # u /\ pub[s] = pub[u] => pub[s] = 0
    /\ \A r \in Responder, m \in Sent("msg2") : m.gb # pub[r]
    /\ \A i \in Initiator, m \in Sent("msg1") : m.ga # pub[i]
    /\ \A i, k \in Initiator : peer[k] # 0 => peer[k] # pub[i]
    /\ \A i \in Initiator :
          state[i] = "WAIT_M3" => peer[i] # 0 /\ shared[i] = Secret(pub[i], peer[i])
    /\ \A n \in 1 .. Len(log) :
          /\ log[n].event = "responder" =>
                \A r \in Responder : pub[r] \notin log[n].key
          /\ log[n].event = "initiator" =>
                \A i \in Initiator : pub[i] \notin log[n].key

DhInv ==
    /\ DhTypeOK
    /\ MsgsLogged
    /\ Agreement
    /\ KeysCreated
    /\ KeysOwned
    /\ AekReturnedOnce
=============================================================================

------------------------------ MODULE DhProofs ------------------------------
(***************************************************************************)
(* Agreement and the single use of session keys in DhSession, for any      *)
(* number of sessions, enclaves and messages.                              *)
(***************************************************************************)
EXTENDS DhSession, TLAPS

Cleared == {"ERROR", "RESET", "WAIT_M1", "ACTIVE"}

\* The log after an entry was added.
LEMMA LogGrows ==
  ASSUME log \in Seq(LogEntry), NEW e \in LogEntry, log' = Append(log, e)
  PROVE  /\ log' \in Seq(LogEntry)
         /\ Len(log) \in Nat
         /\ Len(log') = Len(log) + 1
         /\ log'[Len(log) + 1] = e
         /\ \A n \in 1 .. Len(log) : log'[n] = log[n]
  OBVIOUS

LEMMA LoggedGrows ==
  ASSUME log \in Seq(LogEntry), NEW e \in LogEntry, log' = Append(log, e), NEW event
  PROVE  /\ \A x : x \in Logged(event)' <=> x \in Logged(event) \/ (x = e /\ e.event = event)
<1>1. /\ Len(log) \in Nat
      /\ Len(log') = Len(log) + 1
      /\ log'[Len(log) + 1] = e
      /\ \A n \in 1 .. Len(log) : log'[n] = log[n]
  BY LogGrows
<1>2. ASSUME NEW x, x \in Logged(event)'
      PROVE  x \in Logged(event) \/ (x = e /\ e.event = event)
  <2>1. PICK n \in 1 .. Len(log') : x = log'[n] /\ log'[n].event = event
    BY <1>2 DEF Logged
  <2>2. CASE n = Len(log) + 1
    BY <1>1, <2>1, <2>2
  <2>3. CASE n # Len(log) + 1
    <3>1. n \in 1 .. Len(log)
      BY <1>1, <2>3
    <3> QED BY <1>1, <2>1, <3>1 DEF Logged
  <2> QED BY <2>2, <2>3
<1>3. ASSUME NEW x, x \in Logged(event) PROVE x \in Logged(event)'
  <2>1. PICK n \in 1 .. Len(log) : x = log[n] /\ log[n].event = event
    BY <1>3 DEF Logged
  <2>2. n \in 1 .. Len(log')
    BY <1>1
  <2> QED BY <1>1, <2>1, <2>2 DEF Logged
<1>4. ASSUME e.event = event PROVE e \in Logged(event)'
  <2>1. Len(log) + 1 \in 1 .. Len(log')
    BY <1>1
  <2> QED BY <1>1, <1>4, <2>1 DEF Logged
<1> QED BY <1>2, <1>3, <1>4

\* What a message of each type looks like.
LEMMA MessageShape ==
  ASSUME DhTypeOK, NEW m \in msgs
  PROVE  /\ m.type = "msg1" => m \in [type : {"msg1"}, ga : Key, target : Enclave]
         /\ m.type = "msg2" =>
              m \in [type : {"msg2"}, gb : Key, report : Report, cmac : CmacTag]
         /\ m.type = "msg3" => m \in [type : {"msg3"}, report : Report, cmac : CmacTag]
  BY DEF DhTypeOK, Message

\* The log has one entry of its kind for every message that is sent with it.
LEMMA MsgsLoggedGrows ==
  ASSUME DhTypeOK, MsgsLogged, NEW e \in LogEntry, log' = Append(log, e),
         NEW m, msgs' \in {msgs, msgs \cup {m}},
         m.type = "msg2" =>
            /\ e.event = "derived" /\ e.key = m.cmac.key
            /\ EnclaveOf[e.who] = m.report.from /\ e.peer = m.report.target,
         m.type = "msg3" =>
            /\ e.event = "responder" /\ e.key = m.cmac.key
            /\ EnclaveOf[e.who] = m.report.from /\ e.peer = m.report.target
  PROVE  MsgsLogged'
<1>1. \A event : \A x : x \in Logged(event)' <=> x \in Logged(event) \/ (x = e /\ e.event = event)
  BY LoggedGrows DEF DhTypeOK
<1>2. \A k \in msgs' : k \in msgs \/ k = m
  OBVIOUS
<1>3. ASSUME NEW k \in Sent("msg2")'
      PROVE  \E a \in Logged("derived")' :
                /\ a.key = k.cmac.key /\ EnclaveOf[a.who] = k.report.from
                /\ a.peer = k.report.target
  <2>1. k.type = "msg2" /\ (k \in Sent("msg2") \/ k = m)
    BY <1>2 DEF Sent
  <2>2. CASE k = m
    BY <1>1, <2>1, <2>2
  <2>3. CASE k \in Sent("msg2")
    BY <1>1, <2>3 DEF MsgsLogged
  <2> QED BY <2>1, <2>2, <2>3
<1>4. ASSUME NEW k \in Sent("msg3")'
      PROVE  \E b \in Logged("responder")' :
                /\ b.key = k.cmac.key /\ EnclaveOf[b.who] = k.report.from
                /\ b.peer = k.report.target
  <2>1. k.type = "msg3" /\ (k \in Sent("msg3") \/ k = m)
    BY <1>2 DEF Sent
  <2>2. CASE k = m
    BY <1>1, <2>1, <2>2
  <2>3. CASE k \in Sent("msg3")
    BY <1>1, <2>3 DEF MsgsLogged
  <2> QED BY <2>1, <2>2, <2>3
<1> QED BY <1>3, <1>4 DEF MsgsLogged

\* The keys that are in use are those that were created.
LEMMA KeyFacts ==
  ASSUME DhInv
  PROVE  /\ keys \in Nat /\ keys <= MaxKeys
         /\ \A u \in Session : /\ pub[u] \in Nat /\ pub[u] <= keys
                               /\ peer[u] \in Nat /\ peer[u] <= keys
         /\ \A m \in Sent("msg1") : m.ga \in Nat \ {0} /\ m.ga <= keys
         /\ \A m \in Sent("msg2") : m.gb \in Nat \ {0} /\ m.gb <= keys
         /\ \A n \in 1 .. Len(log) : \A k \in log[n].key : k \in Nat \ {0} /\ k <= keys
<1> USE DhSessions
<1>1. /\ keys \in Nat /\ keys <= MaxKeys
      /\ \A u \in Session : /\ pub[u] \in Nat /\ pub[u] <= keys
                            /\ peer[u] \in Nat /\ peer[u] <= keys
  BY DEF DhInv, DhTypeOK, KeysCreated, Word
<1>2. /\ \A m \in Sent("msg1") : m.ga \in Nat \ {0} /\ m.ga <= keys
      /\ \A m \in Sent("msg2") : m.gb \in Nat \ {0} /\ m.gb <= keys
  BY MessageShape DEF DhInv, KeysCreated, Sent, Key
<1>3. \A n \in 1 .. Len(log) : log[n].key \in SUBSET Key
  <2>1. \A n \in 1 .. Len(log) : log[n] \in LogEntry
    BY DEF DhInv, DhTypeOK
  <2> QED BY <2>1 DEF LogEntry
<1>4. \A n \in 1 .. Len(log) : \A k \in log[n].key : k \in Nat \ {0} /\ k <= keys
  BY <1>3 DEF DhInv, KeysCreated, Key
<1> QED BY <1>1, <1>2, <1>4

\* A cleared session keeps what its side has done.
LEMMA WipeInv ==
  ASSUME DhInv, NEW s \in Session, NEW st \in Cleared, Wipe(s, st),
         UNCHANGED <<lav2, msgs, keys, log>>
  PROVE  DhInv'
<1>1. DhTypeOK'
  <2>1. 0 \in Word /\ {} \in SUBSET Key
    BY DhSessions DEF Word
  <2>2. /\ state' \in [Session -> {"ERROR", "RESET", "WAIT_M2", "WAIT_M1", "WAIT_M3", "ACTIVE"}]
        /\ pub' \in [Session -> Word] /\ peer' \in [Session -> Word]
        /\ shared' \in [Session -> SUBSET Key]
    BY <2>1 DEF DhInv, DhTypeOK, Wipe, Cleared
  <2> QED BY <2>2 DEF DhInv, DhTypeOK
<1>2. MsgsLogged' /\ Agreement' /\ AekReturnedOnce'
  BY DEF DhInv, MsgsLogged, Agreement, AekReturnedOnce, Logged, Sent, Match
<1>3. KeysCreated'
  BY DEF DhInv, DhTypeOK, KeysCreated, Wipe, Sent, Word
<1>4. KeysOwned'
  <2>1. /\ \A u \in Session : u # s => /\ state'[u] = state[u] /\ pub'[u] = pub[u]
                                       /\ peer'[u] = peer[u] /\ shared'[u] = shared[u]
        /\ state'[s] \notin {"WAIT_M2", "WAIT_M3"} /\ pub'[s] = 0 /\ peer'[s] = 0
    BY DEF DhInv, DhTypeOK, Wipe, Cleared
  <2>2. /\ \A m \in Sent("msg2") : m.gb # 0
        /\ \A m \in Sent("msg1") : m.ga # 0
        /\ \A n \in 1 .. Len(log) : 0 \notin log[n].key
    BY KeyFacts
  <2>4. Sent("msg1")' = Sent("msg1") /\ Sent("msg2")' = Sent("msg2")
    BY DEF Sent
  <2> QED BY <2>1, <2>2, <2>4 DEF DhInv, KeysOwned, Session, Secret
<1> QED BY <1>1, <1>2, <1>3, <1>4 DEF DhInv

\* gen_msg1 sends a key that nobody has seen.
LEMMA GenMsg1Inv ==
  ASSUME DhInv, NEW r \in Responder, GenMsg1(r)
  PROVE  DhInv'
<1> USE DhSessions
<1>0. /\ keys \in Nat /\ keys' = keys + 1 /\ keys' \in Key /\ keys' # 0
      /\ r \in Session /\ r \notin Initiator
      /\ pub'[r] = keys' /\ state'[r] = "WAIT_M2"
      /\ \A u \in Session : u # r => pub'[u] = pub[u] /\ state'[u] = state[u]
      /\ peer' = peer /\ shared' = shared /\ log' = log /\ lav2' = lav2
  BY DEF DhInv, DhTypeOK, GenMsg1, Word, Key, Session
<1>1. DhTypeOK'
  <2>1. Msg1(r, keys') \in Message
    BY <1>0 DEF Msg1, Message
  <2> QED BY <1>0, <2>1 DEF DhInv, DhTypeOK, GenMsg1, Key, Word
<1>2. /\ Sent("msg1")' = Sent("msg1") \cup {Msg1(r, keys')}
      /\ Sent("msg2")' = Sent("msg2") /\ Sent("msg3")' = Sent("msg3")
  BY DEF GenMsg1, Sent, Msg1
<1>3. MsgsLogged' /\ Agreement' /\ AekReturnedOnce'
  BY <1>0, <1>2 DEF DhInv, MsgsLogged, Agreement, AekReturnedOnce, Logged, Match
<1>5. Msg1(r, keys').ga = keys'
  BY DEF Msg1
<1>6. KeysCreated'
  BY <1>0, <1>2, <1>5, KeyFacts DEF KeysCreated
<1>7. KeysOwned'
  <2>1. (\A n \in 1 .. Len(log) : keys' \notin log[n].key) /\ \A u \in Session : pub[u] # keys'
    BY <1>0, KeyFacts
  <2>2. (\A m \in Sent("msg2")' : m.gb # keys') /\ \A i \in Initiator : pub[i] # keys'
    BY <1>0, <1>2, KeyFacts DEF Session
  <2>3. \A s, u \in Session : s # u /\ pub'[s] = pub'[u] => pub'[s] = 0
    BY <1>0, <2>1 DEF DhInv, KeysOwned
  <2>4. \A s \in Session : state'[s] \in {"WAIT_M2", "WAIT_M3"} => pub'[s] # 0
    BY <1>0 DEF DhInv, KeysOwned
  <2>5. \A i \in Initiator : i \in Session /\ pub'[i] = pub[i] /\ state'[i] = state[i]
    BY <1>0 DEF Session
  <2>6. \A u \in Responder, m \in Sent("msg2")' : m.gb # pub'[u]
    BY <1>0, <1>2, <2>2 DEF DhInv, KeysOwned, Session
  <2>7. \A i \in Initiator, m \in Sent("msg1")' : m.ga # pub'[i]
    BY <1>2, <1>5, <2>2, <2>5 DEF DhInv, KeysOwned
  <2>8. \A n \in 1 .. Len(log') : log'[n].event = "responder" =>
           \A u \in Responder : pub'[u] \notin log'[n].key
    BY <1>0, <2>1 DEF DhInv, KeysOwned, Session
  <2> QED BY <1>0, <2>3, <2>4, <2>5, <2>6, <2>7, <2>8 DEF DhInv, KeysOwned
<1> QED BY <1>1, <1>3, <1>6, <1>7 DEF DhInv

\* A damaged message 1 still carries a key of a responder.
LEMMA DamagedFacts ==
  ASSUME DhInv, NEW m \in Damaged(Sent("msg1"))
  PROVE  /\ m.target \in Enclave /\ m.ga \in Key /\ m.ga <= keys
         /\ \A i \in Initiator : m.ga # pub[i]
<1>1. PICK k \in Sent("msg1"), e \in Enclave : m = [k EXCEPT !.target = e]
  BY DEF Damaged
<1>2. k \in [type : {"msg1"}, ga : Key, target : Enclave]
  BY MessageShape DEF Sent, DhInv
<1>3. m.ga = k.ga /\ m.target = e
  BY <1>1, <1>2
<1> QED BY <1>2, <1>3, KeyFacts DEF DhInv, KeysOwned, Key

\* A new entry whose key differs from those of its kind keeps keys single.
LEMMA OnceGrows ==
  ASSUME DhInv, NEW e \in LogEntry, log' = Append(log, e),
         \A n \in 1 .. Len(log) : log[n].event = e.event => log[n].key # e.key
  PROVE  AekReturnedOnce'
<1>1. /\ Len(log) \in Nat /\ Len(log') = Len(log) + 1
      /\ log'[Len(log) + 1] = e
      /\ \A n \in 1 .. Len(log) : log'[n] = log[n]
  BY LogGrows DEF DhInv, DhTypeOK
<1>2. \A n \in 1 .. Len(log') : n \in 1 .. Len(log) \/ n = Len(log) + 1
  BY <1>1
<1> QED BY <1>1, <1>2 DEF DhInv, AekReturnedOnce

LEMMA ProcMsg1Inv ==
  ASSUME DhInv, NEW i \in Initiator, NEW m \in Damaged(Sent("msg1")), ProcMsg1(i, m)
  PROVE  DhInv'
<1> USE DhSessions
<1> DEFINE smk == Secret(keys', m.ga)
           e == Entry("derived", i, smk, m.target)
           m2 == Msg2(i, m, keys')
<1>0. /\ keys \in Nat /\ keys' = keys + 1 /\ keys' \in Key /\ keys' # 0
      /\ i \in Session /\ i \notin Responder /\ EnclaveOf[i] \in Enclave
      /\ pub'[i] = keys' /\ state'[i] = "WAIT_M3" /\ peer'[i] = m.ga /\ shared'[i] = smk
      /\ \A u \in Session : u # i => /\ pub'[u] = pub[u] /\ state'[u] = state[u]
                                     /\ peer'[u] = peer[u] /\ shared'[u] = shared[u]
      /\ log' = Append(log, e) /\ msgs' = msgs \cup {m2} /\ lav2' = lav2
  BY DEF DhInv, DhTypeOK, ProcMsg1, Word, Key, Session
<1>1. m.target \in Enclave /\ m.ga \in Key /\ m.ga <= keys /\ (\A k \in Initiator : m.ga # pub[k])
  BY DamagedFacts
<1>2. smk \in SUBSET Key /\ e \in LogEntry
  BY <1>0, <1>1 DEF Secret, Entry, LogEntry
<1>3. /\ m2 \in [type : {"msg2"}, gb : Key, report : Report, cmac : CmacTag]
      /\ m2.gb = keys' /\ m2.cmac.key = smk
      /\ m2.report.from = EnclaveOf[i] /\ m2.report.target = m.target
  <2>1. 0 \in Word /\ keys' \in Word /\ m.ga \in Word
    BY <1>0, <1>1 DEF Word, Key
  <2> DEFINE rep == CreateReport(i, m.target, Msg2Data(i, m.ga, keys'))
  <2>2. rep \in Report /\ rep.from = EnclaveOf[i] /\ rep.target = m.target
    BY <1>0, <1>1, <2>1 DEF CreateReport, Msg2Data, Report
  <2>3. Secret(keys', m.ga) = smk
    OBVIOUS
  <2>4. Cmac(i, smk, rep, keys') \in CmacTag /\ Cmac(i, smk, rep, keys').key = smk
    BY <1>2, <2>1, <2>2 DEF Cmac, CmacTag
  <2> HIDE DEF rep, smk
  <2>5. m2 = [type |-> "msg2", gb |-> keys', report |-> rep, cmac |-> Cmac(i, smk, rep, keys')]
    BY DEF Msg2, rep, smk
  <2> QED BY <1>0, <2>2, <2>4, <2>5
<1>4. DhTypeOK'
  <2>1. m2 \in Message
    BY <1>3 DEF Message
  <2>2. log' \in Seq(LogEntry)
    BY <1>0, <1>2, LogGrows DEF DhInv, DhTypeOK
  <2>3. m.ga \in Word /\ keys' \in Word
    BY <1>0, <1>1 DEF Word, Key
  <2>4. /\ pub' \in [Session -> Word] /\ peer' \in [Session -> Word]
        /\ shared' \in [Session -> SUBSET Key]
        /\ state' \in [Session -> {"ERROR", "RESET", "WAIT_M2", "WAIT_M1", "WAIT_M3", "ACTIVE"}]
    BY <1>2, <2>3 DEF DhInv, DhTypeOK, ProcMsg1
  <2> QED BY <1>0, <2>1, <2>2, <2>3, <2>4 DEF DhInv, DhTypeOK
<1>5. /\ Sent("msg2")' = Sent("msg2") \cup {m2}
      /\ Sent("msg1")' = Sent("msg1") /\ Sent("msg3")' = Sent("msg3")
  BY <1>0, <1>3 DEF Sent
<1>6. /\ Len(log) \in Nat /\ Len(log') = Len(log) + 1 /\ log'[Len(log) + 1] = e
      /\ \A n \in 1 .. Len(log) : log'[n] = log[n]
      /\ \A n \in 1 .. Len(log') : n \in 1 .. Len(log) \/ n = Len(log) + 1
  BY <1>0, <1>2, LogGrows DEF DhInv, DhTypeOK
<1>7. /\ e.event = "derived" /\ e.key = smk /\ e.who = i /\ e.peer = m.target
  BY DEF Entry
<1>8. MsgsLogged'
  BY <1>0, <1>2, <1>3, <1>7, MsgsLoggedGrows DEF DhInv
<1>9. Agreement'
  <2>1. \A event : \A x : x \in Logged(event)' <=> x \in Logged(event) \/ (x = e /\ e.event = event)
    BY <1>0, <1>2, LoggedGrows DEF DhInv, DhTypeOK
  <2> QED BY <1>7, <2>1 DEF DhInv, Agreement, Match
<1>10. AekReturnedOnce'
  <2>1. keys' \in smk
    BY DEF Secret
  <2>2. \A n \in 1 .. Len(log) : log[n].key # e.key
    BY <1>0, <1>7, <2>1, KeyFacts
  <2> HIDE DEF e
  <2> QED BY <1>0, <1>2, <2>2, OnceGrows
<1>11. KeysCreated'
  <2>1. \A k \in smk : k \in Nat /\ k <= keys'
    BY <1>0, <1>1 DEF Secret, Key
  <2>2. \A n \in 1 .. Len(log') : \A k \in log'[n].key : k <= keys'
    BY <1>0, <1>6, <1>7, <2>1, KeyFacts
  <2>3. \A u \in Session : pub'[u] <= keys' /\ peer'[u] <= keys'
    BY <1>0, <1>1, KeyFacts DEF Key
  <2> QED BY <1>0, <1>3, <1>5, <2>2, <2>3, KeyFacts DEF KeysCreated
<1>12. KeysOwned'
  <2>1. /\ \A n \in 1 .. Len(log) : keys' \notin log[n].key
        /\ \A u \in Session : pub[u] # keys' /\ peer[u] # keys'
        /\ \A k \in Sent("msg1") : k.ga # keys'
    BY <1>0, KeyFacts
  <2>2. m.ga # 0 /\ m.ga # keys'
    BY <1>0, <1>1 DEF Key
  <2>3. \A s, u \in Session : s # u /\ pub'[s] = pub'[u] => pub'[s] = 0
    BY <1>0, <2>1 DEF DhInv, KeysOwned
  <2>4. \A s \in Session : state'[s] \in {"WAIT_M2", "WAIT_M3"} => pub'[s] # 0
    BY <1>0 DEF DhInv, KeysOwned
  <2>5. \A r \in Responder : r \in Session /\ pub'[r] = pub[r] /\ pub[r] # keys'
    BY <1>0, <2>1 DEF Session
  <2>6. \A r \in Responder, k \in Sent("msg2")' : k.gb # pub'[r]
    BY <1>3, <1>5, <2>5 DEF DhInv, KeysOwned
  <2>7. \A u \in Initiator, k \in Sent("msg1")' : k.ga # pub'[u]
    BY <1>0, <1>5, <2>1 DEF DhInv, KeysOwned, Session
  <2>8. \A u, k \in Initiator : peer'[k] # 0 => peer'[k] # pub'[u]
    BY <1>0, <1>1, <2>1, <2>2 DEF DhInv, KeysOwned, Session
  <2>9. \A u \in Initiator :
           state'[u] = "WAIT_M3" => peer'[u] # 0 /\ shared'[u] = Secret(pub'[u], peer'[u])
    BY <1>0, <2>2 DEF DhInv, KeysOwned, Session
  <2>10. \A n \in 1 .. Len(log') :
            /\ log'[n].event = "responder" => \A r \in Responder : pub'[r] \notin log'[n].key
            /\ log'[n].event = "initiator" => \A u \in Initiator : pub'[u] \notin log'[n].key
    <3>1. ASSUME NEW n \in 1 .. Len(log)
          PROVE  /\ log[n].event = "responder" => \A r \in Responder : pub'[r] \notin log[n].key
                 /\ log[n].event = "initiator" => \A u \in Initiator : pub'[u] \notin log[n].key
      <4>1. \A u \in Initiator : pub'[u] = pub[u] \/ pub'[u] = keys'
        BY <1>0 DEF Session
      <4>2. /\ log[n].event = "responder" => \A r \in Responder : pub[r] \notin log[n].key
            /\ log[n].event = "initiator" => \A u \in Initiator : pub[u] \notin log[n].key
        BY DEF DhInv, KeysOwned
      <4> QED BY <2>1, <2>5, <4>1, <4>2
    <3> HIDE DEF e
    <3> QED BY <1>6, <1>7, <3>1
  <2> QED BY <2>3, <2>4, <2>6, <2>7, <2>8, <2>9, <2>10 DEF KeysOwned
<1> QED BY <1>4, <1>8, <1>9, <1>10, <1>11, <1>12 DEF DhInv

\* What Wipe leaves of the sessions when an entry of session s is logged.
LEMMA WipeKeys ==
  ASSUME DhInv, NEW s \in Session, Wipe(s, "ACTIVE"), keys' = keys,
         Sent("msg1")' = Sent("msg1"), Sent("msg2")' = Sent("msg2"),
         NEW e \in LogEntry, log' = Append(log, e),
         \A k \in e.key : k <= keys,
         e.event = "responder" => \A r \in Responder : pub'[r] \notin e.key,
         e.event = "initiator" => \A i \in Initiator : pub'[i] \notin e.key
  PROVE  KeysCreated' /\ KeysOwned'
<1>1. /\ \A u \in Session : u # s => /\ state'[u] = state[u] /\ pub'[u] = pub[u]
                                     /\ peer'[u] = peer[u] /\ shared'[u] = shared[u]
      /\ state'[s] = "ACTIVE" /\ pub'[s] = 0 /\ peer'[s] = 0
  BY DEF DhInv, DhTypeOK, Wipe
<1>2. /\ Len(log) \in Nat /\ log'[Len(log) + 1] = e
      /\ \A n \in 1 .. Len(log) : log'[n] = log[n]
      /\ \A n \in 1 .. Len(log') : n \in 1 .. Len(log) \/ n = Len(log) + 1
  BY LogGrows DEF DhInv, DhTypeOK
<1>3. KeysCreated'
  <2>1. \A n \in 1 .. Len(log') : \A k \in log'[n].key : k <= keys'
    BY <1>2, KeyFacts
  <2>2. \A u \in Session : pub'[u] <= keys' /\ peer'[u] <= keys'
    BY <1>1, KeyFacts
  <2> QED BY <2>1, <2>2, KeyFacts DEF KeysCreated
<1>4. KeysOwned'
  <2>1. /\ \A m \in Sent("msg2") : m.gb # 0
        /\ \A m \in Sent("msg1") : m.ga # 0
        /\ \A n \in 1 .. Len(log) : 0 \notin log[n].key
    BY KeyFacts
  <2>2. \A n \in 1 .. Len(log') :
            /\ log'[n].event = "responder" => \A r \in Responder : pub'[r] \notin log'[n].key
            /\ log'[n].event = "initiator" => \A u \in Initiator : pub'[u] \notin log'[n].key
    <3>1. ASSUME NEW n \in 1 .. Len(log)
          PROVE  /\ log[n].event = "responder" => \A r \in Responder : pub'[r] \notin log[n].key
                 /\ log[n].event = "initiator" => \A u \in Initiator : pub'[u] \notin log[n].key
      <4>1. \A u \in Session : pub'[u] = pub[u] \/ pub'[u] = 0
        BY <1>1
      <4>2. /\ log[n].event = "responder" => \A r \in Responder : pub[r] \notin log[n].key
            /\ log[n].event = "initiator" => \A u \in Initiator : pub[u] \notin log[n].key
        BY DEF DhInv, KeysOwned
      <4> QED BY <2>1, <4>1, <4>2 DEF Session
    <3> QED BY <1>2, <3>1
  <2> QED BY <1>1, <2>1, <2>2 DEF DhInv, KeysOwned, Session, Secret
<1> QED BY <1>3, <1>4

\* proc_msg2 logs an AEK with the peer that sent message 2.
LEMMA ProcMsg2Inv ==
  ASSUME DhInv, NEW r \in Responder, NEW m \in Sent("msg2"), ProcMsg2(r, m)
  PROVE  DhInv'
<1> USE DhSessions
<1> DEFINE smk == Secret(pub[r], m.gb)
           e == Entry("responder", r, smk, m.report.from)
           m3 == Msg3(r, m)
<1>0. /\ r \in Session /\ EnclaveOf[r] \in Enclave /\ Wipe(r, "ACTIVE") /\ state[r] = "WAIT_M2"
      /\ log' = Append(log, e) /\ msgs' = msgs \cup {m3} /\ lav2' = lav2 /\ keys' = keys
      /\ VerifyMsg2(r, m)
  BY DEF ProcMsg2, Session
<1>1. /\ m \in [type : {"msg2"}, gb : Key, report : Report, cmac : CmacTag]
      /\ m \in msgs /\ m.report.from \in Enclave
  BY MessageShape DEF DhInv, Sent, Report
<1>2. pub[r] # 0 /\ pub[r] \in Key /\ pub[r] \in Word /\ m.gb \in Word
  BY <1>0, <1>1, KeyFacts DEF DhInv, KeysOwned, Key, Word
<1>3. smk \in SUBSET Key /\ e \in LogEntry
  BY <1>0, <1>1, <1>2 DEF Secret, Entry, LogEntry
<1>4. e.event = "responder" /\ e.key = smk /\ e.who = r /\ e.peer = m.report.from
  BY DEF Entry
<1>5. /\ m3 \in [type : {"msg3"}, report : Report, cmac : CmacTag]
      /\ m3.cmac.key = smk /\ m3.report.from = EnclaveOf[r] /\ m3.report.target = m.report.from
  <2>1. 0 \in Word
    BY DEF Word
  <2> DEFINE rep == CreateReport(r, m.report.from, Msg3Data(r, pub[r], m.gb))
  <2>2. rep \in Report /\ rep.from = EnclaveOf[r] /\ rep.target = m.report.from
    BY <1>0, <1>1, <1>2, <2>1 DEF CreateReport, Msg3Data, Report
  <2>3. Cmac(r, smk, rep, pub[r]) \in CmacTag /\ Cmac(r, smk, rep, pub[r]).key = smk
    BY <1>2, <1>3, <2>1, <2>2 DEF Cmac, CmacTag
  <2> HIDE DEF rep, smk
  <2>4. m3 = [type |-> "msg3", report |-> rep, cmac |-> Cmac(r, smk, rep, pub[r])]
    BY DEF Msg3, rep, smk
  <2> QED BY <2>2, <2>3, <2>4
<1>6. /\ Sent("msg1")' = Sent("msg1") /\ Sent("msg2")' = Sent("msg2")
  BY <1>0, <1>5 DEF Sent
<1>7. m.cmac.key = smk /\ m.report.target = EnclaveOf[r]
  BY <1>0 DEF VerifyMsg2, VerifyReport, Cmac
<1>8. DhTypeOK'
  <2>1. m3 \in Message
    BY <1>5 DEF Message
  <2>2. log' \in Seq(LogEntry)
    BY <1>0, <1>3, LogGrows DEF DhInv, DhTypeOK
  <2>3. 0 \in Word /\ {} \in SUBSET Key
    BY DEF Word
  <2>4. /\ state' \in [Session -> {"ERROR", "RESET", "WAIT_M2", "WAIT_M1", "WAIT_M3", "ACTIVE"}]
        /\ pub' \in [Session -> Word] /\ peer' \in [Session -> Word]
        /\ shared' \in [Session -> SUBSET Key]
    BY <1>0, <2>3 DEF DhInv, DhTypeOK, Wipe
  <2> QED BY <1>0, <2>1, <2>2, <2>4 DEF DhInv, DhTypeOK
<1>9. MsgsLogged'
  BY <1>0, <1>3, <1>4, <1>5, MsgsLoggedGrows DEF DhInv
<1>10. Agreement'
  <2>1. \A event : \A x : x \in Logged(event)' <=> x \in Logged(event) \/ (x = e /\ e.event = event)
    BY <1>0, <1>3, LoggedGrows DEF DhInv, DhTypeOK
  <2>2. PICK a \in Logged("derived") :
           a.key = m.cmac.key /\ EnclaveOf[a.who] = m.report.from /\ a.peer = m.report.target
    BY DEF DhInv, MsgsLogged
  <2>3. Match(a, e)
    BY <1>4, <1>7, <2>2 DEF Match
  <2> HIDE DEF e
  <2> QED BY <1>4, <2>1, <2>3 DEF DhInv, Agreement
<1>11. AekReturnedOnce'
  <2>1. pub[r] \in smk
    BY DEF Secret
  <2>2. \A n \in 1 .. Len(log) : log[n].event = "responder" => log[n].key # e.key
    BY <1>4, <2>1 DEF DhInv, KeysOwned
  <2> HIDE DEF e
  <2> QED BY <1>0, <1>3, <1>4, <2>2, OnceGrows
<1>12. KeysCreated' /\ KeysOwned'
  <2>1. \A k \in smk : k <= keys
    BY <1>0, KeyFacts DEF Secret
  <2>2. \A u \in Responder : pub'[u] \notin smk
    <3>1. \A u \in Responder : u \in Session /\ pub'[u] = IF u = r THEN 0 ELSE pub[u]
      BY <1>0 DEF Wipe, DhInv, DhTypeOK, Session
    <3>2. m.gb # 0 /\ \A u \in Responder : u # r => pub[u] # m.gb /\ pub[u] # pub[r]
      BY <1>0, <1>2, KeyFacts DEF DhInv, KeysOwned, Session
    <3> QED BY <1>2, <3>1, <3>2 DEF Secret
  <2> HIDE DEF e
  <2> QED BY <1>0, <1>3, <1>4, <1>6, <2>1, <2>2, WipeKeys
<1> QED BY <1>8, <1>9, <1>10, <1>11, <1>12 DEF DhInv

\* proc_msg3 logs an AEK with the peer that sent message 3.
LEMMA ProcMsg3Inv ==
  ASSUME DhInv, NEW i \in Initiator, NEW m \in Sent("msg3"), ProcMsg3(i, m)
  PROVE  DhInv'
<1> USE DhSessions
<1> DEFINE e == Entry("initiator", i, shared[i], m.report.from)
<1>0. /\ i \in Session /\ Wipe(i, "ACTIVE") /\ state[i] = "WAIT_M3"
      /\ log' = Append(log, e) /\ msgs' = msgs /\ lav2' = lav2 /\ keys' = keys
      /\ VerifyMsg3(i, m)
  BY DEF ProcMsg3, Session
<1>1. m \in msgs /\ m.report.from \in Enclave
  BY MessageShape DEF DhInv, Sent, Report
<1>2. /\ pub[i] # 0 /\ pub[i] \in Nat /\ peer[i] \in Nat /\ peer[i] # 0
      /\ pub[i] <= keys /\ peer[i] <= keys /\ shared[i] = Secret(pub[i], peer[i])
      /\ shared[i] \in SUBSET Key
  BY <1>0, KeyFacts DEF DhInv, KeysOwned, DhTypeOK
<1>3. e \in LogEntry
  BY <1>0, <1>1, <1>2 DEF Entry, LogEntry
<1>4. e.event = "initiator" /\ e.key = shared[i] /\ e.who = i /\ e.peer = m.report.from
  BY DEF Entry
<1>5. /\ Sent("msg1")' = Sent("msg1") /\ Sent("msg2")' = Sent("msg2")
  BY <1>0 DEF Sent
<1>6. m.cmac.key = shared[i] /\ m.report.target = EnclaveOf[i]
  BY <1>0 DEF VerifyMsg3, VerifyReport, Cmac
<1>7. DhTypeOK'
  <2>1. log' \in Seq(LogEntry)
    BY <1>0, <1>3, LogGrows DEF DhInv, DhTypeOK
  <2>2. 0 \in Word /\ {} \in SUBSET Key
    BY DEF Word
  <2>3. /\ state' \in [Session -> {"ERROR", "RESET", "WAIT_M2", "WAIT_M1", "WAIT_M3", "ACTIVE"}]
        /\ pub' \in [Session -> Word] /\ peer' \in [Session -> Word]
        /\ shared' \in [Session -> SUBSET Key]
    BY <1>0, <2>2 DEF DhInv, DhTypeOK, Wipe
  <2> QED BY <1>0, <2>1, <2>3 DEF DhInv, DhTypeOK
<1>8. \A event : \A x : x \in Logged(event)' <=> x \in Logged(event) \/ (x = e /\ e.event = event)
  BY <1>0, <1>3, LoggedGrows DEF DhInv, DhTypeOK
<1>9. MsgsLogged'
  <2>1. Sent("msg2")' = Sent("msg2") /\ Sent("msg3")' = Sent("msg3")
    BY <1>0 DEF Sent
  <2> QED BY <1>8, <2>1 DEF DhInv, MsgsLogged
<1>10. Agreement'
  <2>1. PICK b \in Logged("responder") :
           b.key = m.cmac.key /\ EnclaveOf[b.who] = m.report.from /\ b.peer = m.report.target
    BY DEF DhInv, MsgsLogged
  <2>2. Match(e, b)
    BY <1>4, <1>6, <2>1 DEF Match
  <2> HIDE DEF e
  <2> QED BY <1>4, <1>8, <2>2 DEF DhInv, Agreement
<1>11. AekReturnedOnce'
  <2>1. pub[i] \in shared[i]
    BY <1>2 DEF Secret
  <2>2. \A n \in 1 .. Len(log) : log[n].event = "initiator" => log[n].key # e.key
    BY <1>4, <2>1 DEF DhInv, KeysOwned
  <2> HIDE DEF e
  <2> QED BY <1>0, <1>3, <1>4, <2>2, OnceGrows
<1>12. KeysCreated' /\ KeysOwned'
  <2>1. \A k \in shared[i] : k <= keys
    BY <1>2 DEF Secret
  <2>2. \A u \in Initiator : pub'[u] \notin shared[i]
    <3>1. \A u \in Initiator : u \in Session /\ pub'[u] = IF u = i THEN 0 ELSE pub[u]
      BY <1>0 DEF Wipe, DhInv, DhTypeOK, Session
    <3>2. \A u \in Initiator : u # i => pub[u] # peer[i] /\ pub[u] # pub[i]
      BY <1>0, <1>2 DEF DhInv, KeysOwned, Session
    <3> QED BY <1>2, <3>1, <3>2 DEF Secret
  <2> HIDE DEF e
  <2> QED BY <1>0, <1>3, <1>4, <1>5, <2>1, <2>2, WipeKeys
<1> QED BY <1>7, <1>9, <1>10, <1>11, <1>12 DEF DhInv

LEMMA DhInitInv == DhInit => DhInv
<1> SUFFICES ASSUME DhInit PROVE DhInv
  OBVIOUS
<1> USE DhSessions
<1>1. Sent("msg1") = {} /\ Sent("msg2") = {} /\ Sent("msg3") = {}
  BY DEF DhInit, Sent
<1>2. Len(log) = 0 /\ 1 .. Len(log) = {} /\ \A event : Logged(event) = {}
  BY DEF DhInit, Logged
<1>3. DhTypeOK
  <2>1. 0 \in Word /\ {} \in SUBSET Key
    BY DEF Word
  <2>2. log \in Seq(LogEntry)
    BY DEF DhInit
  <2> QED BY <2>1, <2>2 DEF DhInit, DhTypeOK, Default
<1>4. MsgsLogged /\ Agreement /\ AekReturnedOnce
  BY <1>1, <1>2 DEF MsgsLogged, Agreement, AekReturnedOnce
<1>5. KeysCreated /\ KeysOwned
  <2>1. /\ keys = 0
        /\ \A s \in Session : /\ pub[s] = 0 /\ peer[s] = 0
                              /\ state[s] \notin {"WAIT_M2", "WAIT_M3"}
    BY DEF DhInit, Default
  <2>2. Responder \subseteq Session /\ Initiator \subseteq Session
    BY DEF Session
  <2> QED BY <1>1, <1>2, <2>1, <2>2 DEF KeysCreated, KeysOwned
<1> QED BY <1>3, <1>4, <1>5 DEF DhInv

LEMMA DhNextInv == DhInv /\ [DhNext]_dhVars => DhInv'
<1> SUFFICES ASSUME DhInv, [DhNext]_dhVars PROVE DhInv'
  OBVIOUS
<1>1. ASSUME NEW s \in Session, InitSession(s) \/ Fails(s) PROVE DhInv'
  BY <1>1, WipeInv DEF InitSession, Fails, Default, Cleared
<1>2. ASSUME NEW r \in Responder, GenMsg1(r) PROVE DhInv'
  BY <1>2, GenMsg1Inv
<1>3. ASSUME NEW r \in Responder, GenMsg1Fails(r) PROVE DhInv'
  BY <1>3, WipeInv DEF GenMsg1Fails, Cleared, Session
<1>4. ASSUME NEW r \in Responder, NEW m \in Sent("msg2"), ProcMsg2(r, m) PROVE DhInv'
  BY <1>4, ProcMsg2Inv
<1>5. ASSUME NEW i \in Initiator, NEW m \in Damaged(Sent("msg1")), ProcMsg1(i, m) PROVE DhInv'
  BY <1>5, ProcMsg1Inv
<1>6. ASSUME NEW i \in Initiator, NEW m \in Sent("msg3"), ProcMsg3(i, m) PROVE DhInv'
  BY <1>6, ProcMsg3Inv
<1>7. CASE UNCHANGED dhVars
  BY <1>7 DEF dhVars, DhInv, DhTypeOK, MsgsLogged, Agreement, KeysCreated, KeysOwned,
              AekReturnedOnce, Logged, Sent, Match
<1> QED BY <1>1, <1>2, <1>3, <1>4, <1>5, <1>6, <1>7 DEF DhNext, Session

\* proc_msg2 and proc_msg3 return an AEK only together with the enclave that
\* holds the other end of the session, for any number of sessions that the
\* host interleaves, repeats messages of and mixes up.
THEOREM SessionsAgree == DhSpec => []Agreement
<1>1. DhInv => Agreement
  BY DEF DhInv
<1> QED BY <1>1, DhInitInv, DhNextInv, PTL DEF DhSpec

\* No message makes proc_msg2 or proc_msg3 return an AEK a second time.
THEOREM KeysAreSingle == DhSpec => []AekReturnedOnce
<1>1. DhInv => AekReturnedOnce
  BY DEF DhInv
<1> QED BY <1>1, DhInitInv, DhNextInv, PTL DEF DhSpec
=============================================================================

---------------------- MODULE SignatureVerifierProofs ----------------------
(***************************************************************************)
(* Theorems about SignatureVerifier for every number of servers, chats,    *)
(* verifications and restarts.                                             *)
(***************************************************************************)
EXTENDS SignatureVerifier, ChatCacheProofs

(***************************************************************************)
(* The inductive invariant, on top of the cache's.                         *)
(***************************************************************************)
\* A chat was signed with a key of its signer, in this life or an earlier one.
KeysAreSigners ==
    \A c \in Chat : Signed(c) => /\ signer[c] \in Server
                                 /\ key[c][1] = signer[c]
                                 /\ key[c][2] <= era[signer[c]]

\* What a verification has attested is the address of a key that was made;
\* it has none before there is a signature.
WantedIsMade ==
    \A v \in Verifier :
        /\ stage[v] \in {"idle", "missing"} => wanted[v] = NoAddress
        /\ stage[v] = "signed" => wanted[v] # NoAddress
        /\ wanted[v] # NoAddress =>
               /\ wanted[v][1] \in Server
               /\ wanted[v][2] <= era[wanted[v][1]]
               /\ stage[v] \in {"signed", "asking"} => wanted[v][3] = algo[v]

\* Nonces are drawn before the answers to them.
DrawnBefore == \A v \in Verifier, s \in Server : drawn[v][s] <= era[s]

\* Every answer is of a key that was in use after the nonce was drawn, and of
\* the address that was asked for; it only shows the client's own nonce if
\* the client has sent one.
AnswersAreFresh ==
    \A v \in Verifier : \A report \in reports[v] :
        /\ report.address[1] \in Server
        /\ drawn[v][report.address[1]] <= report.address[2]
        /\ report.address[2] <= era[report.address[1]]
        /\ report.gpuNonce = <<"client", v>> => nonce[v] = "own"
        /\ wanted[v] \in {NoAddress, report.address}

\* A server that was asked has answered, or there is a reason why not.
SilenceIsExplained ==
    \A v \in Verifier : stage[v] = "asking" =>
        \A s \in heard[v] :
            \/ reports[v] # {}
            \/ nonce[v] = "bad"
            \/ s \in faults[v]
            \/ /\ wanted[v] # NoAddress
               /\ s # wanted[v][1] \/ era[s] # wanted[v][2]

\* Until it is asked, nobody has answered.
NothingHeardYet ==
    \A v \in Verifier : stage[v] \in {"idle", "signed", "missing"} =>
        heard[v] = {} /\ reports[v] = {}

ClientInv == /\ WantedIsMade
             /\ DrawnBefore
             /\ AnswersAreFresh
             /\ SilenceIsExplained
             /\ NothingHeardYet
             /\ AcceptedKeyWasInUse
             /\ UnmatchedIsExplained

VInv == VTypeOK /\ KeysAreSigners /\ ClientInv

(***************************************************************************)
(* The verifier leaves the cache as it is.                                 *)
(***************************************************************************)
LEMMA CacheStep == [VNext]_allVars => [Next]_vars
  <1> SUFFICES ASSUME [VNext]_allVars PROVE [Next]_vars
    OBVIOUS
  <1>1. ASSUME NEW s \in Server, NEW c \in Chat, NEW outcome \in CallOutcome,
               Sign(s, c, outcome)
        PROVE  Next
    BY <1>1 DEF Sign, Next
  <1>2. ASSUME NEW s \in Server, RestartServer(s) PROVE Next
    BY <1>2 DEF RestartServer, Next
  <1>3. CASE CacheEnvironment
    BY <1>3 DEF CacheEnvironment, Next
  <1>4. ASSUME NEW v \in Verifier, NEW s \in Server, NEW c \in Chat,
               NEW outcome \in CallOutcome, FetchSignature(v, s, c, outcome)
        PROVE  Next
    BY <1>4 DEF FetchSignature, Next
  <1>5. ASSUME NEW v \in Verifier, AskAnyAttestation(v) \/ Verify(v)
        PROVE  UNCHANGED vars
    BY <1>5 DEF AskAnyAttestation, Verify, AskAttestation, Ask, AttestAt, Decide
  <1>6. CASE UNCHANGED allVars
    BY <1>6 DEF allVars
  <1> QED  BY <1>1, <1>2, <1>3, <1>4, <1>5, <1>6 DEF VNext

\* Whatever verifiers do, restarts and new keys included, the cache behaves as
\* ChatCache says: all of its theorems hold here too.
THEOREM VerifierImplementsCache == VSpec => Spec
  <1>1. VInit => Init
    BY DEF VInit
  <1> QED  BY <1>1, CacheStep, PTL DEF VSpec, Spec

\* The cache's inductive invariant holds with keys and verifiers.
THEOREM CacheInvariance == VSpec => []IInv
  BY VerifierImplementsCache, Invariance, PTL

(***************************************************************************)
(* The steps.                                                              *)
(***************************************************************************)
LEMMA InitVInv == VInit => VInv
  <1> SUFFICES ASSUME VInit PROVE VInv
    OBVIOUS
  <1>1. VTypeOK
    BY MaxRestartsAssumption DEF VInit, VTypeOK, Stage, Algo, NonceParam, AddressSet, NoAddress
  <1>2. KeysAreSigners
    BY DEF VInit, Init, KeysAreSigners, Signed
  <1>3. ClientInv
    BY MaxRestartsAssumption DEF VInit, ClientInv, WantedIsMade, DrawnBefore, AnswersAreFresh,
        SilenceIsExplained, NothingHeardYet, AcceptedKeyWasInUse, UnmatchedIsExplained, NoAddress
  <1> QED  BY <1>1, <1>2, <1>3 DEF VInv

\* A step that leaves servers and verifications alone leaves ClientInv alone.
LEMMA ClientFrame ==
    ASSUME UNCHANGED era, UNCHANGED verifierVars, ClientInv
    PROVE  ClientInv'
  BY DEF verifierVars, ClientInv, WantedIsMade, DrawnBefore, AnswersAreFresh, SilenceIsExplained,
         NothingHeardYet, AcceptedKeyWasInUse, UnmatchedIsExplained

LEMMA SignStep ==
    ASSUME VInv, NEW s \in Server, NEW c \in Chat, NEW outcome \in CallOutcome,
           IInv, Sign(s, c, outcome)
    PROVE  VInv'
  <1>1. /\ key' = [key EXCEPT ![c] = <<s, era[s]>>]
        /\ signer' = [signer EXCEPT ![c] = s]
        /\ UNCHANGED <<era, verifierVars>>
    BY DEF Sign, SetChat
  <1>2. VTypeOK /\ TypeOK
    BY DEF VInv, IInv
  <1>3. VTypeOK'
    BY <1>1, <1>2 DEF VTypeOK, verifierVars
  <1>4. KeysAreSigners'
    <2> SUFFICES ASSUME NEW d \in Chat, Signed(d)'
                 PROVE  /\ signer'[d] \in Server
                        /\ key'[d][1] = signer'[d]
                        /\ key'[d][2] <= era'[signer'[d]]
      BY DEF KeysAreSigners
    <2>1. CASE d = c
      <3>1. signer'[d] = s /\ key'[d] = <<s, era[s]>>
        BY <1>1, <1>2, <2>1 DEF VTypeOK, TypeOK
      <3>2. era[s] \in Nat
        BY <1>2, MaxRestartsAssumption DEF VTypeOK
      <3> QED  BY <1>1, <3>1, <3>2
    <2>2. CASE d # c
      BY <1>1, <1>2, <2>2 DEF VInv, KeysAreSigners, Signed, VTypeOK, TypeOK
    <2> QED  BY <2>1, <2>2
  <1> QED  BY <1>1, <1>3, <1>4, ClientFrame DEF VInv

LEMMA RestartStep ==
    ASSUME VInv, NEW s \in Server, RestartServer(s)
    PROVE  VInv'
  <1>1. /\ era' = [era EXCEPT ![s] = era[s] + 1] /\ era[s] < MaxRestarts
        /\ UNCHANGED <<key, verifierVars, signer>>
    BY DEF RestartServer, Restart
  <1>2. VTypeOK
    BY DEF VInv
  <1>3. VTypeOK'
    <2>1. era' \in [Server -> 0..MaxRestarts]
      BY <1>1, <1>2, MaxRestartsAssumption DEF VTypeOK
    <2> QED  BY <1>1, <1>2, <2>1 DEF VTypeOK, verifierVars
  <1>4. \A t \in Server : era[t] \in Nat /\ era'[t] \in Nat /\ era[t] <= era'[t]
    BY <1>1, <1>2, MaxRestartsAssumption DEF VTypeOK
  <1>5. KeysAreSigners'
    <2>1. \A c \in Chat : key[c][2] \in Nat
      BY <1>2, MaxRestartsAssumption DEF VTypeOK
    <2> QED  BY <1>1, <1>4, <2>1 DEF VInv, KeysAreSigners, Signed
  <1>6. \A v \in Verifier : wanted[v][2] \in Nat
    BY <1>2, MaxRestartsAssumption DEF VTypeOK, AddressSet
  <1>7. \A v \in Verifier, t \in Server : drawn[v][t] \in Nat
    BY <1>2, MaxRestartsAssumption DEF VTypeOK
  <1>8. \A v \in Verifier : \A report \in reports[v] : report.address[2] \in Nat
    BY <1>2, MaxRestartsAssumption DEF VTypeOK, ReportSet, AddressSet
  <1>9. WantedIsMade' /\ DrawnBefore'
    BY <1>1, <1>4, <1>6, <1>7 DEF VInv, ClientInv, WantedIsMade, DrawnBefore, verifierVars
  <1>10. AnswersAreFresh'
    BY <1>1, <1>4, <1>8 DEF VInv, ClientInv, AnswersAreFresh, verifierVars
  <1>11. SilenceIsExplained'
    BY <1>1, <1>4, <1>6 DEF VInv, ClientInv, SilenceIsExplained, WantedIsMade, VTypeOK, verifierVars
  <1>12. NothingHeardYet' /\ AcceptedKeyWasInUse'
    BY <1>1 DEF VInv, ClientInv, NothingHeardYet, AcceptedKeyWasInUse, verifierVars
  <1>13. UnmatchedIsExplained'
    BY <1>1, <1>4, <1>6 DEF VInv, ClientInv, UnmatchedIsExplained, WantedIsMade, verifierVars
  <1> QED  BY <1>3, <1>5, <1>9, <1>10, <1>11, <1>12, <1>13 DEF VInv, ClientInv

LEMMA EnvironmentStep ==
    ASSUME VInv, CacheEnvironment
    PROVE  VInv'
  <1>1. UNCHANGED <<era, key, verifierVars, signer>>
    BY DEF CacheEnvironment, serverVars, Tick, RedisBecomes, RedisDrops, RedisCatchesUp, history
  <1>2. VTypeOK'
    BY <1>1 DEF VInv, VTypeOK, verifierVars
  <1>3. KeysAreSigners'
    BY <1>1 DEF VInv, KeysAreSigners, Signed
  <1> QED  BY <1>1, <1>2, <1>3, ClientFrame DEF VInv

LEMMA FetchStep ==
    ASSUME IInv, VInv, NEW v \in Verifier, NEW s \in Server, NEW c \in Chat,
           NEW outcome \in CallOutcome, FetchSignature(v, s, c, outcome)
    PROVE  VInv'
  <1>1. VTypeOK /\ TypeOK
    BY DEF VInv, IInv
  <1>2. /\ UNCHANGED <<era, key, signer, nonce, heard, reports, drawn, faults>>
        /\ stage[v] = "idle" /\ wanted[v] = NoAddress /\ heard[v] = {} /\ reports[v] = {}
    BY DEF FetchSignature, GetChat, serverVars, VInv, ClientInv, WantedIsMade, NothingHeardYet
  <1>3. PICK a \in AlgoParam :
            IF Found(s, c, outcome) /\ a \in Algo
            THEN /\ algo' = [algo EXCEPT ![v] = a]
                 /\ wanted' = [wanted EXCEPT ![v] = <<key[c][1], key[c][2], a>>]
                 /\ stage' = [stage EXCEPT ![v] = "signed"]
            ELSE /\ stage' = [stage EXCEPT ![v] = "missing"]
                 /\ UNCHANGED <<algo, wanted>>
    BY DEF FetchSignature
  <1>4. CASE Found(s, c, outcome) /\ a \in Algo
    <2>1. Signed(c)
      <3>1. shared[c] > 0 \/ local[s][c] > 0
        BY <1>4 DEF Found, FoundInRedis, LocalHit
      <3> QED  BY <3>1, ServerAssumption DEF IInv, CopiesFromSigning, Signed
    <2>2. /\ key[c][1] \in Server
          /\ key[c][2] \in 0..MaxRestarts /\ key[c][2] <= era[key[c][1]]
      BY <1>1, <2>1 DEF VInv, KeysAreSigners, VTypeOK
    <2> DEFINE address == <<key[c][1], key[c][2], a>>
    <2>3. /\ address \in AddressSet /\ address # NoAddress
          /\ address[1] \in Server /\ address[2] <= era[address[1]] /\ address[3] = a
      BY <1>4, <2>2, ServerAssumption DEF AddressSet, NoAddress
    <2>4. /\ wanted' = [wanted EXCEPT ![v] = address]
          /\ algo' = [algo EXCEPT ![v] = a]
          /\ stage' = [stage EXCEPT ![v] = "signed"]
      BY <1>3, <1>4
    <2> HIDE DEF address
    <2>5. VTypeOK'
      BY <1>1, <1>2, <1>4, <2>3, <2>4 DEF VTypeOK, Stage
    <2>6. KeysAreSigners' /\ DrawnBefore' /\ SilenceIsExplained'
      BY <1>1, <1>2, <2>4 DEF VTypeOK, VInv, ClientInv, KeysAreSigners, Signed, DrawnBefore,
                              SilenceIsExplained
    <2>7. WantedIsMade'
      BY <1>1, <1>2, <2>3, <2>4 DEF VTypeOK, VInv, ClientInv, WantedIsMade
    <2>8. AnswersAreFresh' /\ NothingHeardYet'
      BY <1>1, <1>2, <2>4 DEF VTypeOK, VInv, ClientInv, AnswersAreFresh, NothingHeardYet
    <2>9. AcceptedKeyWasInUse' /\ UnmatchedIsExplained'
      BY <1>1, <1>2, <2>4 DEF VTypeOK, VInv, ClientInv, AcceptedKeyWasInUse, UnmatchedIsExplained
    <2> QED  BY <2>5, <2>6, <2>7, <2>8, <2>9 DEF VInv, ClientInv
  <1>5. CASE ~(Found(s, c, outcome) /\ a \in Algo)
    <2>1. UNCHANGED <<algo, wanted>> /\ stage' = [stage EXCEPT ![v] = "missing"]
      BY <1>3, <1>5
    <2>2. VTypeOK' /\ KeysAreSigners'
      BY <1>1, <1>2, <2>1 DEF VTypeOK, Stage, VInv, KeysAreSigners, Signed
    <2>3. WantedIsMade' /\ DrawnBefore' /\ AnswersAreFresh'
      BY <1>1, <1>2, <2>1 DEF VTypeOK, VInv, ClientInv, WantedIsMade, DrawnBefore, AnswersAreFresh
    <2>4. SilenceIsExplained' /\ NothingHeardYet'
      BY <1>1, <1>2, <2>1 DEF VTypeOK, VInv, ClientInv, SilenceIsExplained, NothingHeardYet
    <2>5. AcceptedKeyWasInUse' /\ UnmatchedIsExplained'
      BY <1>1, <1>2, <2>1 DEF VTypeOK, VInv, ClientInv, AcceptedKeyWasInUse, UnmatchedIsExplained
    <2> QED  BY <2>2, <2>3, <2>4, <2>5 DEF VInv, ClientInv
  <1> QED  BY <1>4, <1>5

LEMMA AskStep ==
    ASSUME VInv, NEW v \in Verifier, AskAnyAttestation(v) \/ AskAttestation(v)
    PROVE  VInv'
  <1>1. VTypeOK
    BY DEF VInv
  <1>2. PICK n \in NonceParam : Ask(v, n) /\ stage[v] \in {"idle", "signed"}
    BY DEF AskAnyAttestation, AskAttestation, NonceParam
  <1>3. /\ nonce' = [nonce EXCEPT ![v] = n]
        /\ stage' = [stage EXCEPT ![v] = "asking"]
        /\ drawn' = [drawn EXCEPT ![v] = era]
        /\ UNCHANGED <<era, key, signer, algo, wanted, heard, reports, faults>>
        /\ heard[v] = {} /\ reports[v] = {}
    BY <1>2 DEF Ask, vars, serverVars, VInv, ClientInv, NothingHeardYet
  <1>4. VTypeOK' /\ KeysAreSigners'
    BY <1>1, <1>3 DEF VTypeOK, Stage, VInv, KeysAreSigners, Signed
  <1>5. WantedIsMade'
    BY <1>1, <1>2, <1>3 DEF VTypeOK, VInv, ClientInv, WantedIsMade
  <1>6. DrawnBefore'
    <2>1. \A t \in Server : era[t] <= era[t]
      BY <1>1, MaxRestartsAssumption DEF VTypeOK
    <2> QED  BY <1>1, <1>3, <2>1 DEF VTypeOK, VInv, ClientInv, DrawnBefore
  <1>9. /\ stage'[v] = "asking" /\ heard'[v] = {} /\ reports'[v] = {}
        /\ \A w \in Verifier \ {v} :
               /\ stage'[w] = stage[w] /\ nonce'[w] = nonce[w] /\ drawn'[w] = drawn[w]
               /\ heard'[w] = heard[w] /\ reports'[w] = reports[w]
               /\ wanted'[w] = wanted[w] /\ faults'[w] = faults[w]
    BY <1>1, <1>3 DEF VTypeOK
  <1>7. AnswersAreFresh' /\ SilenceIsExplained' /\ NothingHeardYet'
    <2>1. AnswersAreFresh'
      BY <1>3, <1>9 DEF VInv, ClientInv, AnswersAreFresh
    <2>2. SilenceIsExplained'
      BY <1>3, <1>9 DEF VInv, ClientInv, SilenceIsExplained
    <2>3. NothingHeardYet'
      BY <1>9 DEF VInv, ClientInv, NothingHeardYet
    <2> QED  BY <2>1, <2>2, <2>3
  <1>8. AcceptedKeyWasInUse' /\ UnmatchedIsExplained'
    BY <1>3, <1>9 DEF VInv, ClientInv, AcceptedKeyWasInUse, UnmatchedIsExplained
  <1> QED  BY <1>4, <1>5, <1>6, <1>7, <1>8 DEF VInv, ClientInv

LEMMA AttestStep ==
    ASSUME VInv, NEW v \in Verifier, NEW s \in Server, AttestAt(v, s)
    PROVE  VInv'
  <1>1. VTypeOK
    BY DEF VInv
  <1>2. /\ stage[v] = "asking"
        /\ heard' = [heard EXCEPT ![v] = heard[v] \cup {s}]
        /\ UNCHANGED <<era, key, signer, stage, algo, nonce, wanted, drawn>>
    BY DEF AttestAt, vars, serverVars
  <1>3. DrawnBefore' /\ KeysAreSigners' /\ WantedIsMade' /\ AcceptedKeyWasInUse'
    BY <1>2 DEF VInv, ClientInv, DrawnBefore, KeysAreSigners, Signed, WantedIsMade,
                AcceptedKeyWasInUse
  <1>4. NothingHeardYet'
    <2>1. \A w \in Verifier : w # v => heard'[w] = heard[w] /\ reports'[w] = reports[w]
      BY <1>1, <1>2 DEF AttestAt, VTypeOK
    <2> QED  BY <1>2, <2>1 DEF VInv, ClientInv, NothingHeardYet
  <1>5. CASE /\ Answers(s, v) /\ NonceIsValid(nonce[v])
             /\ reports' = [reports EXCEPT ![v] = reports[v] \cup {Report(s, v)}]
             /\ UNCHANGED faults
    <2> DEFINE report == Report(s, v)
    <2>1. /\ report \in ReportSet
          /\ report.address = <<s, era[s], algo[v]>>
          /\ report.gpuNonce = <<"client", v>> => nonce[v] = "own"
      <3>1. RequestNonce(s, v) \in RequestNonceSet
        BY DEF RequestNonce, RequestNonceSet
      <3>2. Address(s, algo[v]) \in AddressSet
        BY <1>1 DEF VTypeOK, Address, AddressSet
      <3>3. report = [address |-> Address(s, algo[v]),
                      reportData |-> <<Address(s, algo[v]), RequestNonce(s, v)>>,
                      gpuNonce |-> RequestNonce(s, v)]
        BY DEF Report
      <3>4. RequestNonce(s, v) = <<"client", v>> => nonce[v] = "own"
        BY DEF RequestNonce
      <3> HIDE DEF report
      <3> QED  BY <3>1, <3>2, <3>3, <3>4 DEF ReportSet, Address
    <2>2. wanted[v] \in {NoAddress, report.address}
      BY <1>5, <2>1 DEF Answers, Address
    <2>3. reports' = [reports EXCEPT ![v] = reports[v] \cup {report}] /\ UNCHANGED faults
      BY <1>5
    <2> HIDE DEF report
    <2>4. VTypeOK'
      BY <1>1, <1>2, <2>1, <2>3 DEF VTypeOK
    <2>5. AnswersAreFresh'
      <3>1. drawn[v][s] <= era[s] /\ era[s] <= era[s]
        BY <1>1, MaxRestartsAssumption DEF VInv, ClientInv, DrawnBefore, VTypeOK
      <3>2. \A w \in Verifier : \A r \in reports'[w] :
                r \in reports[w] \/ (w = v /\ r = report)
        BY <1>1, <2>3 DEF VTypeOK
      <3>3. /\ report.address[1] = s
            /\ report.address[2] = era[s]
        BY <2>1
      <3> QED  BY <1>2, <2>1, <2>2, <3>1, <3>2, <3>3 DEF VInv, ClientInv, AnswersAreFresh
    <2>6. SilenceIsExplained'
      BY <1>1, <1>2, <2>3 DEF VTypeOK, VInv, ClientInv, SilenceIsExplained
    <2>7. UnmatchedIsExplained'
      BY <1>2, <2>3 DEF VInv, ClientInv, UnmatchedIsExplained
    <2> QED  BY <1>3, <1>4, <2>4, <2>5, <2>6, <2>7 DEF VInv, ClientInv
  <1>6. CASE UNCHANGED reports /\ faults' = [faults EXCEPT ![v] = faults[v] \cup {s}]
    <2>1. VTypeOK'
      BY <1>1, <1>2, <1>6 DEF VTypeOK
    <2>2. AnswersAreFresh'
      BY <1>2, <1>6 DEF VInv, ClientInv, AnswersAreFresh
    <2>3. SilenceIsExplained'
      BY <1>1, <1>2, <1>6 DEF VTypeOK, VInv, ClientInv, SilenceIsExplained
    <2>4. UnmatchedIsExplained'
      BY <1>1, <1>2, <1>6 DEF VTypeOK, VInv, ClientInv, UnmatchedIsExplained
    <2> QED  BY <1>3, <1>4, <2>1, <2>2, <2>3, <2>4 DEF VInv, ClientInv
  <1>7. CASE /\ ~Answers(s, v) \/ ~NonceIsValid(nonce[v])
             /\ UNCHANGED <<reports, faults>>
    <2>1. VTypeOK'
      BY <1>1, <1>2, <1>7 DEF VTypeOK
    <2>2. AnswersAreFresh' /\ UnmatchedIsExplained'
      BY <1>2, <1>7 DEF VInv, ClientInv, AnswersAreFresh, UnmatchedIsExplained
    <2>3. nonce[v] = "bad" \/ /\ wanted[v] # NoAddress
                              /\ s # wanted[v][1] \/ era[s] # wanted[v][2]
      <3>1. CASE ~NonceIsValid(nonce[v])
        BY <3>1 DEF NonceIsValid
      <3>2. CASE ~Answers(s, v)
        <4>1. wanted[v] # NoAddress /\ wanted[v] # <<s, era[s], algo[v]>>
          BY <3>2 DEF Answers, Address
        <4>2. wanted[v] \in AddressSet /\ wanted[v][3] = algo[v]
          BY <1>1, <1>2, <4>1 DEF VTypeOK, VInv, ClientInv, WantedIsMade
        <4> QED  BY <4>1, <4>2 DEF AddressSet
      <3> QED  BY <1>7, <3>1, <3>2
    <2>4. SilenceIsExplained'
      BY <1>1, <1>2, <1>7, <2>3 DEF VTypeOK, VInv, ClientInv, SilenceIsExplained
    <2> QED  BY <1>3, <1>4, <2>1, <2>2, <2>4 DEF VInv, ClientInv
  <1> QED  BY <1>5, <1>6, <1>7 DEF AttestAt

LEMMA DecideStep ==
    ASSUME VInv, NEW v \in Verifier, Decide(v)
    PROVE  VInv'
  <1>1. VTypeOK
    BY DEF VInv
  <1>2. /\ stage[v] = "asking" /\ heard[v] = Server
        /\ heard' = [heard EXCEPT ![v] = {}]
        /\ reports' = [reports EXCEPT ![v] = {}]
        /\ UNCHANGED <<era, key, signer, algo, nonce, drawn, faults>>
    BY DEF Decide, vars, serverVars
  <1>3. PICK address \in AddressSet, verdict \in {"unmatched", "accepted", "attested", "refused"} :
            /\ wanted' = [wanted EXCEPT ![v] = address]
            /\ stage' = [stage EXCEPT ![v] = verdict]
            /\ \/ /\ verdict = "unmatched" /\ address = wanted[v]
                  /\ Matching(v) = {}
               \/ \E report \in reports[v] :
                      /\ address = report.address
                      /\ verdict \in {"accepted", "attested"}
                         => report.gpuNonce = <<"client", v>>
                      /\ verdict # "unmatched"
    <2>1. CASE Matching(v) = {} /\ stage' = [stage EXCEPT ![v] = "unmatched"] /\ UNCHANGED wanted
      <3>1. wanted[v] \in AddressSet /\ wanted' = [wanted EXCEPT ![v] = wanted[v]]
        BY <1>1, <2>1 DEF VTypeOK
      <3> QED  BY <2>1, <3>1
    <2>2. CASE \E report \in Matching(v) :
                   /\ wanted' = [wanted EXCEPT ![v] = report.address]
                   /\ stage' = [stage EXCEPT ![v] = Verdict(report, v)]
      <3>1. PICK report \in reports[v] :
                   /\ wanted' = [wanted EXCEPT ![v] = report.address]
                   /\ stage' = [stage EXCEPT ![v] = Verdict(report, v)]
        BY <2>2 DEF Matching
      <3>2. report.address \in AddressSet
        BY <1>1 DEF VTypeOK, ReportSet
      <3>3. /\ Verdict(report, v) \in {"accepted", "attested", "refused"}
            /\ Verdict(report, v) # "refused" => report.gpuNonce = <<"client", v>>
        BY DEF Verdict, Embeds
      <3> QED  BY <3>1, <3>2, <3>3
    <2> QED  BY <2>1, <2>2 DEF Decide
  <1>4. VTypeOK' /\ KeysAreSigners' /\ DrawnBefore'
    BY <1>1, <1>2, <1>3 DEF VTypeOK, Stage, VInv, ClientInv, KeysAreSigners, Signed, DrawnBefore
  <1>5. AnswersAreFresh' /\ SilenceIsExplained' /\ NothingHeardYet'
    BY <1>1, <1>2, <1>3 DEF VTypeOK, VInv, ClientInv, AnswersAreFresh, SilenceIsExplained,
                            NothingHeardYet
  <1>6. wanted'[v] = address /\ stage'[v] = verdict
        /\ \A w \in Verifier : w # v => wanted'[w] = wanted[w] /\ stage'[w] = stage[w]
    BY <1>1, <1>3 DEF VTypeOK
  <1>7. \A report \in reports[v] :
            /\ report.address[1] \in Server
            /\ drawn[v][report.address[1]] <= report.address[2]
            /\ report.address[2] <= era[report.address[1]]
            /\ report.gpuNonce = <<"client", v>> => nonce[v] = "own"
            /\ wanted[v] \in {NoAddress, report.address}
    BY DEF VInv, ClientInv, AnswersAreFresh
  <1>8. WantedIsMade'
    <2>1. address # NoAddress => address[1] \in Server /\ address[2] <= era[address[1]]
      BY <1>3, <1>7 DEF VInv, ClientInv, WantedIsMade
    <2> QED  BY <1>2, <1>3, <1>6, <2>1 DEF VInv, ClientInv, WantedIsMade
  <1>9. AcceptedKeyWasInUse'
    BY <1>2, <1>3, <1>6, <1>7 DEF VInv, ClientInv, AcceptedKeyWasInUse
  <1>10. UnmatchedIsExplained'
    <2>1. ASSUME verdict = "unmatched"
          PROVE  \/ nonce[v] = "bad"
                 \/ wanted[v] = NoAddress /\ faults[v] = Server
                 \/ /\ wanted[v] # NoAddress
                    /\ era[wanted[v][1]] # wanted[v][2] \/ wanted[v][1] \in faults[v]
      <3>1. reports[v] = {}
        BY <1>3, <1>7, <2>1 DEF Matching
      <3>2. \A s \in Server : \/ nonce[v] = "bad"
                              \/ s \in faults[v]
                              \/ /\ wanted[v] # NoAddress
                                 /\ s # wanted[v][1] \/ era[s] # wanted[v][2]
        BY <1>2, <3>1 DEF VInv, ClientInv, SilenceIsExplained
      <3>3. faults[v] \subseteq Server
        BY <1>1 DEF VTypeOK
      <3>4. wanted[v] # NoAddress => wanted[v][1] \in Server
        BY DEF VInv, ClientInv, WantedIsMade
      <3> QED  BY <3>2, <3>3, <3>4
    <2>2. verdict = "unmatched" => address = wanted[v]
      BY <1>3
    <2> QED  BY <1>2, <1>6, <2>1, <2>2 DEF VInv, ClientInv, UnmatchedIsExplained
  <1> QED  BY <1>4, <1>5, <1>8, <1>9, <1>10 DEF VInv, ClientInv

LEMMA StepVInv == IInv /\ VInv /\ [VNext]_allVars => VInv'
  <1> SUFFICES ASSUME IInv, VInv, [VNext]_allVars PROVE VInv'
    OBVIOUS
  <1>1. CASE \E s \in Server, c \in Chat, outcome \in CallOutcome : Sign(s, c, outcome)
    BY <1>1, SignStep
  <1>2. CASE \E s \in Server : RestartServer(s)
    BY <1>2, RestartStep
  <1>3. CASE CacheEnvironment
    BY <1>3, EnvironmentStep
  <1>4. CASE \E v \in Verifier, s \in Server, c \in Chat, outcome \in CallOutcome :
                 FetchSignature(v, s, c, outcome)
    BY <1>4, FetchStep
  <1>5. CASE \E v \in Verifier : AskAnyAttestation(v) \/ Verify(v)
    <2> PICK v \in Verifier : AskAnyAttestation(v) \/ Verify(v)
      BY <1>5
    <2>1. CASE AskAnyAttestation(v) \/ AskAttestation(v)
      BY <2>1, AskStep
    <2>2. CASE \E s \in Server : AttestAt(v, s)
      BY <2>2, AttestStep
    <2>3. CASE Decide(v)
      BY <2>3, DecideStep
    <2> QED  BY <2>1, <2>2, <2>3 DEF Verify
  <1>6. CASE UNCHANGED allVars
    <2>1. UNCHANGED <<era, key, signer, verifierVars>>
      BY <1>6 DEF allVars, vars, verifierVars
    <2>2. VTypeOK' /\ KeysAreSigners'
      BY <2>1 DEF VInv, VTypeOK, KeysAreSigners, Signed, verifierVars
    <2> QED  BY <2>1, <2>2, ClientFrame DEF VInv
  <1> QED  BY <1>1, <1>2, <1>3, <1>4, <1>5, <1>6 DEF VNext

(***************************************************************************)
(* The theorems.                                                           *)
(***************************************************************************)
\* The strengthened invariant holds of every behaviour of servers and clients.
THEOREM VInvariance == VSpec => []VInv
  <1>1. VInit => VInv
    BY InitVInv
  <1>2. IInv /\ VInv /\ [VNext]_allVars => VInv'
    BY StepVInv
  <1> QED  BY <1>1, <1>2, CacheInvariance, PTL DEF VSpec

\* Servers and verifications stay well formed: every variable of the
\* verifiers and of quote.py's keys keeps its type.
THEOREM VerifierTypeCorrectness == VSpec => []VTypeOK
  <1>1. VInv => VTypeOK
    BY DEF VInv
  <1> QED  BY <1>1, VInvariance, PTL

\* check_attestation never accepts a key that its server had dropped before
\* the verifier drew its nonce, however often servers restart.
THEOREM AcceptedKeys == VSpec => []AcceptedKeyWasInUse
  <1>1. VInv => AcceptedKeyWasInUse
    BY DEF VInv, ClientInv
  <1> QED  BY <1>1, VInvariance, PTL

\* fetch_attestation_for finds no attestation only for a restart or a failure
\* of the server that signed, or a nonce that is refused.
THEOREM UnmatchedReasons == VSpec => []UnmatchedIsExplained
  <1>1. VInv => UnmatchedIsExplained
    BY DEF VInv, ClientInv
  <1> QED  BY <1>1, VInvariance, PTL

(***************************************************************************)
(* Every verification comes nearer to its end                              *)
(***************************************************************************)
\* How many stages a verification has before it.
StagesLeft(v) == CASE stage[v] = "idle"   -> 3
                   [] stage[v] = "signed" -> 2
                   [] stage[v] = "asking" -> 1
                   [] OTHER               -> 0

\* One more server has answered the broadcast.
HearsAnother(v) == /\ StagesLeft(v)' = StagesLeft(v)
                   /\ \E s \in Server \ heard[v] : heard'[v] = heard[v] \cup {s}

Stands(v) == StagesLeft(v)' = StagesLeft(v) /\ heard'[v] = heard[v]

Fetch(v) == \E s \in Server, c \in Chat, outcome \in CallOutcome : FetchSignature(v, s, c, outcome)

Advance(v) == Fetch(v) \/ AskAnyAttestation(v) \/ Verify(v)

\* What VerificationEnds rests on: a verification never goes back, from a 404
\* or 400 of a server to asking it again, and no step of a server or of another
\* client takes it back: each of its steps brings it to a later stage, or hears
\* one more server of the broadcast (fetch_signature, fetch_attestation_for).
THEOREM VerificationsAdvance ==
    VSpec => [][\A v \in Verifier :
                    \/ Advance(v) /\ StagesLeft(v)' < StagesLeft(v)
                    \/ Advance(v) /\ HearsAnother(v)
                    \/ Stands(v)]_allVars
  <1> DEFINE A == \A v \in Verifier : \/ Advance(v) /\ StagesLeft(v)' < StagesLeft(v)
                                      \/ Advance(v) /\ HearsAnother(v)
                                      \/ Stands(v)
  <1>1. VInv /\ [VNext]_allVars => [A]_allVars
    <2> SUFFICES ASSUME VInv, VNext, NEW v \in Verifier
                 PROVE  \/ Advance(v) /\ StagesLeft(v)' < StagesLeft(v)
                        \/ Advance(v) /\ HearsAnother(v)
                        \/ Stands(v)
      OBVIOUS
    <2>1. /\ stage \in [Verifier -> Stage]
          /\ heard \in [Verifier -> SUBSET Server]
      BY DEF VInv, VTypeOK
    <2>2. ASSUME UNCHANGED <<stage, heard>> PROVE Stands(v)
      BY <2>2 DEF Stands, StagesLeft
    <2>3. ASSUME NEW w \in Verifier, w # v, Advance(w) PROVE Stands(v)
      <3>1. stage'[v] = stage[v] /\ heard'[v] = heard[v]
        BY <2>1, <2>3 DEF Advance, Fetch, FetchSignature, AskAnyAttestation, Ask, Verify,
           AskAttestation, AttestAt, Decide
      <3> QED  BY <3>1 DEF Stands, StagesLeft
    <2>4. ASSUME Fetch(v) \/ AskAnyAttestation(v) \/ AskAttestation(v) \/ Decide(v)
          PROVE  StagesLeft(v)' < StagesLeft(v)
      <3>1. \/ stage[v] = "idle" /\ stage'[v] \in {"signed", "missing", "asking"}
            \/ stage[v] = "signed" /\ stage'[v] = "asking"
            \/ stage[v] = "asking" /\ stage'[v] \in {"unmatched", "refused", "attested", "accepted"}
        BY <2>1, <2>4 DEF Fetch, FetchSignature, AskAnyAttestation, Ask, AskAttestation,
           Decide, Verdict
      <3> QED  BY <3>1 DEF StagesLeft
    <2>5. ASSUME NEW s \in Server, AttestAt(v, s) PROVE HearsAnother(v)
      BY <2>1, <2>5 DEF AttestAt, HearsAnother, StagesLeft
    <2>6. ASSUME Advance(v)
          PROVE  StagesLeft(v)' < StagesLeft(v) \/ HearsAnother(v)
      BY <2>4, <2>5, <2>6 DEF Advance, Verify
    <2>7. CASE \/ \E s \in Server, c \in Chat, outcome \in CallOutcome : Sign(s, c, outcome)
               \/ \E s \in Server : RestartServer(s)
               \/ CacheEnvironment
      <3>1. UNCHANGED <<stage, heard>>
        BY <2>7 DEF Sign, RestartServer, CacheEnvironment, verifierVars
      <3> QED  BY <2>2, <3>1
    <2>8. CASE \E w \in Verifier : Advance(w)
      BY <2>3, <2>6, <2>8
    <2> QED  BY <2>7, <2>8 DEF VNext, Advance, Fetch
  <1> QED  BY <1>1, VInvariance, PTL DEF VSpec
============================================================================

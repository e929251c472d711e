------------------------ MODULE SigningServiceProofs ------------------------
(***************************************************************************)
(* Theorems about SigningService for every number of servers, chats,       *)
(* verifications, restarts and chunks: what was proved of its components   *)
(* holds of the whole, and with it the whole way of a signature.           *)
(***************************************************************************)
EXTENDS SigningService, SignatureVerifierProofs

Relay == INSTANCE ChatProxyProofs WITH Request <- Chat

(***************************************************************************)
(* The inductive invariant: those of the components, and what ties them.   *)
(***************************************************************************)
\* A request that was accepted is at one of the servers.
Located ==
    /\ at \in [Chat -> Server \cup {Nobody}]
    /\ \A c \in Chat : pc[c] # "new" => at[c] \in Server

\* The cache has signed what the proxies have stored, at the server they run
\* on, and nothing else.
SignedAsStored ==
    \A c \in Chat : /\ Signed(c) <=> Relay!HasSignature(c)
                    /\ Signed(c) => signer[c] = at[c]

\* What is verified on behalf of a signature is the key of a signed chat.
WantedIsSigned ==
    \A v \in Verifier :
        stage[v] = "accepted" \/ (stage[v] \in {"signed", "asking"} /\ wanted[v] # NoAddress)
        => \E c \in Chat : Signed(c) /\ key[c] = <<wanted[v][1], wanted[v][2]>>

SInv == /\ IInv
        /\ VInv
        /\ Relay!PInv
        /\ Located
        /\ SignedAsStored
        /\ WantedIsSigned

LEMMA InitSInv == ServiceInit => SInv
  <1> SUFFICES ASSUME ServiceInit PROVE SInv
    OBVIOUS
  <1>1. IInv /\ VInv
    BY InitIInv, InitVInv DEF ServiceInit, VInit
  <1>2. Relay!PInv
    <2>1. Relay!Init
      BY DEF ServiceInit, Proxy!Init, Relay!Init
    <2>2. Relay!Init => Relay!PInv
      BY NoIdAssumption, MaxChunksAssumption, Relay!InitPInv
    <2> QED  BY <2>1, <2>2
  <1>3. Located
    BY DEF ServiceInit, Proxy!Init, Located
  <1>4. SignedAsStored
    BY DEF ServiceInit, Proxy!Init, VInit, Init, SignedAsStored, Signed, Relay!HasSignature
  <1>5. WantedIsSigned
    BY DEF ServiceInit, VInit, WantedIsSigned
  <1> QED  BY <1>1, <1>2, <1>3, <1>4, <1>5 DEF SInv

(***************************************************************************)
(* The steps of a proxy within the service                                 *)
(***************************************************************************)
\* ChatProxy's handlers are what ChatProxyProofs speaks of.
LEMMA SameHandlers ==
    ASSUME NEW c \in Chat
    PROVE  /\ Proxy!Accept(c) \/ Proxy!Reject(c) => Relay!Accept(c) \/ Relay!Reject(c)
           /\ Proxy!Handle(c) \/ Proxy!Disconnect(c) => Relay!Handle(c) \/ Relay!Disconnect(c)
  BY DEF Proxy!Accept, Relay!Accept, Proxy!Reject, Relay!Reject, Proxy!Handle, Relay!Handle,
         Proxy!SendRaises, Relay!SendRaises, Proxy!PassError, Relay!PassError,
         Proxy!StartStream, Relay!StartStream, Proxy!StreamChunk, Relay!StreamChunk,
         Proxy!Receive, Relay!Receive, Proxy!Raise, Relay!Raise, Proxy!Deliver, Relay!Deliver,
         Proxy!EndStream, Relay!EndStream, Proxy!Signed, Relay!Signed,
         Proxy!BreakStream, Relay!BreakStream, Proxy!Eof, Relay!Eof,
         Proxy!Disconnect, Relay!Disconnect, Proxy!Close, Relay!Close,
         Proxy!PostFails, Relay!PostFails, Proxy!WholeBody, Relay!WholeBody,
         Proxy!PostAnswered, Relay!PostAnswered, Proxy!Respond, Relay!Respond

LEMMA ProxyStep ==
    ASSUME Relay!PInv, [Relay!Next]_Relay!vars
    PROVE  Relay!PInv'
  <1>1. Relay!PInv /\ [Relay!Next]_Relay!vars => Relay!PInv'
    BY NoIdAssumption, MaxChunksAssumption, Relay!StepPInv
  <1> QED  BY <1>1

\* A handler runs only for a request that was accepted, touches only what is
\* its own, and signs, if it does, under the id of its own answer.
LEMMA HandlerFrame ==
    ASSUME Relay!PInv, NEW c \in Chat, Relay!Handle(c) \/ Relay!Disconnect(c)
    PROVE  /\ pc[c] # "new" /\ hash' = hash
           /\ \A d \in Chat : d # c => pc'[d] = pc[d]
           /\ store' = store \/ \E response : store' = Relay!Signed(c, c, response)
  <1>1. pc \in [Chat -> Relay!PC] /\ chatId[c] \in {c, NoId}
    BY DEF Relay!PInv, Relay!TypeOK, Relay!HashCoversAnswer
  <1>2. CASE Relay!EndStream(c)
    BY <1>1, <1>2 DEF Relay!EndStream, Relay!Raise
  <1>3. ASSUME NEW body \in Relay!WholeBody, Relay!PostAnswered(c, body)
        PROVE  /\ pc[c] # "new" /\ hash' = hash
               /\ \A d \in Chat : d # c => pc'[d] = pc[d]
               /\ store' = store \/ store' = Relay!Signed(c, c, <<body>>)
    BY <1>1, <1>3 DEF Relay!PostAnswered
  <1>4. ASSUME NEW chunk \in Relay!StreamChunk, Relay!Receive(c, chunk)
        PROVE  /\ pc[c] # "new" /\ hash' = hash /\ store' = store
               /\ \A d \in Chat : d # c => pc'[d] = pc[d]
    BY <1>1, <1>4 DEF Relay!Receive, Relay!Raise
  <1>5. CASE \/ Relay!SendRaises(c) \/ Relay!PassError(c) \/ Relay!StartStream(c)
             \/ Relay!Deliver(c) \/ Relay!BreakStream(c) \/ Relay!Eof(c) \/ Relay!Close(c)
             \/ Relay!PostFails(c) \/ Relay!Respond(c) \/ Relay!Disconnect(c)
    BY <1>1, <1>5 DEF Relay!SendRaises, Relay!PassError, Relay!StartStream, Relay!Deliver,
           Relay!BreakStream, Relay!Raise, Relay!Eof, Relay!Close, Relay!PostFails,
           Relay!Respond, Relay!Disconnect
  <1> QED  BY <1>2, <1>3, <1>4, <1>5 DEF Relay!Handle

\* A server that dies breaks its handlers off, as an exception would.
LEMMA DeathKeepsProxy ==
    ASSUME Relay!PInv, NEW s \in Server, ServerDies(s)
    PROVE  Relay!PInv'
  <1> DEFINE hit == {c \in Chat : at[c] = s /\ pc[c] \notin {"new", "done", "raised"}}
  <1>1. /\ pc' = [c \in Chat |-> IF c \in hit THEN "raised" ELSE pc[c]]
        /\ client' = [c \in Chat |-> IF c \in hit THEN "closed" ELSE client[c]]
        /\ answer' = [c \in Chat |-> CASE c \in hit /\ answer[c] = "none" -> "error"
                                       [] c \in hit /\ answer[c] = "partial" -> "cut"
                                       [] OTHER -> answer[c]]
        /\ UNCHANGED <<hash, chatId, hashed, feed, upstream, delivered, store>>
    BY DEF ServerDies
  <1>2. Relay!TypeOK
    BY DEF Relay!PInv
  <1>3. \A c \in Chat : /\ pc'[c] \in {pc[c], "raised"}
                        /\ pc[c] \in {"new", "done"} => pc'[c] = pc[c]
                        /\ client'[c] \in {client[c], "closed"}
                        /\ answer'[c] = answer[c] \/ (answer'[c] \in {"error", "cut"} /\ pc'[c] = "raised")
    BY <1>1
  <1> HIDE DEF hit
  <1>4. Relay!TypeOK'
    <2>1. pc' \in [Chat -> Relay!PC]
      BY <1>1, <1>2 DEF Relay!TypeOK, Relay!PC
    <2>2. client' \in [Chat -> {"none", "open", "closed"}]
      BY <1>1, <1>2 DEF Relay!TypeOK
    <2>3. answer' \in [Chat -> Relay!Answer]
      BY <1>1, <1>2 DEF Relay!TypeOK, Relay!Answer
    <2> QED  BY <1>1, <1>2, <2>1, <2>2, <2>3 DEF Relay!TypeOK, Relay!Entry
  <1>5. Relay!AnswerFollowsHandler'
    BY <1>1, <1>3 DEF Relay!PInv, Relay!AnswerFollowsHandler
  <1>6. Relay!HashCoversAnswer'
    BY <1>1, <1>3 DEF Relay!PInv, Relay!HashCoversAnswer
  <1>7. Relay!SignedIsWhole'
    BY <1>1 DEF Relay!PInv, Relay!SignedIsWhole
  <1>8. Relay!SignedBeforeTheEnd'
    BY <1>1, <1>3 DEF Relay!PInv, Relay!SignedBeforeTheEnd, Relay!HasSignature
  <1> QED  BY <1>4, <1>5, <1>6, <1>7, <1>8 DEF Relay!PInv

(***************************************************************************)
(* The steps of the service                                                *)
(***************************************************************************)
\* What a step is to the proxies: one of theirs, a death, or none at all.
LEMMA StepOfProxy ==
    ASSUME [ServiceNext]_serviceVars
    PROVE  [Relay!Next]_Relay!vars \/ \E s \in Server : ServerDies(s)
  <1>1. ASSUME NEW c \in Chat, Relays(c) \/ \E s \in Server : Arrives(c, s)
        PROVE  Relay!Next
    <2>1. \/ Relay!Handle(c) \/ Relay!Disconnect(c)
          \/ Relay!Accept(c) \/ Relay!Reject(c)
      BY <1>1, SameHandlers DEF Relays, Arrives
    <2> QED  BY <2>1 DEF Relay!Next
  <1>2. UNCHANGED proxyVars => UNCHANGED Relay!vars
    BY DEF proxyVars, Relay!vars
  <1>3. ASSUME NEW v \in Verifier, WalksThrough(v) \/ Verifies(v) PROVE UNCHANGED proxyVars
    BY <1>3 DEF WalksThrough, Verifies
  <1>4. ASSUME NEW v \in Verifier, NEW s \in Server, NEW c \in Chat,
               NEW outcome \in CallOutcome, Fetches(v, s, c, outcome)
        PROVE  UNCHANGED proxyVars
    BY <1>4 DEF Fetches
  <1>5. UNCHANGED serviceVars => UNCHANGED proxyVars
    BY DEF serviceVars
  <1> QED  BY <1>1, <1>2, <1>3, <1>4, <1>5 DEF ServiceNext

LEMMA ProxyPart ==
    ASSUME SInv, [ServiceNext]_serviceVars
    PROVE  Relay!PInv'
  <1>1. Relay!PInv
    BY DEF SInv
  <1>2. ASSUME NEW s \in Server, ServerDies(s) PROVE Relay!PInv'
    BY <1>1, <1>2, DeathKeepsProxy
  <1> QED  BY <1>1, <1>2, StepOfProxy, ProxyStep

\* What a step is to servers and verifiers: one of theirs, or none at all.
LEMMA VerifierPart ==
    ASSUME SInv, [ServiceNext]_serviceVars
    PROVE  [VNext]_allVars
  <1>1. ASSUME NEW c \in Chat, Relays(c) PROVE [VNext]_allVars
    <2>1. at[c] \in Server
      BY <1>1, SameHandlers, HandlerFrame DEF Relays, SInv, Located
    <2> QED  BY <1>1, <2>1 DEF Relays, VNext
  <1>2. ASSUME NEW c \in Chat, NEW s \in Server, Arrives(c, s) PROVE [VNext]_allVars
    BY <1>2 DEF Arrives
  <1>3. ASSUME NEW s \in Server, ServerDies(s) PROVE [VNext]_allVars
    BY <1>3 DEF ServerDies, VNext
  <1>4. ASSUME NEW v \in Verifier, NEW s \in Server, NEW c \in Chat,
               NEW outcome \in CallOutcome, Fetches(v, s, c, outcome)
        PROVE  [VNext]_allVars
    BY <1>4 DEF Fetches, VNext
  <1>5. ASSUME NEW v \in Verifier, WalksThrough(v) \/ Verifies(v) PROVE [VNext]_allVars
    BY <1>5 DEF WalksThrough, Verifies, VNext
  <1>6. CASE UNCHANGED serviceVars
    BY <1>6 DEF serviceVars
  <1>7. CASE CacheEnvironment
    BY <1>7 DEF VNext
  <1> QED  BY <1>1, <1>2, <1>3, <1>4, <1>5, <1>6, <1>7 DEF ServiceNext

\* A signed chat stays signed by the same key, and with a signature found
\* comes a signed chat.
LEMMA WantedStep ==
    ASSUME IInv, VInv, WantedIsSigned, [VNext]_allVars
    PROVE  WantedIsSigned'
  <1>1. VTypeOK /\ TypeOK
    BY DEF IInv, VInv
  <1>2. CASE \/ \E s \in Server, c \in Chat, outcome \in CallOutcome : Sign(s, c, outcome)
             \/ \E s \in Server : RestartServer(s)
             \/ CacheEnvironment
             \/ UNCHANGED allVars
    <2>1. UNCHANGED <<stage, wanted>>
      BY <1>2 DEF Sign, RestartServer, CacheEnvironment, allVars, verifierVars
    <2>2. ASSUME NEW c \in Chat, Signed(c) PROVE Signed(c)' /\ key'[c] = key[c]
      <3>1. CASE \E s \in Server, d \in Chat, outcome \in CallOutcome : Sign(s, d, outcome)
        BY <1>1, <2>2, <3>1 DEF Sign, SetChat, Signed, TypeOK, VTypeOK
      <3>2. CASE (\E s \in Server : RestartServer(s)) \/ CacheEnvironment \/ UNCHANGED allVars
        BY <2>2, <3>2 DEF RestartServer, Restart, CacheEnvironment, Tick, RedisBecomes, RedisDrops,
               RedisCatchesUp, history, serverVars, allVars, vars, Signed
      <3> QED  BY <1>2, <3>1, <3>2
    <2> QED  BY <2>1, <2>2 DEF WantedIsSigned
  <1>3. ASSUME NEW v \in Verifier, NEW s \in Server, NEW c \in Chat,
               NEW outcome \in CallOutcome, FetchSignature(v, s, c, outcome)
        PROVE  WantedIsSigned'
    <2>1. UNCHANGED <<key, signer>>
      BY <1>3 DEF FetchSignature, GetChat, serverVars
    <2>2. /\ \A w \in Verifier : w # v => wanted'[w] = wanted[w] /\ stage'[w] = stage[w]
          /\ \/ stage'[v] = "missing"
             \/ /\ Found(s, c, outcome)
                /\ \E a : wanted'[v] = <<key[c][1], key[c][2], a>>
      BY <1>1, <1>3 DEF FetchSignature, VTypeOK
    <2>3. Found(s, c, outcome) => Signed(c)
      <3>1. Found(s, c, outcome) => shared[c] > 0 \/ local[s][c] > 0
        BY DEF Found, FoundInRedis, LocalHit
      <3> QED  BY <3>1, ServerAssumption DEF IInv, CopiesFromSigning, Signed
    <2> SUFFICES ASSUME NEW w \in Verifier,
                        \/ stage'[w] = "accepted"
                        \/ stage'[w] \in {"signed", "asking"} /\ wanted'[w] # NoAddress
                 PROVE  \E d \in Chat : /\ Signed(d)'
                                        /\ key'[d] = <<wanted'[w][1], wanted'[w][2]>>
      BY DEF WantedIsSigned, NoAddress
    <2>4. CASE w = v
      <3>1. key[c] = <<key[c][1], key[c][2]>>
        BY <1>1 DEF VTypeOK
      <3> QED  BY <2>1, <2>2, <2>3, <2>4, <3>1 DEF Signed
    <2>5. CASE w # v
      BY <2>1, <2>2, <2>5 DEF WantedIsSigned, Signed
    <2> QED  BY <2>4, <2>5
  <1>4. ASSUME NEW v \in Verifier, AskAnyAttestation(v) \/ AskAttestation(v)
        PROVE  WantedIsSigned'
    <2>1. UNCHANGED <<key, signer, wanted>> /\ stage[v] \in {"idle", "signed"}
          /\ \A w \in Verifier : stage'[w] = IF w = v THEN "asking" ELSE stage[w]
      BY <1>1, <1>4 DEF AskAnyAttestation, AskAttestation, Ask, vars, serverVars, VTypeOK
    <2>2. stage[v] = "idle" => wanted[v] = NoAddress
      BY DEF VInv, ClientInv, WantedIsMade
    <2> QED  BY <2>1, <2>2 DEF WantedIsSigned, Signed
  <1>5. ASSUME NEW v \in Verifier, NEW s \in Server, AttestAt(v, s)
        PROVE  WantedIsSigned'
    BY <1>5 DEF AttestAt, vars, serverVars, WantedIsSigned, Signed
  <1>6. ASSUME NEW v \in Verifier, Decide(v)
        PROVE  WantedIsSigned'
    <2>1. UNCHANGED <<key, signer>> /\ stage[v] = "asking"
      BY <1>6 DEF Decide, vars, serverVars
    <2>2. /\ \A w \in Verifier : w # v => wanted'[w] = wanted[w] /\ stage'[w] = stage[w]
          /\ stage'[v] = "accepted" => wanted[v] # NoAddress /\ wanted'[v] = wanted[v]
          /\ stage'[v] \notin {"signed", "asking"}
      BY <1>1, <1>6 DEF Decide, Matching, Verdict, VTypeOK
    <2> QED  BY <2>1, <2>2 DEF WantedIsSigned, Signed
  <1> QED  BY <1>2, <1>3, <1>4, <1>5, <1>6 DEF VNext, Verify

\* Requests stay at their server, and signatures go to its cache.
LEMMA RelayStep ==
    ASSUME SInv, NEW c \in Chat, Relays(c)
    PROVE  Located' /\ SignedAsStored'
  <1>1. /\ TypeOK /\ Relay!TypeOK /\ Located /\ SignedAsStored
        /\ at[c] \in Server /\ at' = at
    BY SameHandlers, HandlerFrame DEF SInv, IInv, Relay!PInv, Relays, Located
  <1>2. /\ pc[c] # "new" /\ hash' = hash
        /\ \A d \in Chat : d # c => pc'[d] = pc[d]
        /\ store' = store \/ \E response : store' = Relay!Signed(c, c, response)
    BY SameHandlers, HandlerFrame DEF SInv, Relays
  <1>3. Located'
    BY <1>1, <1>2 DEF Located
  <1>4. CASE store' = store
    <2>1. UNCHANGED signer
      BY <1>4 DEF Relays, allVars, vars
    <2> QED  BY <1>1, <1>2, <1>3, <1>4, <2>1 DEF SignedAsStored, Signed, Relay!HasSignature
  <1>5. CASE store' # store
    <2>1. PICK response : store' = {e \in store : e.id # c}
                 \cup {[id |-> c, hash |-> hash[c], response |-> response]}
      BY <1>2, <1>5 DEF Relay!Signed
    <2>2. signer' = [signer EXCEPT ![c] = at[c]]
      BY <1>5 DEF Relays, Sign, SetChat
    <2>3. Signed(c)' /\ signer'[c] = at'[c]
      BY <1>1, <2>2, ServerAssumption DEF Signed, TypeOK
    <2>4. Relay!HasSignature(c)'
      <3> DEFINE new == [id |-> c, hash |-> hash[c], response |-> response]
      <3>1. new \in store' /\ new.id = c /\ new.hash = hash'[c]
        BY <1>2, <2>1
      <3> HIDE DEF new
      <3> QED  BY <3>1 DEF Relay!HasSignature
    <2>5. \A d \in Chat : d # c =>
              /\ signer'[d] = signer[d]
              /\ Relay!HasSignature(d)' <=> Relay!HasSignature(d)
      BY <1>1, <1>2, <2>1, <2>2 DEF TypeOK, Relay!HasSignature
    <2> QED  BY <1>1, <1>3, <2>3, <2>4, <2>5 DEF SignedAsStored, Signed
  <1> QED  BY <1>3, <1>4, <1>5

LEMMA ArriveStep ==
    ASSUME SInv, NEW c \in Chat, NEW s \in Server, Arrives(c, s)
    PROVE  Located' /\ SignedAsStored'
  <1>1. /\ TypeOK /\ Relay!TypeOK /\ Located /\ SignedAsStored /\ Relay!SignedIsWhole
        /\ Relay!AnswerFollowsHandler
    BY DEF SInv, IInv, Relay!PInv
  <1>2. /\ pc[c] = "new" /\ at' = [at EXCEPT ![c] = s] /\ UNCHANGED <<store, signer>>
        /\ \A d \in Chat : d # c => pc'[d] = pc[d] /\ hash'[d] = hash[d]
    BY <1>1 DEF Arrives, Proxy!Accept, Proxy!Reject, allVars, vars, Relay!TypeOK
  <1>3. Located'
    BY <1>1, <1>2 DEF Located
  <1>4. \A e \in store : e.id # c
    <2>1. feed[c] # "ended"
      BY <1>1, <1>2 DEF Relay!AnswerFollowsHandler
    <2> QED  BY <1>1, <2>1 DEF Relay!SignedIsWhole
  <1>5. ~Relay!HasSignature(c)' /\ ~Relay!HasSignature(c)
    BY <1>2, <1>4 DEF Relay!HasSignature
  <1>6. \A d \in Chat : d # c => /\ Relay!HasSignature(d)' <=> Relay!HasSignature(d)
                                 /\ at'[d] = at[d]
    BY <1>1, <1>2 DEF Relay!HasSignature, Located
  <1> QED  BY <1>1, <1>2, <1>3, <1>5, <1>6 DEF SignedAsStored, Signed

LEMMA StepSInv == SInv /\ [ServiceNext]_serviceVars => SInv'
  <1> SUFFICES ASSUME SInv, [ServiceNext]_serviceVars PROVE SInv'
    OBVIOUS
  <1>1. [VNext]_allVars /\ IInv /\ VInv /\ WantedIsSigned
    BY VerifierPart DEF SInv
  <1>2. IInv' /\ VInv' /\ WantedIsSigned'
    BY <1>1, CacheStep, StepIInv, StepVInv, WantedStep
  <1>3. Relay!PInv'
    BY ProxyPart
  <1>4. Located' /\ SignedAsStored'
    <2>1. ASSUME NEW c \in Chat, Relays(c) PROVE Located' /\ SignedAsStored'
      BY <2>1, RelayStep
    <2>2. ASSUME NEW c \in Chat, NEW s \in Server, Arrives(c, s)
          PROVE  Located' /\ SignedAsStored'
      BY <2>2, ArriveStep
    <2>3. ASSUME UNCHANGED <<at, hash, store, signer>>,
                 \A c \in Chat : pc[c] = "new" => pc'[c] = "new"
          PROVE  Located' /\ SignedAsStored'
      <3>1. Located'
        BY <2>3 DEF SInv, Located
      <3>2. \A c \in Chat : /\ Relay!HasSignature(c)' <=> Relay!HasSignature(c)
                            /\ Signed(c)' <=> Signed(c)
        BY <2>3 DEF Signed, Relay!HasSignature
      <3>3. SignedAsStored'
        BY <2>3, <3>2 DEF SInv, SignedAsStored
      <3> QED  BY <3>1, <3>3
    <2>4. ASSUME NEW s \in Server, ServerDies(s) PROVE Located' /\ SignedAsStored'
      <3>1. UNCHANGED <<at, hash, store, signer>>
        BY <2>4 DEF ServerDies, RestartServer, Restart
      <3>2. \A c \in Chat : pc[c] = "new" => pc'[c] = "new"
        BY <2>4 DEF ServerDies
      <3> QED  BY <2>3, <3>1, <3>2
    <2>5. ASSUME UNCHANGED proxyVars, UNCHANGED signer PROVE Located' /\ SignedAsStored'
      BY <2>3, <2>5 DEF proxyVars
    <2>6. CASE CacheEnvironment /\ UNCHANGED proxyVars
      BY <2>5, <2>6 DEF CacheEnvironment, Tick, RedisBecomes, RedisDrops, RedisCatchesUp, history
    <2>7. ASSUME NEW v \in Verifier, NEW s \in Server, NEW c \in Chat,
                 NEW outcome \in CallOutcome, Fetches(v, s, c, outcome)
          PROVE  Located' /\ SignedAsStored'
      BY <2>5, <2>7 DEF Fetches, FetchSignature, GetChat
    <2>8. ASSUME NEW v \in Verifier, WalksThrough(v) \/ Verifies(v)
          PROVE  Located' /\ SignedAsStored'
      <3>1. UNCHANGED vars
        BY <2>8 DEF WalksThrough, Verifies, AskAnyAttestation, Verify, AskAttestation, Ask,
                    AttestAt, Decide
      <3>2. UNCHANGED proxyVars /\ UNCHANGED signer
        BY <2>8, <3>1 DEF WalksThrough, Verifies, vars
      <3> QED  BY <2>5, <3>2
    <2>9. CASE UNCHANGED serviceVars
      BY <2>5, <2>9 DEF serviceVars, allVars, vars
    <2> QED  BY <2>1, <2>2, <2>4, <2>6, <2>7, <2>8, <2>9 DEF ServiceNext
  <1> QED  BY <1>2, <1>3, <1>4 DEF SInv

(***************************************************************************)
(* What was relayed to the callers, through deaths of servers.             *)
(***************************************************************************)
\* What was relayed of an answer that is cut off is not asked about any more.
LEMMA DeathKeepsRelayed ==
    ASSUME Relay!PInv, Relay!RInv, NEW s \in Server, ServerDies(s)
    PROVE  Relay!RInv'
  <1> DEFINE hit == {c \in Chat : at[c] = s /\ pc[c] \notin {"new", "done", "raised"}}
  <1>1. /\ pc' = [c \in Chat |-> IF c \in hit THEN "raised" ELSE pc[c]]
        /\ answer' = [c \in Chat |-> CASE c \in hit /\ answer[c] = "none" -> "error"
                                       [] c \in hit /\ answer[c] = "partial" -> "cut"
                                       [] OTHER -> answer[c]]
        /\ UNCHANGED <<chatId, upstream, delivered>>
    BY DEF ServerDies
  <1> HIDE DEF hit
  <1>2. \A c \in Chat : /\ pc'[c] \in {pc[c], "raised"}
                        /\ answer'[c] = "complete" => answer[c] = "complete"
    BY <1>1
  <1> SUFFICES ASSUME NEW c \in Chat PROVE Relay!Relayed(c)'
    BY DEF Relay!RInv
  <1>3. Relay!Relayed(c)
    BY DEF Relay!RInv
  <1> QED  BY <1>1, <1>2, <1>3 DEF Relay!Relayed, Relay!WellFormed

LEMMA RelayedPart ==
    ASSUME SInv, Relay!RInv, [ServiceNext]_serviceVars
    PROVE  Relay!RInv'
  <1>1. ASSUME [Relay!Next]_Relay!vars PROVE Relay!RInv'
    <2>1. Relay!PInv /\ Relay!RInv /\ [Relay!Next]_Relay!vars => Relay!RInv'
      BY NoIdAssumption, MaxChunksAssumption, Relay!StepRInv
    <2> QED  BY <1>1, <2>1 DEF SInv
  <1>2. ASSUME NEW s \in Server, ServerDies(s) PROVE Relay!RInv'
    BY <1>2, DeathKeepsRelayed DEF SInv
  <1> QED  BY <1>1, <1>2, StepOfProxy

LEMMA InitRelayed == ServiceInit => Relay!RInv
  BY DEF ServiceInit, Proxy!Init, Relay!RInv, Relay!Relayed, Relay!WellFormed

(***************************************************************************)
(* The theorems.                                                           *)
(***************************************************************************)
\* The invariants of cache, proxy and verifier hold together.
THEOREM ServiceInvariance == ServiceSpec => []SInv
  BY InitSInv, StepSInv, PTL DEF ServiceSpec

\* Seen from the verifiers, the whole service behaves as SignatureVerifier
\* says: every theorem about its signatures and keys holds here.
THEOREM ServiceImplementsVerifier == ServiceSpec => VSpec
  <1>1. ServiceInit => VInit
    BY DEF ServiceInit
  <1>2. SInv /\ [ServiceNext]_serviceVars => [VNext]_allVars
    BY VerifierPart
  <1> QED  BY <1>1, <1>2, ServiceInvariance, PTL DEF ServiceSpec, VSpec

\* A caller of stream_vllm_response or non_stream_vllm_response that saw its
\* answer end finds the signature at that server, whatever becomes of Redis.
THEOREM CompleteAnswersServed == ServiceSpec => []CompleteIsServed
  <1>1. SInv => CompleteIsServed
    <2> SUFFICES ASSUME SInv, NEW c \in Chat, NEW outcome \in CallOutcomes(at[c]),
                        answer[c] = "complete", ~Found(at[c], c, outcome),
                        c \notin orphaned, age[c] # TTL
                 PROVE  Cardinality(others[c]) >= MaxSize
      BY DEF CompleteIsServed
    <2>1. Signed(c) /\ signer[c] = at[c]
      BY DEF SInv, Relay!PInv, Relay!SignedBeforeTheEnd, SignedAsStored
    <2>2. age[c] < TTL
      <3>1. age[c] \in 0..TTL
        BY DEF SInv, IInv, TypeOK
      <3> QED  BY <3>1, LimitAssumption
    <2>3. ~LocalHit(signer[c], c)
      BY <2>1 DEF Found
    <2>4. ~(Cardinality(others[c]) < MaxSize)
      BY <2>1, <2>2, <2>3 DEF SInv, IInv, OwnSignatureServed, OwnCopyDue
    <2>5. Cardinality(others[c]) \in Nat
      <3>1. others[c] \subseteq Chat
        BY DEF SInv, IInv, TypeOK
      <3> QED  BY <3>1, ChatAssumption, FS_Subset, FS_CardinalityType
    <2> QED  BY <2>4, <2>5, LimitAssumption
  <1> QED  BY <1>1, ServiceInvariance, PTL

\* What check_attestation accepts signed a whole answer of vLLM, paired with
\* the hash of its request, and the key's server is the one that relayed it.
THEOREM AcceptedAnswers == ServiceSpec => []AcceptedAnswerIsWhole
  <1>1. SInv => AcceptedAnswerIsWhole
    <2> SUFFICES ASSUME SInv, NEW v \in Verifier, stage[v] = "accepted"
                 PROVE  \E c \in Chat :
                            /\ key[c] = <<wanted[v][1], wanted[v][2]>>
                            /\ at[c] = wanted[v][1]
                            /\ feed[c] = "ended"
                            /\ [id |-> c, hash |-> hash[c], response |-> upstream[c]] \in store
      BY DEF AcceptedAnswerIsWhole
    <2>1. PICK c \in Chat : Signed(c) /\ key[c] = <<wanted[v][1], wanted[v][2]>>
      BY DEF SInv, WantedIsSigned
    <2>2. at[c] = wanted[v][1]
      BY <2>1 DEF SInv, SignedAsStored, VInv, KeysAreSigners
    <2>3. PICK e \in store : e.id = c
      BY <2>1 DEF SInv, SignedAsStored, Relay!HasSignature
    <2>4. e = [id |-> c, hash |-> hash[c], response |-> upstream[c]] /\ feed[c] = "ended"
      <3>1. e \in Relay!Entry
        BY DEF SInv, Relay!PInv, Relay!TypeOK
      <3>2. /\ feed[c] = "ended" /\ e.response = upstream[c] /\ e.hash = hash[c]
        BY <2>3 DEF SInv, Relay!PInv, Relay!SignedIsWhole
      <3> QED  BY <2>3, <3>1, <3>2 DEF Relay!Entry
    <2> QED  BY <2>1, <2>2, <2>3, <2>4
  <1> QED  BY <1>1, ServiceInvariance, PTL

\* Whatever server hands out the signature of a well-formed answer that ended,
\* it is over the request and the chunks its caller has, by the server it had
\* the answer from: the composition of stream_vllm_response and ChatCache keeps
\* what each of them promises.
THEOREM SignaturesFit == ServiceSpec => []SignatureFits
  <1>1. SInv /\ Relay!RInv => SignatureFits
    <2> SUFFICES ASSUME SInv, Relay!RInv, NEW c \in Chat, answer[c] = "complete",
                        Proxy!WellFormed(c)
                 PROVE  /\ [id |-> c, hash |-> hash[c], response |-> delivered[c]] \in store
                        /\ \A e \in store : e.id = c => e.response = delivered[c]
                        /\ key[c][1] = at[c] /\ key[c][2] <= era[at[c]]
      BY DEF SignatureFits
    <2>1. delivered[c] = upstream[c]
      BY DEF Proxy!WellFormed, Relay!WellFormed, Relay!RInv, Relay!Relayed
    <2>2. \A e \in store : e.id = c => e.hash = hash[c] /\ e.response = delivered[c]
      BY <2>1 DEF SInv, Relay!PInv, Relay!SignedIsWhole
    <2>3. Relay!HasSignature(c)
      BY DEF SInv, Relay!PInv, Relay!SignedBeforeTheEnd
    <2>4. [id |-> c, hash |-> hash[c], response |-> delivered[c]] \in store
      <3>1. PICK e \in store : e.id = c
        BY <2>3 DEF Relay!HasSignature
      <3>2. e = [id |-> e.id, hash |-> e.hash, response |-> e.response]
        BY DEF SInv, Relay!PInv, Relay!TypeOK, Relay!Entry
      <3> QED  BY <2>2, <3>1, <3>2
    <2>5. key[c][1] = at[c] /\ key[c][2] <= era[at[c]]
      BY <2>3 DEF SInv, SignedAsStored, VInv, KeysAreSigners
    <2> QED  BY <2>2, <2>4, <2>5
  <1>2. ServiceInit => Relay!RInv
    BY InitRelayed
  <1>3. SInv /\ Relay!RInv /\ [ServiceNext]_serviceVars => Relay!RInv'
    BY RelayedPart
  <1> QED  BY <1>1, <1>2, <1>3, ServiceInvariance, PTL DEF ServiceSpec

\* With proxies that sign, servers that die with their streams and clients
\* that fetch and verify, the cache's two layers are still one store: a
\* signature is held from set_chat on, is never made twice and never comes
\* back.
THEOREM ServiceImplementsStore == ServiceSpec => ImplementsStore
  BY ServiceImplementsVerifier, VerifierImplementsCache, StoreRefinement

\* What signature_verifier.py accepts in the composed service is a key that
\* was in use after its nonce was drawn, and what it does not find has a
\* reason.
THEOREM ServiceKeys ==
    ServiceSpec => [](VTypeOK /\ AcceptedKeyWasInUse /\ UnmatchedIsExplained)
  BY ServiceImplementsVerifier, VerifierTypeCorrectness, AcceptedKeys, UnmatchedReasons, PTL

============================================================================

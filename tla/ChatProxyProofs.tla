-------------------------- MODULE ChatProxyProofs --------------------------
(***************************************************************************)
(* Theorems about ChatProxy for every number of requests and every length  *)
(* of a streamed answer.                                                   *)
(***************************************************************************)
EXTENDS ChatProxy, TLAPS

(***************************************************************************)
(* The inductive invariant                                                 *)
(***************************************************************************)
\* Where a handler is while its answer has not begun, or is under way.
AnswerFollowsHandler ==
    \A r \in Request :
        /\ pc[r] \in {"new", "sending", "posting"} =>
               feed[r] = "none" /\ answer[r] = "none" /\ chatId[r] = NoId
        /\ pc[r] \in {"new", "sending", "posting"} =>
               upstream[r] = <<>> /\ delivered[r] = <<>> /\ hashed[r] = <<>>
        /\ pc[r] \in {"reading", "yielding"} => feed[r] = "open"
        /\ answer[r] = "complete" => pc[r] \in {"closing", "done", "raised"}

\* The digest covers exactly what vLLM has sent, and the id is its own.
HashCoversAnswer ==
    \A r \in Request :
        /\ pc[r] \in {"reading", "yielding"} => hashed[r] = upstream[r]
        /\ pc[r] = "yielding" => upstream[r] # <<>>
        /\ pc[r] \in {"sending", "posting", "reading", "yielding"} =>
               hash[r] \in {"header", "body"} \X Request
        /\ chatId[r] \in {r, NoId}

HasSignature(r) == \E e \in store : e.id = r /\ hash[r] = e.hash

\* A handler that is past the end of its answer has left its signature.
SignedBeforeTheEnd ==
    \A r \in Request :
        pc[r] \in {"ending", "responding"} \/ answer[r] = "complete" => HasSignature(r)

PInv == /\ TypeOK
        /\ AnswerFollowsHandler
        /\ HashCoversAnswer
        /\ SignedIsWhole
        /\ SignedBeforeTheEnd

LEMMA InitPInv == Init => PInv
  <1> SUFFICES ASSUME Init PROVE PInv
    OBVIOUS
  <1>1. TypeOK
    BY DEF Init, TypeOK, PC, Answer
  <1>2. AnswerFollowsHandler /\ HashCoversAnswer
    BY DEF Init, AnswerFollowsHandler, HashCoversAnswer
  <1>3. SignedIsWhole /\ SignedBeforeTheEnd
    BY DEF Init, SignedIsWhole, SignedBeforeTheEnd
  <1> QED  BY <1>1, <1>2, <1>3 DEF PInv

(***************************************************************************)
(* cache.set_chat                                                          *)
(***************************************************************************)
\* A request that signs its answer under its own id leaves every other
\* signature alone and has one itself.
LEMMA SigningIsOwn ==
    ASSUME TypeOK, NEW r \in Request, NEW response \in Seq(Chunk),
           hash[r] \in {"header", "body"} \X Request
    PROVE  /\ Signed(r, r, response) \subseteq Entry
           /\ \A e \in Signed(r, r, response) :
                  \/ e \in store /\ e.id # r
                  \/ e.id = r /\ e.hash = hash[r] /\ e.response = response
           /\ \E e \in Signed(r, r, response) : e.id = r /\ hash[r] = e.hash
           /\ \A e \in store : e.id # r => e \in Signed(r, r, response)
  <1> DEFINE new == [id |-> r, hash |-> hash[r], response |-> response]
  <1>1. new \in Entry
    BY DEF Entry
  <1>2. new \in Signed(r, r, response) /\ new.id = r /\ new.hash = hash[r]
    BY DEF Signed
  <1>3. Signed(r, r, response) = {e \in store : e.id # r} \cup {new}
    BY DEF Signed
  <1>4. Signed(r, r, response) \subseteq Entry
    BY <1>1, <1>3 DEF TypeOK
  <1>5. \A e \in Signed(r, r, response) :
            \/ e \in store /\ e.id # r
            \/ e.id = r /\ e.hash = hash[r] /\ e.response = response
    BY <1>3
  <1>6. \A e \in store : e.id # r => e \in Signed(r, r, response)
    BY <1>3
  <1> HIDE DEF new
  <1>7. \E e \in Signed(r, r, response) : e.id = r /\ hash[r] = e.hash
    BY <1>2
  <1> QED  BY <1>4, <1>5, <1>6, <1>7

(***************************************************************************)
(* Steps that leave the signatures alone                                   *)
(***************************************************************************)
\* What a step of r that signs nothing must keep for the two properties.
LEMMA UnsignedStep ==
    ASSUME PInv, NEW r \in Request, UNCHANGED store,
           \A q \in Request \ {r} :
               /\ pc'[q] = pc[q] /\ answer'[q] = answer[q] /\ hash'[q] = hash[q]
               /\ feed'[q] = feed[q] /\ upstream'[q] = upstream[q],
           feed[r] = "ended" => /\ feed'[r] = feed[r] /\ upstream'[r] = upstream[r]
                                /\ hash'[r] = hash[r],
           pc'[r] \in {"ending", "responding"} \/ answer'[r] = "complete" =>
               /\ pc[r] \in {"ending", "responding"} \/ answer[r] = "complete"
               /\ hash'[r] = hash[r]
    PROVE  SignedIsWhole' /\ SignedBeforeTheEnd'
  <1>1. SignedIsWhole'
    <2> SUFFICES ASSUME NEW e \in store
                 PROVE  /\ feed'[e.id] = "ended"
                        /\ e.response = upstream'[e.id]
                        /\ e.hash = hash'[e.id]
      BY DEF SignedIsWhole
    <2>1. e.id \in Request
      BY DEF PInv, TypeOK, Entry
    <2> QED  BY <2>1 DEF PInv, SignedIsWhole
  <1>2. SignedBeforeTheEnd'
    <2> SUFFICES ASSUME NEW q \in Request,
                        pc'[q] \in {"ending", "responding"} \/ answer'[q] = "complete"
                 PROVE  \E e \in store : e.id = q /\ hash'[q] = e.hash
      BY DEF SignedBeforeTheEnd, HasSignature
    <2>1. HasSignature(q) /\ hash'[q] = hash[q]
      BY DEF PInv, SignedBeforeTheEnd
    <2> QED  BY <2>1 DEF HasSignature
  <1> QED  BY <1>1, <1>2

\* The first steps of a request, and its failures before an answer.
LEMMA OpeningSteps ==
    ASSUME PInv, NEW r \in Request,
           Accept(r) \/ Reject(r) \/ SendRaises(r) \/ PassError(r) \/ StartStream(r)
               \/ PostFails(r)
    PROVE  PInv'
  <1> USE DEF PInv, TypeOK, AnswerFollowsHandler, HashCoversAnswer, PC, Answer
  <1>1. TypeOK'
    <2>1. CASE Accept(r)
      <3>1. PICK source \in {"header", "body"} : hash' = [hash EXCEPT ![r] = <<source, r>>]
        BY <2>1 DEF Accept
      <3>2. hash' \in [Request -> {"none", "header", "body"} \X Request]
        BY <3>1
      <3>3. pc' \in [Request -> PC] /\ client' \in [Request -> {"none", "open", "closed"}]
        BY <2>1 DEF Accept
      <3> QED  BY <2>1, <3>2, <3>3 DEF Accept
    <2>2. CASE Reject(r) \/ SendRaises(r)
      <3>1. /\ pc' = [pc EXCEPT ![r] = "raised"]
            /\ answer' = [answer EXCEPT ![r] = "error"]
            /\ UNCHANGED <<hash, chatId, hashed, client, feed, upstream, delivered, store>>
        BY <2>2 DEF Reject, SendRaises
      <3>2. pc' \in [Request -> PC]
        BY <3>1
      <3>3. answer' \in [Request -> Answer]
        BY <3>1
      <3> QED  BY <3>1, <3>2, <3>3
    <2>3. CASE PassError(r)
      BY <2>3 DEF PassError
    <2>4. CASE StartStream(r)
      BY <2>4 DEF StartStream
    <2>5. CASE PostFails(r)
      BY <2>5 DEF PostFails
    <2> QED  BY <2>1, <2>2, <2>3, <2>4, <2>5
  <1>2. AnswerFollowsHandler' /\ HashCoversAnswer'
    <2>1. CASE Accept(r)
      BY <2>1 DEF Accept
    <2>2. CASE Reject(r)
      BY <2>2 DEF Reject
    <2>3. CASE SendRaises(r)
      BY <2>3 DEF SendRaises
    <2>4. CASE PassError(r)
      BY <2>4 DEF PassError
    <2>5. CASE StartStream(r)
      BY <2>5 DEF StartStream
    <2>6. CASE PostFails(r)
      BY <2>6 DEF PostFails
    <2> QED  BY <2>1, <2>2, <2>3, <2>4, <2>5, <2>6
  <1>3. SignedIsWhole' /\ SignedBeforeTheEnd'
    <2>1. /\ UNCHANGED store
          /\ \A q \in Request \ {r} :
                 /\ pc'[q] = pc[q] /\ answer'[q] = answer[q] /\ hash'[q] = hash[q]
                 /\ feed'[q] = feed[q] /\ upstream'[q] = upstream[q]
      BY DEF Accept, Reject, SendRaises, PassError, StartStream, PostFails
    <2>2. feed[r] # "ended"
      BY DEF Accept, Reject, SendRaises, PassError,
             StartStream, PostFails
    <2>3. pc'[r] \notin {"ending", "responding"} /\ answer'[r] # "complete"
      BY DEF Accept, Reject, SendRaises, PassError,
             StartStream, PostFails
    <2> QED  BY <2>1, <2>2, <2>3, UnsignedStep
  <1> QED  BY <1>1, <1>2, <1>3

\* A chunk arrives.
LEMMA ReceiveStep ==
    ASSUME PInv, NEW r \in Request, NEW chunk \in StreamChunk, Receive(r, chunk)
    PROVE  PInv'
  <1>1. /\ Append(upstream[r], chunk) \in Seq(Chunk)
        /\ Append(hashed[r], chunk) \in Seq(Chunk)
        /\ Append(upstream[r], chunk) # <<>>
        /\ hashed[r] = upstream[r] /\ feed[r] = "open"
    <2>1. /\ pc[r] = "reading" /\ chunk \in Chunk
          /\ upstream[r] \in Seq(Chunk) /\ hashed[r] \in Seq(Chunk)
      BY DEF Receive, PInv, TypeOK, Chunk
    <2>2. hashed[r] = upstream[r] /\ feed[r] = "open"
      BY <2>1 DEF PInv, HashCoversAnswer, AnswerFollowsHandler
    <2> QED  BY <2>1, <2>2
  <1> DEFINE more == Append(upstream[r], chunk)
  <1>2. /\ upstream' = [upstream EXCEPT ![r] = more]
        /\ hashed' = [hashed EXCEPT ![r] = more]
        /\ pc' \in {pc, [pc EXCEPT ![r] = "raised"], [pc EXCEPT ![r] = "yielding"]}
        /\ pc[r] = "reading"
        /\ chatId' \in {chatId, [chatId EXCEPT ![r] = r]}
        /\ answer' \in {answer, [answer EXCEPT ![r] = "cut"]}
        /\ UNCHANGED <<hash, client, feed, delivered, store>>
    <2>1. /\ upstream' = [upstream EXCEPT ![r] = more]
          /\ hashed' = [hashed EXCEPT ![r] = more]
          /\ UNCHANGED <<hash, client, feed, delivered, store>>
          /\ pc[r] = "reading"
      BY <1>1 DEF Receive
    <2>2. CASE UNCHANGED <<pc, chatId, answer>>
      BY <2>1, <2>2
    <2>3. CASE Raise(r) /\ UNCHANGED chatId
      BY <2>1, <2>3 DEF Raise, PInv, TypeOK
    <2>4. CASE /\ chatId' \in {chatId, [chatId EXCEPT ![r] = r]}
               /\ pc' = [pc EXCEPT ![r] = "yielding"] /\ UNCHANGED answer
      BY <2>1, <2>4
    <2> QED  BY <2>2, <2>3, <2>4 DEF Receive
  <1>3. more \in Seq(Chunk) /\ more # <<>>
    BY <1>1
  <1> HIDE DEF more
  <1>4. TypeOK'
    <2>1. pc' \in [Request -> PC]
      <3>1. \A x \in PC : [pc EXCEPT ![r] = x] \in [Request -> PC]
        BY DEF PInv, TypeOK
      <3> QED  BY <1>2, <3>1 DEF PInv, TypeOK, PC
    <2>2. answer' \in [Request -> Answer]
      <3>1. \A x \in Answer : [answer EXCEPT ![r] = x] \in [Request -> Answer]
        BY DEF PInv, TypeOK
      <3> QED  BY <1>2, <3>1 DEF PInv, TypeOK, Answer
    <2>3. chatId' \in [Request -> Request \cup {NoId}]
      <3>1. [chatId EXCEPT ![r] = r] \in [Request -> Request \cup {NoId}]
        BY DEF PInv, TypeOK
      <3> QED  BY <1>2, <3>1 DEF PInv, TypeOK
    <2>4. upstream' \in [Request -> Seq(Chunk)] /\ hashed' \in [Request -> Seq(Chunk)]
      BY <1>2, <1>3 DEF PInv, TypeOK
    <2> QED  BY <1>2, <2>1, <2>2, <2>3, <2>4 DEF PInv, TypeOK
  <1>5. AnswerFollowsHandler' /\ HashCoversAnswer'
    <2>1. ASSUME NEW q \in Request, q # r
          PROVE  /\ pc'[q] = pc[q] /\ answer'[q] = answer[q] /\ chatId'[q] = chatId[q]
                 /\ feed'[q] = feed[q] /\ upstream'[q] = upstream[q]
                 /\ hashed'[q] = hashed[q] /\ delivered'[q] = delivered[q]
                 /\ hash'[q] = hash[q]
      BY <1>2, <2>1 DEF PInv, TypeOK
    <2>2. pc'[r] \in {"reading", "raised", "yielding"}
      BY <1>2 DEF PInv, TypeOK
    <2>3. answer[r] # "complete" /\ answer'[r] # "complete"
      BY <1>2 DEF PInv, TypeOK, AnswerFollowsHandler
    <2>4. chatId'[r] \in {r, NoId}
      BY <1>2 DEF PInv, TypeOK, HashCoversAnswer
    <2>5. /\ feed'[r] = "open" /\ hashed'[r] = more /\ upstream'[r] = more
          /\ hash'[r] \in {"header", "body"} \X Request
      BY <1>1, <1>2 DEF PInv, TypeOK, HashCoversAnswer
    <2>6. /\ pc'[r] \in {"reading", "raised", "yielding"} /\ feed'[r] = "open"
          /\ hashed'[r] = more /\ upstream'[r] = more /\ chatId'[r] \in {r, NoId}
          /\ answer'[r] # "complete" /\ hash'[r] \in {"header", "body"} \X Request
      BY <2>2, <2>3, <2>4, <2>5
    <2>7. AnswerFollowsHandler'
      BY <2>1, <2>6 DEF PInv, AnswerFollowsHandler
    <2>8. HashCoversAnswer'
      BY <1>3, <2>1, <2>6 DEF PInv, HashCoversAnswer
    <2> QED  BY <2>7, <2>8
  <1>6. SignedIsWhole' /\ SignedBeforeTheEnd'
    <2>1. /\ UNCHANGED store
          /\ \A q \in Request \ {r} :
                 /\ pc'[q] = pc[q] /\ answer'[q] = answer[q] /\ hash'[q] = hash[q]
                 /\ feed'[q] = feed[q] /\ upstream'[q] = upstream[q]
      BY <1>2 DEF PInv, TypeOK
    <2>2. pc'[r] \notin {"ending", "responding"}
      BY <1>2 DEF PInv, TypeOK
    <2>3. answer[r] # "complete"
      BY <1>2 DEF PInv, AnswerFollowsHandler
    <2>4. answer'[r] # "complete"
      BY <1>2, <2>3 DEF PInv, TypeOK
    <2> QED  BY <1>1, <2>1, <2>2, <2>4, UnsignedStep
  <1> QED  BY <1>4, <1>5, <1>6 DEF PInv

\* What is received is handed on; an answer breaks off or is over.
LEMMA RelayingSteps ==
    ASSUME PInv, NEW r \in Request,
           Deliver(r) \/ BreakStream(r) \/ Eof(r) \/ Disconnect(r) \/ Close(r)
               \/ Respond(r)
    PROVE  PInv'
  <1>1. pc[r] = "yielding" =>
            Append(delivered[r], upstream[r][Len(upstream[r])]) \in Seq(Chunk)
    BY DEF PInv, TypeOK, HashCoversAnswer
  <1>2. <<"id">> \in Seq(Chunk)
    BY DEF Chunk, StreamChunk
  <1>3. TypeOK'
    <2>1. CASE Deliver(r)
      BY <1>1, <2>1 DEF PInv, TypeOK, Deliver, PC
    <2>2. CASE Respond(r)
      BY <1>2, <2>2 DEF PInv, TypeOK, Respond, PC, Answer
    <2>3. CASE BreakStream(r)
      BY <2>3 DEF PInv, TypeOK, BreakStream, Raise, PC, Answer
    <2>4. CASE Eof(r) \/ Disconnect(r)
      BY <2>4 DEF PInv, TypeOK, Eof, Disconnect, PC, Answer
    <2>5. CASE Close(r)
      BY <2>5 DEF PInv, TypeOK, Close, PC
    <2> QED  BY <2>1, <2>2, <2>3, <2>4, <2>5
  <1>4. AnswerFollowsHandler'
    <2>1. CASE Deliver(r)
      BY <2>1 DEF PInv, TypeOK, AnswerFollowsHandler, Deliver
    <2>2. CASE Respond(r)
      BY <2>2 DEF PInv, TypeOK, AnswerFollowsHandler, Respond
    <2>3. CASE BreakStream(r)
      BY <2>3 DEF PInv, TypeOK, AnswerFollowsHandler, BreakStream, Raise
    <2>4. CASE Eof(r)
      BY <2>4 DEF PInv, TypeOK, AnswerFollowsHandler, Eof
    <2>5. CASE Disconnect(r)
      BY <2>5 DEF PInv, TypeOK, AnswerFollowsHandler, Disconnect
    <2>6. CASE Close(r)
      BY <2>6 DEF PInv, TypeOK, AnswerFollowsHandler, Close
    <2> QED  BY <2>1, <2>2, <2>3, <2>4, <2>5, <2>6
  <1>5. HashCoversAnswer'
    <2>1. UNCHANGED <<hash, chatId, hashed, upstream>>
      BY DEF Deliver, BreakStream, Eof, Disconnect, Close, Respond
    <2>3. \/ pc' = [pc EXCEPT ![r] = "reading"] /\ pc[r] = "yielding"
          \/ \E next \in {"raised", "closing", "done"} : pc' = [pc EXCEPT ![r] = next]
      BY Zenon DEF Deliver, BreakStream, Raise, Eof, Disconnect, Close, Respond
    <2>4. pc \in [Request -> PC]
      BY DEF PInv, TypeOK
    <2>2. \A q \in Request :
              \/ pc'[q] = pc[q]
              \/ pc'[q] \in {"raised", "closing", "done"}
              \/ pc[q] = "yielding" /\ pc'[q] = "reading"
      BY <2>3, <2>4
    <2> QED  BY <2>1, <2>2 DEF PInv, HashCoversAnswer
  <1>6. SignedIsWhole' /\ SignedBeforeTheEnd'
    <2>1. /\ UNCHANGED <<store, hash, upstream>>
          /\ \A q \in Request \ {r} :
                 pc'[q] = pc[q] /\ answer'[q] = answer[q] /\ feed'[q] = feed[q]
      BY DEF PInv, TypeOK, Deliver, BreakStream, Raise, Eof, Disconnect, Close, Respond
    <2>2. feed[r] = "ended" => feed'[r] = feed[r]
      BY DEF PInv, AnswerFollowsHandler, Deliver, BreakStream, Raise, Eof, Disconnect,
             Close, Respond
    <2>3. pc'[r] \in {"ending", "responding"} \/ answer'[r] = "complete" =>
              pc[r] \in {"ending", "responding"} \/ answer[r] = "complete"
      BY DEF PInv, TypeOK, Deliver, BreakStream, Raise, Eof, Disconnect, Close, Respond
    <2> QED  BY <2>1, <2>2, <2>3, UnsignedStep
  <1> QED  BY <1>3, <1>4, <1>5, <1>6 DEF PInv

(***************************************************************************)
(* Steps that sign                                                         *)
(***************************************************************************)
\* What a step of r that signs a whole answer keeps and brings about.
LEMMA SigningStep ==
    ASSUME PInv, NEW r \in Request, NEW response \in Seq(Chunk),
           hash[r] \in {"header", "body"} \X Request,
           store' = Signed(r, r, response), UNCHANGED hash,
           feed'[r] = "ended", upstream'[r] = response,
           \A q \in Request \ {r} :
               /\ pc'[q] = pc[q] /\ answer'[q] = answer[q]
               /\ feed'[q] = feed[q] /\ upstream'[q] = upstream[q]
    PROVE  /\ store' \subseteq Entry
           /\ SignedIsWhole' /\ SignedBeforeTheEnd'
  <1>1. TypeOK
    BY DEF PInv
  <1>2. /\ store' \subseteq Entry
        /\ \A e \in store' : \/ e \in store /\ e.id # r
                             \/ e.id = r /\ e.hash = hash[r] /\ e.response = response
        /\ \E e \in store' : e.id = r /\ hash[r] = e.hash
        /\ \A e \in store : e.id # r => e \in store'
    BY <1>1, SigningIsOwn
  <1>3. SignedIsWhole'
    <2> SUFFICES ASSUME NEW e \in store'
                 PROVE  /\ feed'[e.id] = "ended"
                        /\ e.response = upstream'[e.id]
                        /\ e.hash = hash'[e.id]
      BY DEF SignedIsWhole
    <2>1. CASE e.id = r
      BY <1>2, <2>1
    <2>2. CASE e.id # r
      <3>1. e \in store /\ e.id \in Request \ {r}
        BY <1>1, <1>2, <2>2 DEF TypeOK, Entry
      <3> QED  BY <3>1 DEF PInv, SignedIsWhole
    <2> QED  BY <2>1, <2>2
  <1>4. SignedBeforeTheEnd'
    <2> SUFFICES ASSUME NEW q \in Request,
                        pc'[q] \in {"ending", "responding"} \/ answer'[q] = "complete"
                 PROVE  \E e \in store' : e.id = q /\ hash'[q] = e.hash
      BY DEF SignedBeforeTheEnd, HasSignature
    <2>1. CASE q = r
      BY <1>2, <2>1
    <2>2. CASE q # r
      <3>1. \E e \in store : e.id = q /\ hash[q] = e.hash
        BY <2>2 DEF PInv, SignedBeforeTheEnd, HasSignature
      <3> QED  BY <1>2, <2>2, <3>1
    <2> QED  BY <2>1, <2>2
  <1> QED  BY <1>2, <1>3, <1>4

\* A streamed answer ends, with an id or without.
LEMMA EndStreamStep ==
    ASSUME PInv, NEW r \in Request, EndStream(r)
    PROVE  PInv'
  <1>1. /\ hashed[r] = upstream[r] /\ hashed[r] \in Seq(Chunk) /\ feed[r] = "open"
        /\ hash[r] \in {"header", "body"} \X Request
        /\ chatId[r] \in {r, NoId}
    BY DEF EndStream, PInv, TypeOK, HashCoversAnswer, AnswerFollowsHandler
  <1>2. AnswerFollowsHandler' /\ HashCoversAnswer'
    BY <1>1 DEF PInv, TypeOK, AnswerFollowsHandler, HashCoversAnswer, EndStream, Raise
  <1>3. /\ UNCHANGED <<hash, upstream>> /\ feed'[r] = "ended"
        /\ \A q \in Request \ {r} :
               /\ pc'[q] = pc[q] /\ answer'[q] = answer[q]
               /\ feed'[q] = feed[q] /\ upstream'[q] = upstream[q]
    BY DEF PInv, TypeOK, EndStream, Raise
  <1>4. CASE chatId[r] = NoId
    <2>1. UNCHANGED store /\ pc'[r] = "raised" /\ answer'[r] = "cut"
      BY <1>4 DEF EndStream, Raise, PInv, TypeOK
    <2>2. SignedIsWhole' /\ SignedBeforeTheEnd'
      BY <1>1, <1>3, <2>1, UnsignedStep
    <2>3. TypeOK'
      BY <1>4 DEF PInv, TypeOK, EndStream, Raise, PC, Answer
    <2> QED  BY <1>2, <2>2, <2>3 DEF PInv
  <1>5. CASE chatId[r] = r /\ chatId[r] # NoId
    <2>1. store' = Signed(r, r, hashed[r])
      BY <1>5 DEF EndStream
    <2>2. store' \subseteq Entry /\ SignedIsWhole' /\ SignedBeforeTheEnd'
      BY <1>1, <1>3, <2>1, SigningStep
    <2>3. TypeOK'
      BY <1>5, <2>2 DEF PInv, TypeOK, EndStream, PC
    <2> QED  BY <1>2, <2>2, <2>3 DEF PInv
  <1> QED  BY <1>1, <1>4, <1>5

\* A whole body arrives, with an id or without.
LEMMA PostAnsweredStep ==
    ASSUME PInv, NEW r \in Request, NEW body \in WholeBody, PostAnswered(r, body)
    PROVE  PInv'
  <1>1. <<body>> \in Seq(Chunk)
    BY DEF Chunk
  <1>2. /\ feed[r] = "none" /\ answer[r] = "none"
        /\ hash[r] \in {"header", "body"} \X Request
    BY DEF PostAnswered, PInv, AnswerFollowsHandler, HashCoversAnswer
  <1>3. AnswerFollowsHandler' /\ HashCoversAnswer'
    <2>1. ASSUME NEW q \in Request, q # r
          PROVE  /\ pc'[q] = pc[q] /\ answer'[q] = answer[q] /\ chatId'[q] = chatId[q]
                 /\ feed'[q] = feed[q] /\ upstream'[q] = upstream[q]
                 /\ hashed'[q] = hashed[q] /\ delivered'[q] = delivered[q]
                 /\ hash'[q] = hash[q]
      BY <2>1 DEF PInv, TypeOK, PostAnswered
    <2>2. pc'[r] \in {"responding", "raised"} /\ answer'[r] # "complete"
      BY <1>2 DEF PInv, TypeOK, PostAnswered
    <2>3. chatId'[r] \in {r, NoId}
      BY DEF PInv, TypeOK, HashCoversAnswer, PostAnswered
    <2>4. AnswerFollowsHandler'
      BY <2>1, <2>2 DEF PInv, AnswerFollowsHandler
    <2>5. HashCoversAnswer'
      BY <2>1, <2>2, <2>3 DEF PInv, HashCoversAnswer
    <2> QED  BY <2>4, <2>5
  <1>4. /\ UNCHANGED hash /\ feed'[r] = "ended" /\ upstream'[r] = <<body>>
        /\ \A q \in Request \ {r} :
               /\ pc'[q] = pc[q] /\ answer'[q] = answer[q]
               /\ feed'[q] = feed[q] /\ upstream'[q] = upstream[q]
    BY DEF PInv, TypeOK, PostAnswered
  <1>5. CASE body \notin {"id", "spaced"}
    <2>1. UNCHANGED store /\ pc'[r] = "raised" /\ answer'[r] = "error"
      BY <1>5 DEF PostAnswered, PInv, TypeOK
    <2>2. SignedIsWhole' /\ SignedBeforeTheEnd'
      BY <1>2, <1>4, <2>1, UnsignedStep
    <2>3. TypeOK'
      BY <1>1, <1>5 DEF PInv, TypeOK, PostAnswered, PC, Answer
    <2> QED  BY <1>3, <2>2, <2>3 DEF PInv
  <1>6. CASE body \in {"id", "spaced"}
    <2>1. store' = Signed(r, r, <<body>>)
      BY <1>6 DEF PostAnswered
    <2>2. store' \subseteq Entry /\ SignedIsWhole' /\ SignedBeforeTheEnd'
      BY <1>1, <1>2, <1>4, <2>1, SigningStep
    <2>3. TypeOK'
      <3>4. /\ pc' = [pc EXCEPT ![r] = "responding"]
            /\ chatId' = [chatId EXCEPT ![r] = r]
            /\ hashed' = [hashed EXCEPT ![r] = <<body>>]
            /\ upstream' = [upstream EXCEPT ![r] = <<body>>]
            /\ client' = [client EXCEPT ![r] = "closed"]
            /\ feed' = [feed EXCEPT ![r] = "ended"]
            /\ UNCHANGED <<answer, hash, delivered>>
        BY <1>6 DEF PostAnswered
      <3>1. pc' \in [Request -> PC] /\ answer' \in [Request -> Answer]
        BY <3>4 DEF PInv, TypeOK, PC
      <3>2. upstream' \in [Request -> Seq(Chunk)] /\ hashed' \in [Request -> Seq(Chunk)]
        BY <1>1, <3>4 DEF PInv, TypeOK
      <3>3. /\ chatId' \in [Request -> Request \cup {NoId}]
            /\ client' \in [Request -> {"none", "open", "closed"}]
            /\ feed' \in [Request -> {"none", "open", "ended", "broken"}]
            /\ UNCHANGED <<hash, delivered>>
        BY <3>4 DEF PInv, TypeOK
      <3> QED  BY <2>2, <3>1, <3>2, <3>3 DEF PInv, TypeOK
    <2> QED  BY <1>3, <2>2, <2>3 DEF PInv
  <1> QED  BY <1>5, <1>6

(***************************************************************************)
(* Theorems                                                                *)
(***************************************************************************)
\* No step of any handler leaves PInv.
LEMMA StepPInv == PInv /\ [Next]_vars => PInv'
  <1> SUFFICES ASSUME PInv, [Next]_vars PROVE PInv'
    OBVIOUS
  <1>1. CASE UNCHANGED vars
    BY <1>1 DEF vars, PInv, TypeOK, AnswerFollowsHandler, HashCoversAnswer,
                SignedIsWhole, SignedBeforeTheEnd, HasSignature
  <1>2. ASSUME NEW r \in Request,
               Accept(r) \/ Reject(r) \/ Handle(r) \/ Disconnect(r)
        PROVE  PInv'
    <2>1. CASE Accept(r) \/ Reject(r) \/ SendRaises(r) \/ PassError(r)
               \/ StartStream(r) \/ PostFails(r)
      BY <2>1, OpeningSteps
    <2>2. CASE \E chunk \in StreamChunk : Receive(r, chunk)
      BY <2>2, ReceiveStep
    <2>3. CASE Deliver(r) \/ BreakStream(r) \/ Eof(r) \/ Disconnect(r) \/ Close(r)
               \/ Respond(r)
      BY <2>3, RelayingSteps
    <2>4. CASE EndStream(r)
      BY <2>4, EndStreamStep
    <2>5. CASE \E body \in WholeBody : PostAnswered(r, body)
      BY <2>5, PostAnsweredStep
    <2> QED  BY <1>2, <2>1, <2>2, <2>3, <2>4, <2>5 DEF Handle
  <1> QED  BY <1>1, <1>2 DEF Next

\* The inductive invariant holds of every reachable state.
THEOREM ProxyInvariance == Spec => []PInv
  BY InitPInv, StepPInv, PTL DEF Spec

\* Every variable keeps its type.
THEOREM ProxyTypeCorrectness == Spec => []TypeOK
  BY ProxyInvariance, PTL DEF PInv

\* generate_stream and non_stream_vllm_response sign whole answers only, with
\* the hash of the request they answer, however many requests interleave.
THEOREM OnlyWholeAnswersSigned == Spec => []SignedIsWhole
  BY ProxyInvariance, PTL DEF PInv

\* By the time a caller sees the end of its answer the signature is stored.
THEOREM CompleteAnswersSigned == Spec => []CompleteIsSigned
  <1>1. PInv => CompleteIsSigned
    BY DEF PInv, SignedBeforeTheEnd, HasSignature, CompleteIsSigned
  <1> QED  BY <1>1, ProxyInvariance, PTL

(***************************************************************************)
(* What the caller received                                                *)
(***************************************************************************)
\* How far a well-formed answer has been relayed: from its first chunk on,
\* which has the id, no chunk is skipped.
Relayed(r) ==
    /\ pc[r] = "reading" /\ upstream[r] = <<>> => delivered[r] = <<>>
    /\ WellFormed(r) =>
           /\ pc[r] \in {"reading", "ending"} \/ answer[r] = "complete" =>
                  delivered[r] = upstream[r]
           /\ pc[r] = "yielding" =>
                  upstream[r] = Append(delivered[r], upstream[r][Len(upstream[r])])
           /\ pc[r] \in {"reading", "yielding"} => chatId[r] # NoId
           /\ pc[r] = "responding" => upstream[r] = <<"id">>

RInv == \A r \in Request : Relayed(r)

\* A step of one handler leaves the answers of the others alone.
LEMMA OthersRelayed ==
    ASSUME PInv, NEW r \in Request, Accept(r) \/ Reject(r) \/ Handle(r) \/ Disconnect(r),
           NEW q \in Request, q # r
    PROVE  /\ pc'[q] = pc[q] /\ answer'[q] = answer[q] /\ chatId'[q] = chatId[q]
           /\ upstream'[q] = upstream[q] /\ delivered'[q] = delivered[q]
  <1>1. TypeOK
    BY DEF PInv
  <1>2. CASE Accept(r) \/ Reject(r) \/ Disconnect(r)
    BY <1>1, <1>2 DEF TypeOK, Accept, Reject, Disconnect
  <1>3. CASE \E chunk \in StreamChunk : Receive(r, chunk)
    BY <1>1, <1>3 DEF TypeOK, Receive, Raise
  <1>4. CASE \E body \in WholeBody : PostAnswered(r, body)
    BY <1>1, <1>4 DEF TypeOK, PostAnswered
  <1>5. CASE SendRaises(r) \/ PassError(r) \/ StartStream(r) \/ PostFails(r)
    BY <1>1, <1>5 DEF TypeOK, SendRaises, PassError, StartStream, PostFails
  <1>6. CASE Deliver(r) \/ Eof(r) \/ Close(r) \/ Respond(r)
    BY <1>1, <1>6 DEF TypeOK, Deliver, Eof, Close, Respond
  <1>7. CASE EndStream(r) \/ BreakStream(r)
    BY <1>1, <1>7 DEF TypeOK, EndStream, BreakStream, Raise
  <1> QED  BY <1>2, <1>3, <1>4, <1>5, <1>6, <1>7 DEF Handle

\* The first chunk decides whether an answer is well-formed: it must be the
\* one with the id, which is then remembered.
LEMMA ReceiveRelays ==
    ASSUME PInv, NEW r \in Request, Relayed(r), NEW chunk \in StreamChunk,
           Receive(r, chunk)
    PROVE  Relayed(r)'
  <1>1. /\ TypeOK /\ pc[r] = "reading" /\ UNCHANGED delivered
        /\ upstream[r] \in Seq(Chunk) /\ chunk \in Chunk
        /\ chatId[r] \in {r, NoId} /\ answer[r] # "complete"
    BY DEF PInv, TypeOK, HashCoversAnswer, AnswerFollowsHandler, Receive, Chunk
  <1>2. upstream'[r] = Append(upstream[r], chunk)
    BY <1>1 DEF Receive, TypeOK
  <1>3. /\ upstream'[r] # <<>> /\ upstream'[r][Len(upstream'[r])] = chunk
        /\ upstream[r] = <<>> => upstream'[r][1] = chunk
        /\ upstream[r] # <<>> => upstream'[r][1] = upstream[r][1]
        /\ \A i \in DOMAIN upstream[r] : /\ i \in DOMAIN upstream'[r]
                                         /\ upstream'[r][i] = upstream[r][i]
    <2>1. /\ Append(upstream[r], chunk) # <<>>
          /\ Len(Append(upstream[r], chunk)) = Len(upstream[r]) + 1
          /\ Append(upstream[r], chunk)[Len(upstream[r]) + 1] = chunk
          /\ \A i \in 1..Len(upstream[r]) : Append(upstream[r], chunk)[i] = upstream[r][i]
          /\ DOMAIN upstream[r] = 1..Len(upstream[r]) /\ Len(upstream[r]) \in Nat
          /\ DOMAIN Append(upstream[r], chunk) = 1..(Len(upstream[r]) + 1)
      BY <1>1
    <2>2. upstream[r] = <<>> => Len(upstream[r]) = 0
      OBVIOUS
    <2>3. upstream[r] # <<>> => 1 \in 1..Len(upstream[r])
      BY <1>1
    <2> QED  BY <1>2, <2>1, <2>2, <2>3
  <1>4. WellFormed(r)' /\ upstream[r] # <<>> => WellFormed(r)
    BY <1>3 DEF WellFormed
  <1>5. WellFormed(r)' => delivered[r] = upstream[r]
    BY <1>1, <1>4 DEF Relayed
  <1>6. WellFormed(r)' => chatId[r] # NoId \/ chunk = "id"
    BY <1>1, <1>3, <1>4 DEF Relayed, WellFormed
  <1>7. ASSUME WellFormed(r)'
        PROVE  pc'[r] = "yielding" /\ chatId'[r] # NoId /\ answer'[r] = answer[r]
    BY <1>1, <1>6, <1>7, NoIdAssumption DEF Receive, TypeOK
  <1> QED  BY <1>1, <1>2, <1>3, <1>5, <1>7 DEF Relayed

LEMMA OwnRelayed ==
    ASSUME PInv, NEW r \in Request, Relayed(r),
           Accept(r) \/ Reject(r) \/ Handle(r) \/ Disconnect(r)
    PROVE  Relayed(r)'
  <1>1. TypeOK
    BY DEF PInv
  <1>2. CASE Accept(r) \/ Reject(r) \/ SendRaises(r) \/ PassError(r) \/ PostFails(r)
    BY <1>1, <1>2 DEF TypeOK, PInv, AnswerFollowsHandler, Relayed, Accept, Reject, SendRaises,
                      PassError, PostFails
  <1>3. CASE StartStream(r)
    <2>1. upstream'[r] = <<>> /\ delivered'[r] = <<>>
      BY <1>1, <1>3 DEF PInv, AnswerFollowsHandler, StartStream
    <2> QED  BY <2>1 DEF Relayed, WellFormed
  <1>4. CASE \E chunk \in StreamChunk : Receive(r, chunk)
    BY <1>4, ReceiveRelays
  <1>5. CASE Deliver(r)
    <2>1. /\ pc[r] = "yielding" /\ pc'[r] = "reading" /\ UNCHANGED <<upstream, chatId, answer>>
          /\ delivered'[r] = Append(delivered[r], upstream[r][Len(upstream[r])])
          /\ upstream[r] # <<>>
      BY <1>1, <1>5 DEF Deliver, TypeOK, PInv, HashCoversAnswer
    <2> QED  BY <2>1 DEF Relayed, WellFormed
  <1>6. CASE EndStream(r) \/ BreakStream(r)
    <2>1. /\ UNCHANGED <<upstream, delivered, chatId>> /\ pc[r] = "reading"
          /\ pc'[r] \in {"ending", "raised"} /\ answer'[r] \in {answer[r], "cut"}
      BY <1>1, <1>6 DEF EndStream, BreakStream, Raise, TypeOK
    <2> QED  BY <2>1 DEF Relayed, WellFormed
  <1>7. CASE Eof(r) \/ Disconnect(r) \/ Close(r)
    <2>1. /\ UNCHANGED <<upstream, delivered, chatId>>
          /\ pc'[r] \in {"closing", "done"}
          /\ answer'[r] = "complete" => pc[r] = "ending" \/ answer[r] = "complete"
      BY <1>1, <1>7 DEF Eof, Disconnect, Close, TypeOK
    <2> QED  BY <2>1 DEF Relayed, WellFormed
  <1>8. CASE \E body \in WholeBody : PostAnswered(r, body)
    <2>1. PICK body \in WholeBody : PostAnswered(r, body)
      BY <1>8
    <2>2. /\ upstream'[r] = <<body>> /\ pc'[r] \in {"responding", "raised"}
          /\ answer'[r] # "complete"
      BY <1>1, <2>1 DEF PostAnswered, TypeOK, PInv, AnswerFollowsHandler
    <2>3. WellFormed(r)' => body = "id"
      BY <2>2 DEF WellFormed
    <2> QED  BY <2>2, <2>3 DEF Relayed
  <1>9. CASE Respond(r)
    <2>1. /\ UNCHANGED <<upstream, chatId>> /\ delivered'[r] = <<"id">> /\ pc'[r] = "done"
          /\ pc[r] = "responding"
      BY <1>1, <1>9 DEF Respond, TypeOK
    <2> QED  BY <2>1 DEF Relayed, WellFormed
  <1> QED  BY <1>2, <1>3, <1>4, <1>5, <1>6, <1>7, <1>8, <1>9 DEF Handle

LEMMA StepRInv == PInv /\ RInv /\ [Next]_vars => RInv'
  <1> SUFFICES ASSUME PInv, RInv, [Next]_vars, NEW q \in Request PROVE Relayed(q)'
    BY DEF RInv
  <1>1. Relayed(q)
    BY DEF RInv
  <1>2. CASE UNCHANGED vars
    BY <1>1, <1>2 DEF vars, Relayed, WellFormed
  <1>3. CASE Next
    <2>1. PICK r \in Request : Accept(r) \/ Reject(r) \/ Handle(r) \/ Disconnect(r)
      BY <1>3 DEF Next
    <2>2. CASE r = q
      BY <1>1, <2>1, <2>2, OwnRelayed
    <2>3. CASE r # q
      BY <1>1, <2>1, <2>3, OthersRelayed DEF Relayed, WellFormed
    <2> QED  BY <2>2, <2>3
  <1> QED  BY <1>2, <1>3

\* The caller of a well-formed answer received what was signed: from the chunk
\* with the id on, generate_stream hands over every chunk it hashes.
THEOREM WellFormedAnswersVerify == Spec => []WellFormedVerifies
  <1>1. Init => RInv
    BY DEF Init, RInv, Relayed, WellFormed
  <1>2. PInv /\ RInv => WellFormedVerifies
    <2> SUFFICES ASSUME PInv, RInv, NEW r \in Request, answer[r] = "complete", WellFormed(r)
                 PROVE  \E e \in store : e.id = r /\ e.response = delivered[r]
      BY DEF WellFormedVerifies, Verifies
    <2>1. delivered[r] = upstream[r]
      BY DEF RInv, Relayed
    <2>2. \E e \in store : e.id = r
      BY DEF PInv, SignedBeforeTheEnd, HasSignature
    <2> QED  BY <2>1, <2>2 DEF PInv, SignedIsWhole
  <1> QED  BY <1>1, <1>2, StepRInv, ProxyInvariance, PTL DEF Spec

(***************************************************************************)
(* The proxy implements SignedAnswers.                                     *)
(***************************************************************************)
\* How the answer looks to its caller while the handler is at work.
Shown(r) ==
    /\ pc[r] \in {"new", "sending", "posting", "responding"} => answer[r] = "none"
    /\ pc[r] \in {"reading", "yielding", "ending"} => answer[r] = "partial"

AInv == \A r \in Request : Shown(r)

LEMMA OwnShown ==
    ASSUME PInv, NEW r \in Request, Shown(r),
           Accept(r) \/ Reject(r) \/ Handle(r) \/ Disconnect(r)
    PROVE  Shown(r)'
  <1>1. TypeOK
    BY DEF PInv
  <1>2. CASE Accept(r) \/ Reject(r) \/ SendRaises(r) \/ PassError(r) \/ PostFails(r)
    BY <1>1, <1>2 DEF TypeOK, Shown, Accept, Reject, SendRaises, PassError, PostFails
  <1>3. CASE StartStream(r) \/ Deliver(r) \/ Eof(r) \/ Disconnect(r) \/ Close(r) \/ Respond(r)
    BY <1>1, <1>3 DEF TypeOK, Shown, StartStream, Deliver, Eof, Disconnect, Close, Respond
  <1>4. CASE \E chunk \in StreamChunk : Receive(r, chunk)
    BY <1>1, <1>4 DEF TypeOK, Shown, Receive, Raise
  <1>5. CASE EndStream(r) \/ BreakStream(r)
    BY <1>1, <1>5 DEF TypeOK, Shown, EndStream, BreakStream, Raise
  <1>6. CASE \E body \in WholeBody : PostAnswered(r, body)
    BY <1>1, <1>6 DEF TypeOK, Shown, PostAnswered
  <1> QED  BY <1>2, <1>3, <1>4, <1>5, <1>6 DEF Handle

LEMMA StepAInv == PInv /\ AInv /\ [Next]_vars => AInv'
  <1> SUFFICES ASSUME PInv, AInv, [Next]_vars, NEW q \in Request PROVE Shown(q)'
    BY DEF AInv
  <1>1. Shown(q)
    BY DEF AInv
  <1>2. CASE UNCHANGED vars
    BY <1>1, <1>2 DEF vars, Shown
  <1>3. CASE Next
    <2>1. PICK r \in Request : Accept(r) \/ Reject(r) \/ Handle(r) \/ Disconnect(r)
      BY <1>3 DEF Next
    <2>2. CASE r = q
      BY <1>1, <2>1, <2>2, OwnShown
    <2>3. CASE r # q
      BY <1>1, <2>1, <2>3, OthersRelayed DEF Shown
    <2> QED  BY <2>2, <2>3
  <1> QED  BY <1>2, <1>3

\* An answer under way has no signature yet.
LEMMA UnsignedWhileOpen ==
    ASSUME PInv, NEW r \in Request, pc[r] \in {"posting", "reading", "yielding"}
    PROVE  SignatureOf(r) = {}
  <1>1. feed[r] # "ended"
    BY DEF PInv, AnswerFollowsHandler
  <1> QED  BY <1>1 DEF PInv, SignedIsWhole, SignatureOf

LEMMA SameSignatures ==
    UNCHANGED store => UNCHANGED [r \in Request |-> SignatureOf(r)]
  BY DEF SignatureOf

\* What raises, or is answered with an error, fails.
LEMMA FailingFails ==
    ASSUME TypeOK, NEW r \in Request, UNCHANGED <<delivered, store>>,
           answer[r] \in {"none", "partial"},
           answer' = [answer EXCEPT ![r] = IF answer[r] = "none" THEN "error" ELSE "cut"]
    PROVE  Answers!Fail
  <1>1. UNCHANGED [q \in Request |-> SignatureOf(q)]
    BY SameSignatures
  <1>2. {r} \in SUBSET {q \in Request : answer[q] \in {"none", "partial"}}
    OBVIOUS
  <1>3. answer' = [q \in Request |-> IF q \notin {r} THEN answer[q]
                                     ELSE IF answer[q] = "none" THEN "error" ELSE "cut"]
    BY DEF TypeOK
  <1> QED  BY <1>1, <1>2, <1>3 DEF Answers!Fail

\* set_chat makes the one signature of an answer.
LEMMA SigningSigns ==
    ASSUME PInv, AInv, NEW r \in Request, NEW response, pc[r] \in {"posting", "reading"},
           store' = Signed(r, r, response), UNCHANGED <<answer, delivered>>
    PROVE  Answers!Sign(r)
  <1> DEFINE s == <<hash[r], response>>
             signature == [q \in Request |-> SignatureOf(q)]
  <1>1. signature[r] = {} /\ answer[r] \in {"none", "partial"}
    BY UnsignedWhileOpen DEF AInv, Shown
  <1>2. SignatureOf(r)' = {s}
    <2> DEFINE new == [id |-> r, hash |-> hash[r], response |-> response]
    <2>1. new \in store' /\ new.id = r /\ <<new.hash, new.response>> = s
      BY DEF Signed
    <2>2. ASSUME NEW e \in store', e.id = r PROVE <<e.hash, e.response>> = s
      BY <2>2 DEF Signed
    <2> HIDE DEF new, s
    <2>3. SignatureOf(r)' = {<<e.hash, e.response>> : e \in {x \in store' : x.id = r}}
      BY DEF SignatureOf
    <2> QED  BY <2>1, <2>2, <2>3
  <1>3. ASSUME NEW q \in Request, q # r PROVE SignatureOf(q)' = SignatureOf(q)
    <2>1. {x \in store' : x.id = q} = {x \in store : x.id = q}
      BY <1>3 DEF Signed
    <2> QED  BY <2>1 DEF SignatureOf
  <1>4. signature' = [signature EXCEPT ![r] = {s}] /\ s \in signature'[r]
    BY <1>2, <1>3
  <1> QED  BY <1>1, <1>4 DEF Answers!Sign

LEMMA HandlerAnswers ==
    ASSUME PInv, AInv, NEW r \in Request,
           Accept(r) \/ Reject(r) \/ Handle(r) \/ Disconnect(r)
    PROVE  Answers!Next \/ UNCHANGED Answers!vars
  <1> USE DEF Answers!Next
  <1>1. TypeOK /\ Shown(r)
    BY DEF PInv, AInv
  <1>2. UNCHANGED store => UNCHANGED [q \in Request |-> SignatureOf(q)]
    BY SameSignatures
  <1>3. CASE Accept(r) \/ Close(r)
    BY <1>2, <1>3 DEF Accept, Close, Answers!vars
  <1>4. CASE Reject(r) \/ SendRaises(r) \/ PassError(r) \/ PostFails(r)
    <2>1. /\ UNCHANGED <<delivered, store>> /\ answer[r] = "none"
          /\ answer' = [answer EXCEPT ![r] = "error"]
      BY <1>1, <1>4 DEF Reject, SendRaises, PassError, PostFails, Shown
    <2> QED  BY <1>1, <2>1, FailingFails
  <1>5. CASE StartStream(r)
    BY <1>1, <1>2, <1>5 DEF StartStream, Shown, Answers!Begin
  <1>6. ASSUME NEW chunk \in StreamChunk, Receive(r, chunk)
        PROVE  Answers!Next \/ UNCHANGED Answers!vars
    <2>1. UNCHANGED <<delivered, store>> /\ answer[r] = "partial"
          /\ (UNCHANGED answer \/ answer' = [answer EXCEPT ![r] = "cut"])
      BY <1>1, <1>6 DEF Receive, Raise, Shown
    <2>2. CASE UNCHANGED answer
      BY <1>2, <2>1, <2>2 DEF Answers!vars
    <2>3. CASE answer' = [answer EXCEPT ![r] = "cut"]
      BY <1>1, <2>1, <2>3, FailingFails
    <2> QED  BY <2>1, <2>2, <2>3
  <1>7. CASE Deliver(r)
    <2>1. SignatureOf(r) = {}
      BY <1>7, UnsignedWhileOpen DEF Deliver
    <2>2. upstream[r] \in Seq(Chunk) /\ upstream[r] # <<>>
      BY <1>1, <1>7 DEF TypeOK, PInv, HashCoversAnswer, Deliver
    <2>3. upstream[r][Len(upstream[r])] \in Chunk
      BY <2>2
    <2> QED  BY <1>1, <1>2, <1>7, <2>1, <2>3 DEF Deliver, Shown, Answers!HandOver
  <1>8. CASE EndStream(r)
    <2>1. chatId[r] \in {r, NoId} /\ pc[r] = "reading"
      BY <1>8 DEF PInv, HashCoversAnswer, EndStream
    <2>2. CASE chatId[r] # NoId
      <3>1. store' = Signed(r, r, hashed[r]) /\ UNCHANGED <<answer, delivered>>
        BY <1>8, <2>1, <2>2 DEF EndStream
      <3> QED  BY <2>1, <3>1, SigningSigns
    <2>3. CASE chatId[r] = NoId
      <3>1. /\ UNCHANGED <<delivered, store>> /\ answer[r] = "partial"
            /\ answer' = [answer EXCEPT ![r] = "cut"]
        BY <1>1, <1>8, <2>3 DEF EndStream, Raise, Shown
      <3> QED  BY <1>1, <3>1, FailingFails
    <2> QED  BY <2>2, <2>3
  <1>9. CASE BreakStream(r)
    <2>1. /\ UNCHANGED <<delivered, store>> /\ answer[r] = "partial"
          /\ answer' = [answer EXCEPT ![r] = "cut"]
      BY <1>1, <1>9 DEF BreakStream, Raise, Shown
    <2> QED  BY <1>1, <2>1, FailingFails
  <1>10. CASE Eof(r) \/ Respond(r)
    <2>1. SignatureOf(r) # {}
      <3>1. PICK e \in store : e.id = r
        BY <1>10 DEF Eof, Respond, PInv, SignedBeforeTheEnd, HasSignature
      <3>2. <<e.hash, e.response>> \in SignatureOf(r)
        BY <3>1 DEF SignatureOf
      <3> QED  BY <3>2
    <2>2. "id" \in Chunk
      BY DEF Chunk, StreamChunk
    <2> QED  BY <1>1, <1>2, <1>10, <2>1, <2>2 DEF Eof, Respond, Shown, Answers!Complete
  <1>11. CASE Disconnect(r)
    BY <1>1, <1>2, <1>11 DEF Disconnect, Shown, Answers!Leave
  <1>12. ASSUME NEW body \in WholeBody, PostAnswered(r, body)
         PROVE  Answers!Next
    <2>1. CASE body \in {"id", "spaced"}
      <3>1. /\ pc[r] = "posting" /\ store' = Signed(r, r, <<body>>)
            /\ UNCHANGED <<answer, delivered>>
        BY <1>12, <2>1 DEF PostAnswered
      <3> QED  BY <3>1, SigningSigns
    <2>2. CASE body \notin {"id", "spaced"}
      <3>1. /\ UNCHANGED <<delivered, store>> /\ answer[r] = "none"
            /\ answer' = [answer EXCEPT ![r] = "error"]
        BY <1>1, <1>12, <2>2 DEF PostAnswered, Shown
      <3> QED  BY <1>1, <3>1, FailingFails
    <2> QED  BY <2>1, <2>2
  <1> QED  BY <1>3, <1>4, <1>5, <1>6, <1>7, <1>8, <1>9, <1>10, <1>11, <1>12 DEF Handle

LEMMA StepAnswers == PInv /\ AInv /\ [Next]_vars => [Answers!Next]_(Answers!vars)
  <1> SUFFICES ASSUME PInv, AInv, [Next]_vars PROVE [Answers!Next]_(Answers!vars)
    OBVIOUS
  <1>1. CASE Next
    BY <1>1, HandlerAnswers DEF Next
  <1>2. CASE UNCHANGED vars
    BY <1>2, SameSignatures DEF vars, Answers!vars
  <1> QED  BY <1>1, <1>2

LEMMA InitAnswers == Init => AInv /\ Answers!Init
  BY DEF Init, AInv, Shown, SignatureOf, Answers!Init

\* The handlers of one process are, to callers and to those who fetch
\* signatures, what SignedAnswers says (stream_vllm_response,
\* non_stream_vllm_response): no answer is signed twice, or after it broke off,
\* ended or lost its caller, and nothing is handed over after the signing.
THEOREM AnswersRefinement == Spec => ImplementsAnswers
  BY InitPInv, StepPInv, InitAnswers, StepAInv, StepAnswers, PTL
     DEF Spec, ImplementsAnswers, Answers!Spec

(***************************************************************************)
(* Every handler comes nearer to its end                                   *)
(***************************************************************************)
\* Chunks that vLLM may still send to r.
Ahead(r) == MaxChunks - Len(upstream[r])

Streams == {"new", "sending", "reading", "yielding"}

ChunksAreBounded == \A r \in Request : pc[r] \in Streams => Len(upstream[r]) <= MaxChunks

\* An upper bound of the steps that the handler of r still takes.
StepsLeft(r) ==
    CASE pc[r] = "new"                       -> 6 + 2 * Ahead(r)
      [] pc[r] = "sending"                   -> 5 + 2 * Ahead(r)
      [] pc[r] = "yielding"                  -> 5 + 2 * Ahead(r)
      [] pc[r] = "reading"                   -> 4 + 2 * Ahead(r)
      [] pc[r] \in {"ending", "posting"}     -> 2
      [] pc[r] \in {"closing", "responding"} -> 1
      [] OTHER                               -> 0

Step(r) == Accept(r) \/ Reject(r) \/ Handle(r) \/ Disconnect(r)

\* A step of one handler moves nothing of another.
LEMMA OthersStand ==
    ASSUME TypeOK, NEW r \in Request, Step(r), NEW q \in Request, q # r
    PROVE  pc'[q] = pc[q] /\ upstream'[q] = upstream[q]
  <1>1. CASE \E chunk \in StreamChunk : Receive(r, chunk)
    BY <1>1 DEF Receive, Raise, TypeOK
  <1>2. CASE \E body \in WholeBody : PostAnswered(r, body)
    BY <1>2 DEF PostAnswered, TypeOK
  <1>3. CASE EndStream(r) \/ BreakStream(r)
    BY <1>3 DEF EndStream, BreakStream, Raise, TypeOK
  <1>4. CASE \/ Accept(r) \/ Reject(r) \/ SendRaises(r) \/ PassError(r) \/ StartStream(r)
             \/ Deliver(r) \/ Eof(r) \/ Disconnect(r) \/ Close(r) \/ PostFails(r) \/ Respond(r)
    BY <1>4 DEF Accept, Reject, SendRaises, PassError, StartStream, Deliver, Eof,
       Disconnect, Close, PostFails, Respond, TypeOK
  <1> QED  BY <1>1, <1>2, <1>3, <1>4 DEF Step, Handle

\* Where a step takes a handler, and what it has read by then.
LEMMA HandlerMoves ==
    ASSUME TypeOK, ChunksAreBounded, NEW r \in Request, Step(r)
    PROVE  /\ StepsLeft(r) \in Nat
           /\ StepsLeft(r)' < StepsLeft(r)
           /\ pc'[r] \in Streams => Len(upstream'[r]) <= MaxChunks
  <1> DEFINE n == Len(upstream[r])
             n2 == Len(upstream'[r])
  <1>1. n \in Nat /\ MaxChunks \in Nat
    BY MaxChunksAssumption DEF TypeOK
  <1>2. pc[r] \in Streams => n <= MaxChunks
    BY DEF ChunksAreBounded
  <1>3. /\ StepsLeft(r) = CASE pc[r] = "new"     -> 6 + 2 * (MaxChunks - n)
                            [] pc[r] = "sending"  -> 5 + 2 * (MaxChunks - n)
                            [] pc[r] = "yielding" -> 5 + 2 * (MaxChunks - n)
                            [] pc[r] = "reading"  -> 4 + 2 * (MaxChunks - n)
                            [] pc[r] \in {"ending", "posting"}     -> 2
                            [] pc[r] \in {"closing", "responding"} -> 1
                            [] OTHER -> 0
        /\ StepsLeft(r)' = CASE pc'[r] = "new"     -> 6 + 2 * (MaxChunks - n2)
                            [] pc'[r] = "sending"  -> 5 + 2 * (MaxChunks - n2)
                            [] pc'[r] = "yielding" -> 5 + 2 * (MaxChunks - n2)
                            [] pc'[r] = "reading"  -> 4 + 2 * (MaxChunks - n2)
                            [] pc'[r] \in {"ending", "posting"}     -> 2
                            [] pc'[r] \in {"closing", "responding"} -> 1
                            [] OTHER -> 0
    BY DEF StepsLeft, Ahead
  <1>4. CASE \E chunk \in StreamChunk : Receive(r, chunk)
    <2>1. PICK chunk \in StreamChunk : Receive(r, chunk)
      BY <1>4
    <2>2. pc[r] = "reading" /\ n < MaxChunks /\ pc'[r] \in {"reading", "yielding", "raised"}
      BY <2>1 DEF Receive, Raise, TypeOK
    <2>3. upstream'[r] = Append(upstream[r], chunk) /\ upstream[r] \in Seq(Chunk)
      BY <2>1 DEF Receive, TypeOK
    <2>4. n2 = n + 1
      BY <2>1, <2>3 DEF Chunk
    <2> HIDE DEF n, n2
    <2>5. StepsLeft(r) \in Nat /\ StepsLeft(r)' < StepsLeft(r) /\ n2 <= MaxChunks
      BY <1>1, <1>3, <2>2, <2>4
    <2> QED  BY <2>5 DEF n2
  <1>5. CASE ~\E chunk \in StreamChunk : Receive(r, chunk)
    <2>1. CASE \E body \in WholeBody : PostAnswered(r, body)
      <3>1. pc[r] = "posting" /\ pc'[r] \in {"responding", "raised"}
        BY <2>1 DEF PostAnswered, TypeOK
      <3> HIDE DEF n, n2
      <3> QED  BY <1>3, <3>1 DEF Streams
    <2>2. CASE ~\E body \in WholeBody : PostAnswered(r, body)
      <3>1. /\ n2 = n
            /\ \/ pc[r] = "new" /\ pc'[r] \in {"sending", "posting", "raised"}
               \/ pc[r] = "sending" /\ pc'[r] \in {"raised", "done", "reading"}
               \/ pc[r] = "yielding" /\ pc'[r] \in {"reading", "closing"}
               \/ pc[r] = "reading" /\ pc'[r] \in {"ending", "raised", "closing"}
               \/ pc[r] = "ending" /\ pc'[r] = "closing"
               \/ pc[r] = "closing" /\ pc'[r] = "done"
               \/ pc[r] = "posting" /\ pc'[r] = "raised"
               \/ pc[r] = "responding" /\ pc'[r] = "done"
        BY <1>5, <2>2 DEF Step, Handle, Accept, Reject, SendRaises, PassError, StartStream,
           Raise, Deliver, EndStream, BreakStream, Eof, Disconnect, Close, PostFails,
           Respond, TypeOK
      <3> HIDE DEF n, n2
      <3>2. StepsLeft(r) \in Nat /\ StepsLeft(r)' < StepsLeft(r)
        BY <1>1, <1>2, <1>3, <3>1 DEF Streams
      <3>3. pc'[r] \in Streams => n2 <= MaxChunks
        BY <1>2, <3>1 DEF Streams
      <3> QED  BY <3>2, <3>3 DEF n2
    <2> QED  BY <2>1, <2>2
  <1> QED  BY <1>4, <1>5

LEMMA StepChunks == PInv /\ ChunksAreBounded /\ [Next]_vars => ChunksAreBounded'
  <1> SUFFICES ASSUME PInv, ChunksAreBounded, [Next]_vars, NEW q \in Request
               PROVE  pc'[q] \in Streams => Len(upstream'[q]) <= MaxChunks
    BY DEF ChunksAreBounded
  <1>1. TypeOK
    BY DEF PInv
  <1>2. CASE UNCHANGED vars
    BY <1>2 DEF vars, ChunksAreBounded
  <1>3. ASSUME NEW r \in Request, Step(r)
        PROVE  pc'[q] \in Streams => Len(upstream'[q]) <= MaxChunks
    BY <1>1, <1>3, OthersStand, HandlerMoves DEF ChunksAreBounded
  <1> QED  BY <1>2, <1>3 DEF Next, Step

\* What HandlersEnd rests on: every step of a handler brings it nearer to its
\* end, whatever vLLM sends and wherever the caller disconnects, and no step
\* of another takes it back: a handler retries nothing and goes round only for
\* the next chunk (stream_vllm_response, non_stream_vllm_response).
THEOREM HandlersRunDown ==
    Spec => [][\A r \in Request : /\ Step(r) => StepsLeft(r) \in Nat
                                  /\ Step(r) => StepsLeft(r)' < StepsLeft(r)
                                  /\ ~Step(r) => StepsLeft(r)' = StepsLeft(r)]_vars
  <1> DEFINE A == \A r \in Request : /\ Step(r) => StepsLeft(r) \in Nat
                                     /\ Step(r) => StepsLeft(r)' < StepsLeft(r)
                                     /\ ~Step(r) => StepsLeft(r)' = StepsLeft(r)
  <1>1. Init => ChunksAreBounded
    BY MaxChunksAssumption DEF Init, ChunksAreBounded
  <1>2. PInv /\ ChunksAreBounded /\ [Next]_vars => [A]_vars
    <2> SUFFICES ASSUME PInv, ChunksAreBounded, Next, NEW q \in Request
                 PROVE  /\ Step(q) => StepsLeft(q) \in Nat
                        /\ Step(q) => StepsLeft(q)' < StepsLeft(q)
                        /\ ~Step(q) => StepsLeft(q)' = StepsLeft(q)
      OBVIOUS
    <2>1. TypeOK
      BY DEF PInv
    <2>2. PICK r \in Request : Step(r)
      BY DEF Next, Step
    <2>3. ~Step(q) => pc'[q] = pc[q] /\ upstream'[q] = upstream[q]
      BY <2>1, <2>2, OthersStand
    <2>4. ~Step(q) => StepsLeft(q)' = StepsLeft(q)
      BY <2>3 DEF StepsLeft, Ahead
    <2>5. Step(q) => StepsLeft(q) \in Nat /\ StepsLeft(q)' < StepsLeft(q)
      BY <2>1, HandlerMoves
    <2> QED  BY <2>4, <2>5
  <1>3. QED  BY <1>1, <1>2, InitPInv, StepPInv, StepChunks, PTL DEF Spec
============================================================================

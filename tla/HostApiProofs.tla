--------------------------- MODULE HostApiProofs ---------------------------
(***************************************************************************)
(* Theorems about HostApi for every number of calls and every length of    *)
(* the key provider's answer.                                              *)
(***************************************************************************)
EXTENDS HostApi, Integers, TLAPS

(***************************************************************************)
(* The inductive invariant.                                                *)
(***************************************************************************)
\* The server is idle exactly while it serves nobody.
IdleServesNobody == step = "idle" <=> serving = Nothing

\* Bytes are counted for the connection in use, and the server never has
\* more of them than the provider has written on it.
BytesAreWritten ==
    /\ step # "body" => header = 0 /\ body = 0
    /\ step = "body" => /\ header = HeaderSize
                        /\ header + body <= sent[serving]
                        /\ kind[serving] = "key"

HInv == /\ TypeOK
        /\ kind \in [Call -> Kind]
        /\ IdleServesNobody
        /\ BytesAreWritten
        /\ step \in {"connecting", "length"} => kind[serving] = "key"
        /\ KeyIsWhole

LEMMA InitHInv == Init => HInv
  <1> SUFFICES ASSUME Init PROVE HInv
    OBVIOUS
  <1>1. TypeOK
    <2>1. /\ 0 \in 0..Length /\ 0 \in 0..(HeaderSize + Length) /\ header \in {0, HeaderSize}
      BY LengthAssumption DEF Init, HeaderSize
    <2>2. queue \in Seq(Call) /\ serving \in Call \cup {Nothing} /\ closed \in BOOLEAN
      <3>1. <<>> \in Seq(Call)
        OBVIOUS
      <3>2. queue = <<>> /\ serving = Nothing /\ closed = FALSE
        BY DEF Init
      <3> QED  BY <3>1, <3>2
    <2>3. /\ sent \in [Call -> 0..(HeaderSize + Length)]
          /\ outcome \in [Call -> {0, Dropped, 200, 400, 404}]
      BY <2>1 DEF Init
    <2> QED  BY <2>1, <2>2, <2>3 DEF Init, TypeOK
  <1>2. IdleServesNobody /\ BytesAreWritten /\ KeyIsWhole
    BY DEF Init, IdleServesNobody, BytesAreWritten, KeyIsWhole
  <1> QED  BY <1>1, <1>2 DEF Init, HInv

\* Finish gives the call that is served its status, and the server is idle.
LEMMA FinishStep ==
    ASSUME HInv, step # "idle", NEW status \in {Dropped, 200, 400, 404}, Finish(status),
           status = 200 /\ kind[serving] = "key" => sent[serving] = HeaderSize + Length,
           UNCHANGED <<queue, kind, sent>>
    PROVE  HInv'
  <1>1. serving \in Call
    BY DEF HInv, TypeOK, IdleServesNobody
  <1>2. TypeOK'
    <2>1. /\ queue' \in Seq(Call) /\ sent' \in [Call -> 0..(HeaderSize + Length)]
          /\ outcome' \in [Call -> {0, Dropped, 200, 400, 404}]
      BY <1>1 DEF HInv, TypeOK, Finish
    <2>2. /\ serving' = Nothing /\ step' = "idle" /\ header' = 0 /\ body' = 0
          /\ closed' = FALSE
      BY DEF Finish
    <2>3. 0 \in 0..Length
      BY LengthAssumption
    <2> QED  BY <2>1, <2>2, <2>3 DEF TypeOK
  <1>3. IdleServesNobody' /\ BytesAreWritten' /\ step' = "idle"
    BY DEF Finish, IdleServesNobody, BytesAreWritten
  <1>4. KeyIsWhole'
    BY <1>1 DEF HInv, TypeOK, KeyIsWhole, Finish
  <1> QED  BY <1>2, <1>3, <1>4 DEF HInv

\* The first steps of a call, which touch nothing of the provider's.
LEMMA RequestSteps ==
    ASSUME HInv, (\E c \in Call : Connect(c)) \/ Take \/ ReadFails \/ Dispatch
                 \/ ConnectFails \/ SendQuote
    PROVE  HInv'
  <1>1. CASE \E c \in Call : Connect(c)
    BY <1>1 DEF HInv, TypeOK, Connect, IdleServesNobody, BytesAreWritten, KeyIsWhole
  <1>2. CASE Take
    <2>1. Head(queue) \in Call /\ Tail(queue) \in Seq(Call)
      BY <1>2 DEF Take, HInv, TypeOK
    <2>2. TypeOK'
      BY <1>2, <2>1 DEF Take, HInv, TypeOK
    <2>3. IdleServesNobody' /\ BytesAreWritten' /\ KeyIsWhole' /\ step' = "reading"
      BY <1>2, <2>1, NothingAssumption DEF Take, HInv, IdleServesNobody, BytesAreWritten, KeyIsWhole
    <2> QED  BY <1>2, <2>2, <2>3 DEF Take, HInv
  <1>3. CASE ReadFails \/ ConnectFails
    BY <1>3, FinishStep DEF ReadFails, ConnectFails, Dropped
  <1>4. CASE Dispatch
    <2>1. serving \in Call /\ kind[serving] \in Kind
      BY <1>4 DEF Dispatch, HInv, TypeOK, IdleServesNobody
    <2>2. CASE kind[serving] = "key"
      BY <1>4, <2>1, <2>2, NothingAssumption
         DEF Dispatch, HInv, TypeOK, IdleServesNobody, BytesAreWritten, KeyIsWhole
    <2>3. CASE kind[serving] # "key"
      <3>1. \E status \in {Dropped, 200, 400, 404} : Finish(status)
        <4>1. CASE kind[serving] = "info"
          BY <1>4, <4>1 DEF Dispatch, Respond
        <4>2. CASE kind[serving] = "noPayload"
          BY <1>4, <4>2 DEF Dispatch, Respond
        <4>3. CASE kind[serving] = "otherEvent"
          BY <1>4, <4>3 DEF Dispatch, Respond
        <4>4. CASE kind[serving] = "unknown"
          BY <1>4, <4>4 DEF Dispatch, Respond
        <4>5. CASE kind[serving] = "tooLarge"
          BY <1>4, <4>5 DEF Dispatch, Respond
        <4>6. CASE kind[serving] = "malformed"
          BY <1>4, <4>6 DEF Dispatch, Respond
        <4> QED  BY <2>1, <2>3, <4>1, <4>2, <4>3, <4>4, <4>5, <4>6 DEF Kind
      <3> QED  BY <1>4, <2>3, <3>1, FinishStep DEF Dispatch
    <2> QED  BY <2>2, <2>3
  <1>5. CASE SendQuote
    BY <1>5 DEF SendQuote, HInv, TypeOK, IdleServesNobody, BytesAreWritten, KeyIsWhole
  <1> QED  BY <1>1, <1>2, <1>3, <1>4, <1>5

\* get_key: the length in one recv, then portions until it is reached.
LEMMA ReceiveSteps ==
    ASSUME HInv, RecvLength \/ RecvBody \/ RecvEof \/ AnswerKey
    PROVE  HInv'
  <1>1. /\ serving \in Call /\ sent[serving] \in 0..(HeaderSize + Length)
        /\ body \in 0..Length
    BY DEF RecvLength, RecvBody, RecvEof, AnswerKey, HInv, TypeOK, IdleServesNobody
  <1>2. CASE RecvLength
    <2>1. CASE Unread < HeaderSize
      BY <1>2, <2>1, FinishStep DEF RecvLength, Dropped
    <2>2. CASE ~(Unread < HeaderSize)
      <3>1. /\ header' = HeaderSize /\ step' = "body" /\ header = 0 /\ body = 0
            /\ UNCHANGED <<serving, body, closed, outcome, queue, kind, sent, info>>
        BY <1>2, <2>2 DEF RecvLength, HInv, BytesAreWritten
      <3>2. header' + body' <= sent'[serving']
        BY <1>1, <2>2, <3>1, LengthAssumption DEF Unread, HeaderSize
      <3>3. step = "length" /\ kind[serving] = "key"
        BY <1>2 DEF RecvLength, HInv
      <3>4. TypeOK'
        BY <3>1 DEF HInv, TypeOK
      <3>5. IdleServesNobody' /\ BytesAreWritten' /\ KeyIsWhole'
        BY <3>1, <3>2, <3>3 DEF HInv, IdleServesNobody, BytesAreWritten, KeyIsWhole
      <3> QED  BY <3>1, <3>4, <3>5 DEF HInv
    <2> QED  BY <2>1, <2>2
  <1>3. CASE RecvBody
    <2>1. /\ body' = body + Smaller(Unread, Length - body) /\ header = HeaderSize
          /\ UNCHANGED <<queue, serving, kind, step, header, sent, closed, outcome, info>>
      BY <1>3 DEF RecvBody, HInv, BytesAreWritten
    <2>2. body' \in 0..Length /\ header' + body' <= sent'[serving']
      BY <1>1, <1>3, <2>1, LengthAssumption DEF RecvBody, Smaller, Unread, HeaderSize
    <2>3. TypeOK' /\ IdleServesNobody' /\ KeyIsWhole'
      BY <2>1, <2>2 DEF HInv, TypeOK, IdleServesNobody, KeyIsWhole
    <2>4. BytesAreWritten'
      BY <1>3, <2>1, <2>2 DEF RecvBody, HInv, BytesAreWritten
    <2> QED  BY <2>1, <2>3, <2>4 DEF HInv
  <1>4. CASE RecvEof
    BY <1>4, FinishStep DEF RecvEof, Dropped
  <1>5. CASE AnswerKey
    <2>1. sent[serving] = HeaderSize + Length
      BY <1>1, <1>5, LengthAssumption DEF AnswerKey, HInv, BytesAreWritten, HeaderSize
    <2> QED  BY <1>5, <2>1, FinishStep DEF AnswerKey, Respond, Dropped
  <1> QED  BY <1>2, <1>3, <1>4, <1>5

\* What the provider does: bytes only ever come, up to the whole answer.
LEMMA ProviderSteps ==
    ASSUME HInv, ProviderWrites \/ ProviderCloses
    PROVE  HInv'
  <1>1. CASE ProviderWrites
    <2>1. serving \in Call /\ sent[serving] \in 0..(HeaderSize + Length)
      BY <1>1 DEF ProviderWrites, HInv, TypeOK, IdleServesNobody
    <2>2. PICK n \in 1..(HeaderSize + Length) :
              /\ sent[serving] + n <= HeaderSize + Length
              /\ sent' = [sent EXCEPT ![serving] = sent[serving] + n]
      BY <1>1 DEF ProviderWrites
    <2>3. UNCHANGED <<queue, serving, kind, step, header, body, closed, outcome, info>>
      BY <1>1 DEF ProviderWrites
    <2>4. TypeOK' /\ sent'[serving] > sent[serving]
      BY <2>1, <2>2, <2>3, LengthAssumption DEF HInv, TypeOK, HeaderSize
    <2>5. BytesAreWritten'
      BY <2>1, <2>2, <2>3, <2>4, LengthAssumption DEF HInv, TypeOK, BytesAreWritten, HeaderSize
    <2>6. KeyIsWhole'
      <3>1. sent[serving] # HeaderSize + Length
        BY <2>1, <2>2, LengthAssumption DEF HeaderSize
      <3> QED  BY <2>1, <2>2, <2>3, <3>1 DEF HInv, TypeOK, KeyIsWhole
    <2> QED  BY <2>3, <2>4, <2>5, <2>6 DEF HInv, IdleServesNobody
  <1>2. CASE ProviderCloses
    BY <1>2 DEF ProviderCloses, HInv, TypeOK, IdleServesNobody, BytesAreWritten, KeyIsWhole
  <1> QED  BY <1>1, <1>2

LEMMA StepHInv == HInv /\ [Next]_vars => HInv'
  <1> SUFFICES ASSUME HInv, [Next]_vars PROVE HInv'
    OBVIOUS
  <1>1. CASE UNCHANGED vars
    BY <1>1 DEF vars, HInv, TypeOK, IdleServesNobody, BytesAreWritten, KeyIsWhole
  <1> QED  BY <1>1, RequestSteps, ReceiveSteps, ProviderSteps DEF Next, Server

(***************************************************************************)
(* The theorems.                                                           *)
(***************************************************************************)
\* The invariant that carries the two below.
THEOREM HostApiInvariance == Spec => []HInv
  BY InitHInv, StepHInv, PTL DEF Spec

\* Every variable keeps its type: no more bytes are counted than there are.
THEOREM HostApiTypeCorrectness == Spec => []TypeOK
  <1>1. HInv => TypeOK
    BY DEF HInv
  <1> QED  BY <1>1, HostApiInvariance, PTL

\* get_key answers with a key only when the provider has written, and the
\* server received, its whole answer, in whatever portions.
THEOREM KeysAreWhole == Spec => []KeyIsWhole
  <1>1. HInv => KeyIsWhole
    BY DEF HInv
  <1> QED  BY <1>1, HostApiInvariance, PTL

(***************************************************************************)
(* The server comes to an end with every call                              *)
(***************************************************************************)
\* An upper bound of the steps that the call being served still takes.
StepsLeft == CASE step = "reading"    -> Length + 4
               [] step = "connecting" -> Length + 3
               [] step = "length"     -> Length + 2
               [] step = "body"       -> Length + 1 - body
               [] OTHER               -> 0

\* The same with all calls that wait.
Work == Len(queue) * (Length + 5) + StepsLeft

LEMMA FinishEnds ==
    ASSUME HInv, step # "idle", NEW status, Finish(status), UNCHANGED queue
    PROVE  Work' < Work
  <1>1. StepsLeft' = 0 /\ StepsLeft \in Nat /\ StepsLeft > 0
    BY LengthAssumption DEF HInv, TypeOK, Finish, StepsLeft
  <1>2. Len(queue) * (Length + 5) \in Nat
    <2>1. Len(queue) \in Nat /\ Length + 5 \in Nat
      BY LengthAssumption DEF HInv, TypeOK
    <2> QED  BY <2>1
  <1> HIDE DEF StepsLeft
  <1> QED  BY <1>1, <1>2 DEF Work

\* What CallsEnd rests on: HTTPServer never goes back in a call or from one
\* call to an earlier one.  Every step of the server brings it nearer to an
\* empty queue, and what the key provider does adds nothing; only the guest's
\* connecting does.
THEOREM ServerRunsDown ==
    Spec => [][/\ Work \in Nat
               /\ Server => Work' < Work
               /\ ProviderWrites \/ ProviderCloses => Work' = Work]_vars
  <1> DEFINE A == /\ Work \in Nat
                  /\ Server => Work' < Work
                  /\ ProviderWrites \/ ProviderCloses => Work' = Work
  <1>1. HInv /\ [Next]_vars => [A]_vars
    <2> SUFFICES ASSUME HInv PROVE A
      OBVIOUS
    <2>1. Len(queue) \in Nat /\ Length \in Nat /\ StepsLeft \in Nat
      BY LengthAssumption DEF HInv, TypeOK, StepsLeft
    <2>2. Len(queue) * (Length + 5) \in Nat
      BY <2>1
    <2>3. Work \in Nat
      <3> HIDE DEF StepsLeft
      <3> QED  BY <2>1, <2>2 DEF Work
    <2>4. ASSUME Take PROVE Work' < Work
      <3>1. Len(queue') = Len(queue) - 1 /\ StepsLeft' = Length + 4 /\ StepsLeft = 0
        BY <2>4 DEF Take, StepsLeft, HInv, TypeOK
      <3>2. (Len(queue) - 1) * (Length + 5) = Len(queue) * (Length + 5) - (Length + 5)
        BY <2>1
      <3> HIDE DEF StepsLeft
      <3> QED  BY <2>1, <2>2, <3>1, <3>2 DEF Work
    <2>5. ASSUME UNCHANGED queue, StepsLeft' < StepsLeft, StepsLeft' \in Nat PROVE Work' < Work
      <3> HIDE DEF StepsLeft
      <3> QED  BY <2>1, <2>2, <2>5 DEF Work
    <2>6. ASSUME SendQuote PROVE Work' < Work
      BY <2>1, <2>5, <2>6 DEF SendQuote, StepsLeft
    <2>7. ASSUME RecvBody PROVE Work' < Work
      <3>1. body < Length /\ body' \in Nat /\ body' <= Length /\ body' > body
        <4>1. serving \in Call /\ step = "body" /\ body < Length
          BY <2>7 DEF RecvBody, HInv, TypeOK, IdleServesNobody
        <4>2. sent[serving] \in Nat /\ header \in Nat /\ body \in Nat
          BY <2>1, <4>1 DEF HInv, TypeOK, HeaderSize
        <4>3. Unread \in Int /\ Unread > 0 /\ body' = body + Smaller(Unread, Length - body)
          BY <2>7, <4>2 DEF RecvBody, Unread
        <4> QED  BY <2>1, <4>1, <4>2, <4>3 DEF Smaller
      <3> QED  BY <2>1, <2>5, <2>7, <3>1 DEF RecvBody, StepsLeft, HInv, TypeOK
    <2>8. ASSUME RecvLength PROVE Work' < Work
      <3>1. CASE Unread < HeaderSize
        BY <2>8, <3>1, FinishEnds DEF RecvLength
      <3>2. CASE ~(Unread < HeaderSize)
        <4>1. step = "length" /\ step' = "body" /\ UNCHANGED <<queue, body>>
          BY <2>8, <3>2 DEF RecvLength
        <4>2. body = 0
          BY <4>1 DEF HInv, BytesAreWritten
        <4> QED  BY <2>1, <2>5, <4>1, <4>2 DEF StepsLeft
      <3> QED  BY <3>1, <3>2
    <2>9. ASSUME Dispatch PROVE Work' < Work
      <3>1. step = "reading" /\ UNCHANGED queue
        BY <2>9 DEF Dispatch
      <3>2. kind[serving] \in Kind
        BY <3>1 DEF HInv, TypeOK, IdleServesNobody
      <3>3. CASE kind[serving] = "key"
        <4>1. step' = "connecting"
          BY <2>9, <3>3 DEF Dispatch
        <4> QED  BY <2>1, <2>5, <3>1, <4>1 DEF StepsLeft
      <3>4. CASE kind[serving] # "key"
        <4>1. \E status : Finish(status)
          BY <2>9, <3>2, <3>4 DEF Dispatch, Respond, Kind
        <4> QED  BY <3>1, <4>1, FinishEnds
      <3> QED  BY <3>3, <3>4
    <2>10. ASSUME ReadFails \/ ConnectFails \/ RecvEof \/ AnswerKey PROVE Work' < Work
      BY <2>10, FinishEnds DEF ReadFails, ConnectFails, RecvEof, AnswerKey, Respond
    <2>11. ProviderWrites \/ ProviderCloses => Work' = Work
      BY DEF ProviderWrites, ProviderCloses, Work, StepsLeft
    <2> HIDE DEF Work
    <2> QED  BY <2>3, <2>4, <2>6, <2>7, <2>8, <2>9, <2>10, <2>11 DEF Server
  <1> QED  BY <1>1, HostApiInvariance, PTL DEF Spec

(***************************************************************************)
(* The refinement of HostCalls                                             *)
(***************************************************************************)
\* The calls without an answer, in the order they came.
Waiting == IF serving = Nothing THEN queue ELSE <<serving>> \o queue

LEMMA OneFirst ==
    ASSUME NEW c \in Call, NEW q \in Seq(Call)
    PROVE  /\ <<c>> \o q \in Seq(Call) /\ <<c>> \o q # <<>>
           /\ Head(<<c>> \o q) = c /\ Tail(<<c>> \o q) = q
           /\ \A d \in Call : Append(<<c>> \o q, d) = <<c>> \o Append(q, d)
           /\ \A i \in DOMAIN (<<c>> \o q) :
                  (<<c>> \o q)[i] = c \/ \E j \in DOMAIN q : (<<c>> \o q)[i] = q[j]
  <1>1. <<c>> \in Seq(Call) /\ Len(<<c>>) = 1 /\ <<c>>[1] = c
    OBVIOUS
  <1>2. /\ <<c>> \o q \in Seq(Call) /\ Len(<<c>> \o q) = 1 + Len(q)
        /\ \A i \in 1..(1 + Len(q)) :
               (<<c>> \o q)[i] = IF i <= 1 THEN <<c>>[i] ELSE q[i - 1]
    BY <1>1
  <1>3. <<c>> \o q # <<>> /\ Head(<<c>> \o q) = c /\ Tail(<<c>> \o q) = q
    BY <1>1, <1>2
  <1>4. ASSUME NEW d \in Call PROVE Append(<<c>> \o q, d) = <<c>> \o Append(q, d)
    BY <1>1, <1>2
  <1>5. ASSUME NEW i \in DOMAIN (<<c>> \o q)
        PROVE  (<<c>> \o q)[i] = c \/ \E j \in DOMAIN q : (<<c>> \o q)[i] = q[j]
    <2>1. i \in 1..(1 + Len(q)) /\ Len(q) \in Nat /\ DOMAIN q = 1..Len(q)
      BY <1>2
    <2>2. CASE i = 1
      BY <1>1, <1>2, <2>1, <2>2
    <2>3. CASE i # 1
      <3>1. i - 1 \in DOMAIN q /\ (<<c>> \o q)[i] = q[i - 1]
        BY <1>2, <2>1, <2>3
      <3> QED  BY <3>1
    <2> QED  BY <2>2, <2>3
  <1> QED  BY <1>2, <1>3, <1>4, <1>5

\* Whatever ends the call being served gives its status to the first of Waiting.
LEMMA FinishAnswers ==
    ASSUME HInv, step # "idle", NEW status, Finish(status), UNCHANGED <<queue, kind>>
    PROVE  /\ Waiting # <<>> /\ Head(Waiting) = serving /\ Waiting' = Tail(Waiting)
           /\ outcome' = [outcome EXCEPT ![Head(Waiting)] = status] /\ UNCHANGED kind
  <1>1. serving \in Call /\ serving # Nothing /\ queue \in Seq(Call)
    BY NothingAssumption DEF HInv, TypeOK, IdleServesNobody
  <1>2. /\ <<serving>> \o queue # <<>> /\ Head(<<serving>> \o queue) = serving
        /\ Tail(<<serving>> \o queue) = queue
    BY <1>1, OneFirst
  <1>3. Waiting = <<serving>> \o queue /\ Waiting' = queue
    BY <1>1 DEF Waiting, Finish
  <1> QED  BY <1>2, <1>3 DEF Finish

LEMMA StepCalls ==
    ASSUME HInv, [Next]_vars
    PROVE  [Calls!Next]_(Calls!vars)
  <1>1. ASSUME UNCHANGED <<queue, serving, kind, outcome, info>>
        PROVE  UNCHANGED Calls!vars
    BY <1>1 DEF Calls!vars
  <1>2. ASSUME NEW c \in Call, Connect(c) PROVE Calls!Next
    <2>1. queue \in Seq(Call) /\ serving \in Call \cup {Nothing}
      BY DEF HInv, TypeOK
    <2>2. /\ outcome[c] = 0 /\ serving # c /\ queue' = Append(queue, c)
          /\ \A i \in DOMAIN queue : queue[i] # c
          /\ UNCHANGED <<serving, kind, outcome, info>>
      BY <1>2 DEF Connect, InQueue
    <2>3. Waiting' = Append(Waiting, c) /\ \A i \in DOMAIN Waiting : Waiting[i] # c
      <3>1. CASE serving = Nothing
        BY <2>2, <3>1 DEF Waiting
      <3>2. CASE serving # Nothing
        <4>1. serving \in Call
          BY <2>1, <3>2
        <4>2. Append(<<serving>> \o queue, c) = <<serving>> \o Append(queue, c)
          BY <2>1, <4>1, OneFirst
        <4>3. \A i \in DOMAIN (<<serving>> \o queue) : (<<serving>> \o queue)[i] # c
          BY <2>1, <2>2, <4>1, OneFirst
        <4> QED  BY <2>2, <3>2, <4>2, <4>3 DEF Waiting
      <3> QED  BY <3>1, <3>2
    <2> QED  BY <2>2, <2>3 DEF Calls!Next, Calls!Arrive, Waiting
  <1>3. ASSUME Take PROVE UNCHANGED Calls!vars
    <2>1. /\ queue \in Seq(Call) /\ queue # <<>> /\ serving = Nothing
          /\ serving' = Head(queue) /\ queue' = Tail(queue)
          /\ UNCHANGED <<kind, outcome, info>>
      BY <1>3 DEF Take, HInv, TypeOK, IdleServesNobody
    <2>2. Head(queue) \in Call /\ <<Head(queue)>> \o Tail(queue) = queue
      BY <2>1
    <2>3. Waiting' = Waiting
      BY <2>1, <2>2, NothingAssumption DEF Waiting
    <2> QED  BY <2>1, <2>3 DEF Calls!vars, Waiting
  <1>4. ASSUME step # "idle", Finish(Dropped), UNCHANGED <<queue, kind, info>>
        PROVE  Calls!Next
    <2>1. Calls!Answer(Dropped) /\ Waiting # <<>>
      BY <1>4, FinishAnswers DEF Calls!Answer, Waiting
    <2> QED  BY <1>4, <2>1 DEF Calls!Next, Calls!Refuse, Calls!Dropped, Dropped, Waiting
  <1>5. ASSUME step # "idle", Finish(200), UNCHANGED <<queue, kind, info>>,
               kind[serving] \in {"key", "otherEvent"}
        PROVE  Calls!Next
    <2>1. Calls!Answer(200) /\ Waiting # <<>> /\ Head(Waiting) = serving
      BY <1>5, FinishAnswers DEF Calls!Answer, Waiting
    <2> QED  BY <1>5, <2>1 DEF Calls!Next, Calls!Serve, Waiting
  <1>6. ASSUME Dispatch PROVE [Calls!Next]_(Calls!vars)
    <2>1. step = "reading" /\ UNCHANGED <<queue, kind>> /\ kind[serving] \in Kind
      BY <1>6 DEF Dispatch, HInv, TypeOK, IdleServesNobody
    <2>2. CASE kind[serving] = "key"
      BY <1>1, <1>6, <2>2 DEF Dispatch
    <2>3. CASE kind[serving] = "info"
      <3>1. (Finish(200) \/ Finish(Dropped)) /\ info' = <<serving>>
        BY <1>6, <2>3 DEF Dispatch, Respond
      <3>2. /\ Calls!Answer(200) \/ Calls!Answer(Dropped)
            /\ Waiting # <<>> /\ Head(Waiting) = serving
        BY <2>1, <3>1, FinishAnswers DEF Calls!Answer, Waiting
      <3> QED  BY <2>3, <3>1, <3>2 DEF Calls!Next, Calls!Notify, Calls!Dropped, Dropped, Waiting
    <2>4. CASE kind[serving] = "noPayload"
      <3>1. Finish(Dropped) /\ info' = <<"empty">>
        BY <1>6, <2>4 DEF Dispatch
      <3>2. Calls!Answer(Dropped) /\ Waiting # <<>> /\ Head(Waiting) = serving
        BY <2>1, <3>1, FinishAnswers DEF Calls!Answer, Waiting
      <3> QED  BY <2>4, <3>1, <3>2 DEF Calls!Next, Calls!Spoil, Calls!Dropped, Dropped, Waiting
    <2>5. CASE kind[serving] = "otherEvent"
      BY <1>4, <1>5, <1>6, <2>1, <2>5 DEF Dispatch, Respond
    <2>6. ASSUME kind[serving] = "unknown", Finish(404), UNCHANGED info PROVE Calls!Next
      <3>1. Calls!Answer(404) /\ Waiting # <<>> /\ Head(Waiting) = serving
        BY <2>1, <2>6, FinishAnswers DEF Calls!Answer, Waiting
      <3> QED  BY <2>6, <3>1 DEF Calls!Next, Calls!Refuse, Waiting
    <2>7. ASSUME kind[serving] = "tooLarge", Finish(400), UNCHANGED info PROVE Calls!Next
      <3>1. Calls!Answer(400) /\ Waiting # <<>> /\ Head(Waiting) = serving
        BY <2>1, <2>7, FinishAnswers DEF Calls!Answer, Waiting
      <3> QED  BY <2>7, <3>1 DEF Calls!Next, Calls!Refuse, Waiting
    <2>8. CASE kind[serving] = "unknown"
      BY <1>4, <1>6, <2>1, <2>6, <2>8 DEF Dispatch, Respond
    <2>9. CASE kind[serving] = "tooLarge"
      BY <1>4, <1>6, <2>1, <2>7, <2>9 DEF Dispatch, Respond
    <2>10. CASE kind[serving] = "malformed"
      BY <1>4, <1>6, <2>1, <2>10 DEF Dispatch
    <2> QED  BY <2>1, <2>2, <2>3, <2>4, <2>5, <2>8, <2>9, <2>10 DEF Kind
  <1>7. ASSUME RecvLength PROVE [Calls!Next]_(Calls!vars)
    <2>1. CASE Unread < HeaderSize
      BY <1>4, <1>7, <2>1 DEF RecvLength
    <2>2. CASE ~(Unread < HeaderSize)
      BY <1>1, <1>7, <2>2 DEF RecvLength
    <2> QED  BY <2>1, <2>2
  <1>8. ASSUME AnswerKey PROVE Calls!Next
    <2>1. step # "idle" /\ kind[serving] \in {"key", "otherEvent"}
      BY <1>8 DEF AnswerKey, HInv, BytesAreWritten
    <2> QED  BY <1>4, <1>5, <1>8, <2>1 DEF AnswerKey, Respond
  <1>9. ASSUME ReadFails \/ ConnectFails \/ RecvEof PROVE Calls!Next
    BY <1>4, <1>9 DEF ReadFails, ConnectFails, RecvEof
  <1>10. ASSUME SendQuote \/ RecvBody \/ ProviderWrites \/ ProviderCloses \/ UNCHANGED vars
         PROVE  UNCHANGED Calls!vars
    BY <1>1, <1>10 DEF SendQuote, RecvBody, ProviderWrites, ProviderCloses, vars
  <1> QED  BY <1>2, <1>3, <1>6, <1>7, <1>8, <1>9, <1>10 DEF Next, Server

\* HTTPServer, do_POST and get_key answer the guest's calls once and in order,
\* and .instance_info holds what was acknowledged last, or the trace of a later
\* call that was dropped, for any calls and any answers of the key provider.
THEOREM CallsRefinement == Spec => ImplementsCalls
  <1>1. Init => Calls!Init
    BY DEF Init, Calls!Init, Kind
  <1>2. HInv /\ [Next]_vars => [Calls!Next]_(Calls!vars)
    BY StepCalls
  <1> QED  BY <1>1, <1>2, HostApiInvariance, PTL DEF Spec, ImplementsCalls, Calls!Spec
============================================================================

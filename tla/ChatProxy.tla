----------------------------- MODULE ChatProxy -----------------------------
(***************************************************************************)
(* One proxy process serving POST /v1/chat/completions and                 *)
(* /v1/completions (vllm-proxy/src/app/api/v1/openai.py).  The handlers of *)
(* several requests run on one event loop; each forwards its body to vLLM, *)
(* relays the answer, hashes it on the way and stores the signature of     *)
(* "request hash:response hash" under the chat id found in the answer.     *)
(*                                                                         *)
(* A handler gives up the loop only where it awaits: an action is what one *)
(* handler does between two awaits.  vLLM gives every answer an id of its  *)
(* own, so a request also stands for the id of its answer.                 *)
(***************************************************************************)
EXTENDS Naturals, Sequences

CONSTANTS
    Request,      \* the requests served
    NoId,         \* chat_id is None
    MaxChunks     \* bound on the chunks of a streamed answer

ASSUME NoIdAssumption == NoId \notin Request
ASSUME MaxChunksAssumption == MaxChunks \in Nat

\* What a chunk of a streamed answer, or the body of a whole one, is:
\*   "id"     a JSON object with an id       "noid"  one without
\*   "spaced" one with an id that JSONResponse would render differently
\*   "blank"  empty, or the [DONE] marker    "junk"  anything else
StreamChunk == {"id", "noid", "blank", "junk"}
WholeBody == {"id", "spaced", "noid", "junk"}

VARIABLES
    pc,           \* where the handler of a request is
    hash,         \* request_sha256: <<what it was computed from, of whom>>
    chatId,       \* chat_id
    hashed,       \* what the response hash covers so far
    client,       \* the httpx client: "none", "open" or "closed"
    feed,         \* vLLM's answer: "none", "open", "ended" or "broken"
    upstream,     \* what vLLM has sent of it
    delivered,    \* what was handed over to the caller
    answer,       \* how it looks to the caller, see Answer
    store         \* the signatures cached: [id, hash, response]

vars == <<pc, hash, chatId, hashed, client, feed, upstream, delivered, answer, store>>

\* "error": an HTTP error; "partial": a 200 under way; "cut": it broke off;
\* "complete": it ended properly; "gone": the caller disconnected.
Answer == {"none", "error", "partial", "cut", "complete", "gone"}

PC == {"new", "sending", "posting", "reading", "yielding", "ending", "closing",
       "responding", "done", "raised"}

\* cache.set_chat(chat_id, sign_chat(request_sha256:response_sha256))
Signed(r, id, response) ==
    {e \in store : e.id # id} \cup {[id |-> id, hash |-> hash[r], response |-> response]}

(***************************************************************************)
(* chat_completions and completions                                        *)
(***************************************************************************)
\* A non-empty X-Request-Hash is taken as it is; else the body is hashed as
\* it was received, not as it goes to vLLM without its empty tool calls.
Accept(r) ==
    /\ pc[r] = "new"
    /\ \E next \in {"sending", "posting"} : pc' = [pc EXCEPT ![r] = next]
    /\ \E source \in {"header", "body"} : hash' = [hash EXCEPT ![r] = <<source, r>>]
    /\ client' = [client EXCEPT ![r] = "open"]
    /\ UNCHANGED <<chatId, hashed, feed, upstream, delivered, answer, store>>

\* The body is not a JSON object: the global handler answers 500.
Reject(r) ==
    /\ pc[r] = "new"
    /\ pc' = [pc EXCEPT ![r] = "raised"]
    /\ answer' = [answer EXCEPT ![r] = "error"]
    /\ UNCHANGED <<hash, chatId, hashed, client, feed, upstream, delivered, store>>

(***************************************************************************)
(* stream_vllm_response                                                    *)
(***************************************************************************)
\* client.send or reading a non-200 answer raises; nobody closes the client.
SendRaises(r) ==
    /\ pc[r] = "sending"
    /\ pc' = [pc EXCEPT ![r] = "raised"]
    /\ answer' = [answer EXCEPT ![r] = "error"]
    /\ UNCHANGED <<hash, chatId, hashed, client, feed, upstream, delivered, store>>

\* A non-200 answer is passed on as it is, unsigned.
PassError(r) ==
    /\ pc[r] = "sending"
    /\ pc' = [pc EXCEPT ![r] = "done"]
    /\ client' = [client EXCEPT ![r] = "closed"]
    /\ answer' = [answer EXCEPT ![r] = "error"]
    /\ UNCHANGED <<hash, chatId, hashed, feed, upstream, delivered, store>>

StartStream(r) ==
    /\ pc[r] = "sending"
    /\ pc' = [pc EXCEPT ![r] = "reading"]
    /\ feed' = [feed EXCEPT ![r] = "open"]
    /\ answer' = [answer EXCEPT ![r] = "partial"]
    /\ UNCHANGED <<hash, chatId, hashed, client, upstream, delivered, store>>

\* An exception in generate_stream breaks the answer off; the background
\* tasks that would close response and client do not run.
Raise(r) ==
    /\ pc' = [pc EXCEPT ![r] = "raised"]
    /\ answer' = [answer EXCEPT ![r] = "cut"]

\* Mutant: only what follows the chunk with the id is hashed.
Receive_HashLate(r, chunk) ==
    /\ pc[r] = "reading"
    /\ Len(upstream[r]) < MaxChunks
    /\ upstream' = [upstream EXCEPT ![r] = Append(@, chunk)]
    /\ hashed' = IF chatId[r] = NoId THEN hashed
                 ELSE [hashed EXCEPT ![r] = Append(@, chunk)]
    /\ chatId[r] # NoId \/ chunk \in {"id", "noid"}
    /\ chatId' = IF chunk = "id" THEN [chatId EXCEPT ![r] = r] ELSE chatId
    /\ pc' = [pc EXCEPT ![r] = "yielding"]
    /\ UNCHANGED <<hash, client, feed, delivered, answer, store>>

\* A chunk is hashed first.  While there is no id yet a blank one is skipped,
\* one that is no JSON object raises, and an id is remembered.
Receive(r, chunk) ==
    /\ pc[r] = "reading"
    /\ Len(upstream[r]) < MaxChunks
    /\ upstream' = [upstream EXCEPT ![r] = Append(@, chunk)]
    /\ hashed' = [hashed EXCEPT ![r] = Append(@, chunk)]
    /\ \/ /\ chatId[r] = NoId /\ chunk = "blank"
          /\ UNCHANGED <<pc, chatId, answer>>
       \/ /\ chatId[r] = NoId /\ chunk = "junk"
          /\ Raise(r)
          /\ UNCHANGED chatId
       \/ /\ chatId[r] # NoId \/ chunk \in {"id", "noid"}
          /\ chatId' = IF chatId[r] = NoId /\ chunk = "id"
                       THEN [chatId EXCEPT ![r] = r] ELSE chatId
          /\ pc' = [pc EXCEPT ![r] = "yielding"]
          /\ UNCHANGED answer
    /\ UNCHANGED <<hash, client, feed, delivered, store>>

\* yield chunk: the caller's connection has taken it.
Deliver(r) ==
    /\ pc[r] = "yielding"
    /\ pc' = [pc EXCEPT ![r] = "reading"]
    /\ delivered' = [delivered EXCEPT ![r] = Append(@, upstream[r][Len(upstream[r])])]
    /\ UNCHANGED <<hash, chatId, hashed, client, feed, upstream, answer, store>>

\* Mutant: signs without looking whether an id was found.
EndStream_NoIdCheck(r) ==
    /\ pc[r] = "reading"
    /\ feed' = [feed EXCEPT ![r] = "ended"]
    /\ store' = Signed(r, chatId[r], hashed[r])
    /\ pc' = [pc EXCEPT ![r] = "ending"]
    /\ UNCHANGED <<hash, chatId, hashed, client, upstream, delivered, answer>>

\* Mutant: leaves the signing to a task that runs after the end of stream.
EndStream_SignLater(r) ==
    /\ pc[r] = "reading"
    /\ feed' = [feed EXCEPT ![r] = "ended"]
    /\ pc' = [pc EXCEPT ![r] = "ending"]
    /\ UNCHANGED <<hash, chatId, hashed, client, upstream, delivered, answer, store>>

\* The answer ends: it is signed and stored, or raises for want of an id,
\* before the caller can see the end.
EndStream(r) ==
    /\ pc[r] = "reading"
    /\ feed' = [feed EXCEPT ![r] = "ended"]
    /\ IF chatId[r] # NoId
       THEN /\ store' = Signed(r, chatId[r], hashed[r])
            /\ pc' = [pc EXCEPT ![r] = "ending"]
            /\ UNCHANGED answer
       ELSE Raise(r) /\ UNCHANGED store
    /\ UNCHANGED <<hash, chatId, hashed, client, upstream, delivered>>

\* Mutant: signs in a finally clause, also when the answer broke off.
BreakStream_Finally(r) ==
    /\ pc[r] = "reading"
    /\ feed' = [feed EXCEPT ![r] = "broken"]
    /\ Raise(r)
    /\ store' = IF chatId[r] # NoId THEN Signed(r, chatId[r], hashed[r]) ELSE store
    /\ UNCHANGED <<hash, chatId, hashed, client, upstream, delivered>>

\* vLLM breaks off, or is silent for TIMEOUT.
BreakStream(r) ==
    /\ pc[r] = "reading"
    /\ feed' = [feed EXCEPT ![r] = "broken"]
    /\ Raise(r)
    /\ UNCHANGED <<hash, chatId, hashed, client, upstream, delivered, store>>

\* The caller sees the end of the stream.
Eof(r) ==
    /\ pc[r] = "ending"
    /\ pc' = [pc EXCEPT ![r] = "closing"]
    /\ answer' = [answer EXCEPT ![r] = "complete"]
    /\ UNCHANGED <<hash, chatId, hashed, client, feed, upstream, delivered, store>>

\* Mutant: a disconnect skips the background tasks.
Disconnect_NoBackground(r) ==
    /\ pc[r] \in {"reading", "yielding", "ending"}
    /\ pc' = [pc EXCEPT ![r] = "done"]
    /\ answer' = [answer EXCEPT ![r] = "gone"]
    /\ UNCHANGED <<hash, chatId, hashed, client, feed, upstream, delivered, store>>

\* Mutant: the generator is not cancelled but goes on for nobody.
Disconnect_KeepsReading(r) ==
    /\ pc[r] \in {"reading", "yielding", "ending"}
    /\ answer[r] = "partial"
    /\ answer' = [answer EXCEPT ![r] = "gone"]
    /\ UNCHANGED <<pc, hash, chatId, hashed, client, feed, upstream, delivered, store>>

\* The caller disconnects: the generator is cancelled where it waits.
Disconnect(r) ==
    /\ pc[r] \in {"reading", "yielding", "ending"}
    /\ pc' = [pc EXCEPT ![r] = "closing"]
    /\ answer' = [answer EXCEPT ![r] = "gone"]
    /\ UNCHANGED <<hash, chatId, hashed, client, feed, upstream, delivered, store>>

\* The background tasks close response and client.
Close(r) ==
    /\ pc[r] = "closing"
    /\ pc' = [pc EXCEPT ![r] = "done"]
    /\ client' = [client EXCEPT ![r] = "closed"]
    /\ UNCHANGED <<hash, chatId, hashed, feed, upstream, delivered, answer, store>>

(***************************************************************************)
(* non_stream_vllm_response: its client is closed however it ends          *)
(***************************************************************************)
\* client.post raises, or the answer is not 200.
PostFails(r) ==
    /\ pc[r] = "posting"
    /\ pc' = [pc EXCEPT ![r] = "raised"]
    /\ client' = [client EXCEPT ![r] = "closed"]
    /\ answer' = [answer EXCEPT ![r] = "error"]
    /\ UNCHANGED <<hash, chatId, hashed, feed, upstream, delivered, store>>

\* The whole body is there; it is signed as it is if it carries an id.
PostAnswered(r, body) ==
    /\ pc[r] = "posting"
    /\ feed' = [feed EXCEPT ![r] = "ended"]
    /\ upstream' = [upstream EXCEPT ![r] = <<body>>]
    /\ client' = [client EXCEPT ![r] = "closed"]
    /\ IF body \in {"id", "spaced"}
       THEN /\ chatId' = [chatId EXCEPT ![r] = r]
            /\ hashed' = [hashed EXCEPT ![r] = <<body>>]
            /\ store' = Signed(r, r, <<body>>)
            /\ pc' = [pc EXCEPT ![r] = "responding"]
            /\ UNCHANGED answer
       ELSE /\ pc' = [pc EXCEPT ![r] = "raised"]
            /\ answer' = [answer EXCEPT ![r] = "error"]
            /\ UNCHANGED <<chatId, hashed, store>>
    /\ UNCHANGED <<hash, delivered>>

\* JSONResponse renders the parsed body anew.
Respond(r) ==
    /\ pc[r] = "responding"
    /\ pc' = [pc EXCEPT ![r] = "done"]
    /\ delivered' = [delivered EXCEPT ![r] = <<"id">>]
    /\ answer' = [answer EXCEPT ![r] = "complete"]
    /\ UNCHANGED <<hash, chatId, hashed, client, feed, upstream, store>>

(***************************************************************************)
(* Specification                                                           *)
(***************************************************************************)
Init ==
    /\ pc = [r \in Request |-> "new"]
    /\ hash = [r \in Request |-> <<"none", r>>]
    /\ chatId = [r \in Request |-> NoId]
    /\ hashed = [r \in Request |-> <<>>]
    /\ client = [r \in Request |-> "none"]
    /\ feed = [r \in Request |-> "none"]
    /\ upstream = [r \in Request |-> <<>>]
    /\ delivered = [r \in Request |-> <<>>]
    /\ answer = [r \in Request |-> "none"]
    /\ store = {}

\* What the handler of r does next, with whatever vLLM has for it.
Handle(r) ==
    \/ SendRaises(r) \/ PassError(r) \/ StartStream(r)
    \/ \E chunk \in StreamChunk : Receive(r, chunk)
    \/ Deliver(r) \/ EndStream(r) \/ BreakStream(r) \/ Eof(r) \/ Close(r)
    \/ PostFails(r)
    \/ \E body \in WholeBody : PostAnswered(r, body)
    \/ Respond(r)

Next == \E r \in Request : Accept(r) \/ Reject(r) \/ Handle(r) \/ Disconnect(r)

Spec == Init /\ [][Next]_vars

\* The loop runs every handler that can go on, and vLLM sends, ends or
\* breaks off every answer: silence becomes a ReadTimeout after TIMEOUT.
FairSpec == Spec /\ \A r \in Request : WF_vars(Handle(r))

(***************************************************************************)
(* Properties                                                              *)
(***************************************************************************)
Chunk == StreamChunk \cup WholeBody

Entry == [id : Request, hash : {"header", "body"} \X Request, response : Seq(Chunk)]

TypeOK ==
    /\ pc \in [Request -> PC]
    /\ hash \in [Request -> {"none", "header", "body"} \X Request]
    /\ chatId \in [Request -> Request \cup {NoId}]
    /\ hashed \in [Request -> Seq(Chunk)]
    /\ client \in [Request -> {"none", "open", "closed"}]
    /\ feed \in [Request -> {"none", "open", "ended", "broken"}]
    /\ upstream \in [Request -> Seq(Chunk)]
    /\ delivered \in [Request -> Seq(Chunk)]
    /\ answer \in [Request -> Answer]
    /\ store \subseteq Entry

\* A signature is only ever made of a whole answer: one that vLLM ended,
\* every chunk of it, paired with the hash of the very request it answers,
\* however many requests are relayed at once, break off or lose their caller.
SignedIsWhole ==
    \A e \in store : /\ feed[e.id] = "ended"
                     /\ e.response = upstream[e.id]
                     /\ e.hash = hash[e.id]

\* A caller that sees its answer end properly can ask for its signature at
\* once: the id was in what it received and is in the cache.
CompleteIsSigned ==
    \A r \in Request : answer[r] = "complete" =>
        \E e \in store : e.id = r /\ hash[r] = e.hash

\* Whether the caller of a complete answer computes the hash that was signed.
Verifies(r) == \E e \in store : e.id = r /\ e.response = delivered[r]

\* The answer starts with its id and is rendered as the proxy would.
WellFormed(r) ==
    /\ \A i \in DOMAIN upstream[r] : upstream[r][i] # "spaced"
    /\ upstream[r] # <<>> /\ upstream[r][1] = "id"

\* What the caller of a well-formed answer received is what was signed,
\* chunk by chunk; later blank or unparsable chunks are relayed like others.
WellFormedVerifies ==
    \A r \in Request : answer[r] = "complete" /\ WellFormed(r) => Verifies(r)

\* Seen by the callers and by those who fetch signatures, the proxy behaves as
\* SignedAnswers says: in particular the generator that was cancelled, broke
\* off or ended does not come back to yield or to sign.
SignatureOf(r) == {<<e.hash, e.response>> : e \in {x \in store : x.id = r}}

Answers == INSTANCE SignedAnswers WITH signature <- [r \in Request |-> SignatureOf(r)]

ImplementsAnswers == Answers!Spec

\* Every request that was accepted comes to an end, and gives back its client
\* unless its handler raised.
HandlersEnd ==
    \A r \in Request :
        pc[r] # "new" ~> pc[r] = "raised" \/ (pc[r] = "done" /\ client[r] = "closed")

(***************************************************************************)
(* What the verifier's README says: "Response text hash matches            *)
(* server-computed hash".                                                  *)
(***************************************************************************)
ResponseHashMatches ==
    \A r \in Request : answer[r] = "complete" => Verifies(r)
============================================================================

--------------------------- MODULE SigningService ---------------------------
(***************************************************************************)
(* The whole way of a signature: a chat is relayed and signed by one of    *)
(* the proxy servers (ChatProxy), its signature goes through the two       *)
(* layers of the cache (ChatCache) to whatever server the balancer sends   *)
(* the client to, and the client has its key attested (SignatureVerifier). *)
(*                                                                         *)
(* A chat stands for its request.  The set_chat at the end of a handler is *)
(* the cache's; a restart takes the handlers of the server with it.        *)
(***************************************************************************)
EXTENDS SignatureVerifier

CONSTANTS
    NoId,         \* chat_id is None
    MaxChunks     \* bound on the chunks of a streamed answer

ASSUME NoIdAssumption == NoId \notin Chat
ASSUME MaxChunksAssumption == MaxChunks \in Nat

VARIABLES
    at,           \* at[c]: the server that the balancer sent the request to
    pc, hash, chatId, hashed, client, feed, upstream, delivered, answer, store

Proxy == INSTANCE ChatProxy WITH Request <- Chat

proxyVars == <<at, pc, hash, chatId, hashed, client, feed, upstream, delivered, answer, store>>
serviceVars == <<allVars, proxyVars>>

(***************************************************************************)
(* The servers                                                             *)
(***************************************************************************)
Arrives(c, s) ==
    /\ Proxy!Accept(c) \/ Proxy!Reject(c)
    /\ at' = [at EXCEPT ![c] = s]
    /\ UNCHANGED allVars

\* A step of a handler; the one that stores a signature sets it in the cache.
Relays(c) ==
    /\ Proxy!Handle(c) \/ Proxy!Disconnect(c)
    /\ IF store' = store THEN UNCHANGED allVars
       ELSE \E outcome \in CallOutcome : Sign(at[c], c, outcome)
    /\ UNCHANGED at

\* The process dies with its handlers and their connections to both sides.
ServerDies(s) ==
    LET hit == {c \in Chat : at[c] = s /\ pc[c] \notin {"new", "done", "raised"}} IN
    /\ RestartServer(s)
    /\ pc' = [c \in Chat |-> IF c \in hit THEN "raised" ELSE pc[c]]
    /\ client' = [c \in Chat |-> IF c \in hit THEN "closed" ELSE client[c]]
    /\ answer' = [c \in Chat |-> CASE c \in hit /\ answer[c] = "none" -> "error"
                                   [] c \in hit /\ answer[c] = "partial" -> "cut"
                                   [] OTHER -> answer[c]]
    /\ UNCHANGED <<at, hash, chatId, hashed, feed, upstream, delivered, store>>

(***************************************************************************)
(* The clients                                                             *)
(***************************************************************************)
\* A caller knows the id of its chat from what was delivered to it.
Knows(c) == \E i \in DOMAIN delivered[c] : delivered[c][i] = "id"

Fetches(v, s, c, outcome) ==
    /\ Knows(c)
    /\ FetchSignature(v, s, c, outcome)
    /\ UNCHANGED proxyVars

\* The walk-through of attestation_verifier.py needs no chat.
WalksThrough(v) == AskAnyAttestation(v) /\ UNCHANGED proxyVars

Verifies(v) == Verify(v) /\ UNCHANGED proxyVars

(***************************************************************************)
(* Specification                                                           *)
(***************************************************************************)
ServiceInit == VInit /\ Proxy!Init /\ at = [c \in Chat |-> Nobody]

ServiceNext ==
    \/ \E c \in Chat : Relays(c) \/ \E s \in Server : Arrives(c, s)
    \/ \E s \in Server : ServerDies(s)
    \/ CacheEnvironment /\ UNCHANGED proxyVars
    \/ \E v \in Verifier, s \in Server, c \in Chat, outcome \in CallOutcome :
           Fetches(v, s, c, outcome)
    \/ \E v \in Verifier : WalksThrough(v) \/ Verifies(v)

ServiceSpec == ServiceInit /\ [][ServiceNext]_serviceVars

\* The verifier goes on once it has a signature (its requests time out).
ServiceFairSpec == ServiceSpec /\ \A v \in Verifier : WF_serviceVars(Verifies(v))

(***************************************************************************)
(* Properties                                                              *)
(***************************************************************************)
\* A caller that has seen its answer end and asks the server that gave it,
\* finds the signature however Redis fares, unless that server restarted,
\* the signature expired or MaxSize others pushed it out.  (Before the end,
\* be it after the [DONE] line, it may find nothing and has to ask again.)
CompleteIsServed ==
    \A c \in Chat : \A outcome \in CallOutcomes(at[c]) :
        answer[c] = "complete" /\ ~Found(at[c], c, outcome)
        => c \in orphaned \/ age[c] = TTL \/ Cardinality(others[c]) >= MaxSize

\* What a client accepts was made for a whole answer: the key it had attested
\* signed, in that life of its server, what vLLM had sent to the end, and
\* paired with the hash of the request.
AcceptedAnswerIsWhole ==
    \A v \in Verifier : stage[v] = "accepted" =>
        \E c \in Chat : /\ key[c] = <<wanted[v][1], wanted[v][2]>>
                        /\ at[c] = wanted[v][1]
                        /\ feed[c] = "ended"
                        /\ [id |-> c, hash |-> hash[c], response |-> upstream[c]] \in store

\* The signature that any server hands out for a well-formed answer that ended
\* fits what its caller has, end to end: it was made of that very request and of
\* every chunk delivered, with a key of the server that gave the answer.
SignatureFits ==
    \A c \in Chat : answer[c] = "complete" /\ Proxy!WellFormed(c) =>
        /\ [id |-> c, hash |-> hash[c], response |-> delivered[c]] \in store
        /\ \A e \in store : e.id = c => e.response = delivered[c]
        /\ key[c][1] = at[c] /\ key[c][2] <= era[at[c]]
=============================================================================

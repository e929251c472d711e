--------------------------- MODULE SignedAnswers ---------------------------
(***************************************************************************)
(* What the proxy (vllm-proxy/src/app/api/v1/openai.py) promises to its    *)
(* callers, abstractly: an answer is handed over bit by bit or at once, is *)
(* signed at most once and only while it is under way, is complete only    *)
(* with its signature, and when it is over, however it came to that,       *)
(* nothing is added to it any more: no part, no end and no signature.      *)
(***************************************************************************)
EXTENDS Sequences

CONSTANTS
    Request,    \* the requests served
    Chunk       \* what an answer is made of

VARIABLES
    answer,     \* answer[r]: "none", "partial", or how it ended
    delivered,  \* delivered[r]: what the caller has of it
    signature   \* signature[r]: the signatures stored under its id

vars == <<answer, delivered, signature>>

Init ==
    /\ answer = [r \in Request |-> "none"]
    /\ delivered = [r \in Request |-> <<>>]
    /\ signature = [r \in Request |-> {}]

Begin(r) ==
    /\ answer[r] = "none"
    /\ answer' = [answer EXCEPT ![r] = "partial"]
    /\ UNCHANGED <<delivered, signature>>

\* The caller gets a further part; what is signed has no further parts.
HandOver(r) ==
    /\ answer[r] = "partial" /\ signature[r] = {}
    /\ \E chunk \in Chunk : delivered' = [delivered EXCEPT ![r] = Append(@, chunk)]
    /\ UNCHANGED <<answer, signature>>

\* One signature is made, of an answer that is not over.
Sign(r) ==
    /\ answer[r] \in {"none", "partial"} /\ signature[r] = {}
    /\ \E s \in signature'[r] : signature' = [signature EXCEPT ![r] = {s}]
    /\ UNCHANGED <<answer, delivered>>

\* The caller sees the end of its answer, or a whole answer at once.
Complete(r) ==
    /\ signature[r] # {}
    /\ answer' = [answer EXCEPT ![r] = "complete"]
    /\ \/ answer[r] = "partial" /\ UNCHANGED delivered
       \/ answer[r] = "none" /\ \E body \in Chunk : delivered' = [delivered EXCEPT ![r] = <<body>>]
    /\ UNCHANGED signature

\* The caller goes away.
Leave(r) ==
    /\ answer[r] = "partial"
    /\ answer' = [answer EXCEPT ![r] = "gone"]
    /\ UNCHANGED <<delivered, signature>>

\* Answers that are not over fail: before they began, or half-way.
Fail ==
    /\ \E failed \in SUBSET {r \in Request : answer[r] \in {"none", "partial"}} :
           answer' = [r \in Request |-> IF r \notin failed THEN answer[r]
                                        ELSE IF answer[r] = "none" THEN "error" ELSE "cut"]
    /\ UNCHANGED <<delivered, signature>>

Next ==
    \/ \E r \in Request : Begin(r) \/ HandOver(r) \/ Sign(r) \/ Complete(r) \/ Leave(r)
    \/ Fail

Spec == Init /\ [][Next]_vars
=============================================================================

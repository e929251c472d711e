--------------------------- MODULE SignatureStore ---------------------------
(***************************************************************************)
(* What the signature cache of the proxy (vllm-proxy/src/app/cache) is to  *)
(* those who ask for signatures: one store, in which a signature is held   *)
(* from the moment of signing for at most CHAT_CACHE_EXPIRATION, may be    *)
(* lost before, and does not come back.  "A cache.get_chat that finds      *)
(* nothing" is all that a client learns: "Chat id not found or expired".   *)
(*                                                                         *)
(* One exception is part of the promise: a write to the shared layer may   *)
(* still be under way when its server has given up on it.  It can put the  *)
(* signature back once, with a whole time to live of its own.              *)
(***************************************************************************)
EXTENDS Naturals

CONSTANTS
    Chat,      \* chat ids
    TTL        \* CHAT_CACHE_EXPIRATION

VARIABLES
    status,    \* status[c]: "unsigned", "held" or "gone"
    age,       \* age[c]: time since c was signed, stopping at TTL
    underway,  \* chats with a delayed write under way
    late       \* chats whose delayed write has arrived

vars == <<status, age, underway, late>>

HeldChats == {c \in Chat : status[c] = "held"}

\* What is left when the chats in lost are.
Without(lost) == [c \in Chat |-> IF c \in lost THEN "gone" ELSE status[c]]

Init ==
    /\ status = [c \in Chat |-> "unsigned"]
    /\ age = [c \in Chat |-> 0]
    /\ underway = {}
    /\ late = {}

\* c is signed; others may be pushed out to make room for it.
Sign(c) ==
    /\ status[c] = "unsigned"
    /\ \E lost \in SUBSET HeldChats : status' = [Without(lost) EXCEPT ![c] = "held"]
    /\ underway' \in {underway, underway \cup {c}}
    /\ UNCHANGED <<age, late>>

Lose ==
    /\ \E lost \in SUBSET HeldChats : status' = Without(lost)
    /\ UNCHANGED <<age, underway, late>>

\* The delayed write of c arrives.
Arrive(c) ==
    /\ c \in underway
    /\ status' = [status EXCEPT ![c] = "held"]
    /\ underway' = underway \ {c}
    /\ late' = late \cup {c}
    /\ UNCHANGED age

\* Time passes: what has reached its time to live is lost, unless it arrived
\* late.
Pass ==
    /\ age' = [c \in Chat |-> IF status[c] # "unsigned" /\ age[c] < TTL
                              THEN age[c] + 1 ELSE age[c]]
    /\ \E lost \in SUBSET HeldChats :
           /\ {c \in HeldChats \ late : age'[c] = TTL} \subseteq lost
           /\ status' = Without(lost)
    /\ UNCHANGED <<underway, late>>

Next == (\E c \in Chat : Sign(c) \/ Arrive(c)) \/ Lose \/ Pass

Spec == Init /\ [][Next]_vars
=============================================================================

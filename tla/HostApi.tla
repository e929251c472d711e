------------------------------ MODULE HostApi ------------------------------
(***************************************************************************)
(* The host API server of an instance                                      *)
(* (meta-dstack-nvidia/scripts/bin/host_api.py): the guest gets its        *)
(* sealing key through it from the key provider and notifies it of its     *)
(* instance info.  HTTPServer serves one connection at a time, so a call   *)
(* waits in the backlog while an earlier one is served; an exception drops *)
(* the connection without an answer, and the server goes on.               *)
(*                                                                         *)
(* The key provider is another process.  It answers with a length of four  *)
(* bytes and that many bytes, which TCP delivers in any portions.          *)
(***************************************************************************)
EXTENDS Naturals, Sequences

CONSTANTS
    Call,        \* calls the guest makes, each over a connection of its own
    Nothing,     \* no call is being served; no one wrote .instance_info
    Length       \* bytes of the key provider's answer after its length

ASSUME NothingAssumption == Nothing \notin Call
ASSUME LengthAssumption == Length \in Nat

HeaderSize == 4

\* What a call turns out to ask for.
Kind == {"key", "info", "noPayload", "otherEvent", "unknown", "tooLarge", "malformed"}

VARIABLES
    queue,       \* connections that wait for the server
    serving,     \* the call being served
    kind,        \* kind[c], known to the server once c is being read
    step,        \* what the server is doing with it
    header,      \* bytes of the length that it received, in one recv(4)
    body,        \* bytes of response_data so far
    sent,        \* sent[c]: bytes the provider has written for c
    closed,      \* the provider has closed the connection in use
    outcome,     \* outcome[c]: HTTP status, 0 for none, 1 for dropped
    info         \* who wrote .instance_info last; "empty" if truncated only

vars == <<queue, serving, kind, step, header, body, sent, closed, outcome, info>>

Dropped == 1

Init ==
    /\ queue = <<>>
    /\ serving = Nothing
    /\ kind \in [Call -> Kind]
    /\ step = "idle"
    /\ header = 0
    /\ body = 0
    /\ sent = [c \in Call |-> 0]
    /\ closed = FALSE
    /\ outcome = [c \in Call |-> 0]
    /\ info = <<Nothing>>

InQueue(c) == \E i \in DOMAIN queue : queue[i] = c

Connect(c) ==
    /\ outcome[c] = 0 /\ ~InQueue(c) /\ serving # c
    /\ queue' = Append(queue, c)
    /\ UNCHANGED <<serving, kind, step, header, body, sent, closed, outcome, info>>

Take ==
    /\ step = "idle" /\ queue # <<>>
    /\ serving' = Head(queue)
    /\ queue' = Tail(queue)
    /\ step' = "reading"
    /\ UNCHANGED <<kind, header, body, sent, closed, outcome, info>>

\* respond, or an exception on the way to it: the connection is closed.
Finish(status) ==
    /\ outcome' = [outcome EXCEPT ![serving] = status]
    /\ serving' = Nothing
    /\ step' = "idle"
    /\ header' = 0
    /\ body' = 0
    /\ closed' = FALSE

(***************************************************************************)
(* do_POST                                                                 *)
(***************************************************************************)
\* The guest goes away, or sends no Content-Length or no JSON.
ReadFails ==
    /\ step = "reading"
    /\ Finish(Dropped)
    /\ UNCHANGED <<queue, kind, sent, info>>

\* The answer gets to the guest, unless the guest has gone in the meantime.
Respond(status) == Finish(status) \/ Finish(Dropped)

\* Mutant: a notification without payload is taken for an empty one.
Dispatch_NoPayloadIsEmpty ==
    /\ step = "reading"
    /\ CASE kind[serving] = "key" ->
                /\ step' = "connecting"
                /\ UNCHANGED <<serving, header, body, closed, outcome, info>>
         [] kind[serving] = "info" -> Respond(200) /\ info' = <<serving>>
         [] kind[serving] = "noPayload" -> Respond(200) /\ info' = <<"empty">>
         [] kind[serving] = "otherEvent" -> Respond(200) /\ UNCHANGED info
         [] kind[serving] = "unknown" -> Respond(404) /\ UNCHANGED info
         [] kind[serving] = "tooLarge" -> Respond(400) /\ UNCHANGED info
         [] kind[serving] = "malformed" -> Finish(Dropped) /\ UNCHANGED info
    /\ UNCHANGED <<queue, kind, sent>>

\* Everything but a key request is answered at once.  The file is opened for
\* writing, and truncated, before the payload is looked up.
Dispatch ==
    /\ step = "reading"
    /\ CASE kind[serving] = "key" ->
                /\ step' = "connecting"
                /\ UNCHANGED <<serving, header, body, closed, outcome, info>>
         [] kind[serving] = "info" -> Respond(200) /\ info' = <<serving>>
         [] kind[serving] = "noPayload" -> Finish(Dropped) /\ info' = <<"empty">>
         [] kind[serving] = "otherEvent" -> Respond(200) /\ UNCHANGED info
         [] kind[serving] = "unknown" -> Respond(404) /\ UNCHANGED info
         [] kind[serving] = "tooLarge" -> Respond(400) /\ UNCHANGED info
         [] kind[serving] = "malformed" -> Finish(Dropped) /\ UNCHANGED info
    /\ UNCHANGED <<queue, kind, sent>>

(***************************************************************************)
(* get_key                                                                 *)
(***************************************************************************)
\* The provider cannot be reached.
ConnectFails ==
    /\ step = "connecting"
    /\ Finish(Dropped)
    /\ UNCHANGED <<queue, kind, sent, info>>

SendQuote ==
    /\ step = "connecting"
    /\ step' = "length"
    /\ UNCHANGED <<queue, serving, kind, header, body, sent, closed, outcome, info>>

\* What the provider has written and the server has not read.
Unread == sent[serving] - header - body

Smaller(a, b) == IF a < b THEN a ELSE b

\* Mutant: takes whatever recv(4) returned for the length.
RecvLength_Short ==
    /\ step = "length" /\ Unread > 0
    /\ header' = Smaller(Unread, HeaderSize)
    /\ step' = "body"
    /\ UNCHANGED <<queue, serving, kind, body, sent, closed, outcome, info>>

\* recv(4) returns what is there, at most four bytes; fewer do not unpack.
RecvLength ==
    /\ step = "length" /\ (Unread > 0 \/ closed)
    /\ IF Unread < HeaderSize
       THEN Finish(Dropped)
       ELSE /\ header' = HeaderSize
            /\ step' = "body"
            /\ UNCHANGED <<serving, body, closed, outcome>>
    /\ UNCHANGED <<queue, kind, sent, info>>

\* Mutant: one recv for the whole answer.
RecvBody_Once ==
    /\ step = "body" /\ Unread > 0
    /\ Finish(200)
    /\ UNCHANGED <<queue, kind, sent, info>>

\* Portions are added until the length is reached.
RecvBody ==
    /\ step = "body" /\ body < Length /\ Unread > 0
    /\ body' = body + Smaller(Unread, Length - body)
    /\ UNCHANGED <<queue, serving, kind, step, header, sent, closed, outcome, info>>

\* Mutant: an empty portion is not taken for the end of the connection.
RecvEof_Ignored ==
    /\ step = "body" /\ body < Length /\ Unread = 0 /\ closed
    /\ UNCHANGED vars

\* "Connection closed prematurely"
RecvEof ==
    /\ step = "body" /\ body < Length /\ Unread = 0 /\ closed
    /\ Finish(Dropped)
    /\ UNCHANGED <<queue, kind, sent, info>>

\* The answer is complete; it holds a key or raises.
AnswerKey ==
    /\ step = "body" /\ body >= Length
    /\ Respond(200)
    /\ UNCHANGED <<queue, kind, sent, info>>

(***************************************************************************)
(* The key provider                                                        *)
(***************************************************************************)
ProviderWrites ==
    /\ step \in {"length", "body"} /\ ~closed
    /\ \E n \in 1..(HeaderSize + Length) :
           /\ sent[serving] + n <= HeaderSize + Length
           /\ sent' = [sent EXCEPT ![serving] = @ + n]
    /\ UNCHANGED <<queue, serving, kind, step, header, body, closed, outcome, info>>

ProviderCloses ==
    /\ step \in {"length", "body"} /\ ~closed
    /\ closed' = TRUE
    /\ UNCHANGED <<queue, serving, kind, step, header, body, sent, outcome, info>>

(***************************************************************************)
(* Specification                                                           *)
(***************************************************************************)
Server == \/ Take \/ ReadFails \/ Dispatch
          \/ ConnectFails \/ SendQuote \/ RecvLength \/ RecvBody \/ RecvEof \/ AnswerKey

Next == Server \/ ProviderWrites \/ ProviderCloses \/ \E c \in Call : Connect(c)

Spec == Init /\ [][Next]_vars

\* The server runs, and the guest finishes or drops what it sends.  get_key
\* sets no timeout: that the provider writes or closes is an assumption on
\* the provider, and only the property below that needs it assumes it.
FairSpec == Spec /\ WF_vars(Server)

ProviderAlive == WF_vars(ProviderWrites \/ ProviderCloses)

(***************************************************************************)
(* Properties                                                              *)
(***************************************************************************)
TypeOK ==
    /\ queue \in Seq(Call)
    /\ serving \in Call \cup {Nothing}
    /\ step \in {"idle", "reading", "connecting", "length", "body"}
    /\ header \in {0, HeaderSize}
    /\ body \in 0..Length
    /\ sent \in [Call -> 0..(HeaderSize + Length)]
    /\ closed \in BOOLEAN
    /\ outcome \in [Call -> {0, Dropped, 200, 400, 404}]

\* A key is only answered when the provider's whole answer has been received,
\* in whatever portions it came.
KeyIsWhole ==
    \A c \in Call :
        kind[c] = "key" /\ outcome[c] = 200 => sent[c] = HeaderSize + Length

\* To the guest the server, with its backlog, its reads and writes and the
\* provider behind it, behaves as HostCalls says: no call overtakes another, none
\* is answered twice, what was answered 200 is in .instance_info until a later
\* notification, and one that empties the file is never acknowledged.
Calls == INSTANCE HostCalls WITH
             waiting <- IF serving = Nothing THEN queue ELSE <<serving>> \o queue

ImplementsCalls == Calls!Spec

\* Every call is answered or dropped, provided that the key provider does not
\* fall silent: one silent provider would hold up every later call.
CallsEnd ==
    ProviderAlive =>
        \A c \in Call : InQueue(c) ~> outcome[c] # 0
============================================================================

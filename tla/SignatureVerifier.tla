------------------------- MODULE SignatureVerifier -------------------------
(***************************************************************************)
(* How a client verifies a signed chat against several proxy servers       *)
(* behind a load balancer (vllm-proxy/verifiers, and the endpoints         *)
(* /v1/signature and /v1/attestation/report of openai.py and quote.py).    *)
(*                                                                         *)
(* The signature comes from the cache of whatever server the balancer      *)
(* picks (module ChatCache).  The attestation request names the signing    *)
(* address and is broadcast to every server; each one answers for the keys *)
(* it made when it started.  Servers restart, and copies expire, between   *)
(* any two of these steps.  A client may also ask for any attestation, of  *)
(* no address in particular (the walk-through of attestation_verifier.py). *)
(***************************************************************************)
EXTENDS ChatCache

CONSTANTS
    Verifier,     \* verifications under way, each of one chat
    MaxRestarts   \* bound on the restarts of a server

ASSUME MaxRestartsAssumption == MaxRestarts \in Nat

Algo == {"ecdsa", "ed25519"}

\* The signing_algo a client asks the signature for; "other" is a 400.
AlgoParam == Algo \cup {"other"}

\* The nonce a client sends: 32 bytes in hex of its own choice, nothing, or
\* something that is not 32 bytes in hex.
NonceParam == {"own", "absent", "bad"}

VARIABLES
    era,        \* era[s]: how often s has restarted; its keys last one era
    key,        \* key[c]: <<server, era>> that signed c
    stage,      \* where a verification is
    algo,       \* signing_algo it uses
    nonce,      \* nonce it sends
    wanted,     \* signing address that it has attested; NoAddress: anyone's
    heard,      \* servers that have answered the broadcast
    reports,    \* all_attestations merged so far
    drawn,      \* history: the servers' eras when its nonce was drawn
    faults      \* history: servers whose attestation failed

serverVars == <<era, key>>
verifierVars == <<stage, algo, nonce, wanted, heard, reports, drawn, faults>>
allVars == <<vars, era, key, stage, algo, nonce, wanted, heard, reports, drawn, faults>>

Stage == {"idle", "signed", "asking", "accepted", "attested", "unmatched", "refused", "missing"}

\* quote.py: ecdsa_context and ed25519_context, created at import.
Address(s, a) == <<s, era[s], a>>

NoAddress == <<Nobody, 0, "ecdsa">>

(***************************************************************************)
(* quote.py                                                                *)
(***************************************************************************)
\* _parse_nonce: the client's nonce, or a random one of the server's; a bad
\* one is a ValueError, HTTP 400.
NonceIsValid(n) == n # "bad"

\* The nonce of a report: the client's, or one of the server's own.
RequestNonce(s, v) == IF nonce[v] = "own" THEN <<"client", v>> ELSE <<"server", s>>

\* generate_attestation: what the TDX quote and the GPU evidence vouch for.
Report(s, v) == [address |-> Address(s, algo[v]),
                 reportData |-> <<Address(s, algo[v]), RequestNonce(s, v)>>,
                 gpuNonce |-> RequestNonce(s, v)]

(***************************************************************************)
(* The proxy servers                                                       *)
(***************************************************************************)
Sign(s, c, outcome) ==
    /\ SetChat(s, c, outcome)
    /\ key' = [key EXCEPT ![c] = <<s, era[s]>>]
    /\ UNCHANGED <<era, verifierVars>>

RestartServer(s) ==
    /\ era[s] < MaxRestarts
    /\ Restart(s)
    /\ era' = [era EXCEPT ![s] = @ + 1]
    /\ UNCHANGED <<key, verifierVars>>

CacheEnvironment ==
    /\ \/ Tick
       \/ \E status \in {"up", "flaky", "down"} : RedisBecomes(status)
       \/ \E c \in Chat : RedisDrops(c) \/ RedisCatchesUp(c)
    /\ UNCHANGED <<serverVars, verifierVars>>

(***************************************************************************)
(* Verification: fetch_signature, fetch_attestation_for, check_attestation *)
(***************************************************************************)
\* Mutant: takes the body of a 404 for a signature.
FetchSignature_No404(v, s, c, outcome) ==
    /\ stage[v] = "idle"
    /\ GetChat(s, c, outcome)
    /\ wanted' = [wanted EXCEPT ![v] = IF Found(s, c, outcome)
                                       THEN <<key[c][1], key[c][2], "ecdsa">> ELSE <<>>]
    /\ stage' = [stage EXCEPT ![v] = "signed"]
    /\ UNCHANGED <<serverVars, algo, nonce, heard, reports, drawn, faults>>

\* GET /signature/{chat_id} at some server: 404 on a miss, 400 for another
\* algorithm, else the address of the algorithm asked for.
FetchSignature(v, s, c, outcome) ==
    /\ stage[v] = "idle"
    /\ GetChat(s, c, outcome)
    /\ \E a \in AlgoParam :
           IF Found(s, c, outcome) /\ a \in Algo
           THEN /\ algo' = [algo EXCEPT ![v] = a]
                /\ wanted' = [wanted EXCEPT ![v] = <<key[c][1], key[c][2], a>>]
                /\ stage' = [stage EXCEPT ![v] = "signed"]
           ELSE /\ stage' = [stage EXCEPT ![v] = "missing"]
                /\ UNCHANGED <<algo, wanted>>
    /\ UNCHANGED <<serverVars, nonce, heard, reports, drawn, faults>>

\* The verifier draws a nonce and the balancer broadcasts its request.
Ask(v, n) ==
    /\ nonce' = [nonce EXCEPT ![v] = n]
    /\ stage' = [stage EXCEPT ![v] = "asking"]
    /\ drawn' = [drawn EXCEPT ![v] = era]
    /\ UNCHANGED <<vars, serverVars, algo, wanted, heard, reports, faults>>

\* For the address of a signature, or (main of attestation_verifier.py,
\* fetch_report) for none.
AskAttestation(v) == stage[v] = "signed" /\ \E n \in NonceParam : Ask(v, n)
AskAnyAttestation(v) == stage[v] = "idle" /\ Ask(v, "own")

\* signing_address is absent or the server's own.
Answers(s, v) == wanted[v] \in {NoAddress, Address(s, algo[v])}

\* Mutant: always answers for the ECDSA key.
AttestAt_DefaultAlgo(v, s) ==
    /\ stage[v] = "asking" /\ s \notin heard[v]
    /\ heard' = [heard EXCEPT ![v] = @ \cup {s}]
    /\ reports' = IF wanted[v] \in {NoAddress, Address(s, "ecdsa")} /\ NonceIsValid(nonce[v])
                  THEN [reports EXCEPT ![v] = @ \cup {Report(s, v)}] ELSE reports
    /\ UNCHANGED <<vars, serverVars, stage, algo, nonce, wanted, drawn, faults>>

\* Mutant: leaves a request for another address unanswered.
AttestAt_No404(v, s) ==
    /\ stage[v] = "asking" /\ s \notin heard[v]
    /\ Answers(s, v) /\ NonceIsValid(nonce[v])
    /\ heard' = [heard EXCEPT ![v] = @ \cup {s}]
    /\ reports' = [reports EXCEPT ![v] = @ \cup {Report(s, v)}]
    /\ UNCHANGED <<vars, serverVars, stage, algo, nonce, wanted, drawn, faults>>

\* attestation_report at s: 404 if the address is not its own, 400 for a bad
\* nonce, an error if the quote or the GPU evidence cannot be had.
AttestAt(v, s) ==
    /\ stage[v] = "asking" /\ s \notin heard[v]
    /\ heard' = [heard EXCEPT ![v] = @ \cup {s}]
    /\ \/ /\ Answers(s, v) /\ NonceIsValid(nonce[v])
          /\ reports' = [reports EXCEPT ![v] = @ \cup {Report(s, v)}]
          /\ UNCHANGED faults
       \/ /\ Answers(s, v) /\ NonceIsValid(nonce[v])
          /\ faults' = [faults EXCEPT ![v] = @ \cup {s}]
          /\ UNCHANGED reports
       \/ /\ ~Answers(s, v) \/ ~NonceIsValid(nonce[v])
          /\ UNCHANGED <<reports, faults>>
    /\ UNCHANGED <<vars, serverVars, stage, algo, nonce, wanted, drawn>>

\* all_attestations holds them in any order: one of the address, or the first.
Matching(v) == {report \in reports[v] : wanted[v] \in {NoAddress, report.address}}

\* Mutant: the nonce of the report is printed, not compared.
Embeds_Ignored(report, v) == report.reportData[1] = report.address

\* check_report_data, check_gpu: the quote binds the address and embeds the
\* nonce of this verification, and so does the GPU's payload.
Embeds(report, v) ==
    /\ report.reportData = <<report.address, <<"client", v>>>>
    /\ report.gpuNonce = <<"client", v>>

\* What the checks of one attestation come to, with or without a signature.
Verdict(report, v) == IF ~Embeds(report, v) THEN "refused"
                      ELSE IF wanted[v] = NoAddress THEN "attested" ELSE "accepted"

\* With every answer merged: one attestation is picked and checked.
Decide(v) ==
    /\ stage[v] = "asking" /\ heard[v] = Server
    /\ \/ /\ Matching(v) = {}
          /\ stage' = [stage EXCEPT ![v] = "unmatched"]
          /\ UNCHANGED wanted
       \/ \E report \in Matching(v) :
              /\ wanted' = [wanted EXCEPT ![v] = report.address]
              /\ stage' = [stage EXCEPT ![v] = Verdict(report, v)]
    /\ heard' = [heard EXCEPT ![v] = {}]
    /\ reports' = [reports EXCEPT ![v] = {}]
    /\ UNCHANGED <<vars, serverVars, algo, nonce, drawn, faults>>

(***************************************************************************)
(* Specification                                                           *)
(***************************************************************************)
VInit ==
    /\ Init
    /\ era = [s \in Server |-> 0]
    /\ key = [c \in Chat |-> <<Nobody, 0>>]
    /\ stage = [v \in Verifier |-> "idle"]
    /\ algo = [v \in Verifier |-> "ecdsa"]
    /\ nonce = [v \in Verifier |-> "absent"]
    /\ wanted = [v \in Verifier |-> NoAddress]
    /\ heard = [v \in Verifier |-> {}]
    /\ reports = [v \in Verifier |-> {}]
    /\ drawn = [v \in Verifier |-> era]
    /\ faults = [v \in Verifier |-> {}]

Verify(v) ==
    \/ AskAttestation(v)
    \/ \E s \in Server : AttestAt(v, s)
    \/ Decide(v)

VNext ==
    \/ \E s \in Server, c \in Chat, outcome \in CallOutcome : Sign(s, c, outcome)
    \/ \E s \in Server : RestartServer(s)
    \/ CacheEnvironment
    \/ \E v \in Verifier, s \in Server, c \in Chat, outcome \in CallOutcome :
           FetchSignature(v, s, c, outcome)
    \/ \E v \in Verifier : AskAnyAttestation(v) \/ Verify(v)

VSpec == VInit /\ [][VNext]_allVars

(***************************************************************************)
(* Properties                                                              *)
(***************************************************************************)
AddressSet == (Server \cup {Nobody}) \X (0..MaxRestarts) \X Algo

RequestNonceSet == ({"client"} \X Verifier) \cup ({"server"} \X Server)

ReportSet == [address : AddressSet,
              reportData : AddressSet \X RequestNonceSet,
              gpuNonce : RequestNonceSet]

VTypeOK ==
    /\ era \in [Server -> 0..MaxRestarts]
    /\ key \in [Chat -> (Server \cup {Nobody}) \X (0..MaxRestarts)]
    /\ stage \in [Verifier -> Stage]
    /\ algo \in [Verifier -> Algo]
    /\ nonce \in [Verifier -> NonceParam]
    /\ wanted \in [Verifier -> AddressSet]
    /\ heard \in [Verifier -> SUBSET Server]
    /\ reports \in [Verifier -> SUBSET ReportSet]
    /\ drawn \in [Verifier -> [Server -> 0..MaxRestarts]]
    /\ faults \in [Verifier -> SUBSET Server]

\* A verification succeeds only for a key that its server still held after the
\* verifier had drawn its nonce: a signature that outlived its server in
\* Redis is never accepted, nor an attestation made before it was asked for,
\* whichever servers restart while it is verified.
AcceptedKeyWasInUse ==
    \A v \in Verifier : stage[v] \in {"accepted", "attested"} =>
        /\ nonce[v] = "own"
        /\ drawn[v][wanted[v][1]] <= wanted[v][2]

\* A verification finds no attestation only if the server that signed has
\* restarted since or could not attest (every server, if any would do), or
\* the nonce was not acceptable.
UnmatchedIsExplained ==
    \A v \in Verifier : stage[v] = "unmatched" =>
        \/ nonce[v] = "bad"
        \/ wanted[v] = NoAddress /\ faults[v] = Server
        \/ /\ wanted[v] # NoAddress
           /\ \/ era[wanted[v][1]] # wanted[v][2]
              \/ wanted[v][1] \in faults[v]

\* An attestation once asked for is eventually verified or turned down, and
\* so is every signature that was fetched.
VerificationEnds ==
    \A v \in Verifier :
        stage[v] \in {"signed", "asking"}
            ~> stage[v] \in {"accepted", "attested", "unmatched", "refused", "missing"}

(***************************************************************************)
(* What verifiers/README.md says, "Verifier Flow": "Verifier finds matching *)
(* attestation by comparing signing_address in all_attestations".          *)
(***************************************************************************)
FindsMatchingAttestation ==
    \A v \in Verifier :
        stage[v] = "unmatched" => faults[v] # {} \/ nonce[v] = "bad"
============================================================================

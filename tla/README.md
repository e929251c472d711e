# A TLA+ model of private-ml-sdk

This directory models and verifies the parts of `private-ml-sdk` that keep state
and meet concurrency, failures or arithmetic at a boundary: the vLLM proxy that
signs chat answers inside a confidential VM (`vllm-proxy/`), the client-side
verification of those signatures, and the host tools that prepare, configure and
serve such a VM (`meta-dstack-nvidia/scripts/bin/`). Paths below are relative to
the repository.

`PROJECT.json` lists the components, the runs of TLC, the mutants that show each
property can fail, the source lines each definition stands for, the findings, the
hazards and the theorems.

## The system

| Component | State | Operations | Talks to |
| --- | --- | --- | --- |
| Signature cache (`vllm-proxy/src/app/cache`) | a TTLCache of 1000 entries per process; a shared Redis; a circuit breaker per process | `set_chat`, `get_chat` | Redis over a synchronous client with timeouts of 100 ms |
| Chat proxy (`app/api/v1/openai.py`) | per request: id, running digest, httpx client | `POST /v1/chat/completions`, `/v1/completions`, streamed or not | vLLM over HTTP, the caller, the cache |
| Attestation and signature endpoints (`openai.py`, `app/quote/quote.py`) | two signing keys made when the process starts | `GET /v1/signature/{id}`, `/v1/attestation/report` | the cache, the dstack daemon (TDX quote), the GPU |
| Client-side verification (`vllm-proxy/verifiers`) | a nonce per verification | `fetch_signature`, `fetch_attestation_for`, `check_attestation` | several proxies behind a load balancer that broadcasts attestation requests |
| Host API (`scripts/bin/host_api.py`) | one call at a time; `.instance_info` | `GetSealingKey`, `Notify` | the guest over HTTP, the key provider over a socket |
| dstack new/run/serve (`scripts/bin/dstack.py`) | the instance directory, the disk, QEMU | `setup_instance`, `run_instance`, `gen_vm_config`, `start_server` | the file system, QEMU; other dstack processes on the same directory |
| VM layout (`dstack.py`) | arguments, manifest, machine | sizes, NUMA nodes, buses | QEMU's command line |
| tag-vfio, `enable_vfio_passthrough.sh`; lsgpu | none of their own; the kernel's list of ids of vfio-pci | detect, load modules, tag with one retry; lsgpu prints | modprobe, lspci, sysfs; other invocations |
| Authorization, error answers, logging, start-up | none | | |
| Guest boot, image measurement, builds, Yocto layers, samples | files | sequential scripts and recipes | |

How they interact: a caller's request goes through the chat proxy, which relays
vLLM's answer, hashes it and leaves the signature in the cache under the id of
the answer. The caller later asks *some* server for the signature; it may come
from that server's memory or from Redis. It then asks *all* servers for an
attestation of the signing address, and exactly the process that holds the key
can answer. On the host, `dstack new` prepares an instance directory, `dstack run`
writes the guest's configuration into it, starts the host API in a thread and
QEMU as a child, and the guest uses the host API to get its sealing key.

What is hard in this code:

* **Two copies, two clocks.** The cache layers expire independently, are written
  independently, and either write can be lost. What may a reader conclude from a
  miss? Can a copy be served too long?
* **A breaker shared by reads and writes.** It bounds how often a broken Redis
  stalls the event loop, and must not cut off a healthy one.
* **Signing at the end of a stream** that can break off, lose its caller, carry no
  id, or begin with chunks that are skipped, with other streams in between.
* **Keys live in memory, signatures in Redis.** A restart separates them, possibly
  in the middle of a verification.
* **A single-threaded server with a blocking upstream** (the host API).
* **Read, truncate, write** on configuration files by processes that nothing keeps
  apart and that may die in between.
* **Remove, then write again** on the host's list of VFIO ids, by tools that can be
  run twice and interrupted.
* **Integer arithmetic** that must add up for QEMU: CPUs, memory, bus numbers.

The hazards, line by line and with the properties that cover them, are in
`PROJECT.json`.

### What makes each component correct

* Cache: no copy outlives its time to live from signing (but for a write that Redis
  applies late); a miss on a live signature has a reason; the signing server owes it
  from memory; failing Redis calls are spaced out; a healthy Redis is used again. To
  its users both layers are one store (`SignatureStore`).
* Chat proxy: only whole answers are signed, under their own request's hash;
  whoever sees an answer end can fetch its signature; what a well-formed answer
  delivered is what was signed; accepted requests end.
* Verification: it accepts only a key in use after its nonce was drawn; if it finds
  no attestation there is a reason; it ends.
* All three together: a caller that saw its answer end finds the signature at the
  server that gave it; what a client accepts was made for a whole answer, by the life
  of the server whose key was attested.
* Host API: a key is answered only when received whole; calls are answered once, in
  their order, and only the call being answered touches `.instance_info`; calls end.
* Instance directory: a VM is started only from a completed instance; its registry and
  its host API port are not lost to overlapping writers or crashes; a run boots on its
  own configuration in each file that nobody else wrote to; what is there is neither
  set up again nor given a new disk.
* VFIO tagging: what was dealt with stays tagged whoever else is at work; a run that
  gives up has a reason.
* Layout: the nodes partition CPUs and memory, buses do not collide.

## Modules

| Module | Models | Checked by |
| --- | --- | --- |
| `ChatCache` | the cache of several proxy servers, Redis, time, restarts | `MCChatCache` |
| `ChatCacheProofs` | theorems about `ChatCache`, among them that it implements `SignatureStore` | tlapm |
| `SignatureStore` | what the cache promises, abstractly | as a property of `MCChatCache` |
| `ChatProxy` | the handlers of one proxy process | `MCChatProxy` |
| `ChatProxyProofs` | theorems about `ChatProxy`, among them that it implements `SignedAnswers` | tlapm |
| `SignedAnswers` | what the proxy promises its callers, abstractly | as a property of `MCChatProxy` |
| `SignatureVerifier` | extends `ChatCache`: keys, endpoints, clients | `MCSignatureVerifier`, `MCSigningService` |
| `SignatureVerifierProofs` | theorems about `SignatureVerifier` | tlapm |
| `SigningService` | composes `ChatProxy` with `SignatureVerifier` and so with `ChatCache` | `MCSigningService` |
| `SigningServiceProofs` | theorems about the composition | tlapm |
| `HostApi` | the host API server and the key provider | `MCHostApi` |
| `HostApiProofs` | theorems about `HostApi`, among them that it implements `HostCalls` | tlapm |
| `HostCalls` | what the host API promises the guest, abstractly | as a property of `MCHostApi` |
| `VmInstance` | dstack commands on one instance directory | `MCVmInstance` |
| `VmInstanceProofs` | theorems about `VmInstance` | tlapm |
| `VmLayout` | arguments → manifest → machine | `MCVmLayout` |
| `VmLayoutProofs` | theorems about `VmLayout` | tlapm |
| `VfioTag` | invocations of tag-vfio and of the script on one host | `MCVfioTag` |
| `VfioTagProofs` | theorems about `VfioTag` | tlapm |

Operators named `X_Something` with a comment "Mutant" are plausible mistakes in the
code that `X` models. No specification uses them; each is substituted for `X` to see
that the property it is listed with fails.

### ChatCache

`local[s][c]` is the time the copy of chat `c` in server `s`'s TTLCache has left, 0
for none; `newer[s][c]` is the set of chats used after it, which is the LRU order;
`shared[c]` is the copy in Redis; `breaker[s]` the time until the circuit closes.
Because an id is set once, its value is a function of the id and the copies need no
contents. Timers count down, so time is not a counter and needs no bound.

| Code | Model |
| --- | --- |
| `ChatCache.set_chat`, `_write_string` | `SetChat` = `LocalSet` and `RedisSet` in one step |
| `ChatCache.get_chat`, `_read_string` | `GetChat`; what it answers is `Found` |
| `RedisCache.set_string`, `get_string` | `RedisSet`, `RedisGet` |
| `_is_circuit_open`, `_open_circuit` | `CircuitOpen`, `CallEnds` |
| `LocalCache`, cachetools | `LocalSet`, `LocalGet`, `Evicted`, `UsedNow` |
| `time.time()` being set | `ClockSetBack`, `ClockSetForward`: up to `MaxStep` |
| `socket_timeout=0.1`: a call given up on that Redis applies | `delayed`, `RedisCatchesUp`: for up to `MaxDelayed` chats |
| `restart: always`; `allkeys-lru`, `--save 20 1` | `Restart`; `RedisDrops` |

`SetChat` and `GetChat` are single steps because the handlers are coroutines on one
event loop and neither the Redis client nor the cache awaits. A call's `outcome` is
one of `off` (no Redis configured), `skipped` (open circuit), `ok`, `error` (a
`RedisError`) and `raised` (another exception, which `cache.py` swallows without
opening the circuit). A `SET` that ends in `error` on a flaky Redis may have been
applied, or be applied later, with its expiration counted from then; `delayed[c]` says
whether such a write is under way or has arrived. `breaker` is relative to the wall
clock: setting that back lengthens it (unless the breaker has never been open, when
`_circuit_breaker_until` is 0.0), setting it forward shortens it; TTLCache's monotonic
clock and Redis's own are not affected. `signer`, `age`, `orphaned`, `others`, `kept` and `sinceError` are history:
no action's guard reads them except that a chat is signed once.

Abstracted: the contents of values, key prefixes, and the clock's resolution. In
cachetools an expired item is removed by the next operation; here it is gone when
its time is up, and it is invisible to every operation in both.

### SignatureStore and the refinement

`SignatureStore` knows of a chat only whether it is `unsigned`, `held` somewhere or
`gone`, and its age since signing. It holds a signature from `Sign` until it is lost
(`Lose`, or pushed out by another `Sign`), at most for its time to live (`Pass`), and
never takes it back, with one exception that is part of the promise: a write to the
shared layer that was under way may `Arrive` once. `ChatCache!Store` maps `status` to
`StatusOf`, `underway` and `late` to the two states of `delayed`. So a read that wrote
back to a cache, or renewed a copy, or a restart that brought something back, would
break `ImplementsStore`.

### ChatProxy

One action is what one handler does between two awaits: `Receive` is one turn of
`async for chunk in response.aiter_text()` up to the `yield`, `Deliver` is that
yield being taken by the connection, `EndStream` is everything after the loop
including `set_chat`, `Eof` the end the caller sees, `Disconnect` the cancellation
by Starlette when the caller goes away, `Close` the background tasks. Chunks are
classified by what the code distinguishes while it looks for the id. `store` is the
cache of one process, without expiry (that is `ChatCache`). vLLM is assumed to give
each answer an id of its own.

### SignedAnswers and the refinement

`SignedAnswers` knows of a request how its answer looks to the caller, what was handed
over of it and which signatures exist under its id. An answer begins, is handed over in
parts, is signed at most once and only while it is under way, gets no further part once
it is signed, and is complete only with a signature; when it is over, however that came
about, nothing is added to it any more. `ChatProxy!Answers` maps `signature` to
`SignatureOf`, the entries of `store`. A generator that went on after it was cancelled, or
signed in a `finally`, would break `ImplementsAnswers`.

### SignatureVerifier

Extends `ChatCache` with `era[s]`, the incarnation of server `s`: its keys are a
function of it (`Address`), since `quote.py` makes them at import. `FetchSignature`
is `GET /signature/{id}` at whichever server the balancer picks, `AskAttestation`
draws the nonce, `AttestAt` is `attestation_report` on one server of the broadcast,
`Decide` is the merge, the choice of one attestation and the checks. A client here may
choose either algorithm (or another: 400) and may send no nonce or a bad one, which
covers `signature_verifier.py` and other callers of the endpoints.
`AskAnyAttestation` is the walk-through of `attestation_verifier.py`: no signature, no
address, and the first attestation of the merged answer is the one that is checked.
Quotes and GPU evidence are opaque: they bind the address and the nonce they were made
with, or fail (`faults`). `drawn` is history: the servers' eras when the nonce was drawn.

### SigningService

`SigningService` extends `SignatureVerifier` and has an instance `Proxy` of `ChatProxy`
in which the chats are the requests. `Arrives` sends a request to a server; `Relays` is
any step of a handler, and the step that stores a signature is joined with the cache's
`Sign` at that server, whatever Redis makes of it; `ServerDies` is a restart that takes
the server's handlers and connections with it; `Fetches` is a client that has learnt the
id of its chat from what was delivered; the environment of the cache takes its steps in
between. `CompleteIsServed` quantifies over every outcome the Redis call of a lookup
can have. `SignatureFits` is the claim of the whole system: the signature handed out for
a well-formed answer is over that request and exactly what its caller received.

### HostApi

`HTTPServer` is single-threaded: `Take` serves the head of the queue and every
later step belongs to that call. `get_key` is `SendQuote`, `RecvLength` (one
`recv(4)`), `RecvBody` until `Length`, `RecvEof` and `AnswerKey`; the provider
writes any portion (`ProviderWrites`) or closes. An exception drops the connection
without an answer, and so does a guest that has gone when `respond` writes to it
(`Respond`). `info` is the file `.instance_info`, which `Notify` truncates before it
looks up the payload.

### HostCalls and the refinement

`HostCalls` knows the calls without an answer, in the order they came, and
`.instance_info`. The first call of the queue is served, refused or dropped, and only
that one can change the file: a notification that is answered 200 is in it, one that
emptied it is never acknowledged. `HostApi!Calls` maps `waiting` to the call being
served followed by the backlog, so that all of `get_key` and everything the key provider
does is a stutter until the answer. What the guest cannot tell remains in the promise: a
notification that was dropped may be in the file all the same.

### VmInstance

Every file a command writes is one job: `Load` (for `update_guest_config`), `Open`
(which truncates), `Dump`. `NewJobs`, `RunJobs` and `ServeJobs` list them in the
code's order. `Stop` stands for every exception on the way and for a kill; QEMU may
survive it. QEMU locks the image it runs on, so a second QEMU and a
`qemu-img create` on it fail. Two commands that have both truncated a file write from
its beginning, so the later one may leave the end of a longer text behind its own:
the file is then `Garbled`, which `json.load` refuses as it does an empty one.

`Scenario` says which commands meet and whether the instance is complete at the start.
`StartsComplete` and `PortSurvives` speak of one `new` at a time (`SoleNew`). The races
that the code leaves open are excepted one by one, with the help of `disturbed[p]`, the
history of *what* others changed while `p` was under way:

* `NewRefusesExisting`: the directory was made between the look of `p` and its makedirs;
* `DiskKept`: the disk was created by another command while `p` was at it;
* `RegistryKept`: a server had `.sys-config.json` in hand, between its load and its dump,
  when `new` wrote it (`"stale"`), and so writes it back without the registry. No run can
  do that, since it waits for the manifest, which comes last;
* `StartsOnOwnConfig`: speaks of each of the two files of a guest separately, and of
  those that nobody else wrote to.

What remains of the files that others did write to is `PortSurvives`: runs, dry runs
and servers put their own port into a file before anything else, so a whole file of a configured guest
names the port of some server. The `vm_config` of a run enjoys no such guarantee: a server
that had loaded the file before writes it back without, and its guest boots on the file
as it is.

### VfioTag

`ids` is vfio-pci's list of dynamic ids, `modules` what modprobe has loaded. A run of
either tool goes through `left[r]`, the writes it has yet to make: one per id for
`tag_vfio`, one per device for the script. `Tag` is the first write to `new_id`,
`Remove` the write to `remove_id`, `Again` the second write, after which `dstack` goes
on whatever happened and the script (`set -e`) ends on a failure. Of the kernel it is
assumed that `new_id` refuses an id it has and that the files exist once vfio_pci is
loaded; the script's `modprobe vfio vfio_pci` loads only the first, the rest being
parameters. The order in which ids are taken is left open. A run that is interrupted
between its removal and its second write is `"stranded"`, the only way in which an id that
was dealt with stays missing. `overtaken` is history: the runs whose id another one tagged
between their removal and their second write, the only way in which the script can fail
once vfio_pci is loaded.

### VmLayout

`New` is `setup_instance`'s arithmetic, `Run` that of `run_instance`; a GPU is the
NUMA node it sits on. Buses behind a `pxb-pcie` are its own and one per root port;
root ports on `pcie.0` take the numbers from 1. The NUMA nodes are collected in one pass
over the GPUs (`Nodes`) and the root ports are placed in another (`RootPorts`);
`PortsHaveOneBus` says that the two agree. `BusesAreApart` says that the nodes' bridges are
apart for any number of GPUs, and that `pcie.0`, to which `run_instance` leaves the numbers
1 to 4, is apart from them exactly while it has no more ports than that: a fifth NVSwitch
gets the number of the first node's bridge. `RoundingIsLeast` relates what QEMU gets to what
the guest is told in `vm_config`, which is neither cut to gigabytes nor rounded. `Nodes`, `BusNumbers` and the sum in
`MemoryAddsUp` are recursive functions, so that they can be reasoned about.

## Runs

| Run | Instance | Shows |
| --- | --- | --- |
| `cache_shared` | 2 servers with Redis, 2 chats, TTL 2, breaker 1, 1 delayed write | `TypeOK`, `MissesAreExplained`, `CopiesExpireTogether`, `ImplementsStore` |
| `cache_lru` | 1 server, 3 chats in a cache of 2, breaker 2, clock steps of 1 | `LruIsTotal`, `OwnSignatureServed`, `StallsAreSpaced`, `BreakerHeals` |
| `cache_write_through` | 1 server | **violation**: `WritesThroughToBoth` |
| `proxy_two` | 2 requests, up to 2 chunks each | `TypeOK`, `SignedIsWhole`, `CompleteIsSigned`, `WellFormedVerifies`, `ImplementsAnswers`, `HandlersEnd` |
| `proxy_hash` | 1 request, up to 3 chunks | **violation**: `ResponseHashMatches` |
| `signing_service` | 1 chat, 2 servers, 1 restart each, 1 client, TTL 1 | `VTypeOK`, `AcceptedKeyWasInUse`, `UnmatchedIsExplained`, `CompleteIsServed`, `AcceptedAnswerIsWhole`, `SignatureFits`, `VerificationEnds` |
| `verifier_restart` | 1 chat, 2 servers, 1 restart each, 1 client | **violation**: `FindsMatchingAttestation` |
| `host_api` | 2 calls of any kind, an answer of 3 bytes | `TypeOK`, `KeyIsWhole`, `ImplementsCalls`, `CallsEnd` |
| `vm_commands` | `new` and two runs; two `new` and a run; `new`, serve and run; run, dry run and serve | `TypeOK`, `StartsComplete`, `RegistryKept`, `StartsOnOwnConfig`, `PortSurvives`, `NewRefusesExisting`, `DiskKept` |
| `vfio_tag` | 3 invocations of any tool, 2 GPUs of one id and a switch | `TypeOK`, `TriedIsTagged`, `AbortIsExplained` |
| `vm_layout` | up to 4 GPUs on 3 nodes, up to 5 switches | `CpusAreSplit`, `MemoryAddsUp`, `BusesAreApart`, `PortsHaveOneBus`, `RoundingIsLeast` |
| `vm_layout_memory` | 512M | **violation**: `SomeMemory` |

Bounds and why they suffice. `TTL = 2` and a `BreakerDuration` of 1 or 2 give every
order of "still there", "about to expire" and "gone" between two layers signed at
different times, and calls before, at and after the closing of a circuit. `MaxStep = 1`
moves the clock by half a breaker duration, over the moment at which it closes, any
number of times; a longer step is several of these. One delayed write at a time can
meet every other event of its chat. Two chats and two servers are enough for one server
to serve another's signature with a chat of its own; three chats in a cache of two are
the least that evict, and reads reorder them. Two requests are the least that
interleave; two chunks contain a skipped chunk before the id and a relayed one after
it. One restart per server (`MaxRestarts`) separates any key from its signature, and the
broadcast visits both servers in any order; in the composition one chat crosses every
component, and the interleavings of several are those of `proxy_two` and `cache_lru`. With
one chat nothing is pushed out of that run's cache and no two answers interleave: that
`CompleteIsServed` allows for eviction, and that one answer's digest and id never reach
another's signature, is shown by those two runs for the components and for the whole
service by the theorems `CompleteAnswersServed` and `SignaturesFit`.
An answer of three bytes after a length of four comes in all portions, including a
short length. Three commands let one overwrite what another is reading while a third
starts; three invocations let one remove an id between two writes of another while a
third finds it tagged. Five switches are one more than the bus numbers allow. No symmetry
is used.

Deadlock is checked for the cache, which never stops. It is not for the others:
their requests, verifications, calls and commands come to an end.

### Fairness

* `ChatCache!FairSpec`: `WF(Tick)`, time passes. Nothing says that anybody uses the
  cache. `BreakerHeals` assumes that Redis stays up from some point on, and that the clock is
  not set back for ever.
* `ChatProxy!FairSpec`: `WF(Handle(r))`, the event loop runs every coroutine that can
  go on, and an answer under way gets a chunk, an end or an error: httpx raises a
  `ReadTimeout` after `TIMEOUT` (600 s) of silence. Streams are bounded by
  `MaxChunks`. A caller that stays connected takes what it is sent: this is an assumption
  on the caller, since nothing in the code bounds the time a handler waits for one that
  does not read. `HandlersEnd` speaks of callers that read on or disconnect.
* `SigningService!ServiceFairSpec`: `WF(Verifies(v))`, the client's requests have
  timeouts of 30 s, after which a server counts as one that could not attest. That a
  client fetches a signature or asks for an attestation in the first place is not
  assumed.
* `HostApi!FairSpec`: `WF(Server)`, the process runs and the guest finishes or drops
  what it sends. `get_key` has no timeout, so `CallsEnd` assumes `ProviderAlive`
  itself; without it, it does not hold.

### Findings

* `cache_write_through`: a write while the breaker is open never reaches Redis, not
  even when Redis is healthy again; `cache.py` says write-through to both, and retry
  on the next operation. Another server answers 404 for that chat.
* `proxy_hash`: the hash covers chunks that were never delivered, and a body that is
  rendered anew; the verifier's README says that the hashes match. They do for
  answers that start with their id (`WellFormedVerifies`).
* `verifier_restart`: after a restart Redis serves signatures of keys that no server
  can attest; the verifier's README has the verifier find a match. What remains true
  is `UnmatchedIsExplained` and, above all, `AcceptedKeyWasInUse`.
* `vm_layout_memory`: the size 512M of the help text gives QEMU `-m 0G`.

Met while modelling and not in a run of their own: two overlapping `dstack run` that
both find no disk can create it twice, and two `dstack new` on one directory can both pass
`_create_directories` (`DiskKept` and `NewRefusesExisting` say that there is no other way);
a run may lose its `vm_config` to a `dstack serve`; a fifth NVSwitch takes the bus number of
a node's bridge (`BusesAreApart`); after a crash between `Open` and `Dump` the truncated file makes every later `run` fail at
`json.load`; `enable_vfio_passthrough.sh` works only where vfio_pci is loaded already.

## Proofs

Every invariant, every action property and every refinement of the runs is also a
theorem, for every value of the constants. The assumptions are the named ones of
the modules: finitely many chats (`ChatAssumption`), limits in their range
(`LimitAssumption` and the like), markers that are not members of what they mark
(`ServerAssumption`, `NoIdAssumption`, `NothingAssumption`). Servers, clients,
calls, commands and invocations may be any sets, GPUs any sequence of node numbers, a
device without affinity (-1) included, and NVSwitches any number. None of the properties is inductive by itself
unless said so; what each invariant adds is the argument.

| Module | Theorem | States |
| --- | --- | --- |
| `ChatCacheProofs` | `TypeCorrectness` | `Spec => []TypeOK` |
| | `ExpiryCorrectness` | `Spec => []CopiesExpireTogether` |
| | `OwnCopies` | `Spec => []OwnSignatureServed` |
| | `Availability` | `Spec => []MissesAreExplained` |
| | `StallSpacing` | `Spec => StallsAreSpaced` |
| | `CircuitsRunDown` | while Redis is up and no clock is set back, no step lengthens what is left of a circuit's time, and `Tick` shortens it |
| | `LruOrder` | `Spec => []LruIsTotal` |
| | `StoreRefinement` | `Spec => ImplementsStore` |
| `ChatProxyProofs` | `ProxyTypeCorrectness` | `Spec => []TypeOK` |
| | `OnlyWholeAnswersSigned` | `Spec => []SignedIsWhole` |
| | `CompleteAnswersSigned` | `Spec => []CompleteIsSigned` |
| | `WellFormedAnswersVerify` | `Spec => []WellFormedVerifies` |
| | `AnswersRefinement` | `Spec => ImplementsAnswers` |
| | `HandlersRunDown` | every step of a handler lowers a bound (of its place and the chunks still to come) on the steps it has left; a step of another handler leaves it |
| `SignatureVerifierProofs` | `VerifierTypeCorrectness` | `VSpec => []VTypeOK` |
| | `AcceptedKeys` | `VSpec => []AcceptedKeyWasInUse` |
| | `UnmatchedReasons` | `VSpec => []UnmatchedIsExplained` |
| | `VerificationsAdvance` | every step of a verification brings it to a later stage or hears one more server; no other step moves it |
| | `VerifierImplementsCache` | `VSpec => Spec` |
| `SigningServiceProofs` | `ServiceImplementsVerifier` | `ServiceSpec => VSpec` |
| | `CompleteAnswersServed` | `ServiceSpec => []CompleteIsServed` |
| | `AcceptedAnswers` | `ServiceSpec => []AcceptedAnswerIsWhole` |
| | `SignaturesFit` | `ServiceSpec => []SignatureFits` |
| | `ServiceImplementsStore` | `ServiceSpec => ImplementsStore` |
| | `ServiceKeys` | `ServiceSpec => [](VTypeOK /\ AcceptedKeyWasInUse /\ UnmatchedIsExplained)` |
| `HostApiProofs` | `HostApiTypeCorrectness` | `Spec => []TypeOK` |
| | `KeysAreWhole` | `Spec => []KeyIsWhole` |
| | `CallsRefinement` | `Spec => ImplementsCalls` |
| | `ServerRunsDown` | every step of `HTTPServer` lowers a bound on the steps to an empty queue; the key provider leaves it |
| `VmInstanceProofs` | `InstanceTypeCorrectness` | `Spec => []TypeOK` |
| | `RegistrySurvives` | `Spec => []RegistryKept` |
| | `StartsAreComplete` | `Spec => []StartsComplete` |
| | `StartsOnOwn` | `Spec => []StartsOnOwnConfig` |
| | `PortsSurvive` | `Spec => []PortSurvives` |
| | `ExistingRefused` | `Spec => NewRefusesExisting` |
| | `DisksKept` | `Spec => DiskKept` |
| `VfioTagProofs` | `TypeCorrectness` | `Spec => []TypeOK` |
| | `TriedStaysTagged` | `Spec => []TriedIsTagged` |
| | `AbortReasons` | `Spec => AbortIsExplained` |
| `VmLayoutProofs` | `CpuSplit` | `Spec => []CpusAreSplit` |
| | `MemorySum` | `Spec => []MemoryAddsUp` |
| | `BusSplit` | `Spec => []BusesAreApart` |
| | `PortPlaces` | `Spec => []PortsHaveOneBus` |
| | `LeastRounding` | `Spec => []RoundingIsLeast` |
| | `MemoryFromOneGigabyte` | `Spec => [](Started => (machine.memory > 0 <=> manifest.memory >= 1024))` |

**The cache.** `IInv` adds: a copy is worth exactly `TTL - age` and only the signer
caches a chat, except for a write that Redis applied late (`CopiesFromSigning`); what is
newer than a copy in the LRU order is among the chats its signer has used since
(`NewerAreOthers`), so the one that is pushed out of a full cache has had `MaxSize`
others used after it and is no longer owed (`EvictedAreNotDue`); what Redis acknowledged
and did not drop is there until it expires (`KeptIsShared`); and the breaker and the time
since the last error add up to at least a breaker duration, unless the wall clock was
stepped forward (`BreakerMeasuresError`). `CopiesFromSigning` gives expiry,
`NewerAreOthers` with finite cardinalities gives the signer's copy, both with
`KeptIsShared` give availability, and `BreakerMeasuresError` gives the spacing.
`LruOrder` has an invariant of its own (`LruInv`): `newer` is irreflexive, transitive and
compares any two copies; that a non-empty cache has an oldest copy then follows because
the strict subset order on finite sets is well-founded.

**The refinement.** Initial states map to initial states; `StoreStep` has one case per
action of the cache and shows each to be `Sign`, `Lose`, `Arrive`, `Pass` or a stutter of
`SignatureStore` under the mapping. `IInv` supplies the expiry of the copies, without
which a `Tick` could leave a chat held that the store has let go.

**The proxy.** `PInv` adds where a handler must be for its answer to be open, that the
digest covers exactly what has been received while it is, that the id it remembers is
its own, and that a signature exists from the end of the stream on. `Relayed` adds how far
the delivered part of a well-formed answer has followed what was received at each of the
handler's positions. For the refinement of `SignedAnswers`, `AInv` adds how an answer looks
to its caller at each position; `HandlerAnswers` has one case per action. That an answer
under way has no signature yet follows from `SignedIsWhole`: the feed of a signed answer
has ended, that of a reading handler has not.

**The verifier.** Every step is a step of the cache or leaves it alone, so the cache's
specification is implemented (`VerifierImplementsCache`) and its `IInv` carries over. `ClientInv` adds that nonces are drawn before the answers to them
(`DrawnBefore`), that an answer is of a key in use after the nonce was drawn and shows the
client's own nonce only if it was sent one (`AnswersAreFresh`), and that a server which
was asked has answered or had a reason not to (`SilenceIsExplained`), which stays
true when it restarts later since an era never comes back.

**The service.** The instance `Relay` of `ChatProxyProofs` with the chats as requests
brings the proxy's invariant and its step lemma. `SInv` is the conjunction of the three
components' invariants and of what ties them: an accepted request is at a server
(`Located`); the cache has signed exactly what the proxies have stored, at the
server they run on (`SignedAsStored`); what is verified on behalf of a signature
belongs to a signed chat (`WantedIsSigned`). `ServiceImplementsVerifier` says that the composed
system is one behaviour of the verifier and the cache, so that their theorems hold in it:
`ServiceImplementsStore` and `ServiceKeys` are its corollaries. Every step is, for the
proxies, one of theirs, a death of a server or a stutter (`StepOfProxy`); so `Relayed`
holds in the service once a death is shown to keep it (`DeathKeepsRelayed`), and
`SignaturesFit` follows.

**The host API.** `HInv` adds that the server is idle exactly while it serves nobody, and
that it never has more bytes than the provider wrote on the connection in use. For the
refinement of `HostCalls`, the call being served is the first of those that wait
(`FinishAnswers`), and `StepCalls` shows of each action that it answers that call, queues
one or is a stutter.

**The instance directory.** `BaseInv` says that what a command has left to do is the end
of what it set out to do (`TodoFollowsPc`, `JobsFit`) and that what it found missing still
is, unless another command has made it (`StillMissing`); the two action properties follow
from it at once.
`RegistryInv` adds that, once `new` is past `.sys-config.json`, the registry is in
the file or in what the writer of the moment is about to write. `CompleteInv` adds that
the manifest comes last and that a `new` which finds the directory made behind its back is
not the only one. `OwnInv` adds the progress of a run in each file that nobody else has
written to: each of the jobs it has behind it has left its entry. `PortInv` adds that a
file to which a run has dumped its port names one whenever it is whole, and so does what
the run loads from it (`PortKept`): whoever else writes to it puts in a port of his own or
has loaded one with it (`DumpedPort`, `FileKeepsPort`), and the only `new` has at most the
manifest left to write (`NewLeavesConfig`). A configured run has its port behind it in both files.

**Tagging.** `IInv` adds that a write to the list has been made only with vfio_pci loaded
(`WorksWhenLoaded`) and that an id a run has removed is missing until it writes it back,
unless another invocation tagged it in between (`GapIsOwn`). With these `TriedIsTagged` is
inductive.

**The layout.** `LInv` says that the manifest and the machine are what `New` and `Qemu`
make of legal arguments; the theorems are then about what those operators compute for any
sequence of GPUs. The library's induction theorems take an operator as a parameter, which
the provers cannot instantiate; `SetInduction` states induction for a *set* of numbers
instead, and each lemma instantiates it with the set of lengths for which its claim
holds. `Recursion` shows with it that a function on an interval given by its first value
and its step exists, so that the recursive functions in `Nodes`, `BusNumbers` and
`MemoryAddsUp` may be unfolded (`KeysStepByStep`, `BusesStepByStep`). `OneMoreGpu` and
`NodesOnce` give that every GPU's node is listed, once; `GpusAreCounted` and `BusesGrow` that
each bridge begins after the buses of the ones before it; `Division`, `Rounding`,
`EqualRanges` and `SumOfShares` are the arithmetic of shares. `MemoryFromOneGigabyte`
is what remains true of `SomeMemory`, which the run `vm_layout_memory` refutes: exactly
the sizes from one gigabyte on give a machine memory.

Only model-checked: liveness (`BreakerHeals`, `HandlersEnd`, `VerificationEnds`,
`CallsEnd`), which is beyond this prover. What these rest on is proved, for every value
of the constants: `CircuitsRunDown`, `HandlersRunDown`, `VerificationsAdvance` and
`ServerRunsDown` each give the measure that every step of the component lowers and that
nobody else raises. What is left to TLC is that under the fairness assumed such a step
is taken as long as the measure is not at its end. `HandlersRunDown` counts the chunks
still to come up to `MaxChunks`, the model's bound, which is any natural number there;
that vLLM's answers are finite at all is an assumption on vLLM.

## Not modelled

* `lsgpu`: it prints what lspci says.
* Authorization, the wording of errors, logging, `metrics` and `models`: no state.
* TDX quotes, GPU evidence, ECDSA and Ed25519: opaque, as described above. The
  verifier's calls to Intel's, NVIDIA's and Sigstore's services only print.
* Guest boot and key provisioning as described in `docs/how-cvm-boots.md`: the code is
  in git submodules that are not part of this repository; the `init` script here is
  a straight line.
* Builds, image measurement, Yocto recipes, samples: sequential I/O.
* The client configuration (`client.conf` files, merged with the last one winning): it
  supplies the registry that `VmInstance` takes as given, and QEMU's path.
* The random vsock ids; what the host makes of a device without NUMA affinity;
  `RedisCache.delete` and `get_all_values` (no caller).

## Plan

1. Done: every component listed above as modelled or partly modelled, the composition
   of proxy, cache and verification, the abstract specifications of cache, proxy and host
   API with their refinements, and the proofs of all safety properties and refinements.
2. Left to model: the client configuration (`client.conf`), as a pure function.
3. Larger instances where a run takes seconds: a third server in `cache_shared`.

----------------------------- MODULE ChatCache -----------------------------
(***************************************************************************)
(* The dual-layer signature cache of the vLLM proxy                        *)
(* (vllm-proxy/src/app/cache).  Several proxy servers run behind a load    *)
(* balancer.  Each one has a local TTLCache (LRU, per-item time to live),  *)
(* and those in WithRedis share one Redis, guarded on each server by a     *)
(* circuit breaker.  set_chat is called once for every chat id, which the  *)
(* upstream vLLM makes unique; get_chat serves GET /signature/{chat_id}.   *)
(*                                                                         *)
(* The Redis client is synchronous and the handlers run on one event loop, *)
(* so a set_chat or a get_chat is one step of its server; time passes,     *)
(* servers restart and Redis fails, loses keys and recovers in between.    *)
(*                                                                         *)
(* An id is set once, so its value is a function of the id: a copy is      *)
(* modelled by the time it has left to live, 0 for no copy.  Every timer   *)
(* counts down to 0 (time.time() < until  is  left > 0), which keeps the   *)
(* model finite without a bound on the clock.  TTLCache and Redis count on *)
(* clocks of their own; the breaker reads the wall clock, which a time     *)
(* server may step either way.                                             *)
(***************************************************************************)
EXTENDS Naturals, FiniteSets

CONSTANTS
    Server,           \* the proxy processes
    WithRedis,        \* those started with REDIS_HOST set
    Chat,             \* chat ids handed out by the upstream
    Nobody,           \* "signer" of a chat that is not signed yet
    MaxSize,          \* TTLCache(maxsize=1000)
    TTL,              \* CHAT_CACHE_EXPIRATION
    BreakerDuration,  \* CIRCUIT_BREAKER_DURATION
    MaxStep,          \* bound on one step of a server's wall clock
    MaxDelayed        \* bound on the SETs that are applied late

ASSUME ServerAssumption == WithRedis \subseteq Server /\ Nobody \notin Server
ASSUME ChatAssumption == IsFiniteSet(Chat)
ASSUME LimitAssumption == /\ MaxSize \in Nat \ {0}
                          /\ TTL \in Nat \ {0}
                          /\ BreakerDuration \in Nat \ {0}
                          /\ MaxStep \in Nat /\ MaxDelayed \in Nat

VARIABLES
    local,      \* local[s][c]: time left of the copy in s's TTLCache
    newer,      \* newer[s][c]: chats cached by s and used after c (LRU order)
    shared,     \* shared[c]: time left of the copy in Redis
    redis,      \* "up", "flaky" (calls may fail or time out) or "down"
    delayed,    \* delayed[c]: its timed-out SET is "pending" in Redis, was
                \* "applied" after all, or there is none ("no")
    breaker,    \* breaker[s]: time until s tries Redis again
    clock,      \* clock[s]: "new" before any failed call; then "steady", or
                \* "hurried" if stepped forward since the last one
    \* What the properties remember of the past:
    signer,     \* signer[c]: the server that signed c, or Nobody
    age,        \* age[c]: time since c was signed, stopping at TTL
    orphaned,   \* chats whose signer restarted since (its keys are gone)
    others,     \* others[c]: chats its signer's TTLCache used since c was set
    kept,       \* chats whose SET Redis acknowledged and has not dropped
    sinceError  \* sinceError[s]: time since s's last failed call to Redis,
                \* stopping at BreakerDuration

history == <<signer, age, orphaned, others, kept, sinceError>>
vars == <<local, newer, shared, redis, delayed, breaker, clock,
          signer, age, orphaned, others, kept, sinceError>>

CallOutcome == {"off", "skipped", "ok", "error", "raised"}

Signed(c) == signer[c] # Nobody

(***************************************************************************)
(* LocalCache: cachetools.TTLCache                                         *)
(***************************************************************************)
Cached(s) == {c \in Chat : local[s][c] > 0}

\* Mutant: pops the wrong end of the LRU order.
Oldest_Newest(s) == {v \in Cached(s) : newer[s][v] = {}}

\* The least recently used copy: every other one was used after it.
Oldest(s) == {v \in Cached(s) : newer[s][v] = Cached(s) \ {v}}

\* Mutant: off by one in the capacity test.
Evicted_OneMore(s) == IF Cardinality(Cached(s)) > MaxSize THEN Oldest(s) ELSE {}

\* What a set of a new key has to push out: the oldest copy of a full cache.
Evicted(s) == IF Cardinality(Cached(s)) >= MaxSize THEN Oldest(s) ELSE {}

\* LRU order after c is used and the copies in gone have left.
UsedNow(s, c, gone) ==
    [d \in Chat |-> IF d = c \/ d \notin Cached(s) \ gone
                    THEN {}
                    ELSE (newer[s][d] \cup {c}) \ gone]

\* The chats signed by s remember that c was used after them.
OthersAfterUse(s, c) ==
    [d \in Chat |-> IF signer[d] = s /\ d # c
                    THEN others[d] \cup {c} ELSE others[d]]

LocalSet(s, c) ==
    /\ local' = [local EXCEPT ![s] =
           [d \in Chat |-> IF d = c THEN TTL
                           ELSE IF d \in Evicted(s) THEN 0 ELSE local[s][d]]]
    /\ newer' = [newer EXCEPT ![s] = UsedNow(s, c, Evicted(s))]

LocalHit(s, c) == local[s][c] > 0

\* A hit makes the copy the most recently used; its time to live stays.
LocalGet(s, c) ==
    IF LocalHit(s, c)
    THEN /\ newer' = [newer EXCEPT ![s] = UsedNow(s, c, {})]
         /\ others' = OthersAfterUse(s, c)
    ELSE UNCHANGED <<newer, others>>

(***************************************************************************)
(* RedisCache: one call behind the circuit breaker                         *)
(***************************************************************************)
\* Mutant: closes the circuit one unit too early.
CircuitOpen_Early(s) == breaker[s] > 1

CircuitOpen(s) == breaker[s] > 0

\* How a call by s can end.  "error" is a redis.RedisError; "raised" any
\* other exception, which only ChatCache catches.
CallOutcomes(s) ==
    IF s \notin WithRedis THEN {"off"}
    ELSE IF CircuitOpen(s) THEN {"skipped"}
    ELSE CASE redis = "up"    -> {"ok"}
           [] redis = "flaky" -> {"ok", "error", "raised"}
           [] redis = "down"  -> {"error"}

\* Mutant: an operation that skips Redis pushes the deadline further away.
CallEnds_SkipExtends(s, outcome) ==
    /\ outcome \in CallOutcomes(s)
    /\ breaker' = CASE outcome = "error"   -> [breaker EXCEPT ![s] = BreakerDuration]
                     [] outcome = "skipped" -> [breaker EXCEPT ![s] = BreakerDuration + MaxStep]
                     [] OTHER               -> breaker
    /\ IF outcome = "error"
       THEN /\ clock' = [clock EXCEPT ![s] = "steady"]
            /\ sinceError' = [sinceError EXCEPT ![s] = 0]
       ELSE UNCHANGED <<clock, sinceError>>

\* A RedisError opens the circuit; nothing else touches it.
CallEnds(s, outcome) ==
    /\ outcome \in CallOutcomes(s)
    /\ IF outcome = "error"
       THEN /\ breaker' = [breaker EXCEPT ![s] = BreakerDuration]
            /\ clock' = [clock EXCEPT ![s] = "steady"]
            /\ sinceError' = [sinceError EXCEPT ![s] = 0]
       ELSE UNCHANGED <<breaker, clock, sinceError>>

\* Mutant: the expiration does not reach Redis, which keeps the key longer.
RedisSet_NoExpiry(s, c, outcome) ==
    /\ CallEnds(s, outcome)
    /\ shared' = IF outcome = "ok" THEN [shared EXCEPT ![c] = 2 * TTL] ELSE shared
    /\ UNCHANGED delayed

\* A SET that timed out on a flaky Redis was lost, has been applied all the
\* same, or waits in its socket to be applied later.
RedisSet(s, c, outcome) ==
    /\ CallEnds(s, outcome)
    /\ \/ /\ outcome = "ok" \/ (outcome = "error" /\ redis = "flaky")
          /\ shared' = [shared EXCEPT ![c] = TTL]
          /\ UNCHANGED delayed
       \/ outcome # "ok" /\ UNCHANGED <<shared, delayed>>
       \/ /\ outcome = "error" /\ redis = "flaky"
          /\ Cardinality({d \in Chat : delayed[d] # "no"}) < MaxDelayed
          /\ delayed' = [delayed EXCEPT ![c] = "pending"]
          /\ UNCHANGED shared

RedisGet(s, outcome) == CallEnds(s, outcome) /\ UNCHANGED <<shared, delayed>>

(***************************************************************************)
(* ChatCache                                                               *)
(***************************************************************************)
\* set_chat: the local cache first, then Redis; a failed SET is dropped.
SetChat(s, c, outcome) ==
    /\ ~Signed(c)
    /\ LocalSet(s, c)
    /\ RedisSet(s, c, outcome)
    /\ signer' = [signer EXCEPT ![c] = s]
    /\ others' = OthersAfterUse(s, c)
    /\ kept' = IF outcome = "ok" THEN kept \cup {c} ELSE kept
    /\ UNCHANGED <<redis, age, orphaned>>

FoundInRedis(c, outcome) == outcome = "ok" /\ shared[c] > 0

\* Mutant: falls back to the local cache only when Redis fails.
Found_FallbackOnError(s, c, outcome) ==
    IF outcome = "ok" THEN FoundInRedis(c, outcome) ELSE LocalHit(s, c)

\* What get_chat answers: Redis first; without an answer, the local cache.
Found(s, c, outcome) == FoundInRedis(c, outcome) \/ LocalHit(s, c)

\* Mutant: a hit in Redis renews its expiration (GETEX).
GetChat_Renews(s, c, outcome) ==
    /\ CallEnds(s, outcome)
    /\ IF FoundInRedis(c, outcome)
       THEN shared' = [shared EXCEPT ![c] = TTL] /\ UNCHANGED <<newer, others>>
       ELSE LocalGet(s, c) /\ UNCHANGED shared
    /\ UNCHANGED <<local, redis, delayed, signer, age, orphaned, kept>>

\* Mutant: a hit in Redis is written back to the local cache.
GetChat_WriteBack(s, c, outcome) ==
    /\ RedisGet(s, outcome)
    /\ IF FoundInRedis(c, outcome)
       THEN LocalSet(s, c) /\ others' = OthersAfterUse(s, c)
       ELSE LocalGet(s, c) /\ UNCHANGED local
    /\ UNCHANGED <<redis, signer, age, orphaned, kept>>

GetChat(s, c, outcome) ==
    /\ RedisGet(s, outcome)
    /\ IF FoundInRedis(c, outcome)
       THEN UNCHANGED <<newer, others>>
       ELSE LocalGet(s, c)
    /\ UNCHANGED <<local, redis, signer, age, orphaned, kept>>

(***************************************************************************)
(* The environment                                                         *)
(***************************************************************************)
Less(n) == IF n > 0 THEN n - 1 ELSE 0

\* One unit of time passes: copies expire, circuits close.
Tick ==
    /\ local' = [s \in Server |-> [c \in Chat |-> Less(local[s][c])]]
    /\ newer' = [s \in Server |-> [c \in Chat |->
                     IF local[s][c] > 1
                     THEN {d \in newer[s][c] : local[s][d] > 1} ELSE {}]]
    /\ shared' = [c \in Chat |-> Less(shared[c])]
    /\ breaker' = [s \in Server |-> Less(breaker[s])]
    /\ age' = [c \in Chat |-> IF Signed(c) /\ age[c] < TTL
                              THEN age[c] + 1 ELSE age[c]]
    /\ sinceError' = [s \in Server |-> IF sinceError[s] < BreakerDuration
                                       THEN sinceError[s] + 1 ELSE BreakerDuration]
    /\ UNCHANGED <<redis, delayed, clock, signer, orphaned, others, kept>>

\* The process of s is restarted (restart: always): its memory is lost, and
\* with it the signing keys made when quote.py was imported.
Restart(s) ==
    /\ local' = [local EXCEPT ![s] = [c \in Chat |-> 0]]
    /\ newer' = [newer EXCEPT ![s] = [c \in Chat |-> {}]]
    /\ breaker' = [breaker EXCEPT ![s] = 0]
    /\ clock' = [clock EXCEPT ![s] = "new"]
    /\ orphaned' = orphaned \cup {c \in Chat : signer[c] = s}
    /\ sinceError' = [sinceError EXCEPT ![s] = BreakerDuration]
    /\ UNCHANGED <<shared, redis, delayed, signer, age, others, kept>>

\* The wall clock of s is set back: its circuit stays open for longer, or is
\* open again, if it ever was (_circuit_breaker_until starts as 0.0).
ClockSetBack(s) ==
    /\ clock[s] # "new"
    /\ \E left \in (breaker[s] + 1)..(breaker[s] + MaxStep) :
           /\ left <= BreakerDuration + MaxStep
           /\ breaker' = [breaker EXCEPT ![s] = left]
    /\ UNCHANGED <<local, newer, shared, redis, delayed, clock, history>>

\* It is set forward: an open circuit closes early.
ClockSetForward(s) ==
    /\ \E left \in 0..(breaker[s] - 1) :
           /\ left + MaxStep >= breaker[s]
           /\ breaker' = [breaker EXCEPT ![s] = left]
    /\ clock' = [clock EXCEPT ![s] = "hurried"]
    /\ UNCHANGED <<local, newer, shared, redis, delayed, history>>

RedisBecomes(status) ==
    /\ redis # status
    /\ redis' = status
    /\ UNCHANGED <<local, newer, shared, delayed, breaker, clock, history>>

\* Redis evicts a key (allkeys-lru) or loses it in a restart.
RedisDrops(c) ==
    /\ shared[c] > 0
    /\ shared' = [shared EXCEPT ![c] = 0]
    /\ kept' = kept \ {c}
    /\ UNCHANGED <<local, newer, redis, delayed, breaker, clock,
                   signer, age, orphaned, others, sinceError>>

\* A pending SET is applied, with its expiration counted from now on.
RedisCatchesUp(c) ==
    /\ redis # "down" /\ delayed[c] = "pending"
    /\ shared' = [shared EXCEPT ![c] = TTL]
    /\ delayed' = [delayed EXCEPT ![c] = "applied"]
    /\ UNCHANGED <<local, newer, redis, breaker, clock, history>>

(***************************************************************************)
(* Specification                                                           *)
(***************************************************************************)
Init ==
    /\ local = [s \in Server |-> [c \in Chat |-> 0]]
    /\ newer = [s \in Server |-> [c \in Chat |-> {}]]
    /\ shared = [c \in Chat |-> 0]
    /\ redis = "up"
    /\ delayed = [c \in Chat |-> "no"]
    /\ breaker = [s \in Server |-> 0]
    /\ clock = [s \in Server |-> "new"]
    /\ signer = [c \in Chat |-> Nobody]
    /\ age = [c \in Chat |-> 0]
    /\ orphaned = {}
    /\ others = [c \in Chat |-> {}]
    /\ kept = {}
    /\ sinceError = [s \in Server |-> BreakerDuration]

Next ==
    \/ \E s \in Server, c \in Chat, outcome \in CallOutcome : SetChat(s, c, outcome)
    \/ \E s \in Server, c \in Chat, outcome \in CallOutcome : GetChat(s, c, outcome)
    \/ Tick
    \/ \E s \in Server : Restart(s) \/ ClockSetBack(s) \/ ClockSetForward(s)
    \/ \E status \in {"up", "flaky", "down"} : RedisBecomes(status)
    \/ \E c \in Chat : RedisDrops(c) \/ RedisCatchesUp(c)

Spec == Init /\ [][Next]_vars

\* Time passes; nothing else is owed.
FairSpec == Spec /\ WF_vars(Tick)

(***************************************************************************)
(* Properties                                                              *)
(***************************************************************************)
TypeOK ==
    /\ local \in [Server -> [Chat -> 0..TTL]]
    /\ newer \in [Server -> [Chat -> SUBSET Chat]]
    /\ shared \in [Chat -> 0..TTL]
    /\ redis \in {"up", "flaky", "down"}
    /\ delayed \in [Chat -> {"no", "pending", "applied"}]
    /\ breaker \in [Server -> 0..(BreakerDuration + MaxStep)]
    /\ clock \in [Server -> {"new", "steady", "hurried"}]
    /\ signer \in [Chat -> Server \cup {Nobody}]
    /\ age \in [Chat -> 0..TTL]
    /\ orphaned \in SUBSET Chat
    /\ others \in [Chat -> SUBSET Chat]
    /\ kept \in SUBSET Chat
    /\ sinceError \in [Server -> 0..BreakerDuration]

\* The signature of c is still where its signer must find it by itself: the
\* signer has not restarted, c has not expired, and the signer has used
\* fewer than MaxSize other chats since.
OwnCopyDue(c) ==
    /\ Signed(c)
    /\ c \notin orphaned
    /\ age[c] < TTL
    /\ Cardinality(others[c]) < MaxSize

\* Whatever happens to Redis, the server that signed a chat can serve its
\* signature from memory until it expires, is pushed out by MaxSize other
\* chats, or the server restarts (cache.py: local first, then Redis).
OwnSignatureServed ==
    \A c \in Chat : OwnCopyDue(c) => LocalHit(signer[c], c)

\* No copy outlives CHAT_CACHE_EXPIRATION from the moment of signing, however
\* many servers, reads and failures it went through: the two layers never
\* refresh each other's time to live.  The one exception is a SET that its
\* server gave up on and Redis applied later: it counts from then on.
CopiesExpireTogether ==
    \A c \in Chat : /\ delayed[c] # "applied" => shared[c] + age[c] <= TTL
                    /\ \A s \in Server : local[s][c] + age[c] <= TTL

\* A TTLCache never holds more than maxsize copies, and its LRU order is
\* total, so there is always exactly one copy to push out.
LruIsTotal ==
    \A s \in Server :
        /\ Cardinality(Cached(s)) <= MaxSize
        /\ \A c, d \in Cached(s) :
               c # d => (d \in newer[s][c] <=> c \notin newer[s][d])

\* Whatever server a lookup reaches and however its Redis call ends, it
\* misses an unexpired signature only for a reason: this server does not owe
\* it from memory, and it could not ask Redis, or Redis never acknowledged
\* the write or has dropped it since (cache.py: Redis first, then local).
MissesAreExplained ==
    \A s \in Server, c \in Chat : \A outcome \in CallOutcomes(s) :
        (Signed(c) /\ age[c] < TTL /\ ~Found(s, c, outcome))
        => /\ ~(signer[c] = s /\ OwnCopyDue(c))
           /\ outcome # "ok" \/ c \notin kept

\* Two failing calls of a server are at least the breaker's duration apart,
\* whatever mix of reads and writes it serves: requests are not all held up
\* by Redis timeouts (redis.py: skip Redis for this duration after failure).
\* A clock set back does not bring them closer, one set forward may.
StallsAreSpaced ==
    [][\A s \in Server, c \in Chat :
           SetChat(s, c, "error") \/ GetChat(s, c, "error")
           => sinceError[s] = BreakerDuration \/ clock[s] = "hurried"]_vars

\* Once Redis stays healthy and no clock is set back any more, every circuit
\* closes for good, however often the cache is used meanwhile and however
\* long clocks that were set back keep it open.
BreakerHeals ==
    <>[](redis = "up") /\ <>[][\A s \in Server : ~ClockSetBack(s)]_vars
    => <>[](\A s \in Server : breaker[s] = 0)

\* The cache as its clients see it, without servers, layers and breakers: a
\* signature is there as long as some copy of it is.
Held(c) == shared[c] > 0 \/ \E s \in Server : local[s][c] > 0

StatusOf(c) == IF ~Signed(c) THEN "unsigned" ELSE IF Held(c) THEN "held" ELSE "gone"

Store == INSTANCE SignatureStore WITH
    status <- [c \in Chat |-> StatusOf(c)],
    underway <- {c \in Chat : delayed[c] = "pending"},
    late <- {c \in Chat : delayed[c] = "applied"}

\* The dual-layer cache implements the simple store: a signature is there from
\* its signing, is gone after its time to live at the latest, and once gone,
\* whichever copies were lost, stays gone, but for a delayed write.
ImplementsStore == Store!Spec

(***************************************************************************)
(* What cache.py's docstring says                                          *)
(***************************************************************************)
\* "Redis enabled: Write-through to both": a chat signed while Redis is
\* healthy is in Redis.
WritesThroughToBoth ==
    [][\A s \in WithRedis, c \in Chat, outcome \in CallOutcome :
           SetChat(s, c, outcome) /\ redis = "up" => shared'[c] > 0]_vars
============================================================================

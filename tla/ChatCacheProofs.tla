-------------------------- MODULE ChatCacheProofs --------------------------
(***************************************************************************)
(* Theorems about ChatCache for every number of servers and chats, every   *)
(* cache size, every time to live and every breaker duration.              *)
(***************************************************************************)
EXTENDS ChatCache, FiniteSetTheorems, TLAPS

(***************************************************************************)
(* The inductive invariant.                                                *)
(***************************************************************************)
\* Every copy, local or shared, is of a signed chat and expires exactly TTL
\* after the signing, unless Redis applied its SET late; only the signer
\* caches a chat locally.
CopiesFromSigning ==
    /\ \A s \in Server, c \in Chat :
           local[s][c] > 0 => signer[c] = s /\ local[s][c] + age[c] = TTL
    /\ \A c \in Chat :
           shared[c] > 0 => /\ Signed(c)
                            /\ delayed[c] # "applied" => shared[c] + age[c] = TTL
    /\ \A c \in Chat : ~Signed(c) => age[c] = 0 /\ delayed[c] = "no"

\* What is newer than a copy in the LRU order was used since it was set.
NewerAreOthers ==
    \A s \in Server, c \in Chat :
        local[s][c] > 0 => newer[s][c] \subseteq others[c]

\* A write that Redis acknowledged and still keeps is there until it expires.
KeptIsShared ==
    \A c \in kept : /\ Signed(c)
                    /\ delayed[c] = "no"
                    /\ age[c] < TTL => shared[c] > 0

\* The breaker counts down from the last failed call, never too fast unless
\* the clock was set forward meanwhile.
BreakerMeasuresError ==
    \A s \in Server :
        clock[s] = "hurried" \/ breaker[s] + sinceError[s] >= BreakerDuration

IInv == /\ TypeOK
        /\ CopiesFromSigning
        /\ NewerAreOthers
        /\ OwnSignatureServed
        /\ KeptIsShared
        /\ BreakerMeasuresError

\* Pushing out the oldest copy of a full cache means that its signer has used
\* at least MaxSize other chats since (LocalSet with a new key).
LEMMA EvictedAreNotDue ==
    ASSUME IInv, NEW s \in Server, NEW c \in Chat, ~Signed(c),
           NEW v \in Evicted(s)
    PROVE  /\ v \in Chat /\ v # c /\ signer[v] = s
           /\ Cardinality(others[v] \cup {c}) >= MaxSize
  <1> USE LimitAssumption, ChatAssumption, ServerAssumption
  <1>1. Cardinality(Cached(s)) >= MaxSize /\ v \in Oldest(s)
    BY DEF Evicted
  <1>2. v \in Chat /\ local[s][v] > 0 /\ newer[s][v] = Cached(s) \ {v}
    BY <1>1 DEF Oldest, Cached
  <1>3. signer[v] = s /\ newer[s][v] \subseteq others[v]
    BY <1>2 DEF IInv, CopiesFromSigning, NewerAreOthers
  <1>4. v # c /\ c \notin Cached(s)
    BY <1>2, <1>3 DEF IInv, CopiesFromSigning, Cached, Signed
  <1>5. IsFiniteSet(Cached(s)) /\ IsFiniteSet(others[v] \cup {c})
    <2>1. Cached(s) \subseteq Chat /\ others[v] \cup {c} \subseteq Chat
      BY <1>2 DEF Cached, IInv, TypeOK
    <2> QED  BY <2>1, FS_Subset
  <1>6. Cardinality(Cached(s) \ {v}) = Cardinality(Cached(s)) - 1
        /\ IsFiniteSet(Cached(s) \ {v})
    BY <1>2, <1>5, FS_RemoveElement DEF Cached
  <1>7. Cardinality((Cached(s) \ {v}) \cup {c}) = Cardinality(Cached(s))
    <2>1. Cardinality((Cached(s) \ {v}) \cup {c}) = Cardinality(Cached(s) \ {v}) + 1
      BY <1>4, <1>6, FS_AddElement
    <2> QED  BY <2>1, <1>5, <1>6, FS_CardinalityType
  <1>8. (Cached(s) \ {v}) \cup {c} \subseteq others[v] \cup {c}
    BY <1>2, <1>3
  <1>9. Cardinality((Cached(s) \ {v}) \cup {c}) <= Cardinality(others[v] \cup {c})
    BY <1>5, <1>8, FS_Subset
  <1> QED  BY <1>1, <1>2, <1>3, <1>4, <1>5, <1>7, <1>9, FS_CardinalityType

LEMMA InitIInv == Init => IInv
  <1> USE LimitAssumption, ServerAssumption
  <1> SUFFICES ASSUME Init PROVE IInv
    OBVIOUS
  <1>1. TypeOK
    BY DEF Init, TypeOK
  <1>2. CopiesFromSigning /\ NewerAreOthers
    BY DEF Init, CopiesFromSigning, NewerAreOthers, Signed
  <1>3. OwnSignatureServed /\ KeptIsShared
    BY DEF Init, OwnSignatureServed, OwnCopyDue, KeptIsShared, Signed
  <1>4. BreakerMeasuresError
    BY DEF Init, BreakerMeasuresError
  <1> QED  BY <1>1, <1>2, <1>3, <1>4 DEF IInv

(***************************************************************************)
(* set_chat                                                                *)
(***************************************************************************)
\* The circuit breaker's part of a call is the same for SET and GET.
LEMMA CallKeepsBreaker ==
    ASSUME TypeOK, NEW s \in Server, NEW outcome, CallEnds(s, outcome)
    PROVE  /\ breaker' \in [Server -> 0..(BreakerDuration + MaxStep)]
           /\ clock' \in [Server -> {"new", "steady", "hurried"}]
           /\ sinceError' \in [Server -> 0..BreakerDuration]
           /\ BreakerMeasuresError => BreakerMeasuresError'
  <1> USE LimitAssumption
  <1>1. /\ breaker \in [Server -> 0..(BreakerDuration + MaxStep)]
        /\ clock \in [Server -> {"new", "steady", "hurried"}]
        /\ sinceError \in [Server -> 0..BreakerDuration]
    BY DEF TypeOK
  <1>2. CASE outcome = "error"
    <2>1. /\ breaker' = [breaker EXCEPT ![s] = BreakerDuration]
          /\ clock' = [clock EXCEPT ![s] = "steady"]
          /\ sinceError' = [sinceError EXCEPT ![s] = 0]
      BY <1>2 DEF CallEnds
    <2>2. \A t \in Server :
              IF t = s THEN breaker'[t] = BreakerDuration /\ sinceError'[t] = 0
              ELSE /\ breaker'[t] = breaker[t] /\ clock'[t] = clock[t]
                   /\ sinceError'[t] = sinceError[t]
      BY <1>1, <2>1
    <2> QED  BY <1>1, <2>1, <2>2 DEF BreakerMeasuresError
  <1>3. CASE outcome # "error"
    <2>1. UNCHANGED <<breaker, clock, sinceError>>
      BY <1>3 DEF CallEnds
    <2> QED  BY <1>1, <2>1 DEF BreakerMeasuresError
  <1> QED  BY <1>2, <1>3

LEMMA SetChatTypeOK ==
    ASSUME TypeOK, NEW s \in Server, NEW c \in Chat, NEW outcome \in CallOutcome,
           SetChat(s, c, outcome)
    PROVE  TypeOK'
  <1> USE LimitAssumption DEF TypeOK
  <1>1. local' \in [Server -> [Chat -> 0..TTL]]
    BY DEF SetChat, LocalSet
  <1>2. newer' \in [Server -> [Chat -> SUBSET Chat]]
    BY DEF SetChat, LocalSet, UsedNow
  <1>3. /\ shared' \in [Chat -> 0..TTL]
        /\ delayed' \in [Chat -> {"no", "pending", "applied"}]
    <2>1. shared' = shared \/ shared' = [shared EXCEPT ![c] = TTL]
      BY Zenon DEF SetChat, RedisSet
    <2>4. delayed' = delayed \/ delayed' = [delayed EXCEPT ![c] = "pending"]
      BY Zenon DEF SetChat, RedisSet
    <2>2. shared' \in [Chat -> 0..TTL]
      <3>1. TTL \in 0..TTL
        OBVIOUS
      <3> QED  BY <2>1, <3>1
    <2>3. delayed' \in [Chat -> {"no", "pending", "applied"}]
      BY <2>4
    <2> QED  BY <2>2, <2>3
  <1>4. /\ breaker' \in [Server -> 0..(BreakerDuration + MaxStep)]
        /\ clock' \in [Server -> {"new", "steady", "hurried"}]
        /\ sinceError' \in [Server -> 0..BreakerDuration]
    BY CallKeepsBreaker DEF SetChat, RedisSet
  <1>5. redis' \in {"up", "flaky", "down"} /\ age' \in [Chat -> 0..TTL]
        /\ orphaned' \in SUBSET Chat /\ kept' \in SUBSET Chat
    BY DEF SetChat
  <1>6. signer' \in [Chat -> Server \cup {Nobody}]
    BY DEF SetChat
  <1>7. others' \in [Chat -> SUBSET Chat]
    BY DEF SetChat, OthersAfterUse
  <1> QED  BY <1>1, <1>2, <1>3, <1>4, <1>5, <1>6, <1>7

LEMMA SetChatIInv ==
    ASSUME IInv, NEW s \in Server, NEW c \in Chat, NEW outcome \in CallOutcome,
           SetChat(s, c, outcome)
    PROVE  IInv'
  <1> USE LimitAssumption, ServerAssumption
  <1>1. TypeOK /\ TypeOK' /\ ~Signed(c) /\ age' = age
    BY SetChatTypeOK DEF IInv, SetChat
  <1>2. signer' = [signer EXCEPT ![c] = s] /\ signer[c] = Nobody /\ s # Nobody
        /\ age[c] = 0 /\ delayed[c] = "no"
    BY <1>1 DEF SetChat, Signed, IInv, CopiesFromSigning
  <1>3. \A t \in Server, d \in Chat :
            local'[t][d] = IF t = s /\ d = c THEN TTL
                           ELSE IF t = s /\ d \in Evicted(s) THEN 0
                           ELSE local[t][d]
    BY <1>1 DEF SetChat, LocalSet, TypeOK
  <1>4. /\ \A d \in Chat : \/ shared'[d] = shared[d] /\ (d # c => delayed'[d] = delayed[d])
                           \/ d = c /\ shared'[d] = TTL /\ delayed'[d] = delayed[d]
        /\ delayed'[c] # "applied"
    BY <1>1, <1>2 DEF SetChat, RedisSet, TypeOK
  <1>5. \A t \in Server : local[t][c] = 0
    <2>1. \A t \in Server : ~(local[t][c] > 0)
      BY <1>2 DEF IInv, CopiesFromSigning
    <2> QED  BY <1>1, <2>1 DEF TypeOK
  <1>6. CopiesFromSigning'
    <2>1. \A t \in Server, d \in Chat : local'[t][d] > 0 =>
              signer'[d] = t /\ local'[t][d] + age'[d] = TTL
      BY <1>1, <1>2, <1>3, <1>5 DEF IInv, CopiesFromSigning, TypeOK
    <2>2. \A d \in Chat : shared'[d] > 0 =>
              /\ signer'[d] # Nobody
              /\ delayed'[d] # "applied" => shared'[d] + age'[d] = TTL
      <3>1. ~(shared[c] > 0)
        BY <1>2 DEF IInv, CopiesFromSigning, Signed
      <3> QED  BY <1>1, <1>2, <1>4, <3>1 DEF IInv, CopiesFromSigning, TypeOK, Signed
    <2>3. \A d \in Chat : signer'[d] = Nobody => age'[d] = 0 /\ delayed'[d] = "no"
      BY <1>1, <1>2, <1>4 DEF IInv, CopiesFromSigning, TypeOK, Signed
    <2> QED  BY <2>1, <2>2, <2>3 DEF CopiesFromSigning, Signed
  <1>7. \A d \in Chat : others'[d] = IF signer[d] = s /\ d # c
                                      THEN others[d] \cup {c} ELSE others[d]
    BY DEF SetChat, OthersAfterUse
  <1>8. NewerAreOthers'
    <2> SUFFICES ASSUME NEW t \in Server, NEW d \in Chat, local'[t][d] > 0
                 PROVE  newer'[t][d] \subseteq others'[d]
      BY DEF NewerAreOthers
    <2>1. CASE t # s
      <3>1. newer'[t][d] = newer[t][d] /\ local'[t][d] = local[t][d]
        BY <1>1, <1>3, <2>1 DEF SetChat, LocalSet, TypeOK
      <3> QED  BY <3>1, <1>7 DEF IInv, NewerAreOthers
    <2>2. CASE t = s /\ d = c
      <3>1. newer'[t][d] = {}
        BY <1>1, <2>2 DEF SetChat, LocalSet, UsedNow, TypeOK
      <3> QED  BY <3>1
    <2>3. CASE t = s /\ d # c
      <3>1. local[s][d] > 0 /\ signer[d] = s
        <4>1. local[s][d] > 0
          BY <1>3, <2>3
        <4> QED  BY <4>1 DEF IInv, CopiesFromSigning
      <3>2. newer'[s][d] \subseteq newer[s][d] \cup {c}
        BY <1>1 DEF SetChat, LocalSet, UsedNow, TypeOK
      <3> QED  BY <3>1, <3>2, <1>7, <2>3 DEF IInv, NewerAreOthers
    <2> QED  BY <2>1, <2>2, <2>3
  <1>9. OwnSignatureServed'
    <2> SUFFICES ASSUME NEW d \in Chat, OwnCopyDue(d)'
                 PROVE  local'[signer'[d]][d] > 0
      BY DEF OwnSignatureServed, LocalHit
    <2>1. CASE d = c
      BY <1>1, <1>2, <1>3, <2>1 DEF TypeOK
    <2>2. CASE d # c
      <3>1. signer'[d] = signer[d] /\ signer[d] \in Server
            /\ d \notin orphaned /\ age[d] < TTL
        BY <1>1, <1>2, <2>2 DEF OwnCopyDue, Signed, TypeOK, SetChat
      <3>2. Cardinality(others[d]) <= Cardinality(others'[d])
            /\ Cardinality(others[d]) \in Nat /\ Cardinality(others'[d]) \in Nat
        <4>1. IsFiniteSet(others[d]) /\ IsFiniteSet(others'[d])
          BY <1>1, ChatAssumption, FS_Subset DEF TypeOK
        <4>2. others[d] \subseteq others'[d]
          BY <1>7
        <4> QED  BY <4>1, <4>2, FS_Subset, FS_CardinalityType
      <3>3. local[signer[d]][d] > 0
        <4>1. OwnCopyDue(d)
          BY <3>1, <3>2, ServerAssumption DEF OwnCopyDue, Signed
        <4> QED  BY <4>1 DEF IInv, OwnSignatureServed, LocalHit
      <3>4. CASE signer[d] = s /\ d \in Evicted(s)
        <4>1. others'[d] = others[d] \cup {c}
          BY <1>7, <2>2, <3>4
        <4>2. Cardinality(others'[d]) >= MaxSize
          BY <1>1, <3>4, <4>1, EvictedAreNotDue
        <4> QED  BY <3>2, <4>2 DEF OwnCopyDue
      <3>5. CASE ~(signer[d] = s /\ d \in Evicted(s))
        BY <1>3, <2>2, <3>1, <3>3, <3>5
      <3> QED  BY <3>4, <3>5
    <2> QED  BY <2>1, <2>2
  <1>10. KeptIsShared'
    <2> SUFFICES ASSUME NEW d \in kept'
                 PROVE  /\ signer'[d] # Nobody
                        /\ delayed'[d] = "no"
                        /\ age'[d] < TTL => shared'[d] > 0
      BY DEF KeptIsShared, Signed
    <2>1. CASE d \in kept
      <3>1. d \in Chat /\ d # c /\ signer[d] # Nobody /\ delayed[d] = "no"
            /\ (age[d] < TTL => shared[d] > 0)
        BY <1>1, <2>1 DEF IInv, KeptIsShared, TypeOK, Signed
      <3>2. /\ signer'[d] = signer[d] /\ age'[d] = age[d] /\ shared'[d] = shared[d]
            /\ delayed'[d] = delayed[d]
        BY <1>1, <1>2, <1>4, <3>1 DEF TypeOK
      <3> QED  BY <3>1, <3>2
    <2>2. CASE d \notin kept
      <3>1. d = c /\ outcome = "ok"
        BY <2>2 DEF SetChat
      <3>2. shared'[c] = TTL /\ delayed'[c] = "no"
        BY <1>1, <1>2, <3>1 DEF SetChat, RedisSet, TypeOK
      <3> QED  BY <1>1, <1>2, <3>1, <3>2 DEF TypeOK
    <2> QED  BY <2>1, <2>2
  <1>11. BreakerMeasuresError'
    BY CallKeepsBreaker DEF IInv, SetChat, RedisSet
  <1> QED  BY <1>1, <1>6, <1>8, <1>9, <1>10, <1>11 DEF IInv

(***************************************************************************)
(* get_chat                                                                *)
(***************************************************************************)
\* A lookup changes the LRU order, what the signer used and its breaker.
LEMMA GetChatIInv ==
    ASSUME IInv, NEW s \in Server, NEW c \in Chat, NEW outcome \in CallOutcome,
           GetChat(s, c, outcome)
    PROVE  IInv'
  <1> USE LimitAssumption, ServerAssumption
  <1>1. TypeOK /\ local' = local /\ shared' = shared /\ signer' = signer
        /\ age' = age /\ orphaned' = orphaned /\ kept' = kept /\ redis' = redis
        /\ delayed' = delayed
    BY DEF IInv, GetChat, RedisGet
  <1>2. /\ \A d \in Chat : others'[d] \in SUBSET Chat /\ others[d] \subseteq others'[d]
        /\ \A t \in Server, d \in Chat :
               \/ newer'[t][d] \subseteq newer[t][d]
               \/ /\ t = s /\ d # c
                  /\ newer'[t][d] \subseteq newer[t][d] \cup {c}
                  /\ signer[d] = s => others'[d] = others[d] \cup {c}
        /\ newer' \in [Server -> [Chat -> SUBSET Chat]]
        /\ others' \in [Chat -> SUBSET Chat]
    <2>1. CASE newer' = newer /\ others' = others
      BY <1>1, <2>1 DEF TypeOK
    <2>2. CASE /\ newer' = [newer EXCEPT ![s] = UsedNow(s, c, {})]
               /\ others' = OthersAfterUse(s, c)
      <3>1. \A d \in Chat : others'[d] = IF signer[d] = s /\ d # c
                                          THEN others[d] \cup {c} ELSE others[d]
        BY <2>2 DEF OthersAfterUse
      <3>2. others' \in [Chat -> SUBSET Chat]
        BY <1>1, <2>2 DEF OthersAfterUse, TypeOK
      <3>3. newer' \in [Server -> [Chat -> SUBSET Chat]]
        BY <1>1, <2>2 DEF UsedNow, TypeOK
      <3>4. \A t \in Server, d \in Chat : t # s => newer'[t][d] = newer[t][d]
        BY <1>1, <2>2 DEF TypeOK
      <3>5. \A d \in Chat : newer'[s][d] = IF d = c \/ d \notin Cached(s)
                                           THEN {} ELSE newer[s][d] \cup {c}
        BY <1>1, <2>2 DEF UsedNow, TypeOK
      <3> QED  BY <1>1, <3>1, <3>2, <3>3, <3>4, <3>5 DEF TypeOK
    <2> QED  BY <2>1, <2>2 DEF GetChat, LocalGet
  <1>3. TypeOK'
    <2>1. /\ breaker' \in [Server -> 0..(BreakerDuration + MaxStep)]
          /\ clock' \in [Server -> {"new", "steady", "hurried"}]
          /\ sinceError' \in [Server -> 0..BreakerDuration]
      BY <1>1, CallKeepsBreaker DEF GetChat, RedisGet
    <2> QED  BY <1>1, <1>2, <2>1 DEF TypeOK
  <1>4. CopiesFromSigning' /\ KeptIsShared'
    BY <1>1 DEF IInv, CopiesFromSigning, KeptIsShared, Signed
  <1>5. NewerAreOthers'
    <2> SUFFICES ASSUME NEW t \in Server, NEW d \in Chat, local[t][d] > 0
                 PROVE  newer'[t][d] \subseteq others'[d]
      BY <1>1 DEF NewerAreOthers
    <2>1. signer[d] = t /\ newer[t][d] \subseteq others[d]
      BY DEF IInv, CopiesFromSigning, NewerAreOthers
    <2>2. CASE newer'[t][d] \subseteq newer[t][d]
      BY <1>2, <2>1, <2>2
    <2>3. CASE /\ t = s /\ d # c
               /\ newer'[t][d] \subseteq newer[t][d] \cup {c}
               /\ signer[d] = s => others'[d] = others[d] \cup {c}
      BY <2>1, <2>3
    <2> QED  BY <1>2, <2>2, <2>3
  <1>6. OwnSignatureServed'
    <2> SUFFICES ASSUME NEW d \in Chat, OwnCopyDue(d)' PROVE OwnCopyDue(d)
      BY <1>1 DEF IInv, OwnSignatureServed, LocalHit
    <2>1. IsFiniteSet(others'[d]) /\ IsFiniteSet(others[d])
      BY <1>1, <1>2, ChatAssumption, FS_Subset DEF TypeOK
    <2>2. Cardinality(others[d]) <= Cardinality(others'[d])
          /\ Cardinality(others[d]) \in Nat /\ Cardinality(others'[d]) \in Nat
      BY <1>2, <2>1, FS_Subset, FS_CardinalityType
    <2> QED  BY <1>1, <2>2 DEF OwnCopyDue, Signed
  <1>7. BreakerMeasuresError'
    BY CallKeepsBreaker DEF IInv, GetChat, RedisGet
  <1> QED  BY <1>3, <1>4, <1>5, <1>6, <1>7 DEF IInv

(***************************************************************************)
(* The environment                                                         *)
(***************************************************************************)
\* Time passes for a copy and for the age of its signature alike.
LEMMA TickIInv == IInv /\ Tick => IInv'
  <1> USE LimitAssumption, ServerAssumption
  <1> SUFFICES ASSUME IInv, Tick PROVE IInv'
    OBVIOUS
  <1>1. TypeOK
    BY DEF IInv
  <1>2. TypeOK'
    <2>1. local' \in [Server -> [Chat -> 0..TTL]] /\ shared' \in [Chat -> 0..TTL]
          /\ breaker' \in [Server -> 0..(BreakerDuration + MaxStep)]
      BY <1>1 DEF Tick, TypeOK, Less
    <2>2. newer' \in [Server -> [Chat -> SUBSET Chat]]
      BY <1>1 DEF Tick, TypeOK
    <2>3. age' \in [Chat -> 0..TTL] /\ sinceError' \in [Server -> 0..BreakerDuration]
      BY <1>1 DEF Tick, TypeOK
    <2> QED  BY <1>1, <2>1, <2>2, <2>3 DEF Tick, TypeOK
  <1>3. /\ \A s \in Server, c \in Chat :
               /\ local'[s][c] = IF local[s][c] > 0 THEN local[s][c] - 1 ELSE 0
               /\ local[s][c] \in 0..TTL
        /\ \A c \in Chat : /\ shared'[c] = IF shared[c] > 0 THEN shared[c] - 1 ELSE 0
                           /\ age'[c] = IF signer[c] # Nobody /\ age[c] < TTL
                                        THEN age[c] + 1 ELSE age[c]
                           /\ shared[c] \in 0..TTL /\ age[c] \in 0..TTL
        /\ signer' = signer /\ kept' = kept /\ others' = others /\ orphaned' = orphaned
        /\ delayed' = delayed
    BY <1>1 DEF Tick, TypeOK, Less, Signed
  <1>4. CopiesFromSigning'
    <2>1. \A s \in Server, c \in Chat :
              local'[s][c] > 0 => signer[c] = s /\ local'[s][c] + age'[c] = TTL
      BY <1>3 DEF IInv, CopiesFromSigning
    <2>2. \A c \in Chat : shared'[c] > 0 =>
              /\ signer[c] # Nobody
              /\ delayed[c] # "applied" => shared'[c] + age'[c] = TTL
      BY <1>3 DEF IInv, CopiesFromSigning, Signed
    <2>3. \A c \in Chat : signer[c] = Nobody => age'[c] = 0 /\ delayed[c] = "no"
      BY <1>3 DEF IInv, CopiesFromSigning, Signed
    <2> QED  BY <1>3, <2>1, <2>2, <2>3 DEF CopiesFromSigning, Signed
  <1>5. NewerAreOthers'
    <2> SUFFICES ASSUME NEW s \in Server, NEW c \in Chat, local'[s][c] > 0
                 PROVE  newer'[s][c] \subseteq others[c]
      BY <1>3 DEF NewerAreOthers
    <2>1. local[s][c] > 0
      BY <1>3
    <2>2. newer'[s][c] \subseteq newer[s][c]
      BY <1>1 DEF Tick, TypeOK
    <2> QED  BY <2>1, <2>2 DEF IInv, NewerAreOthers
  <1>6. OwnSignatureServed'
    <2> SUFFICES ASSUME NEW c \in Chat, OwnCopyDue(c)'
                 PROVE  local'[signer[c]][c] > 0
      BY <1>3 DEF OwnSignatureServed, LocalHit
    <2>1. signer[c] \in Server /\ age[c] + 1 < TTL /\ c \notin orphaned
          /\ Cardinality(others[c]) < MaxSize
      BY <1>1, <1>3 DEF OwnCopyDue, Signed, TypeOK
    <2>2. local[signer[c]][c] > 0
      BY <1>3, <2>1 DEF IInv, OwnSignatureServed, OwnCopyDue, Signed, LocalHit
    <2>3. local[signer[c]][c] + age[c] = TTL
      BY <2>1, <2>2 DEF IInv, CopiesFromSigning
    <2> QED  BY <1>3, <2>1, <2>2, <2>3
  <1>7. KeptIsShared'
    <2> SUFFICES ASSUME NEW c \in kept
                 PROVE  /\ signer[c] # Nobody
                        /\ delayed[c] = "no"
                        /\ age'[c] < TTL => shared'[c] > 0
      BY <1>3 DEF KeptIsShared, Signed
    <2>1. /\ c \in Chat /\ signer[c] # Nobody /\ delayed[c] = "no"
          /\ age[c] < TTL => shared[c] > 0
      BY <1>1 DEF IInv, KeptIsShared, Signed, TypeOK
    <2>2. shared[c] > 0 => shared[c] + age[c] = TTL
      BY <2>1 DEF IInv, CopiesFromSigning
    <2> QED  BY <1>3, <2>1, <2>2
  <1>8. BreakerMeasuresError'
    BY <1>1 DEF IInv, BreakerMeasuresError, Tick, TypeOK, Less
  <1> QED  BY <1>2, <1>4, <1>5, <1>6, <1>7, <1>8 DEF IInv

LEMMA RestartIInv == ASSUME IInv, NEW s \in Server, Restart(s) PROVE IInv'
  <1> USE LimitAssumption, ServerAssumption
  <1>1. TypeOK
    BY DEF IInv
  <1>2. TypeOK'
    BY <1>1 DEF Restart, TypeOK
  <1>3. /\ shared' = shared /\ signer' = signer /\ age' = age /\ kept' = kept
        /\ others' = others /\ delayed' = delayed
        /\ \A t \in Server, c \in Chat :
               IF t = s THEN local'[t][c] = 0 /\ newer'[t][c] = {}
                        ELSE local'[t][c] = local[t][c] /\ newer'[t][c] = newer[t][c]
        /\ orphaned' = orphaned \cup {c \in Chat : signer[c] = s}
    BY <1>1 DEF Restart, TypeOK
  <1>4. CopiesFromSigning' /\ KeptIsShared'
    BY <1>3 DEF IInv, CopiesFromSigning, KeptIsShared, Signed
  <1>5. NewerAreOthers'
    BY <1>3 DEF IInv, NewerAreOthers
  <1>6. OwnSignatureServed'
    <2> SUFFICES ASSUME NEW c \in Chat, OwnCopyDue(c)'
                 PROVE  local'[signer[c]][c] > 0
      BY <1>3 DEF OwnSignatureServed, LocalHit
    <2>1. OwnCopyDue(c) /\ signer[c] # s /\ signer[c] \in Server
      BY <1>1, <1>3 DEF OwnCopyDue, Signed, TypeOK
    <2> QED  BY <1>3, <2>1 DEF IInv, OwnSignatureServed, LocalHit
  <1>7. BreakerMeasuresError'
    BY <1>1 DEF IInv, BreakerMeasuresError, Restart, TypeOK
  <1> QED  BY <1>2, <1>4, <1>5, <1>6, <1>7 DEF IInv

\* A step of the wall clock is a matter of the breaker alone.
LEMMA ClockIInv ==
    ASSUME IInv, NEW s \in Server, ClockSetBack(s) \/ ClockSetForward(s)
    PROVE  IInv'
  <1> USE LimitAssumption
  <1>1. TypeOK
    BY DEF IInv
  <1>2. TypeOK' /\ BreakerMeasuresError'
    <2>1. CASE ClockSetBack(s)
      <3>1. PICK left \in (breaker[s] + 1)..(breaker[s] + MaxStep) :
                /\ left <= BreakerDuration + MaxStep
                /\ breaker' = [breaker EXCEPT ![s] = left]
        BY <2>1 DEF ClockSetBack
      <3>2. breaker' \in [Server -> 0..(BreakerDuration + MaxStep)]
            /\ \A t \in Server : breaker'[t] >= breaker[t]
        BY <1>1, <3>1 DEF TypeOK
      <3> QED  BY <1>1, <2>1, <3>2 DEF ClockSetBack, history, TypeOK, IInv,
                                       BreakerMeasuresError
    <2>2. CASE ClockSetForward(s)
      <3>1. PICK left \in 0..(breaker[s] - 1) : breaker' = [breaker EXCEPT ![s] = left]
        BY <2>2 DEF ClockSetForward
      <3>2. /\ breaker' \in [Server -> 0..(BreakerDuration + MaxStep)]
            /\ clock' \in [Server -> {"new", "steady", "hurried"}]
            /\ \A t \in Server : t # s => breaker'[t] = breaker[t] /\ clock'[t] = clock[t]
            /\ clock'[s] = "hurried"
        BY <1>1, <2>2, <3>1 DEF ClockSetForward, TypeOK
      <3> QED  BY <1>1, <2>2, <3>2 DEF ClockSetForward, history, TypeOK, IInv,
                                       BreakerMeasuresError
    <2> QED  BY <2>1, <2>2
  <1>3. UNCHANGED <<local, newer, shared, delayed, history>>
    BY DEF ClockSetBack, ClockSetForward
  <1> QED  BY <1>2, <1>3 DEF IInv, history, CopiesFromSigning, NewerAreOthers,
               OwnSignatureServed, OwnCopyDue, LocalHit, KeptIsShared, Signed

LEMMA RedisIInv ==
    IInv /\ (\/ \E status \in {"up", "flaky", "down"} : RedisBecomes(status)
            \/ \E c \in Chat : RedisDrops(c) \/ RedisCatchesUp(c)) => IInv'
  <1> USE LimitAssumption, ServerAssumption
  <1>1. ASSUME IInv, NEW status \in {"up", "flaky", "down"}, RedisBecomes(status)
        PROVE  IInv'
    BY <1>1 DEF RedisBecomes, history, IInv, TypeOK, CopiesFromSigning, NewerAreOthers,
                OwnSignatureServed, OwnCopyDue, LocalHit, KeptIsShared, Signed,
                BreakerMeasuresError
  <1>2. ASSUME IInv, NEW c \in Chat, RedisDrops(c) PROVE IInv'
    <2>1. TypeOK' /\ BreakerMeasuresError'
      BY <1>2 DEF RedisDrops, IInv, TypeOK, BreakerMeasuresError
    <2>2. NewerAreOthers' /\ OwnSignatureServed'
      BY <1>2 DEF RedisDrops, IInv, NewerAreOthers, OwnSignatureServed, OwnCopyDue,
                  LocalHit, Signed
    <2>3. \A d \in Chat : shared'[d] = IF d = c THEN 0 ELSE shared[d]
      BY <1>2 DEF RedisDrops, IInv, TypeOK
    <2>4. CopiesFromSigning'
      BY <1>2, <2>3 DEF RedisDrops, IInv, CopiesFromSigning, Signed
    <2>5. KeptIsShared'
      BY <1>2, <2>3 DEF RedisDrops, IInv, TypeOK, KeptIsShared, Signed
    <2> QED  BY <2>1, <2>2, <2>4, <2>5 DEF IInv
  <1>3. ASSUME IInv, NEW c \in Chat, RedisCatchesUp(c) PROVE IInv'
    <2>1. TypeOK' /\ BreakerMeasuresError'
      BY <1>3 DEF RedisCatchesUp, history, IInv, TypeOK, BreakerMeasuresError
    <2>2. NewerAreOthers' /\ OwnSignatureServed'
      BY <1>3 DEF RedisCatchesUp, history, IInv, NewerAreOthers, OwnSignatureServed,
                  OwnCopyDue, LocalHit, Signed
    <2>3. \A d \in Chat : /\ shared'[d] = IF d = c THEN TTL ELSE shared[d]
                          /\ delayed'[d] = IF d = c THEN "applied" ELSE delayed[d]
      BY <1>3 DEF RedisCatchesUp, IInv, TypeOK
    <2>4. Signed(c) /\ c \notin kept
      BY <1>3 DEF RedisCatchesUp, IInv, CopiesFromSigning, KeptIsShared
    <2>5. CopiesFromSigning'
      BY <1>3, <2>3, <2>4 DEF RedisCatchesUp, history, IInv, CopiesFromSigning, Signed
    <2>6. KeptIsShared'
      BY <1>3, <2>3, <2>4 DEF RedisCatchesUp, history, IInv, TypeOK, KeptIsShared, Signed
    <2> QED  BY <2>1, <2>2, <2>5, <2>6 DEF IInv
  <1> QED  BY <1>1, <1>2, <1>3

(***************************************************************************)
(* Theorems                                                                *)
(***************************************************************************)
\* No step of the cache, of its environment or of time leaves IInv.
LEMMA StepIInv == IInv /\ [Next]_vars => IInv'
  <1> SUFFICES ASSUME IInv, [Next]_vars PROVE IInv'
    OBVIOUS
  <1>1. ASSUME NEW s \in Server, NEW c \in Chat, NEW outcome \in CallOutcome,
               SetChat(s, c, outcome)
        PROVE  IInv'
    BY <1>1, SetChatIInv
  <1>2. ASSUME NEW s \in Server, NEW c \in Chat, NEW outcome \in CallOutcome,
               GetChat(s, c, outcome)
        PROVE  IInv'
    BY <1>2, GetChatIInv
  <1>3. CASE Tick
    BY <1>3, TickIInv
  <1>4. ASSUME NEW s \in Server, Restart(s) PROVE IInv'
    BY <1>4, RestartIInv
  <1>5. CASE \/ \E status \in {"up", "flaky", "down"} : RedisBecomes(status)
             \/ \E c \in Chat : RedisDrops(c) \/ RedisCatchesUp(c)
    BY <1>5, RedisIInv
  <1>7. ASSUME NEW s \in Server, ClockSetBack(s) \/ ClockSetForward(s) PROVE IInv'
    BY <1>7, ClockIInv
  <1>6. CASE UNCHANGED vars
    BY <1>6 DEF vars, IInv, TypeOK, CopiesFromSigning, NewerAreOthers,
                OwnSignatureServed, OwnCopyDue, LocalHit, KeptIsShared, Signed,
                BreakerMeasuresError
  <1> QED  BY <1>1, <1>2, <1>3, <1>4, <1>5, <1>6, <1>7 DEF Next

\* The inductive invariant holds of every reachable state.
THEOREM Invariance == Spec => []IInv
  BY InitIInv, StepIInv, PTL DEF Spec

\* Every variable keeps its type.
THEOREM TypeCorrectness == Spec => []TypeOK
  BY Invariance, PTL DEF IInv

\* Neither layer of the cache ever refreshes a copy: all of them expire TTL
\* after the chat was signed (cache.py, local_cache.py, redis.py).
THEOREM ExpiryCorrectness == Spec => []CopiesExpireTogether
  <1>1. IInv => CopiesExpireTogether
    <2> SUFFICES ASSUME IInv, NEW c \in Chat
                 PROVE  /\ delayed[c] # "applied" => shared[c] + age[c] <= TTL
                        /\ \A s \in Server : local[s][c] + age[c] <= TTL
      BY DEF CopiesExpireTogether
    <2>1. shared[c] \in 0..TTL /\ age[c] \in 0..TTL
          /\ \A s \in Server : local[s][c] \in 0..TTL
      BY DEF IInv, TypeOK
    <2>2. shared[c] = 0 \/ delayed[c] = "applied" \/ shared[c] + age[c] = TTL
      BY <2>1 DEF IInv, CopiesFromSigning
    <2>3. \A s \in Server : local[s][c] = 0 \/ local[s][c] + age[c] = TTL
      BY <2>1 DEF IInv, CopiesFromSigning
    <2> QED  BY <2>1, <2>2, <2>3, LimitAssumption
  <1> QED  BY <1>1, Invariance, PTL

\* The signing server serves its own signature from memory, whatever happens
\* to Redis (cache.py: _write_string writes the local cache first).
THEOREM OwnCopies == Spec => []OwnSignatureServed
  BY Invariance, PTL DEF IInv

\* A lookup misses a live signature only if its server does not owe it from
\* memory and Redis could not be asked or does not have it (get_chat).
THEOREM Availability == Spec => []MissesAreExplained
  <1>1. IInv => MissesAreExplained
    <2> SUFFICES ASSUME IInv, NEW s \in Server, NEW c \in Chat,
                        NEW outcome \in CallOutcomes(s),
                        Signed(c), age[c] < TTL, ~Found(s, c, outcome)
                 PROVE  /\ ~(signer[c] = s /\ OwnCopyDue(c))
                        /\ outcome # "ok" \/ c \notin kept
      BY DEF MissesAreExplained
    <2>1. ~(signer[c] = s /\ OwnCopyDue(c))
      BY DEF IInv, OwnSignatureServed, Found
    <2>2. outcome # "ok" \/ c \notin kept
      BY DEF IInv, KeptIsShared, Found, FoundInRedis
    <2> QED  BY <2>1, <2>2
  <1> QED  BY <1>1, Invariance, PTL

\* A failing Redis stalls a server at most once per breaker duration, for
\* every mix of reads and writes (redis.py: set_string, get_string).
THEOREM StallSpacing == Spec => StallsAreSpaced
  <1>1. IInv /\ [Next]_vars =>
            [\A s \in Server, c \in Chat :
                 SetChat(s, c, "error") \/ GetChat(s, c, "error")
                 => sinceError[s] = BreakerDuration \/ clock[s] = "hurried"]_vars
    <2> SUFFICES ASSUME IInv, NEW s \in Server, NEW c \in Chat, CallEnds(s, "error")
                 PROVE  sinceError[s] = BreakerDuration \/ clock[s] = "hurried"
      BY DEF SetChat, GetChat, RedisSet, RedisGet
    <2>1. breaker[s] = 0
      BY DEF CallEnds, CallOutcomes, CircuitOpen, IInv, TypeOK
    <2>2. sinceError[s] \in 0..BreakerDuration
      BY DEF IInv, TypeOK
    <2>3. clock[s] = "hurried" \/ breaker[s] + sinceError[s] >= BreakerDuration
      BY DEF IInv, BreakerMeasuresError
    <2> QED  BY <2>1, <2>2, <2>3, LimitAssumption
  <1> QED  BY <1>1, Invariance, PTL DEF Spec, StallsAreSpaced

\* What BreakerHeals rests on: while Redis is up, no step but a clock that is
\* set back lengthens what is left of any circuit's time, neither by use
\* (_open_circuit) nor by a restart, and time passing shortens it.
THEOREM CircuitsRunDown ==
    Spec => [][redis = "up" /\ (\A s \in Server : ~ClockSetBack(s)) =>
                   \A s \in Server : /\ breaker'[s] <= breaker[s]
                                     /\ Tick /\ breaker[s] > 0 => breaker'[s] < breaker[s]]_vars
  <1> DEFINE A == redis = "up" /\ (\A s \in Server : ~ClockSetBack(s)) =>
                  \A s \in Server : /\ breaker'[s] <= breaker[s]
                                    /\ Tick /\ breaker[s] > 0 => breaker'[s] < breaker[s]
  <1>1. IInv /\ [Next]_vars => [A]_vars
    <2> SUFFICES ASSUME IInv, Next, redis = "up", \A s \in Server : ~ClockSetBack(s),
                        NEW s \in Server
                 PROVE  /\ breaker'[s] <= breaker[s]
                        /\ Tick /\ breaker[s] > 0 => breaker'[s] < breaker[s]
      OBVIOUS
    <2>1. /\ breaker \in [Server -> 0..(BreakerDuration + MaxStep)]
          /\ \A t \in Server : breaker[t] \in Nat
      BY LimitAssumption DEF IInv, TypeOK
    <2>2. Tick => /\ breaker'[s] <= breaker[s]
                  /\ breaker[s] > 0 => breaker'[s] < breaker[s]
      BY <2>1 DEF Tick, Less
    <2>3. ASSUME NEW t \in Server, NEW outcome, CallEnds(t, outcome)
          PROVE  breaker'[s] <= breaker[s]
      BY <2>1, <2>3 DEF CallEnds, CallOutcomes
    <2>4. ASSUME NEW t \in Server, NEW c \in Chat, NEW outcome \in CallOutcome,
                 SetChat(t, c, outcome) \/ GetChat(t, c, outcome)
          PROVE  breaker'[s] <= breaker[s]
      BY <2>3, <2>4 DEF SetChat, GetChat, RedisSet, RedisGet
    <2>5. ASSUME NEW t \in Server, Restart(t) PROVE breaker'[s] <= breaker[s]
      BY <2>1, <2>5 DEF Restart
    <2>6. ASSUME NEW t \in Server, ClockSetForward(t) PROVE breaker'[s] <= breaker[s]
      BY <2>1, <2>6 DEF ClockSetForward
    <2>7. ASSUME \/ \E status \in {"up", "flaky", "down"} : RedisBecomes(status)
                 \/ \E c \in Chat : RedisDrops(c) \/ RedisCatchesUp(c)
          PROVE  breaker'[s] <= breaker[s]
      <3>1. UNCHANGED breaker
        BY <2>7 DEF RedisBecomes, RedisDrops, RedisCatchesUp
      <3> QED  BY <2>1, <3>1
    <2>8. breaker'[s] <= breaker[s]
      BY <2>2, <2>4, <2>5, <2>6, <2>7 DEF Next
    <2> QED  BY <2>2, <2>8
  <1> QED  BY <1>1, Invariance, PTL DEF Spec

(***************************************************************************)
(* The LRU order of a TTLCache                                             *)
(***************************************************************************)
\* newer[s] is a strict total order on the copies cached by s: on the way
\* from one state to the next an eviction relies on all of it.
Ordered(s) ==
    /\ \A c \in Cached(s) : newer[s][c] \subseteq Cached(s) \ {c}
    /\ \A c, d \in Cached(s) : c # d => (d \in newer[s][c] <=> c \notin newer[s][d])
    /\ \A c, d \in Cached(s) : d \in newer[s][c] => newer[s][d] \subseteq newer[s][c]

LruInv == \A s \in Server : Ordered(s) /\ Cardinality(Cached(s)) <= MaxSize

LEMMA CachedIsFinite ==
    ASSUME NEW s \in Server
    PROVE  Cached(s) \subseteq Chat /\ IsFiniteSet(Cached(s)) /\ Cardinality(Cached(s)) \in Nat
  <1>1. Cached(s) \subseteq Chat
    BY DEF Cached
  <1>2. IsFiniteSet(Cached(s))
    BY <1>1, ChatAssumption, FS_Subset
  <1> QED  BY <1>1, <1>2, FS_CardinalityType

\* A cache that is not empty has exactly one oldest copy: the one with the
\* fewest copies that are not newer.
LEMMA OneOldest ==
    ASSUME NEW s \in Server, Ordered(s), Cached(s) # {}
    PROVE  \E v \in Cached(s) : Oldest(s) = {v}
  <1> DEFINE Rest(c) == Cached(s) \ newer[s][c]
             rests == {Rest(c) : c \in Cached(s)}
  <1>1. rests \subseteq FiniteSubsetsOf(Cached(s)) /\ rests # {}
    <2>1. \A c \in Cached(s) : Rest(c) \in SUBSET Cached(s)
      OBVIOUS
    <2>2. \A c \in Cached(s) : IsFiniteSet(Rest(c))
      BY <2>1, CachedIsFinite, FS_Subset
    <2> QED  BY <2>1, <2>2 DEF FiniteSubsetsOf
  <1>2. IsWellFoundedOn(StrictSubsetOrdering(Cached(s)), FiniteSubsetsOf(Cached(s)))
    BY FS_StrictSubsetOrderingWellFounded
  <1>3. \E x \in rests : \A y \in rests : ~ (<<y, x>> \in StrictSubsetOrdering(Cached(s)))
    <2> HIDE DEF rests
    <2> QED  BY <1>1, <1>2, WFMin
  <1>4. PICK v \in Cached(s) : \A c \in Cached(s) :
            ~ (<<Rest(c), Rest(v)>> \in StrictSubsetOrdering(Cached(s)))
    BY <1>3
  <1>5. \A c \in Cached(s) : ~ (Rest(c) \subseteq Rest(v) /\ Rest(c) # Rest(v))
    BY <1>4 DEF StrictSubsetOrdering
  <1>6. ASSUME NEW c \in Cached(s), c # v PROVE c \in newer[s][v]
    <2> SUFFICES ASSUME c \notin newer[s][v] PROVE FALSE
      OBVIOUS
    <2>1. v \in newer[s][c]
      BY <1>6 DEF Ordered
    <2>2. newer[s][v] \subseteq newer[s][c] /\ v \notin newer[s][v]
      BY <2>1 DEF Ordered
    <2>3. Rest(c) \subseteq Rest(v) /\ v \in Rest(v) /\ v \notin Rest(c)
      BY <2>1, <2>2
    <2> QED  BY <1>5, <2>3
  <1>7. newer[s][v] = Cached(s) \ {v}
    BY <1>6 DEF Ordered
  <1>8. ASSUME NEW w \in Oldest(s) PROVE w = v
    <2> SUFFICES ASSUME w # v PROVE FALSE
      OBVIOUS
    <2>1. w \in Cached(s) /\ v \in newer[s][w]
      BY <1>8 DEF Oldest
    <2>2. w \in newer[s][v]
      BY <1>7, <2>1
    <2> QED  BY <2>1, <2>2 DEF Ordered
  <1> QED  BY <1>7, <1>8 DEF Oldest

\* Using c, cached before or not, once the copies in gone have left.
LEMMA UseKeepsOrder ==
    ASSUME TypeOK, NEW s \in Server, NEW c \in Chat, NEW gone \in SUBSET Cached(s),
           Ordered(s), c \notin gone,
           newer' = [newer EXCEPT ![s] = UsedNow(s, c, gone)],
           Cached(s)' = (Cached(s) \ gone) \cup {c}
    PROVE  Ordered(s)'
  <1> DEFINE rest == Cached(s) \ (gone \cup {c})
  <1>1. /\ newer'[s][c] = {}
        /\ \A d \in rest : newer'[s][d] = (newer[s][d] \cup {c}) \ gone
    BY DEF UsedNow, TypeOK, Cached
  <1>2. Cached(s)' = rest \cup {c} /\ c \notin rest
    OBVIOUS
  <1>3. /\ \A d \in rest : newer[s][d] \subseteq Cached(s) \ {d}
        /\ \A d, e \in rest : d # e => (e \in newer[s][d] <=> d \notin newer[s][e])
        /\ \A d, e \in rest : e \in newer[s][d] => newer[s][e] \subseteq newer[s][d]
    BY DEF Ordered
  <1> HIDE DEF rest
  <1>4. \A d \in rest : /\ c \in newer'[s][d]
                        /\ newer'[s][d] \subseteq (rest \cup {c}) \ {d}
    BY <1>1, <1>2, <1>3 DEF rest
  <1>5. \A d, e \in rest : /\ e \in newer'[s][d] <=> e \in newer[s][d]
                           /\ e \in newer[s][d] => newer'[s][e] \subseteq newer'[s][d]
    BY <1>1, <1>3 DEF rest
  <1>6. \A d \in Cached(s)' : newer'[s][d] \subseteq Cached(s)' \ {d}
    BY <1>1, <1>2, <1>4
  <1>7. \A d, e \in Cached(s)' : d # e => (e \in newer'[s][d] <=> d \notin newer'[s][e])
    BY <1>1, <1>2, <1>3, <1>4, <1>5
  <1>8. \A d, e \in Cached(s)' : e \in newer'[s][d] => newer'[s][e] \subseteq newer'[s][d]
    BY <1>1, <1>2, <1>4, <1>5
  <1> QED  BY <1>6, <1>7, <1>8 DEF Ordered

\* A set makes room for itself.
LEMMA SetKeepsLru ==
    ASSUME IInv, LruInv, NEW s \in Server, NEW c \in Chat, ~Signed(c), LocalSet(s, c)
    PROVE  LruInv'
  <1> USE LimitAssumption, ServerAssumption
  <1>1. TypeOK /\ Ordered(s) /\ Cardinality(Cached(s)) <= MaxSize
    BY DEF IInv, LruInv
  <1>2. c \notin Cached(s)
    BY DEF IInv, CopiesFromSigning, Cached, Signed
  <1>3. \A t \in Server : t # s => Cached(t)' = Cached(t) /\ newer'[t] = newer[t]
    BY <1>1 DEF LocalSet, Cached, TypeOK
  <1>4. Evicted(s) \in SUBSET Cached(s)
    BY DEF Evicted, Oldest
  <1>5. Cached(s)' = (Cached(s) \ Evicted(s)) \cup {c}
    <2>1. \A d \in Chat : local'[s][d] = IF d = c THEN TTL
                                         ELSE IF d \in Evicted(s) THEN 0 ELSE local[s][d]
      BY <1>1 DEF LocalSet, TypeOK
    <2> QED  BY <1>2, <1>4, <2>1 DEF Cached
  <1>6. Ordered(s)'
    BY <1>1, <1>2, <1>4, <1>5, UseKeepsOrder DEF LocalSet
  <1>7. Cardinality(Cached(s)') <= MaxSize
    <2>1. IsFiniteSet(Cached(s)) /\ Cardinality(Cached(s)) \in Nat
      BY CachedIsFinite
    <2>2. CASE Cardinality(Cached(s)) >= MaxSize
      <3>1. Cached(s) # {}
        BY <2>2, FS_EmptySet
      <3>2. PICK v \in Cached(s) : Evicted(s) = {v}
        BY <1>1, <2>2, <3>1, OneOldest DEF Evicted
      <3>3. /\ IsFiniteSet(Cached(s) \ {v})
            /\ Cardinality(Cached(s) \ {v}) = Cardinality(Cached(s)) - 1
        BY <2>1, FS_RemoveElement
      <3>4. Cardinality((Cached(s) \ {v}) \cup {c}) = Cardinality(Cached(s))
        <4>1. Cardinality((Cached(s) \ {v}) \cup {c}) = Cardinality(Cached(s) \ {v}) + 1
          BY <1>2, <3>3, FS_AddElement
        <4> QED  BY <2>1, <3>3, <4>1
      <3> QED  BY <1>1, <1>5, <3>2, <3>4
    <2>3. CASE ~(Cardinality(Cached(s)) >= MaxSize)
      <3>1. Cached(s)' = Cached(s) \cup {c}
        BY <1>5, <2>3 DEF Evicted
      <3>2. Cardinality(Cached(s) \cup {c}) = Cardinality(Cached(s)) + 1
        BY <1>2, <2>1, FS_AddElement
      <3> QED  BY <2>1, <2>3, <3>1, <3>2
    <2> QED  BY <2>2, <2>3
  <1>8. \A t \in Server : t # s => Ordered(t)'
    BY <1>3 DEF LruInv, Ordered
  <1> QED  BY <1>3, <1>6, <1>7, <1>8 DEF LruInv

\* A hit moves the copy to the end of the order.
LEMMA GetKeepsLru ==
    ASSUME IInv, LruInv, NEW s \in Server, NEW c \in Chat, UNCHANGED local,
           UNCHANGED newer \/ LocalGet(s, c)
    PROVE  LruInv'
  <1>1. TypeOK /\ \A t \in Server : Cached(t)' = Cached(t)
    BY DEF IInv, Cached
  <1>2. CASE UNCHANGED newer
    BY <1>1, <1>2 DEF LruInv, Ordered
  <1>3. CASE /\ LocalHit(s, c)
             /\ newer' = [newer EXCEPT ![s] = UsedNow(s, c, {})]
    <2>1. Cached(s)' = (Cached(s) \ {}) \cup {c}
      BY <1>1, <1>3 DEF LocalHit, Cached
    <2>2. Ordered(s)'
      <3>1. Ordered(s) /\ {} \in SUBSET Cached(s) /\ c \notin {}
        BY DEF LruInv
      <3> QED  BY <1>1, <1>3, <2>1, <3>1, UseKeepsOrder
    <2>3. \A t \in Server : t # s => newer'[t] = newer[t]
      BY <1>1, <1>3 DEF TypeOK
    <2> QED  BY <1>1, <2>2, <2>3 DEF LruInv, Ordered
  <1> QED  BY <1>2, <1>3 DEF LocalGet

\* Copies only leave the cache, and the order of the others stays.
LEMMA TickKeepsLru == ASSUME IInv, LruInv, Tick PROVE LruInv'
  <1> USE LimitAssumption
  <1>1. TypeOK
    BY DEF IInv
  <1> SUFFICES ASSUME NEW s \in Server
               PROVE  Ordered(s)' /\ Cardinality(Cached(s)') <= MaxSize
    BY DEF LruInv
  <1>2. \A c \in Chat : local'[s][c] > 0 <=> local[s][c] > 1
    BY <1>1 DEF Tick, TypeOK, Less
  <1>3. Cached(s)' = {c \in Cached(s) : local[s][c] > 1}
    <2>1. \A c \in Chat : local[s][c] > 1 => local[s][c] > 0
      BY <1>1 DEF TypeOK
    <2> QED  BY <1>2, <2>1 DEF Cached
  <1>4. \A c \in Cached(s)' : newer'[s][c] = newer[s][c] \cap Cached(s)'
    <2>1. \A c \in Chat : newer'[s][c] = IF local[s][c] > 1
                                         THEN {d \in newer[s][c] : local[s][d] > 1} ELSE {}
      BY DEF Tick
    <2>2. \A c \in Cached(s) : newer[s][c] \subseteq Cached(s) /\ c \in Chat
      BY DEF LruInv, Ordered, Cached
    <2> QED  BY <1>3, <2>1, <2>2
  <1>5. Cached(s)' \in SUBSET Cached(s)
    BY <1>3
  <1>6. Ordered(s)'
    BY <1>4, <1>5 DEF LruInv, Ordered
  <1>7. Cardinality(Cached(s)') <= MaxSize
    <2>1. IsFiniteSet(Cached(s)) /\ Cardinality(Cached(s)) <= MaxSize
      BY CachedIsFinite DEF LruInv
    <2>2. /\ IsFiniteSet(Cached(s)')
          /\ Cardinality(Cached(s)') <= Cardinality(Cached(s))
      BY <1>5, <2>1, FS_Subset
    <2> QED  BY <2>1, <2>2, FS_CardinalityType
  <1> QED  BY <1>6, <1>7

LEMMA RestartKeepsLru == ASSUME IInv, LruInv, NEW s \in Server, Restart(s) PROVE LruInv'
  <1> USE LimitAssumption
  <1>1. TypeOK
    BY DEF IInv
  <1>2. Cached(s)' = {}
    BY <1>1 DEF Restart, TypeOK, Cached
  <1>3. \A t \in Server : t # s => Cached(t)' = Cached(t) /\ newer'[t] = newer[t]
    BY <1>1 DEF Restart, TypeOK, Cached
  <1>4. Ordered(s)' /\ Cardinality(Cached(s)') <= MaxSize
    BY <1>2, FS_EmptySet DEF Ordered
  <1> QED  BY <1>3, <1>4 DEF LruInv, Ordered

LEMMA StepLru == IInv /\ LruInv /\ [Next]_vars => LruInv'
  <1> SUFFICES ASSUME IInv, LruInv, [Next]_vars PROVE LruInv'
    OBVIOUS
  <1>1. CASE UNCHANGED <<local, newer>>
    BY <1>1 DEF LruInv, Ordered, Cached
  <1>2. ASSUME NEW s \in Server, NEW c \in Chat, NEW outcome \in CallOutcome,
               SetChat(s, c, outcome)
        PROVE  LruInv'
    BY <1>2, SetKeepsLru DEF SetChat
  <1>3. ASSUME NEW s \in Server, NEW c \in Chat, NEW outcome \in CallOutcome,
               GetChat(s, c, outcome)
        PROVE  LruInv'
    BY <1>3, GetKeepsLru DEF GetChat
  <1>4. CASE Tick
    BY <1>4, TickKeepsLru
  <1>5. ASSUME NEW s \in Server, Restart(s) PROVE LruInv'
    BY <1>5, RestartKeepsLru
  <1>6. CASE \/ \E s \in Server : ClockSetBack(s) \/ ClockSetForward(s)
             \/ \E status \in {"up", "flaky", "down"} : RedisBecomes(status)
             \/ \E c \in Chat : RedisDrops(c) \/ RedisCatchesUp(c)
             \/ UNCHANGED vars
    BY <1>1, <1>6 DEF ClockSetBack, ClockSetForward, RedisBecomes, RedisDrops,
                      RedisCatchesUp, vars
  <1> QED  BY <1>2, <1>3, <1>4, <1>5, <1>6 DEF Next

\* A TTLCache never exceeds its size, whatever mix of sets, hits, expiries
\* and restarts it goes through (local_cache.py, cachetools).
THEOREM LruOrder == Spec => []LruIsTotal
  <1>1. Init => LruInv
    <2> SUFFICES ASSUME Init, NEW s \in Server
                 PROVE  Ordered(s) /\ Cardinality(Cached(s)) <= MaxSize
      BY DEF LruInv
    <2>1. Cached(s) = {}
      BY DEF Init, Cached
    <2> QED  BY <2>1, FS_EmptySet, LimitAssumption DEF Ordered
  <1>2. LruInv => LruIsTotal
    BY DEF LruInv, Ordered, LruIsTotal
  <1> QED  BY <1>1, <1>2, StepLru, Invariance, PTL DEF Spec

(***************************************************************************)
(* The dual-layer cache implements SignatureStore, for every number of     *)
(* servers and chats and every limit: each of its steps is one of the      *)
(* store, or changes nothing that the store shows.                         *)
(***************************************************************************)
LEMMA StoreInit == Init => Store!Init
  <1> SUFFICES ASSUME Init PROVE Store!Init
    OBVIOUS
  <1>1. \A c \in Chat : StatusOf(c) = "unsigned"
    BY DEF Init, StatusOf, Signed
  <1>2. /\ {c \in Chat : delayed[c] = "pending"} = {}
        /\ {c \in Chat : delayed[c] = "applied"} = {}
    BY DEF Init
  <1> QED  BY <1>1, <1>2 DEF Init, Store!Init

\* Where no signature comes back and none is unsigned, the store lost some.
LEMMA OnlyLosses ==
    ASSUME signer' = signer, \A c \in Chat : Held(c)' => Held(c)
    PROVE  [c \in Chat |-> StatusOf(c)]'
               = Store!Without({c \in Store!HeldChats : ~Held(c)'})
  <1> DEFINE lost == {c \in Store!HeldChats : ~Held(c)'}
  <1> SUFFICES ASSUME NEW c \in Chat
               PROVE  StatusOf(c)' = IF c \in lost THEN "gone" ELSE StatusOf(c)
    BY DEF Store!Without
  <1>1. c \in lost <=> StatusOf(c) = "held" /\ ~Held(c)'
    BY DEF Store!HeldChats
  <1>2. Signed(c)' <=> Signed(c)
    BY DEF Signed
  <1> QED  BY <1>1, <1>2 DEF StatusOf

\* set_chat signs; what it pushes out may be the last copy of another chat.
LEMMA SetChatSigns ==
    ASSUME IInv, NEW s \in Server, NEW c \in Chat, NEW outcome \in CallOutcome,
           SetChat(s, c, outcome)
    PROVE  Store!Sign(c)
  <1> DEFINE lost == {d \in Store!HeldChats : d # c /\ ~Held(d)'}
  <1>1. TypeOK /\ signer' = [signer EXCEPT ![c] = s] /\ signer[c] = Nobody
        /\ s # Nobody /\ delayed[c] = "no" /\ age' = age
    BY ServerAssumption DEF SetChat, Signed, IInv, CopiesFromSigning
  <1>2. \A d \in Chat \ {c} : Signed(d)' <=> Signed(d)
    BY <1>1 DEF Signed, TypeOK
  <1>3. Held(c)' /\ Signed(c)' /\ ~Signed(c)
    <2>1. local'[s][c] = TTL
      BY <1>1 DEF SetChat, LocalSet, TypeOK
    <2> QED  BY <1>1, <2>1, LimitAssumption DEF Held, Signed, TypeOK
  <1>4. \A d \in Chat \ {c} : Held(d)' => Held(d)
    <2>1. \A t \in Server, d \in Chat \ {c} : local'[t][d] = local[t][d] \/ local'[t][d] = 0
      BY <1>1 DEF SetChat, LocalSet, TypeOK
    <2>2. shared' = shared \/ shared' = [shared EXCEPT ![c] = TTL]
      BY Zenon DEF SetChat, RedisSet
    <2>3. \A d \in Chat \ {c} : shared'[d] = shared[d]
      BY <1>1, <2>2 DEF TypeOK
    <2> QED  BY <2>1, <2>3 DEF Held
  <1>5. [d \in Chat |-> StatusOf(d)]' = [Store!Without(lost) EXCEPT ![c] = "held"]
    <2> SUFFICES ASSUME NEW d \in Chat
                 PROVE  StatusOf(d)' = IF d = c THEN "held"
                                       ELSE IF d \in lost THEN "gone" ELSE StatusOf(d)
      BY DEF Store!Without
    <2>1. CASE d = c
      BY <1>3, <2>1 DEF StatusOf
    <2>2. CASE d # c
      <3>1. d \in lost <=> StatusOf(d) = "held" /\ ~Held(d)'
        BY <2>2 DEF Store!HeldChats
      <3> QED  BY <1>2, <1>4, <2>2, <3>1 DEF StatusOf
    <2> QED  BY <2>1, <2>2
  <1>6. delayed' = delayed \/ delayed' = [delayed EXCEPT ![c] = "pending"]
    BY Zenon DEF SetChat, RedisSet
  <1>7. /\ {d \in Chat : delayed'[d] = "applied"} = {d \in Chat : delayed[d] = "applied"}
        /\ \/ {d \in Chat : delayed'[d] = "pending"} = {d \in Chat : delayed[d] = "pending"}
           \/ {d \in Chat : delayed'[d] = "pending"}
                  = {d \in Chat : delayed[d] = "pending"} \cup {c}
    BY <1>1, <1>6 DEF TypeOK
  <1>8. StatusOf(c) = "unsigned" /\ lost \in SUBSET Store!HeldChats
    BY <1>3 DEF StatusOf
  <1> QED  BY <1>1, <1>5, <1>7, <1>8 DEF Store!Sign

\* A copy is as old as its signature, so all of them go when its time is up.
LEMMA TickPasses == IInv /\ Tick => Store!Pass
  <1> SUFFICES ASSUME IInv, Tick PROVE Store!Pass
    OBVIOUS
  <1> DEFINE lost == {c \in Store!HeldChats : ~Held(c)'}
  <1>1. TypeOK /\ signer' = signer /\ delayed' = delayed
    BY DEF IInv, Tick
  <1>2. /\ \A s \in Server, c \in Chat :
               local'[s][c] = Less(local[s][c]) /\ local[s][c] \in 0..TTL
        /\ \A c \in Chat : /\ shared'[c] = Less(shared[c])
                           /\ shared[c] \in 0..TTL /\ age[c] \in 0..TTL
    BY <1>1 DEF Tick, TypeOK
  <1>3. \A c \in Chat : Held(c)' => Held(c)
    BY <1>2, LimitAssumption DEF Held, Less
  <1>4. age' = [c \in Chat |-> IF StatusOf(c) # "unsigned" /\ age[c] < TTL
                               THEN age[c] + 1 ELSE age[c]]
    <2>1. \A c \in Chat : StatusOf(c) # "unsigned" <=> Signed(c)
      BY DEF StatusOf
    <2> QED  BY <2>1 DEF Tick
  <1>5. ASSUME NEW c \in Chat, delayed[c] # "applied", age'[c] = TTL PROVE ~Held(c)'
    <2>1. age[c] >= TTL - 1
      BY <1>2, <1>4, <1>5, LimitAssumption
    <2>2. shared[c] = 0 \/ shared[c] + age[c] = TTL
      BY <1>2, <1>5 DEF IInv, CopiesFromSigning
    <2>3. \A s \in Server : local[s][c] = 0 \/ local[s][c] + age[c] = TTL
      BY <1>2 DEF IInv, CopiesFromSigning
    <2>4. shared'[c] = 0
      BY <1>2, <2>1, <2>2, LimitAssumption DEF Less
    <2>5. \A s \in Server : local'[s][c] = 0
      BY <1>2, <2>1, <2>3, LimitAssumption DEF Less
    <2> QED  BY <2>4, <2>5 DEF Held
  <1>6. [c \in Chat |-> StatusOf(c)]' = Store!Without(lost)
    BY <1>1, <1>3, OnlyLosses
  <1>7. {c \in Store!HeldChats \ {d \in Chat : delayed[d] = "applied"} : age'[c] = TTL}
            \subseteq lost
    BY <1>5 DEF Store!HeldChats
  <1> QED  BY <1>1, <1>4, <1>6, <1>7 DEF Store!Pass

\* A restart and a key lost in Redis lose copies, perhaps the last ones.
LEMMA LossesLose ==
    ASSUME IInv, \/ \E s \in Server : Restart(s)
                 \/ \E c \in Chat : RedisDrops(c)
    PROVE  Store!Lose
  <1> DEFINE lost == {c \in Store!HeldChats : ~Held(c)'}
  <1>1. signer' = signer /\ age' = age /\ delayed' = delayed /\ TypeOK
    BY DEF Restart, RedisDrops, IInv
  <1>2. \A c \in Chat : Held(c)' => Held(c)
    <2>1. ASSUME NEW s \in Server, Restart(s) PROVE \A c \in Chat : Held(c)' => Held(c)
      <3>1. shared' = shared /\ \A t \in Server, c \in Chat :
                local'[t][c] = local[t][c] \/ local'[t][c] = 0
        BY <1>1, <2>1 DEF Restart, TypeOK
      <3> QED  BY <3>1 DEF Held
    <2>2. ASSUME NEW c \in Chat, RedisDrops(c) PROVE \A d \in Chat : Held(d)' => Held(d)
      <3>1. local' = local /\ \A d \in Chat : shared'[d] = shared[d] \/ shared'[d] = 0
        BY <1>1, <2>2 DEF RedisDrops, TypeOK
      <3> QED  BY <3>1 DEF Held
    <2> QED  BY <2>1, <2>2
  <1>3. [c \in Chat |-> StatusOf(c)]' = Store!Without(lost)
    BY <1>1, <1>2, OnlyLosses
  <1> QED  BY <1>1, <1>3 DEF Store!Lose

LEMMA CatchingUpArrives ==
    ASSUME IInv, NEW c \in Chat, RedisCatchesUp(c) PROVE Store!Arrive(c)
  <1>1. TypeOK /\ signer' = signer /\ age' = age /\ local' = local
        /\ delayed[c] = "pending" /\ delayed' = [delayed EXCEPT ![c] = "applied"]
        /\ shared' = [shared EXCEPT ![c] = TTL]
    BY DEF RedisCatchesUp, history, IInv
  <1>2. Signed(c) /\ \A d \in Chat : Signed(d)' <=> Signed(d)
    BY <1>1 DEF IInv, CopiesFromSigning, Signed
  <1>3. Held(c)' /\ \A d \in Chat \ {c} : Held(d)' <=> Held(d)
    BY <1>1, LimitAssumption DEF TypeOK, Held
  <1>4. [d \in Chat |-> StatusOf(d)]' = [[d \in Chat |-> StatusOf(d)] EXCEPT ![c] = "held"]
    BY <1>2, <1>3 DEF StatusOf
  <1>5. /\ {d \in Chat : delayed'[d] = "pending"} = {d \in Chat : delayed[d] = "pending"} \ {c}
        /\ {d \in Chat : delayed'[d] = "applied"}
               = {d \in Chat : delayed[d] = "applied"} \cup {c}
    BY <1>1 DEF TypeOK
  <1> QED  BY <1>1, <1>4, <1>5 DEF Store!Arrive

\* What changes neither a copy nor a signer does not show in the store.
LEMMA UnseenStutters ==
    UNCHANGED <<local, shared, delayed, signer, age>> => UNCHANGED Store!vars
  <1> SUFFICES ASSUME UNCHANGED <<local, shared, delayed, signer, age>>
               PROVE  UNCHANGED Store!vars
    OBVIOUS
  <1>1. \A c \in Chat : StatusOf(c)' = StatusOf(c)
    BY DEF StatusOf, Held, Signed
  <1> QED  BY <1>1 DEF Store!vars

LEMMA StoreStep == IInv /\ [Next]_vars => [Store!Next]_(Store!vars)
  <1> SUFFICES ASSUME IInv, [Next]_vars PROVE [Store!Next]_(Store!vars)
    OBVIOUS
  <1>1. ASSUME NEW s \in Server, NEW c \in Chat, NEW outcome \in CallOutcome,
               SetChat(s, c, outcome)
        PROVE  Store!Next
    BY <1>1, SetChatSigns DEF Store!Next
  <1>2. CASE Tick
    BY <1>2, TickPasses DEF Store!Next
  <1>3. CASE (\E s \in Server : Restart(s)) \/ (\E c \in Chat : RedisDrops(c))
    BY <1>3, LossesLose DEF Store!Next
  <1>4. ASSUME NEW c \in Chat, RedisCatchesUp(c) PROVE Store!Next
    BY <1>4, CatchingUpArrives DEF Store!Next
  <1>5. CASE \/ \E s \in Server, c \in Chat, outcome \in CallOutcome : GetChat(s, c, outcome)
             \/ \E s \in Server : ClockSetBack(s) \/ ClockSetForward(s)
             \/ \E status \in {"up", "flaky", "down"} : RedisBecomes(status)
             \/ UNCHANGED vars
    <2>1. UNCHANGED <<local, shared, delayed, signer, age>>
      BY <1>5 DEF GetChat, RedisGet, ClockSetBack, ClockSetForward, RedisBecomes, history, vars
    <2> QED  BY <2>1, UnseenStutters
  <1> QED  BY <1>1, <1>2, <1>3, <1>4, <1>5 DEF Next

\* The cache of several servers and two layers is, to those who ask for
\* signatures, the one store of SignatureStore (cache.py, local_cache.py,
\* redis.py).
THEOREM StoreRefinement == Spec => ImplementsStore
  BY InitIInv, StepIInv, StoreInit, StoreStep, PTL DEF Spec, Store!Spec, ImplementsStore
============================================================================

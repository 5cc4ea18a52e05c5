------------------------------ MODULE OBOCacheProofs ------------------------------
(***************************************************************************)
(* Proofs about OBOCache, for any callers, users, grants, lives and margins.  *)
(***************************************************************************)
EXTENDS OBOCache, TLAPS

(* The caller whose exchange is in flight holds the lock of its key, and what *)
(* was issued to it was issued since the exchange began.                      *)
InFlight ==
  \A t \in Callers : pc[t] = "exchange" =>
    /\ holder[CacheKey(t)] = t
    /\ request[t] \in [began : Nat, issued : Nat \cup {None}]
    /\ request[t].began <= now /\ now <= request[t].began + MaxLatency
    /\ request[t].issued # None => request[t].began <= request[t].issued /\ request[t].issued <= now

(* A cached token is filed under its own user and grant, and its age is       *)
(* counted from at most MaxLatency after it was issued.                       *)
Cached ==
  \A k \in Keys : cache[k] # None =>
    /\ k = <<cache[k].subject, cache[k].grant>>
    /\ cache[k].issued_at <= cache[k].issued + MaxLatency
    /\ cache[k].issued_at <= now

IInv == TypeOK /\ InFlight /\ Cached /\ OwnToken /\ ReturnedAlive

LEMMA KeyOfCaller == ASSUME NEW t \in Callers PROVE CacheKey(t) \in Keys
BY DEF Keys

LEMMA TokenFields ==
  ASSUME NEW tok \in Tokens
  PROVE  tok.issued \in Nat /\ tok.issued_at \in Nat /\ tok.expires_in \in Nat
BY CacheAssumption DEF Tokens

LEMMA ClockIsNat == ASSUME IInv PROVE now \in Nat
BY CacheAssumption DEF IInv, TypeOK

(* The lock is released to somebody who was waiting, or to nobody.            *)
LEMMA ReleaseStep ==
  ASSUME TypeOK, NEW k \in Keys, Release(k)
  PROVE  /\ holder' \in [Keys -> Callers \cup {None}]
         /\ waiting' \in [Keys -> Seq(Callers)]
         /\ \A j \in Keys \ {k} : holder'[j] = holder[j]
<1>1. waiting[k] \in Seq(Callers)
  BY DEF TypeOK
<1>2. CASE waiting[k] = <<>>
  BY <1>2 DEF TypeOK, Release
<1>3. CASE waiting[k] # <<>>
  <2>1. Head(waiting[k]) \in Callers /\ Tail(waiting[k]) \in Seq(Callers)
    BY <1>1, <1>3
  <2> QED
    BY <1>3, <2>1 DEF TypeOK, Release
<1> QED
  BY <1>2, <1>3

(* A fresh token that is returned is the caller's own, and alive.             *)
LEMMA FreshIsAlive ==
  ASSUME IInv, NEW t \in Callers, Fresh(CacheKey(t))
  PROVE  LET tok == cache[CacheKey(t)]
         IN /\ tok \in Tokens /\ tok.subject = Subject[t] /\ tok.grant = Grant[t]
            /\ CacheTtl >= MaxLatency => now < tok.issued + tok.expires_in
<1> DEFINE tok == cache[CacheKey(t)]
<1>1. CacheKey(t) \in Keys
  BY KeyOfCaller
<1>2. tok # None /\ tok \in Tokens
  BY <1>1 DEF IInv, TypeOK, Fresh
<1>3. /\ CacheKey(t) = <<tok.subject, tok.grant>>
      /\ tok.issued_at <= tok.issued + MaxLatency
  BY <1>1, <1>2 DEF IInv, Cached
<1>4. tok.subject = Subject[t] /\ tok.grant = Grant[t]
  BY <1>3 DEF CacheKey
<1>5. now - tok.issued_at < tok.expires_in - CacheTtl
  <2>1. ~(now - tok.issued_at >= tok.expires_in - CacheTtl)
    BY DEF Fresh, IsExpired
  <2>2. tok.issued_at \in Nat /\ tok.expires_in \in Nat /\ now \in Nat /\ CacheTtl \in Nat
    BY <1>2, TokenFields, ClockIsNat, CacheAssumption
  <2> QED
    BY <2>1, <2>2
<1>6. CacheTtl >= MaxLatency => now < tok.issued + tok.expires_in
  <2>1. /\ tok.issued \in Nat /\ tok.issued_at \in Nat /\ tok.expires_in \in Nat
        /\ now \in Nat /\ CacheTtl \in Nat /\ MaxLatency \in Nat
    BY <1>2, TokenFields, ClockIsNat, CacheAssumption
  <2> QED
    BY <1>3, <1>5, <2>1
<1> QED
  BY <1>2, <1>4, <1>6
--------------------------------------------------------------------------------
LEMMA InitInv == Init => IInv
BY CacheAssumption DEF Init, IInv, TypeOK, InFlight, Cached, OwnToken, ReturnedAlive

LEMMA HitStep == ASSUME IInv, NEW t \in Callers, Hit(t) PROVE IInv'
<1> DEFINE tok == cache[CacheKey(t)]
<1>1. Fresh(CacheKey(t)) /\ got' = [got EXCEPT ![t] = [token |-> tok, at |-> now]]
  BY DEF Hit, Return
<1>2. /\ tok \in Tokens /\ tok.subject = Subject[t] /\ tok.grant = Grant[t]
      /\ CacheTtl >= MaxLatency => now < tok.issued + tok.expires_in
  BY <1>1, FreshIsAlive
<1>3. UNCHANGED <<now, cache, holder, waiting, pc, request>>
  BY DEF Hit
<1> HIDE DEF tok
<1>4. TypeOK'
  BY <1>1, <1>2, <1>3, CacheAssumption DEF IInv, TypeOK
<1>5. InFlight' /\ Cached'
  BY <1>3 DEF IInv, InFlight, Cached
<1>6. OwnToken' /\ ReturnedAlive'
  BY <1>1, <1>2, <1>3 DEF IInv, TypeOK, OwnToken, ReturnedAlive
<1> QED
  BY <1>4, <1>5, <1>6 DEF IInv

(* Miss, and Enter when the second check misses too.                          *)
LEMMA StartStep ==
  ASSUME IInv, NEW t \in Callers, pc[t] # "exchange",
         StartExchange(t), holder' = [holder EXCEPT ![CacheKey(t)] = t],
         holder[CacheKey(t)] \in {None, t}, UNCHANGED <<now, cache, waiting, got>>
  PROVE  IInv'
<1>1. CacheKey(t) \in Keys
  BY KeyOfCaller
<1>2. TypeOK'
  BY <1>1, CacheAssumption DEF IInv, TypeOK, StartExchange
<1>3. InFlight'
  <2> SUFFICES ASSUME NEW u \in Callers, pc'[u] = "exchange" PROVE InFlight!(u)!2'
    BY DEF InFlight
  <2>1. CASE u = t
    BY <2>1, <1>1, CacheAssumption DEF IInv, TypeOK, StartExchange
  <2>2. CASE u # t
    <3>1. pc[u] = "exchange" /\ request'[u] = request[u]
      BY <2>2 DEF IInv, TypeOK, StartExchange
    <3>2. holder[CacheKey(u)] = u
      BY <3>1 DEF IInv, InFlight
    <3>3. CacheKey(u) # CacheKey(t)
      BY <2>2, <3>2, CacheAssumption
    <3>4. holder'[CacheKey(u)] = u
      BY <3>2, <3>3, <1>1, KeyOfCaller DEF IInv, TypeOK
    <3> QED
      BY <3>1, <3>4 DEF IInv, InFlight
  <2> QED
    BY <2>1, <2>2
<1>4. Cached' /\ OwnToken' /\ ReturnedAlive'
  BY DEF IInv, Cached, OwnToken, ReturnedAlive
<1> QED
  BY <1>2, <1>3, <1>4 DEF IInv

LEMMA MissStep == ASSUME IInv, NEW t \in Callers, Miss(t) PROVE IInv'
<1>1. pc[t] # "exchange" /\ holder[CacheKey(t)] \in {None, t}
  BY DEF Miss
<1> QED
  BY <1>1, StartStep DEF Miss

LEMMA WaitStep == ASSUME IInv, NEW t \in Callers, Wait(t) PROVE IInv'
<1>1. CacheKey(t) \in Keys
  BY KeyOfCaller
<1>2. TypeOK'
  BY <1>1 DEF IInv, TypeOK, Wait
<1>3. InFlight'
  BY DEF IInv, TypeOK, InFlight, Wait
<1>4. Cached' /\ OwnToken' /\ ReturnedAlive'
  BY DEF IInv, Cached, OwnToken, ReturnedAlive, Wait
<1> QED
  BY <1>2, <1>3, <1>4 DEF IInv

(* What leaves the block under the lock has in common.                        *)
LEMMA LeaveKeepsInFlight ==
  ASSUME IInv, NEW t \in Callers, holder[CacheKey(t)] = t, Release(CacheKey(t)),
         pc' = [pc EXCEPT ![t] = "idle"], UNCHANGED now,
         \A u \in Callers \ {t} : request'[u] = request[u]
  PROVE  InFlight'
<1> SUFFICES ASSUME NEW u \in Callers, pc'[u] = "exchange" PROVE InFlight!(u)!2'
  BY DEF InFlight
<1>1. u # t /\ pc[u] = "exchange" /\ request'[u] = request[u]
  BY DEF IInv, TypeOK
<1>2. holder[CacheKey(u)] = u
  BY <1>1 DEF IInv, InFlight
<1>3. CacheKey(u) \in Keys \ {CacheKey(t)}
  BY <1>1, <1>2, KeyOfCaller
<1>4. holder'[CacheKey(u)] = u
  BY <1>2, <1>3, ReleaseStep, KeyOfCaller DEF IInv
<1> QED
  BY <1>1, <1>4 DEF IInv, InFlight

LEMMA EnterStep == ASSUME IInv, NEW t \in Callers, Enter(t) PROVE IInv'
<1> DEFINE k == CacheKey(t)
           tok == cache[k]
<1>1. pc[t] = "lock" /\ holder[k] = t /\ k \in Keys
  BY KeyOfCaller DEF Enter
<1>2. CASE Fresh(k)
  <2>1. /\ Release(k) /\ got' = [got EXCEPT ![t] = [token |-> tok, at |-> now]]
        /\ pc' = [pc EXCEPT ![t] = "idle"] /\ UNCHANGED <<now, cache, request>>
    BY <1>2 DEF Enter, SecondCheck, Return
  <2>2. /\ tok \in Tokens /\ tok.subject = Subject[t] /\ tok.grant = Grant[t]
        /\ CacheTtl >= MaxLatency => now < tok.issued + tok.expires_in
    BY <1>2, FreshIsAlive
  <2>3. InFlight'
    BY <1>1, <2>1, LeaveKeepsInFlight
  <2>4. /\ holder' \in [Keys -> Callers \cup {None}]
        /\ waiting' \in [Keys -> Seq(Callers)]
    BY <1>1, <2>1, ReleaseStep DEF IInv
  <2> HIDE DEF tok, k
  <2>5. TypeOK'
    BY <2>1, <2>2, <2>4, CacheAssumption DEF IInv, TypeOK
  <2>6. Cached'
    BY <2>1 DEF IInv, Cached
  <2>7. OwnToken' /\ ReturnedAlive'
    BY <2>1, <2>2 DEF IInv, TypeOK, OwnToken, ReturnedAlive
  <2> QED
    BY <2>3, <2>5, <2>6, <2>7 DEF IInv
<1>3. CASE ~Fresh(k)
  <2>1. StartExchange(t) /\ UNCHANGED <<now, cache, holder, waiting, got>>
    BY <1>3 DEF Enter, SecondCheck
  <2>2. holder' = [holder EXCEPT ![CacheKey(t)] = t]
    BY <1>1, <2>1 DEF IInv, TypeOK
  <2> QED
    BY <1>1, <2>1, <2>2, StartStep
<1> QED
  BY <1>2, <1>3

LEMMA IssueStep == ASSUME IInv, NEW t \in Callers, Issue(t) PROVE IInv'
<1>1. request[t] \in [began : Nat, issued : Nat \cup {None}] /\ now \in Nat
  BY CacheAssumption DEF IInv, TypeOK, InFlight, Issue
<1>2. /\ request' = [request EXCEPT ![t] = [began |-> request[t].began, issued |-> now]]
      /\ UNCHANGED <<now, cache, holder, waiting, pc, got>>
  <2>1. [request[t] EXCEPT !.issued = now] = [began |-> request[t].began, issued |-> now]
    BY <1>1
  <2> QED
    BY <2>1 DEF Issue
<1>3. TypeOK'
  BY <1>1, <1>2 DEF IInv, TypeOK
<1>4. InFlight'
  BY <1>1, <1>2 DEF IInv, TypeOK, InFlight
<1>5. Cached' /\ OwnToken' /\ ReturnedAlive'
  BY <1>2 DEF IInv, Cached, OwnToken, ReturnedAlive
<1> QED
  BY <1>3, <1>4, <1>5 DEF IInv

LEMMA ExchangedStep == ASSUME IInv, NEW t \in Callers, Exchanged(t) PROVE IInv'
<1> DEFINE k == CacheKey(t)
<1>1. PICK life \in Lives :
        LET tok == [subject |-> Subject[t], grant |-> Grant[t],
                    issued |-> request[t].issued, issued_at |-> now, expires_in |-> life]
        IN cache' = [cache EXCEPT ![k] = tok] /\ Return(t, tok)
  BY DEF Exchanged
<1> DEFINE tok == [subject |-> Subject[t], grant |-> Grant[t],
                   issued |-> request[t].issued, issued_at |-> now, expires_in |-> life]
<1>2. /\ Release(k) /\ pc' = [pc EXCEPT ![t] = "idle"]
      /\ request' = [request EXCEPT ![t] = None] /\ UNCHANGED now
      /\ cache' = [cache EXCEPT ![k] = tok]
      /\ got' = [got EXCEPT ![t] = [token |-> tok, at |-> now]]
  BY <1>1 DEF Exchanged, Return
<1>3. /\ holder[k] = t /\ k \in Keys /\ k = <<Subject[t], Grant[t]>>
      /\ request[t].issued \in Nat /\ request[t].began \in Nat
      /\ request[t].began <= request[t].issued
      /\ now <= request[t].began + MaxLatency
  BY KeyOfCaller DEF IInv, InFlight, Exchanged, CacheKey
<1>4. now \in Nat /\ MaxLatency \in Nat /\ life \in Nat
  BY CacheAssumption DEF IInv, TypeOK
<1>5. now <= request[t].issued + MaxLatency
  BY <1>3, <1>4
<1>6. /\ tok \in Tokens /\ k = <<tok.subject, tok.grant>>
      /\ tok.subject = Subject[t] /\ tok.grant = Grant[t]
      /\ tok.issued_at = now /\ tok.issued_at <= tok.issued + MaxLatency
      /\ life > MaxLatency => now < tok.issued + tok.expires_in
  BY <1>3, <1>4, <1>5 DEF Tokens
<1>7. InFlight'
  BY <1>2, <1>3, LeaveKeepsInFlight DEF IInv, TypeOK
<1>8. /\ holder' \in [Keys -> Callers \cup {None}]
      /\ waiting' \in [Keys -> Seq(Callers)]
  BY <1>2, <1>3, ReleaseStep DEF IInv
<1> HIDE DEF tok, k
<1>9. TypeOK'
  BY <1>2, <1>3, <1>4, <1>6, <1>8 DEF IInv, TypeOK
<1>10. Cached'
  BY <1>2, <1>3, <1>4, <1>6 DEF IInv, TypeOK, Cached
<1>11. OwnToken' /\ ReturnedAlive'
  BY <1>2, <1>4, <1>6 DEF IInv, TypeOK, OwnToken, ReturnedAlive
<1> QED
  BY <1>7, <1>9, <1>10, <1>11 DEF IInv

LEMMA FailsStep == ASSUME IInv, NEW t \in Callers, Fails(t) PROVE IInv'
<1>1. holder[CacheKey(t)] = t /\ CacheKey(t) \in Keys
  BY KeyOfCaller DEF IInv, InFlight, Fails
<1>2. InFlight'
  BY <1>1, LeaveKeepsInFlight DEF IInv, TypeOK, Fails
<1>3. TypeOK'
  BY <1>1, ReleaseStep DEF IInv, TypeOK, Fails
<1>4. Cached' /\ OwnToken' /\ ReturnedAlive'
  BY DEF IInv, Cached, OwnToken, ReturnedAlive, Fails
<1> QED
  BY <1>2, <1>3, <1>4 DEF IInv

LEMMA TickStep == ASSUME IInv, Tick PROVE IInv'
<1>1. now \in Nat /\ now' = now + 1 /\ MaxLatency \in Nat
  BY CacheAssumption DEF IInv, TypeOK, Tick
<1>2. TypeOK'
  BY <1>1, CacheAssumption DEF IInv, TypeOK, Tick
<1>3. InFlight'
  BY <1>1 DEF IInv, TypeOK, InFlight, Tick
<1>4. Cached'
  BY <1>1 DEF IInv, TypeOK, Tokens, Cached, Tick
<1>5. OwnToken' /\ ReturnedAlive'
  BY DEF IInv, OwnToken, ReturnedAlive, Tick
<1> QED
  BY <1>2, <1>3, <1>4, <1>5 DEF IInv

LEMMA StepInv == IInv /\ [Next]_vars => IInv'
<1>1. ASSUME IInv, Next PROVE IInv'
  BY <1>1, TickStep, HitStep, MissStep, WaitStep, EnterStep, IssueStep, ExchangedStep,
     FailsStep DEF Next, Step
<1>2. ASSUME IInv, UNCHANGED vars PROVE IInv'
  BY <1>2 DEF vars, IInv, TypeOK, InFlight, Cached, OwnToken, ReturnedAlive
<1> QED
  BY <1>1, <1>2

THEOREM Invariance == Spec => []IInv
BY InitInv, StepInv, PTL DEF Spec

(* Every variable stays in its range. *)
THEOREM TypeCorrect == Spec => []TypeOK
<1>1. IInv => TypeOK
  BY DEF IInv
<1> QED
  BY <1>1, Invariance, PTL

(* Nobody is handed another user's token (ExchangeCacheKey, issue #51).        *)
THEOREM TokensAreOwn == Spec => []OwnToken
<1>1. IInv => OwnToken
  BY DEF IInv
<1> QED
  BY <1>1, Invariance, PTL

(* One exchange per key is in flight (the lock per key, 117-125).              *)
THEOREM ExchangeIsSingle == Spec => []SingleFlight
<1>1. IInv => SingleFlight
  BY DEF IInv, InFlight, SingleFlight
<1> QED
  BY <1>1, Invariance, PTL

(* No token is handed out that the authorization server let expire.            *)
THEOREM TokensAreAlive == Spec => []ReturnedAlive
<1>1. IInv => ReturnedAlive
  BY DEF IInv
<1> QED
  BY <1>1, Invariance, PTL

(* An exchange begins only when the cache has nothing fresh to offer.          *)
THEOREM ExchangeIsNeeded == Spec => NoNeedlessExchange
<1>1. ASSUME IInv, [Next]_vars
      PROVE  \A t \in Callers :
               pc[t] # "exchange" /\ pc'[t] = "exchange" => ~Fresh(CacheKey(t))
  <2> SUFFICES ASSUME NEW t \in Callers, pc[t] # "exchange", pc'[t] = "exchange"
               PROVE  ~Fresh(CacheKey(t))
    OBVIOUS
  <2>1. CASE Tick \/ UNCHANGED vars
    BY <2>1 DEF Tick, vars
  <2>2. ASSUME NEW u \in Callers, Step(u) PROVE ~Fresh(CacheKey(t))
    <3>1. pc \in [Callers -> {"idle", "lock", "exchange"}]
      BY <1>1 DEF IInv, TypeOK
    <3>2. CASE Miss(u)
      BY <3>1, <3>2 DEF Miss, StartExchange
    <3>3. CASE Enter(u)
      <4>1. CASE SecondCheck(CacheKey(u))
        BY <3>1, <3>3, <4>1 DEF Enter
      <4>2. CASE ~SecondCheck(CacheKey(u))
        BY <3>1, <3>3, <4>2 DEF Enter, StartExchange, SecondCheck
      <4> QED
        BY <4>1, <4>2
    <3>4. CASE Hit(u) \/ Wait(u) \/ Issue(u) \/ Exchanged(u) \/ Fails(u)
      BY <3>1, <3>4 DEF Hit, Wait, Issue, Exchanged, Fails
    <3> QED
      BY <2>2, <3>2, <3>3, <3>4 DEF Step
  <2> QED
    BY <1>1, <2>1, <2>2 DEF Next
<1> QED
  BY <1>1, Invariance, PTL DEF Spec, NoNeedlessExchange
================================================================================

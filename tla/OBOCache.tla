--------------------------------- MODULE OBOCache ---------------------------------
(***************************************************************************)
(* OBOClient.exchange_token (identity/obo.py): the cache of exchanged tokens, *)
(* with its fast path, the lock per key and the second check under the lock.  *)
(*                                                                          *)
(* The global lock is never held across a suspension, so it does not appear;  *)
(* nor is there one between the fast path and the second check of a caller    *)
(* that finds the lock free: that is one step.  The authorization server      *)
(* issues a token at some time between the request and its response, and      *)
(* the gateway counts the token's age from the response.                      *)
(***************************************************************************)
EXTENDS Integers, Sequences

CONSTANTS
  Callers,    (* tasks that call exchange_token, again and again              *)
  Subject,    (* per caller: subject_id, the user its token was issued to     *)
  Grant,      (* per caller: target_audience and scopes                       *)
  CacheTtl,   (* OBOConfig.cache_ttl: how long before its expiry a token is dropped *)
  MaxLatency, (* the longest exchange (the HTTP client's timeout)             *)
  Lives,      (* the values of expires_in                                     *)
  MaxTime,    (* bound: the clock stops here                                  *)
  None

ASSUME CacheAssumption ==
  /\ CacheTtl \in Nat /\ MaxLatency \in Nat /\ MaxTime \in Nat
  /\ Lives \subseteq Nat
  /\ None \notin Callers

VARIABLES
  now,        (* time.monotonic()                                             *)
  cache,      (* _cache                                                       *)
  holder,     (* per key: who holds the lock, or has been handed it           *)
  waiting,    (* per key: who waits in lock.acquire()                         *)
  pc,         (* per caller: "idle", "lock", or "exchange"                    *)
  request,    (* per caller: when its exchange began, and what was issued     *)
  got         (* per caller: the token last returned, and when                *)

vars == <<now, cache, holder, waiting, pc, request, got>>
--------------------------------------------------------------------------------
(* Mutant: the key leaves the subject out *)
CacheKeyOfGrant(t) == <<"any", Grant[t]>>

(* ExchangeCacheKey.from_params *)
CacheKey(t) == <<Subject[t], Grant[t]>>
Keys == {CacheKey(t) : t \in Callers}

(* ExchangedToken; issued is the time the authorization server counts from    *)
Tokens == [subject : {Subject[t] : t \in Callers}, grant : {Grant[t] : t \in Callers},
           issued : Nat, issued_at : Nat, expires_in : Lives]

(* Mutant: the margin is added to the life *)
IsExpiredLate(tok) == now - tok.issued_at >= tok.expires_in + CacheTtl

(* is_expired *)
IsExpired(tok) == now - tok.issued_at >= tok.expires_in - CacheTtl

Fresh(k) == cache[k] # None /\ ~IsExpired(cache[k])

Init ==
  /\ now = 0
  /\ cache = [k \in Keys |-> None]
  /\ holder = [k \in Keys |-> None]
  /\ waiting = [k \in Keys |-> <<>>]
  /\ pc = [t \in Callers |-> "idle"]
  /\ request = [t \in Callers |-> None]
  /\ got = [t \in Callers |-> None]

Return(t, tok) == got' = [got EXCEPT ![t] = [token |-> tok, at |-> now]]

StartExchange(t) ==
  /\ pc' = [pc EXCEPT ![t] = "exchange"]
  /\ request' = [request EXCEPT ![t] = [began |-> now, issued |-> None]]

(* Mutant: an exchange that fails leaves the lock held *)
ReleaseNever(k) == UNCHANGED <<holder, waiting>>

(* The lock goes to the first waiter *)
Release(k) ==
  IF waiting[k] = <<>> THEN holder' = [holder EXCEPT ![k] = None] /\ UNCHANGED waiting
  ELSE /\ holder' = [holder EXCEPT ![k] = Head(waiting[k])]
       /\ waiting' = [waiting EXCEPT ![k] = Tail(@)]
--------------------------------------------------------------------------------
(* A call: a hit on the fast path, or the lock is free and the exchange       *)
(* starts, or the caller waits for the lock                                   *)
Hit(t) ==
  /\ pc[t] = "idle" /\ Fresh(CacheKey(t))
  /\ Return(t, cache[CacheKey(t)])
  /\ UNCHANGED <<now, cache, holder, waiting, pc, request>>

(* Mutant: the lock is not looked at *)
MissUnlocked(t) ==
  /\ pc[t] = "idle" /\ ~Fresh(CacheKey(t))
  /\ holder' = [holder EXCEPT ![CacheKey(t)] = t]
  /\ StartExchange(t)
  /\ UNCHANGED <<now, cache, waiting, got>>

Miss(t) ==
  /\ pc[t] = "idle" /\ ~Fresh(CacheKey(t)) /\ holder[CacheKey(t)] = None
  /\ holder' = [holder EXCEPT ![CacheKey(t)] = t]
  /\ StartExchange(t)
  /\ UNCHANGED <<now, cache, waiting, got>>

Wait(t) ==
  /\ pc[t] = "idle" /\ ~Fresh(CacheKey(t)) /\ holder[CacheKey(t)] # None
  /\ waiting' = [waiting EXCEPT ![CacheKey(t)] = Append(@, t)]
  /\ pc' = [pc EXCEPT ![t] = "lock"]
  /\ UNCHANGED <<now, cache, holder, request, got>>

(* Mutant: no second check *)
SecondCheckSkipped(k) == FALSE

(* The second check, under the lock *)
SecondCheck(k) == Fresh(k)

Enter(t) ==
  LET k == CacheKey(t)
  IN /\ pc[t] = "lock" /\ holder[k] = t
     /\ IF SecondCheck(k)
        THEN /\ Return(t, cache[k]) /\ Release(k)
             /\ pc' = [pc EXCEPT ![t] = "idle"] /\ UNCHANGED request
        ELSE StartExchange(t) /\ UNCHANGED <<holder, waiting, got>>
     /\ UNCHANGED <<now, cache>>

(* The authorization server issues the token *)
Issue(t) ==
  /\ pc[t] = "exchange" /\ request[t].issued = None
  /\ request' = [request EXCEPT ![t].issued = now]
  /\ UNCHANGED <<now, cache, holder, waiting, pc, got>>

(* _perform_exchange returns: the token is cached and returned *)
Exchanged(t) ==
  LET k == CacheKey(t)
  IN /\ pc[t] = "exchange" /\ request[t].issued # None
     /\ \E life \in Lives :
          LET tok == [subject |-> Subject[t], grant |-> Grant[t],
                      issued |-> request[t].issued, issued_at |-> now, expires_in |-> life]
          IN cache' = [cache EXCEPT ![k] = tok] /\ Return(t, tok)
     /\ Release(k)
     /\ pc' = [pc EXCEPT ![t] = "idle"]
     /\ request' = [request EXCEPT ![t] = None]
     /\ UNCHANGED now

(* _perform_exchange raises: nothing is cached, the next waiter tries again   *)
Fails(t) ==
  /\ pc[t] = "exchange"
  /\ Release(CacheKey(t))
  /\ pc' = [pc EXCEPT ![t] = "idle"]
  /\ request' = [request EXCEPT ![t] = None]
  /\ UNCHANGED <<now, cache, got>>

(* Time passes, but no exchange outlives the timeout of the HTTP client.      *)
Tick ==
  /\ now < MaxTime
  /\ \A t \in Callers : pc[t] = "exchange" => now < request[t].began + MaxLatency
  /\ now' = now + 1
  /\ UNCHANGED <<cache, holder, waiting, pc, request, got>>

Step(t) == Hit(t) \/ Miss(t) \/ Wait(t) \/ Enter(t) \/ Issue(t) \/ Exchanged(t) \/ Fails(t)

Next == Tick \/ \E t \in Callers : Step(t)

Spec == Init /\ [][Next]_vars

(* A caller that may go on does: the event loop runs it, and its exchange is  *)
(* answered or times out.                                                     *)
FairSpec == Spec /\ \A t \in Callers : WF_vars(Enter(t) \/ Exchanged(t) \/ Fails(t))
--------------------------------------------------------------------------------
(* Every variable stays in its range. *)
TypeOK ==
  /\ now \in 0..MaxTime
  /\ cache \in [Keys -> Tokens \cup {None}]
  /\ holder \in [Keys -> Callers \cup {None}]
  /\ waiting \in [Keys -> Seq(Callers)]
  /\ pc \in [Callers -> {"idle", "lock", "exchange"}]
  /\ request \in [Callers -> [began : Nat, issued : Nat \cup {None}] \cup {None}]
  /\ got \in [Callers -> [token : Tokens, at : Nat] \cup {None}]

(* A caller only ever gets a token that was issued for its own user, audience *)
(* and scopes, whoever filled the cache (ExchangeCacheKey, issue #51).        *)
OwnToken ==
  \A t \in Callers : got[t] # None =>
    got[t].token.subject = Subject[t] /\ got[t].token.grant = Grant[t]

(* However many requests of a user miss the cache at once, one exchange is in *)
(* flight (the lock per key; tests/identity/test_obo.py:199).                 *)
SingleFlight ==
  \A t, u \in Callers :
    pc[t] = "exchange" /\ pc[u] = "exchange" /\ CacheKey(t) = CacheKey(u) => t = u

(* No exchange begins while the cache holds a fresh token, also when it was   *)
(* put there while the caller waited for the lock (the second check, 118-121). *)
NoNeedlessExchange ==
  [][\A t \in Callers :
       pc[t] # "exchange" /\ pc'[t] = "exchange" => ~Fresh(CacheKey(t))]_vars

(* A token is never returned after the authorization server let it expire,    *)
(* although its age is counted from the response: the margin CacheTtl makes   *)
(* up for the time the response took.                                         *)
ReturnedAlive ==
  CacheTtl >= MaxLatency /\ (\A life \in Lives : life > MaxLatency) =>
    \A t \in Callers : got[t] # None =>
      got[t].at < got[t].token.issued + got[t].token.expires_in

(* Every call returns or raises, also those that waited behind failures.      *)
EveryCallReturns == \A t \in Callers : pc[t] # "idle" ~> pc[t] = "idle"
================================================================================

----------------------------- MODULE TokenValidation -----------------------------
(***************************************************************************)
(* JWTValidator.validate_token (identity/jwt.py) over the key cache of        *)
(* JWKSClient (identity/jwks.py), as IdentityHook calls them: requests with   *)
(* tokens signed by keys of an identity provider that publishes and revokes   *)
(* keys on its own.                                                           *)
(*                                                                          *)
(* A step is what a task does between two suspensions: it decodes in the same *)
(* step in which it gets the keys.  The lock is the queue of the tasks that   *)
(* hold it (the head) or wait for it.                                         *)
(***************************************************************************)
EXTENDS Naturals, Sequences, FiniteSets

CONSTANTS
  Tasks,      (* the requests, each validating one token after another        *)
  SigningKeys,
  CacheTtl,   (* IdentityConfig.jwks_cache_ttl                                *)
  MaxLatency, (* the timeout of a GET                                         *)
  MaxTime,    (* bound: the clock stops here                                  *)
  None

ASSUME ValidationAssumption ==
  /\ CacheTtl \in Nat \ {0} /\ MaxLatency \in Nat /\ MaxTime \in Nat
  /\ None \notin Nat

VARIABLES
  now,        (* time.monotonic()                                             *)
  published,  (* the provider's current keys                                  *)
  revokedAt,  (* per key: when the provider withdrew it, or None              *)
  keys,       (* JWKSClient._keys                                             *)
  lastFetch,  (* _last_fetch, None for 0.0                                    *)
  discovered, (* _jwks_uri is known                                           *)
  queue,      (* _lock                                                        *)
  task        (* per task: where it is, its token, what became of it          *)

vars == <<now, published, revokedAt, keys, lastFetch, discovered, queue, task>>
cache == <<keys, lastFetch, discovered>>
provider == <<published, revokedAt>>
--------------------------------------------------------------------------------
(* "bad": signed, but with an expired or otherwise invalid claim; garbage is  *)
(* not decodable, whatever the key                                            *)
Garbage == [key |-> None, kind |-> "garbage"]
Tokens == [key : SigningKeys, kind : {"good", "bad"}] \cup {Garbage}

(* Mutant: cached keys do not age *)
IsCacheValidForever == keys # {} /\ lastFetch # None

(* _is_cache_valid *)
IsCacheValid ==
  /\ keys # {} /\ lastFetch # None
  /\ now - lastFetch < CacheTtl

(* _decode_with_keys: the first key that verifies decides *)
Verdict(tok, ks) ==
  CASE tok = Garbage -> "invalid"
    [] tok # Garbage /\ tok.key \notin ks -> "invalid_signature"
    [] tok.kind = "bad" /\ tok.key \in ks -> "invalid"
    [] tok.kind = "good" /\ tok.key \in ks -> "ok"

Start(tok) ==
  [pc |-> "idle", token |-> tok, forced |-> FALSE, began |-> 0, answer |-> {},
   out |-> "none", at |-> 0, steady |-> tok.key \in published]

Init ==
  /\ now = 1
  /\ published \in SUBSET SigningKeys \ {{}}
  /\ revokedAt = [k \in SigningKeys |-> None]
  /\ keys = {} /\ lastFetch = None /\ discovered = FALSE
  /\ queue = <<>>
  /\ task = [t \in Tasks |-> Start(Garbage)]

(* The task is through; of its validation the outcome and its time remain     *)
End(r, out) ==
  [r EXCEPT !.pc = "done", !.out = out, !.at = IF out = "ok" THEN now ELSE 0,
            !.forced = FALSE, !.began = 0, !.answer = {}]

(* _fetch_keys begins: with the discovery document if its uri is unknown      *)
FetchFrom(r) ==
  [r EXCEPT !.pc = IF discovered THEN "keys" ELSE "discovery", !.began = now,
            !.answer = {}]

(* lock.acquire() by a task that is not in q: it is free only if q is empty   *)
Acquire(t, r, q) ==
  /\ queue' = Append(q, t)
  /\ task' = [task EXCEPT ![t] = IF q = <<>> THEN FetchFrom(r) ELSE [r EXCEPT !.pc = "lock"]]

(* Only the first signature failure refreshes the keys *)
MayRefresh(r) == ~r.forced

(* validate_token with the keys it got; q is the lock without this task       *)
Decide(t, r, ks, q) ==
  LET v == Verdict(r.token, ks)
  IN IF v = "invalid_signature" /\ MayRefresh(r)
     THEN Acquire(t, [r EXCEPT !.forced = TRUE], q)
     ELSE /\ queue' = q
          /\ task' = [task EXCEPT ![t] = End(r, v)]
--------------------------------------------------------------------------------
(* IdentityHook calls validate_token, which calls get_signing_keys()          *)
Validate(t, tok) ==
  /\ task[t].pc \in {"idle", "done"}
  /\ IF IsCacheValid THEN Decide(t, Start(tok), keys, queue) ELSE Acquire(t, Start(tok), queue)
  /\ UNCHANGED <<now, provider, cache>>

(* Mutant: under the lock a forced refresh is content with a valid cache *)
SecondCheckForAll(t) == IsCacheValid

(* The second check, under the lock *)
SecondCheck(t) == ~task[t].forced /\ IsCacheValid

Enter(t) ==
  /\ task[t].pc = "lock" /\ Head(queue) = t
  /\ IF SecondCheck(t) THEN Decide(t, task[t], keys, Tail(queue))
     ELSE task' = [task EXCEPT ![t] = FetchFrom(@)] /\ UNCHANGED queue
  /\ UNCHANGED <<now, provider, cache>>

(* The discovery document arrives; the uri is never asked for again           *)
Discovered(t) ==
  /\ task[t].pc = "discovery"
  /\ discovered' = TRUE
  /\ task' = [task EXCEPT ![t].pc = "keys", ![t].began = now]
  /\ UNCHANGED <<now, provider, keys, lastFetch, queue>>

(* The provider answers with its keys of this moment *)
Answer(t) ==
  /\ task[t].pc = "keys" /\ task[t].answer = {}
  /\ task' = [task EXCEPT ![t].answer = published]
  /\ UNCHANGED <<now, provider, cache, queue>>

(* The answer arrives: the cache is replaced, and the task decodes with it    *)
Fetched(t) ==
  /\ task[t].pc = "keys" /\ task[t].answer # {}
  /\ keys' = task[t].answer /\ lastFetch' = now
  /\ Decide(t, task[t], task[t].answer, Tail(queue))
  /\ UNCHANGED <<now, provider, discovered>>

(* Mutant: the lock stays with a task whose fetch failed *)
ReleasedNever == queue

Released == Tail(queue)

(* JWKSFetchError, an IdentityError, or any other exception (a key that       *)
(* PyJWK rejects); the cached keys stay                                       *)
FetchFails(t) ==
  /\ task[t].pc \in {"discovery", "keys"}
  /\ queue' = Released
  /\ \E out \in {"fetch_error"} \cup (IF task[t].pc = "keys" THEN {"exception"} ELSE {}) :
       task' = [task EXCEPT ![t] = End(@, out)]
  /\ UNCHANGED <<now, provider, cache>>

(* The provider; it always has a key.  steady says that the key of a token    *)
(* has been published ever since its validation began.                        *)
Publish(k) ==
  /\ k \notin published /\ revokedAt[k] = None
  /\ published' = published \cup {k}
  /\ UNCHANGED <<now, revokedAt, cache, queue, task>>

Revoke(k) ==
  /\ k \in published /\ published # {k}
  /\ published' = published \ {k}
  /\ revokedAt' = [revokedAt EXCEPT ![k] = now]
  /\ task' = [t \in Tasks |-> IF task[t].pc # "done" /\ task[t].token.key = k
                              THEN [task[t] EXCEPT !.steady = FALSE] ELSE task[t]]
  /\ UNCHANGED <<now, cache, queue>>

Tick ==
  /\ now < MaxTime
  /\ \A t \in Tasks : task[t].pc \in {"discovery", "keys"} => now < task[t].began + MaxLatency
  /\ now' = now + 1
  /\ UNCHANGED <<provider, cache, queue, task>>

Step(t) == Enter(t) \/ Discovered(t) \/ Answer(t) \/ Fetched(t) \/ FetchFails(t)

Next ==
  \/ Tick
  \/ \E k \in SigningKeys : Publish(k) \/ Revoke(k)
  \/ \E t \in Tasks : Step(t) \/ \E tok \in Tokens : Validate(t, tok)

Spec == Init /\ [][Next]_vars

(* The event loop runs a task that may go on, and a GET ends by its timeout.  *)
FairSpec == Spec /\ \A t \in Tasks : WF_vars(Step(t))
--------------------------------------------------------------------------------
(* A token signed with a revoked key is accepted no longer than the cache's   *)
(* time to live and one request to the provider after the key was withdrawn   *)
(* (_is_cache_valid, and _last_fetch set with every replacement of the keys). *)
RevokedKeyExpires ==
  \A t \in Tasks :
    LET k == task[t].token.key
    IN task[t].out = "ok" /\ revokedAt[k] # None =>
         task[t].at < revokedAt[k] + CacheTtl + MaxLatency

(* Key rotation: a well-signed token whose key has been published since its   *)
(* validation began is not rejected for its signature, however old the cached *)
(* keys are and whoever refreshes them meanwhile (validate_token, 57-60).     *)
RotationIsTolerated ==
  \A t \in Tasks :
    task[t].pc = "done" /\ task[t].steady => task[t].out # "invalid_signature"

(* Every validation ends, also behind fetches that fail.                      *)
EveryValidationEnds ==
  \A t \in Tasks : task[t].pc # "done" /\ task[t].pc # "idle" ~> task[t].pc = "done"
================================================================================

-------------------------- MODULE TokenValidationProofs --------------------------
(***************************************************************************)
(* For any number of requests, keys, rotations and revocations: how long a    *)
(* token with a revoked key is accepted, and that no rotation rejects a token *)
(* whose key is published.                                                    *)
(*                                                                          *)
(* Neither needs the lock.  Both follow from what a task knows of the keys it *)
(* has: when it asked for them, and whether they are newer than its token.     *)
(***************************************************************************)
EXTENDS TokenValidation, TLAPS

Outs == {"none", "ok", "invalid", "invalid_signature", "fetch_error", "exception"}

Validations ==
  [pc : {"idle", "lock", "discovery", "keys", "done"}, token : Tokens, forced : BOOLEAN,
   began : Nat, answer : SUBSET SigningKeys, out : Outs, at : Nat, steady : BOOLEAN]

Revoked(k) == revokedAt[k] # None

(* The time at which nobody accepts k any more *)
Deadline(k) == revokedAt[k] + CacheTtl + MaxLatency

(* Keys with which a task may decide now *)
Fresh(ks) == ks \subseteq SigningKeys /\ \A k \in ks : Revoked(k) => now < Deadline(k)

(* A validation that is under way or over *)
Sound(r) ==
  /\ r \in Validations
  /\ r.pc # "done" => r.out = "none"
  /\ r.pc \in {"discovery", "keys"} => r.began <= now /\ now <= r.began + MaxLatency
  /\ r.pc = "discovery" => r.answer = {}
  /\ r.pc = "keys" => \A k \in r.answer : Revoked(k) => r.began <= revokedAt[k]
  /\ r.out = "ok" =>
       /\ r.token.key \in SigningKeys /\ r.at <= now
       /\ Revoked(r.token.key) => r.at < Deadline(r.token.key)
  /\ r.steady /\ r.pc # "done" => r.token.key \in published
  /\ r.steady /\ r.pc = "keys" /\ r.answer # {} => r.token.key \in r.answer
  /\ r.steady /\ r.pc = "done" => r.out # "invalid_signature"

ProviderInv ==
  /\ now \in Nat /\ published \subseteq SigningKeys
  /\ revokedAt \in [SigningKeys -> Nat \cup {None}]
  /\ \A k \in SigningKeys : Revoked(k) => revokedAt[k] <= now /\ k \notin published

CacheInv ==
  /\ keys \subseteq SigningKeys /\ lastFetch \in Nat \cup {None}
  /\ keys # {} => lastFetch # None
  /\ lastFetch # None => lastFetch <= now
  /\ \A k \in keys : Revoked(k) => lastFetch <= revokedAt[k] + MaxLatency

IInv ==
  /\ ProviderInv /\ CacheInv
  /\ DOMAIN task = Tasks /\ \A t \in Tasks : Sound(task[t])
--------------------------------------------------------------------------------
LEMMA TokenKeys ==
  ASSUME NEW tok \in Tokens
  PROVE  tok = Garbage \/ (tok.key \in SigningKeys /\ tok.kind \in {"good", "bad"})
BY DEF Tokens

LEMMA Verdicts ==
  ASSUME NEW tok \in Tokens, NEW ks
  PROVE  /\ Verdict(tok, ks) \in {"ok", "invalid", "invalid_signature"}
         /\ Verdict(tok, ks) = "ok" => tok.key \in ks /\ tok.key \in SigningKeys
         /\ Verdict(tok, ks) = "invalid_signature" => tok.key \notin ks
<1>1. CASE tok = Garbage
  BY <1>1 DEF Verdict, Garbage
<1>2. CASE tok # Garbage
  <2>1. tok.key \in SigningKeys /\ tok.kind \in {"good", "bad"}
    BY <1>2, TokenKeys
  <2>2. CASE tok.key \notin ks
    BY <1>2, <2>1, <2>2 DEF Verdict
  <2>3. CASE tok.key \in ks /\ tok.kind = "good"
    BY <1>2, <2>1, <2>3 DEF Verdict
  <2>4. CASE tok.key \in ks /\ tok.kind = "bad"
    BY <1>2, <2>1, <2>4 DEF Verdict
  <2> QED BY <2>1, <2>2, <2>3, <2>4
<1> QED BY <1>1, <1>2

LEMMA Starts ==
  ASSUME ProviderInv, NEW tok \in Tokens
  PROVE  Sound(Start(tok)) /\ Start(tok).token = tok /\ ~Start(tok).forced
         /\ Start(tok).out = "none"
         /\ (Start(tok).steady => tok.key \in published)
<1>1. Start(tok) \in Validations
  BY DEF Start, Validations, Outs
<1> QED BY <1>1 DEF Start, Sound

(* What a task becomes that goes for the lock, with the token of r             *)
LEMMA Acquires ==
  ASSUME IInv, NEW t \in Tasks, NEW r \in Validations, NEW q, Acquire(t, r, q),
         r.out = "none", r.steady => r.token.key \in published
  PROVE  \E s : task' = [task EXCEPT ![t] = s] /\ Sound(s)
<1> USE ValidationAssumption
<1>1. now \in Nat
  BY DEF IInv, ProviderInv
<1>2. Sound([r EXCEPT !.pc = "lock"])
  BY DEF Validations, Sound
<1>3. Sound(FetchFrom(r))
  <2>1. FetchFrom(r) \in Validations
    BY <1>1 DEF FetchFrom, Validations
  <2>2. /\ FetchFrom(r).pc \in {"discovery", "keys"} /\ FetchFrom(r).out = "none"
        /\ FetchFrom(r).began = now /\ FetchFrom(r).answer = {}
        /\ FetchFrom(r).steady = r.steady /\ FetchFrom(r).token = r.token
    BY DEF FetchFrom, Validations
  <2> QED BY <1>1, <2>1, <2>2 DEF Sound
<1> QED BY <1>2, <1>3 DEF Acquire

(* What a task becomes that decides with fresh keys ks                         *)
LEMMA Decides ==
  ASSUME IInv, NEW t \in Tasks, NEW r \in Validations, NEW ks, NEW q, Decide(t, r, ks, q),
         r.out = "none", r.steady => r.token.key \in published,
         Fresh(ks), r.forced /\ r.steady => r.token.key \in ks
  PROVE  \E s : task' = [task EXCEPT ![t] = s] /\ Sound(s)
<1> USE ValidationAssumption
<1> DEFINE v == Verdict(r.token, ks)
<1>1. /\ now \in Nat /\ r.token \in Tokens /\ v \in {"ok", "invalid", "invalid_signature"}
      /\ v = "ok" => r.token.key \in ks /\ r.token.key \in SigningKeys
      /\ v = "invalid_signature" => r.token.key \notin ks
  BY Verdicts DEF IInv, ProviderInv, Validations
<1> HIDE DEF v
<1>2. CASE v = "invalid_signature" /\ MayRefresh(r)
  <2> DEFINE f == [r EXCEPT !.forced = TRUE]
  <2>1. /\ f \in Validations /\ f.out = r.out /\ f.steady = r.steady /\ f.token = r.token
        /\ Acquire(t, f, q)
    BY <1>2 DEF Decide, Validations, v
  <2> HIDE DEF f
  <2> QED BY <2>1, Acquires
<1>3. CASE ~(v = "invalid_signature" /\ MayRefresh(r))
  <2>1. task' = [task EXCEPT ![t] = End(r, v)]
    BY <1>3 DEF Decide, v
  <2>2. End(r, v) \in Validations
    BY <1>1 DEF End, Validations, Outs
  <2>3. /\ End(r, v).pc = "done" /\ End(r, v).out = v /\ End(r, v).steady = r.steady
        /\ End(r, v).token = r.token /\ (v = "ok" => End(r, v).at = now)
    BY <1>1 DEF End, Validations
  <2>4. v = "ok" /\ Revoked(r.token.key) => now < Deadline(r.token.key)
    BY <1>1 DEF Fresh
  <2>5. r.steady => v # "invalid_signature"
    BY <1>1, <1>3 DEF MayRefresh
  <2>6. Sound(End(r, v))
    BY <1>1, <2>2, <2>3, <2>4, <2>5 DEF Sound
  <2> QED BY <2>1, <2>6
<1> QED BY <1>2, <1>3

(* A cache that is valid has fresh keys                                        *)
LEMMA CacheIsFresh == IInv /\ IsCacheValid => Fresh(keys)
BY ValidationAssumption DEF IInv, CacheInv, ProviderInv, IsCacheValid, Fresh, Revoked, Deadline

(* A task of which one step is known, while time and keys stand still          *)
LEMMA OneTask ==
  ASSUME IInv, NEW t \in Tasks, NEW s, task' = [task EXCEPT ![t] = s], Sound(s),
         UNCHANGED <<now, provider>>
  PROVE  DOMAIN task' = Tasks /\ \A u \in Tasks : Sound(task[u])'
<1>1. DOMAIN task' = Tasks /\ task'[t] = s /\ \A u \in Tasks \ {t} : task'[u] = task[u]
  BY DEF IInv
<1>2. ASSUME NEW u \in Tasks PROVE Sound(task[u])'
  <2>1. Sound(task'[u])
    BY <1>1 DEF IInv
  <2> QED BY <2>1 DEF Sound, Revoked, Deadline, provider
<1> QED BY <1>1, <1>2

LEMMA ProviderStays ==
  ASSUME IInv, UNCHANGED <<now, provider>>
  PROVE  ProviderInv' /\ (UNCHANGED <<keys, lastFetch>> => CacheInv')
BY DEF IInv, ProviderInv, CacheInv, Revoked, provider

LEMMA ValidateStep == ASSUME IInv, NEW t \in Tasks, NEW tok \in Tokens, Validate(t, tok) PROVE IInv'
<1> DEFINE r == Start(tok)
<1>1. /\ r \in Validations /\ r.out = "none" /\ ~r.forced /\ r.token = tok
      /\ r.steady => r.token.key \in published
  BY Starts DEF IInv, Sound
<1>2. UNCHANGED <<now, provider, keys, lastFetch>>
  BY DEF Validate, cache
<1> HIDE DEF r
<1>3. \E s : task' = [task EXCEPT ![t] = s] /\ Sound(s)
  <2>1. CASE IsCacheValid
    <3>1. Decide(t, r, keys, queue)
      BY <2>1 DEF Validate, r
    <3> QED BY <1>1, <2>1, <3>1, CacheIsFresh, Decides
  <2>2. CASE ~IsCacheValid
    <3>1. Acquire(t, r, queue)
      BY <2>2 DEF Validate, r
    <3> QED BY <1>1, <3>1, Acquires
  <2> QED BY <2>1, <2>2
<1>4. DOMAIN task' = Tasks /\ \A u \in Tasks : Sound(task[u])'
  BY <1>2, <1>3, OneTask
<1> QED BY <1>2, <1>4, ProviderStays DEF IInv

LEMMA EnterStep == ASSUME IInv, NEW t \in Tasks, Enter(t) PROVE IInv'
<1> USE ValidationAssumption
<1>1. /\ task[t].pc = "lock" /\ UNCHANGED <<now, provider, keys, lastFetch>>
      /\ Sound(task[t]) /\ now \in Nat /\ task[t] \in Validations
  BY DEF Enter, cache, IInv, ProviderInv, Sound
<1>2. task[t].out = "none" /\ (task[t].steady => task[t].token.key \in published)
  BY <1>1 DEF Sound
<1>3. \E s : task' = [task EXCEPT ![t] = s] /\ Sound(s)
  <2>1. CASE SecondCheck(t)
    <3>1. Decide(t, task[t], keys, Tail(queue)) /\ IsCacheValid /\ ~task[t].forced
      BY <2>1 DEF Enter, SecondCheck
    <3> QED BY <1>1, <1>2, <3>1, CacheIsFresh, Decides
  <2>2. CASE ~SecondCheck(t)
    <3>1. task' = [task EXCEPT ![t] = FetchFrom(task[t])]
      BY <2>2 DEF Enter
    <3>2. /\ FetchFrom(task[t]) \in Validations
          /\ FetchFrom(task[t]).pc \in {"discovery", "keys"} /\ FetchFrom(task[t]).out = "none"
          /\ FetchFrom(task[t]).began = now /\ FetchFrom(task[t]).answer = {}
          /\ FetchFrom(task[t]).steady = task[t].steady
          /\ FetchFrom(task[t]).token = task[t].token
      BY <1>1, <1>2 DEF FetchFrom, Validations
    <3>3. Sound(FetchFrom(task[t]))
      BY <1>1, <1>2, <3>2 DEF Sound
    <3> QED BY <3>1, <3>3
  <2> QED BY <2>1, <2>2
<1>4. DOMAIN task' = Tasks /\ \A u \in Tasks : Sound(task[u])'
  BY <1>1, <1>3, OneTask
<1> QED BY <1>1, <1>4, ProviderStays DEF IInv

LEMMA DiscoveredStep == ASSUME IInv, NEW t \in Tasks, Discovered(t) PROVE IInv'
<1> USE ValidationAssumption
<1> DEFINE s == [task[t] EXCEPT !.pc = "keys", !.began = now]
<1>1. /\ task[t].pc = "discovery" /\ UNCHANGED <<now, provider, keys, lastFetch>>
      /\ task[t] \in Validations /\ Sound(task[t])
      /\ now \in Nat
  BY DEF Discovered, IInv, ProviderInv, Sound
<1>2. task' = [task EXCEPT ![t] = s]
  BY DEF Discovered
<1>3. /\ s \in Validations /\ s.pc = "keys" /\ s.began = now /\ s.answer = task[t].answer
      /\ s.out = task[t].out /\ s.steady = task[t].steady /\ s.token = task[t].token
  BY <1>1 DEF Validations
<1> HIDE DEF s
<1>4. task[t].answer = {}
  BY <1>1 DEF Sound
<1>5. Sound(s)
  BY <1>1, <1>3, <1>4 DEF Sound
<1>6. DOMAIN task' = Tasks /\ \A u \in Tasks : Sound(task[u])'
  BY <1>1, <1>2, <1>5, OneTask
<1> QED BY <1>1, <1>6, ProviderStays DEF IInv

LEMMA AnswerStep == ASSUME IInv, NEW t \in Tasks, Answer(t) PROVE IInv'
<1> DEFINE s == [task[t] EXCEPT !.answer = published]
<1>1. /\ task[t].pc = "keys" /\ UNCHANGED <<now, provider, keys, lastFetch>>
      /\ task[t] \in Validations /\ Sound(task[t]) /\ task' = [task EXCEPT ![t] = s]
      /\ published \subseteq SigningKeys /\ \A k \in published : ~Revoked(k)
  BY DEF Answer, cache, IInv, ProviderInv, Sound
<1>2. /\ s \in Validations /\ s.pc = "keys" /\ s.began = task[t].began /\ s.answer = published
      /\ s.out = task[t].out /\ s.steady = task[t].steady /\ s.token = task[t].token
  BY <1>1 DEF Validations
<1> HIDE DEF s
<1>3. Sound(s)
  BY <1>1, <1>2 DEF Sound
<1>4. DOMAIN task' = Tasks /\ \A u \in Tasks : Sound(task[u])'
  BY <1>1, <1>3, OneTask
<1> QED BY <1>1, <1>4, ProviderStays DEF IInv

LEMMA FetchedStep == ASSUME IInv, NEW t \in Tasks, Fetched(t) PROVE IInv'
<1> USE ValidationAssumption
<1>1. /\ task[t].pc = "keys" /\ task[t].answer # {} /\ UNCHANGED <<now, provider>>
      /\ keys' = task[t].answer /\ lastFetch' = now
      /\ Decide(t, task[t], task[t].answer, Tail(queue))
      /\ task[t] \in Validations /\ Sound(task[t])
  BY DEF Fetched, IInv, Sound
<1>2. /\ now \in Nat /\ task[t].answer \subseteq SigningKeys /\ task[t].began \in Nat
      /\ now <= task[t].began + MaxLatency
      /\ \A k \in task[t].answer : Revoked(k) => task[t].began <= revokedAt[k]
                                                 /\ revokedAt[k] \in Nat
      /\ task[t].out = "none" /\ (task[t].steady => task[t].token.key \in published)
      /\ task[t].steady => task[t].token.key \in task[t].answer
  BY <1>1 DEF Sound, Validations, IInv, ProviderInv, Revoked
<1>3. Fresh(task[t].answer)
  BY <1>2 DEF Fresh, Deadline
<1>4. \E s : task' = [task EXCEPT ![t] = s] /\ Sound(s)
  BY <1>1, <1>2, <1>3, Decides
<1>5. DOMAIN task' = Tasks /\ \A u \in Tasks : Sound(task[u])'
  BY <1>1, <1>4, OneTask
<1>6. CacheInv'
  BY <1>1, <1>2 DEF CacheInv, Revoked, provider
<1> QED BY <1>1, <1>5, <1>6, ProviderStays DEF IInv

LEMMA FetchFailsStep == ASSUME IInv, NEW t \in Tasks, FetchFails(t) PROVE IInv'
<1> USE ValidationAssumption
<1>1. PICK out \in {"fetch_error", "exception"} : task' = [task EXCEPT ![t] = End(task[t], out)]
  BY DEF FetchFails
<1>2. UNCHANGED <<now, provider, keys, lastFetch>> /\ task[t] \in Validations /\ now \in Nat
  BY DEF FetchFails, cache, IInv, Sound, ProviderInv
<1>3. End(task[t], out) \in Validations
  BY <1>2 DEF End, Validations, Outs
<1>4. End(task[t], out).pc = "done" /\ End(task[t], out).out = out
  BY <1>2 DEF End, Validations
<1>5. Sound(End(task[t], out))
  BY <1>3, <1>4 DEF Sound
<1>6. DOMAIN task' = Tasks /\ \A u \in Tasks : Sound(task[u])'
  BY <1>1, <1>2, <1>5, OneTask
<1> QED BY <1>2, <1>6, ProviderStays DEF IInv

LEMMA PublishStep == ASSUME IInv, NEW k \in SigningKeys, Publish(k) PROVE IInv'
<1>1. /\ published' = published \cup {k} /\ revokedAt[k] = None
      /\ UNCHANGED <<now, revokedAt, keys, lastFetch, task>>
  BY DEF Publish, cache
<1>2. ProviderInv' /\ CacheInv'
  BY <1>1 DEF IInv, ProviderInv, CacheInv, Revoked
<1>3. ASSUME NEW t \in Tasks PROVE Sound(task[t])'
  BY <1>1 DEF IInv, Sound, Revoked, Deadline
<1> QED BY <1>1, <1>2, <1>3 DEF IInv

LEMMA RevokeStep == ASSUME IInv, NEW k \in SigningKeys, Revoke(k) PROVE IInv'
<1> USE ValidationAssumption
<1>1. /\ published' = published \ {k} /\ revokedAt' = [revokedAt EXCEPT ![k] = now]
      /\ UNCHANGED <<now, keys, lastFetch>> /\ now \in Nat /\ k \in published
      /\ revokedAt \in [SigningKeys -> Nat \cup {None}] /\ ~Revoked(k)
      /\ task' = [t \in Tasks |-> IF task[t].pc # "done" /\ task[t].token.key = k
                                  THEN [task[t] EXCEPT !.steady = FALSE] ELSE task[t]]
  BY DEF Revoke, cache, IInv, ProviderInv
<1>2. Revoked(k)' /\ revokedAt'[k] = now
      /\ \A j \in SigningKeys \ {k} : revokedAt'[j] = revokedAt[j]
  BY <1>1 DEF Revoked
<1>3. ProviderInv' /\ CacheInv'
  BY <1>1, <1>2 DEF IInv, ProviderInv, CacheInv, Revoked
<1>4. ASSUME NEW t \in Tasks PROVE Sound(task[t])'
  <2> PICK r : r = task[t]
    OBVIOUS
  <2>1. Sound(r) /\ r \in Validations
    BY DEF IInv, Sound
  <2>2. /\ task'[t] \in Validations
        /\ task'[t].pc = r.pc /\ task'[t].token = r.token /\ task'[t].began = r.began
        /\ task'[t].answer = r.answer /\ task'[t].out = r.out /\ task'[t].at = r.at
        /\ task'[t].steady => r.steady /\ (r.pc # "done" => r.token.key # k)
    <3>1. CASE r.pc # "done" /\ r.token.key = k
      BY <1>1, <2>1, <3>1 DEF Validations
    <3>2. CASE ~(r.pc # "done" /\ r.token.key = k)
      BY <1>1, <2>1, <3>2
    <3> QED BY <3>1, <3>2
  <2>3. r.pc = "keys" => \A j \in r.answer : Revoked(j)' => r.began <= revokedAt'[j]
    BY <1>1, <1>2, <2>1 DEF Sound, Validations, Revoked
  <2>4. r.out = "ok" =>
          /\ r.token.key \in SigningKeys /\ r.at <= now
          /\ Revoked(r.token.key)' => r.at < Deadline(r.token.key)'
    BY <1>1, <1>2, <2>1 DEF Sound, Validations, Revoked, Deadline
  <2>5. r.steady /\ r.pc # "done" /\ r.token.key # k => r.token.key \in published'
    BY <1>1, <2>1 DEF Sound
  <2> QED BY <1>1, <2>1, <2>2, <2>3, <2>4, <2>5 DEF Sound
<1> QED BY <1>1, <1>3, <1>4 DEF IInv

LEMMA TickStep == ASSUME IInv, Tick PROVE IInv'
<1> USE ValidationAssumption
<1>1. /\ now' = now + 1 /\ now \in Nat
      /\ UNCHANGED <<published, revokedAt, keys, lastFetch, task>>
      /\ \A t \in Tasks : task[t].pc \in {"discovery", "keys"} => now < task[t].began + MaxLatency
  BY DEF Tick, cache, provider, IInv, ProviderInv
<1>2. ProviderInv' /\ CacheInv'
  BY <1>1 DEF IInv, ProviderInv, CacheInv, Revoked
<1>3. ASSUME NEW t \in Tasks PROVE Sound(task[t])'
  BY <1>1 DEF IInv, Sound, Validations, Revoked, Deadline
<1> QED BY <1>1, <1>2, <1>3 DEF IInv

LEMMA IInvInit == Init => IInv
<1> SUFFICES ASSUME Init PROVE IInv
  OBVIOUS
<1>1. ProviderInv /\ CacheInv
  BY DEF Init, ProviderInv, CacheInv, Revoked
<1>2. Garbage \in Tokens
  BY DEF Tokens
<1>3. ASSUME NEW t \in Tasks PROVE Sound(task[t])
  BY <1>1, <1>2, <1>3, Starts DEF Init
<1> QED BY <1>1, <1>3 DEF IInv, Init

LEMMA IInvAlways == Spec => []IInv
<1>1. IInv /\ [Next]_vars => IInv'
  <2> SUFFICES ASSUME IInv, [Next]_vars PROVE IInv'
    OBVIOUS
  <2>1. CASE Next
    BY <2>1, TickStep, PublishStep, RevokeStep, ValidateStep, EnterStep, DiscoveredStep,
       AnswerStep, FetchedStep, FetchFailsStep DEF Next, Step
  <2>2. CASE UNCHANGED vars
    BY <2>2 DEF vars, IInv, ProviderInv, CacheInv, Sound, Revoked, Deadline
  <2> QED BY <2>1, <2>2
<1> QED BY <1>1, IInvInit, PTL DEF Spec
--------------------------------------------------------------------------------
(* A token signed with a revoked key is accepted no longer than the cache's     *)
(* time to live and one request after the key was withdrawn, however many       *)
(* requests refresh the cache and in whatever order their answers arrive.       *)
THEOREM RevocationIsBounded == Spec => []RevokedKeyExpires
<1>1. IInv => RevokedKeyExpires
  BY DEF IInv, Sound, RevokedKeyExpires, Revoked, Deadline
<1> QED BY <1>1, IInvAlways, PTL

(* A token whose key has been published since its validation began is never     *)
(* rejected for its signature: the one forced refresh asks for keys that are     *)
(* newer than the token.                                                        *)
THEOREM RotationTolerated == Spec => []RotationIsTolerated
<1>1. IInv => RotationIsTolerated
  BY DEF IInv, Sound, RotationIsTolerated
<1> QED BY <1>1, IInvAlways, PTL
================================================================================

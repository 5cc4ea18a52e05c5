----------------------------- MODULE AnalyticsProofs -----------------------------
(***************************************************************************)
(* What the collector does with its events, for every queue size, number of   *)
(* events, of failures and of retries of the Redis library: an event is        *)
(* counted once, or once per sending of its pipeline, none vanishes while      *)
(* Redis answers, and the stop delivers what was recorded.  The gateway of    *)
(* Lifespan runs the collector of Analytics, so this holds of it too, and     *)
(* with it that each call over Streamable HTTP is counted.                    *)
(***************************************************************************)
EXTENDS Lifespan, TLAPS

States ==
  {"off", "start", "beat", "sleep", "running", "write", "close", "ping", "stopping",
   "disconnect", "down"}

Types ==
  /\ queue \in Seq(1..MaxEvents) /\ recorded \in 0..MaxEvents
  /\ stoppedAt \in 0..recorded
  /\ pc \in [Tasks -> States]
  /\ batch \in [Tasks -> Seq(1..MaxEvents)]
  /\ tries \in [Tasks -> 0..Retries]
  /\ applied \in [1..MaxEvents -> Nat]
  /\ up \in BOOLEAN /\ client \in BOOLEAN /\ disturbed \in BOOLEAN /\ faults \in Nat

Queued(e) == \E i \in 1..Len(queue) : queue[i] = e
Holds(t, e) == \E i \in 1..Len(batch[t]) : batch[t][i] = e

(* How often an event may have been counted *)
Limit(e) == IF e \in resent THEN 1 + Retries ELSE 1

(* An event is in one place, and is not counted while it is queued; while it   *)
(* is written it has been counted at most once per sending that failed         *)
OnePlace ==
  \A e \in 1..MaxEvents :
    /\ applied[e] <= Limit(e)
    /\ e > recorded => ~Queued(e) /\ applied[e] = 0 /\ \A t \in Tasks : ~Holds(t, e)
    /\ Queued(e) => applied[e] = 0
    /\ \A t \in Tasks : Holds(t, e) => applied[e] <= tries[t] /\ ~Queued(e)
    /\ \A t \in Tasks : Holds(t, e) /\ tries[t] # 0 => e \in resent
    /\ \A t, u \in Tasks : Holds(t, e) /\ Holds(u, e) => t = u

(* Only a task that writes holds events, and the tasks that are started end    *)
(* before the final flush                                                      *)
Phases ==
  /\ \A t \in Tasks : pc[t] # "write" => batch[t] = <<>> /\ tries[t] = 0
  /\ batch["heartbeat"] = <<>>
  /\ pc["flush"] \in {"off", "sleep", "write", "close", "ping"}
  /\ pc["heartbeat"] \in {"off", "beat", "sleep", "write", "close", "ping"}
  /\ pc["main"] \notin {"beat", "sleep"}
  /\ pc["main"] \notin {"running", "stopping"} => pc["flush"] = "off" /\ pc["heartbeat"] = "off"

(* While nothing has failed, Redis answers and the running collector has its   *)
(* client                                                                      *)
Undisturbed ==
  ~disturbed =>
    /\ up
    /\ \A t \in Tasks : pc[t] \notin {"close", "ping"} /\ tries[t] = 0
    /\ pc["main"] \notin {"off", "down"} => client

(* What the final flush leaves in the queue was recorded after stop() began    *)
LeftLate ==
  pc["main"] \in {"write", "close", "ping", "disconnect", "down"} =>
    \A e \in 1..stoppedAt : ~Queued(e)

(* Every event is counted or in hand *)
Kept == \A e \in 1..recorded : applied[e] = 1 \/ Queued(e) \/ \E t \in Tasks : Holds(t, e)

IInv == Types /\ OnePlace /\ Phases /\ Undisturbed /\ LeftLate /\ (~disturbed => Kept)
--------------------------------------------------------------------------------
(* What a batch of which the first n events are written adds to the counters   *)
LEMMA AppliedAt ==
  ASSUME Types, NEW t \in Tasks, NEW n \in 0..Len(batch[t]), NEW e \in 1..MaxEvents
  PROVE  /\ Applied(SubSeq(batch[t], 1, n))[e] \in {applied[e], applied[e] + 1}
         /\ Applied(SubSeq(batch[t], 1, n))[e] # applied[e] => Holds(t, e)
         /\ n = Len(batch[t]) /\ Holds(t, e) =>
              Applied(SubSeq(batch[t], 1, n))[e] = applied[e] + 1
<1> DEFINE es == SubSeq(batch[t], 1, n)
<1>1. batch[t] \in Seq(1..MaxEvents) /\ applied[e] \in Nat
  BY DEF Types
<1>2. Len(es) = n /\ \A i \in 1..n : es[i] = batch[t][i]
  BY <1>1
<1>3. Applied(es)[e] = applied[e] + (IF \E i \in 1..Len(es) : es[i] = e THEN 1 ELSE 0)
  BY DEF Applied
<1>4. CASE \E i \in 1..Len(es) : es[i] = e
  <2>1. Applied(es)[e] = applied[e] + 1
    BY <1>3, <1>4
  <2>2. Holds(t, e)
    BY <1>1, <1>2, <1>4 DEF Holds
  <2> QED BY <2>1, <2>2
<1>5. CASE ~\E i \in 1..Len(es) : es[i] = e
  <2>1. Applied(es)[e] = applied[e]
    BY <1>1, <1>3, <1>5
  <2>2. n = Len(batch[t]) => ~Holds(t, e)
    BY <1>1, <1>2, <1>5 DEF Holds
  <2> QED BY <2>1, <2>2
<1> QED BY <1>4, <1>5

(* A pipeline without an answer has had a part of it counted                  *)
LEMMA PartApplied ==
  ASSUME Types, NEW t \in Tasks, Unanswered(t)
  PROVE  \E n \in 0..Len(batch[t]) : applied' = Applied(SubSeq(batch[t], 1, n))
<1>1. CASE up
  BY <1>1 DEF Unanswered
<1>2. CASE ~up
  <2>1. applied' = applied /\ applied \in [1..MaxEvents -> Nat] /\ batch[t] \in Seq(1..MaxEvents)
    BY <1>2 DEF Unanswered, Types
  <2>2. SubSeq(batch[t], 1, 0) = <<>> /\ 0 \in 0..Len(batch[t])
    BY <2>1
  <2>3. Len(<<>>) = 0 /\ 1..0 = {}
    OBVIOUS
  <2>4. Applied(<<>>) = [e \in 1..MaxEvents |-> applied[e]]
    BY <2>1, <2>3 DEF Applied
  <2> QED BY <2>1, <2>2, <2>4
<1> QED BY <1>1, <1>2

(* What a sending adds stays within the limit                                  *)
LEMMA WithinLimit ==
  ASSUME IInv, NEW t \in Tasks, NEW n \in 0..Len(batch[t]), NEW e \in 1..MaxEvents,
         applied' = Applied(SubSeq(batch[t], 1, n))
  PROVE  /\ applied'[e] \in {applied[e], applied[e] + 1}
         /\ applied'[e] # applied[e] => Holds(t, e)
         /\ n = Len(batch[t]) /\ Holds(t, e) => applied'[e] = applied[e] + 1
         /\ Holds(t, e) => applied'[e] <= tries[t] + 1
         /\ applied'[e] <= Limit(e)
<1> USE AnalyticsAssumption
<1>1. applied[e] \in Nat /\ tries[t] \in 0..Retries /\ Types
  BY DEF IInv, Types
<1>2. /\ applied'[e] \in {applied[e], applied[e] + 1}
      /\ applied'[e] # applied[e] => Holds(t, e)
      /\ n = Len(batch[t]) /\ Holds(t, e) => applied'[e] = applied[e] + 1
  BY <1>1, AppliedAt
<1>3. /\ applied[e] <= Limit(e)
      /\ Holds(t, e) => applied[e] <= tries[t]
      /\ Holds(t, e) /\ tries[t] # 0 => e \in resent
  BY DEF IInv, OnePlace
<1>4. Holds(t, e) => applied'[e] <= tries[t] + 1
  BY <1>1, <1>2, <1>3
<1>5. Holds(t, e) => tries[t] + 1 <= Limit(e)
  BY <1>1, <1>3 DEF Limit
<1>6. applied'[e] <= Limit(e)
  <2>1. CASE Holds(t, e)
    BY <1>1, <1>2, <1>4, <1>5, <2>1 DEF Limit
  <2>2. CASE ~Holds(t, e)
    BY <1>2, <1>3, <2>2
  <2> QED BY <2>1, <2>2
<1> QED BY <1>2, <1>4, <1>6

(* The counters stay counters                                                 *)
LEMMA CountersAre ==
  ASSUME IInv, NEW t \in Tasks, NEW n \in 0..Len(batch[t]),
         applied' = Applied(SubSeq(batch[t], 1, n))
  PROVE  applied' \in [1..MaxEvents -> Nat]
<1>1. \A e \in 1..MaxEvents : applied[e] \in Nat
  BY DEF IInv, Types
<1>2. \A e \in 1..MaxEvents : applied'[e] \in Nat
  BY <1>1, WithinLimit
<1>3. applied' = [e \in 1..MaxEvents |-> applied'[e]]
  BY DEF Applied
<1> QED BY <1>2, <1>3

(* A task is rid of its batch, of which a part has been counted               *)
LEMMA Written ==
  ASSUME IInv, NEW t \in Tasks, NEW n \in 0..Len(batch[t]),
         applied' = Applied(SubSeq(batch[t], 1, n)), WriteEnds(t), UNCHANGED events
  PROVE  /\ applied' \in [1..MaxEvents -> Nat]
         /\ batch' \in [Tasks -> Seq(1..MaxEvents)] /\ tries' \in [Tasks -> 0..Retries]
         /\ OnePlace'
         /\ n = Len(batch[t]) /\ tries[t] = 0 /\ Kept => Kept'
<1>1. batch \in [Tasks -> Seq(1..MaxEvents)] /\ applied \in [1..MaxEvents -> Nat]
      /\ tries \in [Tasks -> 0..Retries]
      /\ recorded \in 0..MaxEvents /\ MaxEvents \in Nat /\ Retries \in Nat
  BY AnalyticsAssumption DEF IInv, Types
<1>2. /\ batch' \in [Tasks -> Seq(1..MaxEvents)] /\ batch'[t] = <<>>
      /\ tries' \in [Tasks -> 0..Retries]
      /\ \A u \in Tasks \ {t} : batch'[u] = batch[u] /\ tries'[u] = tries[u]
      /\ resent' = resent /\ recorded' = recorded
  BY <1>1 DEF WriteEnds, events
<1>3. ASSUME NEW e \in 1..MaxEvents
      PROVE  /\ applied'[e] \in {applied[e], applied[e] + 1}
             /\ applied'[e] # applied[e] => Holds(t, e)
             /\ n = Len(batch[t]) /\ Holds(t, e) => applied'[e] = applied[e] + 1
             /\ applied'[e] <= Limit(e)
  BY WithinLimit, <1>3
<1>4. applied' \in [1..MaxEvents -> Nat]
  BY CountersAre
<1>5. ASSUME NEW e \in 1..MaxEvents
      PROVE  /\ ~Holds(t, e)'
             /\ \A u \in Tasks \ {t} : Holds(u, e)' <=> Holds(u, e)
             /\ Queued(e)' <=> Queued(e)
             /\ Limit(e)' = Limit(e)
  BY <1>2 DEF Holds, Queued, Limit, events
<1>6. OnePlace'
  <2> SUFFICES ASSUME NEW e \in 1..MaxEvents
               PROVE  /\ applied'[e] <= Limit(e)'
                      /\ e > recorded' => ~Queued(e)' /\ applied'[e] = 0
                                          /\ \A u \in Tasks : ~Holds(u, e)'
                      /\ Queued(e)' => applied'[e] = 0
                      /\ \A u \in Tasks : Holds(u, e)' => applied'[e] <= tries'[u] /\ ~Queued(e)'
                      /\ \A u \in Tasks : Holds(u, e)' /\ tries'[u] # 0 => e \in resent'
                      /\ \A u, v \in Tasks : Holds(u, e)' /\ Holds(v, e)' => u = v
    BY DEF OnePlace
  <2>1. /\ e > recorded => ~Queued(e) /\ applied[e] = 0 /\ \A u \in Tasks : ~Holds(u, e)
        /\ Queued(e) => applied[e] = 0
        /\ \A u \in Tasks : Holds(u, e) => applied[e] <= tries[u] /\ ~Queued(e)
        /\ \A u \in Tasks : Holds(u, e) /\ tries[u] # 0 => e \in resent
        /\ \A u, v \in Tasks : Holds(u, e) /\ Holds(v, e) => u = v
    BY DEF IInv, OnePlace
  <2>2. Holds(t, e) \/ applied'[e] = applied[e]
    BY <1>3
  <2>3. applied'[e] <= Limit(e)'
    BY <1>3, <1>5
  <2>4. e > recorded' => ~Queued(e)' /\ applied'[e] = 0 /\ \A u \in Tasks : ~Holds(u, e)'
    BY <1>2, <1>5, <2>1, <2>2
  <2>5. Queued(e)' => applied'[e] = 0
    BY <1>5, <2>1, <2>2
  <2>6. ASSUME NEW u \in Tasks, Holds(u, e)'
        PROVE  applied'[e] <= tries'[u] /\ ~Queued(e)' /\ (tries'[u] # 0 => e \in resent')
    <3>1. u # t /\ Holds(u, e)
      BY <1>5, <2>6
    <3>2. applied'[e] = applied[e] /\ tries'[u] = tries[u]
      BY <1>2, <2>1, <2>2, <3>1
    <3> QED BY <1>2, <1>5, <2>1, <3>1, <3>2
  <2>7. \A u, v \in Tasks : Holds(u, e)' /\ Holds(v, e)' => u = v
    BY <1>5, <2>1
  <2> QED BY <2>3, <2>4, <2>5, <2>6, <2>7
<1>7. ASSUME n = Len(batch[t]), tries[t] = 0, Kept PROVE Kept'
  <2> SUFFICES ASSUME NEW e \in 1..recorded
               PROVE  applied'[e] = 1 \/ Queued(e)' \/ \E u \in Tasks : Holds(u, e)'
    BY <1>2 DEF Kept
  <2>1. e \in 1..MaxEvents /\ applied[e] \in Nat
    BY <1>1
  <2>2. CASE Holds(t, e)
    <3>1. applied[e] <= 0
      BY <1>7, <2>1, <2>2 DEF IInv, OnePlace
    <3> QED BY <1>3, <1>7, <2>1, <2>2, <3>1
  <2>3. CASE ~Holds(t, e)
    <3>1. applied'[e] = applied[e]
      BY <1>3, <2>1, <2>3
    <3> QED BY <1>5, <1>7, <2>1, <2>3, <3>1 DEF Kept
  <2> QED BY <2>2, <2>3
<1> QED BY <1>2, <1>4, <1>6, <1>7

(* A task's pipeline is sent again, with a part of it counted                  *)
LEMMA SentAgain ==
  ASSUME IInv, NEW t \in Tasks, WriteIsResent(t)
  PROVE  OnePlace' /\ applied' \in [1..MaxEvents -> Nat] /\ tries' \in [Tasks -> 0..Retries]
<1> USE AnalyticsAssumption
<1>1. Types
  BY DEF IInv
<1>2. PICK n \in 0..Len(batch[t]) : applied' = Applied(SubSeq(batch[t], 1, n))
  BY <1>1, PartApplied DEF WriteIsResent
<1>3. /\ tries \in [Tasks -> 0..Retries] /\ tries[t] < Retries
      /\ applied \in [1..MaxEvents -> Nat]
      /\ tries' = [tries EXCEPT ![t] = @ + 1] /\ UNCHANGED <<events, batch>>
      /\ resent' = resent \cup {batch[t][i] : i \in 1..Len(batch[t])}
  BY <1>1 DEF WriteIsResent, Types
<1>4. /\ tries' \in [Tasks -> 0..Retries] /\ tries'[t] = tries[t] + 1
      /\ \A u \in Tasks \ {t} : tries'[u] = tries[u]
  <2>1. PICK k \in 0..Retries : k = tries[t] + 1
    BY <1>3
  <2>2. tries' = [tries EXCEPT ![t] = k]
    BY <1>3, <2>1
  <2> QED BY <1>3, <2>1, <2>2
<1>5. \A e \in 1..MaxEvents : Holds(t, e) => e \in resent'
  BY <1>3 DEF Holds
<1>6. ASSUME NEW e \in 1..MaxEvents
      PROVE  /\ applied'[e] \in {applied[e], applied[e] + 1}
             /\ applied'[e] # applied[e] => Holds(t, e)
             /\ Holds(t, e) => applied'[e] <= tries[t] + 1
             /\ applied'[e] <= Limit(e)
  BY <1>2, <1>6, WithinLimit
<1>7. ASSUME NEW e \in 1..MaxEvents
      PROVE  (Queued(e)' <=> Queued(e)) /\ \A u \in Tasks : Holds(u, e)' <=> Holds(u, e)
  BY <1>3 DEF Queued, Holds, events
<1>8. OnePlace'
  <2> SUFFICES ASSUME NEW e \in 1..MaxEvents
               PROVE  /\ applied'[e] <= Limit(e)'
                      /\ e > recorded' => ~Queued(e)' /\ applied'[e] = 0
                                          /\ \A u \in Tasks : ~Holds(u, e)'
                      /\ Queued(e)' => applied'[e] = 0
                      /\ \A u \in Tasks : Holds(u, e)' => applied'[e] <= tries'[u] /\ ~Queued(e)'
                      /\ \A u \in Tasks : Holds(u, e)' /\ tries'[u] # 0 => e \in resent'
                      /\ \A u, v \in Tasks : Holds(u, e)' /\ Holds(v, e)' => u = v
    BY DEF OnePlace
  <2>1. /\ e > recorded => ~Queued(e) /\ applied[e] = 0 /\ \A u \in Tasks : ~Holds(u, e)
        /\ Queued(e) => applied[e] = 0
        /\ \A u \in Tasks : Holds(u, e) => applied[e] <= tries[u] /\ ~Queued(e)
        /\ \A u \in Tasks : Holds(u, e) /\ tries[u] # 0 => e \in resent
        /\ \A u, v \in Tasks : Holds(u, e) /\ Holds(v, e) => u = v
    BY DEF IInv, OnePlace
  <2>2. applied'[e] <= Limit(e)'
    <3>1. e \in resent => e \in resent'
      BY <1>3
    <3>2. applied'[e] \in Nat
      BY <1>3, <1>6
    <3>3. Retries \in Nat
      OBVIOUS
    <3> QED BY <1>6, <3>1, <3>2, <3>3 DEF Limit
  <2>3. e > recorded' => ~Queued(e)' /\ applied'[e] = 0 /\ \A u \in Tasks : ~Holds(u, e)'
    BY <1>3, <1>6, <1>7, <2>1 DEF events
  <2>4. Queued(e)' => applied'[e] = 0
    BY <1>6, <1>7, <2>1
  <2>5. ASSUME NEW u \in Tasks, Holds(u, e)'
        PROVE  applied'[e] <= tries'[u] /\ ~Queued(e)' /\ (tries'[u] # 0 => e \in resent')
    <3>1. Holds(u, e) /\ ~Queued(e)'
      BY <1>7, <2>1, <2>5
    <3>2. CASE u = t
      BY <1>4, <1>5, <1>6, <3>1, <3>2
    <3>3. CASE u # t
      <4>1. ~Holds(t, e) /\ applied'[e] = applied[e] /\ tries'[u] = tries[u]
        BY <1>4, <1>6, <2>1, <3>1, <3>3
      <4> QED BY <1>3, <2>1, <3>1, <4>1
    <3> QED BY <3>2, <3>3
  <2>6. \A u, v \in Tasks : Holds(u, e)' /\ Holds(v, e)' => u = v
    BY <1>7, <2>1
  <2> QED BY <2>2, <2>3, <2>4, <2>5, <2>6
<1> QED BY <1>2, <1>4, <1>8, CountersAre

(* A step that moves no event                                                 *)
LEMMA Unmoved ==
  ASSUME IInv, UNCHANGED <<applied, events, batch, tries, resent>>
  PROVE  OnePlace' /\ (Kept => Kept') /\ \A e : Queued(e)' <=> Queued(e)
BY DEF IInv, OnePlace, Limit, Kept, Queued, Holds, events

LEMMA TasksOf == Tasks = {"flush", "heartbeat", "main"}
BY DEF Tasks

(* The actions of a task that talks to Redis                                   *)
LEMMA RecordStep == IInv /\ Record => IInv'
<1> SUFFICES ASSUME IInv, Record PROVE IInv'
  OBVIOUS
<1> USE AnalyticsAssumption
<1>1. recorded' = recorded + 1 /\ recorded < MaxEvents /\ recorded \in Nat /\ MaxEvents \in Nat
      /\ UNCHANGED <<applied, up, faults, client, pc, batch, tries, resent, stoppedAt>>
      /\ stoppedAt \in 0..recorded /\ queue \in Seq(1..MaxEvents)
  BY DEF Record, IInv, Types, redis, writes
<1>2. CASE HasRoom
  <2>1. queue' = Append(queue, recorded + 1) /\ UNCHANGED disturbed
    BY <1>2 DEF Record
  <2>2. Types'
    BY <1>1, <2>1 DEF Types, IInv
  <2>3. \A e : Queued(e)' <=> Queued(e) \/ e = recorded + 1
    BY <1>1, <2>1 DEF Queued
  <2>4. \A e : \A t \in Tasks : Holds(t, e)' <=> Holds(t, e)
    BY <1>1 DEF Holds
  <2>5. OnePlace'
    <3> SUFFICES ASSUME NEW e \in 1..MaxEvents
                 PROVE  /\ applied'[e] <= Limit(e)'
                        /\ e > recorded' => ~Queued(e)' /\ applied'[e] = 0
                                            /\ \A u \in Tasks : ~Holds(u, e)'
                        /\ Queued(e)' => applied'[e] = 0
                        /\ \A u \in Tasks : Holds(u, e)' => applied'[e] <= tries'[u] /\ ~Queued(e)'
                        /\ \A u \in Tasks : Holds(u, e)' /\ tries'[u] # 0 => e \in resent'
                        /\ \A u, v \in Tasks : Holds(u, e)' /\ Holds(v, e)' => u = v
      BY DEF OnePlace
    <3>1. recorded + 1 > recorded /\ (e > recorded + 1 => e > recorded /\ e # recorded + 1)
      BY <1>1
    <3>2. Limit(e)' = Limit(e)
      BY <1>1 DEF Limit
    <3>3. /\ applied[e] <= Limit(e)
          /\ e > recorded => ~Queued(e) /\ applied[e] = 0 /\ \A t \in Tasks : ~Holds(t, e)
          /\ Queued(e) => applied[e] = 0
          /\ \A t \in Tasks : Holds(t, e) => applied[e] <= tries[t] /\ ~Queued(e)
          /\ \A t \in Tasks : Holds(t, e) /\ tries[t] # 0 => e \in resent
          /\ \A t, u \in Tasks : Holds(t, e) /\ Holds(u, e) => t = u
      BY DEF IInv, OnePlace
    <3>4. e = recorded + 1 => e > recorded
      BY <1>1
    <3> QED BY <1>1, <2>3, <2>4, <3>1, <3>2, <3>3, <3>4
  <2>6. Kept => Kept'
    BY <1>1, <2>3, <2>4 DEF Kept
  <2>7. Phases' /\ Undisturbed'
    BY <1>1, <2>1 DEF IInv, Phases, Undisturbed
  <2>8. LeftLate'
    <3>1. \A e \in 1..stoppedAt : e # recorded + 1
      BY <1>1
    <3> QED BY <1>1, <2>3, <3>1 DEF IInv, LeftLate
  <2> QED BY <2>1, <2>2, <2>5, <2>6, <2>7, <2>8 DEF IInv
<1>3. CASE ~HasRoom
  <2>1. disturbed' = TRUE /\ UNCHANGED queue
    BY <1>3 DEF Record
  <2>2. Types'
    BY <1>1, <2>1 DEF Types, IInv
  <2>3. \A e : /\ Queued(e)' <=> Queued(e)
               /\ \A t \in Tasks : Holds(t, e)' <=> Holds(t, e)
               /\ Limit(e)' = Limit(e)
    BY <1>1, <2>1 DEF Queued, Holds, Limit
  <2>4. OnePlace'
    <3>1. \A e \in 1..MaxEvents : e > recorded' => e > recorded
      BY <1>1
    <3> QED BY <1>1, <2>3, <3>1 DEF IInv, OnePlace
  <2>5. Phases' /\ Undisturbed' /\ LeftLate'
    BY <1>1, <2>1, <2>3 DEF IInv, Phases, Undisturbed, LeftLate
  <2> QED BY <2>1, <2>2, <2>4, <2>5 DEF IInv
<1> QED BY <1>2, <1>3

LEMMA FlushStep == ASSUME NEW t \in {"flush", "main"}, IInv, Flush(t) PROVE IInv'
<1> USE AnalyticsAssumption, TasksOf
<1>1. /\ queue' = <<>> /\ UNCHANGED <<applied, up, faults, client, recorded, stoppedAt, disturbed>>
      /\ UNCHANGED <<tries, resent>> /\ tries[t] = 0
      /\ batch \in [Tasks -> Seq(1..MaxEvents)] /\ queue \in Seq(1..MaxEvents)
      /\ pc \in [Tasks -> States]
      /\ t \in Tasks /\ batch[t] = <<>> /\ pc[t] \notin {"write", "off"}
      /\ t = "main" => pc["flush"] = "off" /\ pc["heartbeat"] = "off" /\ pc["main"] = "stopping"
      /\ t = "flush" => pc["main"] \in {"running", "stopping"}
  BY DEF Flush, Drains, IInv, Types, Phases, redis
<1>2. \A e : ~Queued(e)' /\ Limit(e)' = Limit(e)
  BY <1>1 DEF Queued, Limit
<1>3. CASE client /\ queue # <<>>
  <2>1. pc' = [pc EXCEPT ![t] = "write"] /\ batch' = [batch EXCEPT ![t] = queue]
    BY <1>3 DEF Flush, Goes
  <2>2. Types'
    BY <1>1, <2>1 DEF Types, IInv, States
  <2>3. ASSUME NEW e
        PROVE  /\ Holds(t, e)' <=> Queued(e)
               /\ \A u \in Tasks \ {t} : Holds(u, e)' <=> Holds(u, e)
               /\ ~Holds(t, e)
    BY <1>1, <2>1 DEF Holds, Queued
  <2>4. OnePlace'
    BY <1>1, <1>2, <2>3 DEF OnePlace, IInv
  <2>5. Kept => Kept'
    BY <1>1, <2>3 DEF Kept
  <2>6. Phases' /\ Undisturbed'
    BY <1>1, <1>3, <2>1 DEF IInv, Phases, Undisturbed, Types
  <2>7. LeftLate'
    BY <1>2 DEF LeftLate
  <2> QED BY <1>1, <2>2, <2>4, <2>5, <2>6, <2>7 DEF IInv
<1>4. CASE ~(client /\ queue # <<>>)
  <2>1. pc' = [pc EXCEPT ![t] = Afterwards(t)] /\ UNCHANGED batch
    BY <1>4 DEF Flush, Goes
  <2>2. Types'
    BY <1>1, <2>1 DEF Types, IInv, States, Afterwards
  <2>3. ASSUME NEW e PROVE \A u \in Tasks : Holds(u, e)' <=> Holds(u, e)
    BY <2>1 DEF Holds
  <2>4. OnePlace'
    BY <1>1, <1>2, <2>3 DEF OnePlace, IInv
  <2>5. ~disturbed => client
    BY <1>1 DEF IInv, Undisturbed
  <2>6. ~disturbed' => Kept'
    <3> SUFFICES ASSUME ~disturbed PROVE Kept'
      BY <1>1
    <3>1. \A e : ~Queued(e)
      BY <1>4, <2>5 DEF Queued
    <3> QED BY <1>1, <2>3, <3>1 DEF Kept, IInv
  <2>7. Phases'
    BY <1>1, <2>1 DEF IInv, Phases, Afterwards
  <2>8. Undisturbed'
    BY <1>1, <2>1 DEF IInv, Undisturbed, Afterwards
  <2>9. LeftLate'
    BY <1>2 DEF LeftLate
  <2> QED BY <2>2, <2>4, <2>6, <2>7, <2>8, <2>9 DEF IInv
<1> QED BY <1>3, <1>4

LEMMA WriteSucceedsStep == ASSUME NEW t \in Tasks, IInv, WriteSucceeds(t) PROVE IInv'
<1> USE TasksOf
<1>1. /\ pc[t] = "write" /\ UNCHANGED <<up, faults, client, events, stoppedAt, disturbed>>
      /\ batch' = [batch EXCEPT ![t] = <<>>] /\ tries' = [tries EXCEPT ![t] = 0]
      /\ pc' = [pc EXCEPT ![t] = Afterwards(t)] /\ WriteEnds(t)
      /\ applied' = Applied(batch[t]) /\ tries \in [Tasks -> 0..Retries]
      /\ batch[t] \in Seq(1..MaxEvents) /\ pc \in [Tasks -> States]
  BY DEF WriteSucceeds, WriteEnds, QueueAfterSuccess, Goes, events, IInv, Types
<1>2. Len(batch[t]) \in 0..Len(batch[t]) /\ SubSeq(batch[t], 1, Len(batch[t])) = batch[t]
  BY <1>1
<1>3. /\ applied' \in [1..MaxEvents -> Nat] /\ batch' \in [Tasks -> Seq(1..MaxEvents)]
      /\ tries' \in [Tasks -> 0..Retries]
      /\ OnePlace' /\ (tries[t] = 0 /\ Kept => Kept')
  BY <1>1, <1>2, Written
<1>4. Types'
  BY <1>1, <1>3 DEF IInv, Types, States, Afterwards, events
<1>5. Phases'
  BY <1>1 DEF IInv, Types, Phases, Afterwards
<1>6. Undisturbed'
  BY <1>1 DEF IInv, Undisturbed, Afterwards
<1>7. LeftLate'
  BY <1>1 DEF IInv, LeftLate, Queued, Afterwards, events
<1>8. ~disturbed' => Kept'
  BY <1>1, <1>3 DEF IInv, Undisturbed
<1> QED BY <1>1, <1>3, <1>4, <1>5, <1>6, <1>7, <1>8 DEF IInv

LEMMA WriteIsResentStep == ASSUME NEW t \in Tasks, IInv, WriteIsResent(t) PROVE IInv'
<1>1. /\ UNCHANGED <<up, client, events, pc, batch, stoppedAt>> /\ disturbed' = TRUE
      /\ \A u \in Tasks \ {t} : tries'[u] = tries[u]
      /\ pc[t] = "write" /\ (faults' = faults \/ faults' = faults + 1)
  BY DEF WriteIsResent, Unanswered, IInv, Types
<1>2. OnePlace' /\ applied' \in [1..MaxEvents -> Nat] /\ tries' \in [Tasks -> 0..Retries]
  BY SentAgain
<1>3. faults' \in Nat
  BY <1>1 DEF IInv, Types
<1>4. Types'
  BY <1>1, <1>2, <1>3 DEF IInv, Types, events
<1>5. Phases' /\ Undisturbed' /\ ~(~disturbed')
  BY <1>1 DEF IInv, Phases, Undisturbed
<1>6. LeftLate'
  BY <1>1 DEF IInv, LeftLate, Queued, events
<1> QED BY <1>2, <1>4, <1>5, <1>6 DEF IInv

LEMMA WriteFailsStep == ASSUME NEW t \in Tasks, IInv, WriteFails(t) PROVE IInv'
<1> USE TasksOf
<1>1. /\ pc[t] = "write" /\ UNCHANGED <<up, events, stoppedAt>> /\ disturbed' = TRUE
      /\ batch' = [batch EXCEPT ![t] = <<>>] /\ tries' = [tries EXCEPT ![t] = 0]
      /\ WriteEnds(t) /\ tries \in [Tasks -> 0..Retries]
      /\ client' = TRUE \/ client' = client
      /\ \E where \in {"close", "ping"} : pc' = [pc EXCEPT ![t] = where]
      /\ faults' = faults \/ faults' = faults + 1
  BY DEF WriteFails, Unanswered, WriteEnds, QueueAfterFailure, Goes, events, IInv, Types
<1>2. PICK n \in 0..Len(batch[t]) : applied' = Applied(SubSeq(batch[t], 1, n))
  BY PartApplied DEF WriteFails, IInv
<1>3. /\ applied' \in [1..MaxEvents -> Nat] /\ batch' \in [Tasks -> Seq(1..MaxEvents)]
      /\ tries' \in [Tasks -> 0..Retries] /\ OnePlace'
  BY <1>1, <1>2, Written
<1>4. PICK where \in {"close", "ping"} : pc' = [pc EXCEPT ![t] = where]
  BY <1>1
<1>5. Types'
  <2>0. faults \in Nat /\ client \in BOOLEAN
    BY DEF IInv, Types
  <2>1. faults' \in Nat /\ client' \in BOOLEAN
    <3>1. client' \in BOOLEAN
      BY <1>1, <2>0, Zenon
    <3>2. faults' = faults \/ faults' = faults + 1
      BY <1>1
    <3> QED BY <2>0, <3>1, <3>2
  <2>2. pc' \in [Tasks -> States]
    BY <1>4 DEF IInv, Types, States
  <2> QED BY <1>1, <1>3, <2>1, <2>2 DEF IInv, Types, events
<1>6. Phases'
  BY <1>1, <1>4 DEF IInv, Types, Phases
<1>7. Undisturbed' /\ ~(~disturbed')
  BY <1>1 DEF Undisturbed
<1>8. LeftLate'
  BY <1>1, <1>4 DEF IInv, Types, LeftLate, Queued, events
<1> QED BY <1>3, <1>5, <1>6, <1>7, <1>8 DEF IInv

LEMMA ConnectStep == ASSUME NEW t \in Tasks, IInv, Closed(t) \/ Pinged(t) PROVE IInv'
<1> USE TasksOf
<1>1. /\ pc[t] \in {"close", "ping"}
      /\ UNCHANGED <<up, applied, faults, events, batch, tries, resent, stoppedAt, disturbed>>
      /\ client' \in BOOLEAN
      /\ \E where \in {"ping", Afterwards(t)} : pc' = [pc EXCEPT ![t] = where]
  BY DEF Closed, Pinged, Goes, redis, writes, IInv, Types
<1>2. PICK where \in {"ping", Afterwards(t)} : pc' = [pc EXCEPT ![t] = where]
  BY <1>1
<1>3. OnePlace' /\ (Kept => Kept') /\ \A e : Queued(e)' <=> Queued(e)
  BY <1>1, Unmoved
<1>4. Types'
  BY <1>1, <1>2 DEF IInv, Types, States, Afterwards, events
<1>5. Phases'
  BY <1>1, <1>2 DEF IInv, Types, Phases, Afterwards
<1>6. disturbed
  BY <1>1 DEF IInv, Undisturbed
<1>7. Undisturbed' /\ ~(~disturbed')
  BY <1>1, <1>6 DEF Undisturbed, IInv, Types
<1>8. LeftLate'
  BY <1>1, <1>2, <1>3 DEF IInv, Types, LeftLate, Afterwards
<1> QED BY <1>3, <1>4, <1>5, <1>7, <1>8 DEF IInv

LEMMA CancelStep == ASSUME NEW t \in {"flush", "heartbeat"}, IInv, Cancel(t) PROVE IInv'
<1> USE TasksOf
<1>1. /\ pc["main"] = "stopping" /\ pc' = [pc EXCEPT ![t] = "off"]
      /\ client' = IF pc[t] = "close" THEN FALSE ELSE client
      /\ batch' = [batch EXCEPT ![t] = <<>>] /\ tries' = [tries EXCEPT ![t] = 0]
      /\ WriteEnds(t) /\ tries \in [Tasks -> 0..Retries] /\ UNCHANGED <<up, faults, events, stoppedAt>>
      /\ pc \in [Tasks -> States] /\ t \in Tasks
      /\ batch[t] \in Seq(1..MaxEvents)
  BY DEF Cancel, WriteEnds, Goes, IInv, Types
<1>2. PICK n \in 0..Len(batch[t]) :
        /\ applied' = Applied(SubSeq(batch[t], 1, n))
        /\ disturbed' = (disturbed \/ n < Len(batch[t]))
  BY DEF Cancel
<1>3. /\ applied' \in [1..MaxEvents -> Nat] /\ batch' \in [Tasks -> Seq(1..MaxEvents)]
      /\ tries' \in [Tasks -> 0..Retries]
      /\ OnePlace' /\ (n = Len(batch[t]) /\ tries[t] = 0 /\ Kept => Kept')
  BY <1>1, <1>2, Written
<1>4. Types'
  BY <1>1, <1>2, <1>3 DEF IInv, Types, States, events
<1>5. Phases'
  BY <1>1 DEF IInv, Types, Phases
<1>6. ~disturbed' => ~disturbed /\ n = Len(batch[t])
  <2>1. ~disturbed' => ~disturbed /\ ~(n < Len(batch[t]))
    BY <1>2, Zenon
  <2>2. Len(batch[t]) \in Nat
    BY <1>1
  <2> QED BY <2>1, <2>2
<1>7. Undisturbed' /\ (~disturbed' => Kept')
  BY <1>1, <1>3, <1>6 DEF IInv, Undisturbed
<1>8. LeftLate'
  BY <1>1 DEF IInv, LeftLate, Queued, events
<1> QED BY <1>3, <1>4, <1>5, <1>7, <1>8 DEF IInv

(* The steps that move no event *)
LEMMA OtherStep ==
  ASSUME IInv, Start \/ Started \/ Beat \/ Stop \/ Disconnect \/ GoesAway \/ ComesBack
  PROVE  IInv'
<1> USE TasksOf
<1>1. UNCHANGED <<applied, events, batch, tries, resent>>
  BY DEF Start, Started, Beat, Stop, Disconnect, GoesAway, ComesBack, redis, writes
<1>2. OnePlace' /\ (Kept => Kept') /\ \A e : Queued(e)' <=> Queued(e)
  BY <1>1, Unmoved
<1>3. disturbed \in BOOLEAN /\ (~disturbed' => ~disturbed)
  BY DEF Start, Started, Beat, Stop, Disconnect, GoesAway, ComesBack, IInv, Types
<1>4. ~disturbed' => Kept'
  BY <1>2, <1>3 DEF IInv
<1>5. pc \in [Tasks -> States] /\ stoppedAt \in 0..recorded /\ recorded \in 0..MaxEvents
  BY DEF IInv, Types
<1>6. CASE Start
  <2>1. Types' /\ Phases'
    BY <1>1, <1>5, <1>6 DEF Start, Goes, Types, States, IInv, Phases, events, redis
  <2>2. Undisturbed' /\ LeftLate'
    BY <1>1, <1>2, <1>5, <1>6 DEF Start, Goes, Undisturbed, LeftLate, IInv, events, redis
  <2> QED BY <1>2, <1>4, <2>1, <2>2 DEF IInv
<1>7. CASE Started
  <2>1. /\ pc'["flush"] = "sleep" /\ pc'["heartbeat"] = "beat" /\ pc'["main"] = "running"
        /\ pc' \in [Tasks -> States] /\ pc["main"] = "start"
    BY <1>5, <1>7 DEF Started, States
  <2>2. Types' /\ Phases'
    BY <1>1, <1>7, <2>1 DEF Started, Types, IInv, Phases, events, redis
  <2>3. Undisturbed' /\ LeftLate'
    BY <1>1, <1>7, <2>1 DEF Started, Undisturbed, LeftLate, IInv, redis
  <2> QED BY <1>2, <1>4, <2>2, <2>3 DEF IInv
<1>8. CASE Beat
  <2>1. pc["heartbeat"] \in {"beat", "sleep"}
        /\ \E where \in {"write", "sleep"} : pc' = [pc EXCEPT !["heartbeat"] = where]
    BY <1>8 DEF Beat, Goes
  <2>2. Types' /\ Phases'
    BY <1>1, <1>5, <1>8, <2>1 DEF Beat, Types, States, IInv, Phases, events, redis
  <2>3. Undisturbed' /\ LeftLate'
    BY <1>1, <1>2, <1>5, <1>8, <2>1 DEF Beat, Undisturbed, LeftLate, IInv, redis
  <2> QED BY <1>2, <1>4, <2>2, <2>3 DEF IInv
<1>9. CASE Stop
  <2>1. Types' /\ Phases'
    BY <1>1, <1>5, <1>9 DEF Stop, Goes, Types, States, IInv, Phases, events, redis
  <2>2. Undisturbed' /\ LeftLate'
    BY <1>1, <1>2, <1>5, <1>9 DEF Stop, Goes, Undisturbed, LeftLate, IInv, events, redis
  <2> QED BY <1>2, <1>4, <2>1, <2>2 DEF IInv
<1>10. CASE Disconnect
  <2>1. Types' /\ Phases'
    BY <1>1, <1>5, <1>10 DEF Disconnect, Goes, Types, States, IInv, Phases, events, redis
  <2>2. Undisturbed' /\ LeftLate'
    BY <1>1, <1>2, <1>5, <1>10 DEF Disconnect, Goes, Undisturbed, LeftLate, IInv, events, redis
  <2> QED BY <1>2, <1>4, <2>1, <2>2 DEF IInv
<1>11. CASE GoesAway \/ ComesBack
  <2>1. UNCHANGED <<client, events, pc, batch, tries, resent, stoppedAt, applied>>
    BY <1>11 DEF GoesAway, ComesBack, writes
  <2>2. Types'
    <3>1. faults' = faults \/ faults' = faults + 1
      BY <1>11 DEF GoesAway, ComesBack
    <3>2. faults' \in Nat
      BY <3>1 DEF Types, IInv
    <3>3. up' \in BOOLEAN /\ disturbed' \in BOOLEAN
      BY <1>11, Zenon DEF GoesAway, ComesBack, Types, IInv
    <3> QED BY <2>1, <3>2, <3>3 DEF Types, IInv, events
  <2>3. Phases' /\ LeftLate'
    BY <1>2, <2>1 DEF Phases, LeftLate, IInv
  <2>4. Undisturbed'
    BY <1>11 DEF GoesAway, ComesBack, Undisturbed, IInv, Types
  <2> QED BY <1>2, <1>4, <2>2, <2>3, <2>4 DEF IInv
<1> QED BY <1>6, <1>7, <1>8, <1>9, <1>10, <1>11
--------------------------------------------------------------------------------
LEMMA IInvInit == Init => IInv
<1> SUFFICES ASSUME Init PROVE IInv
  OBVIOUS
<1> USE AnalyticsAssumption, TasksOf
<1>1. Types
  <2>1. up \in BOOLEAN /\ client \in BOOLEAN /\ disturbed \in BOOLEAN
    BY Zenon DEF Init
  <2>2. /\ queue \in Seq(1..MaxEvents) /\ recorded \in 0..MaxEvents /\ stoppedAt \in 0..recorded
        /\ faults \in Nat
    BY DEF Init
  <2>3. /\ pc \in [Tasks -> States] /\ batch \in [Tasks -> Seq(1..MaxEvents)]
        /\ applied \in [1..MaxEvents -> Nat] /\ tries \in [Tasks -> 0..Retries]
    BY DEF Init, States
  <2> QED BY <2>1, <2>2, <2>3 DEF Types
<1>2. OnePlace
  BY DEF Init, OnePlace, Limit, Queued, Holds
<1>3. Phases /\ Undisturbed /\ LeftLate
  BY DEF Init, Phases, Undisturbed, LeftLate
<1>4. Kept
  BY DEF Init, Kept
<1> QED BY <1>1, <1>2, <1>3, <1>4 DEF IInv

LEMMA IInvStep == IInv /\ [Next]_vars => IInv'
<1> SUFFICES ASSUME IInv, [Next]_vars PROVE IInv'
  OBVIOUS
<1>1. CASE Next
  <2>1. CASE Record
    BY <2>1, RecordStep
  <2>2. CASE Flush("flush") \/ Flush("main")
    BY <2>2, FlushStep
  <2>3. CASE \E t \in Tasks : Write(t)
    BY <2>3, WriteSucceedsStep, WriteIsResentStep, WriteFailsStep, ConnectStep DEF Write
  <2>4. CASE Cancellation
    BY <2>4, CancelStep DEF Cancellation
  <2>5. CASE Start \/ Started \/ Beat \/ Stop \/ Disconnect \/ GoesAway \/ ComesBack
    BY <2>5, OtherStep
  <2> QED BY <1>1, <2>1, <2>2, <2>3, <2>4, <2>5, TasksOf DEF Next, MainStep
<1>2. CASE UNCHANGED vars
  <2>1. /\ UNCHANGED <<up, applied, faults, client, queue, recorded, pc, stoppedAt, disturbed>>
        /\ UNCHANGED <<batch, tries, resent>>
    BY <1>2 DEF vars, redis, events, writes
  <2> QED BY <2>1 DEF IInv, Types, OnePlace, Limit, Phases, Undisturbed, LeftLate, Kept, Queued, Holds
<1> QED BY <1>1, <1>2

LEMMA IInvAlways == Spec => []IInv
BY IInvInit, IInvStep, PTL DEF Spec

LEMMA StopDelivers == IInv => StopDeliversAll
<1> SUFFICES ASSUME IInv, pc["main"] = "down", ~disturbed, NEW e \in 1..stoppedAt
             PROVE  applied[e] = 1
  BY DEF StopDeliversAll
<1>1. e \in 1..recorded
  BY AnalyticsAssumption DEF IInv, Types
<1>2. ~Queued(e)
  BY DEF IInv, LeftLate
<1>3. \A t \in Tasks : batch[t] = <<>>
  BY TasksOf DEF IInv, Phases
<1>4. \A t \in Tasks : ~Holds(t, e)
  BY <1>3 DEF Holds
<1> QED BY <1>1, <1>2, <1>4 DEF IInv, Kept

(* An event is counted once, however often Redis fails and whoever reconnects  *)
(* (_flush drains what it writes), unless the Redis library sent its pipeline  *)
(* again (retry_on_timeout): then at most once per sending.                    *)
THEOREM Counted == Spec => []CountedOncePerSending
<1>1. IInv => CountedOncePerSending
  BY DEF IInv, OnePlace, Limit, CountedOncePerSending
<1> QED BY <1>1, IInvAlways, PTL

(* While nothing fails and the queue has room, each event is counted, queued   *)
(* or in the batch that is being written.                                      *)
THEOREM NoneVanishes == Spec => []NothingVanishes
<1>1. IInv => NothingVanishes
  BY DEF IInv, Kept, NothingVanishes, InHand, Queued, Holds
<1> QED BY <1>1, IInvAlways, PTL

(* When stop() has returned and nothing failed, what was recorded before it    *)
(* is counted.                                                                 *)
THEOREM Delivered == Spec => []StopDeliversAll
<1> QED BY StopDelivers, IInvAlways, PTL
--------------------------------------------------------------------------------
(* The gateway runs this collector *)
LEMMA CollectorRuns == LifespanSpec => Spec
<1>1. LifespanInit => Init
  BY DEF LifespanInit
<1>2. [LifespanNext]_allVars => [Next]_vars
  BY DEF LifespanNext, allVars, CollectorStep, Close, StopCollector, Call, Arrive, RunPipeline,
         UpstreamEnds, CancelCall, Next
<1> QED BY <1>1, <1>2, PTL DEF LifespanSpec, Spec

(* What the calls have recorded, and that those of Streamable HTTP sessions    *)
(* are over when the collector is stopped                                      *)
CallsInv ==
  /\ call \in [Calls -> {"none", "pre_run", "upstream", "post_run", "over"}]
  /\ events_of \in [Calls -> SUBSET Nat]
  /\ \A c \in Calls : \A e \in events_of[c] : e \in 1..recorded
  /\ pc["main"] \notin {"off", "start", "running"} =>
       /\ closing /\ TaskGroupLeft
       /\ \A c \in Calls \ Sse : \A e \in events_of[c] : e \in 1..stoppedAt

LEMMA CallsInvStep == IInv /\ CallsInv /\ [LifespanNext]_allVars => CallsInv'
<1> SUFFICES ASSUME IInv, CallsInv, [LifespanNext]_allVars PROVE CallsInv'
  OBVIOUS
<1>1. recorded \in Nat /\ stoppedAt \in Nat /\ pc \in [Tasks -> States]
  BY AnalyticsAssumption DEF IInv, Types
<1> USE TasksOf
<1>2. CASE CollectorStep
  <2>1. UNCHANGED <<closing, call, events_of, recorded, stoppedAt>>
    BY <1>2 DEF CollectorStep, app, Start, MainStep, Started, Flush, Write, WriteSucceeds,
          QueueAfterSuccess, WriteIsResent, WriteFails, Closed, Pinged, Cancellation, Cancel,
          Disconnect, Beat, GoesAway, ComesBack, events
  <2>2. pc["main"] \in {"off", "start", "running"} => pc'["main"] \in {"off", "start", "running"}
    <3>1. CASE Start \/ Started \/ Cancellation \/ Disconnect \/ Beat \/ GoesAway \/ ComesBack
      <4>1. CASE Started
        BY <4>1 DEF Started
      <4>2. CASE Start \/ Beat \/ GoesAway \/ ComesBack
        BY <1>1, <4>2 DEF Start, Beat, Goes, GoesAway, ComesBack
      <4>3. CASE Cancellation \/ Disconnect
        BY <4>3 DEF Cancellation, Cancel, Disconnect
      <4> QED BY <3>1, <4>1, <4>2, <4>3
    <3>2. CASE Flush("main") \/ Flush("flush")
      BY <1>1, <3>2 DEF Flush, Drains, Goes
    <3>3. ASSUME NEW t \in Tasks, Write(t)
          PROVE  pc["main"] \in {"off", "start", "running"} =>
                   pc'["main"] \in {"off", "start", "running"}
      BY <1>1, <3>3 DEF Write, WriteSucceeds, WriteIsResent, WriteFails, Unanswered, Closed, Pinged,
            Goes
    <3> QED BY <1>2, <3>1, <3>2, <3>3 DEF CollectorStep, MainStep
  <2> QED BY <2>1, <2>2 DEF CallsInv, TaskGroupLeft
<1>3. CASE Close
  <2>1. UNCHANGED <<pc, recorded, stoppedAt, call, events_of>> /\ pc["main"] = "running"
    BY <1>3 DEF Close, vars, events
  <2> QED BY <2>1 DEF CallsInv
<1>4. CASE StopCollector
  <2>1. /\ UNCHANGED <<closing, call, events_of, recorded>> /\ stoppedAt' = recorded
        /\ closing /\ TaskGroupLeft
    BY <1>4 DEF StopCollector, Stop, app, events
  <2> QED BY <2>1 DEF CallsInv, TaskGroupLeft
<1>5. ASSUME NEW c \in Calls, Arrive(c) \/ UpstreamEnds(c) \/ CancelCall(c)
      PROVE  CallsInv'
  <2>1. UNCHANGED <<pc, recorded, stoppedAt, closing, events_of>>
    BY <1>5 DEF Arrive, UpstreamEnds, CancelCall, vars, events
  <2>2. \E next \in {"pre_run", "post_run", "over"} : call' = [call EXCEPT ![c] = next]
    BY <1>5 DEF Arrive, UpstreamEnds, CancelCall
  <2>3. pc["main"] \notin {"off", "start", "running"} => TaskGroupLeft'
    BY <1>5 DEF CallsInv, TaskGroupLeft, Arrive, UpstreamEnds, CancelCall
  <2> QED BY <2>1, <2>2, <2>3 DEF CallsInv
<1>6. ASSUME NEW c \in Calls, RunPipeline(c) PROVE CallsInv'
  <2>1. /\ recorded' = recorded + 1 /\ UNCHANGED <<pc, stoppedAt, closing>>
        /\ events_of' = [events_of EXCEPT ![c] = @ \cup {recorded'}]
    BY <1>6 DEF RunPipeline, Record
  <2>2. PICK next \in {"upstream", "over"} : call' = [call EXCEPT ![c] = next]
    BY <1>6 DEF RunPipeline
  <2>3. pc["main"] \notin {"off", "start", "running"} => c \in Sse
    BY <1>6 DEF RunPipeline, CallsInv, TaskGroupLeft
  <2>4. /\ call' \in [Calls -> {"none", "pre_run", "upstream", "post_run", "over"}]
        /\ events_of' \in [Calls -> SUBSET Nat]
    BY <1>1, <2>1, <2>2 DEF CallsInv
  <2>5. \A d \in Calls : \A e \in events_of'[d] : e \in 1..recorded'
    BY <1>1, <2>1 DEF CallsInv
  <2>6. pc'["main"] \notin {"off", "start", "running"} =>
          /\ closing' /\ TaskGroupLeft'
          /\ \A d \in Calls \ Sse : \A e \in events_of'[d] : e \in 1..stoppedAt'
    BY <1>1, <2>1, <2>2, <2>3 DEF CallsInv, TaskGroupLeft
  <2> QED BY <2>4, <2>5, <2>6 DEF CallsInv
<1>7. CASE UNCHANGED allVars
  BY <1>7 DEF allVars, vars, app, events, CallsInv, TaskGroupLeft
<1> QED BY <1>2, <1>3, <1>4, <1>5, <1>6, <1>7 DEF LifespanNext, Call

(* When the gateway is down and Redis never failed, each event that a call      *)
(* over Streamable HTTP recorded is counted: lifespan leaves the task group of  *)
(* the session manager before it stops the collector.                          *)
THEOREM CallsCounted == LifespanSpec => []EveryCallIsCounted
<1>1. LifespanSpec => []IInv
  BY CollectorRuns, IInvAlways, PTL
<1>2. LifespanInit => CallsInv
  BY TasksOf DEF LifespanInit, Init, CallsInv
<1>3. IInv /\ CallsInv => EveryCallIsCounted
  BY StopDelivers DEF CallsInv, EveryCallIsCounted, StopDeliversAll
<1> QED BY <1>1, <1>2, <1>3, CallsInvStep, PTL DEF LifespanSpec
================================================================================

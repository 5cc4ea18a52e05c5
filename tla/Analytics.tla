------------------------------- MODULE Analytics -------------------------------
(***************************************************************************)
(* AnalyticsCollector (analytics/collector.py) and the Redis client its       *)
(* tasks share (analytics/client.py): requests record events in a bounded     *)
(* queue, one task writes them to Redis in batches, another announces the     *)
(* gateway there, and stop() ends both and writes what is left.               *)
(*                                                                          *)
(* An event stands for the counters it increments; a batch is written by one  *)
(* pipeline, which is no transaction: when it fails, a part may be applied.   *)
(* Below execute_pipeline the Redis library, told so by retry_on_timeout,      *)
(* sends a pipeline again whose answer has not come in time.                   *)
(***************************************************************************)
EXTENDS Naturals, Sequences

CONSTANTS
  QueueSize,  (* AnalyticsConfig.queue_size                                   *)
  MaxEvents,  (* bound: so many events are recorded                           *)
  Retries,    (* how often the Redis library sends a pipeline again: 0 without *)
              (* retry_on_timeout                                             *)
  MaxFaults   (* bound: Redis goes away, or fails once, so often              *)

ASSUME AnalyticsAssumption ==
  /\ QueueSize \in Nat \ {0} /\ MaxEvents \in Nat
  /\ Retries \in Nat /\ MaxFaults \in Nat

(* The flush task, the heartbeat task, and the program that starts and stops  *)
(* the collector                                                              *)
Tasks == {"flush", "heartbeat", "main"}

VARIABLES
  up,         (* Redis answers                                                *)
  client,     (* RedisAnalyticsClient._client is set                          *)
  queue,      (* the events, numbered as they were recorded                   *)
  recorded,   (* how many there were                                          *)
  pc, batch,  (* per task: where it is, and the events it writes              *)
  tries,      (* per task: how often the library has sent its pipeline again  *)
  applied,    (* per event: how often it has been counted in Redis            *)
  faults,
  stoppedAt,  (* history: recorded when stop() was called                     *)
  resent,     (* history: the events of the pipelines that were sent again    *)
  disturbed   (* history: Redis failed, the queue overflowed, or a write was  *)
              (* cancelled                                                    *)

redis == <<up, applied, faults>>
events == <<queue, recorded>>
writes == <<batch, tries, resent>>
vars == <<redis, client, events, pc, writes, stoppedAt, disturbed>>
--------------------------------------------------------------------------------
Init ==
  /\ up \in BOOLEAN /\ disturbed = ~up
  /\ client = FALSE /\ queue = <<>> /\ recorded = 0
  /\ pc = [t \in Tasks |-> "off"]
  /\ batch = [t \in Tasks |-> <<>>] /\ tries = [t \in Tasks |-> 0] /\ resent = {}
  /\ applied = [e \in 1..MaxEvents |-> 0]
  /\ faults = 0 /\ stoppedAt = 0

(* Where a task goes on after a write *)
Afterwards(t) == IF t = "main" THEN "disconnect" ELSE "sleep"

Goes(t, where) == pc' = [pc EXCEPT ![t] = where]

(* The first es of a batch are counted *)
Applied(es) ==
  [e \in 1..MaxEvents |-> applied[e] + (IF \E i \in 1..Len(es) : es[i] = e THEN 1 ELSE 0)]
--------------------------------------------------------------------------------
HasRoom == Len(queue) < QueueSize

(* _enqueue, for any of the record methods *)
Record ==
  /\ recorded < MaxEvents
  /\ recorded' = recorded + 1
  /\ IF HasRoom
     THEN queue' = Append(queue, recorded + 1) /\ UNCHANGED disturbed
     ELSE disturbed' = TRUE /\ UNCHANGED queue
  /\ UNCHANGED <<redis, client, pc, writes, stoppedAt>>

(* start(): connect() sets the client and pings                               *)
Start ==
  /\ pc["main"] = "off" /\ stoppedAt = 0
  /\ client' = TRUE /\ Goes("main", "start")
  /\ UNCHANGED <<redis, events, writes, stoppedAt, disturbed>>

(* The ping returns; the tasks are created whatever it said                   *)
Started ==
  /\ pc["main"] = "start"
  /\ \/ up /\ UNCHANGED client
     \/ ~up /\ client' = FALSE
  /\ pc' = [flush |-> "sleep", heartbeat |-> "beat", main |-> "running"]
  /\ UNCHANGED <<redis, events, writes, stoppedAt, disturbed>>

(* _write_heartbeat, now and after every sleep *)
Beat ==
  /\ pc["heartbeat"] \in {"beat", "sleep"}
  /\ Goes("heartbeat", IF client THEN "write" ELSE "sleep")
  /\ UNCHANGED <<redis, client, events, writes, stoppedAt, disturbed>>

(* Mutant: stop() flushes before the flush task has ended *)
DrainsEarly(t) ==
  \/ t = "flush" /\ pc[t] = "sleep"
  \/ t = "main" /\ pc[t] = "stopping"

(* The flush task after its sleep, and stop() when both tasks have ended      *)
Drains(t) ==
  \/ t = "flush" /\ pc[t] = "sleep"
  \/ t = "main" /\ pc[t] = "stopping" /\ pc["flush"] = "off" /\ pc["heartbeat"] = "off"

(* _flush: without a client the events are dropped *)
Flush(t) ==
  /\ Drains(t)
  /\ queue' = <<>>
  /\ IF client /\ queue # <<>>
     THEN Goes(t, "write") /\ batch' = [batch EXCEPT ![t] = queue]
     ELSE Goes(t, Afterwards(t)) /\ UNCHANGED batch
  /\ UNCHANGED <<redis, client, recorded, tries, resent, stoppedAt, disturbed>>

(* Mutant: the queue is emptied when its events are written, not before *)
QueueEmptied == <<>>

QueueAfterSuccess == queue

(* The pipeline has been answered or is given up *)
WriteEnds(t) ==
  /\ batch' = [batch EXCEPT ![t] = <<>>] /\ tries' = [tries EXCEPT ![t] = 0]
  /\ UNCHANGED resent

WriteSucceeds(t) ==
  /\ pc[t] = "write" /\ up
  /\ applied' = Applied(batch[t]) /\ WriteEnds(t)
  /\ queue' = QueueAfterSuccess
  /\ Goes(t, Afterwards(t))
  /\ UNCHANGED <<up, faults, client, recorded, stoppedAt, disturbed>>

(* Mutant: the batch of a failed write is queued again *)
Requeued(t) == batch[t] \o queue

(* The queue after a failed write of t *)
QueueAfterFailure(t) == queue

(* There is no answer to the pipeline, or an error, with a part of it applied, *)
(* unless Redis is away.  A pipeline under way when Redis goes away is          *)
(* unanswered before it does.                                                 *)
Unanswered(t) ==
  /\ pc[t] = "write"
  /\ \/ ~up /\ UNCHANGED <<faults, applied>>
     \/ /\ up /\ faults < MaxFaults /\ faults' = faults + 1
        /\ \E n \in 0..Len(batch[t]) : applied' = Applied(SubSeq(batch[t], 1, n))

(* Within pipe.execute(): the answer is late, whatever was applied, and the    *)
(* library sends the whole pipeline again.  A heartbeat counts nothing, and    *)
(* sent again sets the same fields.                                           *)
WriteIsResent(t) ==
  /\ Unanswered(t) /\ batch[t] # <<>> /\ tries[t] < Retries
  /\ tries' = [tries EXCEPT ![t] = @ + 1]
  /\ resent' = resent \cup {batch[t][i] : i \in 1..Len(batch[t])}
  /\ disturbed' = TRUE
  /\ UNCHANGED <<up, client, events, pc, batch, stoppedAt>>

(* pipe.execute() raises, at the first error that is no time-out or when the   *)
(* retries are used up, and the client is replaced at once: disconnect(), if   *)
(* there still is a client, then connect()                                    *)
WriteFails(t) ==
  /\ Unanswered(t)
  /\ WriteEnds(t) /\ queue' = QueueAfterFailure(t)
  /\ IF client THEN Goes(t, "close") /\ UNCHANGED client
     ELSE Goes(t, "ping") /\ client' = TRUE
  /\ disturbed' = TRUE
  /\ UNCHANGED <<up, recorded, stoppedAt>>

(* disconnect() returns: connect() sets the new client and pings              *)
Closed(t) ==
  /\ pc[t] = "close"
  /\ client' = TRUE /\ Goes(t, "ping")
  /\ UNCHANGED <<redis, events, writes, stoppedAt, disturbed>>

(* The ping succeeds, or fails, and then takes the client with it, also the   *)
(* one another task has set meanwhile                                         *)
Pinged(t) ==
  /\ pc[t] = "ping"
  /\ \/ up /\ UNCHANGED client
     \/ ~up /\ client' = FALSE
  /\ Goes(t, Afterwards(t))
  /\ UNCHANGED <<redis, events, writes, stoppedAt, disturbed>>

Stop ==
  /\ pc["main"] = "running"
  /\ Goes("main", "stopping") /\ stoppedAt' = recorded
  /\ UNCHANGED <<redis, client, events, writes, disturbed>>

(* Mutant: the heartbeat task is awaited, not cancelled *)
CancelsOnlyFlush(t) == t = "flush"

(* Flush first, then heartbeat *)
Cancels(t) == t = "flush" \/ (t = "heartbeat" /\ pc["flush"] = "off")

(* The task ends where it is suspended: a write may or may not have happened, *)
(* a disconnect() still unsets the client, a ping leaves it                   *)
Cancel(t) ==
  /\ pc["main"] = "stopping" /\ Cancels(t) /\ pc[t] # "off"
  /\ Goes(t, "off")
  /\ client' = IF pc[t] = "close" THEN FALSE ELSE client
  /\ \E n \in 0..Len(batch[t]) :
       /\ applied' = Applied(SubSeq(batch[t], 1, n))
       /\ disturbed' = (disturbed \/ n < Len(batch[t]))
  /\ WriteEnds(t)
  /\ UNCHANGED <<up, faults, events, stoppedAt>>

(* The disconnect() of stop() *)
Disconnect ==
  /\ pc["main"] = "disconnect"
  /\ client' = FALSE /\ Goes("main", "down")
  /\ UNCHANGED <<redis, events, writes, stoppedAt, disturbed>>
--------------------------------------------------------------------------------
GoesAway ==
  /\ up /\ faults < MaxFaults
  /\ up' = FALSE /\ faults' = faults + 1 /\ disturbed' = TRUE
  /\ UNCHANGED <<applied, client, events, pc, writes, stoppedAt>>

ComesBack ==
  /\ ~up /\ up' = TRUE
  /\ UNCHANGED <<applied, faults, client, events, pc, writes, stoppedAt, disturbed>>

Write(t) ==
  WriteSucceeds(t) \/ WriteIsResent(t) \/ WriteFails(t) \/ Closed(t) \/ Pinged(t)

Cancellation == Cancel("flush") \/ Cancel("heartbeat")

MainStep == Started \/ Flush("main") \/ Write("main") \/ Cancellation \/ Disconnect

Next ==
  \/ Record \/ Start \/ Stop \/ MainStep
  \/ Flush("flush") \/ Write("flush") \/ Beat \/ Write("heartbeat")
  \/ GoesAway \/ ComesBack

Spec == Init /\ [][Next]_vars

(* The event loop runs who may go on, sleeps end, requests to Redis have a    *)
(* timeout (socket_timeout), and Redis comes back.                            *)
FairSpec ==
  /\ Spec /\ WF_vars(ComesBack) /\ WF_vars(MainStep)
  /\ WF_vars(Flush("flush") \/ Write("flush"))
  /\ WF_vars(Beat \/ Write("heartbeat"))
--------------------------------------------------------------------------------
(* The collector never counts an event twice, whatever fails and reconnects   *)
(* between: _flush drains what it writes, and drops a batch that failed.  Only *)
(* the library does, by sending a pipeline again that was applied after all    *)
(* (retry_on_timeout, client.py:31): then at most once more per retry.         *)
CountedOncePerSending ==
  \A e \in 1..MaxEvents : applied[e] <= IF e \in resent THEN 1 + Retries ELSE 1

InHand(e) ==
  \/ \E i \in 1..Len(queue) : queue[i] = e
  \/ \E t \in Tasks : \E i \in 1..Len(batch[t]) : batch[t][i] = e

(* While Redis answers, the queue has room and no write is cut off, every     *)
(* event is counted, queued or being written, across flushes and the stop.    *)
NothingVanishes ==
  ~disturbed => \A e \in 1..recorded : applied[e] = 1 \/ InHand(e)

(* "Stop background tasks and flush remaining events" (collector.py:95): when *)
(* stop() has returned undisturbed, what was recorded before is counted.      *)
StopDeliversAll ==
  pc["main"] = "down" /\ ~disturbed => \A e \in 1..stoppedAt : applied[e] = 1

(* docs/analytics-redis-plan.md:339, "Collector retries connection in         *)
(* background": a running collector without a client gets one again.          *)
ConnectionIsRetried ==
  pc["main"] = "running" /\ ~client ~> client \/ pc["main"] # "running"
================================================================================

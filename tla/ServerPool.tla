-------------------------------- MODULE ServerPool --------------------------------
(***************************************************************************)
(* ServerManager (proxy/server_manager.py) and the transports it pools        *)
(* (transport/base.py, http.py; sse.py and stdio.py have the same life        *)
(* cycle), as used by the retry loop of _call_tool, by list_tools, and by the *)
(* shutdown of the gateway.                                                   *)
(*                                                                          *)
(* A step is what an asyncio task does between two suspensions.  The global   *)
(* lock is never held across one, so it does not appear.  Locks, transports   *)
(* and connections (the background tasks that own a session) are numbered in  *)
(* the order they are created; 0 stands for None.                             *)
(***************************************************************************)
EXTENDS Naturals, Sequences, FiniteSets

CONSTANTS
  Tasks,      (* requests that want a session                                 *)
  Main,       (* the gateway itself, which disconnects everything when it stops *)
  Setups,     (* which requests there are, and what the network does to them  *)
  MaxRetries,
  MaxFailures (* bound: how many connections fail to open in a behaviour       *)

ASSUME PoolAssumption ==
  /\ Main \notin Tasks /\ IsFiniteSet(Tasks)
  /\ \A s \in Setups : /\ DOMAIN s.server = Tasks /\ DOMAIN s.user = Tasks
                       /\ s.listing \subseteq Tasks
                       /\ s.faults \subseteq {"refused", "broken", "dropped", "slow", "cancelled"}
  /\ MaxRetries \in Nat /\ MaxFailures \in Nat

VARIABLES
  setup,      (* per task, its server and identity.user_id or None; which tasks *)
              (* are list_tools: one attempt, no disconnect; and whether        *)
              (* connections may be "refused", "broken", "dropped" or "slow",   *)
              (* and requests "cancelled"                                      *)
  pool,       (* _transports                                                  *)
  lock,       (* _locks                                                       *)
  queue,      (* per lock: its holder, then the tasks waiting in acquire()    *)
  transports, (* per transport: _state, _session, _bg_task with _stop_event   *)
  conns,      (* per connection owner: whose it is, and where it is           *)
  task        (* per task: where it is in the loop of _call_tool, and whether   *)
              (* its client has gone and it is being cancelled                 *)

vars == <<setup, pool, lock, queue, transports, conns, task>>
--------------------------------------------------------------------------------
(* Mutant: sessions are pooled per server *)
SessionKeyShared(t) == <<setup.server[t], "any">>

(* _SessionKey *)
SessionKey(t) == <<setup.server[t], setup.user[t]>>
Keys == {SessionKey(t) : t \in Tasks}

NewTransport == [state |-> "disconnected", session |-> 0, owner |-> 0]

Ended(c) == c # 0 => conns[c].phase = "done"

Done(how) == [pc |-> "done", attempt |-> 0, lock |-> 0, on |-> 0, conn |-> 0,
              todo |-> {}, out |-> how, gone |-> FALSE]

At(t, where) == task[t].pc = where

Init ==
  /\ setup \in Setups
  /\ pool = [k \in Keys |-> 0]
  /\ lock = [k \in Keys |-> 0]
  /\ queue = <<>> /\ transports = <<>> /\ conns = <<>>
  /\ task = [t \in Tasks \cup {Main} |->
               [Done("none") EXCEPT !.pc = "start"]]

(* Mutant: the session is handed out whatever the state of the transport *)
OpenSessionUnchecked(x, trs) == trs[x].owner

(* MCPTransport.session; 0 stands for TransportClosedError *)
OpenSession(x, trs) == IF trs[x].state = "connected" THEN trs[x].session ELSE 0

(* get_session returns: the call starts, or fails with what .session raised   *)
WithSession(t, s) ==
  IF s = 0 THEN [Done("closed") EXCEPT !.attempt = task[t].attempt]
           ELSE [task[t] EXCEPT !.pc = "calling", !.lock = 0, !.on = 0, !.conn = s]

(* What follows a failed attempt *)
NextAttempt(t) ==
  IF t \in Tasks \ setup.listing /\ task[t].attempt < MaxRetries
  THEN [Done("none") EXCEPT !.pc = "start", !.attempt = task[t].attempt + 1,
                            !.gone = task[t].gone]
  ELSE Done("failed")

(* Mutant: a waiter is not let in after the holder failed *)
ReleasedToNobody(l, qs) == qs

Released(l, qs) == [qs EXCEPT ![l] = Tail(@)]
--------------------------------------------------------------------------------
(* connect(), once no owner is left: the state is CONNECTING and a new owner  *)
(* task starts, with the headers of this request.                             *)
StartOwner(t, l, x, trs) ==
  LET c == Len(conns) + 1
  IN /\ conns' = Append(conns, [transport |-> x, server |-> setup.server[t],
                                user |-> setup.user[t], phase |-> "starting",
                                stop |-> FALSE, error |-> "none"])
     /\ transports' = [trs EXCEPT ![x].state = "connecting", ![x].owner = c]
     /\ task' = [task EXCEPT ![t].pc = "ready", ![t].lock = l, ![t].on = x,
                             ![t].conn = c]

(* _cleanup_bg_task up to its await *)
StopOwner(t, where, l, x, trs) ==
  /\ conns' = [conns EXCEPT ![trs[x].owner].stop = TRUE]
  /\ transports' = trs
  /\ task' = [task EXCEPT ![t].pc = where, ![t].lock = l, ![t].on = x,
                          ![t].conn = trs[x].owner]

(* The block under "async with lock" up to its first suspension *)
Locked(t, l, qs) ==
  LET k == SessionKey(t)
      new == pool[k] = 0
      x == IF new THEN Len(transports) + 1 ELSE pool[k]
      trs == IF new THEN Append(transports, NewTransport) ELSE transports
  IN /\ pool' = [pool EXCEPT ![k] = x]
     /\ \/ /\ trs[x].state = "connected"
           /\ queue' = Released(l, qs)
           /\ task' = [task EXCEPT ![t] = WithSession(t, OpenSession(x, trs))]
           /\ transports' = trs /\ UNCHANGED conns
        \/ /\ trs[x].state # "connected" /\ Ended(trs[x].owner)
           /\ queue' = qs
           /\ StartOwner(t, l, x, trs)
        \/ /\ trs[x].state # "connected" /\ ~Ended(trs[x].owner)
           /\ queue' = qs
           /\ StopOwner(t, "cleanup", l, x, trs)

(* Mutant: the lock is not waited for *)
MayEnterNow(t, q) == TRUE

(* asyncio.Lock: the lock is free only if nobody holds it or waits for it     *)
MayEnter(t, q) == Head(q) = t

GetSession(t) ==
  LET k == SessionKey(t)
      l == IF lock[k] = 0 THEN Len(queue) + 1 ELSE lock[k]
      qs == IF lock[k] = 0 THEN Append(queue, <<t>>)
                           ELSE [queue EXCEPT ![l] = Append(@, t)]
  IN /\ t \in Tasks /\ At(t, "start")
     /\ lock' = [lock EXCEPT ![k] = l]
     /\ IF MayEnter(t, qs[l]) THEN Locked(t, l, qs)
        ELSE /\ queue' = qs
             /\ task' = [task EXCEPT ![t].pc = "lock", ![t].lock = l]
             /\ UNCHANGED <<pool, transports, conns>>

Enter(t) ==
  /\ At(t, "lock") /\ Head(queue[task[t].lock]) = t
  /\ Locked(t, task[t].lock, queue)
  /\ UNCHANGED lock

(* connect() after the leftover owner has finished *)
AfterCleanup(t) ==
  /\ At(t, "cleanup") /\ Ended(task[t].conn)
  /\ StartOwner(t, task[t].lock, task[t].on, transports)
  /\ UNCHANGED <<pool, lock, queue>>

(* Mutant: disconnect does not wait for the owner, nor tell it to stop *)
LeftRunning(x, trs) == FALSE

(* transport.disconnect() acts in these states, and waits for a running owner *)
Disconnects(x, trs) == trs[x].state \in {"connected", "error"}
MustWait(x, trs) == Disconnects(x, trs) /\ ~Ended(trs[x].owner)

(* The loop of disconnect() / disconnect_all() up to its next suspension:     *)
(* the keys in quiet need none; last, if any, is the one whose owner is       *)
(* awaited.  The pool is read when a key's turn comes.                        *)
DisconnectSome(t, trs, todo) ==
  LET Waits(k) == pool[k] # 0 /\ MustWait(pool[k], trs)
      Left(x) == IF Disconnects(x, trs) THEN NewTransport ELSE trs[x]
  IN \E quiet \in SUBSET {k \in todo : ~Waits(k)},
        last \in {{}} \cup {{k} : k \in {j \in todo : Waits(j)}} :
       LET gone == quiet \cup last
           awaited == {pool[k] : k \in last}
           emptied == {pool[k] : k \in quiet} \ {0}
       IN /\ last = {} => quiet = todo
          /\ pool' = [k \in Keys |-> IF k \in gone THEN 0 ELSE pool[k]]
          /\ lock' = [k \in Keys |-> IF k \in gone THEN 0 ELSE lock[k]]
          /\ transports' = [x \in DOMAIN trs |->
                              IF x \in emptied THEN Left(x)
                              ELSE IF x \in awaited THEN [trs[x] EXCEPT !.state = "disconnecting"]
                              ELSE trs[x]]
          /\ conns' = [c \in DOMAIN conns |->
                         IF \E x \in awaited : trs[x].owner = c
                         THEN [conns[c] EXCEPT !.stop = TRUE] ELSE conns[c]]
          /\ IF last = {} THEN task' = [task EXCEPT ![t] = NextAttempt(t)]
             ELSE \E x \in awaited :
                    task' = [task EXCEPT ![t].pc = "disconnecting", ![t].on = x, ![t].lock = 0,
                               ![t].conn = trs[x].owner, ![t].todo = todo \ gone]

KeysOf(t) == {k \in Keys : pool[k] # 0 /\ k[1] = setup.server[t]}

(* connect() fails after the last owner has finished: the state is ERROR, the *)
(* lock is released, and a connection error makes _call_tool disconnect the   *)
(* server for every user before it retries.                                   *)
FailConnect(t, error) ==
  LET trs == [transports EXCEPT ![task[t].on].state = "error", ![task[t].on].owner = 0]
  IN /\ queue' = Released(task[t].lock, queue)
     /\ IF error = "refused" /\ t \notin setup.listing THEN DisconnectSome(t, trs, KeysOf(t))
        ELSE /\ transports' = trs
             /\ task' = [task EXCEPT ![t] = Done("failed")]
             /\ UNCHANGED <<pool, lock, conns>>

(* connect() after ready.wait() *)
Ready(t) ==
  LET c == task[t].conn  x == task[t].on
  IN /\ At(t, "ready") /\ conns[c].phase # "starting"
     /\ \/ /\ conns[c].error = "none"
           /\ queue' = Released(task[t].lock, queue)
           /\ task' = [task EXCEPT ![t] = WithSession(t, OpenSession(x, transports))]
           /\ UNCHANGED <<pool, lock, transports, conns>>
        \/ /\ conns[c].error # "none" /\ Ended(transports[x].owner)
           /\ FailConnect(t, conns[c].error)
        \/ /\ conns[c].error # "none" /\ ~Ended(transports[x].owner)
           /\ StopOwner(t, IF conns[c].error = "refused" THEN "refused" ELSE "broken",
                        task[t].lock, x, transports)
           /\ UNCHANGED <<pool, lock, queue>>

AfterFailure(t) ==
  /\ task[t].pc \in {"refused", "broken"} /\ Ended(task[t].conn)
  /\ FailConnect(t, task[t].pc)

(* transport.disconnect() after its await, and the rest of the loop *)
AfterDisconnect(t) ==
  /\ At(t, "disconnecting") /\ Ended(task[t].conn)
  /\ DisconnectSome(t, [transports EXCEPT ![task[t].on] = NewTransport], task[t].todo)
  /\ UNCHANGED queue

(* disconnect_all(), once the requests are over *)
Shutdown ==
  /\ At(Main, "start") /\ \A t \in Tasks : At(t, "done")
  /\ DisconnectSome(Main, transports, {k \in Keys : pool[k] # 0})
  /\ UNCHANGED queue

(* The call over the session: answered, timed out (which does not disconnect), *)
(* or ended by the loss of the session, which is not retried                  *)
Answered(t) ==
  /\ At(t, "calling") /\ conns[task[t].conn].phase = "live"
  /\ task' = [task EXCEPT ![t] = Done("content")]
  /\ UNCHANGED <<pool, lock, queue, transports, conns>>

TimedOut(t) ==
  /\ At(t, "calling") /\ "slow" \in setup.faults
  /\ task' = [task EXCEPT ![t] = NextAttempt(t)]
  /\ UNCHANGED <<pool, lock, queue, transports, conns>>

Lost(t) ==
  /\ At(t, "calling") /\ conns[task[t].conn].phase # "live"
  /\ task' = [task EXCEPT ![t] = Done("failed")]
  /\ UNCHANGED <<pool, lock, queue, transports, conns>>
(* A request is cancelled: its client sent notifications/cancelled, or the      *)
(* session manager's task group ends.  The cancellation of a task that awaits  *)
(* an owner (_cleanup_bg_task) reaches the owner instead and is swallowed;     *)
(* it is delivered again at the next await that is not of this kind.           *)
AwaitsOwner(t) == task[t].pc \in {"cleanup", "refused", "broken", "disconnecting"}

Cancel(t) ==
  LET c == task[t].conn
      hits == AwaitsOwner(t) /\ conns[c].phase = "starting"
  IN /\ "cancelled" \in setup.faults /\ ~At(t, "done") /\ ~task[t].gone
     /\ task' = [task EXCEPT ![t].gone = TRUE]
     /\ conns' = IF hits THEN [conns EXCEPT ![c].phase = "closing", ![c].error = "cancelled"]
                         ELSE conns
     /\ transports' = IF hits THEN [transports EXCEPT ![conns[c].transport].state = "error",
                                                     ![conns[c].transport].session = 0]
                              ELSE transports
     /\ UNCHANGED <<pool, lock, queue>>

(* A queue that t has left *)
Without(q, t) ==
  LET p == CHOOSE i \in DOMAIN q : q[i] = t
  IN [i \in 1..(Len(q) - 1) |-> q[IF i < p THEN i ELSE i + 1]]

(* Mutant: connect() stays under its lock when its caller is cancelled *)
QueueWithoutWaiting(t) ==
  IF At(t, "lock") THEN [queue EXCEPT ![task[t].lock] = Without(@, t)] ELSE queue

(* A cancelled acquire() leaves the queue, a cancelled connect() the lock      *)
QueueWithout(t) ==
  IF task[t].pc \in {"lock", "ready"}
  THEN [queue EXCEPT ![task[t].lock] = Without(@, t)] ELSE queue

(* CancelledError leaves _call_tool; connect() leaves its transport CONNECTING *)
(* and the owner to itself.                                                   *)
Unwinds(t) ==
  /\ task[t].gone /\ task[t].pc \in {"start", "lock", "ready", "calling"}
  /\ queue' = QueueWithout(t)
  /\ task' = [task EXCEPT ![t] = Done("cancelled")]
  /\ UNCHANGED <<pool, lock, transports, conns>>
--------------------------------------------------------------------------------
(* The owner task _connection_owner.  The session of the transport is cleared *)
(* by whichever owner leaves.                                                 *)
OwnerStep(c, from, to, x) ==
  /\ conns[c].phase = from
  /\ conns' = [conns EXCEPT ![c] = to]
  /\ transports' = [transports EXCEPT ![conns[c].transport] = x]
  /\ UNCHANGED <<pool, lock, queue, task>>

Connects(c) ==
  LET x == transports[conns[c].transport]
  IN OwnerStep(c, "starting",
               [conns[c] EXCEPT !.phase = IF conns[c].stop THEN "closing" ELSE "live"],
               [x EXCEPT !.state = "connected", !.session = IF conns[c].stop THEN 0 ELSE c])

(* An OSError is a connection error, everything else a SessionError *)
FailsToConnect(c) ==
  /\ Cardinality({d \in DOMAIN conns : conns[d].error \in setup.faults}) < MaxFailures
  /\ \E error \in setup.faults \cap {"refused", "broken"} :
       OwnerStep(c, "starting", [conns[c] EXCEPT !.phase = "closing", !.error = error],
                 [transports[conns[c].transport] EXCEPT !.state = "error", !.session = 0])

(* stop_event is set, or the SDK's task group is cancelled under the owner    *)
Leaves(c) ==
  /\ conns[c].stop \/ "dropped" \in setup.faults
  /\ OwnerStep(c, "live", [conns[c] EXCEPT !.phase = "closing"],
               [transports[conns[c].transport] EXCEPT !.session = 0])

Closed(c) ==
  OwnerStep(c, "closing", [conns[c] EXCEPT !.phase = "done"], transports[conns[c].transport])

TaskStep(t) ==
  \/ /\ ~task[t].gone
     /\ GetSession(t) \/ Enter(t) \/ Ready(t) \/ Answered(t) \/ TimedOut(t) \/ Lost(t)
  \/ AfterCleanup(t) \/ AfterFailure(t) \/ AfterDisconnect(t) \/ Unwinds(t)

OwnerMoves(c) == Connects(c) \/ FailsToConnect(c) \/ Leaves(c) \/ Closed(c)

Next ==
  /\ \/ Shutdown
     \/ \E t \in Tasks \cup {Main} : TaskStep(t)
     \/ \E t \in Tasks : Cancel(t)
     \/ \E c \in DOMAIN conns : OwnerMoves(c)
  /\ UNCHANGED setup

Spec == Init /\ [][Next]_vars

MaxConns == Cardinality(Tasks) * (MaxRetries + 1)

(* The event loop runs every task on.  A call ends (wait_for); opening and    *)
(* closing a connection is assumed to end, which the HTTP client's timeout    *)
(* gives for http and nothing gives for stdio.  An owner need not leave       *)
(* before it is told to.                                                      *)
FairSpec ==
  /\ Spec
  /\ \A t \in Tasks \cup {Main} : WF_vars(TaskStep(t) /\ UNCHANGED setup)
  /\ WF_vars(Shutdown /\ UNCHANGED setup)
  /\ \A c \in 1..MaxConns :
       WF_vars(/\ c \in DOMAIN conns /\ (conns[c].phase # "live" \/ conns[c].stop)
               /\ OwnerMoves(c) /\ UNCHANGED setup)
--------------------------------------------------------------------------------
(* A request is only ever sent over a session that was opened for the same    *)
(* user and server, however connections, failures and disconnects interleave  *)
(* (_SessionKey, issue #50).                                                  *)
SessionIsolation ==
  \A t \in Tasks : At(t, "calling") =>
    /\ conns[task[t].conn].user = setup.user[t]
    /\ conns[task[t].conn].server = setup.server[t]

(* get_session never returns a session that is not open: one whose owner has  *)
(* left, or was told to leave and whose transport is disconnecting, is        *)
(* refused at the moment it would be handed out (MCPTransport.session).       *)
CallsStartOnOpenSession ==
  [][\A t \in Tasks : ~At(t, "calling") /\ task'[t].pc = "calling" =>
       conns[task'[t].conn].phase = "live"]_vars

(* Nobody waits for ever behind a connection that failed, and the shutdown    *)
(* completes: every request gets its answer, and the gateway stops.           *)
EveryoneFinishes == \A t \in Tasks \cup {Main} : <>At(t, "done")

(* While no connection is refused and until the shutdown, every connection     *)
(* that is not over is the one of its user's pooled transport: a user has at    *)
(* most one to a server, also when the first requests of the user arrive        *)
(* together, and none that nobody can close any more, also when the request    *)
(* that was opening it is cancelled (get_session, _cleanup_bg_task).           *)
OneConnectionPerKey ==
  "refused" \notin setup.faults /\ At(Main, "start") =>
    \A c \in DOMAIN conns : ~Ended(c) =>
      LET x == pool[<<conns[c].server, conns[c].user>>]
      IN x # 0 /\ transports[x].owner = c

(* server_manager.py:111, "Disconnect all transports for clean shutdown": when *)
(* disconnect_all has returned after the last request, no connection is open.  *)
ShutdownClosesAll == At(Main, "done") => \A c \in DOMAIN conns : Ended(c)

(* While no connection was refused and no request cancelled it holds, also for *)
(* connections that broke or were lost, and for requests that gave up on theirs. *)
UndisturbedShutdownClosesAll ==
  {"refused", "cancelled"} \cap setup.faults = {} => ShutdownClosesAll
================================================================================

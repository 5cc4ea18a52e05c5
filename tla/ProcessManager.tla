----------------------------- MODULE ProcessManager -----------------------------
(***************************************************************************)
(* StdioProcessManager (transport/process_manager.py) over StdioTransport     *)
(* (transport/stdio.py): the transports are connected one after another, a    *)
(* health task restarts those that are not healthy, and the shutdown cancels  *)
(* that task and disconnects every transport.                                 *)
(*                                                                          *)
(* start_all and the health task never run together, and both connect one     *)
(* transport at a time: they are one worker that goes from one suspension     *)
(* point to the next.  A transport's background task, which owns the child    *)
(* process, is its owner.                                                     *)
(***************************************************************************)
EXTENDS Naturals, Sequences

CONSTANTS
  Servers,      (* the registered transports                                  *)
  Order,        (* in the order of their registration                         *)
  MaxRestarts,  (* ServerConfig.max_restarts                                  *)
  MaxCrashes,   (* bound: so many child processes die                         *)
  MaxStarts     (* bound: start_all is called so often                        *)

ASSUME ManagerAssumption ==
  /\ Order \in Seq(Servers) /\ \A s \in Servers : \E i \in 1..Len(Order) : Order[i] = s
  /\ MaxRestarts \in Nat /\ MaxCrashes \in Nat /\ MaxStarts \in Nat

VARIABLES
  phase,      (* of the program that uses the manager                         *)
  event,      (* _shutdown_event                                              *)
  role,       (* who the worker is: start_all or the health task, or nobody   *)
  pc,         (* where it is suspended                                        *)
  todo,       (* the transports it has still to look at, the present one first *)
  failures,   (* ProcessStatus, per server: consecutive_failures,             *)
  permanent,  (* permanently_failed, and                                      *)
  restarting, (* restart_in_progress                                          *)
  state,      (* TransportState                                               *)
  session,    (* _session is set                                              *)
  stop,       (* the stop event of the transport's owner                      *)
  owner,      (* the owner, with the child process it keeps                   *)
  dead,       (* the servers whose child process has died under its owner     *)
  orphans,    (* history: owners that were replaced while they were alive     *)
  abandoned,  (* history: a cancelled connect left its owner behind           *)
  crashes, starts

worker == <<role, pc, todo>>
status == <<failures, permanent, restarting>>
transport == <<state, session, stop, owner, dead, orphans>>
bounds == <<crashes, starts>>
vars == <<phase, event, worker, status, transport, abandoned, bounds>>
--------------------------------------------------------------------------------
Init ==
  /\ phase = "down" /\ event = FALSE
  /\ role = "nobody" /\ pc = "none" /\ todo = <<>>
  /\ failures = [s \in Servers |-> 0]
  /\ permanent = [s \in Servers |-> FALSE]
  /\ restarting = [s \in Servers |-> FALSE]
  /\ state = [s \in Servers |-> "DISCONNECTED"]
  /\ session = [s \in Servers |-> FALSE]
  /\ stop = [s \in Servers |-> FALSE]
  /\ owner = [s \in Servers |-> "none"]
  /\ dead = {} /\ orphans = [s \in Servers |-> 0]
  /\ abandoned = FALSE
  /\ crashes = 0 /\ starts = 0

Healthy(s) == state[s] = "CONNECTED" /\ session[s]

Present == Head(todo)

At(where) == pc' = where /\ UNCHANGED <<role, todo>>

(* Mutant: owners are awaited without being told to leave *)
SignalledNever(ss) == stop

(* The owners of these servers are told to leave *)
Signalled(ss) == [s \in Servers |-> stop[s] \/ s \in ss]

(* Mutant: the owner is told to leave, and not awaited *)
OwnerNotAwaited(s) == TRUE

(* _cleanup_bg_task is through when the owner has left *)
OwnerLeft(s) == owner[s] = "none"

(* connect(), from where no owner is left, to its wait for the new one *)
Spawn(s) ==
  /\ state' = [state EXCEPT ![s] = "CONNECTING"]
  /\ stop' = [stop EXCEPT ![s] = FALSE]
  /\ owner' = [owner EXCEPT ![s] = "connecting"]
  /\ orphans' = [orphans EXCEPT ![s] = IF owner[s] = "none" THEN @ ELSE @ + 1]
  /\ At("ready")
  /\ UNCHANGED <<session, dead>>

(* The worker is through with its present transport *)
NextServer == pc' = "next" /\ todo' = Tail(todo) /\ UNCHANGED role

(* connect() up to its first suspension *)
Connect(s) ==
  IF OwnerLeft(s) THEN Spawn(s)
  ELSE /\ stop' = Signalled({s}) /\ At("cleanup")
       /\ UNCHANGED <<state, session, owner, orphans, dead>>
--------------------------------------------------------------------------------
StartAll ==
  /\ phase = "down" /\ starts < MaxStarts
  /\ phase' = "starting" /\ starts' = starts + 1 /\ abandoned' = FALSE
  /\ role' = "start" /\ pc' = "next" /\ todo' = Order
  /\ UNCHANGED <<event, status, transport, crashes>>

(* A transport that needs nothing: start_all finds it connected, a check      *)
(* finds it healthy, given up, or being restarted                             *)
SkipServer ==
  /\ pc = "next" /\ todo # <<>>
  /\ \/ role = "start" /\ state[Present] = "CONNECTED"
     \/ role = "health" /\ (Healthy(Present) \/ permanent[Present] \/ restarting[Present])
  /\ NextServer
  /\ UNCHANGED <<phase, event, status, transport, abandoned, bounds>>

StartServer ==
  /\ role = "start" /\ pc = "next" /\ todo # <<>>
  /\ state[Present] # "CONNECTED"
  /\ Connect(Present)
  /\ UNCHANGED <<phase, event, status, abandoned, bounds>>

(* Mutant: one restart too many *)
ExhaustedLate(s) == failures[s] > MaxRestarts

Exhausted(s) == failures[s] >= MaxRestarts

(* _try_restart, up to its sleep *)
TryRestart ==
  /\ role = "health" /\ pc = "next" /\ todo # <<>>
  /\ ~Healthy(Present) /\ ~permanent[Present] /\ ~restarting[Present]
  /\ IF Exhausted(Present)
     THEN permanent' = [permanent EXCEPT ![Present] = TRUE] /\ NextServer /\ UNCHANGED restarting
     ELSE restarting' = [restarting EXCEPT ![Present] = TRUE] /\ At("backoff") /\ UNCHANGED permanent
  /\ UNCHANGED <<phase, event, failures, transport, abandoned, bounds>>

(* The sleep is over: reconnect() disconnects                                 *)
Reconnect ==
  /\ pc = "backoff"
  /\ IF state[Present] \in {"CONNECTED", "ERROR"}
     THEN /\ state' = [state EXCEPT ![Present] = "DISCONNECTING"]
          /\ stop' = Signalled({Present}) /\ At("disconnect")
          /\ UNCHANGED <<session, owner, orphans, dead>>
     ELSE Connect(Present)
  /\ UNCHANGED <<phase, event, status, abandoned, bounds>>

(* The old owner has left: the transport is connected anew                    *)
OldOwnerLeft ==
  /\ pc \in {"disconnect", "cleanup"} /\ OwnerLeft(Present)
  /\ Spawn(Present)
  /\ UNCHANGED <<phase, event, status, abandoned, bounds>>

(* ready is set: connect() returns, or awaits the owner that failed           *)
Ready ==
  /\ pc = "ready" /\ state[Present] # "CONNECTING"
  /\ IF state[Present] = "CONNECTED"
     THEN /\ IF role = "start" THEN UNCHANGED status
             ELSE /\ failures' = [failures EXCEPT ![Present] = 0]
                  /\ restarting' = [restarting EXCEPT ![Present] = FALSE]
                  /\ UNCHANGED permanent
          /\ NextServer /\ UNCHANGED transport
     ELSE /\ stop' = Signalled({Present}) /\ At("failed")
          /\ UNCHANGED <<status, state, session, owner, orphans, dead>>
  /\ UNCHANGED <<phase, event, abandoned, bounds>>

(* Mutant: only a restart that succeeds is over *)
RestartingAfterFailure(s) == restarting[s]

(* The finally of _try_restart *)
AfterFailedRestart(s) == FALSE

(* connect() raises *)
ConnectFails ==
  /\ pc = "failed" /\ OwnerLeft(Present)
  /\ failures' = [failures EXCEPT ![Present] = IF role = "start" THEN 1 ELSE @ + 1]
  /\ restarting' = [restarting EXCEPT ![Present] = IF role = "start" THEN @
                                                   ELSE AfterFailedRestart(Present)]
  /\ state' = [state EXCEPT ![Present] = "ERROR"]
  /\ NextServer
  /\ UNCHANGED <<phase, event, permanent, session, stop, owner, orphans, dead, abandoned, bounds>>

(* start_all returns with the health task running; a pass of the health task  *)
(* is followed by an interval, unless the shutdown is signalled               *)
PassEnds ==
  /\ pc = "next" /\ todo = <<>>
  /\ IF role = "start"
     THEN phase' = "running" /\ event' = FALSE /\ role' = "health" /\ pc' = "interval"
     ELSE /\ IF event THEN role' = "nobody" /\ pc' = "none" ELSE pc' = "interval" /\ UNCHANGED role
          /\ UNCHANGED <<phase, event>>
  /\ UNCHANGED <<todo, status, transport, abandoned, bounds>>

(* The wait for the shutdown event ends, by the event or by the interval      *)
IntervalEnds ==
  /\ pc = "interval"
  /\ IF event THEN role' = "nobody" /\ pc' = "none" /\ UNCHANGED todo
     ELSE pc' = "next" /\ todo' = Order /\ UNCHANGED role
  /\ UNCHANGED <<phase, event, status, transport, abandoned, bounds>>
--------------------------------------------------------------------------------
(* The owner of a transport *)
OwnerConnects(s) ==
  /\ owner[s] = "connecting"
  /\ owner' = [owner EXCEPT ![s] = "serving"]
  /\ state' = [state EXCEPT ![s] = "CONNECTED"] /\ session' = [session EXCEPT ![s] = TRUE]
  /\ UNCHANGED <<phase, event, worker, status, stop, orphans, dead, abandoned, bounds>>

OwnerFails(s) ==
  /\ owner[s] = "connecting"
  /\ owner' = [owner EXCEPT ![s] = "leaving"]
  /\ state' = [state EXCEPT ![s] = "ERROR"]
  /\ UNCHANGED <<phase, event, worker, status, session, stop, orphans, dead, abandoned, bounds>>

OwnerLeaves(s) ==
  /\ owner[s] = "serving" /\ stop[s]
  /\ owner' = [owner EXCEPT ![s] = "leaving"] /\ session' = [session EXCEPT ![s] = FALSE]
  /\ UNCHANGED <<phase, event, worker, status, state, stop, orphans, dead, abandoned, bounds>>

(* The child process dies.  Its owner waits for the stop event only, so that   *)
(* owner, state and session stay as they are, and the transport healthy.       *)
Crash(s) ==
  /\ owner[s] = "serving" /\ s \notin dead /\ crashes < MaxCrashes
  /\ crashes' = crashes + 1 /\ dead' = dead \cup {s}
  /\ UNCHANGED <<phase, event, worker, status, state, session, stop, owner, orphans, abandoned, starts>>

(* Somebody uses the session, what he writes to the dead process fails and     *)
(* cancels the owner: perhaps never                                           *)
Notices(s) ==
  /\ owner[s] = "serving" /\ s \in dead
  /\ owner' = [owner EXCEPT ![s] = "leaving"] /\ session' = [session EXCEPT ![s] = FALSE]
  /\ UNCHANGED <<phase, event, worker, status, state, stop, dead, orphans, abandoned, bounds>>

(* The child process is closed *)
OwnerEnds(s) ==
  /\ owner[s] = "leaving"
  /\ owner' = [owner EXCEPT ![s] = "none"] /\ dead' = dead \ {s}
  /\ UNCHANGED <<phase, event, worker, status, state, session, stop, orphans, abandoned, bounds>>
--------------------------------------------------------------------------------
(* SIGINT or SIGTERM *)
Signal ==
  /\ phase = "running" /\ ~event
  /\ event' = TRUE
  /\ UNCHANGED <<phase, worker, status, transport, abandoned, bounds>>

(* shutdown() sets the event and cancels the health task where it is          *)
(* suspended.  The sleep is outside the try block of _try_restart: the        *)
(* restart stays in progress.  A wait for a connection ends, its owner does   *)
(* not.  _cleanup_bg_task swallows the cancellation, which cancels the owner  *)
(* it awaits, and the worker goes on.                                         *)
Shutdown ==
  /\ phase = "running" /\ pc # "next"
  /\ phase' = "stopping" /\ event' = TRUE
  /\ IF pc \in {"cleanup", "disconnect", "failed"}
     THEN /\ owner' = [owner EXCEPT ![Present] = IF @ = "serving" THEN "leaving" ELSE @]
          /\ session' = [session EXCEPT ![Present] = FALSE]
          /\ UNCHANGED <<worker, status, abandoned>>
     ELSE /\ role' = "nobody" /\ pc' = "none" /\ todo' = <<>>
          /\ IF pc = "ready" THEN restarting' = [restarting EXCEPT ![Present] = FALSE]
                             ELSE UNCHANGED restarting
          /\ UNCHANGED <<failures, permanent>>
          /\ abandoned' = (pc = "ready" /\ state[Present] = "CONNECTING")
          /\ UNCHANGED <<owner, session>>
  /\ UNCHANGED <<state, stop, orphans, dead, bounds>>

(* Mutant: transports that have lost their session are left out *)
DisconnectableIfHealthy == {s \in Servers : Healthy(s)}

(* StdioTransport.disconnect does nothing in any other state *)
Disconnectable == {s \in Servers : state[s] \in {"CONNECTED", "ERROR"}}

(* The health task has ended: all transports are disconnected together        *)
DisconnectAll ==
  /\ phase = "stopping" /\ role = "nobody"
  /\ phase' = "disconnecting"
  /\ state' = [s \in Servers |-> IF s \in Disconnectable THEN "DISCONNECTING" ELSE state[s]]
  /\ stop' = Signalled(Disconnectable)
  /\ UNCHANGED <<event, worker, status, session, owner, orphans, dead, abandoned, bounds>>

Disconnected(s) ==
  /\ phase = "disconnecting" /\ state[s] = "DISCONNECTING" /\ OwnerLeft(s)
  /\ state' = [state EXCEPT ![s] = "DISCONNECTED"] /\ session' = [session EXCEPT ![s] = FALSE]
  /\ UNCHANGED <<phase, event, worker, status, stop, owner, orphans, dead, abandoned, bounds>>

ShutdownReturns ==
  /\ phase = "disconnecting" /\ \A s \in Servers : state[s] # "DISCONNECTING"
  /\ phase' = "down"
  /\ UNCHANGED <<event, worker, status, transport, abandoned, bounds>>

Work ==
  \/ SkipServer \/ StartServer \/ TryRestart \/ Reconnect \/ OldOwnerLeft \/ Ready
  \/ ConnectFails \/ PassEnds \/ IntervalEnds

OwnerStep(s) == OwnerConnects(s) \/ OwnerFails(s) \/ OwnerLeaves(s) \/ OwnerEnds(s)

Finish == DisconnectAll \/ ShutdownReturns \/ \E s \in Servers : Disconnected(s)

Next ==
  \/ StartAll \/ Signal \/ Shutdown \/ Work \/ Finish
  \/ \E s \in Servers : OwnerStep(s) \/ Crash(s) \/ Notices(s)

Spec == Init /\ [][Next]_vars

(* Timers expire and the event loop runs who may go on; an owner ends its     *)
(* handshake one way or the other, and a child process can be closed.  Nobody  *)
(* need ever notice that one has died.                                        *)
FairSpec ==
  Spec /\ WF_vars(Work) /\ WF_vars(Finish) /\ \A s \in Servers : WF_vars(OwnerStep(s))
--------------------------------------------------------------------------------
States == {"DISCONNECTED", "CONNECTING", "CONNECTED", "DISCONNECTING", "ERROR"}

WorkerTypeOK ==
  /\ phase \in {"down", "starting", "running", "stopping", "disconnecting"}
  /\ event \in BOOLEAN /\ abandoned \in BOOLEAN
  /\ role \in {"nobody", "start", "health"}
  /\ pc \in {"none", "next", "interval", "backoff", "disconnect", "cleanup", "ready", "failed"}
  /\ role = "nobody" <=> pc = "none"
  /\ pc \in {"backoff", "disconnect", "cleanup", "ready", "failed"} => todo # <<>>
  /\ todo \in Seq(Servers)
  /\ crashes \in 0..MaxCrashes /\ starts \in 0..MaxStarts

StatusTypeOK ==
  /\ failures \in [Servers -> Nat]
  /\ permanent \in [Servers -> BOOLEAN] /\ restarting \in [Servers -> BOOLEAN]

TransportTypeOK ==
  /\ state \in [Servers -> States]
  /\ session \in [Servers -> BOOLEAN] /\ stop \in [Servers -> BOOLEAN]
  /\ owner \in [Servers -> {"none", "connecting", "serving", "leaving"}]
  /\ orphans \in [Servers -> Nat] /\ dead \subseteq Servers
  /\ \A s \in Servers : session[s] => owner[s] = "serving"
  /\ \A s \in dead : owner[s] \in {"serving", "leaving"}

(* Every variable stays in its range; the worker has a role exactly while it  *)
(* has somewhere to go on from, no session outlives its owner, and no dead     *)
(* child process is kept without one.                                         *)
TypeOK == WorkerTypeOK /\ StatusTypeOK /\ TransportTypeOK

(* A server never has two child processes: a new one is spawned when the old  *)
(* one is closed, whatever was cancelled (disconnect and _cleanup_bg_task).   *)
OneProcessPerServer == \A s \in Servers : orphans[s] = 0

(* A server is not restarted any more after max_restarts failures in a row,   *)
(* the failed start counted in (_try_restart).                                *)
RestartsBounded ==
  \A s \in Servers : failures[s] <= IF MaxRestarts = 0 THEN 1 ELSE MaxRestarts

(* "ensures graceful cleanup on shutdown" (process_manager.py:35): a shutdown *)
(* leaves no child process behind, wherever it met the health task, unless it *)
(* cut a connect short.  In that case the transport stays CONNECTING, and     *)
(* disconnect() leaves it and its child process alone.                        *)
UndisturbedShutdownIsClean ==
  phase = "down" /\ ~abandoned => \A s \in Servers : owner[s] = "none"

(* The health task attends to every server in turn (_health_loop): while the   *)
(* manager runs, a transport that is_healthy() calls unhealthy, and that is not *)
(* already marked as restarting, becomes healthy again or is given up, however  *)
(* the others fail.  is_healthy() looks at the state and the session only: a    *)
(* child process that has died unnoticed is healthy, and nothing is said of it. *)
UnhealthyServerAttended ==
  \A s \in Servers :
    phase = "running" /\ ~Healthy(s) /\ ~restarting[s] ~>
      Healthy(s) \/ permanent[s] \/ phase # "running" \/ event

(* shutdown() returns, also when a restart swallowed the cancellation.        *)
ShutdownReturnsEventually == phase = "stopping" ~> phase = "down"
================================================================================

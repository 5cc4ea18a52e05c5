------------------------- MODULE ProcessManagerProofs --------------------------
(***************************************************************************)
(* Proofs about ProcessManager, for every number of servers, every limit of   *)
(* restarts, and any number of crashes and starts.                            *)
(***************************************************************************)
EXTENDS ProcessManager, TLAPS

(* Who the worker is follows from the phase, and a connect is cut short only  *)
(* by a shutdown.                                                             *)
Worker ==
  /\ phase = "starting" <=> role = "start"
  /\ phase \in {"down", "disconnecting"} => role = "nobody"
  /\ role = "start" => pc \in {"next", "cleanup", "ready", "failed"}
  /\ phase \in {"starting", "running"} => abandoned = FALSE

(* The worker has still to look at s *)
Ahead(s) == \E i \in 1..Len(todo) : todo[i] = s

(* Somebody ends what the transport of s is in the middle of *)
Attended(s) ==
  /\ state[s] = "DISCONNECTING" =>
       phase = "disconnecting" \/ (pc = "disconnect" /\ Present = s)
  /\ state[s] = "CONNECTING" =>
       \/ abandoned = TRUE
       \/ pc \in {"cleanup", "ready"} /\ Present = s
       \/ phase = "starting" /\ Ahead(s)

(* The state of a transport says what its owner is doing, and the states in   *)
(* between have somebody who ends them, unless a connect was cut short.       *)
Owners ==
  \A s \in Servers :
    /\ owner[s] = "connecting" <=> state[s] = "CONNECTING"
    /\ state[s] = "DISCONNECTED" => owner[s] = "none"
    /\ Attended(s)

(* While transports are disconnected, those with an owner await it, and       *)
(* afterwards there is none, unless a connect was cut short.                  *)
Disconnecting ==
  /\ phase = "disconnecting" /\ abandoned = FALSE =>
       \A s \in Servers : owner[s] # "none" => state[s] = "DISCONNECTING"
  /\ phase = "down" /\ abandoned = FALSE => \A s \in Servers : owner[s] = "none"

(* A restart is begun only below the limit.                                   *)
Restarts ==
  role = "health" /\ pc \in {"backoff", "disconnect", "cleanup", "ready", "failed"}
    => failures[Present] < MaxRestarts

IInv ==
  /\ TypeOK /\ Worker /\ Owners /\ Disconnecting
  /\ Restarts /\ RestartsBounded /\ OneProcessPerServer

(* The worker has a present server wherever it is in the middle of something. *)
LEMMA PresentIsServer ==
  ASSUME TypeOK, todo # <<>>
  PROVE  Present \in Servers /\ Tail(todo) \in Seq(Servers)
BY DEF TypeOK, WorkerTypeOK, Present

(* What is ahead and not the present server stays ahead.                      *)
LEMMA TailIsAhead ==
  ASSUME TypeOK, todo # <<>>, todo' = Tail(todo), NEW s \in Servers, Ahead(s), s # Present
  PROVE  Ahead(s)'
<1>1. PICK i \in 1..Len(todo) : todo[i] = s
  BY DEF Ahead
<1>2. todo \in Seq(Servers) /\ Len(todo) \in Nat
  BY DEF TypeOK, WorkerTypeOK
<1>3. i # 1
  BY <1>1, <1>2 DEF Present
<1>4. Len(Tail(todo)) = Len(todo) - 1 /\ i - 1 \in 1..Len(Tail(todo))
  BY <1>1, <1>2, <1>3
<1>5. Tail(todo)[i - 1] = todo[i]
  BY <1>2, <1>4
<1> QED
  BY <1>1, <1>4, <1>5 DEF Ahead

(* A child process is spawned where there is none.                            *)
LEMMA SpawnStep ==
  ASSUME TransportTypeOK, OneProcessPerServer, NEW s \in Servers, OwnerLeft(s), Spawn(s)
  PROVE  TransportTypeOK' /\ OneProcessPerServer'
<1>1. orphans' = orphans
  BY DEF TransportTypeOK, OwnerLeft, Spawn
<1>2. owner[s] = "none" /\ session[s] = FALSE
  BY DEF TransportTypeOK, OwnerLeft
<1>3. TransportTypeOK'
  BY <1>1, <1>2 DEF TransportTypeOK, States, Spawn
<1> QED
  BY <1>1, <1>3 DEF OneProcessPerServer

(* connect() spawns a child process, or tells the owner of the old one to     *)
(* leave.                                                                     *)
LEMMA ConnectStep ==
  ASSUME TransportTypeOK, OneProcessPerServer, NEW s \in Servers, Connect(s)
  PROVE  /\ TransportTypeOK' /\ OneProcessPerServer'
         /\ role' = role /\ todo' = todo
         /\ \/ /\ owner[s] = "none" /\ pc' = "ready"
               /\ state' = [state EXCEPT ![s] = "CONNECTING"]
               /\ owner' = [owner EXCEPT ![s] = "connecting"]
            \/ owner[s] # "none" /\ pc' = "cleanup" /\ state' = state /\ owner' = owner
<1>1. CASE OwnerLeft(s)
  <2>1. Spawn(s)
    BY <1>1 DEF Connect
  <2> QED
    BY <1>1, <2>1, SpawnStep DEF Spawn, OwnerLeft, At
<1>2. CASE ~OwnerLeft(s)
  <2>1. /\ stop' = Signalled({s}) /\ pc' = "cleanup" /\ role' = role /\ todo' = todo
        /\ UNCHANGED <<state, session, owner, orphans, dead>>
    BY <1>2 DEF Connect, At
  <2>2. stop' \in [Servers -> BOOLEAN]
    BY <2>1 DEF Signalled, TransportTypeOK
  <2> QED
    BY <1>2, <2>1, <2>2 DEF TransportTypeOK, OneProcessPerServer, OwnerLeft
<1> QED
  BY <1>1, <1>2
--------------------------------------------------------------------------------
(* The invariant holds at the start.                                          *)
LEMMA InitInv == Init => IInv
<1> SUFFICES ASSUME Init PROVE IInv
  OBVIOUS
<1>1. WorkerTypeOK
  <2>1. todo \in Seq(Servers) /\ starts \in 0..MaxStarts /\ crashes \in 0..MaxCrashes
    BY ManagerAssumption DEF Init
  <2> QED
    BY <2>1 DEF Init, WorkerTypeOK
<1>2. StatusTypeOK /\ TransportTypeOK
  BY DEF Init, StatusTypeOK, TransportTypeOK, States
<1>3. Worker /\ Owners /\ Disconnecting /\ Restarts
  BY DEF Init, Worker, Owners, Attended, Disconnecting, Restarts
<1>4. RestartsBounded /\ OneProcessPerServer
  BY ManagerAssumption DEF Init, RestartsBounded, OneProcessPerServer
<1> QED
  BY <1>1, <1>2, <1>3, <1>4 DEF IInv, TypeOK

(* What no step of the owners, of signals or of the waits changes             *)
LEMMA StatusUnchanged ==
  ASSUME IInv, UNCHANGED <<status, role, pc, todo>>
  PROVE  StatusTypeOK' /\ Restarts' /\ RestartsBounded'
BY DEF IInv, TypeOK, StatusTypeOK, Restarts, RestartsBounded, status, Present

(* One lemma per action: it preserves the invariant.                          *)
LEMMA StartAllStep == ASSUME IInv, StartAll PROVE IInv'
<1>1. WorkerTypeOK'
  <2>1. todo' \in Seq(Servers)
    BY ManagerAssumption DEF StartAll
  <2>2. starts' \in 0..MaxStarts /\ crashes' \in 0..MaxCrashes
    BY ManagerAssumption DEF StartAll, IInv, TypeOK, WorkerTypeOK
  <2> QED
    BY <2>1, <2>2 DEF StartAll, IInv, TypeOK, WorkerTypeOK
<1>2. StatusTypeOK' /\ TransportTypeOK'
  BY DEF StartAll, status, transport, IInv, TypeOK, StatusTypeOK, TransportTypeOK
<1>3. Worker' /\ Disconnecting' /\ Restarts'
  BY DEF StartAll, Worker, Disconnecting, Restarts
<1>4. Owners'
  <2> SUFFICES ASSUME NEW s \in Servers
               PROVE  /\ owner'[s] = "connecting" <=> state'[s] = "CONNECTING"
                      /\ state'[s] = "DISCONNECTED" => owner'[s] = "none"
                      /\ Attended(s)'
    BY DEF Owners
  <2>1. Ahead(s)'
    BY ManagerAssumption DEF StartAll, Ahead
  <2>2. state[s] # "DISCONNECTING"
    BY DEF StartAll, IInv, TypeOK, WorkerTypeOK, Worker, Owners, Attended
  <2> QED
    BY <2>1, <2>2 DEF StartAll, transport, IInv, Owners, Attended
<1>5. RestartsBounded' /\ OneProcessPerServer'
  BY DEF StartAll, status, transport, IInv, RestartsBounded, OneProcessPerServer
<1> QED
  BY <1>1, <1>2, <1>3, <1>4, <1>5 DEF IInv, TypeOK

LEMMA OwnerConnectsStep == ASSUME IInv, NEW s \in Servers, OwnerConnects(s) PROVE IInv'
<1>1. WorkerTypeOK' /\ Worker'
  BY DEF OwnerConnects, IInv, TypeOK, WorkerTypeOK, Worker, worker, bounds
<1>2. StatusTypeOK' /\ Restarts' /\ RestartsBounded'
  BY StatusUnchanged DEF OwnerConnects, worker
<1>3. TransportTypeOK' /\ OneProcessPerServer'
  BY DEF OwnerConnects, transport, IInv, TypeOK, TransportTypeOK, States, OneProcessPerServer
<1>4. Owners'
  BY DEF OwnerConnects, transport, worker, Present, IInv, TypeOK, TransportTypeOK, Owners, Attended, Ahead
<1>5. Disconnecting'
  BY DEF OwnerConnects, IInv, TypeOK, TransportTypeOK, Owners, Disconnecting
<1> QED
  BY <1>1, <1>2, <1>3, <1>4, <1>5 DEF IInv, TypeOK

LEMMA OwnerFailsStep == ASSUME IInv, NEW s \in Servers, OwnerFails(s) PROVE IInv'
<1>1. WorkerTypeOK' /\ Worker'
  BY DEF OwnerFails, IInv, TypeOK, WorkerTypeOK, Worker, worker, bounds
<1>2. StatusTypeOK' /\ Restarts' /\ RestartsBounded'
  BY StatusUnchanged DEF OwnerFails, worker
<1>3. TransportTypeOK' /\ OneProcessPerServer'
  BY DEF OwnerFails, transport, IInv, TypeOK, TransportTypeOK, States, OneProcessPerServer
<1>4. Owners'
  BY DEF OwnerFails, transport, worker, Present, IInv, TypeOK, TransportTypeOK, Owners, Attended, Ahead
<1>5. Disconnecting'
  BY DEF OwnerFails, IInv, TypeOK, TransportTypeOK, Owners, Disconnecting
<1> QED
  BY <1>1, <1>2, <1>3, <1>4, <1>5 DEF IInv, TypeOK

LEMMA OwnerLeavesStep == ASSUME IInv, NEW s \in Servers, OwnerLeaves(s) PROVE IInv'
<1>1. WorkerTypeOK' /\ Worker'
  BY DEF OwnerLeaves, IInv, TypeOK, WorkerTypeOK, Worker, worker, bounds
<1>2. StatusTypeOK' /\ Restarts' /\ RestartsBounded'
  BY StatusUnchanged DEF OwnerLeaves, worker
<1>3. TransportTypeOK' /\ OneProcessPerServer'
  BY DEF OwnerLeaves, transport, IInv, TypeOK, TransportTypeOK, States, OneProcessPerServer
<1>4. Owners'
  BY DEF OwnerLeaves, transport, worker, Present, IInv, TypeOK, TransportTypeOK, Owners, Attended, Ahead
<1>5. Disconnecting'
  BY DEF OwnerLeaves, transport, IInv, TypeOK, TransportTypeOK, Worker, Disconnecting
<1> QED
  BY <1>1, <1>2, <1>3, <1>4, <1>5 DEF IInv, TypeOK

LEMMA CrashStep == ASSUME IInv, NEW s \in Servers, Crash(s) PROVE IInv'
<1>1. WorkerTypeOK' /\ Worker'
  BY ManagerAssumption DEF Crash, IInv, TypeOK, WorkerTypeOK, Worker, worker, bounds
<1>2. StatusTypeOK' /\ Restarts' /\ RestartsBounded'
  BY StatusUnchanged DEF Crash, worker
<1>3. TransportTypeOK' /\ OneProcessPerServer'
  BY DEF Crash, transport, IInv, TypeOK, TransportTypeOK, States, OneProcessPerServer
<1>4. Owners'
  BY DEF Crash, transport, worker, Present, IInv, TypeOK, TransportTypeOK, Owners, Attended, Ahead
<1>5. Disconnecting'
  BY DEF Crash, transport, IInv, TypeOK, TransportTypeOK, Worker, Disconnecting
<1> QED
  BY <1>1, <1>2, <1>3, <1>4, <1>5 DEF IInv, TypeOK

LEMMA NoticesStep == ASSUME IInv, NEW s \in Servers, Notices(s) PROVE IInv'
<1>1. WorkerTypeOK' /\ Worker'
  BY DEF Notices, IInv, TypeOK, WorkerTypeOK, Worker, worker, bounds
<1>2. StatusTypeOK' /\ Restarts' /\ RestartsBounded'
  BY StatusUnchanged DEF Notices, worker
<1>3. TransportTypeOK' /\ OneProcessPerServer'
  BY DEF Notices, transport, IInv, TypeOK, TransportTypeOK, States, OneProcessPerServer
<1>4. Owners'
  BY DEF Notices, transport, worker, Present, IInv, TypeOK, TransportTypeOK, Owners, Attended, Ahead
<1>5. Disconnecting'
  BY DEF Notices, transport, IInv, TypeOK, TransportTypeOK, Worker, Disconnecting
<1> QED
  BY <1>1, <1>2, <1>3, <1>4, <1>5 DEF IInv, TypeOK

LEMMA OwnerEndsStep == ASSUME IInv, NEW s \in Servers, OwnerEnds(s) PROVE IInv'
<1>1. WorkerTypeOK' /\ Worker'
  BY DEF OwnerEnds, IInv, TypeOK, WorkerTypeOK, Worker, worker, bounds
<1>2. StatusTypeOK' /\ Restarts' /\ RestartsBounded'
  BY StatusUnchanged DEF OwnerEnds, worker
<1>3. TransportTypeOK' /\ OneProcessPerServer'
  BY DEF OwnerEnds, transport, IInv, TypeOK, TransportTypeOK, States, OneProcessPerServer
<1>4. Owners'
  BY DEF OwnerEnds, transport, worker, Present, IInv, TypeOK, TransportTypeOK, Owners, Attended, Ahead
<1>5. Disconnecting'
  BY DEF OwnerEnds, transport, IInv, TypeOK, TransportTypeOK, Worker, Disconnecting
<1> QED
  BY <1>1, <1>2, <1>3, <1>4, <1>5 DEF IInv, TypeOK

LEMMA SignalStep == ASSUME IInv, Signal PROVE IInv'
<1>1. WorkerTypeOK' /\ Worker'
  BY DEF Signal, IInv, TypeOK, WorkerTypeOK, Worker, worker, bounds
<1>2. StatusTypeOK' /\ Restarts' /\ RestartsBounded'
  BY StatusUnchanged DEF Signal, worker
<1>3. TransportTypeOK' /\ OneProcessPerServer'
  BY DEF Signal, transport, IInv, TypeOK, TransportTypeOK, States, OneProcessPerServer
<1>4. Owners'
  BY DEF Signal, transport, worker, Present, IInv, TypeOK, TransportTypeOK, Owners, Attended, Ahead
<1>5. Disconnecting'
  BY DEF Signal, transport, IInv, TypeOK, TransportTypeOK, Worker, Disconnecting
<1> QED
  BY <1>1, <1>2, <1>3, <1>4, <1>5 DEF IInv, TypeOK

LEMMA DisconnectedStep == ASSUME IInv, NEW s \in Servers, Disconnected(s) PROVE IInv'
<1>1. WorkerTypeOK' /\ Worker'
  BY DEF Disconnected, OwnerLeft, IInv, TypeOK, WorkerTypeOK, Worker, worker, bounds
<1>2. StatusTypeOK' /\ Restarts' /\ RestartsBounded'
  BY StatusUnchanged DEF Disconnected, OwnerLeft, worker
<1>3. TransportTypeOK' /\ OneProcessPerServer'
  BY DEF Disconnected, OwnerLeft, transport, IInv, TypeOK, TransportTypeOK, States, OneProcessPerServer
<1>4. Owners'
  BY DEF Disconnected, OwnerLeft, transport, worker, Present, IInv, TypeOK, TransportTypeOK, Owners, Attended, Ahead
<1>5. Disconnecting'
  BY DEF Disconnected, OwnerLeft, transport, IInv, TypeOK, TransportTypeOK, Worker, Disconnecting
<1> QED
  BY <1>1, <1>2, <1>3, <1>4, <1>5 DEF IInv, TypeOK

LEMMA ShutdownReturnsStep == ASSUME IInv, ShutdownReturns PROVE IInv'
<1>1. WorkerTypeOK' /\ Worker'
  BY DEF ShutdownReturns, IInv, TypeOK, WorkerTypeOK, Worker, worker, bounds
<1>2. StatusTypeOK' /\ Restarts' /\ RestartsBounded'
  BY StatusUnchanged DEF ShutdownReturns, worker
<1>3. TransportTypeOK' /\ OneProcessPerServer'
  BY DEF ShutdownReturns, transport, IInv, TypeOK, TransportTypeOK, States, OneProcessPerServer
<1>4. Owners'
  BY DEF ShutdownReturns, transport, worker, Present, IInv, TypeOK, TransportTypeOK, Owners, Attended, Ahead
<1>5. Disconnecting'
  BY DEF ShutdownReturns, transport, IInv, TypeOK, TransportTypeOK, Worker, Disconnecting
<1> QED
  BY <1>1, <1>2, <1>3, <1>4, <1>5 DEF IInv, TypeOK

LEMMA PassEndsStep == ASSUME IInv, PassEnds PROVE IInv'
<1>1. WorkerTypeOK' /\ Worker'
  BY DEF PassEnds, IInv, TypeOK, WorkerTypeOK, Worker, worker, bounds
<1>2. StatusTypeOK' /\ Restarts' /\ RestartsBounded'
  BY DEF PassEnds, status, IInv, TypeOK, StatusTypeOK, Restarts, RestartsBounded
<1>3. TransportTypeOK' /\ OneProcessPerServer'
  BY DEF PassEnds, transport, IInv, TypeOK, TransportTypeOK, States, OneProcessPerServer
<1>4. Owners'
  <2>1. \A s \in Servers : ~Ahead(s)
    BY DEF PassEnds, Ahead
  <2> QED
    BY <2>1 DEF PassEnds, transport, IInv, TypeOK, WorkerTypeOK, Worker, Owners, Attended
<1>5. Disconnecting'
  BY DEF PassEnds, transport, IInv, TypeOK, TransportTypeOK, Worker, Disconnecting
<1> QED
  BY <1>1, <1>2, <1>3, <1>4, <1>5 DEF IInv, TypeOK

LEMMA IntervalEndsStep == ASSUME IInv, IntervalEnds PROVE IInv'
<1>1. WorkerTypeOK' /\ Worker'
  <2>1. todo' \in Seq(Servers)
    BY ManagerAssumption DEF IntervalEnds, IInv, TypeOK, WorkerTypeOK
  <2> QED
    BY <2>1 DEF IntervalEnds, IInv, TypeOK, WorkerTypeOK, Worker, bounds
<1>2. StatusTypeOK' /\ Restarts' /\ RestartsBounded'
  BY DEF IntervalEnds, status, IInv, TypeOK, StatusTypeOK, Restarts, RestartsBounded
<1>3. TransportTypeOK' /\ OneProcessPerServer'
  BY DEF IntervalEnds, transport, IInv, TypeOK, TransportTypeOK, States, OneProcessPerServer
<1>4. Owners'
  BY DEF IntervalEnds, transport, IInv, TypeOK, WorkerTypeOK, Worker, Owners, Attended
<1>5. Disconnecting'
  BY DEF IntervalEnds, transport, IInv, TypeOK, TransportTypeOK, Worker, Disconnecting
<1> QED
  BY <1>1, <1>2, <1>3, <1>4, <1>5 DEF IInv, TypeOK

LEMMA DisconnectAllStep == ASSUME IInv, DisconnectAll PROVE IInv'
<1>1. WorkerTypeOK' /\ Worker'
  BY DEF DisconnectAll, Disconnectable, Signalled, IInv, TypeOK, WorkerTypeOK, Worker, worker, bounds
<1>2. StatusTypeOK' /\ Restarts' /\ RestartsBounded'
  BY StatusUnchanged DEF DisconnectAll, Disconnectable, Signalled, worker
<1>3. TransportTypeOK' /\ OneProcessPerServer'
  BY DEF DisconnectAll, Disconnectable, Signalled, transport, IInv, TypeOK, TransportTypeOK, States, OneProcessPerServer
<1>4. Owners'
  BY DEF DisconnectAll, Disconnectable, Signalled, transport, worker, Present, IInv, TypeOK, TransportTypeOK, Owners, Attended, Ahead
<1>5. Disconnecting'
  BY DEF DisconnectAll, Disconnectable, worker, IInv, TypeOK, WorkerTypeOK, TransportTypeOK, States, Owners, Attended, Disconnecting
<1> QED
  BY <1>1, <1>2, <1>3, <1>4, <1>5 DEF IInv, TypeOK

(* The worker is through with a transport that it does not leave CONNECTING.  *)
LEMMA NextServerOwners ==
  ASSUME IInv, todo # <<>>, NextServer, pc \in {"next", "ready", "failed"},
         UNCHANGED <<phase, abandoned, owner>>,
         pc = "ready" \/ phase = "starting" => state'[Present] # "CONNECTING",
         \/ state' = state
         \/ owner[Present] = "none" /\ state' = [state EXCEPT ![Present] = "ERROR"]
  PROVE  Owners'
<1> SUFFICES ASSUME NEW s \in Servers
             PROVE  /\ owner'[s] = "connecting" <=> state'[s] = "CONNECTING"
                    /\ state'[s] = "DISCONNECTED" => owner'[s] = "none"
                    /\ Attended(s)'
  BY DEF Owners
<1>1. Present \in Servers /\ pc' = "next" /\ todo' = Tail(todo)
  BY PresentIsServer DEF NextServer, IInv
<1>2. CASE s = Present
  BY <1>1, <1>2 DEF IInv, TypeOK, TransportTypeOK, Owners, Attended
<1>3. CASE s # Present
  <2>1. state'[s] = state[s]
    BY <1>3 DEF IInv, TypeOK, TransportTypeOK
  <2>2. Ahead(s) => Ahead(s)'
    BY <1>1, <1>3, TailIsAhead DEF IInv
  <2> QED
    BY <1>1, <1>3, <2>1, <2>2 DEF IInv, Owners, Attended
<1> QED
  BY <1>2, <1>3

LEMMA SkipServerStep == ASSUME IInv, SkipServer PROVE IInv'
<1>0. todo # <<>> /\ Present \in Servers /\ Tail(todo) \in Seq(Servers)
  BY PresentIsServer DEF SkipServer, IInv
<1>1. WorkerTypeOK' /\ Worker'
  BY <1>0 DEF SkipServer, NextServer, bounds, IInv, TypeOK, WorkerTypeOK, Worker
<1>2. StatusTypeOK' /\ Restarts' /\ RestartsBounded'
  BY DEF SkipServer, NextServer, status, IInv, TypeOK, StatusTypeOK, Restarts, RestartsBounded
<1>3. TransportTypeOK' /\ OneProcessPerServer'
  BY DEF SkipServer, transport, IInv, TypeOK, TransportTypeOK, OneProcessPerServer
<1>4. Owners'
  <2>1. phase = "starting" => state[Present] # "CONNECTING"
    BY DEF SkipServer, IInv, Worker
  <2> QED
    BY <1>0, <2>1, NextServerOwners DEF SkipServer, transport
<1>5. Disconnecting'
  BY DEF SkipServer, transport, IInv, Disconnecting
<1> QED
  BY <1>1, <1>2, <1>3, <1>4, <1>5 DEF IInv, TypeOK

(* The step that connects the present transport, from where the worker looks  *)
(* at it, sleeps, or awaits the old owner.                                    *)
LEMMA ConnectingStep ==
  ASSUME IInv, todo # <<>>, pc \in {"next", "backoff", "disconnect", "cleanup"},
         UNCHANGED <<phase, event, status, abandoned, bounds, role, todo>>,
         pc' \in {"ready", "cleanup", "disconnect"},
         role = "start" => pc' # "disconnect",
         role = "health" => failures[Present] < MaxRestarts,
         role # "nobody"
  PROVE  WorkerTypeOK' /\ Worker' /\ StatusTypeOK' /\ Restarts' /\ RestartsBounded'
<1>1. WorkerTypeOK' /\ Worker'
  BY DEF bounds, IInv, TypeOK, WorkerTypeOK, Worker
<1>2. Present' = Present
  BY DEF Present
<1> QED
  BY <1>1, <1>2 DEF status, IInv, TypeOK, StatusTypeOK, Restarts, RestartsBounded

(* A connect from a place where the present transport is not disconnected.    *)
LEMMA ConnectOwners ==
  ASSUME IInv, todo # <<>>, role # "nobody",
         pc \in {"next", "backoff", "disconnect", "cleanup"},
         pc \in {"next", "backoff"} => state[Present] # "DISCONNECTING",
         UNCHANGED <<phase, abandoned, role, todo>>,
         \/ /\ owner[Present] = "none" /\ pc' = "ready"
            /\ state' = [state EXCEPT ![Present] = "CONNECTING"]
            /\ owner' = [owner EXCEPT ![Present] = "connecting"]
         \/ /\ pc \in {"next", "backoff"} /\ owner[Present] # "none" /\ pc' = "cleanup"
            /\ state' = state /\ owner' = owner
  PROVE  Owners' /\ Disconnecting'
<1>1. Present \in Servers /\ Present' = Present
  BY PresentIsServer DEF IInv, Present
<1>2. phase \notin {"down", "disconnecting"}
  BY DEF IInv, Worker
<1>3. Owners'
  <2> SUFFICES ASSUME NEW s \in Servers
               PROVE  /\ owner'[s] = "connecting" <=> state'[s] = "CONNECTING"
                      /\ state'[s] = "DISCONNECTED" => owner'[s] = "none"
                      /\ Attended(s)'
    BY DEF Owners
  <2>1. Ahead(s) => Ahead(s)'
    BY DEF Ahead
  <2>2. CASE s = Present
    BY <1>1, <1>2, <2>1, <2>2 DEF IInv, TypeOK, TransportTypeOK, States, Owners, Attended
  <2>3. CASE s # Present
    BY <1>1, <1>2, <2>1, <2>3 DEF IInv, TypeOK, TransportTypeOK, States, Owners, Attended
  <2> QED
    BY <2>2, <2>3
<1>4. Disconnecting'
  BY <1>2 DEF Disconnecting
<1> QED
  BY <1>3, <1>4

(* Only what is awaited is being disconnected.                                *)
LEMMA NotDisconnecting ==
  ASSUME IInv, todo # <<>>, role # "nobody", pc # "disconnect"
  PROVE  state[Present] # "DISCONNECTING"
BY PresentIsServer DEF IInv, Worker, Owners, Attended

LEMMA StartServerStep == ASSUME IInv, StartServer PROVE IInv'
<1>0. todo # <<>> /\ Present \in Servers
  BY PresentIsServer DEF StartServer, IInv
<1>1. /\ TransportTypeOK' /\ OneProcessPerServer'
      /\ role' = role /\ todo' = todo
      /\ \/ /\ owner[Present] = "none" /\ pc' = "ready"
            /\ state' = [state EXCEPT ![Present] = "CONNECTING"]
            /\ owner' = [owner EXCEPT ![Present] = "connecting"]
         \/ owner[Present] # "none" /\ pc' = "cleanup" /\ state' = state /\ owner' = owner
  BY <1>0, ConnectStep DEF StartServer, IInv, TypeOK
<1>2. WorkerTypeOK' /\ Worker' /\ StatusTypeOK' /\ Restarts' /\ RestartsBounded'
  BY <1>0, <1>1, ConnectingStep DEF StartServer
<1>3. Owners' /\ Disconnecting'
  BY <1>0, <1>1, NotDisconnecting, ConnectOwners DEF StartServer
<1> QED
  BY <1>1, <1>2, <1>3 DEF IInv, TypeOK

LEMMA TryRestartStep == ASSUME IInv, TryRestart PROVE IInv'
<1>0. todo # <<>> /\ Present \in Servers /\ Tail(todo) \in Seq(Servers)
  BY PresentIsServer DEF TryRestart, IInv
<1>1. WorkerTypeOK' /\ Worker'
  BY <1>0 DEF TryRestart, NextServer, At, bounds, IInv, TypeOK, WorkerTypeOK, Worker
<1>2. StatusTypeOK' /\ RestartsBounded'
  BY <1>0 DEF TryRestart, IInv, TypeOK, StatusTypeOK, RestartsBounded
<1>3. Restarts'
  <2>1. CASE Exhausted(Present)
    BY <2>1 DEF TryRestart, NextServer, Restarts
  <2>2. CASE ~Exhausted(Present)
    <3>1. Present' = Present /\ failures' = failures
      BY <2>2 DEF TryRestart, At, Present
    <3>2. failures[Present] \in Nat /\ MaxRestarts \in Nat
      BY <1>0, ManagerAssumption DEF IInv, TypeOK, StatusTypeOK
    <3> QED
      BY <2>2, <3>1, <3>2 DEF Exhausted, Restarts
  <2> QED
    BY <2>1, <2>2
<1>4. TransportTypeOK' /\ OneProcessPerServer'
  BY DEF TryRestart, transport, IInv, TypeOK, TransportTypeOK, OneProcessPerServer
<1>5. Owners' /\ Disconnecting'
  <2>1. phase' = phase /\ abandoned' = abandoned /\ state' = state /\ owner' = owner
        /\ pc = "next" /\ phase \notin {"starting", "down", "disconnecting"}
    BY DEF TryRestart, transport, IInv, Worker
  <2> QED
    BY <2>1 DEF IInv, Owners, Attended, Disconnecting
<1> QED
  BY <1>1, <1>2, <1>3, <1>4, <1>5 DEF IInv, TypeOK

LEMMA ReconnectStep == ASSUME IInv, Reconnect PROVE IInv'
<1>0. todo # <<>> /\ Present \in Servers /\ role = "health"
  BY PresentIsServer DEF Reconnect, IInv, TypeOK, WorkerTypeOK, Worker
<1>1. CASE state[Present] \in {"CONNECTED", "ERROR"}
  <2>1. /\ state' = [state EXCEPT ![Present] = "DISCONNECTING"]
        /\ stop' = Signalled({Present}) /\ pc' = "disconnect" /\ pc = "backoff"
        /\ UNCHANGED <<session, owner, orphans, dead, role, todo, phase, event, status, abandoned, bounds>>
    BY <1>1 DEF Reconnect, At
  <2>2. stop' \in [Servers -> BOOLEAN]
    BY <2>1 DEF Signalled, IInv, TypeOK, TransportTypeOK
  <2>3. TransportTypeOK' /\ OneProcessPerServer'
    BY <1>0, <2>1, <2>2 DEF IInv, TypeOK, TransportTypeOK, States, OneProcessPerServer
  <2>4. WorkerTypeOK' /\ Worker' /\ StatusTypeOK' /\ Restarts' /\ RestartsBounded'
    BY <1>0, <2>1, ConnectingStep DEF IInv, Restarts
  <2>5. Present' = Present /\ phase \notin {"down", "starting", "disconnecting"}
    BY <1>0, <2>1 DEF Present, IInv, Worker
  <2>6. Owners' /\ Disconnecting'
    BY <1>0, <1>1, <2>1, <2>5 DEF IInv, TypeOK, TransportTypeOK, Owners, Attended, Disconnecting
  <2> QED
    BY <2>3, <2>4, <2>6 DEF IInv, TypeOK
<1>2. CASE state[Present] \notin {"CONNECTED", "ERROR"}
  <2>1. /\ TransportTypeOK' /\ OneProcessPerServer'
        /\ role' = role /\ todo' = todo
        /\ \/ /\ owner[Present] = "none" /\ pc' = "ready"
              /\ state' = [state EXCEPT ![Present] = "CONNECTING"]
              /\ owner' = [owner EXCEPT ![Present] = "connecting"]
           \/ owner[Present] # "none" /\ pc' = "cleanup" /\ state' = state /\ owner' = owner
    BY <1>0, <1>2, ConnectStep DEF Reconnect, IInv, TypeOK
  <2>2. WorkerTypeOK' /\ Worker' /\ StatusTypeOK' /\ Restarts' /\ RestartsBounded'
    BY <1>0, <2>1, ConnectingStep DEF Reconnect, IInv, Restarts
  <2>3. Owners' /\ Disconnecting'
    BY <1>0, <2>1, NotDisconnecting, ConnectOwners DEF Reconnect
  <2> QED
    BY <2>1, <2>2, <2>3 DEF IInv, TypeOK
<1> QED
  BY <1>1, <1>2

LEMMA OldOwnerLeftStep == ASSUME IInv, OldOwnerLeft PROVE IInv'
<1>0. todo # <<>> /\ Present \in Servers /\ role # "nobody"
  BY PresentIsServer DEF OldOwnerLeft, IInv, TypeOK, WorkerTypeOK
<1>1. TransportTypeOK' /\ OneProcessPerServer'
  BY <1>0, SpawnStep DEF OldOwnerLeft, IInv, TypeOK
<1>2. /\ owner[Present] = "none" /\ pc' = "ready" /\ role' = role /\ todo' = todo
      /\ state' = [state EXCEPT ![Present] = "CONNECTING"]
      /\ owner' = [owner EXCEPT ![Present] = "connecting"]
  BY DEF OldOwnerLeft, OwnerLeft, Spawn, At
<1>3. WorkerTypeOK' /\ Worker' /\ StatusTypeOK' /\ Restarts' /\ RestartsBounded'
  BY <1>0, <1>2, ConnectingStep DEF OldOwnerLeft, IInv, Restarts
<1>4. Owners' /\ Disconnecting'
  BY <1>0, <1>2, ConnectOwners DEF OldOwnerLeft
<1> QED
  BY <1>1, <1>3, <1>4 DEF IInv, TypeOK

LEMMA ReadyStep == ASSUME IInv, Ready PROVE IInv'
<1>0. /\ todo # <<>> /\ Present \in Servers /\ Tail(todo) \in Seq(Servers)
      /\ role # "nobody" /\ pc = "ready" /\ phase \notin {"down", "disconnecting"}
  BY PresentIsServer DEF Ready, IInv, TypeOK, WorkerTypeOK, Worker
<1>1. CASE state[Present] = "CONNECTED"
  <2>1. NextServer /\ UNCHANGED transport /\ UNCHANGED <<phase, event, abandoned, bounds>>
    BY <1>1 DEF Ready
  <2>2. WorkerTypeOK' /\ Worker'
    BY <1>0, <2>1 DEF NextServer, bounds, IInv, TypeOK, WorkerTypeOK, Worker
  <2>3. StatusTypeOK' /\ RestartsBounded'
    <3>1. MaxRestarts \in Nat
      BY ManagerAssumption
    <3>2. CASE role = "start"
      BY <1>1, <3>2 DEF Ready, status, IInv, TypeOK, StatusTypeOK, RestartsBounded
    <3>3. CASE role # "start"
      <4>1. /\ failures' = [failures EXCEPT ![Present] = 0]
            /\ restarting' = [restarting EXCEPT ![Present] = FALSE]
            /\ permanent' = permanent
        BY <1>1, <3>3 DEF Ready
      <4>2. StatusTypeOK'
        BY <4>1 DEF IInv, TypeOK, StatusTypeOK
      <4>3. RestartsBounded'
        BY <1>0, <3>1, <4>1 DEF IInv, TypeOK, StatusTypeOK, RestartsBounded
      <4> QED
        BY <4>2, <4>3
    <3> QED
      BY <3>2, <3>3
  <2>4. Restarts'
    BY <2>1 DEF NextServer, Restarts
  <2>5. TransportTypeOK' /\ OneProcessPerServer'
    BY <2>1 DEF transport, IInv, TypeOK, TransportTypeOK, OneProcessPerServer
  <2>6. Owners'
    BY <1>0, <1>1, <2>1, NextServerOwners DEF transport
  <2>7. Disconnecting'
    BY <1>0, <2>1 DEF Disconnecting
  <2> QED
    BY <2>2, <2>3, <2>4, <2>5, <2>6, <2>7 DEF IInv, TypeOK
<1>2. CASE state[Present] # "CONNECTED"
  <2>1. /\ stop' = Signalled({Present}) /\ pc' = "failed" /\ Present' = Present
        /\ UNCHANGED <<role, todo, status, state, session, owner, orphans, dead>>
        /\ UNCHANGED <<phase, event, abandoned, bounds>>
    BY <1>2 DEF Ready, At, Present
  <2>2. WorkerTypeOK' /\ Worker'
    BY <1>0, <2>1 DEF bounds, IInv, TypeOK, WorkerTypeOK, Worker
  <2>3. StatusTypeOK' /\ Restarts' /\ RestartsBounded'
    BY <1>0, <2>1 DEF status, IInv, TypeOK, StatusTypeOK, Restarts, RestartsBounded
  <2>4. stop' \in [Servers -> BOOLEAN]
    BY <2>1 DEF Signalled, IInv, TypeOK, TransportTypeOK
  <2>5. TransportTypeOK' /\ OneProcessPerServer'
    BY <2>1, <2>4 DEF IInv, TypeOK, TransportTypeOK, OneProcessPerServer
  <2>6. Owners'
    <3>1. state[Present] # "CONNECTING"
      BY DEF Ready
    <3> QED
      BY <1>0, <2>1, <3>1 DEF IInv, Owners, Attended, Ahead
  <2>7. Disconnecting'
    BY <1>0, <2>1 DEF Disconnecting
  <2> QED
    BY <2>2, <2>3, <2>5, <2>6, <2>7 DEF IInv, TypeOK
<1> QED
  BY <1>1, <1>2

LEMMA ConnectFailsStep == ASSUME IInv, ConnectFails PROVE IInv'
<1>0. /\ todo # <<>> /\ Present \in Servers /\ Tail(todo) \in Seq(Servers)
      /\ role # "nobody" /\ pc = "failed" /\ phase \notin {"down", "disconnecting"}
      /\ owner[Present] = "none"
  BY PresentIsServer DEF ConnectFails, OwnerLeft, IInv, TypeOK, WorkerTypeOK, Worker
<1>1. WorkerTypeOK' /\ Worker'
  BY <1>0 DEF ConnectFails, NextServer, bounds, IInv, TypeOK, WorkerTypeOK, Worker
<1>2. StatusTypeOK'
  <2>1. permanent' = permanent /\ failures' \in [Servers -> Nat]
    BY <1>0 DEF ConnectFails, IInv, TypeOK, StatusTypeOK
  <2>2. restarting \in [Servers -> BOOLEAN]
    BY DEF IInv, TypeOK, StatusTypeOK
  <2>3. CASE role = "start"
    <3>1. restarting' = [restarting EXCEPT ![Present] = @]
      BY <2>3 DEF ConnectFails
    <3> QED
      BY <2>1, <2>2, <3>1 DEF IInv, TypeOK, StatusTypeOK
  <2>4. CASE role # "start"
    <3>1. restarting' = [restarting EXCEPT ![Present] = FALSE]
      BY <2>4 DEF ConnectFails, AfterFailedRestart
    <3> QED
      BY <2>1, <2>2, <3>1 DEF IInv, TypeOK, StatusTypeOK
  <2> QED
    BY <2>3, <2>4
<1>3. Restarts'
  BY DEF ConnectFails, NextServer, Restarts
<1>4. RestartsBounded'
  <2>1. failures[Present] \in Nat /\ MaxRestarts \in Nat
    BY <1>0, ManagerAssumption DEF IInv, TypeOK, StatusTypeOK
  <2>2. failures' = [failures EXCEPT ![Present] = IF role = "start" THEN 1 ELSE @ + 1]
    BY DEF ConnectFails
  <2>3. role = "health" => failures[Present] < MaxRestarts
    BY <1>0 DEF IInv, Restarts
  <2>4. role \in {"start", "health"}
    BY <1>0 DEF IInv, TypeOK, WorkerTypeOK
  <2> QED
    BY <1>0, <2>1, <2>2, <2>3, <2>4 DEF IInv, TypeOK, StatusTypeOK, RestartsBounded
<1>5. TransportTypeOK' /\ OneProcessPerServer'
  BY <1>0 DEF ConnectFails, IInv, TypeOK, TransportTypeOK, States, OneProcessPerServer
<1>6. Owners'
  <2>1. state'[Present] # "CONNECTING"
    BY <1>0 DEF ConnectFails, IInv, TypeOK, TransportTypeOK
  <2> QED
    BY <1>0, <2>1, NextServerOwners DEF ConnectFails
<1>7. Disconnecting'
  BY <1>0 DEF ConnectFails, Disconnecting
<1> QED
  BY <1>1, <1>2, <1>3, <1>4, <1>5, <1>6, <1>7 DEF IInv, TypeOK

LEMMA ShutdownStep == ASSUME IInv, Shutdown PROVE IInv'
<1>1. CASE pc \in {"cleanup", "disconnect", "failed"}
  <2>1. /\ owner' = [owner EXCEPT ![Present] = IF @ = "serving" THEN "leaving" ELSE @]
        /\ session' = [session EXCEPT ![Present] = FALSE]
        /\ phase = "running" /\ phase' = "stopping" /\ event' = TRUE
        /\ UNCHANGED <<worker, status, abandoned, state, stop, orphans, dead, bounds>>
    BY <1>1 DEF Shutdown
  <2>2. todo # <<>> /\ Present \in Servers
    BY <1>1, PresentIsServer DEF IInv, TypeOK, WorkerTypeOK
  <2>3. WorkerTypeOK' /\ Worker'
    BY <2>1 DEF worker, bounds, IInv, TypeOK, WorkerTypeOK, Worker
  <2>4. StatusTypeOK' /\ Restarts' /\ RestartsBounded'
    BY <2>1, StatusUnchanged DEF worker
  <2>5. TransportTypeOK' /\ OneProcessPerServer'
    BY <2>1, <2>2 DEF IInv, TypeOK, TransportTypeOK, OneProcessPerServer
  <2>6. Present' = Present /\ pc' = pc
    BY <2>1 DEF worker, Present
  <2>7. Owners'
    BY <2>1, <2>2, <2>6 DEF IInv, TypeOK, TransportTypeOK, Owners, Attended
  <2>8. Disconnecting'
    BY <2>1 DEF Disconnecting
  <2> QED
    BY <2>3, <2>4, <2>5, <2>7, <2>8 DEF IInv, TypeOK
<1>2. CASE pc \notin {"cleanup", "disconnect", "failed"}
  <2>1. /\ role' = "nobody" /\ pc' = "none" /\ todo' = <<>>
        /\ phase = "running" /\ phase' = "stopping" /\ event' = TRUE
        /\ UNCHANGED <<failures, permanent, owner, session, state, stop, orphans, dead, bounds>>
    BY <1>2 DEF Shutdown
  <2>2. abandoned' \in BOOLEAN
    BY <1>2 DEF Shutdown
  <2>3. restarting' \in [Servers -> BOOLEAN]
    BY <1>2 DEF Shutdown, IInv, TypeOK, StatusTypeOK
  <2>4. WorkerTypeOK' /\ Worker'
    BY <2>1, <2>2 DEF bounds, IInv, TypeOK, WorkerTypeOK, Worker
  <2>5. StatusTypeOK' /\ Restarts' /\ RestartsBounded'
    BY <2>1, <2>3 DEF IInv, TypeOK, StatusTypeOK, Restarts, RestartsBounded
  <2>6. TransportTypeOK' /\ OneProcessPerServer'
    BY <2>1 DEF IInv, TypeOK, TransportTypeOK, OneProcessPerServer
  <2>7. ASSUME NEW s \in Servers, state[s] = "CONNECTING" PROVE abandoned' = TRUE
    <3>1. pc = "ready" /\ state[Present] = "CONNECTING"
      BY <1>2, <2>1, <2>7 DEF IInv, Worker, Owners, Attended
    <3> QED
      BY <1>2, <3>1 DEF Shutdown
  <2>8. Owners'
    BY <1>2, <2>1, <2>7 DEF IInv, Owners, Attended
  <2>9. Disconnecting'
    BY <2>1 DEF Disconnecting
  <2> QED
    BY <2>4, <2>5, <2>6, <2>8, <2>9 DEF IInv, TypeOK
<1> QED
  BY <1>1, <1>2
--------------------------------------------------------------------------------
(* No step of the manager breaks the invariant.                               *)
LEMMA StepInv == ASSUME IInv, [Next]_vars PROVE IInv'
<1>1. CASE UNCHANGED vars
  <2>1. TypeOK' /\ Worker' /\ Restarts' /\ RestartsBounded' /\ OneProcessPerServer'
    BY <1>1 DEF vars, worker, status, transport, bounds, IInv, TypeOK, WorkerTypeOK,
                StatusTypeOK, TransportTypeOK, Worker, Restarts, RestartsBounded,
                OneProcessPerServer, Present
  <2>2. Owners' /\ Disconnecting'
    BY <1>1 DEF vars, worker, transport, IInv, Owners, Attended, Ahead, Present, Disconnecting
  <2> QED
    BY <2>1, <2>2 DEF IInv
<1>2. CASE StartAll \/ Signal \/ Shutdown
  BY <1>2, StartAllStep, SignalStep, ShutdownStep
<1>3. CASE Work
  BY <1>3, SkipServerStep, StartServerStep, TryRestartStep, ReconnectStep, OldOwnerLeftStep,
     ReadyStep, ConnectFailsStep, PassEndsStep, IntervalEndsStep DEF Work
<1>4. CASE Finish
  BY <1>4, DisconnectAllStep, ShutdownReturnsStep, DisconnectedStep DEF Finish
<1>5. CASE \E s \in Servers : OwnerStep(s) \/ Crash(s) \/ Notices(s)
  BY <1>5, OwnerConnectsStep, OwnerFailsStep, OwnerLeavesStep, OwnerEndsStep, CrashStep, NoticesStep
     DEF OwnerStep
<1> QED
  BY <1>1, <1>2, <1>3, <1>4, <1>5 DEF Next

(* The strengthened invariant holds in every reachable state.                 *)
THEOREM Invariance == Spec => []IInv
BY InitInv, StepInv, PTL DEF Spec

(* Every variable stays in its range, and no session outlives its owner.       *)
THEOREM TypeCorrect == Spec => []TypeOK
<1>1. IInv => TypeOK
  BY DEF IInv
<1> QED
  BY <1>1, Invariance, PTL

(* A child process is spawned only when the server's old one is closed, through *)
(* crashes, restarts and a shutdown at any point (stdio.py, connect).           *)
THEOREM ProcessesAreSingle == Spec => []OneProcessPerServer
<1>1. IInv => OneProcessPerServer
  BY DEF IInv
<1> QED
  BY <1>1, Invariance, PTL

(* The failures in a row never pass the limit (process_manager.py, _try_restart). *)
THEOREM RestartsAreBounded == Spec => []RestartsBounded
<1>1. IInv => RestartsBounded
  BY DEF IInv
<1> QED
  BY <1>1, Invariance, PTL

(* A shutdown that cut no connect short leaves no child process behind          *)
(* (process_manager.py, shutdown).                                              *)
THEOREM ShutdownIsClean == Spec => []UndisturbedShutdownIsClean
<1>1. IInv => UndisturbedShutdownIsClean
  BY DEF IInv, TypeOK, WorkerTypeOK, Disconnecting, UndisturbedShutdownIsClean
<1> QED
  BY <1>1, Invariance, PTL
================================================================================

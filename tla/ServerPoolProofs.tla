----------------------------- MODULE ServerPoolProofs -----------------------------
(***************************************************************************)
(* For any number of requests, users and servers, and whatever connections,   *)
(* failures, cancellations and disconnects do between them: a request uses     *)
(* only a session of its own user and server, and one that is open when it is  *)
(* handed out.  While no connection is refused, moreover, a user has one       *)
(* connection to a server, and a shutdown closes them all.                     *)
(*                                                                           *)
(* No lock is needed for the first two (IInv).  A transport belongs to the key *)
(* it was created for, for ever: it enters the pool under this key, every      *)
(* request that connects it has this key, and every connection it opens.       *)
(* The other two need the locks and their queues (CInv): who connects holds    *)
(* the one lock of his key, and the pooled transport owns what he opens.       *)
(***************************************************************************)
EXTENDS ServerPool, SequenceTheorems, TLAPS

TransportRecords ==
  [state : {"disconnected", "connecting", "connected", "error", "disconnecting"},
   session : Nat, owner : Nat]

ConnRecords ==
  [transport : Nat, server : {setup.server[u] : u \in Tasks}, user : {setup.user[u] : u \in Tasks},
   phase : {"starting", "live", "closing", "done"}, stop : BOOLEAN,
   error : {"none", "refused", "broken", "cancelled"}]

Fields == {"pc", "attempt", "lock", "on", "conn", "todo", "out", "gone"}

(* The gateway itself calls nobody                                            *)
MainStates == {"start", "disconnecting", "done"}

Types ==
  /\ pool \in [Keys -> Nat]
  /\ transports \in Seq(TransportRecords) /\ conns \in Seq(ConnRecords)
  /\ DOMAIN task = Tasks \cup {Main}
  /\ \A t \in Tasks \cup {Main} : DOMAIN task[t] = Fields /\ task[t].todo \subseteq Keys
  /\ task[Main].pc \in MainStates

(* The task connects its transport, or cleans up before it does or afterwards *)
Connecting(t) == task[t].pc \in {"cleanup", "ready", "refused", "broken"}

KeyOf(c) == <<conns[c].server, conns[c].user>>

(* key tells whose a transport is                                             *)
KeyedBy(key) ==
  /\ key \in [Nat -> Keys \cup {0}]
  /\ \A k \in Keys : pool[k] # 0 => pool[k] \in 1..Len(transports) /\ key[pool[k]] = k
  /\ \A c \in 1..Len(conns) :
       conns[c].transport \in 1..Len(transports) /\ key[conns[c].transport] = KeyOf(c)
  /\ \A t \in Tasks : Connecting(t) =>
       task[t].on \in 1..Len(transports) /\ key[task[t].on] = SessionKey(t)

(* The session of a transport is that of one of its connections, which is live *)
SessionsIn(trs) ==
  \A x \in 1..Len(trs) : trs[x].session # 0 =>
    /\ trs[x].session \in 1..Len(conns)
    /\ conns[trs[x].session].transport = x
    /\ conns[trs[x].session].phase = "live"

SessionsLive == SessionsIn(transports)

CallsOwn ==
  \A t \in Tasks : At(t, "calling") =>
    task[t].conn \in 1..Len(conns) /\ KeyOf(task[t].conn) = SessionKey(t)

IInv == Types /\ SessionsLive /\ CallsOwn /\ \E key : KeyedBy(key)

(* What every step of the program keeps to, where new may own transports that   *)
(* key does not                                                                 *)
Keeps(key, new) ==
  /\ UNCHANGED setup /\ Types'
  /\ new \in [Nat -> Keys \cup {0}] /\ \A x \in 1..Len(transports) : new[x] = key[x]
  /\ Len(transports') >= Len(transports) /\ Len(conns') >= Len(conns)
  /\ \A c \in 1..Len(conns) :
       /\ conns'[c].transport = conns[c].transport
       /\ conns'[c].server = conns[c].server /\ conns'[c].user = conns[c].user
  /\ \A c \in 1..Len(conns') : c > Len(conns) =>
       /\ conns'[c].transport \in 1..Len(transports')
       /\ new[conns'[c].transport] = <<conns'[c].server, conns'[c].user>>
  /\ \A k \in Keys :
       \/ pool'[k] \in {0, pool[k]}
       \/ pool'[k] \in 1..Len(transports') /\ new[pool'[k]] = k
  /\ \A t \in Tasks : Connecting(t)' =>
       \/ Connecting(t) /\ task'[t].on = task[t].on
       \/ task'[t].on \in 1..Len(transports') /\ new[task'[t].on] = SessionKey(t)
  /\ \A t \in Tasks : At(t, "calling")' =>
       \/ At(t, "calling") /\ task'[t].conn = task[t].conn
       \/ /\ task'[t].conn \in 1..Len(conns) /\ KeyOf(task'[t].conn) = SessionKey(t)
          /\ conns[task'[t].conn].phase = "live"
  /\ SessionsLive'
--------------------------------------------------------------------------------
LEMMA FunIsSeq ==
  ASSUME NEW S, NEW n \in Nat, NEW f \in [1..n -> S]
  PROVE  f \in Seq(S) /\ Len(f) = n
<1>1. f \in Seq(S)
  BY SeqDef
<1> QED BY <1>1, LenProperties

LEMMA KeepsIsEnough == ASSUME IInv, NEW key, KeyedBy(key), NEW new, Keeps(key, new) PROVE IInv'
<1>1. /\ Len(transports) \in Nat /\ Len(transports') \in Nat
      /\ Len(conns) \in Nat /\ Len(conns') \in Nat
  BY DEF IInv, Types, Keeps
<1>2. Keys' = Keys /\ \A t : SessionKey(t)' = SessionKey(t)
  BY DEF Keeps, Keys, SessionKey
<1>3. \A c \in 1..Len(conns) : KeyOf(c)' = KeyOf(c)
  BY DEF Keeps, KeyOf
<1>4. \A k \in Keys : pool'[k] # 0 => pool'[k] \in 1..Len(transports') /\ new[pool'[k]] = k
  BY <1>1 DEF Keeps, KeyedBy
<1>5. ASSUME NEW c \in 1..Len(conns')
      PROVE  conns'[c].transport \in 1..Len(transports') /\ new[conns'[c].transport] = KeyOf(c)'
  <2>1. CASE c > Len(conns)
    BY <1>1, <2>1 DEF Keeps, KeyOf
  <2>2. CASE ~(c > Len(conns))
    <3>1. c \in 1..Len(conns)
      BY <1>1, <2>2
    <3>2. conns[c].transport \in 1..Len(transports) /\ key[conns[c].transport] = KeyOf(c)
      BY <3>1 DEF KeyedBy
    <3>3. conns'[c].transport = conns[c].transport
      BY <3>1 DEF Keeps
    <3>4. new[conns[c].transport] = key[conns[c].transport]
      BY <3>2 DEF Keeps
    <3> QED BY <1>1, <1>3, <3>1, <3>2, <3>3, <3>4 DEF Keeps
  <2> QED BY <2>1, <2>2
<1>6. ASSUME NEW t \in Tasks, Connecting(t)'
      PROVE  task'[t].on \in 1..Len(transports') /\ new[task'[t].on] = SessionKey(t)'
  BY <1>1, <1>2, <1>6 DEF Keeps, KeyedBy
<1>7. KeyedBy(new)'
  BY <1>2, <1>4, <1>5, <1>6 DEF KeyedBy, Keeps
<1>8. CallsOwn'
  <2> SUFFICES ASSUME NEW t \in Tasks, At(t, "calling")'
               PROVE  task'[t].conn \in 1..Len(conns') /\ KeyOf(task[t].conn)' = SessionKey(t)'
    BY DEF CallsOwn
  <2>1. task'[t].conn \in 1..Len(conns) /\ KeyOf(task'[t].conn) = SessionKey(t)
    BY DEF Keeps, IInv, CallsOwn
  <2>2. KeyOf(task[t].conn)' = KeyOf(task'[t].conn)
    BY <2>1 DEF Keeps, KeyOf
  <2> QED BY <1>1, <1>2, <2>1, <2>2 DEF Keeps
<1> QED BY <1>7, <1>8 DEF IInv, Keeps

(* What the types say of the tables                                            *)
LEMMA Tables ==
  ASSUME Types
  PROVE  /\ Len(transports) \in Nat /\ DOMAIN transports = 1..Len(transports)
         /\ \A x \in 1..Len(transports) : transports[x] \in TransportRecords
         /\ Len(conns) \in Nat /\ DOMAIN conns = 1..Len(conns)
         /\ \A c \in 1..Len(conns) : conns[c] \in ConnRecords
BY DEF Types

(* A step that leaves pool and requests alone                                   *)
LEMMA KeepsRequests ==
  ASSUME IInv, NEW key, KeyedBy(key), UNCHANGED <<setup, pool, task>>,
         transports' \in Seq(TransportRecords), conns' \in Seq(ConnRecords),
         Len(transports') = Len(transports), Len(conns') = Len(conns),
         \A c \in 1..Len(conns) :
           /\ conns'[c].transport = conns[c].transport
           /\ conns'[c].server = conns[c].server /\ conns'[c].user = conns[c].user,
         SessionsLive'
  PROVE  Keeps(key, key)
<1>1. Types'
  <2>1. Keys' = Keys /\ ConnRecords' = ConnRecords
    BY DEF Keys, SessionKey, ConnRecords
  <2> QED BY <2>1 DEF Types, IInv
<1>2. Len(transports) \in Nat /\ Len(conns) \in Nat
  BY Tables DEF IInv
<1>3. \A t \in Tasks : (Connecting(t)' <=> Connecting(t)) /\ (At(t, "calling")' <=> At(t, "calling"))
  BY DEF Connecting, At
<1>4. \A c \in 1..Len(conns') : ~(c > Len(conns))
  BY <1>2
<1>5. key \in [Nat -> Keys \cup {0}]
  BY DEF KeyedBy
<1>6. \A k \in Keys : pool'[k] = pool[k]
  OBVIOUS
<1>7. UNCHANGED setup /\ Len(transports') >= Len(transports) /\ Len(conns') >= Len(conns)
  BY <1>2
<1>8. \A c \in 1..Len(conns') : c > Len(conns) =>
       /\ conns'[c].transport \in 1..Len(transports')
       /\ key[conns'[c].transport] = <<conns'[c].server, conns'[c].user>>
  BY <1>4
<1>9. \A k \in Keys :
        \/ pool'[k] \in {0, pool[k]}
        \/ pool'[k] \in 1..Len(transports') /\ key[pool'[k]] = k
  BY <1>6
<1>10. \A t \in Tasks : Connecting(t)' =>
       \/ Connecting(t) /\ task'[t].on = task[t].on
       \/ task'[t].on \in 1..Len(transports') /\ key[task'[t].on] = SessionKey(t)
  BY <1>3
<1>11. \A t \in Tasks : At(t, "calling")' =>
       \/ At(t, "calling") /\ task'[t].conn = task[t].conn
       \/ /\ task'[t].conn \in 1..Len(conns) /\ KeyOf(task'[t].conn) = SessionKey(t)
          /\ conns[task'[t].conn].phase = "live"
  BY <1>3
<1> QED BY <1>1, <1>5, <1>7, <1>8, <1>9, <1>10, <1>11 DEF Keeps

LEMMA OwnerStepKeeps ==
  ASSUME IInv, NEW key, KeyedBy(key), UNCHANGED setup, NEW c \in 1..Len(conns), NEW from,
         NEW to \in ConnRecords, NEW x \in TransportRecords, OwnerStep(c, from, to, x),
         to.transport = conns[c].transport, to.server = conns[c].server, to.user = conns[c].user,
         \/ x.session = 0
         \/ x.session = c /\ to.phase = "live"
         \/ from # "live" /\ x.session = transports[conns[c].transport].session
  PROVE  Keeps(key, key)
<1> DEFINE y == conns[c].transport
<1>1. /\ conns' = [conns EXCEPT ![c] = to] /\ transports' = [transports EXCEPT ![y] = x]
      /\ conns[c].phase = from /\ UNCHANGED <<pool, task>>
  BY DEF OwnerStep
<1>2. /\ conns \in Seq(ConnRecords) /\ transports \in Seq(TransportRecords)
      /\ y \in 1..Len(transports) /\ Len(conns) \in Nat
  BY DEF IInv, Types, KeyedBy
<1> HIDE DEF y
<1>3. /\ conns' \in Seq(ConnRecords) /\ Len(conns') = Len(conns) /\ conns'[c] = to
      /\ \A d \in 1..Len(conns) \ {c} : conns'[d] = conns[d]
  BY <1>1, <1>2
<1>4. /\ transports' \in Seq(TransportRecords) /\ Len(transports') = Len(transports)
      /\ transports'[y] = x /\ \A z \in 1..Len(transports) \ {y} : transports'[z] = transports[z]
  BY <1>1, <1>2
<1>5. SessionsLive'
  <2> SUFFICES ASSUME NEW z \in 1..Len(transports), transports'[z].session # 0
               PROVE  /\ transports'[z].session \in 1..Len(conns)
                      /\ conns'[transports'[z].session].transport = z
                      /\ conns'[transports'[z].session].phase = "live"
    BY <1>3, <1>4 DEF SessionsLive, SessionsIn
  <2>1. transports[z].session # 0 =>
          /\ transports[z].session \in 1..Len(conns)
          /\ conns[transports[z].session].transport = z
          /\ conns[transports[z].session].phase = "live"
    BY DEF IInv, SessionsLive, SessionsIn
  <2>2. CASE z = y
    BY <1>1, <1>3, <1>4, <2>1, <2>2 DEF y
  <2>3. CASE z # y
    BY <1>1, <1>3, <1>4, <2>1, <2>3 DEF y
  <2> QED BY <2>2, <2>3
<1> QED BY <1>1, <1>3, <1>4, <1>5, KeepsRequests

LEMMA OwnerMovesKeeps ==
  ASSUME IInv, NEW key, KeyedBy(key), UNCHANGED setup, NEW c \in 1..Len(conns), OwnerMoves(c)
  PROVE  Keeps(key, key)
<1> USE PoolAssumption
<1> DEFINE y == conns[c].transport
           x == transports[y]
           r == conns[c]
<1>1. x \in TransportRecords /\ r \in ConnRecords /\ c \in Nat
  BY Tables DEF IInv, KeyedBy
<1>2. CASE Connects(c)
  <2> DEFINE to == [r EXCEPT !.phase = IF r.stop THEN "closing" ELSE "live"]
             z == [x EXCEPT !.state = "connected", !.session = IF r.stop THEN 0 ELSE c]
  <2>1. OwnerStep(c, "starting", to, z)
    BY <1>2 DEF Connects
  <2>2. /\ to \in ConnRecords /\ to.transport = r.transport /\ to.server = r.server
        /\ to.user = r.user /\ to.phase = IF r.stop THEN "closing" ELSE "live"
    BY <1>1 DEF ConnRecords
  <2>3. z \in TransportRecords /\ z.session = IF r.stop THEN 0 ELSE c
    BY <1>1 DEF TransportRecords
  <2> HIDE DEF to, z
  <2> QED BY <2>1, <2>2, <2>3, OwnerStepKeeps
<1>3. CASE FailsToConnect(c)
  <2>1. PICK error \in {"refused", "broken"} :
          OwnerStep(c, "starting", [r EXCEPT !.phase = "closing", !.error = error],
                    [x EXCEPT !.state = "error", !.session = 0])
    BY <1>3 DEF FailsToConnect
  <2> DEFINE to == [r EXCEPT !.phase = "closing", !.error = error]
             z == [x EXCEPT !.state = "error", !.session = 0]
  <2>2. to \in ConnRecords /\ to.transport = r.transport /\ to.server = r.server /\ to.user = r.user
    BY <1>1 DEF ConnRecords
  <2>3. z \in TransportRecords /\ z.session = 0
    BY <1>1 DEF TransportRecords
  <2> HIDE DEF to, z
  <2>4. OwnerStep(c, "starting", to, z)
    BY <2>1 DEF to, z
  <2> QED BY <2>2, <2>3, <2>4, OwnerStepKeeps
<1>4. CASE Leaves(c)
  <2> DEFINE to == [r EXCEPT !.phase = "closing"]
             z == [x EXCEPT !.session = 0]
  <2>1. OwnerStep(c, "live", to, z)
    BY <1>4 DEF Leaves
  <2>2. to \in ConnRecords /\ to.transport = r.transport /\ to.server = r.server /\ to.user = r.user
    BY <1>1 DEF ConnRecords
  <2>3. z \in TransportRecords /\ z.session = 0
    BY <1>1 DEF TransportRecords
  <2> HIDE DEF to, z
  <2> QED BY <2>1, <2>2, <2>3, OwnerStepKeeps
<1>5. CASE Closed(c)
  <2> DEFINE to == [r EXCEPT !.phase = "done"]
  <2>1. OwnerStep(c, "closing", to, x)
    BY <1>5 DEF Closed
  <2>2. to \in ConnRecords /\ to.transport = r.transport /\ to.server = r.server /\ to.user = r.user
    BY <1>1 DEF ConnRecords
  <2> HIDE DEF to
  <2> QED BY <1>1, <2>1, <2>2, OwnerStepKeeps
<1> QED BY <1>2, <1>3, <1>4, <1>5 DEF OwnerMoves

(* A step of one request, or of the gateway,                                    *)
LEMMA RequestKeeps ==
  ASSUME IInv, NEW key, KeyedBy(key), UNCHANGED setup, NEW t \in Tasks \cup {Main},
         DOMAIN task' = Tasks \cup {Main},
         \A u \in (Tasks \cup {Main}) \ {t} : task'[u] = task[u],
         DOMAIN task'[t] = Fields, task'[t].todo \subseteq Keys, t \in Tasks \/ task'[t].pc \in MainStates,
         NEW new \in [Nat -> Keys \cup {0}], \A x \in 1..Len(transports) : new[x] = key[x],
         transports' \in Seq(TransportRecords), Len(transports') >= Len(transports), SessionsLive',
         conns' \in Seq(ConnRecords), Len(conns') >= Len(conns),
         \A c \in 1..Len(conns) :
           /\ conns'[c].transport = conns[c].transport
           /\ conns'[c].server = conns[c].server /\ conns'[c].user = conns[c].user,
         \A c \in 1..Len(conns') : c > Len(conns) =>
           /\ conns'[c].transport \in 1..Len(transports')
           /\ new[conns'[c].transport] = <<conns'[c].server, conns'[c].user>>,
         pool' \in [Keys -> Nat],
         \A k \in Keys :
           \/ pool'[k] \in {0, pool[k]}
           \/ pool'[k] \in 1..Len(transports') /\ new[pool'[k]] = k,
         t \in Tasks /\ task'[t].pc \in {"cleanup", "ready", "refused", "broken"} =>
           \/ Connecting(t) /\ task'[t].on = task[t].on
           \/ task'[t].on \in 1..Len(transports') /\ new[task'[t].on] = SessionKey(t),
         t \in Tasks /\ task'[t].pc = "calling" =>
           \/ At(t, "calling") /\ task'[t].conn = task[t].conn
           \/ /\ task'[t].conn \in 1..Len(conns) /\ KeyOf(task'[t].conn) = SessionKey(t)
              /\ conns[task'[t].conn].phase = "live"
  PROVE  Keeps(key, new)
<1>1. Keys' = Keys /\ ConnRecords' = ConnRecords
  BY DEF Keys, SessionKey, ConnRecords
<1>2. /\ DOMAIN task' = Tasks \cup {Main}
      /\ \A u \in (Tasks \cup {Main}) \ {t} : task'[u] = task[u]
  OBVIOUS
<1>3. Types'
  BY <1>1, <1>2, PoolAssumption DEF IInv, Types
<1>4. \A u \in Tasks : Connecting(u)' =>
        \/ Connecting(u) /\ task'[u].on = task[u].on
        \/ task'[u].on \in 1..Len(transports') /\ new[task'[u].on] = SessionKey(u)
  BY <1>2 DEF Connecting
<1>5. \A u \in Tasks : At(u, "calling")' =>
        \/ At(u, "calling") /\ task'[u].conn = task[u].conn
        \/ /\ task'[u].conn \in 1..Len(conns) /\ KeyOf(task'[u].conn) = SessionKey(u)
           /\ conns[task'[u].conn].phase = "live"
  BY <1>2 DEF At
<1> QED BY <1>3, <1>4, <1>5 DEF Keeps

(* ... which touches no table                                                  *)
LEMMA RequestOnlyKeeps ==
  ASSUME IInv, NEW key, KeyedBy(key), UNCHANGED <<setup, transports, conns>>,
         pool' \in [Keys -> Nat], \A k \in Keys : pool'[k] \in {0, pool[k]},
         NEW t \in Tasks \cup {Main},
         DOMAIN task' = Tasks \cup {Main},
         \A u \in (Tasks \cup {Main}) \ {t} : task'[u] = task[u],
         DOMAIN task'[t] = Fields, task'[t].todo \subseteq Keys, t \in Tasks \/ task'[t].pc \in MainStates,
         t \in Tasks /\ task'[t].pc \in {"cleanup", "ready", "refused", "broken"} =>
           Connecting(t) /\ task'[t].on = task[t].on,
         t \in Tasks /\ task'[t].pc = "calling" =>
           \/ At(t, "calling") /\ task'[t].conn = task[t].conn
           \/ /\ task'[t].conn \in 1..Len(conns) /\ KeyOf(task'[t].conn) = SessionKey(t)
              /\ conns[task'[t].conn].phase = "live"
  PROVE  Keeps(key, key)
<1>1. /\ transports \in Seq(TransportRecords) /\ conns \in Seq(ConnRecords)
      /\ Len(transports) \in Nat /\ Len(conns) \in Nat
      /\ SessionsLive' /\ key \in [Nat -> Keys \cup {0}]
  BY Tables DEF IInv, Types, SessionsLive, SessionsIn, KeyedBy
<1>2. \A c \in 1..Len(conns') : ~(c > Len(conns))
  BY <1>1
<1>3. /\ transports' \in Seq(TransportRecords) /\ Len(transports') >= Len(transports)
      /\ conns' \in Seq(ConnRecords) /\ Len(conns') >= Len(conns)
  BY <1>1
<1>4. \A c \in 1..Len(conns) :
        /\ conns'[c].transport = conns[c].transport
        /\ conns'[c].server = conns[c].server /\ conns'[c].user = conns[c].user
  OBVIOUS
<1>5. \A x \in 1..Len(transports) : key[x] = key[x]
  OBVIOUS
<1> QED BY <1>1, <1>2, <1>3, <1>4, <1>5, RequestKeeps

LEMMA TaskIs ==
  ASSUME IInv, NEW t \in Tasks \cup {Main}
  PROVE  DOMAIN task = Tasks \cup {Main} /\ DOMAIN task[t] = Fields /\ task[t].todo \subseteq Keys
BY DEF IInv, Types

(* A step that rewrites the record of t alone, keeping its fields and its todo *)
LEMMA TaskBecomes ==
  ASSUME IInv, NEW t \in Tasks \cup {Main}, NEW e,
         DOMAIN e = DOMAIN task[t], e.todo = task[t].todo, task' = [task EXCEPT ![t] = e]
  PROVE  /\ DOMAIN task' = Tasks \cup {Main} /\ task'[t] = e
         /\ DOMAIN task'[t] = Fields /\ task'[t].todo \subseteq Keys
         /\ \A u \in (Tasks \cup {Main}) \ {t} : task'[u] = task[u]
BY TaskIs

LEMMA AfterLast == ASSUME NEW n \in Nat, NEW c \in 1..(n + 1), c > n PROVE c = n + 1
OBVIOUS

(* connect() starts an owner for the transport x of trs, which has the key of t *)
LEMMA StartOwnerKeeps ==
  ASSUME IInv, NEW key, KeyedBy(key), UNCHANGED setup, NEW t \in Tasks, NEW l,
         NEW new \in [Nat -> Keys \cup {0}], \A x \in 1..Len(transports) : new[x] = key[x],
         NEW trs \in Seq(TransportRecords), Len(trs) >= Len(transports), SessionsIn(trs),
         NEW x \in 1..Len(trs), new[x] = SessionKey(t), StartOwner(t, l, x, trs),
         pool' \in [Keys -> Nat],
         \A k \in Keys :
           \/ pool'[k] \in {0, pool[k]}
           \/ pool'[k] \in 1..Len(trs) /\ new[pool'[k]] = k
  PROVE  Keeps(key, new)
<1> DEFINE n == Len(conns)
           o == [transport |-> x, server |-> setup.server[t], user |-> setup.user[t],
                 phase |-> "starting", stop |-> FALSE, error |-> "none"]
<1>1. conns \in Seq(ConnRecords) /\ n \in Nat /\ Len(trs) \in Nat
  BY Tables DEF IInv, Types
<1>2. o \in ConnRecords
  BY <1>1 DEF ConnRecords
<1>3. /\ conns' = Append(conns, o)
      /\ transports' = [trs EXCEPT ![x].state = "connecting", ![x].owner = n + 1]
      /\ task' = [task EXCEPT ![t].pc = "ready", ![t].lock = l, ![t].on = x, ![t].conn = n + 1]
  BY DEF StartOwner
<1>4. /\ conns' \in Seq(ConnRecords) /\ Len(conns') = n + 1 /\ conns'[n + 1] = o
      /\ \A c \in 1..n : conns'[c] = conns[c]
  <2>1. ConnRecords' = ConnRecords
    BY DEF ConnRecords
  <2> HIDE DEF o
  <2> QED BY <1>1, <1>2, <1>3, <2>1
<1>5. /\ transports' \in Seq(TransportRecords) /\ Len(transports') = Len(trs)
      /\ \A y \in 1..Len(trs) : transports'[y].session = trs[y].session
  <2> DEFINE e == [trs[x] EXCEPT !.state = "connecting", !.owner = n + 1]
  <2>1. trs[x] \in TransportRecords
    BY <1>1
  <2>2. e \in TransportRecords /\ e.session = trs[x].session
    <3> HIDE DEF n
    <3>1. n + 1 \in Nat
      BY <1>1
    <3> QED BY <2>1, <3>1 DEF TransportRecords
  <2>3. transports' = [trs EXCEPT ![x] = e]
    BY <1>3
  <2> HIDE DEF e
  <2> QED BY <1>1, <2>2, <2>3
<1>6. /\ DOMAIN task' = Tasks \cup {Main} /\ task'[t].pc = "ready" /\ task'[t].on = x
      /\ DOMAIN task'[t] = Fields /\ task'[t].todo \subseteq Keys
      /\ \A u \in (Tasks \cup {Main}) \ {t} : task'[u] = task[u]
  <2> DEFINE e == [task[t] EXCEPT !.pc = "ready", !.lock = l, !.on = x, !.conn = n + 1]
  <2>1. DOMAIN e = DOMAIN task[t] /\ task' = [task EXCEPT ![t] = e]
    BY <1>3
  <2>2. DOMAIN task[t] = Fields
    BY TaskIs
  <2>3. e.pc = "ready" /\ e.on = x /\ e.todo = task[t].todo
    BY <2>2 DEF Fields
  <2> HIDE DEF e
  <2> QED BY <2>1, <2>3, TaskBecomes
<1>7. SessionsLive'
  BY <1>1, <1>4, <1>5 DEF SessionsLive, SessionsIn
<1>8. \A c \in 1..Len(conns') : c > Len(conns) =>
        /\ conns'[c].transport \in 1..Len(transports')
        /\ new[conns'[c].transport] = <<conns'[c].server, conns'[c].user>>
  <2>1. \A c \in 1..(n + 1) : c > n => c = n + 1
    BY <1>1, AfterLast
  <2>2. o.transport = x /\ <<o.server, o.user>> = SessionKey(t)
    BY DEF SessionKey
  <2> HIDE DEF o
  <2> QED BY <1>4, <1>5, <2>1, <2>2
<1>9. Len(conns') >= Len(conns) /\ Len(transports') >= Len(transports)
  BY <1>1, <1>4, <1>5
<1> HIDE DEF n, o
<1>10. \A k \in Keys :
         \/ pool'[k] \in {0, pool[k]}
         \/ pool'[k] \in 1..Len(transports') /\ new[pool'[k]] = k
  BY <1>5
<1>11. \A c \in 1..Len(conns) :
         /\ conns'[c].transport = conns[c].transport
         /\ conns'[c].server = conns[c].server /\ conns'[c].user = conns[c].user
  BY <1>4 DEF n
<1>12. /\ t \in Tasks \cup {Main} /\ task'[t].on \in 1..Len(transports') /\ new[task'[t].on] = SessionKey(t)
       /\ task'[t].pc # "calling" /\ transports' \in Seq(TransportRecords)
       /\ conns' \in Seq(ConnRecords)
  BY <1>4, <1>5, <1>6
<1> QED BY <1>6, <1>7, <1>8, <1>9, <1>10, <1>11, <1>12, RequestKeeps

(* _cleanup_bg_task begins to wait for the owner of the transport x             *)
LEMMA StopOwnerKeeps ==
  ASSUME IInv, NEW key, KeyedBy(key), UNCHANGED setup, NEW t \in Tasks, NEW where, NEW l,
         where # "calling",
         NEW new \in [Nat -> Keys \cup {0}], \A x \in 1..Len(transports) : new[x] = key[x],
         NEW trs \in Seq(TransportRecords), Len(trs) >= Len(transports), SessionsIn(trs),
         NEW x \in 1..Len(trs), new[x] = SessionKey(t), StopOwner(t, where, l, x, trs),
         pool' \in [Keys -> Nat],
         \A k \in Keys :
           \/ pool'[k] \in {0, pool[k]}
           \/ pool'[k] \in 1..Len(trs) /\ new[pool'[k]] = k
  PROVE  Keeps(key, new)
<1> DEFINE n == Len(conns)
           o == trs[x].owner
<1>1. conns \in Seq(ConnRecords) /\ n \in Nat
  BY Tables DEF IInv, Types
<1>2. /\ conns' = [conns EXCEPT ![o].stop = TRUE] /\ transports' = trs
      /\ task' = [task EXCEPT ![t].pc = where, ![t].lock = l, ![t].on = x, ![t].conn = o]
  BY DEF StopOwner
<1> HIDE DEF o
<1>3. /\ conns' \in Seq(ConnRecords) /\ Len(conns') = n
      /\ \A c \in 1..n : /\ conns'[c].transport = conns[c].transport
                         /\ conns'[c].server = conns[c].server /\ conns'[c].user = conns[c].user
                         /\ conns'[c].phase = conns[c].phase
  <2>1. ConnRecords' = ConnRecords
    BY DEF ConnRecords
  <2>2. CASE o \in 1..n
    <3>1. conns[o] \in ConnRecords
      BY <1>1, <2>2
    <3>2. [conns[o] EXCEPT !.stop = TRUE] \in ConnRecords
      BY <3>1 DEF ConnRecords
    <3>3. conns' = [conns EXCEPT ![o] = [conns[o] EXCEPT !.stop = TRUE]]
      BY <1>2
    <3>4. /\ [conns[o] EXCEPT !.stop = TRUE].transport = conns[o].transport
          /\ [conns[o] EXCEPT !.stop = TRUE].server = conns[o].server
          /\ [conns[o] EXCEPT !.stop = TRUE].user = conns[o].user
          /\ [conns[o] EXCEPT !.stop = TRUE].phase = conns[o].phase
      BY <3>1 DEF ConnRecords
    <3> DEFINE e == [conns[o] EXCEPT !.stop = TRUE]
    <3> HIDE DEF e
    <3>5. e \in ConnRecords /\ conns' = [conns EXCEPT ![o] = e]
      BY <3>2, <3>3 DEF e
    <3>6. conns' \in Seq(ConnRecords) /\ Len(conns') = n
      BY <1>1, <2>1, <2>2, <3>5
    <3>7. conns'[o] = e /\ \A c \in 1..n \ {o} : conns'[c] = conns[c]
      BY <1>1, <2>2, <3>5
    <3> QED BY <2>1, <3>4, <3>6, <3>7 DEF e
  <2>3. CASE o \notin 1..n
    <3>1. conns' = conns
      BY <1>1, <1>2, <2>3
    <3> QED BY <1>1, <2>1, <3>1
  <2> QED BY <2>2, <2>3
<1>4. /\ DOMAIN task' = Tasks \cup {Main} /\ task'[t].pc = where /\ task'[t].on = x
      /\ DOMAIN task'[t] = Fields /\ task'[t].todo \subseteq Keys
      /\ \A u \in (Tasks \cup {Main}) \ {t} : task'[u] = task[u]
  <2> DEFINE e == [task[t] EXCEPT !.pc = where, !.lock = l, !.on = x, !.conn = o]
  <2>1. DOMAIN e = DOMAIN task[t] /\ task' = [task EXCEPT ![t] = e]
    BY <1>2
  <2>2. DOMAIN task[t] = Fields
    BY TaskIs
  <2>3. e.pc = where /\ e.on = x /\ e.todo = task[t].todo
    BY <2>2 DEF Fields
  <2> HIDE DEF e
  <2> QED BY <2>1, <2>3, TaskBecomes
<1>5. SessionsLive'
  BY <1>1, <1>2, <1>3 DEF SessionsLive, SessionsIn
<1>6. \A c \in 1..Len(conns') : c > Len(conns) =>
        /\ conns'[c].transport \in 1..Len(transports')
        /\ new[conns'[c].transport] = <<conns'[c].server, conns'[c].user>>
  BY <1>1, <1>3
<1>7. /\ Len(conns') >= Len(conns) /\ transports' = trs
      /\ \A k \in Keys :
           \/ pool'[k] \in {0, pool[k]}
           \/ pool'[k] \in 1..Len(transports') /\ new[pool'[k]] = k
  BY <1>1, <1>2, <1>3
<1>8. \A c \in 1..Len(conns) :
        /\ conns'[c].transport = conns[c].transport
        /\ conns'[c].server = conns[c].server /\ conns'[c].user = conns[c].user
  BY <1>3
<1>9. Len(transports') >= Len(transports) /\ transports' \in Seq(TransportRecords)
  BY <1>7
<1>10. /\ task'[t].on \in 1..Len(transports') /\ new[task'[t].on] = SessionKey(t)
       /\ task'[t].pc # "calling"
  BY <1>4, <1>7
<1>11. t \in Tasks \cup {Main} /\ conns' \in Seq(ConnRecords) /\ Len(conns') >= Len(conns)
  BY <1>3, <1>7
<1>12. \A k \in Keys :
         \/ pool'[k] \in {0, pool[k]}
         \/ pool'[k] \in 1..Len(transports') /\ new[pool'[k]] = k
  BY <1>7
<1> HIDE DEF n
<1>13. transports' \in Seq(TransportRecords)
  BY <1>2
<1>14. /\ DOMAIN task' = Tasks \cup {Main} /\ DOMAIN task'[t] = Fields /\ task'[t].todo \subseteq Keys
       /\ \A u \in (Tasks \cup {Main}) \ {t} : task'[u] = task[u]
  BY <1>4
<1> QED BY <1>5, <1>6, <1>8, <1>9, <1>10, <1>11, <1>12, <1>13, <1>14, RequestKeeps

(* get_session returns, under the lock or after connect()                       *)
HandsOut(t, x, trs) ==
  /\ UNCHANGED conns /\ transports' = trs
  /\ task' = [task EXCEPT ![t] = WithSession(t, OpenSession(x, trs))]

LEMMA SessionKeeps ==
  ASSUME IInv, NEW key, KeyedBy(key), UNCHANGED setup, NEW t \in Tasks,
         NEW new \in [Nat -> Keys \cup {0}], \A x \in 1..Len(transports) : new[x] = key[x],
         NEW trs \in Seq(TransportRecords), Len(trs) >= Len(transports), SessionsIn(trs),
         NEW x \in 1..Len(trs), new[x] = SessionKey(t), HandsOut(t, x, trs),
         pool' \in [Keys -> Nat],
         \A k \in Keys :
           \/ pool'[k] \in {0, pool[k]}
           \/ pool'[k] \in 1..Len(trs) /\ new[pool'[k]] = k
  PROVE  Keeps(key, new)
<1> DEFINE s == OpenSession(x, trs)
           r == WithSession(t, s)
<1>1. s # 0 => s = trs[x].session
  BY DEF OpenSession
<1>2. /\ DOMAIN r = Fields /\ r.todo \subseteq Keys
      /\ IF s = 0 THEN r.pc = "done" ELSE r.pc = "calling" /\ r.conn = s
  <2> HIDE DEF s
  <2> QED BY TaskIs DEF WithSession, Done, Fields
<1> HIDE DEF r, s
<1>3. s # 0 => /\ s \in 1..Len(conns) /\ KeyOf(s) = SessionKey(t) /\ conns[s].phase = "live"
  <2> SUFFICES ASSUME s # 0
               PROVE  s \in 1..Len(conns) /\ KeyOf(s) = SessionKey(t) /\ conns[s].phase = "live"
    OBVIOUS
  <2>1. s \in 1..Len(conns) /\ conns[s].transport = x /\ conns[s].phase = "live"
    BY <1>1 DEF SessionsIn
  <2>2. x \in 1..Len(transports) /\ key[x] = KeyOf(s)
    BY <2>1 DEF KeyedBy
  <2> QED BY <2>1, <2>2
<1>4. /\ DOMAIN task' = Tasks \cup {Main} /\ task'[t] = r
      /\ \A u \in (Tasks \cup {Main}) \ {t} : task'[u] = task[u]
  BY TaskIs DEF r, s, HandsOut
<1>5. /\ conns' \in Seq(ConnRecords) /\ Len(conns') >= Len(conns) /\ SessionsLive'
      /\ t \in Tasks \cup {Main} /\ t # Main
      /\ transports' \in Seq(TransportRecords) /\ Len(transports') >= Len(transports)
  BY Tables, PoolAssumption DEF IInv, Types, SessionsLive, SessionsIn, HandsOut
<1>6. \A c \in 1..Len(conns') : ~(c > Len(conns))
  BY Tables DEF IInv, HandsOut
<1>7. \A c \in 1..Len(conns) :
         /\ conns'[c].transport = conns[c].transport
         /\ conns'[c].server = conns[c].server /\ conns'[c].user = conns[c].user
  BY DEF HandsOut
<1>8. /\ DOMAIN task'[t] = Fields /\ task'[t].todo \subseteq Keys
      /\ task'[t].pc \notin {"cleanup", "ready", "refused", "broken"}
      /\ task'[t].pc = "calling" =>
           /\ task'[t].conn \in 1..Len(conns) /\ KeyOf(task'[t].conn) = SessionKey(t)
           /\ conns[task'[t].conn].phase = "live"
  BY <1>2, <1>3, <1>4
<1>9. /\ DOMAIN task' = Tasks \cup {Main}
      /\ \A u \in (Tasks \cup {Main}) \ {t} : task'[u] = task[u]
  BY <1>4
<1>10. \A k \in Keys :
         \/ pool'[k] \in {0, pool[k]}
         \/ pool'[k] \in 1..Len(transports') /\ new[pool'[k]] = k
  BY DEF HandsOut
<1>11. /\ UNCHANGED setup
       /\ task'[t].pc \in {"cleanup", "ready", "refused", "broken"} =>
            \/ Connecting(t) /\ task'[t].on = task[t].on
            \/ task'[t].on \in 1..Len(transports') /\ new[task'[t].on] = SessionKey(t)
       /\ task'[t].pc = "calling" =>
            \/ At(t, "calling") /\ task'[t].conn = task[t].conn
            \/ /\ task'[t].conn \in 1..Len(conns) /\ KeyOf(task'[t].conn) = SessionKey(t)
               /\ conns[task'[t].conn].phase = "live"
  BY <1>8
<1> QED BY <1>5, <1>6, <1>7, <1>8, <1>9, <1>10, <1>11, RequestKeeps

(* The block under the lock: a transport of one's own, pooled or new            *)
LEMMA LockedKeeps ==
  ASSUME IInv, NEW key, KeyedBy(key), UNCHANGED setup, NEW t \in Tasks, NEW l, NEW qs,
         Locked(t, l, qs)
  PROVE  \E new : Keeps(key, new)
<1> DEFINE k == SessionKey(t)
           fresh == pool[k] = 0
           x == IF fresh THEN Len(transports) + 1 ELSE pool[k]
           trs == IF fresh THEN Append(transports, NewTransport) ELSE transports
           new == IF fresh THEN [key EXCEPT ![x] = k] ELSE key
<1>1. /\ transports \in Seq(TransportRecords) /\ Len(transports) \in Nat /\ k \in Keys
      /\ key \in [Nat -> Keys \cup {0}] /\ pool \in [Keys -> Nat] /\ SessionsIn(transports)
  BY Tables DEF IInv, Types, KeyedBy, Keys, SessionsLive
<1>2. NewTransport \in TransportRecords /\ NewTransport.session = 0
  BY DEF NewTransport, TransportRecords
<1>3. /\ pool' = [pool EXCEPT ![k] = x]
      /\ \/ HandsOut(t, x, trs)
         \/ StartOwner(t, l, x, trs)
         \/ StopOwner(t, "cleanup", l, x, trs)
  BY DEF Locked, HandsOut
<1> HIDE DEF k
<1>4. /\ trs \in Seq(TransportRecords) /\ Len(trs) >= Len(transports) /\ SessionsIn(trs)
      /\ x \in 1..Len(trs) /\ new \in [Nat -> Keys \cup {0}] /\ new[x] = k
      /\ \A y \in 1..Len(transports) : new[y] = key[y]
  <2>1. CASE fresh
    <3> DEFINE e == NewTransport
    <3> HIDE DEF e
    <3>1. /\ Append(transports, e) \in Seq(TransportRecords)
          /\ Len(Append(transports, e)) = Len(transports) + 1
          /\ Append(transports, e)[Len(transports) + 1] = e
          /\ \A y \in 1..Len(transports) : Append(transports, e)[y] = transports[y]
      BY <1>1, <1>2 DEF e
    <3>2. SessionsIn(Append(transports, e))
      <4> SUFFICES ASSUME NEW y \in 1..(Len(transports) + 1), Append(transports, e)[y].session # 0
                   PROVE  y \in 1..Len(transports)
        BY <1>1, <3>1 DEF SessionsIn
      <4> QED BY <1>1, <1>2, <3>1, AfterLast DEF e
    <3>3. /\ [key EXCEPT ![Len(transports) + 1] = k] \in [Nat -> Keys \cup {0}]
          /\ [key EXCEPT ![Len(transports) + 1] = k][Len(transports) + 1] = k
          /\ \A y \in 1..Len(transports) : [key EXCEPT ![Len(transports) + 1] = k][y] = key[y]
      BY <1>1
    <3> QED BY <1>1, <2>1, <3>1, <3>2, <3>3 DEF e
  <2>2. CASE ~fresh
    <3>1. pool[k] \in 1..Len(transports) /\ key[pool[k]] = k
      BY <1>1, <2>2 DEF KeyedBy
    <3> QED BY <1>1, <2>2, <3>1
  <2> QED BY <2>1, <2>2
<1>5. x \in Nat /\ pool' \in [Keys -> Nat] /\ \A j \in Keys : pool'[j] = IF j = k THEN x ELSE pool[j]
  <2>1. x \in Nat
    BY <1>1
  <2> HIDE DEF x
  <2> QED BY <1>1, <1>3, <2>1
<1> HIDE DEF x, trs, new
<1>6. \A j \in Keys :
        \/ pool'[j] \in {0, pool[j]}
        \/ pool'[j] \in 1..Len(trs) /\ new[pool'[j]] = j
  BY <1>4, <1>5
<1>7. pool' \in [Keys -> Nat] /\ new[x] = SessionKey(t)
  BY <1>4, <1>5 DEF k
<1>8. Keeps(key, new)
  <2>1. CASE HandsOut(t, x, trs)
    BY <1>4, <1>6, <1>7, <2>1, SessionKeeps
  <2>2. CASE StartOwner(t, l, x, trs)
    BY <1>4, <1>6, <1>7, <2>2, StartOwnerKeeps
  <2>3. CASE StopOwner(t, "cleanup", l, x, trs)
    BY <1>4, <1>6, <1>7, <2>3, StopOwnerKeeps
  <2> QED BY <1>3, <2>1, <2>2, <2>3
<1> QED BY <1>8

(* Only requests connect, and the transport they connect is their own            *)
LEMMA Own ==
  ASSUME IInv, NEW key, KeyedBy(key), NEW t \in Tasks \cup {Main}, Connecting(t)
  PROVE  /\ t \in Tasks /\ task[t].on \in 1..Len(transports) /\ key[task[t].on] = SessionKey(t)
         /\ key \in [Nat -> Keys \cup {0}] /\ SessionsIn(transports)
         /\ transports \in Seq(TransportRecords) /\ Len(transports) \in Nat
         /\ pool \in [Keys -> Nat]
<1>1. t # Main
  BY DEF IInv, Types, MainStates, Connecting
<1>2. t \in Tasks
  BY <1>1
<1> QED BY <1>2, Tables DEF KeyedBy, IInv, Types, SessionsLive

LEMMA AfterCleanupKeeps ==
  ASSUME IInv, NEW key, KeyedBy(key), UNCHANGED setup, NEW t \in Tasks \cup {Main}, AfterCleanup(t)
  PROVE  Keeps(key, key)
<1>1. /\ Connecting(t) /\ StartOwner(t, task[t].lock, task[t].on, transports)
      /\ UNCHANGED pool
  BY DEF AfterCleanup, At, Connecting
<1> DEFINE x == task[t].on
<1>2. /\ t \in Tasks /\ x \in 1..Len(transports) /\ key[x] = SessionKey(t)
      /\ key \in [Nat -> Keys \cup {0}] /\ SessionsIn(transports)
      /\ transports \in Seq(TransportRecords) /\ Len(transports) >= Len(transports)
  BY <1>1, Own
<1>3. pool' \in [Keys -> Nat] /\ \A k \in Keys : pool'[k] \in {0, pool[k]}
  BY <1>1, Own
<1>4. StartOwner(t, task[t].lock, x, transports)
  BY <1>1
<1> HIDE DEF x
<1> QED BY <1>2, <1>3, <1>4, StartOwnerKeeps

(* The loop of disconnect, up to its next suspension                            *)
LEMMA DisconnectKeeps ==
  ASSUME IInv, NEW key, KeyedBy(key), UNCHANGED setup, NEW t \in Tasks \cup {Main},
         NEW trs \in Seq(TransportRecords), Len(trs) = Len(transports), SessionsIn(trs),
         NEW todo \in SUBSET Keys, DisconnectSome(t, trs, todo)
  PROVE  Keeps(key, key)
<1> DEFINE Left(x) == IF Disconnects(x, trs) THEN NewTransport ELSE trs[x]
<1>1. PICK quiet, last :
        LET gone == quiet \cup last
            awaited == {pool[k] : k \in last}
            emptied == {pool[k] : k \in quiet} \ {0}
        IN /\ pool' = [k \in Keys |-> IF k \in gone THEN 0 ELSE pool[k]]
           /\ transports' = [x \in DOMAIN trs |->
                               IF x \in emptied THEN Left(x)
                               ELSE IF x \in awaited THEN [trs[x] EXCEPT !.state = "disconnecting"]
                               ELSE trs[x]]
           /\ conns' = [c \in DOMAIN conns |->
                          IF \E x \in awaited : trs[x].owner = c
                          THEN [conns[c] EXCEPT !.stop = TRUE] ELSE conns[c]]
           /\ IF last = {} THEN task' = [task EXCEPT ![t] = NextAttempt(t)]
              ELSE \E x \in awaited :
                     task' = [task EXCEPT ![t].pc = "disconnecting", ![t].on = x, ![t].lock = 0,
                                ![t].conn = trs[x].owner, ![t].todo = todo \ gone]
  BY DEF DisconnectSome
<1> DEFINE gone == quiet \cup last
           awaited == {pool[k] : k \in last}
           emptied == {pool[k] : k \in quiet} \ {0}
           trsN == [x \in DOMAIN trs |->
                      IF x \in emptied THEN Left(x)
                      ELSE IF x \in awaited THEN [trs[x] EXCEPT !.state = "disconnecting"]
                      ELSE trs[x]]
           connsN == [c \in DOMAIN conns |->
                        IF \E x \in awaited : trs[x].owner = c
                        THEN [conns[c] EXCEPT !.stop = TRUE] ELSE conns[c]]
<1>2. /\ pool' = [k \in Keys |-> IF k \in gone THEN 0 ELSE pool[k]]
      /\ transports' = trsN /\ conns' = connsN
      /\ \/ task' = [task EXCEPT ![t] = NextAttempt(t)]
         \/ \E x : task' = [task EXCEPT ![t].pc = "disconnecting", ![t].on = x, ![t].lock = 0,
                                  ![t].conn = trs[x].owner, ![t].todo = todo \ gone]
  BY <1>1
<1> HIDE DEF gone, awaited, emptied
<1>3. /\ Len(trs) \in Nat /\ DOMAIN trs = 1..Len(trs) /\ Len(conns) \in Nat
      /\ DOMAIN conns = 1..Len(conns) /\ \A x \in 1..Len(trs) : trs[x] \in TransportRecords
      /\ \A c \in 1..Len(conns) : conns[c] \in ConnRecords
  BY Tables DEF IInv
<1>4. \A x \in 1..Len(trs) : trsN[x] \in TransportRecords /\ trsN[x].session \in {0, trs[x].session}
  <2> SUFFICES ASSUME NEW x \in 1..Len(trs)
               PROVE  trsN[x] \in TransportRecords /\ trsN[x].session \in {0, trs[x].session}
    OBVIOUS
  <2>1. /\ NewTransport \in TransportRecords /\ NewTransport.session = 0
        /\ [trs[x] EXCEPT !.state = "disconnecting"] \in TransportRecords
        /\ [trs[x] EXCEPT !.state = "disconnecting"].session = trs[x].session
    BY <1>3 DEF NewTransport, TransportRecords
  <2>2. trsN[x] \in {NewTransport, trs[x], [trs[x] EXCEPT !.state = "disconnecting"]}
    BY <1>3
  <2> HIDE DEF trsN
  <2> QED BY <1>3, <2>1, <2>2
<1>5. trsN \in Seq(TransportRecords) /\ Len(trsN) = Len(trs)
  <2>1. trsN \in [1..Len(trs) -> TransportRecords]
    <3>1. DOMAIN trsN = 1..Len(trs) /\ trsN = [x \in DOMAIN trsN |-> trsN[x]]
      BY <1>3
    <3> HIDE DEF trsN
    <3> QED BY <1>4, <3>1
  <2> HIDE DEF trsN
  <2> QED BY <1>3, <2>1, FunIsSeq
<1>6. \A c \in 1..Len(conns) :
        /\ connsN[c] \in ConnRecords /\ connsN[c].transport = conns[c].transport
        /\ connsN[c].server = conns[c].server /\ connsN[c].user = conns[c].user
        /\ connsN[c].phase = conns[c].phase
  <2> SUFFICES ASSUME NEW c \in 1..Len(conns)
               PROVE  /\ connsN[c] \in ConnRecords /\ connsN[c].transport = conns[c].transport
                      /\ connsN[c].server = conns[c].server /\ connsN[c].user = conns[c].user
                      /\ connsN[c].phase = conns[c].phase
    OBVIOUS
  <2> DEFINE e == [conns[c] EXCEPT !.stop = TRUE]
  <2>1. /\ e \in ConnRecords /\ e.transport = conns[c].transport /\ e.server = conns[c].server
        /\ e.user = conns[c].user /\ e.phase = conns[c].phase
    BY <1>3 DEF ConnRecords
  <2>2. connsN[c] \in {conns[c], e}
    BY <1>3
  <2> HIDE DEF connsN, e
  <2> QED BY <1>3, <2>1, <2>2
<1>7. connsN \in Seq(ConnRecords) /\ Len(connsN) = Len(conns)
  <2>1. connsN \in [1..Len(conns) -> ConnRecords]
    <3>1. DOMAIN connsN = 1..Len(conns) /\ connsN = [c \in DOMAIN connsN |-> connsN[c]]
      BY <1>3
    <3> HIDE DEF connsN
    <3> QED BY <1>6, <3>1
  <2> HIDE DEF connsN
  <2> QED BY <1>3, <2>1, FunIsSeq
<1> HIDE DEF trsN, connsN
<1>8. /\ transports' \in Seq(TransportRecords) /\ Len(transports') >= Len(transports)
      /\ conns' \in Seq(ConnRecords) /\ Len(conns') >= Len(conns) /\ Len(conns') = Len(conns)
  <2>1. Len(trsN) >= Len(transports) /\ Len(connsN) >= Len(conns)
    BY <1>3, <1>5, <1>7
  <2> QED BY <1>2, <1>5, <1>7, <2>1
<1>9. \A c \in 1..Len(conns) :
        /\ conns'[c].transport = conns[c].transport
        /\ conns'[c].server = conns[c].server /\ conns'[c].user = conns[c].user
  BY <1>2, <1>6
<1>10. \A c \in 1..Len(conns') : ~(c > Len(conns))
  BY <1>3, <1>8
<1>11. SessionsLive'
  <2> SUFFICES ASSUME NEW x \in 1..Len(trs), trsN[x].session # 0
               PROVE  /\ trsN[x].session \in 1..Len(connsN)
                      /\ connsN[trsN[x].session].transport = x
                      /\ connsN[trsN[x].session].phase = "live"
    BY <1>2, <1>5 DEF SessionsLive, SessionsIn
  <2>1. trsN[x].session = trs[x].session
    BY <1>4
  <2> QED BY <1>6, <1>7, <2>1 DEF SessionsIn
<1>12. pool' \in [Keys -> Nat] /\ \A k \in Keys : pool'[k] \in {0, pool[k]}
  BY <1>2 DEF IInv, Types
<1>13. \E r : /\ task' = [task EXCEPT ![t] = r] /\ DOMAIN r = Fields /\ r.todo \subseteq Keys
              /\ r.pc \in {"start", "disconnecting", "done"}
  <2>1. CASE task' = [task EXCEPT ![t] = NextAttempt(t)]
    <3>1. /\ DOMAIN NextAttempt(t) = Fields /\ NextAttempt(t).todo \subseteq Keys
          /\ NextAttempt(t).pc \in {"start", "done"}
      BY DEF NextAttempt, Done, Fields
    <3> QED BY <2>1, <3>1
  <2>2. ASSUME NEW x,
               task' = [task EXCEPT ![t].pc = "disconnecting", ![t].on = x, ![t].lock = 0,
                                    ![t].conn = trs[x].owner, ![t].todo = todo \ gone]
        PROVE  \E r : /\ task' = [task EXCEPT ![t] = r] /\ DOMAIN r = Fields /\ r.todo \subseteq Keys
                      /\ r.pc \in {"start", "disconnecting", "done"}
    <3> DEFINE r == [task[t] EXCEPT !.pc = "disconnecting", !.on = x, !.lock = 0,
                                    !.conn = trs[x].owner, !.todo = todo \ gone]
    <3>1. DOMAIN r = Fields /\ r.todo \subseteq Keys /\ r.pc = "disconnecting"
      BY TaskIs DEF Fields
    <3>2. task' = [task EXCEPT ![t] = r]
      BY <2>2
    <3> QED BY <3>1, <3>2
  <2> QED BY <1>2, <2>1, <2>2
<1>14. /\ DOMAIN task' = Tasks \cup {Main}
       /\ \A u \in (Tasks \cup {Main}) \ {t} : task'[u] = task[u]
       /\ DOMAIN task'[t] = Fields /\ task'[t].todo \subseteq Keys /\ task'[t].pc \in MainStates
  BY <1>13, TaskIs DEF MainStates
<1>15. task'[t].pc \notin {"cleanup", "ready", "refused", "broken", "calling"}
  BY <1>14 DEF MainStates
<1>16. key \in [Nat -> Keys \cup {0}] /\ \A x \in 1..Len(transports) : key[x] = key[x]
  BY DEF KeyedBy
<1> QED BY <1>8, <1>9, <1>10, <1>11, <1>12, <1>14, <1>15, <1>16, RequestKeeps

(* connect() fails once its owner is over                                       *)
LEMMA FailConnectKeeps ==
  ASSUME IInv, NEW key, KeyedBy(key), UNCHANGED setup, NEW t \in Tasks, NEW error,
         Connecting(t), FailConnect(t, error)
  PROVE  Keeps(key, key)
<1> DEFINE y == task[t].on
           trs == [transports EXCEPT ![y].state = "error", ![y].owner = 0]
<1>1. /\ y \in 1..Len(transports) /\ transports \in Seq(TransportRecords)
      /\ SessionsIn(transports) /\ Len(transports) \in Nat /\ pool \in [Keys -> Nat]
      /\ \A c \in 1..Len(conns) : c \in Nat
  BY Own
<1>2. /\ \/ DisconnectSome(t, trs, KeysOf(t))
         \/ /\ transports' = trs /\ UNCHANGED <<pool, conns>>
            /\ task' = [task EXCEPT ![t] = Done("failed")]
  BY DEF FailConnect
<1> HIDE DEF y
<1>3. /\ trs \in Seq(TransportRecords) /\ Len(trs) = Len(transports)
      /\ \A x \in 1..Len(transports) : trs[x].session = transports[x].session
  <2> DEFINE e == [transports[y] EXCEPT !.state = "error", !.owner = 0]
  <2>1. transports[y] \in TransportRecords
    BY <1>1
  <2>2. e \in TransportRecords /\ e.session = transports[y].session
    BY <2>1 DEF TransportRecords
  <2>3. trs = [transports EXCEPT ![y] = e]
    OBVIOUS
  <2> HIDE DEF e, trs
  <2> QED BY <1>1, <2>2, <2>3
<1> HIDE DEF trs
<1>4. SessionsIn(trs)
  BY <1>1, <1>3 DEF SessionsIn
<1>5. CASE DisconnectSome(t, trs, KeysOf(t))
  <2>1. KeysOf(t) \in SUBSET Keys
    BY DEF KeysOf
  <2> QED BY <1>3, <1>4, <1>5, <2>1, DisconnectKeeps
<1>6. CASE /\ transports' = trs /\ UNCHANGED <<pool, conns>>
           /\ task' = [task EXCEPT ![t] = Done("failed")]
  <2>1. /\ conns' \in Seq(ConnRecords) /\ Len(conns') >= Len(conns) /\ SessionsLive'
        /\ \A c \in 1..Len(conns') : ~(c > Len(conns))
    BY <1>4, <1>6, Tables DEF IInv, Types, SessionsLive, SessionsIn
  <2>2. \A c \in 1..Len(conns) :
          /\ conns'[c].transport = conns[c].transport
          /\ conns'[c].server = conns[c].server /\ conns'[c].user = conns[c].user
    BY <1>6
  <2>3. transports' \in Seq(TransportRecords) /\ Len(transports') >= Len(transports)
    BY <1>1, <1>3, <1>6
  <2>4. pool' \in [Keys -> Nat] /\ \A k \in Keys : pool'[k] \in {0, pool[k]}
    BY <1>1, <1>6
  <2>5. /\ DOMAIN task' = Tasks \cup {Main} /\ task'[t].pc = "done"
        /\ \A u \in (Tasks \cup {Main}) \ {t} : task'[u] = task[u]
        /\ DOMAIN task'[t] = Fields /\ task'[t].todo \subseteq Keys
    <3>1. DOMAIN Done("failed") = Fields /\ Done("failed").todo = {} /\ Done("failed").pc = "done"
      BY DEF Done, Fields
    <3> QED BY <1>6, <3>1, TaskIs
  <2>6. key \in [Nat -> Keys \cup {0}] /\ \A x \in 1..Len(transports) : key[x] = key[x]
    BY DEF KeyedBy
  <2> QED BY <2>1, <2>2, <2>3, <2>4, <2>5, <2>6, RequestKeeps
<1> QED BY <1>2, <1>5, <1>6

LEMMA ReadyKeeps ==
  ASSUME IInv, NEW key, KeyedBy(key), UNCHANGED setup, NEW t \in Tasks \cup {Main}, Ready(t)
  PROVE  Keeps(key, key)
<1> DEFINE x == task[t].on
           where == IF conns[task[t].conn].error = "refused" THEN "refused" ELSE "broken"
<1>1. Connecting(t)
  BY DEF Ready, At, Connecting
<1>2. /\ t \in Tasks /\ x \in 1..Len(transports) /\ key[x] = SessionKey(t)
      /\ key \in [Nat -> Keys \cup {0}] /\ SessionsIn(transports)
      /\ transports \in Seq(TransportRecords) /\ Len(transports) >= Len(transports)
      /\ pool \in [Keys -> Nat]
  BY <1>1, Own
<1>3. \/ HandsOut(t, x, transports) /\ UNCHANGED pool
      \/ FailConnect(t, conns[task[t].conn].error)
      \/ StopOwner(t, where, task[t].lock, x, transports) /\ UNCHANGED pool
  BY DEF Ready, HandsOut
<1>4. where # "calling"
  OBVIOUS
<1> HIDE DEF x, where
<1>5. UNCHANGED pool => pool' \in [Keys -> Nat] /\ \A k \in Keys : pool'[k] \in {0, pool[k]}
  BY <1>2
<1>6. CASE HandsOut(t, x, transports) /\ UNCHANGED pool
  <2> HIDE DEF HandsOut
  <2> QED BY <1>2, <1>5, <1>6, SessionKeeps
<1>7. CASE FailConnect(t, conns[task[t].conn].error)
  BY <1>1, <1>2, <1>7, FailConnectKeeps
<1>8. CASE StopOwner(t, where, task[t].lock, x, transports) /\ UNCHANGED pool
  BY <1>2, <1>4, <1>5, <1>8, StopOwnerKeeps
<1> QED BY <1>3, <1>6, <1>7, <1>8

LEMMA AfterFailureKeeps ==
  ASSUME IInv, NEW key, KeyedBy(key), UNCHANGED setup, NEW t \in Tasks \cup {Main}, AfterFailure(t)
  PROVE  Keeps(key, key)
<1>1. Connecting(t) /\ FailConnect(t, task[t].pc)
  BY DEF AfterFailure, Connecting
<1> QED BY <1>1, Own, FailConnectKeeps

LEMMA AfterDisconnectKeeps ==
  ASSUME IInv, NEW key, KeyedBy(key), UNCHANGED setup, NEW t \in Tasks \cup {Main}, AfterDisconnect(t)
  PROVE  Keeps(key, key)
<1> DEFINE y == task[t].on
           trs == [transports EXCEPT ![y] = NewTransport]
           todo == task[t].todo
<1>1. DisconnectSome(t, trs, todo)
  BY DEF AfterDisconnect
<1>2. transports \in Seq(TransportRecords) /\ SessionsIn(transports) /\ Len(transports) \in Nat
  BY Tables DEF IInv, Types, SessionsLive
<1>3. NewTransport \in TransportRecords /\ NewTransport.session = 0
  BY DEF NewTransport, TransportRecords
<1> HIDE DEF y
<1>4. /\ trs \in Seq(TransportRecords) /\ Len(trs) = Len(transports)
      /\ \A x \in 1..Len(transports) : trs[x].session \in {0, transports[x].session}
  <2> DEFINE e == NewTransport
  <2>1. e \in TransportRecords /\ e.session = 0 /\ trs = [transports EXCEPT ![y] = e]
    BY <1>3
  <2> HIDE DEF e, trs
  <2>2. CASE y \in 1..Len(transports)
    BY <1>2, <2>1, <2>2
  <2>3. CASE y \notin 1..Len(transports)
    <3>1. trs = transports
      BY <1>2, <2>1, <2>3
    <3> QED BY <1>2, <3>1
  <2> QED BY <2>2, <2>3
<1> HIDE DEF trs
<1>5. SessionsIn(trs)
  BY <1>2, <1>4 DEF SessionsIn
<1>6. todo \in SUBSET Keys
  BY TaskIs
<1> HIDE DEF todo
<1> QED BY <1>1, <1>4, <1>5, <1>6, DisconnectKeeps

LEMMA ShutdownKeeps ==
  ASSUME IInv, NEW key, KeyedBy(key), UNCHANGED setup, Shutdown
  PROVE  Keeps(key, key)
<1> DEFINE todo == {k \in Keys : pool[k] # 0}
<1>1. DisconnectSome(Main, transports, todo) /\ todo \in SUBSET Keys /\ Main \in Tasks \cup {Main}
  BY DEF Shutdown
<1>2. transports \in Seq(TransportRecords) /\ SessionsIn(transports)
  BY DEF IInv, Types, SessionsLive
<1> HIDE DEF todo
<1> QED BY <1>1, <1>2, DisconnectKeeps

(* A request ends, or tries again                                               *)
LEMMA EndsKeeps ==
  ASSUME IInv, NEW key, KeyedBy(key), UNCHANGED setup, NEW t \in Tasks \cup {Main},
         Answered(t) \/ TimedOut(t) \/ Lost(t) \/ Unwinds(t)
  PROVE  Keeps(key, key)
<1>1. /\ UNCHANGED <<setup, pool, transports, conns>>
      /\ \E r : /\ task' = [task EXCEPT ![t] = r] /\ DOMAIN r = Fields /\ r.todo = {}
                /\ r.pc \in {"start", "done"}
  <2>1. \A how : DOMAIN Done(how) = Fields /\ Done(how).todo = {} /\ Done(how).pc = "done"
    BY DEF Done, Fields
  <2>2. /\ DOMAIN NextAttempt(t) = Fields /\ NextAttempt(t).todo = {}
        /\ NextAttempt(t).pc \in {"start", "done"}
    BY DEF NextAttempt, Done, Fields
  <2>3. /\ UNCHANGED <<pool, transports, conns>>
        /\ \/ \E how : task' = [task EXCEPT ![t] = Done(how)]
           \/ task' = [task EXCEPT ![t] = NextAttempt(t)]
    BY DEF Answered, TimedOut, Lost, Unwinds
  <2> HIDE DEF Done, NextAttempt
  <2> QED BY <2>1, <2>2, <2>3
<1>2. /\ DOMAIN task' = Tasks \cup {Main} /\ task'[t].pc \in {"start", "done"}
      /\ \A u \in (Tasks \cup {Main}) \ {t} : task'[u] = task[u]
      /\ DOMAIN task'[t] = Fields /\ task'[t].todo \subseteq Keys
  BY <1>1, TaskIs
<1>3. pool' \in [Keys -> Nat] /\ \A k \in Keys : pool'[k] \in {0, pool[k]}
  BY <1>1 DEF IInv, Types
<1> QED BY <1>1, <1>2, <1>3, RequestOnlyKeeps DEF MainStates

(* A cancellation reaches an owner that is still connecting, or nothing yet      *)
LEMMA CancelKeeps ==
  ASSUME IInv, NEW key, KeyedBy(key), UNCHANGED setup, NEW t \in Tasks, Cancel(t)
  PROVE  Keeps(key, key)
<1> DEFINE c == task[t].conn
           y == conns[c].transport
           hits == AwaitsOwner(t) /\ conns[c].phase = "starting"
           to == [conns[c] EXCEPT !.phase = "closing", !.error = "cancelled"]
           x == [transports[y] EXCEPT !.state = "error", !.session = 0]
<1>1. /\ task' = [task EXCEPT ![t].gone = TRUE] /\ UNCHANGED pool
      /\ conns' = (IF hits THEN [conns EXCEPT ![c] = to] ELSE conns)
      /\ transports' = (IF hits THEN [transports EXCEPT ![y] = x] ELSE transports)
  BY DEF Cancel
<1>2. hits => conns[c].phase = "starting"
  OBVIOUS
<1>3. /\ conns \in Seq(ConnRecords) /\ transports \in Seq(TransportRecords)
      /\ Len(conns) \in Nat /\ Len(transports) \in Nat
      /\ pool \in [Keys -> Nat] /\ key \in [Nat -> Keys \cup {0}]
  BY Tables DEF IInv, Types, KeyedBy
<1>4. c \in 1..Len(conns) =>
        /\ to \in ConnRecords /\ to.transport = conns[c].transport
        /\ to.server = conns[c].server /\ to.user = conns[c].user
  BY Tables DEF IInv, ConnRecords
<1>5. y \in 1..Len(transports) => x \in TransportRecords /\ x.session = 0
  BY Tables DEF IInv, TransportRecords
<1> HIDE DEF c, y, hits, to, x
<1>6. /\ conns' \in Seq(ConnRecords) /\ Len(conns') = Len(conns)
      /\ \A d \in 1..Len(conns) :
           /\ conns'[d].transport = conns[d].transport
           /\ conns'[d].server = conns[d].server /\ conns'[d].user = conns[d].user
           /\ conns[d].phase = "live" => conns'[d].phase = "live"
  <2>1. CASE hits /\ c \in 1..Len(conns)
    <3>1. /\ conns' = [conns EXCEPT ![c] = to] /\ conns[c].phase # "live"
      BY <1>1, <1>2, <2>1
    <3> QED BY <1>3, <1>4, <2>1, <3>1
  <2>2. CASE ~(hits /\ c \in 1..Len(conns))
    <3>1. conns' = conns
      BY <1>1, <1>3, <2>2
    <3> QED BY <1>3, <3>1
  <2> QED BY <2>1, <2>2
<1>7. /\ transports' \in Seq(TransportRecords) /\ Len(transports') = Len(transports)
      /\ \A z \in 1..Len(transports) : transports'[z].session \in {0, transports[z].session}
  <2>1. CASE hits /\ y \in 1..Len(transports)
    <3>1. transports' = [transports EXCEPT ![y] = x]
      BY <1>1, <2>1
    <3> QED BY <1>3, <1>5, <2>1, <3>1
  <2>2. CASE ~(hits /\ y \in 1..Len(transports))
    <3>1. transports' = transports
      BY <1>1, <1>3, <2>2
    <3> QED BY <1>3, <3>1
  <2> QED BY <2>1, <2>2
<1>8. SessionsLive'
  BY <1>6, <1>7 DEF IInv, SessionsLive, SessionsIn
<1>9. /\ DOMAIN task' = Tasks \cup {Main}
      /\ \A u \in (Tasks \cup {Main}) \ {t} : task'[u] = task[u]
      /\ DOMAIN task'[t] = Fields /\ task'[t].todo \subseteq Keys
      /\ task'[t].pc = task[t].pc /\ task'[t].on = task[t].on /\ task'[t].conn = task[t].conn
  BY <1>1, TaskIs DEF Fields
<1>10. /\ Connecting(t) <=> task'[t].pc \in {"cleanup", "ready", "refused", "broken"}
       /\ At(t, "calling") <=> task'[t].pc = "calling"
  BY <1>9 DEF Connecting, At
<1>11. /\ Len(conns') >= Len(conns) /\ Len(transports') >= Len(transports)
       /\ \A d \in 1..Len(conns') : ~(d > Len(conns))
       /\ t \in Tasks \cup {Main}
  BY <1>3, <1>6, <1>7
<1>12. pool' \in [Keys -> Nat] /\ \A k \in Keys : pool'[k] \in {0, pool[k]}
  BY <1>1, <1>3
<1>13. \A d \in 1..Len(conns) :
         /\ conns'[d].transport = conns[d].transport
         /\ conns'[d].server = conns[d].server /\ conns'[d].user = conns[d].user
  BY <1>6
<1>14. /\ conns' \in Seq(ConnRecords) /\ transports' \in Seq(TransportRecords)
       /\ \A z \in 1..Len(transports) : key[z] = key[z]
  BY <1>6, <1>7
<1> QED BY <1>3, <1>8, <1>9, <1>10, <1>11, <1>12, <1>13, <1>14, RequestKeeps

LEMMA GetSessionKeeps ==
  ASSUME IInv, NEW key, KeyedBy(key), UNCHANGED setup, NEW t \in Tasks \cup {Main},
         GetSession(t) \/ Enter(t)
  PROVE  \E new : Keeps(key, new)
<1>1. t \in Tasks
  BY DEF GetSession, Enter, At, IInv, Types, MainStates
<1>2. CASE \E l, qs : Locked(t, l, qs)
  BY <1>1, <1>2, LockedKeeps
<1>3. CASE \E l : /\ task' = [task EXCEPT ![t].pc = "lock", ![t].lock = l]
                  /\ UNCHANGED <<pool, transports, conns>>
  <2>1. /\ DOMAIN task' = Tasks \cup {Main} /\ task'[t].pc = "lock"
        /\ \A u \in (Tasks \cup {Main}) \ {t} : task'[u] = task[u]
        /\ DOMAIN task'[t] = Fields /\ task'[t].todo \subseteq Keys
    <3> PICK l : task' = [task EXCEPT ![t].pc = "lock", ![t].lock = l]
      BY <1>3
    <3> DEFINE e == [task[t] EXCEPT !.pc = "lock", !.lock = l]
    <3>1. DOMAIN e = DOMAIN task[t] /\ task' = [task EXCEPT ![t] = e]
      OBVIOUS
    <3>2. DOMAIN task[t] = Fields
      BY TaskIs
    <3>3. e.pc = "lock" /\ e.todo = task[t].todo
      BY <3>2 DEF Fields
    <3> HIDE DEF e
    <3> QED BY <3>1, <3>3, TaskBecomes
  <2>2. /\ UNCHANGED <<setup, transports, conns>>
        /\ pool' \in [Keys -> Nat] /\ \A k \in Keys : pool'[k] \in {0, pool[k]}
    BY <1>3 DEF IInv, Types
  <2>3. Keeps(key, key)
    BY <1>1, <2>1, <2>2, RequestOnlyKeeps
  <2> QED BY <2>3
<1>4. \/ \E l, qs : Locked(t, l, qs)
      \/ \E l : /\ task' = [task EXCEPT ![t].pc = "lock", ![t].lock = l]
                /\ UNCHANGED <<pool, transports, conns>>
  BY DEF GetSession, Enter
<1> QED BY <1>2, <1>3, <1>4

(* One step per action                                                          *)
LEMMA NextKeeps ==
  ASSUME IInv, NEW key, KeyedBy(key), Next
  PROVE  \E new : Keeps(key, new)
<1>1. UNCHANGED setup
  BY DEF Next
<1>2. CASE Shutdown
  BY <1>1, <1>2, ShutdownKeeps
<1>3. ASSUME NEW t \in Tasks \cup {Main}, TaskStep(t) PROVE \E new : Keeps(key, new)
  <2>1. CASE GetSession(t) \/ Enter(t)
    BY <1>1, <2>1, GetSessionKeeps
  <2>2. CASE Ready(t)
    BY <1>1, <2>2, ReadyKeeps
  <2>3. CASE Answered(t) \/ TimedOut(t) \/ Lost(t) \/ Unwinds(t)
    BY <1>1, <2>3, EndsKeeps
  <2>4. CASE AfterCleanup(t)
    BY <1>1, <2>4, AfterCleanupKeeps
  <2>5. CASE AfterFailure(t)
    BY <1>1, <2>5, AfterFailureKeeps
  <2>6. CASE AfterDisconnect(t)
    BY <1>1, <2>6, AfterDisconnectKeeps
  <2> QED BY <1>3, <2>1, <2>2, <2>3, <2>4, <2>5, <2>6 DEF TaskStep
<1>4. ASSUME NEW t \in Tasks, Cancel(t) PROVE \E new : Keeps(key, new)
  BY <1>1, <1>4, CancelKeeps
<1>5. ASSUME NEW c \in DOMAIN conns, OwnerMoves(c) PROVE \E new : Keeps(key, new)
  <2>1. c \in 1..Len(conns)
    BY Tables DEF IInv
  <2> QED BY <1>1, <1>5, <2>1, OwnerMovesKeeps
<1> QED BY <1>2, <1>3, <1>4, <1>5 DEF Next
--------------------------------------------------------------------------------
LEMMA IInvInit == Init => IInv
<1> SUFFICES ASSUME Init PROVE IInv
  OBVIOUS
<1>1. /\ pool = [k \in Keys |-> 0] /\ transports = <<>> /\ conns = <<>>
      /\ task = [t \in Tasks \cup {Main} |-> [Done("none") EXCEPT !.pc = "start"]]
  BY DEF Init
<1>2. \A t \in Tasks \cup {Main} : DOMAIN task[t] = Fields /\ task[t].todo = {} /\ task[t].pc = "start"
  BY <1>1 DEF Done, Fields
<1>3. Types
  <2>1. <<>> \in Seq(TransportRecords) /\ <<>> \in Seq(ConnRecords)
    OBVIOUS
  <2> QED BY <1>1, <1>2, <2>1 DEF Types, MainStates
<1>4. /\ Len(transports) = 0 /\ Len(conns) = 0
      /\ \A t \in Tasks : ~At(t, "calling") /\ ~Connecting(t)
  BY <1>1, <1>2 DEF At, Connecting
<1>5. SessionsLive /\ CallsOwn
  BY <1>4 DEF SessionsLive, SessionsIn, CallsOwn
<1> DEFINE key == [x \in Nat |-> 0]
<1>6. key \in [Nat -> Keys \cup {0}] /\ \A k \in Keys : pool[k] = 0
  BY <1>1
<1> HIDE DEF key
<1>7. KeyedBy(key)
  BY <1>4, <1>6 DEF KeyedBy
<1> QED BY <1>3, <1>5, <1>7 DEF IInv

LEMMA IInvNext == IInv /\ [Next]_vars => IInv'
<1> SUFFICES ASSUME IInv, [Next]_vars PROVE IInv'
  OBVIOUS
<1>1. CASE Next
  <2>1. PICK key : KeyedBy(key)
    BY DEF IInv
  <2>2. PICK new : Keeps(key, new)
    BY <1>1, <2>1, NextKeeps
  <2> QED BY <2>1, <2>2, KeepsIsEnough
<1>2. CASE UNCHANGED vars
  <2>1. UNCHANGED <<setup, pool, transports, conns, task>>
    BY <1>2 DEF vars
  <2>2. /\ Keys' = Keys /\ ConnRecords' = ConnRecords /\ \A t : SessionKey(t)' = SessionKey(t)
        /\ \A c : KeyOf(c)' = KeyOf(c)
    BY <2>1 DEF Keys, SessionKey, ConnRecords, KeyOf
  <2>3. \A t : (At(t, "calling")' <=> At(t, "calling")) /\ (Connecting(t)' <=> Connecting(t))
    BY <2>1 DEF At, Connecting
  <2>4. Types'
    BY <2>1, <2>2 DEF IInv, Types
  <2>5. SessionsLive'
    BY <2>1 DEF IInv, SessionsLive, SessionsIn
  <2>6. CallsOwn'
    BY <2>1, <2>2, <2>3 DEF IInv, CallsOwn
  <2>7. PICK key : KeyedBy(key)
    BY DEF IInv
  <2>8. KeyedBy(key)'
    BY <2>1, <2>2, <2>3, <2>7 DEF KeyedBy
  <2> QED BY <2>4, <2>5, <2>6, <2>8 DEF IInv
<1> QED BY <1>1, <1>2

LEMMA AlwaysIInv == Spec => []IInv
BY IInvInit, IInvNext, PTL DEF Spec

(* However connections, failures, cancellations and disconnects of any number  *)
(* of requests interleave, a request is only ever sent over a session opened   *)
(* for its own user and server (_SessionKey, issue #50).                      *)
THEOREM RequestsUseOwnSessions == Spec => []SessionIsolation
<1>1. IInv => SessionIsolation
  BY DEF IInv, CallsOwn, SessionIsolation, KeyOf, SessionKey
<1> QED BY <1>1, AlwaysIInv, PTL

(* get_session hands out a session only while its owner holds it open           *)
(* (MCPTransport.session): the session of a transport is cleared by the owner   *)
(* that leaves, before anybody else runs.                                     *)
THEOREM CallsStartOpen == Spec => CallsStartOnOpenSession
<1> DEFINE Starts == \A t \in Tasks : ~At(t, "calling") /\ task'[t].pc = "calling" =>
                       conns[task'[t].conn].phase = "live"
<1>1. IInv /\ [Next]_vars => [Starts]_vars
  <2> SUFFICES ASSUME IInv, Next PROVE Starts
    OBVIOUS
  <2>1. PICK key : KeyedBy(key)
    BY DEF IInv
  <2>2. PICK new : Keeps(key, new)
    BY <2>1, NextKeeps
  <2>3. \A t \in Tasks : At(t, "calling")' <=> task'[t].pc = "calling"
    BY DEF At
  <2> QED BY <2>2, <2>3 DEF Keeps
<1> HIDE DEF Starts
<1>2. Spec => [][Starts]_vars
  BY <1>1, AlwaysIInv, PTL DEF Spec
<1> QED BY <1>2 DEF Starts, CallsStartOnOpenSession
--------------------------------------------------------------------------------
(* For the rest the locks do matter.  While no connection is refused nobody but   *)
(* the gateway disconnects; then who connects holds the lock of the key, so that *)
(* a user opens one connection at a time, and the one that is open is that of    *)
(* the transport in the pool.                                                   *)
Calm == "refused" \notin setup.faults

HeadIs(q, t) == q # <<>> /\ Head(q) = t
Occurs(q, t) == \E i \in 1..Len(q) : q[i] = t

(* Who waits for the lock of his key is in its queue, who connects is its head    *)
Placed(t) ==
  /\ At(t, "lock") \/ Connecting(t) => task[t].lock = lock[SessionKey(t)] /\ task[t].lock # 0
  /\ At(t, "lock") => Occurs(queue[task[t].lock], t)
  /\ Connecting(t) => HeadIs(queue[task[t].lock], t)

LocksDiffer(lk) == \A j, k \in Keys : lk[j] # 0 /\ lk[j] = lk[k] => j = k

Locks ==
  /\ queue \in Seq(Seq(Tasks)) /\ lock \in [Keys -> 0..Len(queue)] /\ LocksDiffer(lock)
  /\ \A t \in Tasks : Placed(t)

Ownership ==
  /\ \A x \in 1..Len(transports) : transports[x].owner # 0 =>
       transports[x].owner \in 1..Len(conns) /\ conns[transports[x].owner].transport = x
  /\ \A c \in 1..Len(conns) : KeyOf(c) \in Keys
  /\ \A c \in 1..Len(conns) : conns[c].phase # "done" =>
       pool[KeyOf(c)] # 0 /\ transports[pool[KeyOf(c)]].owner = c
  /\ \A t \in Tasks : Connecting(t) =>
       /\ task[t].on = pool[SessionKey(t)] /\ task[t].on # 0
       /\ task[t].conn = transports[task[t].on].owner /\ task[t].conn # 0

(* Only the gateway disconnects, when everybody else is done                     *)
Unrefused ==
  /\ \A c \in 1..Len(conns) : conns[c].error # "refused"
  /\ \A t \in Tasks : task[t].pc \notin {"refused", "disconnecting"}
  /\ ~task[Main].gone
  /\ ~At(Main, "start") => \A t \in Tasks : At(t, "done")

(* While nobody is cancelled either, somebody waits for every connection that is *)
(* being opened, and the state of a transport tells whether it has an owner.     *)
Opening ==
  /\ \A c \in 1..Len(conns) : conns[c].phase = "starting" =>
       \E t \in Tasks : At(t, "ready") /\ task[t].conn = c
  /\ \A x \in 1..Len(transports) :
       /\ transports[x].state = "connecting" =>
            transports[x].owner # 0 /\ conns[transports[x].owner].phase = "starting"
       /\ transports[x].state = "disconnected" => transports[x].owner = 0
       /\ transports[x].state # "disconnecting"

(* A connection that the gateway has still to close                              *)
Remains(trs, todo, c) ==
  /\ KeyOf(c) \in todo /\ pool[KeyOf(c)] # 0
  /\ trs[pool[KeyOf(c)]].owner = c /\ Disconnects(pool[KeyOf(c)], trs)

Closing ==
  /\ \A c \in 1..Len(conns) : conns[c].phase # "starting"
  /\ At(Main, "disconnecting") =>
       /\ \A k \in task[Main].todo : pool[k] # task[Main].on
       /\ \A c \in 1..Len(conns) : conns[c].phase # "done" =>
            c = task[Main].conn \/ Remains(transports, task[Main].todo, c)
  /\ At(Main, "done") => \A c \in 1..Len(conns) : conns[c].phase = "done"

Uncancelled ==
  /\ \A t \in Tasks : ~task[t].gone
  /\ At(Main, "start") => Opening
  /\ ~At(Main, "start") => Closing

CInv ==
  Calm => /\ Unrefused
          /\ At(Main, "start") => Locks /\ Ownership
          /\ "cancelled" \notin setup.faults => Uncancelled
--------------------------------------------------------------------------------
(* Who stands where in the queue r has not been passed since it was q, except    *)
(* for t                                                                       *)
KeepsPlaces(t, q, r) ==
  /\ r \in Seq(Seq(Tasks)) /\ Len(r) >= Len(q)
  /\ \A l \in 1..Len(q) : \A u \in Tasks \ {t} :
       /\ Occurs(q[l], u) => Occurs(r[l], u)
       /\ HeadIs(q[l], u) => HeadIs(r[l], u)

LEMMA PlacesTwice ==
  ASSUME NEW t, NEW q \in Seq(Seq(Tasks)), NEW r, NEW s, KeepsPlaces(t, q, r), KeepsPlaces(t, r, s)
  PROVE  KeepsPlaces(t, q, s)
<1>1. Len(q) \in Nat /\ Len(r) \in Nat /\ Len(s) \in Nat
  BY DEF KeepsPlaces
<1>2. Len(s) >= Len(q) /\ \A l \in 1..Len(q) : l \in 1..Len(r)
  BY <1>1 DEF KeepsPlaces
<1> QED BY <1>2 DEF KeepsPlaces

LEMMA PlacesSame == ASSUME NEW t, NEW q \in Seq(Seq(Tasks)) PROVE KeepsPlaces(t, q, q)
<1>1. Len(q) \in Nat
  OBVIOUS
<1> QED BY <1>1 DEF KeepsPlaces

LEMMA OneQueueChanges ==
  ASSUME NEW t, NEW q \in Seq(Seq(Tasks)), NEW l \in 1..Len(q), NEW p \in Seq(Tasks),
         \A u \in Tasks \ {t} : /\ Occurs(q[l], u) => Occurs(p, u)
                                /\ HeadIs(q[l], u) => HeadIs(p, u)
  PROVE  KeepsPlaces(t, q, [q EXCEPT ![l] = p])
<1> DEFINE r == [q EXCEPT ![l] = p]
<1>1. Len(q) \in Nat /\ r \in Seq(Seq(Tasks)) /\ Len(r) = Len(q)
  OBVIOUS
<1>2. r[l] = p /\ \A j \in 1..Len(q) \ {l} : r[j] = q[j]
  OBVIOUS
<1> HIDE DEF r
<1>3. Len(r) >= Len(q)
  BY <1>1
<1>4. KeepsPlaces(t, q, r)
  BY <1>1, <1>2, <1>3 DEF KeepsPlaces
<1> QED BY <1>4 DEF r

LEMMA HeadIsFirst ==
  ASSUME NEW q \in Seq(Tasks), NEW t
  PROVE  HeadIs(q, t) <=> Len(q) >= 1 /\ q[1] = t
BY DEF HeadIs

(* The lock is created, and t takes it                                         *)
LEMMA QueueCreated ==
  ASSUME NEW t \in Tasks, NEW q \in Seq(Seq(Tasks))
  PROVE  /\ KeepsPlaces(t, q, Append(q, <<t>>))
         /\ Append(q, <<t>>)[Len(q) + 1] = <<t>> /\ Len(Append(q, <<t>>)) = Len(q) + 1
<1> DEFINE e == <<t>>
           r == Append(q, e)
<1>1. e \in Seq(Tasks)
  OBVIOUS
<1> HIDE DEF e
<1>2. /\ r \in Seq(Seq(Tasks)) /\ Len(r) = Len(q) + 1 /\ Len(q) \in Nat /\ r[Len(q) + 1] = e
      /\ \A l \in 1..Len(q) : r[l] = q[l]
  BY <1>1
<1> HIDE DEF r
<1>3. Len(r) >= Len(q)
  BY <1>2
<1>4. KeepsPlaces(t, q, r)
  BY <1>2, <1>3 DEF KeepsPlaces
<1> QED BY <1>2, <1>4 DEF r, e

(* t queues up                                                                *)
LEMMA QueueJoined ==
  ASSUME NEW t \in Tasks, NEW q \in Seq(Seq(Tasks)), NEW l \in 1..Len(q)
  PROVE  /\ KeepsPlaces(t, q, [q EXCEPT ![l] = Append(@, t)])
         /\ [q EXCEPT ![l] = Append(@, t)][l] = Append(q[l], t)
<1> DEFINE p == Append(q[l], t)
<1>1. q[l] \in Seq(Tasks)
  OBVIOUS
<1>2. /\ p \in Seq(Tasks) /\ Len(p) = Len(q[l]) + 1 /\ Len(q[l]) \in Nat
      /\ \A i \in 1..Len(q[l]) : p[i] = q[l][i]
  BY <1>1
<1>3. [q EXCEPT ![l] = Append(@, t)] = [q EXCEPT ![l] = p] /\ [q EXCEPT ![l] = p][l] = p
  OBVIOUS
<1> HIDE DEF p
<1>4. \A u \in Tasks : Occurs(q[l], u) => Occurs(p, u)
  <2>1. \A i \in 1..Len(q[l]) : i \in 1..Len(p)
    BY <1>2
  <2> QED BY <1>2, <2>1 DEF Occurs
<1>5. ASSUME NEW u \in Tasks, HeadIs(q[l], u) PROVE HeadIs(p, u)
  <2>1. Len(q[l]) >= 1 /\ q[l][1] = u
    BY <1>1, <1>5, HeadIsFirst
  <2>2. p[1] = u /\ Len(p) >= 1
    BY <1>2, <2>1
  <2> QED BY <1>2, <2>2, HeadIsFirst
<1>6. KeepsPlaces(t, q, [q EXCEPT ![l] = p])
  BY <1>2, <1>4, <1>5, OneQueueChanges
<1> QED BY <1>3, <1>6 DEF p

(* t, which holds the lock, releases it                                        *)
LEMMA QueueReleased ==
  ASSUME NEW t \in Tasks, NEW q \in Seq(Seq(Tasks)), NEW l \in 1..Len(q), HeadIs(q[l], t)
  PROVE  KeepsPlaces(t, q, Released(l, q))
<1> DEFINE p == Tail(q[l])
<1>1. q[l] \in Seq(Tasks)
  OBVIOUS
<1>2. Len(q[l]) \in Nat /\ Len(q[l]) >= 1 /\ q[l][1] = t
  BY <1>1, HeadIsFirst
<1>3. /\ p \in Seq(Tasks) /\ Len(p) = Len(q[l]) - 1
      /\ \A i \in 1..Len(p) : p[i] = q[l][i + 1]
  BY <1>1, <1>2
<1> HIDE DEF p
<1>4. ASSUME NEW u \in Tasks \ {t}, Occurs(q[l], u) PROVE Occurs(p, u)
  <2>1. PICK i \in 1..Len(q[l]) : q[l][i] = u
    BY <1>4 DEF Occurs
  <2>2. i # 1
    BY <1>2, <2>1
  <2>3. PICK j \in 1..Len(p) : i = j + 1
    <3>1. i - 1 \in 1..Len(p) /\ i = (i - 1) + 1
      BY <1>2, <1>3, <2>2
    <3> QED BY <3>1
  <2> QED BY <1>3, <2>1, <2>3 DEF Occurs
<1>5. \A u \in Tasks \ {t} : ~HeadIs(q[l], u)
  BY DEF HeadIs
<1>6. KeepsPlaces(t, q, [q EXCEPT ![l] = p])
  BY <1>3, <1>4, <1>5, OneQueueChanges
<1> QED BY <1>6 DEF p, Released

(* t, which is cancelled, leaves the queue                                     *)
LEMMA QueueLeft ==
  ASSUME NEW t \in Tasks, NEW q \in Seq(Seq(Tasks)), NEW l \in 1..Len(q), Occurs(q[l], t)
  PROVE  KeepsPlaces(t, q, [q EXCEPT ![l] = Without(@, t)])
<1> DEFINE s == q[l]
           at == CHOOSE i \in DOMAIN s : s[i] = t
           p == [i \in 1..(Len(s) - 1) |-> s[IF i < at THEN i ELSE i + 1]]
<1>1. s \in Seq(Tasks)
  OBVIOUS
<1>2. [q EXCEPT ![l] = Without(@, t)] = [q EXCEPT ![l] = p]
  BY DEF Without
<1>3. at \in 1..Len(s) /\ s[at] = t /\ DOMAIN s = 1..Len(s) /\ Len(s) \in Nat
  BY <1>1 DEF Occurs
<1> HIDE DEF s, at
<1>4. p \in Seq(Tasks) /\ Len(p) = Len(s) - 1
  <2>1. PICK n \in Nat : n = Len(s) - 1
    <3>1. Len(s) - 1 \in Nat
      BY <1>3
    <3> QED BY <3>1
  <2>2. p \in [1..n -> Tasks]
    <3>1. \A i \in 1..n : i \in 1..Len(s) /\ i + 1 \in 1..Len(s)
      BY <1>3, <2>1
    <3>2. \A i \in 1..n : s[IF i < at THEN i ELSE i + 1] \in Tasks
      BY <1>1, <3>1
    <3> QED BY <2>1, <3>2
  <2> HIDE DEF p
  <2> QED BY <2>1, <2>2, FunIsSeq
<1>5. \A i \in 1..(Len(s) - 1) : p[i] = s[IF i < at THEN i ELSE i + 1]
  OBVIOUS
<1> HIDE DEF p
<1>6. ASSUME NEW u \in Tasks \ {t}, Occurs(s, u) PROVE Occurs(p, u)
  <2>1. PICK i \in 1..Len(s) : s[i] = u
    BY <1>6 DEF Occurs
  <2>2. i # at
    BY <1>3, <2>1
  <2>3. PICK j \in 1..(Len(s) - 1) : i = IF j < at THEN j ELSE j + 1
    <3>1. CASE i < at
      <4>1. i \in 1..(Len(s) - 1)
        BY <1>3, <3>1
      <4> QED BY <3>1, <4>1
    <3>2. CASE ~(i < at)
      <4>1. i - 1 \in 1..(Len(s) - 1) /\ ~(i - 1 < at) /\ i = (i - 1) + 1
        BY <1>3, <2>2, <3>2
      <4> QED BY <4>1
    <3> QED BY <3>1, <3>2
  <2> QED BY <1>4, <1>5, <2>1, <2>3 DEF Occurs
<1>7. ASSUME NEW u \in Tasks \ {t}, HeadIs(s, u) PROVE HeadIs(p, u)
  <2>1. Len(s) >= 1 /\ s[1] = u
    BY <1>1, <1>7, HeadIsFirst
  <2>2. at # 1 /\ 1 < at /\ 1 \in 1..(Len(s) - 1)
    BY <1>3, <2>1
  <2>3. p[1] = u /\ Len(p) >= 1
    BY <1>4, <1>5, <2>1, <2>2, <1>3
  <2> QED BY <1>4, <2>3, HeadIsFirst
<1>8. KeepsPlaces(t, q, [q EXCEPT ![l] = p])
  BY <1>4, <1>6, <1>7, OneQueueChanges DEF s
<1> QED BY <1>2, <1>8
--------------------------------------------------------------------------------
LEMMA PoolIs ==
  ASSUME IInv
  PROVE  /\ \A k \in Keys : pool[k] # 0 => pool[k] \in 1..Len(transports)
         /\ \A j, k \in Keys : pool[j] # 0 /\ pool[j] = pool[k] => j = k
<1>1. PICK key : KeyedBy(key)
  BY DEF IInv
<1> QED BY <1>1 DEF KeyedBy

LEMMA SetupStays ==
  ASSUME UNCHANGED setup
  PROVE  Keys' = Keys /\ \A t : SessionKey(t)' = SessionKey(t)
BY DEF Keys, SessionKey

LEMMA KeyIs == \A t \in Tasks : SessionKey(t) \in Keys
BY DEF Keys

(* A step of t                                                                 *)
Moves(t) ==
  /\ UNCHANGED setup /\ DOMAIN task' = Tasks \cup {Main}
  /\ \A u \in (Tasks \cup {Main}) \ {t} : task'[u] = task[u]

(* Nobody else connects with the key of t                                       *)
LEMMA Alone ==
  ASSUME Locks, NEW t \in Tasks, NEW u \in Tasks, Connecting(t), Connecting(u),
         SessionKey(t) = SessionKey(u)
  PROVE  t = u
<1>1. task[t].lock = task[u].lock
  BY DEF Locks, Placed
<1> QED BY <1>1 DEF Locks, Placed, HeadIs

LEMMA AloneNext ==
  ASSUME UNCHANGED setup, Locks', NEW t \in Tasks, NEW u \in Tasks, Connecting(t)', Connecting(u)',
         SessionKey(t) = SessionKey(u)
  PROVE  t = u
<1>1. Placed(t)' /\ Placed(u)'
  BY DEF Locks
<1>2. task'[t].lock = task'[u].lock
  BY <1>1, SetupStays DEF Placed
<1> QED BY <1>1, <1>2 DEF Placed, HeadIs

LEMMA LocksStep ==
  ASSUME Locks, NEW t \in Tasks, Moves(t), KeepsPlaces(t, queue, queue'),
         lock' \in [Keys -> 0..Len(queue')], LocksDiffer(lock'),
         \A k \in Keys : lock[k] # 0 => lock'[k] = lock[k],
         Placed(t)'
  PROVE  Locks'
<1>1. Keys' = Keys /\ (\A u : SessionKey(u)' = SessionKey(u)) /\ Len(queue) \in Nat
  BY SetupStays DEF Moves, Locks
<1>2. queue' \in Seq(Seq(Tasks)) /\ lock' \in [Keys' -> 0..Len(queue')] /\ LocksDiffer(lock)'
  BY <1>1 DEF KeepsPlaces, LocksDiffer
<1>3. ASSUME NEW u \in Tasks PROVE Placed(u)'
  <2>1. CASE u = t
    BY <2>1
  <2>2. CASE u # t
    <3>1. task'[u] = task[u] /\ Placed(u) /\ SessionKey(u) \in Keys
      BY <2>2, KeyIs DEF Moves, Locks
    <3>2. (At(u, "lock")' <=> At(u, "lock")) /\ (Connecting(u)' <=> Connecting(u))
      BY <3>1 DEF At, Connecting
    <3>3. CASE At(u, "lock") \/ Connecting(u)
      <4>1. task[u].lock = lock[SessionKey(u)] /\ task[u].lock # 0
        BY <3>1, <3>3 DEF Placed
      <4>2. lock'[SessionKey(u)] = task'[u].lock
        BY <3>1, <4>1
      <4>3. task[u].lock \in 1..Len(queue)
        <5>1. lock[SessionKey(u)] \in 0..Len(queue)
          BY <3>1 DEF Locks
        <5> QED BY <1>1, <4>1, <5>1
      <4>4. /\ Occurs(queue[task[u].lock], u) => Occurs(queue'[task[u].lock], u)
            /\ HeadIs(queue[task[u].lock], u) => HeadIs(queue'[task[u].lock], u)
        BY <2>2, <4>3 DEF KeepsPlaces
      <4>5. /\ At(u, "lock")' => Occurs(queue'[task'[u].lock], u)
            /\ Connecting(u)' => HeadIs(queue'[task'[u].lock], u)
        BY <3>1, <3>2, <4>4 DEF Placed
      <4>6. SessionKey(u)' = SessionKey(u) /\ task'[u].lock # 0
        BY <1>1, <3>1, <4>1
      <4> QED BY <4>2, <4>5, <4>6 DEF Placed, Occurs, HeadIs
    <3>4. CASE ~(At(u, "lock") \/ Connecting(u))
      BY <3>2, <3>4 DEF Placed
    <3> QED BY <3>3, <3>4
  <2> QED BY <2>1, <2>2
<1> QED BY <1>2, <1>3 DEF Locks

(* get_session takes the lock l of the key k: the one in the table, or a new one  *)
LEMMA LockTaken ==
  ASSUME Locks, NEW k \in Keys, NEW l, NEW n \in Nat, n >= Len(queue), l \in 1..n,
         lock[k] = l \/ (lock[k] = 0 /\ l = Len(queue) + 1), lock' = [lock EXCEPT ![k] = l]
  PROVE  /\ lock' \in [Keys -> 0..n] /\ LocksDiffer(lock') /\ lock'[k] = l
         /\ \A j \in Keys : lock[j] # 0 => lock'[j] = lock[j]
<1>1. lock \in [Keys -> 0..Len(queue)] /\ LocksDiffer(lock) /\ Len(queue) \in Nat
  BY DEF Locks
<1>2. /\ DOMAIN lock' = Keys /\ lock'[k] = l /\ lock' = [j \in Keys |-> lock'[j]]
      /\ \A j \in Keys \ {k} : lock'[j] = lock[j]
  BY <1>1
<1>3. \A j \in Keys : lock[j] \in 0..n /\ lock[j] # Len(queue) + 1
  <2> TAKE j \in Keys
  <2>1. lock[j] \in 0..Len(queue)
    BY <1>1
  <2> QED BY <1>1, <2>1
<1>4. \A j \in Keys : lock'[j] \in 0..n
  <2>1. l \in 0..n
    OBVIOUS
  <2> QED BY <1>2, <1>3, <2>1
<1>5. LocksDiffer(lock')
  <2> SUFFICES ASSUME NEW i \in Keys, NEW j \in Keys, lock'[i] # 0, lock'[i] = lock'[j] PROVE i = j
    BY DEF LocksDiffer
  <2>1. CASE lock[k] = l
    <3>1. lock' = lock
      BY <1>1, <2>1
    <3> QED BY <1>1, <3>1 DEF LocksDiffer
  <2>2. CASE lock[k] # l
    <3>1. \A h \in Keys \ {k} : lock'[h] # l
      BY <1>2, <1>3, <2>2
    <3> QED BY <1>1, <1>2, <3>1 DEF LocksDiffer
  <2> QED BY <2>1, <2>2
<1>6. \A j \in Keys : lock[j] # 0 => lock'[j] = lock[j]
  BY <1>2
<1> QED BY <1>2, <1>4, <1>5, <1>6

(* How the task of a connecting request is rewritten                             *)
Rewritten(t, p, l, x, c) ==
  task' = [task EXCEPT ![t].pc = p, ![t].lock = l, ![t].on = x, ![t].conn = c]

LEMMA ConnectsAs ==
  ASSUME IInv, UNCHANGED setup, NEW t \in Tasks, NEW p, NEW l, NEW x, NEW c,
         Rewritten(t, p, l, x, c)
  PROVE  /\ Moves(t) /\ task'[t].pc = p /\ task'[t].lock = l /\ task'[t].on = x
         /\ task'[t].conn = c /\ task'[t].gone = task[t].gone
<1> DEFINE e == [task[t] EXCEPT !.pc = p, !.lock = l, !.on = x, !.conn = c]
<1>1. DOMAIN e = DOMAIN task[t] /\ task' = [task EXCEPT ![t] = e]
  BY DEF Rewritten
<1>2. DOMAIN task[t] = Fields /\ DOMAIN task = Tasks \cup {Main}
  BY TaskIs
<1>3. /\ e.pc = p /\ e.lock = l /\ e.on = x /\ e.conn = c /\ e.todo = task[t].todo
      /\ e.gone = task[t].gone
  BY <1>2 DEF Fields
<1> HIDE DEF e
<1>4. /\ DOMAIN task' = Tasks \cup {Main} /\ task'[t] = e
      /\ \A u \in (Tasks \cup {Main}) \ {t} : task'[u] = task[u]
  BY <1>1, <1>2
<1> QED BY <1>3, <1>4 DEF Moves

(* What a step does to the tables: nothing, ...                                  *)
Rests(t) ==
  /\ Moves(t) /\ UNCHANGED <<pool, transports, conns>>
  /\ task'[t].pc \in {"start", "lock", "calling", "done"}
  /\ At(t, "ready") => conns[task[t].conn].phase # "starting" \/ task[t].gone
  /\ task'[t].gone => task[t].gone

(* ... it opens a connection c for the pooled transport x, whose last one is over, *)
Starts(t, x, c) ==
  /\ Moves(t) /\ ~At(t, "ready") /\ c = Len(conns) + 1
  /\ pool' = [pool EXCEPT ![SessionKey(t)] = x]
  /\ \/ pool[SessionKey(t)] = x /\ x \in 1..Len(transports) /\ Ended(transports[x].owner)
     \/ pool[SessionKey(t)] = 0 /\ x = Len(transports) + 1
  /\ x \in 1..Len(transports') /\ Len(transports') >= Len(transports)
  /\ \A y \in 1..Len(transports') \ {x} : y \in 1..Len(transports) /\ transports'[y] = transports[y]
  /\ transports'[x].state = "connecting" /\ transports'[x].owner = c
  /\ Len(conns') = c /\ \A d \in 1..Len(conns) : conns'[d] = conns[d]
  /\ conns'[c].transport = x /\ <<conns'[c].server, conns'[c].user>> = SessionKey(t)
  /\ conns'[c].phase = "starting" /\ conns'[c].error = "none"
  /\ task'[t].pc = "ready" /\ task'[t].on = x /\ task'[t].conn = c
  /\ task'[t].gone = task[t].gone

(* ... it tells the connection c of the pooled transport to stop,                  *)
Stops(t, x, c) ==
  /\ Moves(t) /\ UNCHANGED <<pool, transports>>
  /\ pool[SessionKey(t)] = x /\ x # 0 /\ transports[x].owner = c /\ c # 0
  /\ At(t, "ready") => conns[task[t].conn].phase # "starting"
  /\ Len(conns') = Len(conns)
  /\ \A d \in 1..Len(conns) :
       /\ conns'[d].transport = conns[d].transport /\ conns'[d].phase = conns[d].phase
       /\ conns'[d].server = conns[d].server /\ conns'[d].user = conns[d].user
       /\ conns'[d].error = conns[d].error
  /\ task'[t].pc \in {"cleanup", "broken"} /\ task'[t].on = x /\ task'[t].conn = c
  /\ task'[t].gone = task[t].gone

(* ... or it gives up the transport it has connected.                             *)
Fails(t, x) ==
  /\ Moves(t) /\ UNCHANGED <<pool, conns>>
  /\ Connecting(t) /\ x = task[t].on /\ Ended(transports[x].owner)
  /\ At(t, "ready") => conns[task[t].conn].phase # "starting"
  /\ Len(transports') = Len(transports)
  /\ \A y \in 1..Len(transports) \ {x} : transports'[y] = transports[y]
  /\ transports'[x].state = "error" /\ transports'[x].owner = 0
  /\ task'[t].pc = "done" /\ ~task'[t].gone

Acts(t) ==
  \/ Rests(t)
  \/ \E x, c : Starts(t, x, c) \/ Stops(t, x, c)
  \/ \E x : Fails(t, x)

LEMMA StartOwnerIs ==
  ASSUME IInv, UNCHANGED setup, NEW t \in Tasks, NEW l, NEW trs \in Seq(TransportRecords),
         NEW x \in 1..Len(trs), Len(trs) >= Len(transports), StartOwner(t, l, x, trs),
         ~At(t, "ready"), pool' = [pool EXCEPT ![SessionKey(t)] = x],
         \A y \in 1..Len(trs) \ {x} : y \in 1..Len(transports) /\ trs[y] = transports[y],
         \/ pool[SessionKey(t)] = x /\ x \in 1..Len(transports) /\ Ended(transports[x].owner)
         \/ pool[SessionKey(t)] = 0 /\ x = Len(transports) + 1
  PROVE  Starts(t, x, Len(conns) + 1) /\ task'[t].lock = l /\ Connecting(t)' /\ ~At(t, "lock")'
<1> DEFINE n == Len(conns)
           c == n + 1
           o == [transport |-> x, server |-> setup.server[t], user |-> setup.user[t],
                 phase |-> "starting", stop |-> FALSE, error |-> "none"]
           e == [trs[x] EXCEPT !.state = "connecting", !.owner = c]
<1>1. conns \in Seq(ConnRecords) /\ n \in Nat /\ Len(trs) \in Nat
  BY Tables DEF IInv, Types
<1>2. /\ conns' = Append(conns, o) /\ transports' = [trs EXCEPT ![x] = e]
      /\ Rewritten(t, "ready", l, x, c)
  BY DEF StartOwner, Rewritten
<1>3. /\ o.transport = x /\ <<o.server, o.user>> = SessionKey(t) /\ o.phase = "starting"
      /\ o.error = "none"
  BY DEF SessionKey
<1>4. /\ e.state = "connecting" /\ e.owner = c
  <2>1. trs[x] \in TransportRecords
    OBVIOUS
  <2> HIDE DEF c
  <2> QED BY <2>1 DEF TransportRecords
<1> HIDE DEF o, e
<1>5. /\ Len(conns') = c /\ conns'[c] = o /\ \A d \in 1..n : conns'[d] = conns[d]
  BY <1>1, <1>2
<1> HIDE DEF c
<1>6. /\ Len(transports') = Len(trs) /\ transports'[x] = e
      /\ \A y \in 1..Len(trs) \ {x} : transports'[y] = trs[y]
  BY <1>2
<1>7. /\ Moves(t) /\ task'[t].pc = "ready" /\ task'[t].lock = l /\ task'[t].on = x
      /\ task'[t].conn = c /\ task'[t].gone = task[t].gone
  BY <1>2, ConnectsAs
<1>8. Starts(t, x, c)
  <2>1. c = Len(conns) + 1 /\ n = Len(conns)
    BY DEF c
  <2> HIDE DEF n
  <2> QED BY <1>3, <1>4, <1>5, <1>6, <1>7, <2>1 DEF Starts
<1>9. Connecting(t)' /\ ~At(t, "lock")'
  BY <1>7 DEF Connecting, At
<1> QED BY <1>7, <1>8, <1>9 DEF c

LEMMA StopOwnerIs ==
  ASSUME IInv, UNCHANGED <<setup, pool>>, NEW t \in Tasks, NEW l, NEW x,
         NEW where \in {"cleanup", "broken"}, StopOwner(t, where, l, x, transports),
         pool[SessionKey(t)] = x, x # 0, ~Ended(transports[x].owner),
         At(t, "ready") => conns[task[t].conn].phase # "starting"
  PROVE  Stops(t, x, transports[x].owner) /\ task'[t].lock = l /\ Connecting(t)' /\ ~At(t, "lock")'
<1> DEFINE c == transports[x].owner
<1>1. /\ conns' = [conns EXCEPT ![c].stop = TRUE] /\ UNCHANGED transports
      /\ Rewritten(t, where, l, x, c) /\ UNCHANGED setup
  BY DEF StopOwner, Rewritten
<1>2. c # 0
  BY DEF Ended
<1> HIDE DEF c
<1>3. /\ Len(conns') = Len(conns)
      /\ \A d \in 1..Len(conns) :
           /\ conns'[d].transport = conns[d].transport /\ conns'[d].phase = conns[d].phase
           /\ conns'[d].server = conns[d].server /\ conns'[d].user = conns[d].user
           /\ conns'[d].error = conns[d].error
  <2> DEFINE e == [conns[c] EXCEPT !.stop = TRUE]
  <2>1. conns \in Seq(ConnRecords) /\ conns' = [conns EXCEPT ![c] = e]
    BY <1>1 DEF IInv, Types
  <2>2. /\ e.transport = conns[c].transport /\ e.phase = conns[c].phase
        /\ e.server = conns[c].server /\ e.user = conns[c].user /\ e.error = conns[c].error
    OBVIOUS
  <2> HIDE DEF e
  <2>3. Len(conns') = Len(conns) /\ \A d \in 1..Len(conns) : conns'[d] = IF d = c THEN e ELSE conns[d]
    BY <2>1
  <2> QED BY <2>2, <2>3
<1>4. /\ Moves(t) /\ task'[t].pc = where /\ task'[t].lock = l /\ task'[t].on = x
      /\ task'[t].conn = c /\ task'[t].gone = task[t].gone
  BY <1>1, ConnectsAs
<1>5. c = transports[x].owner
  BY DEF c
<1>6. Stops(t, x, c)
  BY <1>1, <1>2, <1>3, <1>4, <1>5 DEF Stops
<1>7. Connecting(t)' /\ ~At(t, "lock")'
  BY <1>4 DEF Connecting, At
<1> QED BY <1>4, <1>5, <1>6, <1>7
--------------------------------------------------------------------------------
LEMMA Replaced ==
  ASSUME IInv, UNCHANGED setup, NEW t \in Tasks \cup {Main}, NEW r, task' = [task EXCEPT ![t] = r]
  PROVE  Moves(t) /\ task'[t] = r
<1>1. DOMAIN task = Tasks \cup {Main}
  BY TaskIs
<1> QED BY <1>1 DEF Moves

(* A step of t that leaves the table of locks alone                             *)
LEMMA LocksStay ==
  ASSUME Locks, NEW t \in Tasks, Moves(t), UNCHANGED lock, KeepsPlaces(t, queue, queue'),
         \/ ~At(t, "lock")' /\ ~Connecting(t)'
         \/ /\ Connecting(t) /\ Connecting(t)' /\ ~At(t, "lock")' /\ task'[t].lock = task[t].lock
            /\ UNCHANGED queue
  PROVE  Locks'
<1>1. Len(queue) \in Nat /\ Len(queue') \in Nat /\ Len(queue') >= Len(queue)
  BY DEF Locks, KeepsPlaces
<1>2. lock' \in [Keys -> 0..Len(queue')]
  <2>1. lock' \in [Keys -> 0..Len(queue)] /\ 0..Len(queue) \subseteq 0..Len(queue')
    BY <1>1 DEF Locks
  <2> QED BY <2>1
<1>3. LocksDiffer(lock') /\ \A k \in Keys : lock[k] # 0 => lock'[k] = lock[k]
  BY DEF Locks
<1>4. Placed(t)'
  <2>1. CASE ~At(t, "lock")' /\ ~Connecting(t)'
    BY <2>1 DEF Placed
  <2>2. CASE /\ Connecting(t) /\ Connecting(t)' /\ ~At(t, "lock")' /\ task'[t].lock = task[t].lock
             /\ UNCHANGED queue
    <3>1. SessionKey(t)' = SessionKey(t)
      BY SetupStays DEF Moves
    <3> QED BY <2>2, <3>1 DEF Placed, Locks, HeadIs
  <2> QED BY <2>1, <2>2
<1> QED BY <1>2, <1>3, <1>4, LocksStep

(* get_session returns                                                         *)
LEMMA HandsOutRests ==
  ASSUME IInv, UNCHANGED <<setup, pool>>, NEW t \in Tasks, NEW x, HandsOut(t, x, transports),
         At(t, "ready") => conns[task[t].conn].phase # "starting"
  PROVE  Rests(t) /\ ~At(t, "lock")' /\ ~Connecting(t)'
<1> DEFINE s == OpenSession(x, transports)
           r == WithSession(t, s)
<1>1. r.pc \in {"calling", "done"} /\ (r.gone => task[t].gone)
  <2>1. DOMAIN task[t] = Fields
    BY TaskIs
  <2> HIDE DEF s
  <2> QED BY <2>1 DEF WithSession, Done, Fields
<1>2. task' = [task EXCEPT ![t] = r] /\ UNCHANGED <<pool, transports, conns>>
  BY DEF HandsOut
<1> HIDE DEF r
<1>3. Moves(t) /\ task'[t] = r
  BY <1>2, Replaced
<1> QED BY <1>1, <1>2, <1>3 DEF Rests, At, Connecting

LEMMA LockedActs ==
  ASSUME IInv, Locks, UNCHANGED setup, NEW t \in Tasks, At(t, "start") \/ At(t, "lock"),
         NEW l, NEW qs, KeepsPlaces(t, queue, qs), l \in 1..Len(qs), HeadIs(qs[l], t),
         Locked(t, l, qs), lock' = [lock EXCEPT ![SessionKey(t)] = l],
         lock[SessionKey(t)] = l \/ (lock[SessionKey(t)] = 0 /\ l = Len(queue) + 1)
  PROVE  Locks' /\ Acts(t)
<1> DEFINE k == SessionKey(t)
           fresh == pool[k] = 0
           x == IF fresh THEN Len(transports) + 1 ELSE pool[k]
           trs == IF fresh THEN Append(transports, NewTransport) ELSE transports
<1>1. /\ transports \in Seq(TransportRecords) /\ Len(transports) \in Nat /\ k \in Keys
      /\ pool \in [Keys -> Nat] /\ NewTransport \in TransportRecords
      /\ NewTransport.state = "disconnected" /\ NewTransport.owner = 0
      /\ queue \in Seq(Seq(Tasks)) /\ qs \in Seq(Seq(Tasks)) /\ ~At(t, "ready")
  BY Tables, KeyIs DEF IInv, Types, NewTransport, TransportRecords, Locks, KeepsPlaces, At
<1>2. /\ pool' = [pool EXCEPT ![k] = x]
      /\ \/ trs[x].state = "connected" /\ queue' = Released(l, qs) /\ HandsOut(t, x, trs)
         \/ Ended(trs[x].owner) /\ queue' = qs /\ StartOwner(t, l, x, trs)
         \/ ~Ended(trs[x].owner) /\ queue' = qs /\ StopOwner(t, "cleanup", l, x, trs)
  BY DEF Locked, HandsOut
<1> HIDE DEF k
<1>3. /\ trs \in Seq(TransportRecords) /\ Len(trs) >= Len(transports) /\ x \in 1..Len(trs)
      /\ \A y \in 1..Len(trs) \ {x} : y \in 1..Len(transports) /\ trs[y] = transports[y]
      /\ \/ pool[k] = 0 /\ x = Len(transports) + 1 /\ trs[x].state = "disconnected" /\ trs[x].owner = 0
         \/ pool[k] = x /\ x # 0 /\ x \in 1..Len(transports) /\ trs = transports
  <2>1. CASE fresh
    <3> DEFINE e == NewTransport
    <3> HIDE DEF e
    <3>1. /\ Append(transports, e) \in Seq(TransportRecords)
          /\ Len(Append(transports, e)) = Len(transports) + 1
          /\ Append(transports, e)[Len(transports) + 1] = e
          /\ \A y \in 1..Len(transports) : Append(transports, e)[y] = transports[y]
      BY <1>1 DEF e
    <3>2. \A y \in 1..(Len(transports) + 1) : y # Len(transports) + 1 => y \in 1..Len(transports)
      <4>1. PICK n \in Nat : n = Len(transports)
        BY <1>1
      <4>2. \A y \in 1..(n + 1) : y # n + 1 => y \in 1..n
        OBVIOUS
      <4> QED BY <4>1, <4>2
    <3> QED BY <1>1, <2>1, <3>1, <3>2 DEF e
  <2>2. CASE ~fresh
    <3>1. pool[k] \in 1..Len(transports)
      BY <1>1, <2>2, PoolIs
    <3> QED BY <1>1, <2>2, <3>1
  <2> QED BY <2>1, <2>2
<1> HIDE DEF x, trs
<1>4. /\ KeepsPlaces(t, queue, queue') /\ Len(queue') = Len(qs)
  <2>1. CASE queue' = qs
    BY <2>1
  <2>2. CASE queue' = Released(l, qs)
    <3>1. KeepsPlaces(t, qs, Released(l, qs))
      BY <1>1, QueueReleased
    <3>2. Len(Released(l, qs)) = Len(qs)
      BY <1>1 DEF Released
    <3> QED BY <1>1, <2>2, <3>1, <3>2, PlacesTwice
  <2> QED BY <1>2, <2>1, <2>2
<1>5. /\ lock' \in [Keys -> 0..Len(queue')] /\ LocksDiffer(lock') /\ lock'[k] = l
      /\ \A j \in Keys : lock[j] # 0 => lock'[j] = lock[j]
  <2>1. PICK n \in Nat : n = Len(queue') /\ n >= Len(queue) /\ l \in 1..n
    BY <1>1, <1>4 DEF KeepsPlaces
  <2>2. lock[k] = l \/ (lock[k] = 0 /\ l = Len(queue) + 1)
    BY DEF k
  <2>3. lock' = [lock EXCEPT ![k] = l]
    BY DEF k
  <2> QED BY <1>1, <2>1, <2>2, <2>3, LockTaken
<1>6. /\ SessionKey(t)' = k /\ l # 0
  BY SetupStays DEF k
<1>7. CASE trs[x].state = "connected" /\ HandsOut(t, x, trs)
  <2>1. pool[k] = x /\ trs = transports
    BY <1>3, <1>7
  <2>2. UNCHANGED <<setup, pool>>
    BY <1>1, <1>2, <2>1
  <2>3. HandsOut(t, x, transports)
    BY <1>7, <2>1
  <2> HIDE DEF HandsOut
  <2>4. Rests(t) /\ ~At(t, "lock")' /\ ~Connecting(t)'
    BY <1>1, <2>2, <2>3, HandsOutRests
  <2>5. Placed(t)' /\ Moves(t)
    BY <2>4 DEF Placed, Rests
  <2> QED BY <1>4, <1>5, <2>4, <2>5, LocksStep DEF Acts
<1>8. CASE Ended(trs[x].owner) /\ queue' = qs /\ StartOwner(t, l, x, trs)
  <2>1. \/ pool[SessionKey(t)] = x /\ x \in 1..Len(transports) /\ Ended(transports[x].owner)
        \/ pool[SessionKey(t)] = 0 /\ x = Len(transports) + 1
    BY <1>3, <1>8 DEF k
  <2>2. pool' = [pool EXCEPT ![SessionKey(t)] = x]
    BY <1>2 DEF k
  <2>3. /\ Starts(t, x, Len(conns) + 1) /\ task'[t].lock = l /\ Connecting(t)' /\ ~At(t, "lock")'
    BY <1>1, <1>3, <1>8, <2>1, <2>2, StartOwnerIs
  <2>4. Placed(t)' /\ Moves(t)
    BY <1>5, <1>6, <1>8, <2>3 DEF Placed, Starts, HeadIs
  <2> QED BY <1>4, <1>5, <2>3, <2>4, LocksStep DEF Acts
<1>9. CASE ~Ended(trs[x].owner) /\ queue' = qs /\ StopOwner(t, "cleanup", l, x, trs)
  <2>1. pool[k] = x /\ x # 0 /\ trs = transports
    BY <1>3, <1>9 DEF Ended
  <2>2. UNCHANGED <<setup, pool>>
    BY <1>1, <1>2, <2>1
  <2>3. StopOwner(t, "cleanup", l, x, transports) /\ pool[SessionKey(t)] = x /\ ~Ended(transports[x].owner)
    BY <1>9, <2>1 DEF k
  <2>4. /\ Stops(t, x, transports[x].owner) /\ task'[t].lock = l /\ Connecting(t)' /\ ~At(t, "lock")'
    BY <1>1, <2>1, <2>2, <2>3, StopOwnerIs
  <2>5. Placed(t)' /\ Moves(t)
    BY <1>5, <1>6, <1>9, <2>4 DEF Placed, Stops, HeadIs
  <2> QED BY <1>4, <1>5, <2>4, <2>5, LocksStep DEF Acts
<1> QED BY <1>2, <1>7, <1>8, <1>9

LEMMA GetSessionActs ==
  ASSUME IInv, Locks, UNCHANGED setup, NEW t \in Tasks, GetSession(t)
  PROVE  Locks' /\ Acts(t)
<1> DEFINE k == SessionKey(t)
           l == IF lock[k] = 0 THEN Len(queue) + 1 ELSE lock[k]
           qs == IF lock[k] = 0 THEN Append(queue, <<t>>) ELSE [queue EXCEPT ![l] = Append(@, t)]
<1>1. /\ At(t, "start") /\ lock' = [lock EXCEPT ![k] = l]
      /\ \/ MayEnter(t, qs[l]) /\ Locked(t, l, qs)
         \/ /\ queue' = qs /\ task' = [task EXCEPT ![t].pc = "lock", ![t].lock = l]
            /\ UNCHANGED <<pool, transports, conns>>
  BY DEF GetSession
<1>2. queue \in Seq(Seq(Tasks)) /\ Len(queue) \in Nat /\ k \in Keys /\ lock[k] \in 0..Len(queue)
  BY KeyIs DEF Locks
<1> HIDE DEF k
<1>3. /\ KeepsPlaces(t, queue, qs) /\ l \in 1..Len(qs) /\ l # 0
      /\ Occurs(qs[l], t) /\ qs[l] # <<>> /\ qs \in Seq(Seq(Tasks))
      /\ lock[k] = l \/ (lock[k] = 0 /\ l = Len(queue) + 1)
  <2>1. CASE lock[k] = 0
    <3>1. /\ KeepsPlaces(t, queue, Append(queue, <<t>>))
          /\ Append(queue, <<t>>)[Len(queue) + 1] = <<t>>
          /\ Len(Append(queue, <<t>>)) = Len(queue) + 1
      BY <1>2, QueueCreated
    <3>2. Occurs(<<t>>, t) /\ <<t>> # <<>>
      BY DEF Occurs
    <3>3. l = Len(queue) + 1 /\ qs = Append(queue, <<t>>)
      BY <2>1
    <3> HIDE DEF l, qs
    <3> QED BY <1>2, <2>1, <3>1, <3>2, <3>3 DEF KeepsPlaces
  <2>2. CASE lock[k] # 0
    <3>1. l = lock[k] /\ l \in 1..Len(queue) /\ qs = [queue EXCEPT ![l] = Append(@, t)]
      BY <1>2, <2>2
    <3> HIDE DEF l, qs
    <3>2. KeepsPlaces(t, queue, qs) /\ qs[l] = Append(queue[l], t) /\ Len(qs) = Len(queue)
      <4>1. /\ KeepsPlaces(t, queue, [queue EXCEPT ![l] = Append(@, t)])
            /\ [queue EXCEPT ![l] = Append(@, t)][l] = Append(queue[l], t)
        BY <1>2, <3>1, QueueJoined
      <4>2. Len([queue EXCEPT ![l] = Append(@, t)]) = Len(queue)
        BY <1>2
      <4> QED BY <3>1, <4>1, <4>2
    <3>3. Occurs(Append(queue[l], t), t) /\ Append(queue[l], t) # <<>>
      <4>1. queue[l] \in Seq(Tasks)
        BY <1>2, <3>1
      <4>2. PICK p \in Seq(Tasks) : p = queue[l]
        BY <4>1
      <4>3. /\ Len(Append(p, t)) = Len(p) + 1 /\ Append(p, t)[Len(p) + 1] = t /\ Len(p) \in Nat
        OBVIOUS
      <4>4. Len(p) + 1 \in 1..Len(Append(p, t))
        BY <4>3
      <4> QED BY <4>2, <4>3, <4>4 DEF Occurs
    <3> QED BY <3>1, <3>2, <3>3 DEF KeepsPlaces
  <2> QED BY <2>1, <2>2
<1> HIDE DEF l, qs
<1>4. CASE MayEnter(t, qs[l]) /\ Locked(t, l, qs)
  <2>1. HeadIs(qs[l], t)
    BY <1>3, <1>4 DEF MayEnter, HeadIs
  <2>2. lock' = [lock EXCEPT ![SessionKey(t)] = l]
    BY <1>1 DEF k
  <2>3. lock[SessionKey(t)] = l \/ (lock[SessionKey(t)] = 0 /\ l = Len(queue) + 1)
    BY <1>3 DEF k
  <2> QED BY <1>1, <1>3, <1>4, <2>1, <2>2, <2>3, LockedActs
<1>5. CASE /\ queue' = qs /\ task' = [task EXCEPT ![t].pc = "lock", ![t].lock = l]
           /\ UNCHANGED <<pool, transports, conns>>
  <2> DEFINE r == [task[t] EXCEPT !.pc = "lock", !.lock = l]
  <2>1. task' = [task EXCEPT ![t] = r]
    BY <1>5
  <2>2. r.pc = "lock" /\ r.lock = l /\ r.gone = task[t].gone
    <3>1. DOMAIN task[t] = Fields
      BY TaskIs
    <3> QED BY <3>1 DEF Fields
  <2> HIDE DEF r
  <2>3. Moves(t) /\ task'[t] = r
    BY <2>1, Replaced
  <2>4. Rests(t)
    BY <1>1, <1>5, <2>2, <2>3 DEF Rests, At
  <2>5. /\ lock' \in [Keys -> 0..Len(queue')] /\ LocksDiffer(lock') /\ lock'[k] = l
        /\ \A j \in Keys : lock[j] # 0 => lock'[j] = lock[j]
    <3>1. Len(qs) \in Nat /\ Len(qs) >= Len(queue)
      BY <1>3 DEF KeepsPlaces
    <3>2. PICK n \in Nat : n = Len(queue') /\ n >= Len(queue) /\ l \in 1..n
      BY <1>3, <1>5, <3>1
    <3> QED BY <1>1, <1>2, <1>3, <3>2, LockTaken
  <2>6. Placed(t)'
    <3>1. SessionKey(t)' = k
      BY SetupStays DEF k
    <3> QED BY <1>3, <1>5, <2>2, <2>3, <2>5, <3>1 DEF Placed, At, Connecting, Occurs
  <2>7. KeepsPlaces(t, queue, queue')
    BY <1>3, <1>5
  <2> QED BY <2>3, <2>4, <2>5, <2>6, <2>7, LocksStep DEF Acts
<1> QED BY <1>1, <1>4, <1>5

LEMMA EnterActs ==
  ASSUME IInv, Locks, UNCHANGED setup, NEW t \in Tasks, Enter(t)
  PROVE  Locks' /\ Acts(t)
<1> DEFINE l == task[t].lock
           k == SessionKey(t)
<1>1. At(t, "lock") /\ Head(queue[l]) = t /\ Locked(t, l, queue) /\ UNCHANGED lock
  BY DEF Enter
<1>2. l = lock[k] /\ l # 0 /\ k \in Keys /\ Occurs(queue[l], t)
  BY <1>1, KeyIs DEF Locks, Placed
<1>3. queue \in Seq(Seq(Tasks)) /\ Len(queue) \in Nat /\ lock \in [Keys -> 0..Len(queue)]
  BY DEF Locks
<1> HIDE DEF l
<1>4. l \in 1..Len(queue)
  <2>1. lock[k] \in 0..Len(queue)
    BY <1>2, <1>3
  <2> QED BY <1>2, <1>3, <2>1
<1>5. HeadIs(queue[l], t)
  <2>1. queue[l] # <<>>
    BY <1>2 DEF Occurs
  <2> QED BY <1>1, <2>1 DEF HeadIs
<1>6. lock' = [lock EXCEPT ![k] = l] /\ KeepsPlaces(t, queue, queue)
  BY <1>1, <1>2, <1>3, PlacesSame
<1> QED BY <1>1, <1>2, <1>4, <1>5, <1>6, LockedActs
--------------------------------------------------------------------------------
(* What is known of a request that connects                                     *)
LEMMA ConnectingIs ==
  ASSUME IInv, Locks, Ownership, NEW t \in Tasks, Connecting(t)
  PROVE  /\ task[t].on = pool[SessionKey(t)] /\ task[t].on # 0
         /\ task[t].on \in 1..Len(transports)
         /\ task[t].conn = transports[task[t].on].owner /\ task[t].conn # 0
         /\ task[t].conn \in 1..Len(conns)
         /\ task[t].lock \in 1..Len(queue) /\ HeadIs(queue[task[t].lock], t)
<1>1. /\ task[t].on = pool[SessionKey(t)] /\ task[t].on # 0
      /\ task[t].conn = transports[task[t].on].owner /\ task[t].conn # 0
  BY DEF Ownership
<1>2. task[t].on \in 1..Len(transports)
  BY <1>1, KeyIs, PoolIs
<1>3. task[t].conn \in 1..Len(conns)
  BY <1>1, <1>2 DEF Ownership
<1>4. task[t].lock = lock[SessionKey(t)] /\ task[t].lock # 0 /\ HeadIs(queue[task[t].lock], t)
  BY DEF Locks, Placed
<1>5. task[t].lock \in 1..Len(queue)
  <2>1. lock[SessionKey(t)] \in 0..Len(queue) /\ Len(queue) \in Nat
    BY KeyIs DEF Locks
  <2> QED BY <1>4, <2>1
<1> QED BY <1>1, <1>2, <1>3, <1>4, <1>5

LEMMA AfterCleanupActs ==
  ASSUME IInv, Locks, Ownership, UNCHANGED setup, NEW t \in Tasks, AfterCleanup(t)
  PROVE  Locks' /\ Acts(t)
<1> DEFINE x == task[t].on
           l == task[t].lock
<1>1. /\ At(t, "cleanup") /\ Ended(task[t].conn) /\ StartOwner(t, l, x, transports)
      /\ UNCHANGED <<pool, lock, queue>>
  BY DEF AfterCleanup
<1>2. Connecting(t) /\ ~At(t, "ready") /\ ~At(t, "lock")
  BY <1>1 DEF At, Connecting
<1>3. /\ x = pool[SessionKey(t)] /\ x \in 1..Len(transports) /\ task[t].conn = transports[x].owner
  BY <1>2, ConnectingIs
<1>4. transports \in Seq(TransportRecords) /\ Len(transports) \in Nat /\ pool \in [Keys -> Nat]
  BY Tables DEF IInv, Types
<1>5. queue \in Seq(Seq(Tasks))
  BY DEF Locks
<1>6. Ended(transports[x].owner)
  BY <1>1, <1>3
<1> HIDE DEF x, l
<1>7. pool' = [pool EXCEPT ![SessionKey(t)] = x]
  BY <1>1, <1>3, <1>4
<1>8. Len(transports) >= Len(transports)
  BY <1>4
<1>9. Starts(t, x, Len(conns) + 1) /\ task'[t].lock = l /\ Connecting(t)' /\ ~At(t, "lock")'
  BY <1>1, <1>2, <1>3, <1>4, <1>6, <1>7, <1>8, StartOwnerIs
<1>10. Moves(t)
  BY <1>9 DEF Starts
<1>11. KeepsPlaces(t, queue, queue')
  BY <1>1, <1>5, PlacesSame
<1>12. Locks'
  BY <1>1, <1>2, <1>9, <1>10, <1>11, LocksStay DEF l
<1> QED BY <1>9, <1>12 DEF Acts

(* While no connection is refused, a connect() that fails ends its request       *)
LEMMA FailConnectActs ==
  ASSUME IInv, Locks, Ownership, UNCHANGED setup, NEW t \in Tasks, NEW error, error # "refused",
         Connecting(t), FailConnect(t, error), Ended(transports[task[t].on].owner),
         At(t, "ready") => conns[task[t].conn].phase # "starting", UNCHANGED lock
  PROVE  Locks' /\ Acts(t)
<1> DEFINE x == task[t].on
           l == task[t].lock
           e == [transports[x] EXCEPT !.state = "error", !.owner = 0]
<1>1. /\ queue' = Released(l, queue) /\ transports' = [transports EXCEPT ![x] = e]
      /\ task' = [task EXCEPT ![t] = Done("failed")]
      /\ UNCHANGED <<pool, conns>>
  BY DEF FailConnect
<1>2. /\ x \in 1..Len(transports) /\ l \in 1..Len(queue) /\ HeadIs(queue[l], t)
      /\ queue \in Seq(Seq(Tasks)) /\ transports \in Seq(TransportRecords)
  BY ConnectingIs DEF Locks, IInv, Types
<1>3. e.state = "error" /\ e.owner = 0
  <2>1. transports[x] \in TransportRecords
    BY <1>2
  <2> QED BY <2>1 DEF TransportRecords
<1> HIDE DEF e
<1>4. /\ Len(transports') = Len(transports) /\ transports'[x] = e
      /\ \A y \in 1..Len(transports) \ {x} : transports'[y] = transports[y]
  <2> HIDE DEF x
  <2> QED BY <1>1, <1>2
<1>5. Moves(t) /\ task'[t] = Done("failed")
  BY <1>1, Replaced
<1>6. task'[t].pc = "done" /\ ~task'[t].gone
  BY <1>5 DEF Done
<1>7. Fails(t, x)
  BY <1>1, <1>3, <1>4, <1>5, <1>6 DEF Fails
<1> HIDE DEF x, l
<1>8. KeepsPlaces(t, queue, queue')
  BY <1>1, <1>2, QueueReleased
<1>9. ~At(t, "lock")' /\ ~Connecting(t)'
  BY <1>6 DEF At, Connecting
<1> QED BY <1>5, <1>7, <1>8, <1>9, LocksStay DEF Acts

LEMMA ReadyActs ==
  ASSUME IInv, Unrefused, Locks, Ownership, UNCHANGED setup, NEW t \in Tasks, Ready(t)
  PROVE  Locks' /\ Acts(t)
<1> DEFINE c == task[t].conn
           x == task[t].on
           l == task[t].lock
<1>1. At(t, "ready") /\ conns[c].phase # "starting"
  BY DEF Ready
<1>2. Connecting(t) /\ ~At(t, "lock")
  BY <1>1 DEF At, Connecting
<1>3. /\ x = pool[SessionKey(t)] /\ x # 0 /\ x \in 1..Len(transports) /\ c = transports[x].owner
      /\ c \in 1..Len(conns) /\ l \in 1..Len(queue) /\ HeadIs(queue[l], t)
  BY <1>2, ConnectingIs
<1>4. conns[c].error # "refused" /\ queue \in Seq(Seq(Tasks))
  BY <1>3 DEF Unrefused, Locks
<1>5. \/ /\ queue' = Released(l, queue) /\ HandsOut(t, x, transports) /\ UNCHANGED <<pool, lock>>
      \/ /\ Ended(transports[x].owner) /\ FailConnect(t, conns[c].error)
      \/ /\ ~Ended(transports[x].owner) /\ UNCHANGED <<pool, lock, queue>>
         /\ StopOwner(t, "broken", l, x, transports)
  BY <1>4 DEF Ready, HandsOut
<1>6. CASE queue' = Released(l, queue) /\ HandsOut(t, x, transports) /\ UNCHANGED <<pool, lock>>
  <2> HIDE DEF HandsOut, x, l
  <2>1. UNCHANGED <<setup, pool>> /\ HandsOut(t, x, transports)
    BY <1>6
  <2>2. Rests(t) /\ ~At(t, "lock")' /\ ~Connecting(t)'
    BY <1>1, <2>1, HandsOutRests
  <2>3. KeepsPlaces(t, queue, queue') /\ Moves(t)
    BY <1>3, <1>4, <1>6, <2>2, QueueReleased DEF Rests
  <2> QED BY <1>6, <2>2, <2>3, LocksStay DEF Acts
<1>7. CASE Ended(transports[x].owner) /\ FailConnect(t, conns[c].error)
  <2>1. UNCHANGED lock
    BY <1>4, <1>7 DEF FailConnect
  <2> QED BY <1>1, <1>2, <1>4, <1>7, <2>1, FailConnectActs
<1>8. CASE /\ ~Ended(transports[x].owner) /\ UNCHANGED <<pool, lock, queue>>
           /\ StopOwner(t, "broken", l, x, transports)
  <2>1. UNCHANGED <<setup, pool>> /\ UNCHANGED lock /\ UNCHANGED queue
    BY <1>8
  <2>2. /\ StopOwner(t, "broken", l, x, transports) /\ pool[SessionKey(t)] = x /\ x # 0
        /\ ~Ended(transports[x].owner)
    BY <1>3, <1>8
  <2>3. l = task[t].lock
    OBVIOUS
  <2> HIDE DEF x, l
  <2>4. Stops(t, x, transports[x].owner) /\ task'[t].lock = l /\ Connecting(t)' /\ ~At(t, "lock")'
    BY <1>1, <2>1, <2>2, StopOwnerIs
  <2>5. Moves(t) /\ KeepsPlaces(t, queue, queue')
    BY <1>4, <2>1, <2>4, PlacesSame DEF Stops
  <2> QED BY <1>2, <2>1, <2>3, <2>4, <2>5, LocksStay DEF Acts
<1> QED BY <1>5, <1>6, <1>7, <1>8

LEMMA AfterFailureActs ==
  ASSUME IInv, Unrefused, Locks, Ownership, UNCHANGED setup, NEW t \in Tasks, AfterFailure(t)
  PROVE  Locks' /\ Acts(t)
<1>1. /\ task[t].pc \in {"refused", "broken"} /\ Ended(task[t].conn) /\ FailConnect(t, task[t].pc)
  BY DEF AfterFailure
<1>2. task[t].pc = "broken"
  BY <1>1 DEF Unrefused
<1>3. Connecting(t) /\ ~At(t, "ready")
  BY <1>2 DEF Connecting, At
<1>4. task[t].conn = transports[task[t].on].owner
  BY <1>3, ConnectingIs
<1>5. UNCHANGED lock /\ Ended(transports[task[t].on].owner)
  BY <1>1, <1>2, <1>4 DEF FailConnect
<1> QED BY <1>1, <1>2, <1>3, <1>5, FailConnectActs

LEMMA EndsActs ==
  ASSUME IInv, Locks, Ownership, UNCHANGED setup, NEW t \in Tasks,
         Answered(t) \/ TimedOut(t) \/ Lost(t) \/ Unwinds(t)
  PROVE  Locks' /\ Acts(t)
<1>1. /\ UNCHANGED <<pool, lock, transports, conns>>
      /\ At(t, "ready") => task[t].gone
      /\ \E r : /\ task' = [task EXCEPT ![t] = r] /\ r.pc \in {"start", "done"}
                /\ r.gone => task[t].gone
  <2>1. \A how : ~Done(how).gone /\ Done(how).pc = "done"
    BY DEF Done
  <2>2. NextAttempt(t).pc \in {"start", "done"} /\ (NextAttempt(t).gone => task[t].gone)
    BY DEF NextAttempt, Done
  <2>3. /\ UNCHANGED <<pool, lock, transports, conns>>
        /\ At(t, "ready") => task[t].gone
        /\ \/ \E how : task' = [task EXCEPT ![t] = Done(how)]
           \/ task' = [task EXCEPT ![t] = NextAttempt(t)]
    BY DEF Answered, TimedOut, Lost, Unwinds, At
  <2> HIDE DEF Done, NextAttempt
  <2> QED BY <2>1, <2>2, <2>3
<1>2. PICK r : /\ task' = [task EXCEPT ![t] = r] /\ r.pc \in {"start", "done"}
               /\ r.gone => task[t].gone
  BY <1>1
<1>3. Moves(t) /\ task'[t] = r
  BY <1>2, Replaced
<1>4. Rests(t)
  BY <1>1, <1>2, <1>3 DEF Rests
<1>5. ~At(t, "lock")' /\ ~Connecting(t)'
  BY <1>2, <1>3 DEF At, Connecting
<1>6. KeepsPlaces(t, queue, queue')
  <2> DEFINE l == task[t].lock
  <2>1. queue \in Seq(Seq(Tasks))
    BY DEF Locks
  <2>2. \/ UNCHANGED queue
        \/ /\ At(t, "lock") \/ At(t, "ready")
           /\ queue' = [queue EXCEPT ![l] = Without(@, t)]
    BY DEF Answered, TimedOut, Lost, Unwinds, QueueWithout, At
  <2>3. CASE UNCHANGED queue
    BY <2>1, <2>3, PlacesSame
  <2>4. CASE At(t, "lock") \/ At(t, "ready")
    <3>1. l = lock[SessionKey(t)] /\ l # 0 /\ Occurs(queue[l], t)
      <4>1. CASE At(t, "lock")
        BY <4>1 DEF Locks, Placed
      <4>2. CASE At(t, "ready")
        <5>1. Connecting(t)
          BY <4>2 DEF At, Connecting
        <5>2. l = lock[SessionKey(t)] /\ l # 0 /\ HeadIs(queue[l], t)
          BY <5>1 DEF Locks, Placed
        <5>3. queue[l] \in Seq(Tasks)
          BY <2>1, <5>1, ConnectingIs
        <5>4. Len(queue[l]) >= 1 /\ queue[l][1] = t /\ Len(queue[l]) \in Nat
          BY <5>2, <5>3, HeadIsFirst
        <5>5. 1 \in 1..Len(queue[l])
          BY <5>4
        <5> QED BY <5>2, <5>4, <5>5 DEF Occurs
      <4> QED BY <2>4, <4>1, <4>2
    <3>2. l \in 1..Len(queue)
      <4>1. lock[SessionKey(t)] \in 0..Len(queue) /\ Len(queue) \in Nat
        BY KeyIs DEF Locks
      <4> QED BY <3>1, <4>1
    <3> HIDE DEF l
    <3>3. KeepsPlaces(t, queue, [queue EXCEPT ![l] = Without(@, t)])
      BY <2>1, <3>1, <3>2, QueueLeft
    <3> QED BY <2>1, <2>2, <3>3, PlacesSame
  <2> QED BY <2>2, <2>3, <2>4
<1> QED BY <1>1, <1>3, <1>4, <1>5, <1>6, LocksStay DEF Acts

(* While no connection is refused, only requests act before the shutdown           *)
LEMMA TaskActs ==
  ASSUME IInv, Unrefused, Locks, Ownership, UNCHANGED setup, NEW t \in Tasks, TaskStep(t)
  PROVE  Locks' /\ Acts(t)
<1>1. CASE GetSession(t)
  BY <1>1, GetSessionActs
<1>2. CASE Enter(t)
  BY <1>2, EnterActs
<1>3. CASE Ready(t)
  BY <1>3, ReadyActs
<1>4. CASE Answered(t) \/ TimedOut(t) \/ Lost(t) \/ Unwinds(t)
  BY <1>4, EndsActs
<1>5. CASE AfterCleanup(t)
  BY <1>5, AfterCleanupActs
<1>6. CASE AfterFailure(t)
  BY <1>6, AfterFailureActs
<1>7. ~AfterDisconnect(t)
  BY DEF AfterDisconnect, Unrefused, At
<1> QED BY <1>1, <1>2, <1>3, <1>4, <1>5, <1>6, <1>7 DEF TaskStep
--------------------------------------------------------------------------------
(* A connection changes its phase, and its transport the state with it           *)
Turns(c, y) ==
  /\ UNCHANGED <<setup, pool>> /\ Len(transports') = Len(transports) /\ Len(conns') = Len(conns)
  /\ c \in 1..Len(conns) /\ y = conns[c].transport
  /\ \A d \in 1..Len(conns) \ {c} : conns'[d] = conns[d]
  /\ conns'[c].transport = y
  /\ conns'[c].server = conns[c].server /\ conns'[c].user = conns[c].user
  /\ conns'[c].error \in {conns[c].error, "broken", "cancelled"}
  /\ conns[c].phase # "done" /\ conns'[c].phase # "starting"
  /\ \A z \in 1..Len(transports) \ {y} : transports'[z] = transports[z]
  /\ transports'[y].owner = transports[y].owner
  /\ IF conns[c].phase = "starting" THEN transports'[y].state \in {"connected", "error"}
     ELSE transports'[y].state = transports[y].state

LEMMA TurnIs ==
  ASSUME IInv, UNCHANGED <<setup, pool>>, NEW c \in 1..Len(conns), NEW to, NEW x,
         conns' = [conns EXCEPT ![c] = to],
         transports' = [transports EXCEPT ![conns[c].transport] = x],
         to.transport = conns[c].transport, to.server = conns[c].server, to.user = conns[c].user,
         to.error \in {conns[c].error, "broken", "cancelled"},
         conns[c].phase # "done", to.phase # "starting",
         x.owner = transports[conns[c].transport].owner,
         IF conns[c].phase = "starting" THEN x.state \in {"connected", "error"}
         ELSE x.state = transports[conns[c].transport].state
  PROVE  Turns(c, conns[c].transport)
<1> DEFINE y == conns[c].transport
<1>1. /\ conns \in Seq(ConnRecords) /\ transports \in Seq(TransportRecords)
      /\ y \in 1..Len(transports)
  BY DEF IInv, Types, KeyedBy
<1>2. transports' = [transports EXCEPT ![y] = x]
  OBVIOUS
<1> HIDE DEF y
<1>3. Len(conns') = Len(conns) /\ conns'[c] = to /\ \A d \in 1..Len(conns) \ {c} : conns'[d] = conns[d]
  BY <1>1
<1>4. /\ Len(transports') = Len(transports) /\ transports'[y] = x
      /\ \A z \in 1..Len(transports) \ {y} : transports'[z] = transports[z]
  BY <1>1, <1>2
<1>5. y = conns[c].transport
  BY DEF y
<1> QED BY <1>3, <1>4, <1>5 DEF Turns

LEMMA OwnerTurns ==
  ASSUME IInv, Calm, UNCHANGED setup, NEW c \in 1..Len(conns), OwnerMoves(c)
  PROVE  Turns(c, conns[c].transport) /\ UNCHANGED <<lock, queue, task>>
<1> DEFINE r == conns[c]
           x == transports[r.transport]
<1>1. x \in TransportRecords /\ r \in ConnRecords
  BY Tables DEF IInv, KeyedBy
<1>2. PICK from, to, z : OwnerStep(c, from, to, z) /\
        /\ to.transport = r.transport /\ to.server = r.server /\ to.user = r.user
        /\ to.error \in {r.error, "broken", "cancelled"} /\ to.phase # "starting"
        /\ z.owner = x.owner /\ from # "done"
        /\ IF from = "starting" THEN z.state \in {"connected", "error"} ELSE z.state = x.state
  <2>1. CASE Connects(c)
    <3> DEFINE to == [r EXCEPT !.phase = IF r.stop THEN "closing" ELSE "live"]
               z == [x EXCEPT !.state = "connected", !.session = IF r.stop THEN 0 ELSE c]
    <3>1. OwnerStep(c, "starting", to, z)
      BY <2>1 DEF Connects
    <3>2. /\ to.transport = r.transport /\ to.server = r.server /\ to.user = r.user
          /\ to.error = r.error /\ to.phase # "starting"
      BY <1>1 DEF ConnRecords
    <3>3. z.owner = x.owner /\ z.state = "connected"
      BY <1>1 DEF TransportRecords
    <3> HIDE DEF to, z
    <3> QED BY <3>1, <3>2, <3>3
  <2>2. CASE FailsToConnect(c)
    <3>1. PICK error \in setup.faults \cap {"refused", "broken"} :
            OwnerStep(c, "starting", [r EXCEPT !.phase = "closing", !.error = error],
                      [x EXCEPT !.state = "error", !.session = 0])
      BY <2>2 DEF FailsToConnect
    <3> DEFINE to == [r EXCEPT !.phase = "closing", !.error = error]
               z == [x EXCEPT !.state = "error", !.session = 0]
    <3>2. /\ to.transport = r.transport /\ to.server = r.server /\ to.user = r.user
          /\ to.error = "broken" /\ to.phase # "starting"
      <4>1. error = "broken"
        BY DEF Calm
      <4> QED BY <1>1, <4>1 DEF ConnRecords
    <3>3. z.owner = x.owner /\ z.state = "error"
      BY <1>1 DEF TransportRecords
    <3> HIDE DEF to, z
    <3>4. OwnerStep(c, "starting", to, z)
      BY <3>1 DEF to, z
    <3> QED BY <3>2, <3>3, <3>4
  <2>3. CASE Leaves(c)
    <3> DEFINE to == [r EXCEPT !.phase = "closing"]
               z == [x EXCEPT !.session = 0]
    <3>1. OwnerStep(c, "live", to, z)
      BY <2>3 DEF Leaves
    <3>2. /\ to.transport = r.transport /\ to.server = r.server /\ to.user = r.user
          /\ to.error = r.error /\ to.phase # "starting"
      BY <1>1 DEF ConnRecords
    <3>3. z.owner = x.owner /\ z.state = x.state
      BY <1>1 DEF TransportRecords
    <3> HIDE DEF to, z
    <3> QED BY <3>1, <3>2, <3>3
  <2>4. CASE Closed(c)
    <3> DEFINE to == [r EXCEPT !.phase = "done"]
    <3>1. OwnerStep(c, "closing", to, x)
      BY <2>4 DEF Closed
    <3>2. /\ to.transport = r.transport /\ to.server = r.server /\ to.user = r.user
          /\ to.error = r.error /\ to.phase # "starting"
      BY <1>1 DEF ConnRecords
    <3> HIDE DEF to
    <3> QED BY <3>1, <3>2
  <2> QED BY <2>1, <2>2, <2>3, <2>4 DEF OwnerMoves
<1>3. /\ r.phase = from /\ UNCHANGED <<pool, lock, queue, task>>
      /\ conns' = [conns EXCEPT ![c] = to] /\ transports' = [transports EXCEPT ![r.transport] = z]
  BY <1>2 DEF OwnerStep
<1> QED BY <1>2, <1>3, TurnIs

(* Where the requests are does not change                                        *)
Stand ==
  \A u \in Tasks \cup {Main} :
    /\ task'[u].pc = task[u].pc /\ task'[u].lock = task[u].lock /\ task'[u].on = task[u].on
    /\ task'[u].conn = task[u].conn /\ task'[u].todo = task[u].todo

(* A cancellation that reaches the owner somebody waits for, or nobody yet         *)
LEMMA CancelTurns ==
  ASSUME IInv, Calm, Unrefused, Locks, Ownership, UNCHANGED setup, NEW t \in Tasks, Cancel(t)
  PROVE  /\ Stand /\ UNCHANGED <<pool, lock, queue>> /\ task'[Main].gone = task[Main].gone
         /\ UNCHANGED <<transports, conns>> \/ \E c : Turns(c, conns[c].transport)
<1> DEFINE c == task[t].conn
           y == conns[c].transport
           hits == AwaitsOwner(t) /\ conns[c].phase = "starting"
           to == [conns[c] EXCEPT !.phase = "closing", !.error = "cancelled"]
           x == [transports[y] EXCEPT !.state = "error", !.session = 0]
<1>1. /\ task' = [task EXCEPT ![t].gone = TRUE] /\ UNCHANGED <<pool, lock, queue>>
      /\ conns' = (IF hits THEN [conns EXCEPT ![c] = to] ELSE conns)
      /\ transports' = (IF hits THEN [transports EXCEPT ![y] = x] ELSE transports)
  BY DEF Cancel
<1>2. Stand /\ task'[Main].gone = task[Main].gone
  <2> DEFINE e == [task[t] EXCEPT !.gone = TRUE]
  <2>1. task' = [task EXCEPT ![t] = e] /\ DOMAIN task[t] = Fields /\ t # Main
    BY <1>1, TaskIs, PoolAssumption
  <2>2. /\ e.pc = task[t].pc /\ e.lock = task[t].lock /\ e.on = task[t].on /\ e.conn = task[t].conn
        /\ e.todo = task[t].todo
    OBVIOUS
  <2> HIDE DEF e
  <2>3. Moves(t) /\ task'[t] = e
    BY <2>1, Replaced
  <2> QED BY <2>1, <2>2, <2>3 DEF Stand, Moves
<1>3. CASE hits
  <2>1. Connecting(t)
    BY <1>3 DEF AwaitsOwner, Unrefused, Connecting
  <2>2. c \in 1..Len(conns)
    BY <2>1, ConnectingIs
  <2>3. conns[c] \in ConnRecords /\ transports[y] \in TransportRecords
    BY <2>2, Tables DEF IInv, KeyedBy
  <2>4. /\ to.transport = conns[c].transport /\ to.server = conns[c].server
        /\ to.user = conns[c].user /\ to.error = "cancelled" /\ to.phase = "closing"
    BY <2>3 DEF ConnRecords
  <2>5. x.owner = transports[y].owner /\ x.state = "error"
    BY <2>3 DEF TransportRecords
  <2>6. conns[c].phase = "starting"
    BY <1>3
  <2>7. conns' = [conns EXCEPT ![c] = to] /\ transports' = [transports EXCEPT ![y] = x]
    BY <1>1, <1>3
  <2> HIDE DEF c, to, x, hits
  <2>8. Turns(c, y)
    BY <1>1, <2>2, <2>4, <2>5, <2>6, <2>7, TurnIs
  <2> QED BY <1>1, <1>2, <2>8
<1>4. CASE ~hits
  BY <1>1, <1>2, <1>4
<1> QED BY <1>3, <1>4

LEMMA LocksStand ==
  ASSUME Locks, UNCHANGED <<setup, lock, queue>>, Stand
  PROVE  Locks'
<1>1. Keys' = Keys /\ \A u : SessionKey(u)' = SessionKey(u)
  BY SetupStays
<1>2. \A t \in Tasks : /\ At(t, "lock")' <=> At(t, "lock")
                       /\ Connecting(t)' <=> Connecting(t)
                       /\ task'[t].lock = task[t].lock
  BY DEF Stand, At, Connecting
<1>3. ASSUME NEW t \in Tasks PROVE Placed(t)'
  <2>1. Placed(t) /\ UNCHANGED <<lock, queue>>
    BY DEF Locks
  <2>2. SessionKey(t)' = SessionKey(t)
    BY <1>1
  <2> QED BY <1>2, <2>1, <2>2 DEF Placed, Occurs, HeadIs
<1>4. queue' \in Seq(Seq(Tasks)) /\ lock' \in [Keys' -> 0..Len(queue')] /\ LocksDiffer(lock)'
  BY <1>1 DEF Locks, LocksDiffer
<1> QED BY <1>3, <1>4 DEF Locks
--------------------------------------------------------------------------------
LEMMA OwnershipKept ==
  ASSUME IInv, Ownership, UNCHANGED <<setup, pool>>,
         Len(transports') = Len(transports),
         \A x \in 1..Len(transports) : transports'[x].owner = transports[x].owner,
         Len(conns') = Len(conns),
         \A c \in 1..Len(conns) :
           /\ conns'[c].transport = conns[c].transport
           /\ conns'[c].server = conns[c].server /\ conns'[c].user = conns[c].user
           /\ conns'[c].phase # "done" => conns[c].phase # "done",
         \A u \in Tasks : Connecting(u)' =>
           /\ task'[u].on = pool[SessionKey(u)] /\ task'[u].on # 0
           /\ task'[u].conn = transports[task'[u].on].owner /\ task'[u].conn # 0
  PROVE  Ownership'
<1>1. Keys' = Keys /\ \A u : SessionKey(u)' = SessionKey(u)
  BY SetupStays
<1>2. \A c \in 1..Len(conns) : KeyOf(c)' = KeyOf(c) /\ KeyOf(c) \in Keys
  BY DEF KeyOf, Ownership
<1>3. \A x \in 1..Len(transports') : transports'[x].owner # 0 =>
        transports'[x].owner \in 1..Len(conns') /\ conns'[transports'[x].owner].transport = x
  BY DEF Ownership
<1>4. ASSUME NEW c \in 1..Len(conns'), conns'[c].phase # "done"
      PROVE  pool'[KeyOf(c)'] # 0 /\ transports'[pool'[KeyOf(c)']].owner = c
  <2>1. conns[c].phase # "done" /\ c \in 1..Len(conns)
    BY <1>4
  <2>2. pool[KeyOf(c)] # 0 /\ transports[pool[KeyOf(c)]].owner = c
    BY <2>1 DEF Ownership
  <2>3. pool[KeyOf(c)] \in 1..Len(transports)
    BY <1>2, <2>1, <2>2, PoolIs
  <2> QED BY <1>2, <2>1, <2>2, <2>3
<1>5. ASSUME NEW t \in Tasks, Connecting(t)'
      PROVE  /\ task'[t].on = pool'[SessionKey(t)'] /\ task'[t].on # 0
             /\ task'[t].conn = transports'[task'[t].on].owner /\ task'[t].conn # 0
  <2>1. /\ task'[t].on = pool[SessionKey(t)] /\ task'[t].on # 0
        /\ task'[t].conn = transports[task'[t].on].owner /\ task'[t].conn # 0
    BY <1>5
  <2>2. task'[t].on \in 1..Len(transports)
    BY <2>1, KeyIs, PoolIs
  <2> QED BY <1>1, <2>1, <2>2
<1>6. \A c \in 1..Len(conns') : KeyOf(c)' \in Keys'
  BY <1>1, <1>2
<1> QED BY <1>3, <1>4, <1>5, <1>6 DEF Ownership

(* t opens a connection: whoever else connects has another transport              *)
LEMMA OwnershipStarts ==
  ASSUME IInv, Ownership, Locks', NEW t \in Tasks, NEW x, NEW c, Starts(t, x, c)
  PROVE  Ownership'
<1> DEFINE k == SessionKey(t)
<1>1. /\ Keys' = Keys /\ (\A u : SessionKey(u)' = SessionKey(u)) /\ k \in Keys
      /\ pool \in [Keys -> Nat] /\ Len(transports) \in Nat /\ Len(conns) \in Nat
  BY SetupStays, KeyIs, Tables DEF Starts, Moves, IInv, Types
<1>2. /\ c = Len(conns) + 1 /\ Len(conns') = c /\ pool' = [pool EXCEPT ![k] = x]
      /\ \/ pool[k] = x /\ x \in 1..Len(transports) /\ Ended(transports[x].owner)
         \/ pool[k] = 0 /\ x = Len(transports) + 1
      /\ x \in 1..Len(transports') /\ transports'[x].owner = c
      /\ conns'[c].transport = x /\ <<conns'[c].server, conns'[c].user>> = k
      /\ \A d \in 1..Len(conns) : conns'[d] = conns[d]
      /\ task'[t].on = x /\ task'[t].conn = c
  BY DEF Starts
<1>3. \A y \in 1..Len(transports') \ {x} : y \in 1..Len(transports) /\ transports'[y] = transports[y]
  BY DEF Starts
<1>4. /\ \A d \in 1..Len(conns') : d # c => d \in 1..Len(conns)
      /\ \A d \in 1..Len(conns) : d \in 1..Len(conns') /\ d # c /\ d # 0
      /\ c \in 1..Len(conns') /\ c # 0 /\ x # 0
  <2>1. PICK n \in Nat : n = Len(conns)
    BY <1>1
  <2>2. c = n + 1
    BY <1>2, <2>1
  <2>3. \A d \in 1..(n + 1) : d # n + 1 => d \in 1..n
    OBVIOUS
  <2>4. \A d \in 1..n : d \in 1..(n + 1) /\ d # n + 1 /\ d # 0
    OBVIOUS
  <2>5. n + 1 \in 1..(n + 1) /\ n + 1 # 0
    OBVIOUS
  <2>6. x # 0
    BY <1>1, <1>2
  <2> QED BY <1>2, <2>1, <2>2, <2>3, <2>4, <2>5, <2>6
<1> HIDE DEF k
<1>5. pool'[k] = x /\ \A j \in Keys \ {k} : pool'[j] = pool[j]
  BY <1>1, <1>2
<1>6. ASSUME NEW j \in Keys \ {k}, pool[j] # 0
      PROVE  pool[j] \in 1..Len(transports') /\ transports'[pool[j]] = transports[pool[j]]
  <2>1. pool[j] \in 1..Len(transports) /\ Len(transports') >= Len(transports)
    BY <1>6, PoolIs DEF Starts
  <2>2. pool[j] # x
    <3>1. CASE pool[k] = x /\ x \in 1..Len(transports)
      BY <1>1, <1>4, <1>6, <3>1, PoolIs
    <3>2. CASE x = Len(transports) + 1
      BY <1>1, <2>1, <3>2
    <3> QED BY <1>2, <3>1, <3>2
  <2>3. pool[j] \in 1..Len(transports')
    <3>1. Len(transports') \in Int
      BY <1>2 DEF IInv, Types
    <3> QED BY <1>1, <2>1, <3>1
  <2> QED BY <1>3, <2>2, <2>3
<1>7. \A y \in 1..Len(transports') : transports'[y].owner # 0 =>
        transports'[y].owner \in 1..Len(conns') /\ conns'[transports'[y].owner].transport = y
  <2> SUFFICES ASSUME NEW y \in 1..Len(transports'), transports'[y].owner # 0
               PROVE  /\ transports'[y].owner \in 1..Len(conns')
                      /\ conns'[transports'[y].owner].transport = y
    OBVIOUS
  <2>1. CASE y = x
    BY <1>2, <1>4, <2>1
  <2>2. CASE y # x
    <3>1. y \in 1..Len(transports) /\ transports'[y] = transports[y]
      BY <1>3, <2>2
    <3>2. transports[y].owner \in 1..Len(conns) /\ conns[transports[y].owner].transport = y
      BY <3>1 DEF Ownership
    <3> QED BY <1>2, <1>4, <3>1, <3>2
  <2> QED BY <2>1, <2>2
<1>8. KeyOf(c)' = k /\ \A d \in 1..Len(conns) : KeyOf(d)' = KeyOf(d) /\ KeyOf(d) \in Keys
  <2>1. c' = c
    BY DEF Starts
  <2> QED BY <1>2 DEF KeyOf, Ownership
<1>9. \A d \in 1..Len(conns') : KeyOf(d)' \in Keys'
  BY <1>1, <1>4, <1>8
<1>10. ASSUME NEW d \in 1..Len(conns'), conns'[d].phase # "done"
       PROVE  pool'[KeyOf(d)'] # 0 /\ transports'[pool'[KeyOf(d)']].owner = d
  <2>1. CASE d = c
    BY <1>2, <1>4, <1>5, <1>8, <2>1
  <2>2. CASE d # c
    <3>1. d \in 1..Len(conns) /\ conns[d].phase # "done"
      BY <1>2, <1>4, <1>10, <2>2
    <3>2. pool[KeyOf(d)] # 0 /\ transports[pool[KeyOf(d)]].owner = d /\ KeyOf(d) \in Keys
      BY <3>1 DEF Ownership
    <3>3. KeyOf(d) # k
      <4>1. ~Ended(d)
        BY <1>4, <3>1 DEF Ended
      <4> QED BY <1>2, <3>2, <4>1
    <3> QED BY <1>5, <1>6, <1>8, <3>1, <3>2, <3>3
  <2> QED BY <2>1, <2>2
<1>11. ASSUME NEW u \in Tasks, Connecting(u)'
       PROVE  /\ task'[u].on = pool'[SessionKey(u)'] /\ task'[u].on # 0
              /\ task'[u].conn = transports'[task'[u].on].owner /\ task'[u].conn # 0
  <2>1. CASE u = t
    BY <1>1, <1>2, <1>4, <1>5, <2>1 DEF k
  <2>2. CASE u # t
    <3>1. task'[u] = task[u]
      BY <2>2 DEF Starts, Moves
    <3>2. Connecting(u)
      BY <1>11, <3>1 DEF Connecting
    <3>3. /\ task[u].on = pool[SessionKey(u)] /\ task[u].on # 0
          /\ task[u].conn = transports[task[u].on].owner /\ task[u].conn # 0
      BY <3>2 DEF Ownership
    <3>4. SessionKey(u) # k
      <4>1. UNCHANGED setup
        BY DEF Starts, Moves
      <4>2. Connecting(t)'
        BY DEF Starts, Connecting
      <4> QED BY <1>11, <2>2, <4>1, <4>2, AloneNext DEF k
    <3>5. SessionKey(u) \in Keys \ {k}
      BY <3>4, KeyIs
    <3> QED BY <1>1, <1>5, <1>6, <3>1, <3>3, <3>5
  <2> QED BY <2>1, <2>2
<1> QED BY <1>7, <1>9, <1>10, <1>11 DEF Ownership

LEMMA OwnershipFails ==
  ASSUME IInv, Locks, Ownership, NEW t \in Tasks, NEW x, Fails(t, x)
  PROVE  Ownership'
<1>1. /\ Keys' = Keys /\ (\A u : SessionKey(u)' = SessionKey(u))
      /\ UNCHANGED <<pool, conns>> /\ Connecting(t) /\ Ended(transports[x].owner)
      /\ Len(transports') = Len(transports) /\ transports'[x].owner = 0
      /\ \A y \in 1..Len(transports) \ {x} : transports'[y] = transports[y]
  BY SetupStays DEF Fails, Moves
<1>2. x = pool[SessionKey(t)] /\ x # 0
  BY <1>1, ConnectingIs DEF Fails
<1>3. \A c \in 1..Len(conns) : KeyOf(c)' = KeyOf(c) /\ KeyOf(c) \in Keys
  BY <1>1 DEF KeyOf, Ownership
<1>4. \A y \in 1..Len(transports') : transports'[y].owner # 0 =>
        transports'[y].owner \in 1..Len(conns') /\ conns'[transports'[y].owner].transport = y
  BY <1>1 DEF Ownership
<1>5. ASSUME NEW c \in 1..Len(conns'), conns'[c].phase # "done"
      PROVE  pool'[KeyOf(c)'] # 0 /\ transports'[pool'[KeyOf(c)']].owner = c
  <2>1. c \in 1..Len(conns) /\ conns[c].phase # "done"
    BY <1>1, <1>5
  <2>2. pool[KeyOf(c)] # 0 /\ transports[pool[KeyOf(c)]].owner = c
    BY <2>1 DEF Ownership
  <2>3. pool[KeyOf(c)] # x
    <3>1. c # 0
      BY <2>1
    <3> QED BY <1>1, <2>1, <2>2, <3>1 DEF Ended
  <2>4. pool[KeyOf(c)] \in 1..Len(transports)
    BY <1>3, <2>1, <2>2, PoolIs
  <2> QED BY <1>1, <1>3, <2>1, <2>2, <2>3, <2>4
<1>6. ASSUME NEW u \in Tasks, Connecting(u)'
      PROVE  /\ task'[u].on = pool'[SessionKey(u)'] /\ task'[u].on # 0
             /\ task'[u].conn = transports'[task'[u].on].owner /\ task'[u].conn # 0
  <2>1. u # t
    BY <1>6 DEF Fails, Connecting
  <2>2. task'[u] = task[u]
    BY <2>1 DEF Fails, Moves
  <2>3. Connecting(u)
    BY <1>6, <2>2 DEF Connecting
  <2>4. /\ task[u].on = pool[SessionKey(u)] /\ task[u].on # 0 /\ task[u].on \in 1..Len(transports)
        /\ task[u].conn = transports[task[u].on].owner /\ task[u].conn # 0
    BY <2>3, ConnectingIs
  <2>5. task[u].on # x
    <3>1. SessionKey(u) # SessionKey(t)
      BY <1>1, <2>1, <2>3, Alone
    <3> QED BY <1>2, <2>4, <3>1, KeyIs, PoolIs
  <2> QED BY <1>1, <2>2, <2>4, <2>5
<1>7. \A c \in 1..Len(conns') : KeyOf(c)' \in Keys'
  BY <1>1, <1>3
<1> QED BY <1>4, <1>5, <1>6, <1>7 DEF Ownership

LEMMA OwnershipActs ==
  ASSUME IInv, Locks, Ownership, Locks', NEW t \in Tasks, Acts(t)
  PROVE  Ownership'
<1>1. CASE Rests(t)
  <2>1. UNCHANGED <<setup, pool>> /\ UNCHANGED <<transports, conns>>
    BY <1>1 DEF Rests, Moves
  <2>2. \A u \in Tasks : Connecting(u)' => Connecting(u) /\ task'[u] = task[u]
    BY <1>1 DEF Rests, Moves, Connecting
  <2>3. \A u \in Tasks : Connecting(u)' =>
           /\ task'[u].on = pool[SessionKey(u)] /\ task'[u].on # 0
           /\ task'[u].conn = transports[task'[u].on].owner /\ task'[u].conn # 0
    BY <2>2 DEF Ownership
  <2> QED BY <2>1, <2>3, OwnershipKept
<1>2. ASSUME NEW x, NEW c, Stops(t, x, c) PROVE Ownership'
  <2>1. UNCHANGED <<setup, pool>> /\ UNCHANGED transports /\ Len(conns') = Len(conns)
    BY <1>2 DEF Stops, Moves
  <2>2. \A d \in 1..Len(conns) :
           /\ conns'[d].transport = conns[d].transport
           /\ conns'[d].server = conns[d].server /\ conns'[d].user = conns[d].user
           /\ conns'[d].phase # "done" => conns[d].phase # "done"
    BY <1>2 DEF Stops
  <2>3. \A u \in Tasks : Connecting(u)' => u = t \/ (Connecting(u) /\ task'[u] = task[u])
    BY <1>2 DEF Stops, Moves, Connecting
  <2>4. /\ task'[t].on = pool[SessionKey(t)] /\ task'[t].on # 0
        /\ task'[t].conn = transports[task'[t].on].owner /\ task'[t].conn # 0
    BY <1>2 DEF Stops
  <2>5. \A u \in Tasks : Connecting(u)' =>
           /\ task'[u].on = pool[SessionKey(u)] /\ task'[u].on # 0
           /\ task'[u].conn = transports[task'[u].on].owner /\ task'[u].conn # 0
    BY <2>3, <2>4 DEF Ownership
  <2> QED BY <2>1, <2>2, <2>5, OwnershipKept
<1> QED BY <1>1, <1>2, OwnershipStarts, OwnershipFails DEF Acts

LEMMA OwnershipTurns ==
  ASSUME IInv, Ownership, Stand, NEW c, Turns(c, conns[c].transport)
  PROVE  Ownership'
<1>1. /\ UNCHANGED <<setup, pool>> /\ Len(transports') = Len(transports) /\ Len(conns') = Len(conns)
      /\ \A x \in 1..Len(transports) : transports'[x].owner = transports[x].owner
      /\ \A d \in 1..Len(conns) :
           /\ conns'[d].transport = conns[d].transport
           /\ conns'[d].server = conns[d].server /\ conns'[d].user = conns[d].user
           /\ conns'[d].phase # "done" => conns[d].phase # "done"
  BY DEF Turns
<1>2. \A u \in Tasks : Connecting(u)' =>
         /\ task'[u].on = pool[SessionKey(u)] /\ task'[u].on # 0
         /\ task'[u].conn = transports[task'[u].on].owner /\ task'[u].conn # 0
  BY DEF Stand, Connecting, Ownership
<1> QED BY <1>1, <1>2, OwnershipKept
--------------------------------------------------------------------------------
LEMMA MainIs == Main \notin Tasks
BY PoolAssumption

LEMMA UnrefusedActs ==
  ASSUME IInv, Unrefused, At(Main, "start"), NEW t \in Tasks, Acts(t)
  PROVE  Unrefused' /\ At(Main, "start")'
<1>1. Moves(t) /\ task'[t].pc \notin {"refused", "disconnecting"}
  BY DEF Acts, Rests, Starts, Stops, Fails
<1>2. task'[Main] = task[Main] /\ \A u \in Tasks \ {t} : task'[u] = task[u]
  BY <1>1, MainIs DEF Moves
<1>3. \A d \in 1..Len(conns') : conns'[d].error # "refused"
  <2>1. CASE Rests(t)
    BY <2>1 DEF Rests, Unrefused
  <2>2. ASSUME NEW x, NEW c, Starts(t, x, c) PROVE \A d \in 1..Len(conns') : conns'[d].error # "refused"
    <3>1. PICK n \in Nat : n = Len(conns)
      BY Tables DEF IInv
    <3>2. \A d \in 1..(n + 1) : d # n + 1 => d \in 1..n
      OBVIOUS
    <3>3. /\ Len(conns') = n + 1 /\ conns'[n + 1].error = "none"
          /\ \A d \in 1..n : conns'[d] = conns[d]
      BY <2>2, <3>1 DEF Starts
    <3> QED BY <3>1, <3>2, <3>3 DEF Unrefused
  <2>3. ASSUME NEW x, NEW c, Stops(t, x, c) PROVE \A d \in 1..Len(conns') : conns'[d].error # "refused"
    BY <2>3 DEF Stops, Unrefused
  <2>4. ASSUME NEW x, Fails(t, x) PROVE \A d \in 1..Len(conns') : conns'[d].error # "refused"
    BY <2>4 DEF Fails, Unrefused
  <2> QED BY <2>1, <2>2, <2>3, <2>4 DEF Acts
<1>4. \A u \in Tasks : task'[u].pc \notin {"refused", "disconnecting"}
  BY <1>1, <1>2 DEF Unrefused
<1>5. At(Main, "start")' /\ ~task'[Main].gone
  BY <1>2 DEF At, Unrefused
<1> QED BY <1>3, <1>4, <1>5 DEF Unrefused

LEMMA UnrefusedStand ==
  ASSUME Unrefused, Stand, task'[Main].gone = task[Main].gone,
         UNCHANGED conns \/ \E c : Turns(c, conns[c].transport)
  PROVE  Unrefused' /\ (At(Main, "start")' <=> At(Main, "start"))
<1>1. \A d \in 1..Len(conns') : conns'[d].error # "refused"
  BY DEF Turns, Unrefused
<1>2. \A u \in Tasks \cup {Main} : task'[u].pc = task[u].pc
  BY DEF Stand
<1> QED BY <1>1, <1>2 DEF Unrefused, At

LEMMA OpeningActs ==
  ASSUME IInv, Ownership, Opening, NEW t \in Tasks, ~task[t].gone, Acts(t)
  PROVE  Opening' /\ ~task'[t].gone
<1> DEFINE Attended(c) == \E u \in Tasks : task'[u].pc = "ready" /\ task'[u].conn = c
           Tells(x) ==
             /\ transports'[x].state = "connecting" =>
                  /\ transports'[x].owner # 0
                  /\ conns'[transports'[x].owner].phase = "starting"
             /\ transports'[x].state = "disconnected" => transports'[x].owner = 0
             /\ transports'[x].state # "disconnecting"
<1>1. ASSUME \A c \in 1..Len(conns') : conns'[c].phase = "starting" => Attended(c),
             \A x \in 1..Len(transports') : Tells(x)
      PROVE  Opening'
  BY <1>1 DEF Opening, At
<1>2. ASSUME NEW x \in 1..Len(transports)
      PROVE  /\ transports[x].state = "connecting" =>
                  /\ transports[x].owner # 0 /\ transports[x].owner \in 1..Len(conns)
                  /\ conns[transports[x].owner].phase = "starting"
             /\ transports[x].state = "disconnected" => transports[x].owner = 0
             /\ transports[x].state # "disconnecting"
  BY DEF Opening, Ownership
<1>3. Moves(t) /\ ~task'[t].gone
  BY DEF Acts, Rests, Starts, Stops, Fails
<1>4. \A u \in Tasks \ {t} : task'[u] = task[u]
  BY <1>3 DEF Moves
(* A connection that somebody else waits for                                    *)
<1>5. ASSUME NEW c \in 1..Len(conns), conns[c].phase = "starting",
             At(t, "ready") => conns[task[t].conn].phase # "starting"
      PROVE  Attended(c)
  <2>1. PICK u \in Tasks : At(u, "ready") /\ task[u].conn = c
    BY <1>5 DEF Opening
  <2>2. u # t
    BY <1>5, <2>1
  <2> QED BY <1>4, <2>1, <2>2 DEF At
<1> HIDE DEF Attended
<1>6. CASE Rests(t)
  <2>1. UNCHANGED <<transports, conns>> /\ (At(t, "ready") => conns[task[t].conn].phase # "starting")
    BY <1>6 DEF Rests
  <2> QED BY <1>1, <1>2, <1>3, <1>5, <2>1
<1>7. ASSUME NEW x, NEW c, Starts(t, x, c) PROVE Opening'
  <2>1. PICK n \in Nat : n = Len(conns)
    BY Tables DEF IInv
  <2>2. \A d \in 1..(n + 1) : d # n + 1 => d \in 1..n
    OBVIOUS
  <2>3. /\ c = n + 1 /\ c # 0 /\ Len(conns') = n + 1 /\ conns'[c].phase = "starting" /\ ~At(t, "ready")
        /\ \A d \in 1..n : conns'[d] = conns[d]
        /\ transports'[x].state = "connecting" /\ transports'[x].owner = c
        /\ \A y \in 1..Len(transports') \ {x} :
             y \in 1..Len(transports) /\ transports'[y] = transports[y]
    BY <1>7, <2>1 DEF Starts
  <2>4. Attended(c)
    BY <1>7 DEF Starts, Attended
  <2>5. \A d \in 1..Len(conns') : conns'[d].phase = "starting" => Attended(d)
    BY <1>5, <2>1, <2>2, <2>3, <2>4
  <2>6. ASSUME NEW y \in 1..Len(transports') PROVE Tells(y)
    BY <1>2, <2>1, <2>3
  <2> QED BY <1>1, <2>5, <2>6
<1>8. ASSUME NEW x, NEW c, Stops(t, x, c) PROVE Opening'
  <2>1. /\ UNCHANGED transports /\ Len(conns') = Len(conns)
        /\ \A d \in 1..Len(conns) : conns'[d].phase = conns[d].phase
        /\ At(t, "ready") => conns[task[t].conn].phase # "starting"
    BY <1>8 DEF Stops
  <2> QED BY <1>1, <1>2, <1>5, <2>1
<1>9. ASSUME NEW x, Fails(t, x) PROVE Opening'
  <2>1. /\ UNCHANGED conns /\ Len(transports') = Len(transports)
        /\ At(t, "ready") => conns[task[t].conn].phase # "starting"
        /\ transports'[x].state = "error"
        /\ \A y \in 1..Len(transports) \ {x} : transports'[y] = transports[y]
    BY <1>9 DEF Fails
  <2> QED BY <1>1, <1>2, <1>5, <2>1
<1> QED BY <1>3, <1>6, <1>7, <1>8, <1>9 DEF Acts

LEMMA OpeningTurns ==
  ASSUME IInv, Ownership, Opening, Stand, NEW c, Turns(c, conns[c].transport)
  PROVE  Opening'
<1> DEFINE y == conns[c].transport
<1>1. /\ Len(transports') = Len(transports) /\ Len(conns') = Len(conns) /\ c \in 1..Len(conns)
      /\ \A d \in 1..Len(conns) \ {c} : conns'[d] = conns[d]
      /\ conns'[c].phase # "starting"
      /\ \A z \in 1..Len(transports) \ {y} : transports'[z] = transports[z]
      /\ transports'[y].owner = transports[y].owner
      /\ IF conns[c].phase = "starting" THEN transports'[y].state \in {"connected", "error"}
         ELSE transports'[y].state = transports[y].state
  BY DEF Turns
<1>2. ASSUME NEW d \in 1..Len(conns'), conns'[d].phase = "starting"
      PROVE  \E t \in Tasks : At(t, "ready")' /\ task'[t].conn = d
  <2>1. d \in 1..Len(conns) /\ conns[d].phase = "starting"
    BY <1>1, <1>2
  <2>2. PICK t \in Tasks : At(t, "ready") /\ task[t].conn = d
    BY <2>1 DEF Opening
  <2> QED BY <2>2 DEF Stand, At
<1>3. ASSUME NEW z \in 1..Len(transports')
      PROVE  /\ transports'[z].state = "connecting" =>
                  /\ transports'[z].owner # 0
                  /\ conns'[transports'[z].owner].phase = "starting"
             /\ transports'[z].state = "disconnected" => transports'[z].owner = 0
             /\ transports'[z].state # "disconnecting"
  <2>1. /\ transports[z].state = "connecting" =>
             /\ transports[z].owner # 0 /\ transports[z].owner \in 1..Len(conns)
             /\ conns[transports[z].owner].transport = z
             /\ conns[transports[z].owner].phase = "starting"
        /\ transports[z].state = "disconnected" => transports[z].owner = 0
        /\ transports[z].state # "disconnecting"
    BY <1>1 DEF Opening, Ownership
  <2>2. CASE z = y
    BY <1>1, <2>1, <2>2
  <2>3. CASE z # y
    BY <1>1, <2>1, <2>3
  <2> QED BY <2>2, <2>3
<1> QED BY <1>2, <1>3 DEF Opening

LEMMA OpeningKept ==
  ASSUME IInv, Ownership, Opening, Stand,
         UNCHANGED <<transports, conns>> \/ \E c : Turns(c, conns[c].transport)
  PROVE  Opening'
<1>1. CASE UNCHANGED <<transports, conns>>
  <2>1. \A t \in Tasks : (At(t, "ready")' <=> At(t, "ready")) /\ task'[t].conn = task[t].conn
    BY DEF Stand, At
  <2> QED BY <1>1, <2>1 DEF Opening
<1> QED BY <1>1, OpeningTurns

(* What remains to be closed remains so                                          *)
LEMMA RemainsStays ==
  ASSUME IInv, UNCHANGED pool, NEW d \in 1..Len(conns), NEW todo \in SUBSET Keys,
         Remains(transports, todo, d),
         conns'[d].server = conns[d].server, conns'[d].user = conns[d].user,
         \A z \in 1..Len(transports) :
           /\ transports'[z].owner = transports[z].owner
           /\ transports'[z].state = transports[z].state
  PROVE  Remains(transports, todo, d)'
<1>1. /\ KeyOf(d) \in todo /\ pool[KeyOf(d)] # 0 /\ transports[pool[KeyOf(d)]].owner = d
      /\ transports[pool[KeyOf(d)]].state \in {"connected", "error"}
  BY DEF Remains, Disconnects
<1>2. pool[KeyOf(d)] \in 1..Len(transports)
  <2>1. KeyOf(d) \in Keys
    BY <1>1
  <2> QED BY <1>1, <2>1, PoolIs
<1>3. KeyOf(d)' = KeyOf(d)
  BY DEF KeyOf
<1> QED BY <1>1, <1>2, <1>3 DEF Remains, Disconnects

LEMMA ClosingKept ==
  ASSUME IInv, Closing, Stand,
         UNCHANGED <<transports, conns, pool>> \/ \E c : Turns(c, conns[c].transport)
  PROVE  Closing'
<1>1. /\ Len(transports') = Len(transports) /\ Len(conns') = Len(conns) /\ UNCHANGED pool
      /\ \A d \in 1..Len(conns) :
           /\ conns'[d].server = conns[d].server /\ conns'[d].user = conns[d].user
           /\ conns'[d].phase # "starting"
           /\ conns'[d].phase # "done" => conns[d].phase # "done"
      /\ \A z \in 1..Len(transports) :
           /\ transports'[z].owner = transports[z].owner
           /\ transports'[z].state = transports[z].state
  <2>1. CASE UNCHANGED <<transports, conns, pool>>
    BY <2>1 DEF Closing
  <2>2. ASSUME NEW c, Turns(c, conns[c].transport)
        PROVE  /\ Len(transports') = Len(transports) /\ Len(conns') = Len(conns) /\ UNCHANGED pool
               /\ \A d \in 1..Len(conns) :
                    /\ conns'[d].server = conns[d].server /\ conns'[d].user = conns[d].user
                    /\ conns'[d].phase # "starting"
                    /\ conns'[d].phase # "done" => conns[d].phase # "done"
               /\ \A z \in 1..Len(transports) :
                    /\ transports'[z].owner = transports[z].owner
                    /\ transports'[z].state = transports[z].state
    BY <2>2 DEF Turns, Closing
  <2> QED BY <2>1, <2>2
<1>2. /\ task'[Main].pc = task[Main].pc /\ task'[Main].todo = task[Main].todo
      /\ task'[Main].on = task[Main].on /\ task'[Main].conn = task[Main].conn
  BY DEF Stand
<1>3. CASE At(Main, "disconnecting")
  <2>1. PICK todo \in SUBSET Keys : todo = task[Main].todo
    BY DEF IInv, Types
  <2>2. ASSUME NEW d \in 1..Len(conns'), conns'[d].phase # "done"
        PROVE  d = task[Main].conn \/ Remains(transports, todo, d)'
    <3>1. d \in 1..Len(conns) /\ (d = task[Main].conn \/ Remains(transports, todo, d))
      BY <1>1, <1>3, <2>1, <2>2 DEF Closing
    <3> QED BY <1>1, <2>2, <3>1, RemainsStays
  <2>3. ASSUME NEW d \in 1..Len(conns'), conns'[d].phase # "done"
        PROVE  (d = task[Main].conn \/ Remains(transports, task[Main].todo, d))'
    <3>1. d = task[Main].conn \/ Remains(transports, todo, d)'
      BY <2>2, <2>3
    <3>2. task'[Main].todo = todo
      BY <1>2, <2>1
    <3> QED BY <1>2, <3>1, <3>2 DEF Remains
  <2> QED BY <1>1, <1>2, <1>3, <2>3 DEF Closing, At
<1>4. CASE ~At(Main, "disconnecting")
  BY <1>1, <1>2, <1>4 DEF Closing, At
<1> QED BY <1>3, <1>4
--------------------------------------------------------------------------------
LEMMA SameLength ==
  ASSUME NEW q, NEW n \in Nat, NEW m \in Nat, DOMAIN q = 1..n, DOMAIN q = 1..m
  PROVE  n = m
<1>1. CASE n < m
  <2>1. m \in 1..m /\ m \notin 1..n
    BY <1>1
  <2> QED BY <2>1
<1>2. CASE m < n
  <2>1. n \in 1..n /\ n \notin 1..m
    BY <1>2
  <2> QED BY <2>1
<1> QED BY <1>1, <1>2

(* disconnect_all() would have to wait when the turn of k comes                   *)
Awaits(trs, k) == pool[k] # 0 /\ MustWait(pool[k], trs)

(* It has come to wait for the connection of k, past the keys of gone, ...        *)
Telling(trs, todo, k, gone) ==
  /\ k \in todo /\ k \in gone /\ gone \subseteq todo /\ Awaits(trs, k)
  /\ \A j \in gone \ {k} : ~Awaits(trs, j)
  /\ \A j \in Keys \ gone : pool'[j] = pool[j]
  /\ DOMAIN transports' = DOMAIN trs
  /\ \A x \in DOMAIN trs : (\A j \in gone : pool[j] # x) => transports'[x] = trs[x]
  /\ task'[Main].pc = "disconnecting" /\ task'[Main].gone = task[Main].gone
  /\ task'[Main].on = pool[k] /\ task'[Main].conn = trs[pool[k]].owner
  /\ task'[Main].todo = todo \ gone

(* ... or it returns                                                            *)
Returning(trs, todo) ==
  /\ \A k \in todo : ~Awaits(trs, k)
  /\ task'[Main].pc = "done" /\ ~task'[Main].gone

LEMMA DisconnectIs ==
  ASSUME IInv, IInv', UNCHANGED setup, NEW trs, NEW todo \in SUBSET Keys,
         DisconnectSome(Main, trs, todo)
  PROVE  /\ Moves(Main) /\ Len(conns') = Len(conns)
         /\ \A c \in 1..Len(conns) :
              /\ conns'[c].server = conns[c].server /\ conns'[c].user = conns[c].user
              /\ conns'[c].phase = conns[c].phase /\ conns'[c].error = conns[c].error
         /\ Returning(trs, todo) \/ \E k, gone : Telling(trs, todo, k, gone)
<1> DEFINE Left(x) == IF Disconnects(x, trs) THEN NewTransport ELSE trs[x]
<1>1. PICK quiet \in SUBSET {k \in todo : ~Awaits(trs, k)},
           last \in {{}} \cup {{k} : k \in {j \in todo : Awaits(trs, j)}} :
        LET gone == quiet \cup last
            awaited == {pool[k] : k \in last}
            emptied == {pool[k] : k \in quiet} \ {0}
        IN /\ last = {} => quiet = todo
           /\ pool' = [k \in Keys |-> IF k \in gone THEN 0 ELSE pool[k]]
           /\ transports' = [x \in DOMAIN trs |->
                               IF x \in emptied THEN Left(x)
                               ELSE IF x \in awaited THEN [trs[x] EXCEPT !.state = "disconnecting"]
                               ELSE trs[x]]
           /\ conns' = [c \in DOMAIN conns |->
                          IF \E x \in awaited : trs[x].owner = c
                          THEN [conns[c] EXCEPT !.stop = TRUE] ELSE conns[c]]
           /\ IF last = {} THEN task' = [task EXCEPT ![Main] = NextAttempt(Main)]
              ELSE \E x \in awaited :
                     task' = [task EXCEPT ![Main].pc = "disconnecting", ![Main].on = x,
                                ![Main].lock = 0, ![Main].conn = trs[x].owner,
                                ![Main].todo = todo \ gone]
  BY DEF DisconnectSome, Awaits
<1> DEFINE gone == quiet \cup last
           awaited == {pool[k] : k \in last}
<1>2. /\ DOMAIN conns' = DOMAIN conns /\ DOMAIN conns = 1..Len(conns) /\ Len(conns) \in Nat
      /\ DOMAIN conns' = 1..Len(conns') /\ Len(conns') \in Nat
  <2>1. DOMAIN conns' = DOMAIN conns
    BY <1>1
  <2>2. conns \in Seq(ConnRecords) /\ conns' \in Seq(ConnRecords')
    BY DEF IInv, Types
  <2>3. DOMAIN conns = 1..Len(conns) /\ Len(conns) \in Nat
    BY <2>2
  <2>4. DOMAIN conns' = 1..Len(conns') /\ Len(conns') \in Nat
    BY <2>2
  <2> QED BY <2>1, <2>3, <2>4
<1>3. Len(conns') = Len(conns)
  BY <1>2, SameLength
<1>4. ASSUME NEW c \in 1..Len(conns)
      PROVE  /\ conns'[c].server = conns[c].server /\ conns'[c].user = conns[c].user
             /\ conns'[c].phase = conns[c].phase /\ conns'[c].error = conns[c].error
  <2> DEFINE e == [conns[c] EXCEPT !.stop = TRUE]
  <2>1. conns'[c] \in {conns[c], e}
    BY <1>1, <1>2
  <2>2. /\ e.server = conns[c].server /\ e.user = conns[c].user
        /\ e.phase = conns[c].phase /\ e.error = conns[c].error
    OBVIOUS
  <2> HIDE DEF e
  <2> QED BY <2>1, <2>2
<1>5. CASE last = {}
  <2>1. task' = [task EXCEPT ![Main] = NextAttempt(Main)] /\ \A k \in todo : ~Awaits(trs, k)
    BY <1>1, <1>5
  <2>2. NextAttempt(Main).pc = "done" /\ ~NextAttempt(Main).gone
    BY MainIs DEF NextAttempt, Done
  <2>3. Moves(Main) /\ task'[Main] = NextAttempt(Main)
    BY <2>1, Replaced
  <2>4. Returning(trs, todo)
    BY <2>1, <2>2, <2>3 DEF Returning
  <2> QED BY <1>3, <1>4, <2>3, <2>4
<1>6. ASSUME NEW k \in todo, Awaits(trs, k), last = {k}
      PROVE  Moves(Main) /\ Telling(trs, todo, k, gone)
  <2> DEFINE x == pool[k]
             r == [task[Main] EXCEPT !.pc = "disconnecting", !.on = x, !.lock = 0,
                                     !.conn = trs[x].owner, !.todo = todo \ gone]
  <2>1. awaited = {x}
    BY <1>6
  <2>2. task' = [task EXCEPT ![Main] = r]
    <3>1. last # {}
      BY <1>6
    <3>2. PICK y \in awaited :
            task' = [task EXCEPT ![Main].pc = "disconnecting", ![Main].on = y, ![Main].lock = 0,
                                 ![Main].conn = trs[y].owner, ![Main].todo = todo \ gone]
      BY <1>1, <3>1
    <3>3. y = x
      BY <2>1
    <3> HIDE DEF awaited, gone, x
    <3> QED BY <3>2, <3>3
  <2>3. DOMAIN task[Main] = Fields
    BY TaskIs
  <2>4. /\ r.pc = "disconnecting" /\ r.on = x /\ r.conn = trs[x].owner /\ r.todo = todo \ gone
        /\ r.gone = task[Main].gone
    BY <2>3 DEF Fields
  <2> HIDE DEF r
  <2>5. Moves(Main) /\ task'[Main] = r
    BY <2>2, Replaced
  <2>6. \A j \in Keys \ gone : pool'[j] = pool[j]
    BY <1>1
  <2>7. DOMAIN transports' = DOMAIN trs
    BY <1>1
  <2>8. \A y \in DOMAIN trs : (\A j \in gone : pool[j] # y) => transports'[y] = trs[y]
    BY <1>1
  <2>9. gone \subseteq todo /\ k \in gone /\ \A j \in gone \ {k} : ~Awaits(trs, j)
    BY <1>1, <1>6
  <2> HIDE DEF gone
  <2> QED BY <1>6, <2>4, <2>5, <2>6, <2>7, <2>8, <2>9 DEF Telling
<1> HIDE DEF gone
<1>7. last = {} \/ \E k \in todo : Awaits(trs, k) /\ last = {k}
  OBVIOUS
<1> QED BY <1>3, <1>4, <1>5, <1>6, <1>7

(* Every connection that is open is still to be closed                            *)
AllRemain(trs, todo) ==
  \A c \in 1..Len(conns) :
    /\ conns[c].phase # "starting"
    /\ conns[c].phase # "done" => Remains(trs, todo, c)

LEMMA DisconnectCloses ==
  ASSUME IInv, IInv', Unrefused, UNCHANGED setup, \A t \in Tasks : At(t, "done"),
         NEW trs, DOMAIN trs = 1..Len(transports), NEW todo \in SUBSET Keys,
         DisconnectSome(Main, trs, todo)
  PROVE  /\ Unrefused' /\ ~At(Main, "start")'
         /\ /\ \A t \in Tasks : ~task[t].gone
            /\ AllRemain(trs, todo)
            => Uncancelled'
<1>1. /\ Moves(Main) /\ Len(conns') = Len(conns)
      /\ \A c \in 1..Len(conns) :
           /\ conns'[c].server = conns[c].server /\ conns'[c].user = conns[c].user
           /\ conns'[c].phase = conns[c].phase /\ conns'[c].error = conns[c].error
      /\ Returning(trs, todo) \/ \E k, gone : Telling(trs, todo, k, gone)
  BY DisconnectIs
<1>2. task'[Main].pc \in {"disconnecting", "done"} /\ ~task'[Main].gone
  BY <1>1 DEF Returning, Telling, Unrefused
<1>3. \A t \in Tasks : task'[t] = task[t]
  BY <1>1, MainIs DEF Moves
<1>4. \A t \in Tasks : At(t, "done")'
  BY <1>3 DEF At
<1>5. Unrefused' /\ ~At(Main, "start")'
  <2>1. \A c \in 1..Len(conns') : conns'[c].error # "refused"
    BY <1>1 DEF Unrefused
  <2>2. \A t \in Tasks : task'[t].pc \notin {"refused", "disconnecting"}
    BY <1>4 DEF At
  <2>3. ~At(Main, "start")'
    BY <1>2 DEF At
  <2> QED BY <1>2, <1>4, <2>1, <2>2, <2>3 DEF Unrefused
<1>6. ASSUME \A t \in Tasks : ~task[t].gone,
             AllRemain(trs, todo)
      PROVE  Uncancelled'
  <2>1. ASSUME NEW c \in 1..Len(conns), conns[c].phase # "done"
        PROVE  KeyOf(c) \in todo /\ Awaits(trs, KeyOf(c)) /\ trs[pool[KeyOf(c)]].owner = c
    <3>1. /\ KeyOf(c) \in todo /\ pool[KeyOf(c)] # 0
          /\ trs[pool[KeyOf(c)]].owner = c /\ Disconnects(pool[KeyOf(c)], trs)
      BY <1>6, <2>1 DEF AllRemain, Remains
    <3>2. ~Ended(c)
      BY <2>1 DEF Ended
    <3> QED BY <3>1, <3>2 DEF Awaits, MustWait
  <2>2. \A c \in 1..Len(conns) : conns'[c].phase # "starting"
    BY <1>1, <1>6 DEF AllRemain
  <2>3. CASE Returning(trs, todo)
    <3>1. \A c \in 1..Len(conns) : conns'[c].phase = "done"
      BY <1>1, <2>1, <2>3 DEF Returning
    <3>2. task'[Main].pc = "done"
      BY <2>3 DEF Returning
    <3>3. Closing'
      BY <1>1, <2>2, <3>1, <3>2 DEF Closing, At
    <3> QED BY <1>3, <1>5, <1>6, <3>3 DEF Uncancelled
  <2>4. ASSUME NEW k, NEW gone, Telling(trs, todo, k, gone) PROVE Uncancelled'
    <3>1. /\ k \in Keys /\ k \in gone /\ gone \subseteq Keys /\ pool[k] # 0
          /\ \A j \in gone \ {k} : ~Awaits(trs, j)
          /\ \A j \in Keys \ gone : pool'[j] = pool[j]
          /\ \A x \in DOMAIN trs : (\A j \in gone : pool[j] # x) => transports'[x] = trs[x]
          /\ task'[Main].pc = "disconnecting" /\ task'[Main].on = pool[k]
          /\ task'[Main].conn = trs[pool[k]].owner /\ task'[Main].todo = todo \ gone
      BY <2>4 DEF Telling, Awaits
    <3>2. \A i, j \in Keys : pool[i] # 0 /\ pool[i] = pool[j] => i = j
      BY PoolIs
    <3>3. \A j \in task'[Main].todo : pool'[j] # task'[Main].on
      BY <3>1, <3>2
    <3>4. ASSUME NEW c \in 1..Len(conns'), conns'[c].phase # "done"
          PROVE  (c = task[Main].conn \/ Remains(transports, task[Main].todo, c))'
      <4>1. c \in 1..Len(conns) /\ conns[c].phase # "done" /\ KeyOf(c)' = KeyOf(c)
        BY <1>1, <3>4 DEF KeyOf
      <4>2. KeyOf(c) \in todo /\ Awaits(trs, KeyOf(c)) /\ trs[pool[KeyOf(c)]].owner = c
        BY <2>1, <4>1
      <4>3. CASE KeyOf(c) = k
        BY <3>1, <4>2, <4>3
      <4>4. CASE KeyOf(c) # k
        <5> DEFINE j == KeyOf(c)
                   x == pool[j]
        <5>1. j \in todo \ gone /\ j \in Keys /\ x # 0 /\ Disconnects(x, trs)
          BY <3>1, <4>2, <4>4 DEF Awaits, MustWait
        <5>2. pool'[j] = x /\ x \in DOMAIN trs /\ transports'[x] = trs[x]
          BY <3>1, <3>2, <5>1, PoolIs
        <5>3. j \in task'[Main].todo
          BY <3>1, <5>1
        <5> HIDE DEF x
        <5>4. x # 0 /\ trs[x].owner = c
          BY <4>2, <5>1 DEF x
        <5>5. Remains(transports, task[Main].todo, c)'
          BY <4>1, <5>1, <5>2, <5>3, <5>4 DEF Remains, Disconnects
        <5> QED BY <5>5
      <4> QED BY <4>3, <4>4
    <3>5. Closing'
      BY <1>1, <2>2, <3>1, <3>3, <3>4 DEF Closing, At
    <3> QED BY <1>3, <1>5, <1>6, <3>5 DEF Uncancelled
  <2> QED BY <1>1, <2>3, <2>4
<1> QED BY <1>5, <1>6
--------------------------------------------------------------------------------
(* Everybody stays where he is, and at most a connection changes its phase         *)
LEMMA CInvStands ==
  ASSUME IInv, CInv, Calm, Stand, UNCHANGED <<setup, pool, lock, queue>>,
         task'[Main].gone = task[Main].gone,
         "cancelled" \notin setup.faults => \A t \in Tasks : task'[t].gone = task[t].gone,
         UNCHANGED <<transports, conns>> \/ \E c : Turns(c, conns[c].transport)
  PROVE  CInv'
<1>1. Unrefused /\ (At(Main, "start") => Locks /\ Ownership)
      /\ ("cancelled" \notin setup.faults => Uncancelled)
  BY DEF CInv
<1>2. Unrefused' /\ (At(Main, "start")' <=> At(Main, "start"))
  BY <1>1, UnrefusedStand
<1>3. ASSUME At(Main, "start") PROVE Locks' /\ Ownership'
  <2>1. Locks' /\ Ownership
    BY <1>1, <1>3, LocksStand
  <2>2. CASE UNCHANGED <<transports, conns>>
    <3>1. \A u \in Tasks : Connecting(u)' =>
            /\ task'[u].on = pool[SessionKey(u)] /\ task'[u].on # 0
            /\ task'[u].conn = transports[task'[u].on].owner /\ task'[u].conn # 0
      BY <2>1 DEF Stand, Connecting, Ownership
    <3> QED BY <2>1, <2>2, <3>1, OwnershipKept
  <2>3. CASE \E c : Turns(c, conns[c].transport)
    BY <2>1, <2>3, OwnershipTurns
  <2> QED BY <2>1, <2>2, <2>3
<1>4. ASSUME "cancelled" \notin setup.faults PROVE Uncancelled'
  <2>1. At(Main, "start") => Opening'
    BY <1>1, <1>4, OpeningKept DEF Uncancelled
  <2>2. ~At(Main, "start") => Closing'
    BY <1>1, <1>4, ClosingKept DEF Uncancelled
  <2>3. \A t \in Tasks : ~task'[t].gone
    BY <1>1, <1>4 DEF Uncancelled
  <2> QED BY <1>2, <2>1, <2>2, <2>3 DEF Uncancelled
<1> QED BY <1>2, <1>3, <1>4 DEF CInv, Calm

(* A request takes a step                                                        *)
LEMMA CInvTask ==
  ASSUME IInv, CInv, Calm, UNCHANGED setup, NEW t \in Tasks, TaskStep(t)
  PROVE  CInv'
<1>1. Unrefused /\ (At(Main, "start") => Locks /\ Ownership)
      /\ ("cancelled" \notin setup.faults => Uncancelled)
  BY DEF CInv
<1>2. At(Main, "start")
  <2>1. ~At(t, "done")
    BY DEF TaskStep, GetSession, Enter, Ready, Answered, TimedOut, Lost, AfterCleanup,
           AfterFailure, AfterDisconnect, Unwinds, At
  <2> QED BY <1>1, <2>1 DEF Unrefused
<1>3. Locks' /\ Acts(t)
  BY <1>1, <1>2, TaskActs
<1>4. Ownership'
  BY <1>1, <1>2, <1>3, OwnershipActs
<1>5. Unrefused' /\ At(Main, "start")'
  BY <1>1, <1>2, <1>3, UnrefusedActs
<1>6. ASSUME "cancelled" \notin setup.faults PROVE Uncancelled'
  <2>1. Opening /\ \A u \in Tasks : ~task[u].gone
    BY <1>1, <1>2, <1>6 DEF Uncancelled
  <2>2. Opening' /\ ~task'[t].gone
    BY <1>1, <1>2, <1>3, <2>1, OpeningActs
  <2>3. Moves(t)
    BY <1>3 DEF Acts, Rests, Starts, Stops, Fails
  <2>4. \A u \in Tasks : ~task'[u].gone
    BY <2>1, <2>2, <2>3 DEF Moves
  <2> QED BY <1>5, <2>2, <2>4 DEF Uncancelled
<1> QED BY <1>3, <1>4, <1>5, <1>6 DEF CInv, Calm

(* disconnect_all() has begun, or goes on                                        *)
LEMMA CInvCloses ==
  ASSUME Unrefused', ~At(Main, "start")', UNCHANGED setup,
         "cancelled" \notin setup.faults => Uncancelled'
  PROVE  CInv'
BY DEF CInv

LEMMA CInvShutdown ==
  ASSUME IInv, IInv', CInv, Calm, UNCHANGED setup, Shutdown
  PROVE  CInv'
<1> DEFINE todo == {k \in Keys : pool[k] # 0}
<1>1. /\ At(Main, "start") /\ \A t \in Tasks : At(t, "done")
      /\ DisconnectSome(Main, transports, todo) /\ todo \in SUBSET Keys
  BY DEF Shutdown
<1>2. Unrefused /\ Locks /\ Ownership /\ ("cancelled" \notin setup.faults => Uncancelled)
  BY <1>1 DEF CInv
<1>3. DOMAIN transports = 1..Len(transports)
  BY Tables DEF IInv
<1>4. ASSUME "cancelled" \notin setup.faults
      PROVE  AllRemain(transports, todo) /\ \A t \in Tasks : ~task[t].gone
  <2>1. Opening /\ \A t \in Tasks : ~task[t].gone
    BY <1>1, <1>2, <1>4 DEF Uncancelled
  <2>2. ASSUME NEW c \in 1..Len(conns) PROVE conns[c].phase # "starting"
    BY <1>1, <2>1 DEF Opening, At
  <2>3. ASSUME NEW c \in 1..Len(conns), conns[c].phase # "done"
        PROVE  Remains(transports, todo, c)
    <3> DEFINE k == KeyOf(c)
               x == pool[k]
    <3>1. k \in Keys /\ x # 0 /\ transports[x].owner = c
      BY <1>2, <2>3 DEF Ownership
    <3>2. x \in 1..Len(transports) /\ k \in todo
      BY <3>1, PoolIs
    <3>3. transports[x] \in TransportRecords /\ c # 0
      BY <3>2, Tables DEF IInv
    <3>4. Disconnects(x, transports)
      <4> HIDE DEF x
      <4> QED BY <2>1, <2>2, <3>1, <3>2, <3>3 DEF Opening, Disconnects, TransportRecords
    <3> QED BY <3>1, <3>2, <3>4 DEF Remains
  <2> QED BY <2>1, <2>2, <2>3 DEF AllRemain
<1> HIDE DEF todo
<1>5. /\ Unrefused' /\ ~At(Main, "start")'
      /\ (\A t \in Tasks : ~task[t].gone) /\ AllRemain(transports, todo) => Uncancelled'
  BY <1>1, <1>2, <1>3, DisconnectCloses
<1> QED BY <1>4, <1>5, CInvCloses

LEMMA CInvGateway ==
  ASSUME IInv, IInv', CInv, Calm, UNCHANGED setup, AfterDisconnect(Main)
  PROVE  CInv'
<1> DEFINE x == task[Main].on
           trs == [transports EXCEPT ![x] = NewTransport]
           todo == task[Main].todo
<1>1. At(Main, "disconnecting") /\ Ended(task[Main].conn) /\ DisconnectSome(Main, trs, todo)
  BY DEF AfterDisconnect
<1>2. todo \in SUBSET Keys /\ ~At(Main, "start")
  BY <1>1, TaskIs DEF At
<1>3. /\ Unrefused /\ ("cancelled" \notin setup.faults => Uncancelled)
      /\ \A t \in Tasks : At(t, "done")
  BY <1>2 DEF CInv, Unrefused
<1>4. DOMAIN transports = 1..Len(transports)
  BY Tables DEF IInv
<1>5. DOMAIN trs = 1..Len(transports) /\ \A y \in 1..Len(transports) \ {x} : trs[y] = transports[y]
  BY <1>4
<1>6. ASSUME "cancelled" \notin setup.faults
      PROVE  AllRemain(trs, todo) /\ \A t \in Tasks : ~task[t].gone
  <2>1. Closing /\ \A t \in Tasks : ~task[t].gone
    BY <1>2, <1>3, <1>6 DEF Uncancelled
  <2>2. ASSUME NEW c \in 1..Len(conns), conns[c].phase # "done"
        PROVE  Remains(trs, todo, c)
    <3>1. c # task[Main].conn
      BY <1>1, <2>2 DEF Ended
    <3>2. Remains(transports, todo, c)
      BY <1>1, <2>1, <2>2, <3>1 DEF Closing
    <3>3. pool[KeyOf(c)] \in 1..Len(transports) \ {x}
      <4>1. KeyOf(c) \in todo /\ pool[KeyOf(c)] # 0
        BY <3>2 DEF Remains
      <4> QED BY <1>1, <1>2, <2>1, <4>1, PoolIs DEF Closing
    <3>4. trs[pool[KeyOf(c)]] = transports[pool[KeyOf(c)]]
      BY <1>5, <3>3
    <3> HIDE DEF trs
    <3> QED BY <3>2, <3>4 DEF Remains, Disconnects
  <2> QED BY <2>1, <2>2 DEF AllRemain, Closing
<1> HIDE DEF trs, todo
<1>7. /\ Unrefused' /\ ~At(Main, "start")'
      /\ (\A t \in Tasks : ~task[t].gone) /\ AllRemain(trs, todo) => Uncancelled'
  BY <1>1, <1>2, <1>3, <1>5, DisconnectCloses
<1> QED BY <1>6, <1>7, CInvCloses
--------------------------------------------------------------------------------
LEMMA CInvInit == Init => CInv
<1> SUFFICES ASSUME Init PROVE CInv
  OBVIOUS
<1>1. /\ lock = [k \in Keys |-> 0] /\ queue = <<>> /\ transports = <<>> /\ conns = <<>>
      /\ task = [t \in Tasks \cup {Main} |-> [Done("none") EXCEPT !.pc = "start"]]
  BY DEF Init
<1>2. \A t \in Tasks \cup {Main} : task[t].pc = "start" /\ ~task[t].gone
  BY <1>1 DEF Done
<1>3. Len(queue) = 0 /\ Len(transports) = 0 /\ Len(conns) = 0 /\ queue \in Seq(Seq(Tasks))
  BY <1>1
<1>4. Locks
  <2>1. LocksDiffer(lock) /\ lock \in [Keys -> 0..0]
    BY <1>1 DEF LocksDiffer
  <2>2. \A t \in Tasks : Placed(t)
    BY <1>2 DEF Placed, At, Connecting
  <2> QED BY <1>3, <2>1, <2>2 DEF Locks
<1>5. Ownership /\ Opening
  BY <1>2, <1>3 DEF Ownership, Opening, Connecting
<1>6. Unrefused /\ At(Main, "start") /\ Uncancelled
  BY <1>2, <1>3, <1>5 DEF Unrefused, Uncancelled, At
<1> QED BY <1>4, <1>5, <1>6 DEF CInv

LEMMA CInvNext == IInv /\ CInv /\ [Next]_vars => CInv'
<1> SUFFICES ASSUME IInv, CInv, [Next]_vars, Calm PROVE CInv'
  <2>1. ASSUME [Next]_vars PROVE UNCHANGED setup
    BY <2>1 DEF Next, vars
  <2> QED BY <2>1 DEF CInv, Calm
<1>1. IInv' /\ UNCHANGED setup
  BY IInvNext DEF Next, vars
<1>2. CASE UNCHANGED vars
  <2>1. Stand /\ UNCHANGED <<setup, pool, lock, queue, transports, conns, task>>
    BY <1>2 DEF vars, Stand
  <2> QED BY <2>1, CInvStands
<1>3. CASE Shutdown
  BY <1>1, <1>3, CInvShutdown
<1>4. ASSUME NEW t \in Tasks \cup {Main}, TaskStep(t) PROVE CInv'
  <2>1. CASE t \in Tasks
    BY <1>1, <1>4, <2>1, CInvTask
  <2>2. CASE t = Main
    <3>1. task[Main].pc \in MainStates /\ ~task[Main].gone
      BY DEF IInv, Types, CInv, Unrefused
    <3>2. AfterDisconnect(Main)
      BY <1>4, <2>2, <3>1, MainIs
         DEF TaskStep, GetSession, Enter, Ready, Answered, TimedOut, Lost, AfterCleanup,
             AfterFailure, Unwinds, At, MainStates
    <3> QED BY <1>1, <3>2, CInvGateway
  <2> QED BY <2>1, <2>2
<1>5. ASSUME NEW t \in Tasks, Cancel(t) PROVE CInv'
  <2>1. "cancelled" \in setup.faults /\ ~At(t, "done")
    BY <1>5 DEF Cancel
  <2>2. Unrefused /\ Locks /\ Ownership
    BY <2>1 DEF CInv, Unrefused
  <2>3. /\ Stand /\ UNCHANGED <<pool, lock, queue>> /\ task'[Main].gone = task[Main].gone
        /\ UNCHANGED <<transports, conns>> \/ \E c : Turns(c, conns[c].transport)
    BY <1>1, <1>5, <2>2, CancelTurns
  <2> QED BY <1>1, <2>1, <2>3, CInvStands
<1>6. ASSUME NEW c \in DOMAIN conns, OwnerMoves(c) PROVE CInv'
  <2>1. c \in 1..Len(conns)
    BY Tables DEF IInv
  <2>2. Turns(c, conns[c].transport) /\ UNCHANGED <<lock, queue, task>>
    BY <1>1, <1>6, <2>1, OwnerTurns
  <2>3. Stand /\ UNCHANGED pool
    BY <2>2 DEF Stand, Turns
  <2> QED BY <1>1, <2>2, <2>3, CInvStands
<1> QED BY <1>2, <1>3, <1>4, <1>5, <1>6 DEF Next

LEMMA AlwaysCInv == Spec => []CInv
BY AlwaysIInv, CInvInit, CInvNext, PTL DEF Spec

(* However many requests of a user come together, and whatever connections        *)
(* break, are lost or are given up by a cancelled request: while none is refused   *)
(* and the gateway runs, the user's connection to a server that is not over is     *)
(* the one its pooled transport owns (get_session, _cleanup_bg_task).             *)
THEOREM ConnectionsAreSingle == Spec => []OneConnectionPerKey
<1>1. IInv /\ CInv => OneConnectionPerKey
  <2> SUFFICES ASSUME IInv, CInv, Calm, At(Main, "start"), NEW c \in DOMAIN conns, ~Ended(c)
               PROVE  pool[KeyOf(c)] # 0 /\ transports[pool[KeyOf(c)]].owner = c
    BY DEF OneConnectionPerKey, Calm, KeyOf
  <2>1. c \in 1..Len(conns) /\ conns[c].phase # "done"
    BY Tables DEF Ended, IInv
  <2> QED BY <2>1 DEF CInv, Ownership
<1> QED BY <1>1, AlwaysIInv, AlwaysCInv, PTL

(* When disconnect_all() has returned ("Disconnect all transports for clean        *)
(* shutdown", server_manager.py:111), and no connection was refused and no request *)
(* cancelled before, no connection is left open.                                   *)
THEOREM ShutdownClosesConnections == Spec => []UndisturbedShutdownClosesAll
<1>1. IInv /\ CInv => UndisturbedShutdownClosesAll
  <2> SUFFICES ASSUME IInv, CInv, Calm, "cancelled" \notin setup.faults, At(Main, "done"),
                      NEW c \in DOMAIN conns
               PROVE  conns[c].phase = "done"
    BY DEF UndisturbedShutdownClosesAll, ShutdownClosesAll, Calm, Ended
  <2>1. c \in 1..Len(conns)
    BY Tables DEF IInv
  <2> QED BY <2>1 DEF CInv, Uncancelled, Closing, At
<1> QED BY <1>1, AlwaysIInv, AlwaysCInv, PTL
==================================================================================

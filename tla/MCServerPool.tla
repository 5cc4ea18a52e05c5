------------------------------- MODULE MCServerPool -------------------------------
(* Three requests: two of one user, and a third of another user of the server,  *)
(* of list_tools (the shared session), or for another server.                   *)
EXTENDS ServerPool, TLC

CONSTANTS t1, t2, t3

OneServer == t1 :> "s1" @@ t2 :> "s1" @@ t3 :> "s1"
TwoServers == t1 :> "s1" @@ t2 :> "s1" @@ t3 :> "s2"

TwoUsers == t1 :> "u1" @@ t2 :> "u1" @@ t3 :> "u2"
UserAndNone == t1 :> "u1" @@ t2 :> "u1" @@ t3 :> "None"
Strangers == t1 :> "u1" @@ t2 :> "None" @@ t3 :> "u1"

Setup(server, user, listing, faults) ==
  [server |-> server, user |-> user, listing |-> listing, faults |-> faults]

Refusing == Setup(OneServer, TwoUsers, {}, {"refused"})
Undisturbed == Setup(OneServer, TwoUsers, {}, {"broken", "dropped", "slow"})
Mixed == Setup(OneServer, UserAndNone, {t3}, {"refused", "dropped"})
Neighbours == Setup(TwoServers, Strangers, {}, {"refused"})

Leaving == Setup(OneServer, TwoUsers, {}, {"cancelled", "broken"})
LeavingRefused == Setup(OneServer, UserAndNone, {t3}, {"cancelled", "refused"})

AllSetups == {Refusing, Undisturbed, Mixed, Neighbours, Leaving, LeavingRefused}
RefusingOnly == {Refusing}
==================================================================================

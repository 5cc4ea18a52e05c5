-------------------------------- MODULE MCOBOCache --------------------------------
(* Three callers: two of one user for one server, and one of another user.      *)
EXTENDS OBOCache, TLC

CONSTANTS t1, t2, t3

Subjects == t1 :> "u1" @@ t2 :> "u1" @@ t3 :> "u2"
OneGrant == t1 :> "a" @@ t2 :> "a" @@ t3 :> "a"
==================================================================================

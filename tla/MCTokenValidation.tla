---------------------------- MODULE MCTokenValidation ----------------------------
(* Two requests and two keys: enough for a rotation, a stale cache, and a       *)
(* refresh that another request has just made.                                  *)
EXTENDS TokenValidation, TLC
==================================================================================

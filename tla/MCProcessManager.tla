---------------------------- MODULE MCProcessManager ----------------------------
(* Two servers, so that the health task is busy with one while the other fails. *)
EXTENDS ProcessManager

CONSTANTS a, b

RegisteredOrder == <<a, b>>
=================================================================================

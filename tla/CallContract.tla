------------------------------ MODULE CallContract ------------------------------
(***************************************************************************)
(* What the gateway promises about one tools/call request, whatever the     *)
(* pipeline, the authorization server and the upstream server do: a request *)
(* is forwarded only if it was not refused, content is released only for a  *)
(* forwarded request the upstream server has executed, an answer is final,  *)
(* and the upstream server executes a request at most MaxExecutions times.  *)
(***************************************************************************)
EXTENDS Naturals

CONSTANTS Requests, MaxExecutions

VARIABLES
  status,  (* "pending", "refused", "forwarded", "released" or "withheld"    *)
  effects  (* how often the upstream server has executed the request         *)

contractVars == <<status, effects>>

Init ==
  /\ status = [r \in Requests |-> "pending"]
  /\ effects = [r \in Requests |-> 0]

Become(r, s) == status' = [status EXCEPT ![r] = s] /\ UNCHANGED effects

Refuse(r)   == status[r] = "pending" /\ Become(r, "refused")
Forward(r)  == status[r] = "pending" /\ Become(r, "forwarded")
Withhold(r) == status[r] = "forwarded" /\ Become(r, "withheld")
Release(r)  == status[r] = "forwarded" /\ effects[r] > 0 /\ Become(r, "released")

(* The upstream server may execute a request even after the gateway has       *)
(* given up on it.                                                            *)
Execute(r) ==
  /\ status[r] \in {"forwarded", "released", "withheld"}
  /\ effects[r] < MaxExecutions
  /\ effects' = [effects EXCEPT ![r] = @ + 1]
  /\ UNCHANGED status

Next ==
  \E r \in Requests :
    Refuse(r) \/ Forward(r) \/ Withhold(r) \/ Release(r) \/ Execute(r)

Spec == Init /\ [][Next]_contractVars
================================================================================

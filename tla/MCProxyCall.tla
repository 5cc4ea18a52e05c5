------------------------------- MODULE MCProxyCall -------------------------------
(* ProxyCall in every deployment main.run can start: plugins, the masking       *)
(* plugin among them, come from the policy file; OBO without identity is what   *)
(* MCP_RELAX_STARTUP_CHECKS admits.                                             *)
EXTENDS ProxyCall, TLC

AllDeployments ==
  {d \in [identity : BOOLEAN, governance : BOOLEAN, masking : BOOLEAN, obo : BOOLEAN] :
     d.masking => d.governance}

(* the full deployment of the README: identity, policy, masking plugin *)
FullDeployment == {[identity |-> TRUE, governance |-> TRUE, masking |-> TRUE, obo |-> FALSE]}
==================================================================================

---------------------------- MODULE MCHookPipeline ----------------------------
(* The governance and the audit hook and up to two plugins, which may share       *)
(* their priority with either.                                                   *)
EXTENDS Plugins

CONSTANTS governance, audit, p1, p2

GovernanceFirst == <<[hook |-> governance, priority |-> 50]>>
AuditLast == <<[hook |-> audit, priority |-> 150]>>
PluginSymmetry == Permutations(PluginNames)
================================================================================

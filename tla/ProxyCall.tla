-------------------------------- MODULE ProxyCall --------------------------------
(***************************************************************************)
(* The life of a tools/call request in ProxyServer._call_tool               *)
(* (proxy/proxy_server.py): routing, the pre-run of the hook pipeline, the   *)
(* token exchange, the upstream call with its retries, and the post-run      *)
(* over the response.                                                        *)
(*                                                                          *)
(* One run of the pipeline is one step here: its outcome is determined by    *)
(* the first hook that raised (HookPipeline, FailedPointLeavesNoTrace).      *)
(* The upstream server executes a call it was sent at any later time, also   *)
(* after the gateway stopped waiting for it, or never.                       *)
(***************************************************************************)
EXTENDS Naturals, FiniteSets

CONSTANTS
  Requests,     (* the requests, each handled by a task of its own           *)
  Deployments,  (* configurations, each saying which hooks are registered    *)
  MaxRetries    (* ServerConfig.max_retries                                  *)

ASSUME ProxyAssumption ==
  /\ Deployments \subseteq
       [identity : BOOLEAN, governance : BOOLEAN, masking : BOOLEAN, obo : BOOLEAN]
  /\ \A d \in Deployments : d.masking => d.governance (* plugins come from the policy file *)
  /\ MaxRetries \in Nat

VARIABLES
  deploy,    (* the configuration the gateway was started with               *)
  pc,        (* where _call_tool is, per request                             *)
  ctx,       (* hook_ctx                                                     *)
  attempt,   (* the loop variable of the retry loop                          *)
  reply,     (* what the client got: "none" until _call_tool is left         *)
  sent,      (* the attempts whose call left for the upstream server         *)
  arguments, (* what the upstream server was sent: "none", "raw", "masked"   *)
  executed,  (* the attempts the upstream server has executed                *)
  preRun,    (* how the pre-run ended: "none" (not yet), "ok", or its failure *)
  postRun,   (* the same for the post-run                                    *)
  audit      (* the audit events of the request: how many of each type       *)

vars == <<deploy, pc, ctx, attempt, reply, sent, arguments, executed, preRun,
          postRun, audit>>
--------------------------------------------------------------------------------
Points == {"pre_validation", "post_validation", "pre_masking", "post_masking", "pre_audit"}

Place(p) == CASE p = "pre_validation" -> 1 [] p = "post_validation" -> 2
              [] p = "pre_masking" -> 3 [] p = "post_masking" -> 4 [] p = "pre_audit" -> 5

(* How a pipeline run ends: every hook returned, or a hook at this point      *)
(* raised ShortCircuitError(deny=True), (deny=False), or something else.      *)
Outcomes == [point : Points \cup {"end"}, kind : {"ok", "deny", "stop", "error"}]

PipelineOn == deploy.identity \/ deploy.governance

(* main._build_pipeline: the identity hook can fail a request only at its own *)
(* point, the policy file brings the governance hook and plugins.             *)
Possible(o) ==
  \/ o.kind = "ok" /\ o.point = "end"
  \/ /\ o.kind # "ok" /\ o.point \in Points
     /\ \/ deploy.governance
        \/ deploy.identity /\ o.point = "pre_validation" /\ o.kind \in {"deny", "error"}

Passed(o, p) == o.kind = "ok" \/ Place(p) < Place(o.point)

FreshContext == [identity |-> FALSE, decision |-> "pending",
                 inputMasked |-> FALSE, outputMasked |-> FALSE]

(* Mutant: the identity hook's denial is a plain exception *)
DecisionAfterLax(c, o) ==
  IF o.kind = "deny" /\ o.point # "pre_validation" THEN "deny"
  ELSE IF deploy.governance /\ Passed(o, "post_validation") THEN "allow" ELSE c.decision

(* policy_decision of the context Pipeline.execute returns *)
DecisionAfter(c, o) ==
  IF o.kind = "deny" THEN "deny"
  ELSE IF deploy.governance /\ Passed(o, "post_validation") THEN "allow" ELSE c.decision

(* The context Pipeline.execute(c) returns; there is a response to mask only  *)
(* in the post-run.                                                           *)
Run(c, o, post) ==
  [identity |-> c.identity \/ (deploy.identity /\ Passed(o, "pre_validation")),
   decision |-> DecisionAfter(c, o),
   inputMasked |-> c.inputMasked \/ (deploy.masking /\ Passed(o, "pre_masking")),
   outputMasked |-> post /\ deploy.masking /\ Passed(o, "post_masking")]

(* How many TOOL_INVOCATION events a run emits: AuditHook.on_pre_audit is last *)
(* of the last point; a plugin that raises there comes before or after it.    *)
Invocations(o) ==
  IF o.kind = "ok" THEN {1} ELSE IF o.point = "pre_audit" THEN {0, 1} ELSE {0}

(* Mutant: a short circuit that does not deny is not recorded *)
ErrorEventNoStop(o) == IF o.kind = "error" THEN 1 ELSE 0

(* AuditHook.on_error: POLICY_DECISION for a denial, ERROR for other failures *)
DenialEvent(o) == IF o.kind = "deny" THEN 1 ELSE 0
ErrorEvent(o) == IF o.kind \in {"stop", "error"} THEN 1 ELSE 0

Audited(r, o) ==
  \E n \in Invocations(o) :
    audit' = [audit EXCEPT ![r] = [invocation |-> @.invocation + n,
                                   denial |-> @.denial + DenialEvent(o),
                                   error |-> @.error + ErrorEvent(o)]]
--------------------------------------------------------------------------------
Init ==
  /\ deploy \in Deployments
  /\ pc = [r \in Requests |-> "new"]
  /\ ctx = [r \in Requests |-> FreshContext]
  /\ attempt = [r \in Requests |-> 0]
  /\ reply = [r \in Requests |-> "none"]
  /\ sent = [r \in Requests |-> {}]
  /\ arguments = [r \in Requests |-> "none"]
  /\ executed = [r \in Requests |-> {}]
  /\ preRun = [r \in Requests |-> "none"]
  /\ postRun = [r \in Requests |-> "none"]
  /\ audit = [r \in Requests |-> [invocation |-> 0, denial |-> 0, error |-> 0]]

Goto(r, from, to) == pc[r] = from /\ pc' = [pc EXCEPT ![r] = to]

(* _call_tool returns or raises *)
Answer(r, from, what) ==
  /\ Goto(r, from, "done")
  /\ reply' = [reply EXCEPT ![r] = what]

(* parse_tool and get_config; a request they reject is answered RoutingError  *)
Receive(r) ==
  /\ Goto(r, "new", IF PipelineOn THEN "pre" ELSE "token")
  /\ UNCHANGED <<deploy, ctx, attempt, reply, sent, arguments, executed, preRun,
                 postRun, audit>>

Misroute(r) ==
  /\ Answer(r, "new", "error")
  /\ UNCHANGED <<deploy, ctx, attempt, sent, arguments, executed, preRun, postRun,
                 audit>>

(* The pre-run; only policy_decision is looked at, not the run's success      *)
PreRun(r, o) ==
  LET after == Run(ctx[r], o, FALSE)
  IN /\ Possible(o)
     /\ IF after.decision = "deny" THEN Answer(r, "pre", "denied")
                                   ELSE Goto(r, "pre", "token") /\ UNCHANGED reply
     /\ ctx' = [ctx EXCEPT ![r] = after]
     /\ preRun' = [preRun EXCEPT ![r] = o.kind]
     /\ Audited(r, o)
     /\ UNCHANGED <<deploy, attempt, sent, arguments, executed, postRun>>

(* AuthProvider.get_token: OBO needs the validated identity on the context    *)
GetToken(r) ==
  /\ deploy.obo => ctx[r].identity
  /\ Goto(r, "token", "session")
  /\ UNCHANGED <<deploy, ctx, attempt, reply, sent, arguments, executed, preRun,
                 postRun, audit>>

(* TokenExchangeError is answered "Access denied", other errors propagate     *)
TokenFails(r) ==
  /\ deploy.obo
  /\ \/ Answer(r, "token", "denied")
     \/ ctx[r].identity /\ Answer(r, "token", "error")
  /\ UNCHANGED <<deploy, ctx, attempt, sent, arguments, executed, preRun, postRun,
                 audit>>

(* get_session returns and session.call_tool(tool_name, arguments) is sent    *)
Send(r) ==
  /\ Goto(r, "session", "calling")
  /\ sent' = [sent EXCEPT ![r] = @ \cup {attempt[r]}]
  /\ arguments' = [arguments EXCEPT ![r] = "raw"]
  /\ UNCHANGED <<deploy, ctx, attempt, reply, executed, preRun, postRun, audit>>

(* The upstream server executes a call it was sent, whoever still waits       *)
Execute(r, a) ==
  /\ a \in sent[r] \ executed[r]
  /\ executed' = [executed EXCEPT ![r] = @ \cup {a}]
  /\ UNCHANGED <<deploy, pc, ctx, attempt, reply, sent, arguments, preRun, postRun,
                 audit>>

(* The response arrives within the timeout *)
Return(r) ==
  /\ attempt[r] \in executed[r]
  /\ IF PipelineOn THEN Goto(r, "calling", "post") /\ UNCHANGED reply
                   ELSE Answer(r, "calling", "content")
  /\ UNCHANGED <<deploy, ctx, attempt, sent, arguments, executed, preRun, postRun,
                 audit>>

(* Mutant: the loop runs while attempt <= max_retries + 1 *)
RetriesLeftOneMore(r) == attempt[r] <= MaxRetries

RetriesLeft(r) == attempt[r] < MaxRetries

(* TimeoutError, TransportConnectionError, TransportTimeoutError: the attempt *)
(* is given up, and the request too after the last one (UpstreamError)        *)
GiveUpAttempt(r) ==
  /\ \E from \in {"session", "calling"} :
       IF RetriesLeft(r) THEN Goto(r, from, "backoff") /\ UNCHANGED reply
                         ELSE Answer(r, from, "upstream_error")
  /\ UNCHANGED <<deploy, ctx, attempt, sent, arguments, executed, preRun, postRun,
                 audit>>

(* Any other exception of get_session or call_tool leaves _call_tool at once  *)
Propagate(r) ==
  /\ \E from \in {"session", "calling"} : Answer(r, from, "error")
  /\ UNCHANGED <<deploy, ctx, attempt, sent, arguments, executed, preRun, postRun,
                 audit>>

(* Mutant: a retry does not count *)
NextAttemptStuck(r) == attempt

NextAttempt(r) == [attempt EXCEPT ![r] = @ + 1]

(* asyncio.sleep(delay) ends *)
Wake(r) ==
  /\ Goto(r, "backoff", "session")
  /\ attempt' = NextAttempt(r)
  /\ UNCHANGED <<deploy, ctx, reply, sent, arguments, executed, preRun, postRun, audit>>

(* Mutant: the response is blocked only when a hook denied it *)
ReleasedIfNotDenied(o) == o.kind # "deny"

(* post_result.success *)
Released(o) == o.kind = "ok"

(* The whole pipeline again, over the response: anything but success blocks it *)
PostRun(r, o) ==
  /\ Possible(o)
  /\ Answer(r, "post", IF Released(o) THEN "content" ELSE "blocked")
  /\ ctx' = [ctx EXCEPT ![r] = Run(@, o, TRUE)]
  /\ postRun' = [postRun EXCEPT ![r] = o.kind]
  /\ Audited(r, o)
  /\ UNCHANGED <<deploy, attempt, sent, arguments, executed, preRun>>

(* The gateway's own steps for a request it has begun to handle *)
Handle(r) ==
  \/ \E o \in Outcomes : PreRun(r, o) \/ PostRun(r, o)
  \/ GetToken(r) \/ TokenFails(r)
  \/ Send(r) \/ Return(r) \/ GiveUpAttempt(r) \/ Propagate(r) \/ Wake(r)

Next ==
  \E r \in Requests :
    \/ Receive(r) \/ Misroute(r) \/ Handle(r)
    \/ \E a \in sent[r] : Execute(r, a)

Spec == Init /\ [][Next]_vars

(* The event loop runs every handler on, and each of its waits ends: hooks    *)
(* and sleeps return, wait_for bounds the call, and get_session is assumed to *)
(* end (ServerPool says under which conditions it does).                      *)
FairSpec == Spec /\ \A r \in Requests : WF_vars(Handle(r))
--------------------------------------------------------------------------------
Contexts == [identity : BOOLEAN, decision : {"pending", "allow", "deny"},
             inputMasked : BOOLEAN, outputMasked : BOOLEAN]
Kinds == {"none", "ok", "deny", "stop", "error"}

(* Every variable stays in the range the code gives it. *)
TypeOK ==
  /\ deploy \in Deployments
  /\ pc \in [Requests -> {"new", "pre", "token", "session", "calling", "backoff",
                           "post", "done"}]
  /\ ctx \in [Requests -> Contexts]
  /\ attempt \in [Requests -> 0..MaxRetries]
  /\ reply \in [Requests -> {"none", "denied", "content", "blocked",
                              "upstream_error", "error"}]
  /\ sent \in [Requests -> SUBSET (0..MaxRetries)]
  /\ arguments \in [Requests -> {"none", "raw", "masked"}]
  /\ executed \in [Requests -> SUBSET (0..MaxRetries)]
  /\ preRun \in [Requests -> Kinds]
  /\ postRun \in [Requests -> Kinds]
  /\ audit \in [Requests -> [invocation : Nat, denial : Nat, error : Nat]]

(* A request a hook denied in the pre-run is answered "Access denied" and no  *)
(* call of it ever leaves for, or is executed by, the upstream server, also   *)
(* not by a retry (proxy_server.py:207-222).                                  *)
DeniedNeverForwarded ==
  \A r \in Requests :
    preRun[r] = "deny" => reply[r] = "denied" /\ sent[r] = {} /\ executed[r] = {}

(* The client gets upstream content only if the upstream server executed the  *)
(* attempt being answered and, with a pipeline, every hook of the post-run    *)
(* returned: the caller was authenticated again, the policy allowed the call, *)
(* and the output was masked (fail-closed branch, proxy_server.py:265-284).   *)
ContentIsProcessed ==
  \A r \in Requests :
    reply[r] = "content" =>
      /\ attempt[r] \in executed[r]
      /\ PipelineOn => postRun[r] = "ok"
      /\ deploy.identity => ctx[r].identity
      /\ deploy.governance => ctx[r].decision = "allow"
      /\ deploy.masking => ctx[r].outputMasked

(* A server that requires a token exchange is never called for a request      *)
(* without a validated identity, even when the identity hook failed in a way  *)
(* that did not deny the request (OBOAuthProvider.get_token, 42-64).          *)
ExchangeNeedsIdentity ==
  \A r \in Requests : deploy.obo /\ sent[r] # {} => ctx[r].identity

(* No upstream execution goes unrecorded: with a pipeline, a request whose    *)
(* call left the gateway already has an audit event, released content has an  *)
(* invocation event, and a denial or a blocked response has its own event.    *)
NothingUnaudited ==
  PipelineOn =>
    \A r \in Requests :
      /\ sent[r] # {} => audit[r].invocation + audit[r].error > 0
      /\ reply[r] = "content" => audit[r].invocation > 0
      /\ preRun[r] = "deny" => audit[r].denial > 0
      /\ reply[r] = "blocked" => audit[r].denial + audit[r].error > 0

(* A request is executed upstream at most max_retries + 1 times, counting the *)
(* executions of attempts the gateway had given up on (the retry loop).       *)
ExecutionsBounded ==
  \A r \in Requests :
    /\ executed[r] \subseteq sent[r]
    /\ Cardinality(executed[r]) <= MaxRetries + 1

(* Every request the gateway accepts is answered in the end, however many     *)
(* attempts fail.                                                             *)
EveryRequestAnswered ==
  \A r \in Requests : pc[r] = "pre" \/ pc[r] = "token" ~> pc[r] = "done"
--------------------------------------------------------------------------------
(* docs/plugins/README.md:171: a plugin that fails to process a request       *)
(* denies it.  What is sent upstream has passed every hook of the pre-run.    *)
HookErrorsFailClosed ==
  \A r \in Requests : preRun[r] = "error" => sent[r] = {}

(* docs/plugins/presidio-masking.md:56: PII is replaced before the request    *)
(* reaches the upstream server.                                               *)
UpstreamSeesMaskedInput ==
  \A r \in Requests : deploy.masking /\ preRun[r] = "ok" => arguments[r] # "raw"
--------------------------------------------------------------------------------
(* The contract _call_tool implements. *)
Status(r) ==
  IF reply[r] = "content" THEN "released"
  ELSE IF pc[r] = "done" THEN (IF sent[r] = {} THEN "refused" ELSE "withheld")
  ELSE (IF sent[r] = {} THEN "pending" ELSE "forwarded")

Contract == INSTANCE CallContract WITH
  MaxExecutions <- MaxRetries + 1,
  status <- [r \in Requests |-> Status(r)],
  effects <- [r \in Requests |-> Cardinality(executed[r])]

(* Every step of _call_tool is a step CallContract allows, or changes nothing *)
(* the contract speaks of.                                                    *)
ImplementsContract == Contract!Spec
================================================================================

----------------------------- MODULE ProxyCallProofs -----------------------------
(***************************************************************************)
(* Proofs about ProxyCall, for every set of requests, every deployment and   *)
(* every number of retries; and about Content, for every filter, every        *)
(* response and every set of repositories: which of them a client gets to see. *)
(***************************************************************************)
EXTENDS Content, FiniteSetTheorems, TLAPS

(* Where _call_tool is determines how far the request has come. *)
Progress ==
  \A r \in Requests :
    /\ reply[r] = "none" <=> pc[r] # "done"
    /\ pc[r] \in {"new", "pre"} => preRun[r] = "none"
    /\ pc[r] \in {"new", "pre", "token"} => sent[r] = {}
    /\ preRun[r] = "none" /\ PipelineOn => sent[r] = {} /\ reply[r] \in {"none", "error"}
    /\ pc[r] \in {"token", "session", "calling", "backoff", "post"} /\ PipelineOn
         => preRun[r] \in {"ok", "stop", "error"}
    /\ pc[r] = "backoff" => attempt[r] < MaxRetries
    /\ pc[r] = "calling" => attempt[r] \in sent[r]
    /\ pc[r] = "post" => PipelineOn /\ attempt[r] \in executed[r]
    /\ executed[r] \subseteq sent[r]
    /\ sent[r] \subseteq 0..attempt[r]

(* A denied request is over, and was never sent. *)
Denials ==
  \A r \in Requests :
    /\ preRun[r] = "deny" => pc[r] = "done" /\ reply[r] = "denied" /\ sent[r] = {}
    /\ preRun[r] = "deny" => audit[r].denial > 0

(* Beyond the token exchange the identity is there if the server needs it. *)
Exchanged ==
  \A r \in Requests :
    deploy.obo /\ (sent[r] # {} \/ pc[r] \in {"session", "calling", "backoff", "post"})
      => ctx[r].identity

(* What was recorded and what was released. *)
Recorded ==
  \A r \in Requests :
    /\ PipelineOn /\ preRun[r] \notin {"none", "deny"}
         => audit[r].invocation + audit[r].error > 0
    /\ reply[r] = "blocked" => audit[r].denial + audit[r].error > 0
    /\ reply[r] = "content" /\ PipelineOn => audit[r].invocation > 0

IInv == TypeOK /\ Progress /\ Denials /\ Exchanged /\ Recorded /\ ContentIsProcessed

(* A pipeline run returns a context, and says "deny" exactly when a hook      *)
(* denied or the context it started from was denied already.                  *)
LEMMA RunIsContext ==
  ASSUME NEW c \in Contexts, NEW o \in Outcomes, NEW post \in BOOLEAN, TypeOK
  PROVE  /\ Run(c, o, post) \in Contexts
         /\ o.kind = "deny" => Run(c, o, post).decision = "deny"
         /\ c.identity => Run(c, o, post).identity
         /\ o.kind = "ok" => /\ deploy.identity => Run(c, o, post).identity
                             /\ deploy.governance => Run(c, o, post).decision = "allow"
                             /\ deploy.masking /\ post => Run(c, o, post).outputMasked
<1>1. deploy \in [identity : BOOLEAN, governance : BOOLEAN, masking : BOOLEAN, obo : BOOLEAN]
  BY ProxyAssumption DEF TypeOK
<1>2. \A p \in Points : Passed(o, p) \in BOOLEAN /\ (o.kind = "ok" => Passed(o, p))
  BY DEF Passed
<1>3. DecisionAfter(c, o) \in {"pending", "allow", "deny"}
  BY DEF DecisionAfter, Contexts
<1> QED
  BY <1>1, <1>2, <1>3 DEF Run, Contexts, DecisionAfter, Points

LEMMA AuditedIsCounts ==
  ASSUME NEW r \in Requests, NEW o \in Outcomes, TypeOK, Audited(r, o)
  PROVE  /\ audit' \in [Requests -> [invocation : Nat, denial : Nat, error : Nat]]
         /\ \A q \in Requests \ {r} : audit'[q] = audit[q]
         /\ audit'[r].invocation >= audit[r].invocation
         /\ audit'[r].denial >= audit[r].denial
         /\ audit'[r].error >= audit[r].error
         /\ o.kind = "deny" => audit'[r].denial > 0
         /\ o.kind \in {"stop", "error"} => audit'[r].error > 0
         /\ o.kind = "ok" => audit'[r].invocation > 0
<1>1. PICK n \in Invocations(o) :
        audit' = [audit EXCEPT ![r] = [invocation |-> @.invocation + n,
                                       denial |-> @.denial + DenialEvent(o),
                                       error |-> @.error + ErrorEvent(o)]]
  BY DEF Audited
<1>2. n \in {0, 1} /\ (o.kind = "ok" => n = 1)
  BY <1>1 DEF Invocations
<1>3. DenialEvent(o) \in {0, 1} /\ (o.kind = "deny" => DenialEvent(o) = 1)
  BY DEF DenialEvent
<1>4. ErrorEvent(o) \in {0, 1} /\ (o.kind \in {"stop", "error"} => ErrorEvent(o) = 1)
  BY DEF ErrorEvent
<1>5. audit[r] \in [invocation : Nat, denial : Nat, error : Nat]
  BY DEF TypeOK
<1>6. audit'[r] = [invocation |-> audit[r].invocation + n,
                   denial |-> audit[r].denial + DenialEvent(o),
                   error |-> audit[r].error + ErrorEvent(o)]
  BY <1>1 DEF TypeOK
<1> QED
  BY <1>1, <1>2, <1>3, <1>4, <1>5, <1>6 DEF TypeOK

LEMMA InitInv == Init => IInv
  BY ProxyAssumption DEF Init, IInv, TypeOK, Progress, Denials, Exchanged, Recorded,
       ContentIsProcessed, FreshContext, Contexts, Kinds, PipelineOn

(* The typing of the deployment, stated once. *)
LEMMA DeployBoolean == TypeOK => /\ deploy.identity \in BOOLEAN
                                 /\ deploy.governance \in BOOLEAN
                                 /\ deploy.masking \in BOOLEAN
                                 /\ deploy.obo \in BOOLEAN
  BY ProxyAssumption DEF TypeOK

(* Masking implies governance in every deployment. *)
LEMMA NoPipelineNoHooks == TypeOK /\ ~PipelineOn =>
                             ~deploy.identity /\ ~deploy.governance /\ ~deploy.masking
  BY ProxyAssumption DEF TypeOK, PipelineOn

(* Every step of the gateway that does not run the pipeline.                  *)
LEMMA ReceiveStep == ASSUME IInv, NEW r \in Requests, Receive(r) PROVE IInv'
<1> USE DEF IInv, Receive, Goto, Answer
<1>1. TypeOK'
  BY ProxyAssumption DEF TypeOK, Progress
<1>2. Progress'
  BY ProxyAssumption DEF TypeOK, Progress, PipelineOn
<1>3. Denials'
  BY DEF TypeOK, Denials, Progress, PipelineOn
<1>4. Exchanged'
  BY DeployBoolean DEF TypeOK, Exchanged, Progress, PipelineOn
<1>5. Recorded'
  BY DEF TypeOK, Recorded, Progress, PipelineOn
<1>6. ContentIsProcessed'
  BY NoPipelineNoHooks DEF TypeOK, ContentIsProcessed, Progress, PipelineOn
<1> QED
  BY <1>1, <1>2, <1>3, <1>4, <1>5, <1>6

LEMMA MisrouteStep == ASSUME IInv, NEW r \in Requests, Misroute(r) PROVE IInv'
<1> USE DEF IInv, Misroute, Goto, Answer
<1>1. TypeOK'
  BY ProxyAssumption DEF TypeOK, Progress
<1>2. Progress'
  BY ProxyAssumption DEF TypeOK, Progress, PipelineOn
<1>3. Denials'
  BY DEF TypeOK, Denials, Progress, PipelineOn
<1>4. Exchanged'
  BY DeployBoolean DEF TypeOK, Exchanged, Progress, PipelineOn
<1>5. Recorded'
  BY DEF TypeOK, Recorded, Progress, PipelineOn
<1>6. ContentIsProcessed'
  BY NoPipelineNoHooks DEF TypeOK, ContentIsProcessed, Progress, PipelineOn
<1> QED
  BY <1>1, <1>2, <1>3, <1>4, <1>5, <1>6

LEMMA GetTokenStep == ASSUME IInv, NEW r \in Requests, GetToken(r) PROVE IInv'
<1> USE DEF IInv, GetToken, Goto, Answer
<1>1. TypeOK'
  BY ProxyAssumption DEF TypeOK, Progress
<1>2. Progress'
  BY ProxyAssumption DEF TypeOK, Progress, PipelineOn
<1>3. Denials'
  BY DEF TypeOK, Denials, Progress, PipelineOn
<1>4. Exchanged'
  BY DeployBoolean DEF TypeOK, Exchanged, Progress, PipelineOn
<1>5. Recorded'
  BY DEF TypeOK, Recorded, Progress, PipelineOn
<1>6. ContentIsProcessed'
  BY NoPipelineNoHooks DEF TypeOK, ContentIsProcessed, Progress, PipelineOn
<1> QED
  BY <1>1, <1>2, <1>3, <1>4, <1>5, <1>6

LEMMA TokenFailsStep == ASSUME IInv, NEW r \in Requests, TokenFails(r) PROVE IInv'
<1> USE DEF IInv, TokenFails, Goto, Answer
<1>1. TypeOK'
  BY ProxyAssumption DEF TypeOK, Progress
<1>2. Progress'
  BY ProxyAssumption DEF TypeOK, Progress, PipelineOn
<1>3. Denials'
  BY DEF TypeOK, Denials, Progress, PipelineOn
<1>4. Exchanged'
  BY DeployBoolean DEF TypeOK, Exchanged, Progress, PipelineOn
<1>5. Recorded'
  BY DEF TypeOK, Recorded, Progress, PipelineOn
<1>6. ContentIsProcessed'
  BY NoPipelineNoHooks DEF TypeOK, ContentIsProcessed, Progress, PipelineOn
<1> QED
  BY <1>1, <1>2, <1>3, <1>4, <1>5, <1>6

LEMMA SendStep == ASSUME IInv, NEW r \in Requests, Send(r) PROVE IInv'
<1> USE DEF IInv, Send, Goto, Answer
<1>1. TypeOK'
  BY ProxyAssumption DEF TypeOK, Progress
<1>2. Progress'
  BY ProxyAssumption DEF TypeOK, Progress, PipelineOn
<1>3. Denials'
  BY DEF TypeOK, Denials, Progress, PipelineOn
<1>4. Exchanged'
  BY DeployBoolean DEF TypeOK, Exchanged, Progress, PipelineOn
<1>5. Recorded'
  BY DEF TypeOK, Recorded, Progress, PipelineOn
<1>6. ContentIsProcessed'
  BY NoPipelineNoHooks DEF TypeOK, ContentIsProcessed, Progress, PipelineOn
<1> QED
  BY <1>1, <1>2, <1>3, <1>4, <1>5, <1>6

LEMMA ReturnStep == ASSUME IInv, NEW r \in Requests, Return(r) PROVE IInv'
<1> USE DEF IInv, Return, Goto, Answer
<1>1. TypeOK'
  <2>1. /\ pc' = [pc EXCEPT ![r] = "post"] \/ pc' = [pc EXCEPT ![r] = "done"]
        /\ reply' = reply \/ reply' = [reply EXCEPT ![r] = "content"]
    OBVIOUS
  <2>2. /\ pc \in [Requests -> {"new", "pre", "token", "session", "calling", "backoff",
                              "post", "done"}]
        /\ reply \in [Requests -> {"none", "denied", "content", "blocked",
                                 "upstream_error", "error"}]
    BY DEF TypeOK
  <2>3. pc' \in [Requests -> {"new", "pre", "token", "session", "calling", "backoff",
                            "post", "done"}]
    <3> HIDE DEF IInv, Return, Goto, Answer
    <3> QED BY <2>1, <2>2
  <2>4. reply' \in [Requests -> {"none", "denied", "content", "blocked",
                               "upstream_error", "error"}]
    <3> HIDE DEF IInv, Return, Goto, Answer
    <3> QED BY <2>1, <2>2
  <2> QED BY <2>3, <2>4 DEF TypeOK
<1>2. Progress'
  BY ProxyAssumption DEF TypeOK, Progress, PipelineOn
<1>3. Denials'
  BY DEF TypeOK, Denials, Progress, PipelineOn
<1>4. Exchanged'
  BY DeployBoolean DEF TypeOK, Exchanged, Progress, PipelineOn
<1>5. Recorded'
  BY DEF TypeOK, Recorded, Progress, PipelineOn
<1>6. ContentIsProcessed'
  BY NoPipelineNoHooks DEF TypeOK, ContentIsProcessed, Progress, PipelineOn
<1> QED
  BY <1>1, <1>2, <1>3, <1>4, <1>5, <1>6

LEMMA GiveUpAttemptStep == ASSUME IInv, NEW r \in Requests, GiveUpAttempt(r) PROVE IInv'
<1> USE DEF IInv, GiveUpAttempt, Goto, Answer, RetriesLeft
<1>1. TypeOK'
  BY ProxyAssumption DEF TypeOK, Progress
<1>2. Progress'
  BY ProxyAssumption DEF TypeOK, Progress, PipelineOn
<1>3. Denials'
  BY DEF TypeOK, Denials, Progress, PipelineOn
<1>4. Exchanged'
  BY DeployBoolean DEF TypeOK, Exchanged, Progress, PipelineOn
<1>5. Recorded'
  BY DEF TypeOK, Recorded, Progress, PipelineOn
<1>6. ContentIsProcessed'
  BY NoPipelineNoHooks DEF TypeOK, ContentIsProcessed, Progress, PipelineOn
<1> QED
  BY <1>1, <1>2, <1>3, <1>4, <1>5, <1>6

LEMMA PropagateStep == ASSUME IInv, NEW r \in Requests, Propagate(r) PROVE IInv'
<1> USE DEF IInv, Propagate, Goto, Answer
<1>1. TypeOK'
  BY ProxyAssumption DEF TypeOK, Progress
<1>2. Progress'
  BY ProxyAssumption DEF TypeOK, Progress, PipelineOn
<1>3. Denials'
  BY DEF TypeOK, Denials, Progress, PipelineOn
<1>4. Exchanged'
  BY DeployBoolean DEF TypeOK, Exchanged, Progress, PipelineOn
<1>5. Recorded'
  BY DEF TypeOK, Recorded, Progress, PipelineOn
<1>6. ContentIsProcessed'
  BY NoPipelineNoHooks DEF TypeOK, ContentIsProcessed, Progress, PipelineOn
<1> QED
  BY <1>1, <1>2, <1>3, <1>4, <1>5, <1>6

LEMMA WakeStep == ASSUME IInv, NEW r \in Requests, Wake(r) PROVE IInv'
<1> USE DEF IInv, Wake, Goto, Answer, NextAttempt
<1>1. TypeOK'
  BY ProxyAssumption DEF TypeOK, Progress
<1>2. Progress'
  BY ProxyAssumption DEF TypeOK, Progress, PipelineOn
<1>3. Denials'
  BY DEF TypeOK, Denials, Progress, PipelineOn
<1>4. Exchanged'
  BY DeployBoolean DEF TypeOK, Exchanged, Progress, PipelineOn
<1>5. Recorded'
  BY DEF TypeOK, Recorded, Progress, PipelineOn
<1>6. ContentIsProcessed'
  BY NoPipelineNoHooks DEF TypeOK, ContentIsProcessed, Progress, PipelineOn
<1> QED
  BY <1>1, <1>2, <1>3, <1>4, <1>5, <1>6

LEMMA ExecuteStep ==
  ASSUME IInv, NEW r \in Requests, NEW a \in sent[r], Execute(r, a) PROVE IInv'
<1> USE DEF IInv, Execute, Goto, Answer
<1>1. TypeOK'
  BY ProxyAssumption DEF TypeOK, Progress
<1>2. Progress'
  BY ProxyAssumption DEF TypeOK, Progress, PipelineOn
<1>3. Denials'
  BY DEF TypeOK, Denials, Progress, PipelineOn
<1>4. Exchanged'
  BY DeployBoolean DEF TypeOK, Exchanged, Progress, PipelineOn
<1>5. Recorded'
  BY DEF TypeOK, Recorded, Progress, PipelineOn
<1>6. ContentIsProcessed'
  BY NoPipelineNoHooks DEF TypeOK, ContentIsProcessed, Progress, PipelineOn
<1> QED
  BY <1>1, <1>2, <1>3, <1>4, <1>5, <1>6

(* The two runs of the pipeline.                                               *)
LEMMA PreRunStep == ASSUME IInv, NEW r \in Requests, NEW o \in Outcomes, PreRun(r, o)
                    PROVE  IInv'
<1> USE DEF IInv
<1> DEFINE after == Run(ctx[r], o, FALSE)
<1>0. ctx[r] \in Contexts /\ pc[r] = "pre"
  BY DEF TypeOK, PreRun, Goto, Answer
<1>1. after \in Contexts /\ (o.kind = "deny" => after.decision = "deny")
  BY <1>0, RunIsContext
<1>2. ctx' = [ctx EXCEPT ![r] = after] /\ preRun' = [preRun EXCEPT ![r] = o.kind]
  BY DEF PreRun
<1>3. /\ UNCHANGED <<deploy, attempt, sent, arguments, executed, postRun>>
      /\ \/ /\ after.decision = "deny"
            /\ pc' = [pc EXCEPT ![r] = "done"] /\ reply' = [reply EXCEPT ![r] = "denied"]
         \/ /\ after.decision # "deny"
            /\ pc' = [pc EXCEPT ![r] = "token"] /\ reply' = reply
  BY DEF PreRun, Answer, Goto
<1>4. /\ audit' \in [Requests -> [invocation : Nat, denial : Nat, error : Nat]]
      /\ \A q \in Requests \ {r} : audit'[q] = audit[q]
      /\ audit'[r].invocation >= audit[r].invocation
      /\ audit'[r].denial >= audit[r].denial
      /\ audit'[r].error >= audit[r].error
      /\ o.kind = "deny" => audit'[r].denial > 0
      /\ o.kind \in {"stop", "error"} => audit'[r].error > 0
      /\ o.kind = "ok" => audit'[r].invocation > 0
  BY AuditedIsCounts DEF PreRun
<1>5. o.kind \in {"ok", "deny", "stop", "error"}
  BY DEF Outcomes
<1> HIDE DEF after
<1>6. TypeOK'
  BY <1>1, <1>2, <1>3, <1>4, <1>5 DEF TypeOK, Kinds
<1>7. Progress'
  BY <1>0, <1>1, <1>2, <1>3, <1>5 DEF TypeOK, Progress, PipelineOn
<1>8. Denials'
  BY <1>0, <1>1, <1>2, <1>3, <1>4, <1>5 DEF TypeOK, Progress, Denials
<1>9. Exchanged'
  BY <1>0, <1>2, <1>3, DeployBoolean DEF TypeOK, Progress, Exchanged
<1>10. Recorded'
  <2> SUFFICES ASSUME NEW q \in Requests PROVE Recorded!(q)'
    BY DEF Recorded
  <2>1. CASE q # r
    BY <2>1, <1>2, <1>3, <1>4 DEF TypeOK, Recorded, PipelineOn
  <2>2. CASE q = r
    <3>1. audit[r] \in [invocation : Nat, denial : Nat, error : Nat]
      BY DEF TypeOK
    <3>2. audit'[r] \in [invocation : Nat, denial : Nat, error : Nat]
      BY <1>4
    <3>3. preRun'[r] = o.kind /\ reply[r] = "none"
      BY <1>0, <1>2 DEF TypeOK, Progress
    <3>4. reply'[r] \in {"none", "denied"}
      BY <1>3, <3>3 DEF TypeOK
    <3> QED
      BY <2>2, <3>1, <3>2, <3>3, <3>4, <1>4, <1>5
  <2> QED
    BY <2>1, <2>2
<1>11. ContentIsProcessed'
  BY <1>0, <1>2, <1>3 DEF TypeOK, Progress, ContentIsProcessed, PipelineOn
<1> QED
  BY <1>6, <1>7, <1>8, <1>9, <1>10, <1>11

LEMMA PostRunStep == ASSUME IInv, NEW r \in Requests, NEW o \in Outcomes, PostRun(r, o)
                     PROVE  IInv'
<1> USE DEF IInv
<1> DEFINE after == Run(ctx[r], o, TRUE)
<1>0. ctx[r] \in Contexts /\ pc[r] = "post"
  BY DEF TypeOK, PostRun, Goto, Answer
<1>1. /\ after \in Contexts
      /\ ctx[r].identity => after.identity
      /\ o.kind = "ok" => /\ deploy.identity => after.identity
                          /\ deploy.governance => after.decision = "allow"
                          /\ deploy.masking => after.outputMasked
  BY <1>0, RunIsContext
<1>2. ctx' = [ctx EXCEPT ![r] = after] /\ postRun' = [postRun EXCEPT ![r] = o.kind]
  BY DEF PostRun
<1>3. /\ UNCHANGED <<deploy, attempt, sent, arguments, executed, preRun>>
      /\ pc' = [pc EXCEPT ![r] = "done"]
      /\ reply' = [reply EXCEPT ![r] = IF o.kind = "ok" THEN "content" ELSE "blocked"]
  BY DEF PostRun, Answer, Goto, Released
<1>4. /\ audit' \in [Requests -> [invocation : Nat, denial : Nat, error : Nat]]
      /\ \A q \in Requests \ {r} : audit'[q] = audit[q]
      /\ audit'[r].invocation >= audit[r].invocation
      /\ audit'[r].denial >= audit[r].denial
      /\ audit'[r].error >= audit[r].error
      /\ o.kind = "deny" => audit'[r].denial > 0
      /\ o.kind \in {"stop", "error"} => audit'[r].error > 0
      /\ o.kind = "ok" => audit'[r].invocation > 0
  BY AuditedIsCounts DEF PostRun
<1>5. o.kind \in {"ok", "deny", "stop", "error"}
  BY DEF Outcomes
<1> HIDE DEF after
<1>6. TypeOK'
  BY <1>1, <1>2, <1>3, <1>4, <1>5 DEF TypeOK, Kinds
<1>7. Progress'
  BY <1>0, <1>3, <1>5 DEF TypeOK, Progress, PipelineOn
<1>8. Denials'
  BY <1>0, <1>3, <1>4 DEF TypeOK, Progress, Denials
<1>9. Exchanged'
  BY <1>0, <1>1, <1>2, <1>3 DEF TypeOK, Progress, Exchanged
<1>10. Recorded'
  <2> SUFFICES ASSUME NEW q \in Requests PROVE Recorded!(q)'
    BY DEF Recorded
  <2>1. CASE q # r
    BY <2>1, <1>2, <1>3, <1>4 DEF TypeOK, Recorded, PipelineOn
  <2>2. CASE q = r
    <3>1. audit[r] \in [invocation : Nat, denial : Nat, error : Nat]
      BY DEF TypeOK
    <3>2. audit'[r] \in [invocation : Nat, denial : Nat, error : Nat]
      BY <1>4
    <3> QED
      BY <2>2, <3>1, <3>2, <1>0, <1>2, <1>3, <1>4, <1>5 DEF TypeOK, Recorded, PipelineOn, Progress
  <2> QED
    BY <2>1, <2>2
<1>11. ContentIsProcessed'
  BY <1>0, <1>1, <1>2, <1>3, <1>5 DEF TypeOK, Progress, ContentIsProcessed, PipelineOn
<1> QED
  BY <1>6, <1>7, <1>8, <1>9, <1>10, <1>11

LEMMA StutterStep == IInv /\ UNCHANGED vars => IInv'
  BY DEF IInv, vars, TypeOK, Progress, Denials, Exchanged, Recorded, ContentIsProcessed,
         PipelineOn

THEOREM Invariance == Spec => []IInv
<1>1. IInv /\ [Next]_vars => IInv'
  <2> SUFFICES ASSUME IInv, Next PROVE IInv'
    BY StutterStep
  <2>1. PICK r \in Requests : \/ Receive(r) \/ Misroute(r) \/ Handle(r)
                              \/ \E a \in sent[r] : Execute(r, a)
    BY DEF Next
  <2>2. CASE Receive(r)  BY <2>2, ReceiveStep
  <2>3. CASE Misroute(r)  BY <2>3, MisrouteStep
  <2>4. CASE \E a \in sent[r] : Execute(r, a)  BY <2>4, ExecuteStep
  <2>5. CASE Handle(r)
    BY <2>5, PreRunStep, PostRunStep, GetTokenStep, TokenFailsStep, SendStep, ReturnStep,
       GiveUpAttemptStep, PropagateStep, WakeStep DEF Handle
  <2> QED
    BY <2>1, <2>2, <2>3, <2>4, <2>5
<1> QED
  BY InitInv, <1>1, PTL DEF Spec

(* The attempts a request can have had upstream are those the loop numbers.   *)
LEMMA AttemptsBounded ==
  ASSUME TypeOK, NEW r \in Requests
  PROVE  IsFiniteSet(executed[r]) /\ Cardinality(executed[r]) <= MaxRetries + 1
<1>1. MaxRetries \in Nat
  BY ProxyAssumption
<1>2. executed[r] \subseteq 0..MaxRetries
  BY DEF TypeOK
<1>3. IsFiniteSet(0..MaxRetries) /\ Cardinality(0..MaxRetries) = MaxRetries + 1
  BY <1>1, FS_Interval
<1>4. IsFiniteSet(executed[r]) /\ Cardinality(executed[r]) <= Cardinality(0..MaxRetries)
  BY <1>2, <1>3, FS_Subset
<1> QED
  BY <1>3, <1>4

(* Every variable stays in its range, in every deployment.                    *)
THEOREM TypeCorrect == Spec => []TypeOK
<1>1. IInv => TypeOK
  BY DEF IInv
<1> QED
  BY <1>1, Invariance, PTL

(* No call of a denied request leaves the gateway (proxy_server.py:207-222).   *)
THEOREM DeniedStaysHome == Spec => []DeniedNeverForwarded
<1>1. IInv => DeniedNeverForwarded
  <2> SUFFICES ASSUME IInv, NEW r \in Requests, preRun[r] = "deny"
               PROVE  reply[r] = "denied" /\ sent[r] = {} /\ executed[r] = {}
    BY DEF DeniedNeverForwarded
  <2> QED
    BY DEF IInv, Progress, Denials
<1> QED
  BY <1>1, Invariance, PTL

(* Released content was authenticated, allowed and masked (265-284).           *)
THEOREM ReleasedIsProcessed == Spec => []ContentIsProcessed
<1>1. IInv => ContentIsProcessed
  BY DEF IInv
<1> QED
  BY <1>1, Invariance, PTL

(* No exchange-protected server is called without an identity (226-242).       *)
THEOREM ExchangeIsIdentified == Spec => []ExchangeNeedsIdentity
<1>1. IInv => ExchangeNeedsIdentity
  BY DEF IInv, Exchanged, ExchangeNeedsIdentity
<1> QED
  BY <1>1, Invariance, PTL

(* What left the gateway, was denied, blocked or released has its event.       *)
THEOREM EverythingAudited == Spec => []NothingUnaudited
<1>1. IInv => NothingUnaudited
  <2> SUFFICES ASSUME IInv, PipelineOn, NEW r \in Requests
               PROVE  /\ sent[r] # {} => audit[r].invocation + audit[r].error > 0
                      /\ reply[r] = "content" => audit[r].invocation > 0
                      /\ preRun[r] = "deny" => audit[r].denial > 0
                      /\ reply[r] = "blocked" => audit[r].denial + audit[r].error > 0
    BY DEF NothingUnaudited
  <2>1. sent[r] # {} => preRun[r] \notin {"none", "deny"}
    BY DEF IInv, Progress, Denials
  <2> QED
    BY <2>1 DEF IInv, Recorded, Denials
<1> QED
  BY <1>1, Invariance, PTL

(* At most max_retries + 1 executions, late ones included (the loop of 244).   *)
THEOREM ExecutionsAreBounded == Spec => []ExecutionsBounded
<1>1. IInv => ExecutionsBounded
  <2> SUFFICES ASSUME IInv, NEW r \in Requests
               PROVE  executed[r] \subseteq sent[r] /\ Cardinality(executed[r]) <= MaxRetries + 1
    BY DEF ExecutionsBounded
  <2> QED
    BY AttemptsBounded DEF IInv, Progress
<1> QED
  BY <1>1, Invariance, PTL
--------------------------------------------------------------------------------
(* What a step of the request r may do to its status, as the contract sees it    *)
Allowed(r, before, after) ==
  \/ after = before
  \/ before = "pending" /\ after \in {"refused", "forwarded"}
  \/ before = "forwarded" /\ after = "withheld"
  \/ before = "forwarded" /\ after = "released" /\ Cardinality(executed[r]) > 0

(* A step of _call_tool moves one request, and the upstream executes nothing     *)
LEMMA MoveIsAllowed ==
  ASSUME NEW r \in Requests, UNCHANGED executed, Allowed(r, Status(r), Status(r)'),
         \A q \in Requests \ {r} : Status(q)' = Status(q)
  PROVE  [Contract!Next]_(Contract!contractVars)
<1> DEFINE S == [q \in Requests |-> Status(q)]
           E == [q \in Requests |-> Cardinality(executed[q])]
<1>1. /\ S' = [S EXCEPT ![r] = Status(r)'] /\ E' = E
      /\ S[r] = Status(r) /\ E[r] = Cardinality(executed[r])
  OBVIOUS
<1>2. CASE Status(r)' = Status(r)
  <2>1. S' = S
    BY <1>2
  <2> QED BY <1>1, <2>1 DEF Contract!contractVars
<1>3. CASE Status(r) = "pending" /\ Status(r)' = "refused"
  <2>1. Contract!Refuse(r)
    BY <1>1, <1>3 DEF Contract!Refuse, Contract!Become
  <2> QED BY <2>1 DEF Contract!Next
<1>4. CASE Status(r) = "pending" /\ Status(r)' = "forwarded"
  <2>1. Contract!Forward(r)
    BY <1>1, <1>4 DEF Contract!Forward, Contract!Become
  <2> QED BY <2>1 DEF Contract!Next
<1>5. CASE Status(r) = "forwarded" /\ Status(r)' = "withheld"
  <2>1. Contract!Withhold(r)
    BY <1>1, <1>5 DEF Contract!Withhold, Contract!Become
  <2> QED BY <2>1 DEF Contract!Next
<1>6. CASE Status(r) = "forwarded" /\ Status(r)' = "released" /\ Cardinality(executed[r]) > 0
  <2>1. Contract!Release(r)
    BY <1>1, <1>6 DEF Contract!Release, Contract!Become
  <2> QED BY <2>1 DEF Contract!Next
<1> QED BY <1>2, <1>3, <1>4, <1>5, <1>6 DEF Allowed

LEMMA HandlingIsAllowed ==
  ASSUME IInv, NEW r \in Requests, Receive(r) \/ Misroute(r) \/ Handle(r)
  PROVE  [Contract!Next]_(Contract!contractVars)
<1>1. /\ UNCHANGED executed
      /\ \A q \in Requests \ {r} : pc'[q] = pc[q] /\ reply'[q] = reply[q] /\ sent'[q] = sent[q]
  <2>1. DOMAIN pc = Requests /\ DOMAIN reply = Requests /\ DOMAIN sent = Requests
    BY DEF IInv, TypeOK
  <2>2. CASE Receive(r) \/ Misroute(r) \/ Return(r)
    BY <2>1, <2>2 DEF Receive, Misroute, Return, Goto, Answer
  <2>3. CASE \E o \in Outcomes : PreRun(r, o)
    BY <2>1, <2>3 DEF PreRun, Goto, Answer
  <2>4. CASE \E o \in Outcomes : PostRun(r, o)
    BY <2>1, <2>4 DEF PostRun, Goto, Answer
  <2>5. CASE GetToken(r) \/ TokenFails(r) \/ Send(r)
    BY <2>1, <2>5 DEF GetToken, TokenFails, Send, Goto, Answer
  <2>6. CASE GiveUpAttempt(r) \/ Propagate(r) \/ Wake(r)
    BY <2>1, <2>6 DEF GiveUpAttempt, Propagate, Wake, Goto, Answer
  <2> QED BY <2>2, <2>3, <2>4, <2>5, <2>6 DEF Handle
<1>2. \A q \in Requests \ {r} : Status(q)' = Status(q)
  BY <1>1 DEF Status
<1>3. /\ reply[r] = "none" <=> pc[r] # "done"
      /\ pc[r] \in {"new", "pre", "token"} => sent[r] = {}
      /\ pc[r] = "calling" => sent[r] # {}
      /\ pc[r] = "post" => sent[r] # {} /\ Cardinality(executed[r]) > 0
      /\ attempt[r] \in executed[r] => Cardinality(executed[r]) > 0
      /\ DOMAIN pc = Requests /\ DOMAIN reply = Requests
      /\ sent \in [Requests -> SUBSET (0..MaxRetries)]
  <2>1. attempt[r] \in executed[r] => Cardinality(executed[r]) > 0
    <3>1. IsFiniteSet(executed[r])
      BY AttemptsBounded DEF IInv
    <3>2. Cardinality(executed[r]) \in Nat /\ (Cardinality(executed[r]) = 0 <=> executed[r] = {})
      BY <3>1, FS_CardinalityType, FS_EmptySet
    <3> QED BY <3>2
  <2>2. pc[r] = "post" => sent[r] # {} /\ attempt[r] \in executed[r]
    BY DEF IInv, Progress
  <2>3. /\ DOMAIN pc = Requests /\ DOMAIN reply = Requests
        /\ sent \in [Requests -> SUBSET (0..MaxRetries)]
    BY DEF IInv, TypeOK
  <2>4. /\ reply[r] = "none" <=> pc[r] # "done"
        /\ pc[r] \in {"new", "pre", "token"} => sent[r] = {}
        /\ pc[r] = "calling" => sent[r] # {}
    BY DEF IInv, Progress
  <2> QED BY <2>1, <2>2, <2>3, <2>4
<1>4. Allowed(r, Status(r), Status(r)')
  <2>1. CASE Receive(r) \/ GetToken(r) \/ Wake(r)
    <3>1. /\ pc[r] # "done" /\ pc'[r] # "done" /\ UNCHANGED <<reply, sent>>
      BY <1>3, <2>1 DEF Receive, GetToken, Wake, Goto
    <3> QED BY <3>1 DEF Allowed, Status
  <2>2. CASE Misroute(r) \/ TokenFails(r)
    <3>1. /\ pc[r] \in {"new", "token"} /\ pc'[r] = "done" /\ sent'[r] = {}
          /\ reply[r] = "none" /\ reply'[r] # "content"
      BY <1>3, <2>2 DEF Misroute, TokenFails, Answer, Goto
    <3> QED BY <1>3, <3>1 DEF Allowed, Status
  <2>3. ASSUME NEW o \in Outcomes, PreRun(r, o) PROVE Allowed(r, Status(r), Status(r)')
    <3>1. /\ pc[r] = "pre" /\ sent[r] = {} /\ sent' = sent /\ reply[r] = "none"
          /\ \/ pc'[r] = "done" /\ reply'[r] = "denied"
             \/ pc'[r] = "token" /\ reply'[r] = "none"
      BY <1>3, <2>3 DEF PreRun, Answer, Goto
    <3> QED BY <3>1 DEF Allowed, Status
  <2>4. CASE Send(r)
    <3>1. pc[r] = "session" /\ pc'[r] = "calling" /\ sent'[r] # {} /\ reply' = reply /\ reply[r] = "none"
      BY <1>3, <2>4 DEF Send, Goto
    <3> QED BY <3>1 DEF Allowed, Status
  <2>5. CASE Return(r)
    <3>1. /\ pc[r] = "calling" /\ sent[r] # {} /\ sent' = sent /\ reply[r] = "none"
          /\ Cardinality(executed[r]) > 0
          /\ \/ pc'[r] = "post" /\ reply'[r] = "none"
             \/ pc'[r] = "done" /\ reply'[r] = "content"
      BY <1>3, <2>5 DEF Return, Answer, Goto
    <3> QED BY <3>1 DEF Allowed, Status
  <2>6. CASE GiveUpAttempt(r) \/ Propagate(r)
    <3>1. /\ pc[r] \in {"session", "calling"} /\ sent' = sent /\ reply[r] = "none"
          /\ \/ pc'[r] = "backoff" /\ reply'[r] = "none"
             \/ pc'[r] = "done" /\ reply'[r] \in {"upstream_error", "error"}
      BY <1>3, <2>6 DEF GiveUpAttempt, Propagate, Answer, Goto
    <3> QED BY <3>1 DEF Allowed, Status
  <2>7. ASSUME NEW o \in Outcomes, PostRun(r, o) PROVE Allowed(r, Status(r), Status(r)')
    <3>1. /\ pc[r] = "post" /\ sent[r] # {} /\ sent' = sent /\ reply[r] = "none"
          /\ Cardinality(executed[r]) > 0
          /\ pc'[r] = "done" /\ reply'[r] \in {"content", "blocked"}
      BY <1>3, <2>7 DEF PostRun, Answer, Goto
    <3> QED BY <3>1 DEF Allowed, Status
  <2> QED BY <2>1, <2>2, <2>3, <2>4, <2>5, <2>6, <2>7 DEF Handle
<1> QED BY <1>1, <1>2, <1>4, MoveIsAllowed

LEMMA ExecutionIsAllowed ==
  ASSUME IInv, NEW r \in Requests, NEW a \in sent[r], Execute(r, a)
  PROVE  [Contract!Next]_(Contract!contractVars)
<1> DEFINE S == [q \in Requests |-> Status(q)]
           E == [q \in Requests |-> Cardinality(executed[q])]
<1>1. S' = S
  BY DEF Execute, Status
<1>2. IsFiniteSet(executed[r]) /\ IsFiniteSet(executed[r] \cup {a})
  BY AttemptsBounded, FS_AddElement DEF IInv
<1>3. /\ executed'[r] = executed[r] \cup {a} /\ a \notin executed[r]
      /\ \A q \in Requests \ {r} : executed'[q] = executed[q]
      /\ executed[r] \cup {a} \subseteq 0..MaxRetries
  BY DEF Execute, IInv, TypeOK
<1>4. /\ Cardinality(executed'[r]) = Cardinality(executed[r]) + 1
      /\ Cardinality(executed'[r]) <= MaxRetries + 1 /\ Cardinality(executed[r]) \in Nat
  <2>1. Cardinality(executed[r] \cup {a}) = Cardinality(executed[r]) + 1
    BY <1>2, <1>3, FS_AddElement
  <2>2. IsFiniteSet(0..MaxRetries) /\ Cardinality(0..MaxRetries) = MaxRetries + 1
    BY ProxyAssumption, FS_Interval
  <2>3. Cardinality(executed[r] \cup {a}) <= MaxRetries + 1
    BY <1>3, <2>2, FS_Subset
  <2> QED BY <1>2, <1>3, <2>1, <2>3, FS_CardinalityType
<1>5. E' = [E EXCEPT ![r] = @ + 1]
  BY <1>3, <1>4
<1>6. E[r] < MaxRetries + 1
  BY <1>4, ProxyAssumption
<1>7. S[r] \in {"forwarded", "released", "withheld"}
  BY DEF Status
<1>8. Contract!Execute(r)
  BY <1>1, <1>5, <1>6, <1>7 DEF Contract!Execute
<1> QED BY <1>8 DEF Contract!Next

(* Every step of _call_tool and of the upstream server is one the contract       *)
(* allows: seen from outside, a request is refused or forwarded, then withheld   *)
(* or released, once and for all, and executed at most max_retries + 1 times.   *)
THEOREM CallKeepsContract == Spec => ImplementsContract
<1>1. Init => Contract!Init
  <2> SUFFICES ASSUME Init PROVE Contract!Init
    OBVIOUS
  <2>1. \A r \in Requests : Status(r) = "pending" /\ Cardinality(executed[r]) = 0
    BY FS_EmptySet DEF Init, Status
  <2> QED BY <2>1 DEF Contract!Init
<1>2. IInv /\ [Next]_vars => [Contract!Next]_(Contract!contractVars)
  <2> SUFFICES ASSUME IInv, [Next]_vars PROVE [Contract!Next]_(Contract!contractVars)
    OBVIOUS
  <2>1. CASE UNCHANGED vars
    <3>1. \A r \in Requests : Status(r)' = Status(r)
      BY <2>1 DEF vars, Status
    <3> QED BY <2>1, <3>1 DEF vars, Contract!contractVars
  <2>2. CASE Next
    BY <2>2, HandlingIsAllowed, ExecutionIsAllowed DEF Next
  <2> QED BY <2>1, <2>2
<1> QED BY <1>1, <1>2, Invariance, PTL DEF Spec, ImplementsContract, Contract!Spec
--------------------------------------------------------------------------------
(* What the calls carry (Content): the two plugins that rewrite a response.      *)

Entries == [object : BOOLEAN, personal : BOOLEAN, refs : [Fields -> References]]

ItemsOver(E) ==
  [type : {"text", "image", "resource", "other"},
   shape : {"list", "object", "scalar", "broken"}, entries : SUBSET E]

(* An entry as the client may see it *)
Shown(e) == IF deploy.masking THEN MaskEntry(e) ELSE e

(* A masked entry holds nothing the engine recognises, and is otherwise the same *)
LEMMA MaskEntryIs ==
  ASSUME NEW e \in Entries
  PROVE  /\ ~Sensitive(MaskEntry(e)) /\ MaskEntry(e).object = e.object
         /\ DOMAIN MaskEntry(e).refs = Fields
         /\ \A f \in Fields :
              /\ MaskEntry(e).refs[f].api = e.refs[f].api
              /\ MaskEntry(e).refs[f].repo =
                   IF e.refs[f].repo \in Personal THEN Masked ELSE e.refs[f].repo
<1>1. /\ e.refs \in [Fields -> References] /\ DOMAIN e.refs = Fields
      /\ MaskEntry(e).refs = [f \in Fields |-> MaskRef(e.refs[f])]
      /\ MaskEntry(e).object = e.object /\ MaskEntry(e).personal = FALSE
  BY DEF Entries, MaskEntry
<1>2. ASSUME NEW f \in Fields
      PROVE  /\ MaskRef(e.refs[f]).api = e.refs[f].api
             /\ MaskRef(e.refs[f]).repo = IF e.refs[f].repo \in Personal THEN Masked ELSE e.refs[f].repo
  <2>1. e.refs[f] \in [repo : Repos \cup {NoRepo}, api : BOOLEAN]
    BY <1>1 DEF References
  <2> QED BY <2>1 DEF MaskRef
<1>3. Masked \notin Personal
  BY ContentAssumption
<1> QED BY <1>1, <1>2, <1>3 DEF Sensitive

(* The field that decides: _extract_repo_from_item finds a name if there is one  *)
LEMMA RepoIsNamed ==
  ASSUME NEW e
  PROVE  \/ RepoOf(e) = NoRepo /\ \A f \in Fields : NameIn(e.refs[f]) = NoRepo
         \/ RepoOf(e) # NoRepo /\ \E f \in Fields : RepoOf(e) = NameIn(e.refs[f])
<1> DEFINE named == {i \in DOMAIN ItemFields : NameIn(e.refs[ItemFields[i]]) # NoRepo}
           first == CHOOSE i \in named : \A j \in named : i <= j
<1>1. RepoOf(e) = IF named = {} THEN NoRepo ELSE NameIn(e.refs[ItemFields[first]])
  BY DEF RepoOf, FirstNamed
<1>2. CASE named = {}
  BY <1>1, <1>2 DEF Fields
<1>3. CASE named # {}
  <2>1. named \subseteq 1..6
    BY DEF ItemFields
  <2> HIDE DEF named
  <2>2. \E i \in named : \A j \in named : i <= j
    <3>1. \A i \in named : i = 1 \/ i = 2 \/ i = 3 \/ i = 4 \/ i = 5 \/ i = 6
      BY <2>1
    <3>2. CASE 1 \in named
      BY <3>1, <3>2
    <3>3. CASE 1 \notin named /\ 2 \in named
      BY <3>1, <3>3
    <3>4. CASE 1 \notin named /\ 2 \notin named /\ 3 \in named
      BY <3>1, <3>4
    <3>5. CASE 1 \notin named /\ 2 \notin named /\ 3 \notin named /\ 4 \in named
      BY <3>1, <3>5
    <3>6. CASE 1 \notin named /\ 2 \notin named /\ 3 \notin named /\ 4 \notin named
      BY <1>3, <3>1, <3>6
    <3> QED BY <3>2, <3>3, <3>4, <3>5, <3>6
  <2>3. first \in named
    BY <2>2
  <2> HIDE DEF first
  <2>4. first \in DOMAIN ItemFields /\ NameIn(e.refs[ItemFields[first]]) # NoRepo
    BY <2>3 DEF named
  <2> QED BY <1>1, <1>3, <2>4 DEF Fields
<1> QED BY <1>2, <1>3

(* Of an entry whose fields agree, the filter keeps exactly what the policy       *)
(* leaves; a masked name does not tell                                          *)
LEMMA KeptIffAllowed ==
  ASSUME NEW e, DOMAIN e.refs = Fields, Unequivocal(e)
  PROVE  /\ KeepsEntry(filter.mode, e) => ~Disallowed(e)
         /\ ~Disallowed(e) /\ (\A f \in Fields : e.refs[f].repo # Masked)
              => KeepsEntry(filter.mode, e)
<1>1. \A f \in Fields : NameIn(e.refs[f]) = e.refs[f].repo
  BY DEF Unequivocal, NameIn
<1>2. \A f, g \in Fields :
        NoRepo \in {e.refs[f].repo, e.refs[g].repo} \/ e.refs[f].repo = e.refs[g].repo
  BY DEF Unequivocal
<1>3. \A f \in Fields : e.refs[f].repo \in {NoRepo, RepoOf(e)}
  BY <1>1, <1>2, RepoIsNamed
<1>4. RepoOf(e) # NoRepo => \E f \in Fields : e.refs[f].repo = RepoOf(e)
  BY <1>1, RepoIsNamed
<1> QED BY <1>3, <1>4 DEF KeepsEntry, Disallowed

LEMMA MaskingKeepsVerdict ==
  ASSUME NEW e \in Entries
  PROVE  /\ Unequivocal(e) => Unequivocal(MaskEntry(e))
         /\ Disallowed(MaskEntry(e)) => Disallowed(e)
         /\ \A f \in Fields : e.refs[f].repo # Masked
<1> DEFINE m == MaskEntry(e)
<1>1. /\ m.object = e.object /\ DOMAIN m.refs = Fields /\ DOMAIN e.refs = Fields
      /\ \A f \in Fields :
           /\ m.refs[f].api = e.refs[f].api
           /\ m.refs[f].repo = IF e.refs[f].repo \in Personal THEN Masked ELSE e.refs[f].repo
  BY MaskEntryIs DEF Entries
<1> HIDE DEF m
<1>2. NoRepo \notin Personal /\ Masked # NoRepo /\ Masked \notin Repos
  BY ContentAssumption, FilterAssumption
<1>3. Unequivocal(e) => Unequivocal(m)
  BY <1>1, <1>2 DEF Unequivocal
<1>4. Disallowed(m) => Disallowed(e)
  BY <1>1 DEF Disallowed
<1>5. \A f \in Fields : e.refs[f] \in [repo : Repos \cup {NoRepo}, api : BOOLEAN]
  BY DEF Entries, References
<1> QED BY <1>2, <1>3, <1>4, <1>5 DEF m
--------------------------------------------------------------------------------
(* What POST_MASKING makes of a response, item by item                          *)

LEMMA MaskContentIs ==
  ASSUME NEW c, \A i \in DOMAIN c : c[i] \in ItemsOver(Entries), NEW m \in MaskContent(c)
  PROVE  /\ DOMAIN m = DOMAIN c
         /\ \A i \in DOMAIN c :
              /\ m[i].type = c[i].type /\ m[i].shape \in {c[i].shape, "broken"}
              /\ m[i].entries = {Shown(e) : e \in c[i].entries}
              /\ \E E : m[i] \in ItemsOver(E)
<1>1. CASE deploy.masking
  <2>1. /\ m \in [DOMAIN c -> UNION {MaskedItems(c[i]) : i \in DOMAIN c}]
        /\ \A i \in DOMAIN c : m[i] \in MaskedItems(c[i])
    BY <1>1 DEF MaskContent, MaskedContents
  <2>2. ASSUME NEW i \in DOMAIN c
        PROVE  /\ m[i].type = c[i].type /\ m[i].shape \in {c[i].shape, "broken"}
               /\ m[i].entries = {Shown(e) : e \in c[i].entries}
               /\ \E E : m[i] \in ItemsOver(E)
    <3> DEFINE item == c[i]
               es == {MaskEntry(e) : e \in item.entries}
               masked == [item EXCEPT !.entries = {MaskEntry(e) : e \in @}]
    <3>1. m[i] = masked \/ m[i] = [masked EXCEPT !.shape = "broken"]
      BY <2>1 DEF MaskedItems
    <3>2. item \in ItemsOver(Entries)
      OBVIOUS
    <3>3. masked = [type |-> item.type, shape |-> item.shape, entries |-> es]
      <4>1. masked = [item EXCEPT !.entries = es]
        OBVIOUS
      <4> HIDE DEF es, masked
      <4> QED BY <3>2, <4>1 DEF ItemsOver
    <3>4. es = {Shown(e) : e \in item.entries}
      BY <1>1 DEF Shown
    <3> HIDE DEF es, masked, item
    <3>5. /\ m[i] = [type |-> item.type, shape |-> item.shape, entries |-> es]
             \/ m[i] = [type |-> item.type, shape |-> "broken", entries |-> es]
          /\ item.type \in {"text", "image", "resource", "other"}
          /\ item.shape \in {"list", "object", "scalar", "broken"}
      BY <3>1, <3>2, <3>3 DEF ItemsOver
    <3>6. m[i] \in ItemsOver(es)
      BY <3>5 DEF ItemsOver
    <3> QED BY <3>4, <3>5, <3>6 DEF item
  <2> QED BY <2>1, <2>2
<1>2. CASE ~deploy.masking
  <2>1. m = c
    BY <1>2 DEF MaskContent
  <2>2. \A i \in DOMAIN c : c[i].entries = {Shown(e) : e \in c[i].entries}
    BY <1>2 DEF Shown
  <2> QED BY <2>1, <2>2 DEF ItemsOver
<1> QED BY <1>1, <1>2

(* The entries the filter judges: of a text that parses to a list or an object,  *)
(* for a tool whose answers are such                                            *)
Judges(tool, item) ==
  item.type = "text" /\ item.shape # "scalar" /\ (tool = "list" \/ item.shape = "object")

LEMMA FilteredIs ==
  ASSUME NEW c, \A i \in DOMAIN c : \E E : c[i] \in ItemsOver(E),
         NEW mode, NEW tool \in {"list", "single"}, NEW d, d = Filtered(mode, tool, c)
  PROVE  /\ \A i \in DOMAIN d : \A e \in d[i].entries :
              /\ i \in DOMAIN c /\ d[i].type = c[i].type /\ e \in c[i].entries
              /\ c[i].type = "text" => c[i].shape # "broken"
              /\ Judges(tool, c[i]) => KeepsEntry(mode, e)
         /\ tool = "list" /\ (\A i \in DOMAIN c : c[i].type = "text" => c[i].shape # "broken") =>
              \A i \in DOMAIN c : \A e \in c[i].entries :
                (Judges(tool, c[i]) => KeepsEntry(mode, e))
                  => i \in DOMAIN d /\ d[i].type = c[i].type /\ e \in d[i].entries
         /\ \A E : (\A i \in DOMAIN c : c[i] \in ItemsOver(E)) =>
              \A i \in DOMAIN d : d[i] \in ItemsOver(E)
<1> DEFINE remains == {j \in DOMAIN c : ~Dropped(mode, c[j])}
           kept == IF tool = "list" THEN [i \in remains |-> FilterItem(mode, c[i])] ELSE c
           refused == \E i \in DOMAIN c : Refused(mode, tool, c[i])
<1>1. d = IF DOMAIN kept = {} \/ refused THEN <<PolicyMessage>> ELSE kept
  BY DEF Filtered
<1>2. ASSUME NEW i \in DOMAIN c
      PROVE  LET f == FilterItem(mode, c[i])
             IN /\ f.type = c[i].type /\ f.entries \subseteq c[i].entries
                /\ \A e \in c[i].entries :
                     e \in f.entries <=> (Judges("list", c[i]) => KeepsEntry(mode, e))
                /\ \A E : c[i] \in ItemsOver(E) => f \in ItemsOver(E)
  <2>1. PICK E : c[i] \in ItemsOver(E)
    OBVIOUS
  <2> DEFINE item == c[i]
  <2>2. CASE item.type # "text" \/ item.shape = "scalar"
    <3>1. FilterItem(mode, item) = item
      BY <2>2 DEF FilterItem
    <3> QED BY <2>2, <3>1 DEF Judges
  <2>3. CASE item.type = "text" /\ item.shape # "scalar"
    <3> DEFINE es == {e \in item.entries : KeepsEntry(mode, e)}
    <3>1. FilterItem(mode, item) = [item EXCEPT !.entries = {e \in @ : KeepsEntry(mode, e)}]
      BY <2>3 DEF FilterItem
    <3>2. FilterItem(mode, item) = [type |-> item.type, shape |-> item.shape, entries |-> es]
      BY <2>1, <3>1 DEF ItemsOver
    <3>3. \A F : item \in ItemsOver(F) =>
            [type |-> item.type, shape |-> item.shape, entries |-> es] \in ItemsOver(F)
      BY DEF ItemsOver
    <3> QED BY <2>3, <3>2, <3>3 DEF Judges
  <2> QED BY <2>2, <2>3
<1>3. CASE refused \/ DOMAIN kept = {}
  <2>1. d = <<PolicyMessage>>
    BY <1>1, <1>3
  <2>2. /\ DOMAIN d = {1} /\ d[1].entries = {} /\ \A E : d[1] \in ItemsOver(E)
    BY <2>1 DEF PolicyMessage, ItemsOver
  <2>3. ASSUME tool = "list", \A i \in DOMAIN c : c[i].type = "text" => c[i].shape # "broken",
               NEW i \in DOMAIN c, NEW e \in c[i].entries, Judges(tool, c[i]) => KeepsEntry(mode, e)
        PROVE  FALSE
    <3>1. ~refused
      BY <2>3 DEF Refused
    <3>2. Dropped(mode, c[i])
      BY <1>3, <2>3, <3>1
    <3> QED BY <2>3, <3>2 DEF Dropped, Judges
  <2> HIDE DEF kept, refused
  <2> QED BY <2>2, <2>3
<1>4. CASE ~refused /\ DOMAIN kept # {} /\ tool = "list"
  <2>1. d = [i \in remains |-> FilterItem(mode, c[i])]
    BY <1>1, <1>4
  <2>2. \A i \in DOMAIN c : c[i].type = "text" => c[i].shape # "broken"
    BY <1>4 DEF Refused
  <2>3. ASSUME NEW i \in DOMAIN c, NEW e \in c[i].entries, Judges(tool, c[i]) => KeepsEntry(mode, e)
        PROVE  i \in remains
    BY <1>4, <2>3 DEF Dropped, Judges
  <2>4. DOMAIN d = remains /\ \A i \in remains : i \in DOMAIN c /\ d[i] = FilterItem(mode, c[i])
    BY <2>1
  <2> HIDE DEF remains, kept, refused
  <2> QED BY <1>2, <1>4, <2>2, <2>3, <2>4
<1>5. CASE ~refused /\ DOMAIN kept # {} /\ tool # "list"
  <2>1. d = c
    BY <1>1, <1>5
  <2>2. ASSUME NEW i \in DOMAIN c, NEW e \in c[i].entries
        PROVE  /\ c[i].type = "text" => c[i].shape # "broken"
               /\ Judges(tool, c[i]) /\ tool = "single" => KeepsEntry(mode, e)
    BY <1>5 DEF Refused, SingleIsKept, Judges
  <2> QED BY <1>5, <2>1, <2>2
<1> QED BY <1>3, <1>4, <1>5

Looks(r) == FilterOn /\ call[r].tool \in {"list", "single"}

(* Whatever the order of the two plugins: what is left was given, is shown as    *)
(* masking shows it, and was judged if the filter looks into it; and the filter *)
(* before the masking takes nothing else away                                   *)
LEMMA ProcessedIs ==
  ASSUME NEW r, NEW u, \A i \in DOMAIN u : u[i] \in ItemsOver(Entries), NEW c \in Processed(r, u)
  PROVE  /\ \A i \in DOMAIN c : \A e \in c[i].entries :
              /\ i \in DOMAIN u /\ c[i].type = u[i].type
              /\ \E g \in u[i].entries :
                   /\ e = Shown(g)
                   /\ /\ Looks(r) /\ u[i].type = "text" /\ u[i].shape # "scalar"
                      /\ call[r].tool = "list" \/ u[i].shape # "list"
                      => KeepsEntry(filter.mode, IF filter.last THEN e ELSE g)
         /\ /\ Looks(r) /\ ~filter.last /\ call[r].tool = "list"
            /\ \A i \in DOMAIN u : u[i].type = "text" => u[i].shape # "broken"
            => \A i \in DOMAIN u : \A g \in u[i].entries :
                 (Judges("list", u[i]) => KeepsEntry(filter.mode, g))
                   => i \in DOMAIN c /\ c[i].type = u[i].type /\ Shown(g) \in c[i].entries
<1> DEFINE tool == call[r].tool
           mode == filter.mode
<1>1. CASE ~Looks(r)
  <2>1. \A m : FilterContent(r, m) = m
    BY <1>1 DEF FilterContent, Looks
  <2>2. c \in MaskContent(u)
    BY <2>1 DEF Processed
  <2>3. /\ DOMAIN c = DOMAIN u
        /\ \A i \in DOMAIN u : c[i].type = u[i].type /\ c[i].entries = {Shown(e) : e \in u[i].entries}
    BY <2>2, MaskContentIs
  <2> QED BY <1>1, <2>3
<1>2. CASE Looks(r) /\ filter.last
  <2>1. PICK m \in MaskContent(u) : c = Filtered(mode, tool, m)
    BY <1>2 DEF Processed, FilterContent, Looks
  <2>2. /\ DOMAIN m = DOMAIN u
        /\ \A i \in DOMAIN u :
             /\ m[i].type = u[i].type /\ m[i].shape \in {u[i].shape, "broken"}
             /\ m[i].entries = {Shown(e) : e \in u[i].entries}
             /\ \E E : m[i] \in ItemsOver(E)
    BY MaskContentIs
  <2>3. tool \in {"list", "single"} /\ \A i \in DOMAIN m : \E E : m[i] \in ItemsOver(E)
    BY <1>2, <2>2 DEF Looks
  <2> HIDE DEF tool, mode
  <2>4. \A i \in DOMAIN c : \A e \in c[i].entries :
          /\ i \in DOMAIN m /\ c[i].type = m[i].type /\ e \in m[i].entries
          /\ m[i].type = "text" => m[i].shape # "broken"
          /\ Judges(tool, m[i]) => KeepsEntry(mode, e)
    BY <2>1, <2>3, FilteredIs
  <2>5. ASSUME NEW i \in DOMAIN c, NEW e \in c[i].entries
        PROVE  /\ i \in DOMAIN u /\ c[i].type = u[i].type
               /\ \E g \in u[i].entries :
                    /\ e = Shown(g)
                    /\ /\ u[i].type = "text" /\ u[i].shape # "scalar"
                       /\ tool = "list" \/ u[i].shape # "list"
                       => KeepsEntry(mode, e)
    <3>1. i \in DOMAIN u /\ c[i].type = u[i].type /\ m[i].type = u[i].type
      BY <2>2, <2>4
    <3>2. PICK g \in u[i].entries : e = Shown(g)
      BY <2>2, <2>4, <3>1
    <3>3. ASSUME u[i].type = "text", u[i].shape # "scalar", tool = "list" \/ u[i].shape # "list"
          PROVE  Judges(tool, m[i])
      <4>1. m[i].shape = u[i].shape /\ m[i].shape # "broken"
        BY <2>2, <2>4, <3>1, <3>3
      <4>2. u[i].shape \in {"list", "object", "scalar", "broken"}
        BY <3>1 DEF ItemsOver
      <4> QED BY <3>1, <3>3, <4>1, <4>2 DEF Judges
    <3> QED BY <2>4, <3>1, <3>2, <3>3
  <2> QED BY <1>2, <2>5 DEF tool, mode
<1>3. CASE Looks(r) /\ ~filter.last
  <2>1. PICK f : f = Filtered(mode, tool, u) /\ c \in MaskContent(f)
    BY <1>3 DEF Processed, FilterContent, Looks
  <2>2. tool \in {"list", "single"} /\ \A i \in DOMAIN u : \E E : u[i] \in ItemsOver(E)
    BY <1>3 DEF Looks
  <2> HIDE DEF tool, mode
  <2>3. /\ \A i \in DOMAIN f : \A e \in f[i].entries :
             /\ i \in DOMAIN u /\ f[i].type = u[i].type /\ e \in u[i].entries
             /\ u[i].type = "text" => u[i].shape # "broken"
             /\ Judges(tool, u[i]) => KeepsEntry(mode, e)
        /\ tool = "list" /\ (\A i \in DOMAIN u : u[i].type = "text" => u[i].shape # "broken") =>
             \A i \in DOMAIN u : \A e \in u[i].entries :
               (Judges(tool, u[i]) => KeepsEntry(mode, e))
                 => i \in DOMAIN f /\ f[i].type = u[i].type /\ e \in f[i].entries
        /\ \A i \in DOMAIN f : f[i] \in ItemsOver(Entries)
    BY <2>1, <2>2, FilteredIs
  <2>4. /\ DOMAIN c = DOMAIN f
        /\ \A i \in DOMAIN f :
             c[i].type = f[i].type /\ c[i].entries = {Shown(e) : e \in f[i].entries}
    BY <2>1, <2>3, MaskContentIs
  <2>5. ASSUME NEW i \in DOMAIN c, NEW e \in c[i].entries
        PROVE  /\ i \in DOMAIN u /\ c[i].type = u[i].type
               /\ \E g \in u[i].entries :
                    /\ e = Shown(g)
                    /\ /\ u[i].type = "text" /\ u[i].shape # "scalar"
                       /\ tool = "list" \/ u[i].shape # "list"
                       => KeepsEntry(mode, g)
    <3>1. PICK g \in f[i].entries : e = Shown(g)
      BY <2>4
    <3>2. i \in DOMAIN u /\ f[i].type = u[i].type /\ g \in u[i].entries
          /\ (u[i].type = "text" => u[i].shape # "broken")
          /\ (Judges(tool, u[i]) => KeepsEntry(mode, g))
      BY <2>3, <2>4
    <3>3. u[i].shape \in {"list", "object", "scalar", "broken"}
      BY <3>2 DEF ItemsOver
    <3> QED BY <2>4, <3>1, <3>2, <3>3 DEF Judges
  <2>6. ASSUME tool = "list", \A i \in DOMAIN u : u[i].type = "text" => u[i].shape # "broken",
               NEW i \in DOMAIN u, NEW g \in u[i].entries, Judges("list", u[i]) => KeepsEntry(mode, g)
        PROVE  i \in DOMAIN c /\ c[i].type = u[i].type /\ Shown(g) \in c[i].entries
    BY <2>3, <2>4, <2>6
  <2> QED BY <1>3, <2>5, <2>6 DEF tool, mode
<1> QED BY <1>1, <1>2, <1>3
--------------------------------------------------------------------------------
(* Between upstream and client: what is about to be processed is what the        *)
(* upstream server answered, and what was released was processed                *)
DInv ==
  /\ filter.on => deploy.governance
  /\ DOMAIN content = Requests /\ DOMAIN upstream = Requests
  /\ \A r \in Requests :
       /\ \A i \in DOMAIN upstream[r] : IsItem(upstream[r][i])
       /\ pc[r] = "post" => content[r] = upstream[r]
       /\ reply[r] = "content" /\ PipelineOn =>
            \E c \in Processed(r, upstream[r]) : content[r] = Rebuilt(c)

(* Whatever carries a call, the handling of it is that of ProxyCall             *)
LEMMA ContentSteps ==
  /\ ContentInit => Init
  /\ [ContentNext]_allVars => [Next]_vars
<1>1. ContentInit => Init
  BY DEF ContentInit
<1>2. ContentNext => Next
  <2> SUFFICES ASSUME NEW r \in Requests, HandleWithData(r) PROVE Handle(r)
    BY DEF ContentNext, Next
  <2> QED BY DEF HandleWithData, PreRunWithData, PostRunWithData, ReturnWithData, OtherSteps, Handle
<1>3. UNCHANGED allVars => UNCHANGED vars
  BY DEF allVars
<1> QED BY <1>1, <1>2, <1>3

LEMMA DInvInit == ContentInit => DInv
<1> SUFFICES ASSUME ContentInit PROVE DInv
  OBVIOUS
<1>1. filter.on => deploy.governance
  <2>1. PICK s \in Setups : deploy = s.deploy /\ filter = s.filter
    BY DEF ContentInit
  <2> QED BY <2>1, ContentAssumption
<1>2. /\ DOMAIN content = Requests /\ DOMAIN upstream = Requests
      /\ \A r \in Requests : DOMAIN upstream[r] = {} /\ pc[r] = "new" /\ reply[r] = "none"
  BY DEF ContentInit, Init
<1> QED BY <1>1, <1>2 DEF DInv

(* A step in which no request newly awaits the post-run or gets an answer        *)
LEMMA ElsewhereNothing ==
  ASSUME DInv, UNCHANGED <<deploy, filter, call, upstream>>, DOMAIN content' = Requests,
         \A r \in Requests :
           \/ /\ content'[r] = content[r] /\ (pc'[r] = "post" => pc[r] = "post")
              /\ reply'[r] = "content" => reply[r] = "content"
           \/ pc'[r] # "post" /\ reply'[r] # "content"
           \/ /\ pc'[r] # "post"
              /\ \E c \in Processed(r, upstream[r]) : content'[r] = Rebuilt(c)
  PROVE  DInv'
<1>1. \A r, u : Processed(r, u)' = Processed(r, u)
  BY DEF Processed, FilterContent, FilterOn, MaskContent
<1>2. PipelineOn' = PipelineOn
  BY DEF PipelineOn
<1>3. \A r, c : Rebuilt(c)' = Rebuilt(c)
  BY DEF Rebuilt
<1>4. ASSUME NEW r \in Requests
      PROVE  /\ \A i \in DOMAIN upstream'[r] : IsItem(upstream'[r][i])
             /\ pc'[r] = "post" => content'[r] = upstream'[r]
             /\ reply'[r] = "content" /\ PipelineOn =>
                  \E c \in Processed(r, upstream[r]) : content'[r] = Rebuilt(c)
  BY DEF DInv
<1> QED BY <1>1, <1>2, <1>4 DEF DInv

LEMMA DInvStep == IInv /\ DInv /\ [ContentNext]_allVars => DInv'
<1> SUFFICES ASSUME IInv, DInv, [ContentNext]_allVars PROVE DInv'
  OBVIOUS
<1>1. /\ DOMAIN content = Requests /\ DOMAIN pc = Requests /\ DOMAIN reply = Requests
      /\ DOMAIN upstream = Requests
      /\ \A r \in Requests : pc[r] # "done" => reply[r] = "none"
  BY DEF DInv, IInv, TypeOK, Progress
<1>2. CASE UNCHANGED allVars
  BY <1>1, <1>2, ElsewhereNothing DEF allVars, vars, data
<1>3. ASSUME NEW r \in Requests,
             \/ Receive(r) \/ Misroute(r) \/ \E a \in sent[r] : Execute(r, a)
             \/ GetToken(r) \/ TokenFails(r) \/ Send(r) \/ GiveUpAttempt(r) \/ Propagate(r) \/ Wake(r),
             UNCHANGED data
      PROVE  DInv'
  <2>1. UNCHANGED <<deploy, filter, call, upstream, content>>
    BY <1>3 DEF data, Receive, Misroute, Execute, GetToken, TokenFails, Send, GiveUpAttempt,
                Propagate, Wake
  <2>2. \A q \in Requests : /\ pc'[q] = "post" => pc[q] = "post"
                            /\ reply'[q] = "content" => reply[q] = "content"
    BY <1>1, <1>3 DEF Receive, Misroute, Execute, GetToken, TokenFails, Send, GiveUpAttempt,
                      Propagate, Wake, Goto, Answer
  <2> QED BY <1>1, <2>1, <2>2, ElsewhereNothing
<1>4. ASSUME NEW r \in Requests, NEW o \in Outcomes, PreRunWithData(r, o) PROVE DInv'
  <2>1. UNCHANGED <<deploy, filter, call, upstream>> /\ PreRun(r, o)
    BY <1>4 DEF PreRunWithData, PreRun
  <2>2. PICK c : content' = [content EXCEPT ![r] = c]
    BY <1>4 DEF PreRunWithData, ProcessResponse
  <2>3. \A q \in Requests \ {r} : pc'[q] = pc[q] /\ reply'[q] = reply[q] /\ content'[q] = content[q]
    BY <1>1, <2>1, <2>2 DEF PreRun, Goto, Answer
  <2>4. pc'[r] # "post" /\ reply'[r] # "content"
    BY <1>1, <2>1 DEF PreRun, Goto, Answer
  <2> QED BY <1>1, <2>1, <2>2, <2>3, <2>4, ElsewhereNothing
<1>5. ASSUME NEW r \in Requests, NEW o \in Outcomes, PostRunWithData(r, o) PROVE DInv'
  <2>1. UNCHANGED <<deploy, filter, call, upstream>> /\ PostRun(r, o) /\ pc[r] = "post"
    BY <1>5 DEF PostRunWithData, PostRun, Answer, Goto
  <2>2. content[r] = upstream[r]
    BY <2>1 DEF DInv
  <2>3. PICK d : /\ content' = [content EXCEPT ![r] = d]
                 /\ Released(o) => \E c \in Processed(r, upstream[r]) : d = Rebuilt(c)
    BY <1>5, <2>2 DEF PostRunWithData, ProcessResponse
  <2>4. \A q \in Requests \ {r} : pc'[q] = pc[q] /\ reply'[q] = reply[q] /\ content'[q] = content[q]
    BY <1>1, <2>1, <2>3 DEF PostRun, Goto, Answer
  <2>5. pc'[r] # "post" /\ (~Released(o) => reply'[r] # "content") /\ content'[r] = d
    BY <1>1, <2>1, <2>3 DEF PostRun, Goto, Answer
  <2> QED BY <1>1, <2>1, <2>3, <2>4, <2>5, ElsewhereNothing
<1>6. ASSUME NEW r \in Requests, ReturnWithData(r) PROVE DInv'
  <2>1. UNCHANGED <<deploy, filter, call>> /\ Return(r) /\ pc[r] = "calling"
    BY <1>6 DEF ReturnWithData, Return, Answer, Goto
  <2>2. PICK c \in Responses : /\ upstream' = [upstream EXCEPT ![r] = c]
                               /\ content' = [content EXCEPT ![r] = c]
    BY <1>6 DEF ReturnWithData
  <2>3. \A i \in DOMAIN c : IsItem(c[i])
    BY ContentAssumption
  <2>4. /\ \A q \in Requests \ {r} : /\ pc'[q] = pc[q] /\ reply'[q] = reply[q]
                                     /\ content'[q] = content[q] /\ upstream'[q] = upstream[q]
        /\ PipelineOn => reply'[r] = "none"
        /\ content'[r] = c /\ upstream'[r] = c
        /\ DOMAIN content' = Requests /\ DOMAIN upstream' = Requests
    BY <1>1, <2>1, <2>2 DEF Return, Goto, Answer
  <2>5. \A q, u : Processed(q, u)' = Processed(q, u)
    BY <2>1 DEF Processed, FilterContent, FilterOn, MaskContent
  <2>6. PipelineOn' = PipelineOn
    BY <2>1 DEF PipelineOn
  <2> QED BY <2>1, <2>3, <2>4, <2>5, <2>6 DEF DInv
<1> QED BY <1>2, <1>3, <1>4, <1>5, <1>6 DEF ContentNext, HandleWithData, OtherSteps

(* With what they carry, calls are handled as ProxyCall says, so everything      *)
(* proved of its handling holds for every filter, response and tool.            *)
THEOREM ContentIsHandled == ContentSpec => Spec
BY ContentSteps, PTL DEF ContentSpec, Spec

THEOREM ContentInvariance == ContentSpec => [](IInv /\ DInv)
BY ContentIsHandled, Invariance, DInvInit, DInvStep, PTL DEF ContentSpec

THEOREM ContentKeepsContract == ContentSpec => ImplementsContract
BY ContentIsHandled, CallKeepsContract

LEMMA UpstreamItems ==
  ASSUME DInv, NEW r \in Requests
  PROVE  \A i \in DOMAIN upstream[r] : upstream[r][i] \in ItemsOver(Entries)
BY DEF DInv, IsItem, ItemsOver, Entries

(* With the masking plugin no client gets anything the engine recognises, in    *)
(* whatever items a response has and wherever the filter runs                   *)
(* (MaskingHook.on_post_masking).                                               *)
THEOREM NothingSensitiveEscapes == ContentSpec => []NothingSensitiveReleased
<1>1. IInv /\ DInv => NothingSensitiveReleased
  <2> SUFFICES ASSUME IInv, DInv, NEW r \in Requests, deploy.masking, reply[r] = "content",
                      NEW e \in EntriesOf(content[r])
               PROVE  ~Sensitive(e)
    BY DEF NothingSensitiveReleased
  <2>1. PipelineOn
    BY NoPipelineNoHooks DEF IInv
  <2>2. PICK c \in Processed(r, upstream[r]) : content[r] = Rebuilt(c)
    BY <2>1 DEF DInv
  <2>3. PICK i \in DOMAIN c : e \in Rebuilt(c)[i].entries
    BY <2>2 DEF EntriesOf, Rebuilt
  <2>4. e \in c[i].entries
    BY <2>3 DEF Rebuilt
  <2>5. \A j \in DOMAIN upstream[r] : upstream[r][j] \in ItemsOver(Entries)
    BY UpstreamItems
  <2>6. i \in DOMAIN upstream[r] /\ \E g \in upstream[r][i].entries : e = Shown(g)
    BY <2>4, <2>5, ProcessedIs
  <2>7. PICK g \in Entries : e = Shown(g)
    BY <2>5, <2>6 DEF ItemsOver
  <2> QED BY <2>7, MaskEntryIs DEF Shown
<1> QED BY <1>1, ContentInvariance, PTL

(* A filtered response is exactly what the policy leaves of it, masked if there  *)
(* is masking: for every response whose fields agree, every list of             *)
(* repositories and every order of the plugins                                  *)
(* (GitHubRepoFilterHook.on_post_masking).                                      *)
THEOREM FilteringIsExact == ContentSpec => []FilteredExactly
<1>1. IInv /\ DInv => FilteredExactly
  <2> SUFFICES ASSUME IInv, DInv, NEW r \in Requests, Judged(r), LookedInto(r),
                      \A e \in TextEntriesOf(Rebuilt(upstream[r])) : Unequivocal(e)
               PROVE  LET released == TextEntriesOf(content[r])
                          given == TextEntriesOf(Rebuilt(upstream[r]))
                          parsed == \A i \in DOMAIN upstream[r] :
                                      upstream[r][i].type = "text" => upstream[r][i].shape # "broken"
                      IN /\ \A e \in released : ~Disallowed(e)
                         /\ ~filter.last /\ parsed /\ call[r].tool = "list"
                              => released = {Shown(e) : e \in {g \in given : ~Disallowed(g)}}
    BY DEF FilteredExactly, Shown
  <2> DEFINE released == TextEntriesOf(content[r])
             given == TextEntriesOf(Rebuilt(upstream[r]))
             u == upstream[r]
             tool == call[r].tool
             mode == filter.mode
             parsed == \A i \in DOMAIN u : u[i].type = "text" => u[i].shape # "broken"
             Texts == {"text", "other"}
  <2>1. Looks(r) /\ reply[r] = "content" /\ PipelineOn
    BY DEF Judged, Looks, FilterOn, PipelineOn, DInv
  <2>2. PICK c \in Processed(r, u) : content[r] = Rebuilt(c)
    BY <2>1 DEF DInv
  <2>3. \A i \in DOMAIN u : u[i] \in ItemsOver(Entries) /\ IsItem(u[i])
    BY UpstreamItems DEF DInv
  <2>4. ASSUME NEW d
        PROVE  \A e : e \in TextEntriesOf(Rebuilt(d)) <=>
                        \E i \in DOMAIN d : d[i].type \in Texts /\ e \in d[i].entries
    <3>1. /\ DOMAIN Rebuilt(d) = DOMAIN d
          /\ \A i \in DOMAIN d : /\ Rebuilt(d)[i].type = "text" <=> d[i].type \in Texts
                                 /\ Rebuilt(d)[i].entries = d[i].entries
      BY DEF Rebuilt
    <3> QED BY <3>1 DEF TextEntriesOf
  <2>5. released = TextEntriesOf(Rebuilt(c))
    BY <2>2
  <2>6. \A i \in DOMAIN c : \A e \in c[i].entries :
          /\ i \in DOMAIN u /\ c[i].type = u[i].type
          /\ \E g \in u[i].entries :
               /\ e = Shown(g)
               /\ /\ u[i].type = "text" /\ u[i].shape # "scalar"
                  /\ tool = "list" \/ u[i].shape # "list"
                  => KeepsEntry(mode, IF filter.last THEN e ELSE g)
    BY <2>1, <2>3, ProcessedIs
  <2>7. \A g \in Entries : /\ Disallowed(Shown(g)) => Disallowed(g)
                           /\ Unequivocal(g) => Unequivocal(Shown(g))
                           /\ DOMAIN Shown(g).refs = Fields /\ DOMAIN g.refs = Fields
                           /\ Shown(g).object = g.object
    BY MaskEntryIs, MaskingKeepsVerdict DEF Shown, Entries
  <2> HIDE DEF released, given, u, tool, mode, parsed
  <2>8. ASSUME NEW e \in released
        PROVE  ~Disallowed(e) /\ \E g \in given : e = Shown(g) /\ (~filter.last => ~Disallowed(g))
    <3>1. PICK i \in DOMAIN c : c[i].type \in Texts /\ e \in c[i].entries
      BY <2>4, <2>5
    <3>2. PICK g \in u[i].entries :
            /\ e = Shown(g)
            /\ /\ u[i].type = "text" /\ u[i].shape # "scalar"
               /\ tool = "list" \/ u[i].shape # "list"
               => KeepsEntry(mode, IF filter.last THEN e ELSE g)
      BY <2>6, <3>1
    <3>3. i \in DOMAIN u /\ u[i].type \in Texts
      BY <2>6, <3>1
    <3>4. g \in Entries /\ (g.object => u[i].type = "text" /\ u[i].shape # "scalar")
      BY <2>3, <3>2, <3>3 DEF IsItem, ItemsOver
    <3>5. g \in given /\ Unequivocal(g)
      BY <2>4, <3>2, <3>3 DEF given, u
    <3>6. tool = "list" \/ u[i].shape # "list"
      BY <2>1, <3>3 DEF LookedInto, Looks, tool, u
    <3>7. CASE ~g.object
      BY <2>7, <3>2, <3>4, <3>5, <3>7 DEF Disallowed
    <3>8. CASE g.object /\ filter.last
      <4>1. KeepsEntry(mode, e) /\ Unequivocal(e) /\ DOMAIN e.refs = Fields
        BY <2>7, <3>2, <3>4, <3>5, <3>6, <3>8
      <4> QED BY <3>2, <3>5, <3>8, <4>1, KeptIffAllowed DEF mode
    <3>9. CASE g.object /\ ~filter.last
      <4>1. KeepsEntry(mode, g) /\ DOMAIN g.refs = Fields
        BY <2>7, <3>2, <3>4, <3>6, <3>9
      <4>2. ~Disallowed(g)
        BY <3>5, <4>1, KeptIffAllowed DEF mode
      <4> QED BY <2>7, <3>2, <3>4, <3>5, <4>2
    <3> QED BY <3>7, <3>8, <3>9
  <2>9. ASSUME ~filter.last, parsed, tool = "list", NEW g \in given, ~Disallowed(g)
        PROVE  Shown(g) \in released
    <3>1. PICK i \in DOMAIN u : u[i].type \in Texts /\ g \in u[i].entries
      BY <2>4 DEF given, u
    <3>2. g \in Entries /\ Unequivocal(g)
      BY <2>3, <2>9, <3>1 DEF ItemsOver, given, u
    <3>3. KeepsEntry(mode, g)
      BY <2>7, <2>9, <3>2, KeptIffAllowed, MaskingKeepsVerdict DEF mode
    <3>4. i \in DOMAIN c /\ c[i].type = u[i].type /\ Shown(g) \in c[i].entries
      <4>1. /\ /\ Looks(r) /\ ~filter.last /\ call[r].tool = "list"
               /\ \A j \in DOMAIN u : u[j].type = "text" => u[j].shape # "broken"
            /\ \A j \in DOMAIN u : u[j] \in ItemsOver(Entries)
        BY <2>1, <2>3, <2>9 DEF tool, parsed
      <4> QED BY <3>1, <3>3, <4>1, ProcessedIs DEF mode
    <3> QED BY <2>4, <2>5, <3>1, <3>4
  <2>10. ~filter.last /\ parsed /\ tool = "list"
           => released = {Shown(e) : e \in {g \in given : ~Disallowed(g)}}
    BY <2>8, <2>9
  <2> QED BY <2>8, <2>10 DEF released, given, u, tool, parsed
<1> QED BY <1>1, ContentInvariance, PTL
==================================================================================

------------------------------ MODULE HookPipeline ------------------------------
(***************************************************************************)
(* The lifecycle hook pipeline: HookRegistry (pipeline/registry.py) and     *)
(* Pipeline (pipeline/pipeline.py).                                         *)
(*                                                                         *)
(* Hooks are registered with a priority, frozen by build() and then run,    *)
(* point by point, over one request.  The proxy runs the pipeline twice per *)
(* request: once before the upstream call and, with the resulting context,  *)
(* once after it.  A context is abstracted to what the rest of the gateway  *)
(* reads of it: the policy decision, the short-circuit mark, and the set of *)
(* evolutions (which hook changed it, at which point, in which run).        *)
(***************************************************************************)
EXTENDS Naturals, Sequences, FiniteSets, SequencesExt

CONSTANTS
  Hooks,       (* the hook instances that may be registered                 *)
  Priorities,  (* the priorities they may be registered with                *)
  MaxRuns      (* bound: how often execute() is called on one request       *)

ASSUME PipelineAssumption ==
  /\ Hooks # {}
  /\ Priorities \subseteq Nat
  /\ MaxRuns \in Nat \ {0}

(* Pipeline.HOOK_SEQUENCE *)
HOOK_SEQUENCE ==
  <<"pre_validation", "post_validation", "pre_masking", "post_masking", "pre_audit">>

VARIABLES
  entries,   (* HookRegistry._entries: sequence of [priority, seq, hook]    *)
  frozen,    (* HookRegistry._frozen                                        *)
  pc,        (* "setup", "running", "notifying" (on_error), "done"          *)
  run,       (* the number of execute() calls so far                        *)
  point,     (* index in HOOK_SEQUENCE of the point being executed          *)
  index,     (* index in Pipeline._hooks of the next hook to call           *)
  start,     (* the context execute() was called with                       *)
  ctx,       (* ctx of execute(): changes when a whole point has returned   *)
  local,     (* ctx of _execute_hook_point(): changes after every hook      *)
  executed,  (* hooks_executed of this run, each with what the hook did     *)
  failure,   (* what ended the run: "none", "deny", "stop" or "error"       *)
  notified   (* the hooks whose on_error was called, and the context seen   *)

vars == <<entries, frozen, pc, run, point, index, start, ctx, local, executed,
          failure, notified>>
--------------------------------------------------------------------------------
(* A hook returns its context ("ok"), returns it with policy_decision =      *)
(* ALLOW ("allow", GovernanceHook.on_post_validation only), raises           *)
(* ShortCircuitError(deny=True) ("deny"), ShortCircuitError(deny=False)      *)
(* ("stop"), or raises anything else, wrapped in HookError ("error").        *)
Outcomes == {"ok", "allow", "deny", "stop", "error"}

Returns(p) == IF p = "post_validation" THEN {"ok", "allow"} ELSE {"ok"}
Raises == {"deny", "stop", "error"}

FreshContext == [decision |-> "pending", shortCircuited |-> FALSE, evolved |-> {}]

(* ctx.evolve(...) by hook h at point p, in run n *)
Evolve(c, n, p, h, o) ==
  [c EXCEPT !.evolved = @ \cup {<<n, p, h>>},
            !.decision = IF o = "allow" THEN "allow" ELSE @]

(* What execute() makes of its own ctx when a hook raised: a short circuit   *)
(* is marked on it and denies only if exc.deny; a HookError leaves it alone. *)
AfterFailure(c, o) ==
  IF o = "error" THEN c
  ELSE [c EXCEPT !.shortCircuited = TRUE,
                 !.decision = IF o = "deny" THEN "deny" ELSE @]

(* Mutant: ties are broken the wrong way round *)
BeforeUnstable(d, e) ==
  \/ d.priority < e.priority
  \/ d.priority = e.priority /\ d.seq > e.seq

(* The sort key of the registry: (priority, insertion counter) *)
Before(d, e) ==
  \/ d.priority < e.priority
  \/ d.priority = e.priority /\ d.seq < e.seq

Sorted(es) ==
  [k \in DOMAIN es |->
     CHOOSE e \in Range(es) : Cardinality({d \in Range(es) : Before(d, e)}) = k - 1]

(* HookRegistry.get_hooks() *)
hooks == [i \in DOMAIN entries |-> entries[i].hook]
--------------------------------------------------------------------------------
Init ==
  /\ entries = <<>> /\ frozen = FALSE
  /\ pc = "setup" /\ run = 0 /\ point = 1 /\ index = 1
  /\ start = FreshContext /\ ctx = FreshContext /\ local = FreshContext
  /\ executed = <<>> /\ failure = "none" /\ notified = <<>>

(* HookRegistry.register; a frozen registry raises and changes nothing *)
Register(h, p) ==
  /\ ~frozen
  /\ \A i \in DOMAIN entries : entries[i].hook # h
  /\ entries' = Append(entries, [priority |-> p, seq |-> Len(entries), hook |-> h])
  /\ UNCHANGED <<frozen, pc, run, point, index, start, ctx, local, executed,
                 failure, notified>>

(* HookRegistry.build; main._build_pipeline has always registered a hook *)
Build ==
  /\ ~frozen /\ entries # <<>>
  /\ frozen' = TRUE
  /\ entries' = Sorted(entries)
  /\ UNCHANGED <<pc, run, point, index, start, ctx, local, executed, failure,
                 notified>>

(* Pipeline.execute is entered with context c *)
Enter(c) ==
  /\ frozen /\ run < MaxRuns
  /\ pc' = "running" /\ run' = run + 1 /\ point' = 1 /\ index' = 1
  /\ start' = c /\ ctx' = c /\ local' = c
  /\ executed' = <<>> /\ failure' = "none" /\ notified' = <<>>
  /\ UNCHANGED <<entries, frozen>>

(* ProxyServer._call_tool: the pre-run on a fresh context; the post-run on   *)
(* the context the pre-run returned, unless that one was denied.             *)
Execute ==
  \/ pc = "setup" /\ Enter(FreshContext)
  \/ pc = "done" /\ ctx.decision # "deny" /\ Enter(ctx)

Call(o) == executed' = Append(executed, [point |-> HOOK_SEQUENCE[point],
                                         hook |-> hooks[index], did |-> o])

(* Mutant: hooks evolve the context of execute() itself *)
CommitEarly(evolved) == evolved

(* execute() takes a point's context over when its last hook has returned    *)
Commit(evolved) == IF index = Len(hooks) THEN evolved ELSE ctx

NextIndex == IF index = Len(hooks) THEN 1 ELSE index + 1

(* One hook method returns; after the last hook the next point is run, and   *)
(* after the last point the run has succeeded.                               *)
HookReturns(o) ==
  LET evolved == Evolve(local, run, HOOK_SEQUENCE[point], hooks[index], o)
  IN /\ pc = "running" /\ o \in Returns(HOOK_SEQUENCE[point])
     /\ Call(o)
     /\ local' = evolved
     /\ ctx' = Commit(evolved)
     /\ index' = NextIndex
     /\ IF index = Len(hooks)
          THEN IF point = Len(HOOK_SEQUENCE)
               THEN pc' = "done" /\ point' = point
               ELSE pc' = pc /\ point' = point + 1
          ELSE UNCHANGED <<pc, point>>
     /\ UNCHANGED <<entries, frozen, run, start, failure, notified>>

(* One hook method raises: the rest of the run is abandoned *)
HookRaises(o) ==
  /\ pc = "running" /\ o \in Raises
  /\ Call(o)
  /\ failure' = o
  /\ ctx' = AfterFailure(ctx, o)
  /\ pc' = "notifying" /\ index' = 1
  /\ UNCHANGED <<entries, frozen, run, point, start, local, notified>>

(* Mutant: an on_error that raises ends the broadcast *)
LastNotifiedUnsuppressed(raises) == index = Len(hooks) \/ raises

(* Every hook is told: what on_error raises is suppressed *)
LastNotified(raises) == index = Len(hooks)

(* _fire_error_hooks: on_error of the next hook *)
Notify(raises) ==
  /\ pc = "notifying"
  /\ notified' = Append(notified, [hook |-> hooks[index], saw |-> ctx])
  /\ pc' = IF LastNotified(raises) THEN "done" ELSE pc
  /\ index' = NextIndex
  /\ UNCHANGED <<entries, frozen, run, point, start, ctx, local, executed, failure>>

Next ==
  \/ \E h \in Hooks, p \in Priorities : Register(h, p)
  \/ Build
  \/ Execute
  \/ \E o \in Outcomes : HookReturns(o) \/ HookRaises(o)
  \/ \E raises \in BOOLEAN : Notify(raises)

Spec == Init /\ [][Next]_vars
--------------------------------------------------------------------------------
(* The hooks run point by point, and within a point by priority, hooks of    *)
(* equal priority in the order they were registered: the log of a run is a   *)
(* prefix of (HOOK_SEQUENCE x sorted hooks), nothing skipped or repeated     *)
(* (Pipeline._execute_hook_point over HookRegistry.build's order).           *)
ExecutionOrder ==
  LET n == Len(entries)
  IN /\ \A i \in DOMAIN executed :
          /\ executed[i].point = HOOK_SEQUENCE[((i - 1) \div n) + 1]
          /\ executed[i].hook = entries[((i - 1) % n) + 1].hook
     /\ executed # <<>> => \A i \in 1..(n - 1) :
          \/ entries[i].priority < entries[i + 1].priority
          \/ /\ entries[i].priority = entries[i + 1].priority
             /\ entries[i].seq < entries[i + 1].seq

(* The points all of whose hooks returned in this run *)
CompletedPoints ==
  {p \in Range(HOOK_SEQUENCE) :
     \A k \in DOMAIN hooks :
       \E i \in DOMAIN executed :
         executed[i].point = p /\ executed[i].hook = hooks[k] /\ executed[i].did \notin Raises}

(* The context a run returns, stated without reference to how it is computed: *)
(* the starting context plus the evolutions of the completed points, and, if  *)
(* a hook raised, the mark its exception leaves.                              *)
ExpectedContext ==
  LET completed == CompletedPoints
      kept == {i \in DOMAIN executed : executed[i].point \in completed}
      base == [start EXCEPT
                 !.evolved = @ \cup {<<run, executed[i].point, executed[i].hook>> : i \in kept},
                 !.decision = IF \E i \in kept : executed[i].did = "allow"
                              THEN "allow" ELSE @]
  IN IF failure = "none" THEN base ELSE AfterFailure(base, failure)

(* A failing point leaves no trace: what the earlier hooks of that point      *)
(* wrote in the context is lost, so error hooks and the caller see the        *)
(* context of the last completed point, with the denial marked only for       *)
(* ShortCircuitError(deny=True) (the except clauses of Pipeline.execute).     *)
FailedPointLeavesNoTrace ==
  pc \in {"notifying", "done"} =>
    LET expected == ExpectedContext
    IN /\ ctx = expected
       /\ \A i \in DOMAIN notified : notified[i].saw = expected

(* A run that failed has called on_error of every hook exactly once, in       *)
(* order, also of the hooks that never ran and after hooks whose on_error     *)
(* raised; a run that succeeded has called none (Pipeline._fire_error_hooks). *)
ErrorHooksAllFire ==
  pc = "done" =>
    [i \in DOMAIN notified |-> notified[i].hook] = (IF failure = "none" THEN <<>> ELSE hooks)
================================================================================

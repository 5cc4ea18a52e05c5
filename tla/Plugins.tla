--------------------------------- MODULE Plugins ---------------------------------
(***************************************************************************)
(* From main._build_pipeline to the end of the process: the gateway's own     *)
(* hooks and those of the plugins a policy file declares are registered in    *)
(* HookPipeline's registry (PluginManager.load_plugins), requests are served,  *)
(* and the interpreter runs teardown_all at exit.                             *)
(*                                                                          *)
(* A plugin and the hook it registers have one name.                          *)
(***************************************************************************)
EXTENDS HookPipeline

CONSTANTS
  PluginNames,  (* the plugins a policy file may declare                      *)
  OwnFirst, OwnLast  (* the gateway's own hooks with their priorities: registered   *)
                (* before the plugins (identity, governance), and after them   *)
                (* (analytics, audit)                                         *)

ASSUME PluginAssumption ==
  /\ PluginNames \subseteq Hooks
  /\ OwnFirst # <<>> /\ OwnLast # <<>>
  /\ Range(OwnFirst) \cup Range(OwnLast) \subseteq [hook : Hooks \ PluginNames, priority : Nat]

VARIABLES
  stage,   (* "first", "plugins", "last", "built", "serving", "exiting", "gone" *)
  loaded,  (* PluginManager._plugins                                          *)
  ended    (* the plugins whose teardown() was called, in that order           *)

process == <<stage, loaded, ended>>
allVars == <<vars, process>>
--------------------------------------------------------------------------------
PluginInit == Init /\ stage = "first" /\ loaded = <<>> /\ ended = <<>>

(* The gateway registers a hook of its own; after the last one of the list the *)
(* stage is over                                                             *)
RegisterOwn(own, before, after) ==
  \E i \in DOMAIN own :
    LET Registered(k) == \E e \in Range(entries) : e.hook = own[k].hook
    IN /\ stage = before
       /\ \A k \in 1..(i - 1) : Registered(k)
       /\ Register(own[i].hook, own[i].priority)
       /\ stage' = IF i = Len(own) THEN after ELSE before
       /\ UNCHANGED <<loaded, ended>>

(* One round of load_plugins: _load_one, register (of a hook, or only of       *)
(* event handlers) and register_event_handlers have all returned              *)
LoadPlugin(n) ==
  /\ stage = "plugins" /\ n \notin Range(loaded)
  /\ UNCHANGED vars \/ \E p \in Priorities : Register(n, p)
  /\ loaded' = Append(loaded, n)
  /\ UNCHANGED <<stage, ended>>

(* One of them raises: run() ends with the exception, and nothing has been     *)
(* registered with atexit                                                    *)
LoadFails ==
  /\ stage = "plugins" /\ PluginNames # Range(loaded)
  /\ stage' = "gone"
  /\ UNCHANGED <<vars, loaded, ended>>

AllLoaded ==
  /\ stage = "plugins" /\ stage' = "last"
  /\ UNCHANGED <<vars, loaded, ended>>

(* The pipeline is built and teardown_all registered with atexit               *)
BuildPipeline ==
  /\ stage = "built" /\ Build
  /\ stage' = "serving"
  /\ UNCHANGED <<loaded, ended>>

ServeRequests ==
  /\ stage = "serving"
  /\ \/ Execute
     \/ \E o \in Outcomes : HookReturns(o) \/ HookRaises(o)
     \/ \E raises \in BOOLEAN : Notify(raises)
  /\ UNCHANGED process

(* sys.exit(78) of a later startup check, or uvicorn.run returns: whatever     *)
(* request is in the pipeline goes down with the event loop.  Neither is a      *)
(* death by a signal: atexit runs.                                            *)
Exit ==
  /\ stage = "serving"
  /\ stage' = IF loaded = <<>> THEN "gone" ELSE "exiting"
  /\ pc' = "setup" /\ run' = 0 /\ point' = 1 /\ index' = 1
  /\ start' = FreshContext /\ ctx' = FreshContext /\ local' = FreshContext
  /\ executed' = <<>> /\ failure' = "none" /\ notified' = <<>>
  /\ UNCHANGED <<entries, frozen, loaded, ended>>

(* Mutant: a teardown() that raises ends the loop *)
LastTornDownUnsuppressed(raises) == Len(ended) + 1 = Len(loaded) \/ raises

(* What teardown() raises is logged, and the next plugin follows               *)
LastTornDown(raises) == Len(ended) + 1 = Len(loaded)

(* teardown_all *)
Teardown(raises) ==
  /\ stage = "exiting"
  /\ ended' = Append(ended, loaded[Len(loaded) - Len(ended)])
  /\ stage' = IF LastTornDown(raises) THEN "gone" ELSE stage
  /\ UNCHANGED <<vars, loaded>>

PluginNext ==
  \/ RegisterOwn(OwnFirst, "first", "plugins")
  \/ \E n \in PluginNames : LoadPlugin(n)
  \/ LoadFails
  \/ AllLoaded
  \/ RegisterOwn(OwnLast, "last", "built")
  \/ BuildPipeline
  \/ ServeRequests
  \/ Exit
  \/ \E raises \in BOOLEAN : Teardown(raises)

PluginSpec == PluginInit /\ [][PluginNext]_allVars
--------------------------------------------------------------------------------
(* "On shutdown, plugin.teardown() is called in reverse order for cleanup"     *)
(* (docs/plugins/README.md:74): of every loaded plugin, once, whatever the     *)
(* others raise, also when a later check refuses to start.  Only a plugin that *)
(* fails to load leaves those before it without (PluginManager.teardown_all).  *)
TornDownInReverse ==
  /\ \A i \in DOMAIN ended : ended[i] = loaded[Len(loaded) + 1 - i]
  /\ stage = "gone" => ended = IF frozen THEN Reverse(loaded) ELSE <<>>
================================================================================

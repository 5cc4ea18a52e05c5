--------------------------------- MODULE Lifespan ---------------------------------
(***************************************************************************)
(* Analytics in the gateway it serves: tool calls record their events through *)
(* AnalyticsHook, once in each of the two pipeline runs, and the lifespan of   *)
(* the application (proxy/app.py) starts the collector before the first and    *)
(* stops it after the last of them.                                           *)
(*                                                                          *)
(* The handlers of Streamable HTTP sessions run in the task group of the       *)
(* session manager, which the lifespan leaves before it stops the collector;   *)
(* those of the legacy SSE endpoints do not.  A handler that is cancelled ends *)
(* where it is suspended and records nothing more.                            *)
(***************************************************************************)
EXTENDS Analytics, FiniteSets

CONSTANTS
  Calls,   (* tools/call requests                                             *)
  Sse      (* those that come over the SSE endpoints                          *)

ASSUME LifespanAssumption ==
  Sse \subseteq Calls /\ IsFiniteSet(Calls) /\ MaxEvents >= 2 * Cardinality(Calls)

VARIABLES
  closing,  (* the server has been told to shut down: it accepts nothing more  *)
  call,     (* per call, "none", "pre_run", "upstream", "post_run", or "over"    *)
  events_of (* per call, the events it has recorded                           *)

app == <<closing, call, events_of>>
allVars == <<vars, app>>
--------------------------------------------------------------------------------
LifespanInit ==
  /\ Init
  /\ closing = FALSE
  /\ call = [c \in Calls |-> "none"]
  /\ events_of = [c \in Calls |-> {}]

(* Uvicorn accepts connections when lifespan has yielded                      *)
Arrive(c) ==
  /\ pc["main"] = "running" /\ ~closing /\ call[c] = "none"
  /\ call' = [call EXCEPT ![c] = "pre_run"]
  /\ UNCHANGED <<vars, closing, events_of>>

(* A pipeline run: AnalyticsHook.on_pre_audit records the call and what was     *)
(* masked, together one event here, or on_error a denial or an error; all but   *)
(* a denial goes on                                                          *)
RunPipeline(c) ==
  /\ call[c] \in {"pre_run", "post_run"}
  /\ Record
  /\ events_of' = [events_of EXCEPT ![c] = @ \cup {recorded'}]
  /\ call' \in {[call EXCEPT ![c] = next] :
                  next \in IF call[c] = "pre_run" THEN {"upstream", "over"} ELSE {"over"}}
  /\ UNCHANGED closing

(* The upstream server answers, or the attempts are exhausted: then there is   *)
(* no second run                                                             *)
UpstreamEnds(c) ==
  /\ call[c] = "upstream"
  /\ \E next \in {"post_run", "over"} : call' = [call EXCEPT ![c] = next]
  /\ UNCHANGED <<vars, closing, events_of>>

Close ==
  /\ pc["main"] = "running" /\ ~closing /\ closing' = TRUE
  /\ UNCHANGED <<vars, call, events_of>>

(* After the graceful period the server cancels its connections, and the       *)
(* session manager its task group                                             *)
CancelCall(c) ==
  /\ closing /\ call[c] \in {"pre_run", "upstream", "post_run"}
  /\ call' = [call EXCEPT ![c] = "over"]
  /\ UNCHANGED <<vars, closing, events_of>>

(* Mutant: the collector is stopped before the task group is left              *)
TaskGroupLeftLast == TRUE

(* session_manager.run() has ended *)
TaskGroupLeft == \A c \in Calls \ Sse : call[c] \in {"none", "over"}

(* The finally clause of lifespan *)
StopCollector ==
  /\ closing /\ TaskGroupLeft
  /\ Stop
  /\ UNCHANGED app

Call(c) == Arrive(c) \/ RunPipeline(c) \/ UpstreamEnds(c) \/ CancelCall(c)

CollectorStep ==
  /\ \/ Start \/ MainStep \/ Flush("flush") \/ Write("flush") \/ Beat \/ Write("heartbeat")
     \/ GoesAway \/ ComesBack
  /\ UNCHANGED app

LifespanNext == CollectorStep \/ Close \/ StopCollector \/ \E c \in Calls : Call(c)

LifespanSpec == LifespanInit /\ [][LifespanNext]_allVars

(* As in Analytics; a cancelled handler ends, and the shutdown goes on          *)
FairLifespan ==
  /\ LifespanSpec
  /\ WF_vars(ComesBack) /\ WF_vars(MainStep)
  /\ WF_vars(Flush("flush") \/ Write("flush"))
  /\ WF_vars(Beat \/ Write("heartbeat"))
  /\ WF_allVars(StopCollector)
  /\ \A c \in Calls \ Sse : WF_allVars(CancelCall(c))
--------------------------------------------------------------------------------
(* The collector outlives the calls of Streamable HTTP sessions: none records   *)
(* an event that the final flush misses, so when the gateway is down and Redis  *)
(* never failed, each event of theirs is counted (the order of the finally      *)
(* clause in create_app).                                                     *)
EveryCallIsCounted ==
  pc["main"] = "down" /\ ~disturbed =>
    \A c \in Calls \ Sse : \A e \in events_of[c] : applied[e] = 1

(* A shutdown ends, with calls under way and Redis failing.                    *)
ShutdownEnds == closing ~> pc["main"] = "down"
================================================================================

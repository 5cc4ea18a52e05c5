# MCP Zero: a TLA+ model

MCP Zero is a gateway between MCP clients and MCP servers. A client sends
`tools/list` and `tools/call`; the gateway authenticates the caller, asks a
policy, masks data, exchanges the caller's token for one the upstream server
accepts, calls the upstream server over a pooled session, and runs its hooks
again over the response. It is one Python process with one asyncio event loop:
all concurrency is between tasks, and tasks interleave only at `await`.

The modules here are translated from `src/mcp_zero/`. Paths below are relative to that
package unless they begin with `docs/` or `tests/`. `PROJECT.json` says, for every definition
that stands for code, which lines it stands for.

* [Inventory](#inventory): the parts of the system, what each keeps, what is hard about it
* [Modules](#modules): which module models which part, and how
* [Runs](#runs): what is checked, in which bounds, under which fairness
* [Proofs](#proofs): what holds for every value of the constants, and why
* [Disagreements](#disagreements): where the code and its documentation part
* [Not modelled](#not-modelled)
* [Plan](#plan)

## Inventory

| Component | State it keeps | Operations | Depends on |
|---|---|---|---|
| Hook pipeline (`pipeline/`) | the registry: hooks with priority and insertion counter, frozen or not; per run the context and the hooks executed | `register`, `build`, `execute`, `_fire_error_hooks` | every hook |
| Request handling (`proxy/proxy_server.py`, `context.py`, `proxy/auth.py`, `proxy/obo_auth.py`) | per request: the context, the attempt, the last error | `_call_tool`, `_list_tools`, `get_token` | pipeline, tool names, session pool, OBO |
| Tool names (`proxy/tool_router.py`) | none | `namespace_tool`, `parse_tool` | |
| Session pool (`proxy/server_manager.py`) | `_transports` and `_locks` per (server, user), a global lock | `get_session`, `disconnect`, `disconnect_all` | transports |
| Transports (`transport/http.py`, `sse.py`, `stdio.py`) | state, session, background task that owns the connection, stop event | `connect`, `disconnect`, `session` | MCP SDK |
| OBO exchange (`identity/obo.py`) | cache of exchanged tokens and a lock per (user, audience, scopes) | `exchange_token` | authorization server |
| Token validation (`identity/jwt.py`, `jwks.py`, `hook.py`) | cached keys, time of the last fetch, JWKS uri, one lock | `validate_token`, `get_signing_keys` | identity provider |
| Policy (`governance/`) | the policy file, immutable after startup | `load_policy_file`, `evaluate`, `on_post_validation` | |
| Startup (`main.py`) | environment, file | `run`, `_build_pipeline`, `_build_obo_provider` | all |
| Stdio process manager (`transport/process_manager.py`) | transports, `ProcessStatus` per server, shutdown event, health task | `start_all`, `_health_loop`, `_try_restart`, `shutdown` | `StdioTransport` |
| Analytics (`analytics/`) | bounded queue, flush and heartbeat task, shared Redis client | `_enqueue`, `_flush`, `start`, `stop`, `execute_pipeline` | Redis |
| Audit, event bus (`audit/`, `events/`) | list of events, list of handlers | `on_pre_audit`, `on_error`, `emit` | |
| Masking (`masking/`, `plugins/presidio_masking.py`) | rules, recognizers | `on_pre_masking`, `on_post_masking` | |
| GitHub repository filter (`plugins/github_repo_filter.py`) | mode and patterns, immutable | `on_post_validation`, `on_post_masking` | masking, by priority |
| Plugin manager (`plugin_manager.py`) | loaded plugins, in order | `load_plugins`, `teardown_all` | pipeline, startup |
| HTTP application (`proxy/app.py`, `middleware.py`) | header context variable | lifespan | MCP SDK, Starlette |

How they interact. A call enters `_call_tool`, which runs the *whole* pipeline
before the upstream call (the pre-run) and again, with the context the pre-run
returned and the response in it, after the call (the post-run). Identity,
governance, plugins, analytics and audit are hooks of that pipeline and know
each other only through the context. `_call_tool` gets a session from the pool
for every attempt and tells the pool to disconnect the *server*, for all its
users, when a connection fails. The pool, the key cache, the token cache and
the Redis client are shared by all requests; each has its own discipline of
locks and second checks. When the application stops, the collector is stopped and
then the pool is emptied.

What is hard, and what makes the components correct:

| Component | Hard | Correct if |
|---|---|---|
| Hook pipeline | a hook fails in the middle of a point; an error hook fails too; equal priorities | the order is (priority, registration), a failed point leaves no trace in the context, every error hook is told once |
| Request handling | the pre-run fails without a denial; timeouts whose call is executed later; the post-run blocks what has already happened | nothing denied is sent; nothing is released that was not executed, checked and masked; everything that left is on record; executions are bounded; every request is answered |
| Session pool, transports | two tasks connect one key; `disconnect` by one task under another's connect; lost sessions; clients that go away in the middle; shutdown | sessions stay with their user and server; one connection per key; a session handed out is open; everything is closed at the end; nobody waits for ever |
| OBO exchange | concurrent misses; failures behind the lock; two clocks | own token only; one exchange in flight and none needlessly; no expired token |
| Token validation | rotation and revocation at the provider while answers are under way; forced refresh behind another refresh | rotation is tolerated, revocation takes effect in bounded time, every validation ends |
| Policy, startup, names | order of rules, patterns, names taken apart at the first separator, combinations of switches | deny overrides; listing and calling agree; nothing is forwarded without grounds |
| Process manager | cancellation of the health task at every suspension point, including one that swallows it | one process per server, restarts bounded, nothing left behind, every server that is found unhealthy attended |
| Masking, repository filter | both rewrite the response at one point, in an order that priorities decide; nested payloads, items that do not parse | nothing sensitive is released, a filtered answer is exactly what the policy leaves of it |
| Plugin manager | a plugin fails to load or to end; exit at any moment | what was loaded is ended, in reverse order, whatever fails |
| Application | shutdown with requests under way, cancelled where they are | the collector outlives the requests, the shutdown ends |
| Analytics | the queue is full, a batch is partly applied or sent again, two tasks reconnect one client, `stop` at any moment | the collector counts nothing twice, nothing vanishes unless something failed, `stop` delivers and returns |

The hazards, each at its line and with the properties that watch it, are listed in
`PROJECT.json`.

## Modules

A step of a module is what one task does between two suspensions, so the
interleavings of the model are those of the event loop. Locks that are never
held across a suspension (the two global locks) do not appear.

### HookPipeline

`entries` and `frozen` are the registry; `point`, `index`, `ctx`, `local` and `executed` are the
loops and local variables of `execute` and `_execute_hook_point`; `notified` is the progress of
`_fire_error_hooks`. Actions: `Register`, `Build`, `Execute` (enter `execute`), `HookReturns`,
`HookRaises`, `Notify`. A context is reduced to the decision, the short-circuit mark and the set of
evolutions (which hook, at which point, in which run), enough to say what a failing
point loses. The second run starts from the context the first returned, unless that one was denied,
as `_call_tool` does it.

### Plugins

Extends `HookPipeline` to the life of a process, `stage` by stage: the gateway's first hooks (`RegisterOwn`), the
declared plugins one by one (`LoadPlugin`, `LoadFails`), the last hooks, `BuildPipeline`, requests, and `Exit` at any
moment of them, whereupon `Teardown` goes through `teardown_all`. `Exit` is the end of the event loop with whatever
was in the pipeline, and always runs what `atexit` has registered; a process that a signal kills before that, as
uvicorn may when it raises a SIGTERM again it has caught, is not modelled. After a failed load there is no teardown:
`atexit` is reached only when everything is loaded.

### ProxyCall, CallContract

`ProxyCall` is `_call_tool`: `Receive`/`Misroute` (routing), `PreRun`, `GetToken`/`TokenFails`, `Send`,
`Return`, `GiveUpAttempt`, `Propagate`, `Wake` (the retry loop) and `PostRun`. A whole run of the
pipeline is one step with an outcome (the point and the kind of the first failure), because no other
component sees a context in the middle of a run; what a run does to the context is what `HookPipeline`
establishes. `deploy` says which hooks the startup code has registered. `Execute` is the upstream
server: it executes what it was sent at any time, also after the gateway gave up.
`CallContract` is what the gateway promises about a request seen from outside (refused, forwarded,
released, withheld, and how often executed); `ImplementsContract` maps `ProxyCall` to it.

### RepoFilter, Content

`RepoFilter` has the repository filter as operators, without state: which repository an entry names (the first
of six fields, an API address read by the regular expression for the others), the decision on arguments, the
filter of lists and of single results. `Content` extends `ProxyCall` with what a call carries: the arguments in
the context and those sent, the answer of the upstream server, and what each run makes of them through the
filter and the masking hook, in the order of their priorities. An item of an answer has the set of entries its
text holds, an entry a reference per field that may name a repository; an answer is a function from positions to
items, in which a dropped item leaves a gap. Masking is known by its result, and may leave a text that no longer
parses.

### ServerPool

`ServerManager` with its transports. Locks, transports and connections are numbered as they are created,
since the code pops locks and transports that other tasks still hold; `queue` is the queue of each
`asyncio.Lock`. `conns` are the owner tasks (`_connection_owner`), which outlive the transport's reference
to them. The actions follow `get_session` and `connect` from suspension to suspension (`GetSession`,
`Enter`, `AfterCleanup`, `Ready`, `AfterFailure`), `disconnect`/`disconnect_all` (`DisconnectSome`,
`AfterDisconnect`, `Shutdown`), the call (`Answered`, `TimedOut`, `Lost`) and the owner (`Connects`,
`FailsToConnect`, `Leaves`, `Closed`). `Cancel` is a client that goes away: the request leaves at its next wait
(`Unwinds`), releasing what it holds, unless it waits for an owner, which then takes the cancellation instead
(`_cleanup_bg_task` swallows it). `setup` chooses the requests and the faults of a behaviour.

### OBOCache

`exchange_token` with its fast path, the lock per key, the second check, and the two clocks: the
authorization server counts a token's life from its issue, the gateway from the response.

### TokenValidation

`validate_token` over `JWKSClient`. The provider publishes and revokes keys on its own; a fetch
takes its answer at one moment and delivers it at a later one. A signature failure forces one refresh,
which skips the second check under the lock.

### Governance

The policy file and the environment are chosen in `Init`; `Load` and `Start` refuse or go on as
`load_policy_file` and `run` do; then callers `Arrive`, `ListTools` and `CallTool`. Names and patterns
are sequences of characters, because `parse_tool` and `_matches_pattern` take them apart.
The decision is the code's single scan over the rules, as a recursive function of how many it has seen (`Seen`);
the properties restate it declaratively.

### ProcessManager

`start_all` and the health task never run at the same time and connect one transport at a time: they
are one worker (`role`, `pc`, `todo`) that goes from suspension to suspension. `Shutdown` cancels it where it
is: `_cleanup_bg_task` swallows the cancellation and passes it to the owner it awaits, the other
suspensions do not. `main.py` does not use this class; its tests do.

The death of a child process (`Crash`) changes nothing in the gateway: its owner waits for the stop event only, so
that owner, state and session stay and `is_healthy` returns true. Only a use of the session fails, and with it the
owner (`Notices`); the manager itself never uses one, so `Notices` may follow at any time or never.

### Analytics

The collector's queue, the flush and the heartbeat task and the program that starts and stops them, over
the one client they share. An event stands for the counters it increments. A pipeline to Redis
is no transaction: when it fails, any prefix may be applied. With `retry_on_timeout`, the default, `pipe.execute()`
sends the whole pipeline again when its answer is late (`WriteIsResent`), whatever was applied, up to `Retries` times
(`tries`), before it returns or raises (`WriteSucceeds`, `WriteFails`). `resent` records the events this happened to.

### Lifespan

Composes the collector with the requests of the application that starts and stops it. A call records through the
analytics hook in both of its pipeline runs; on shutdown (`Close`) calls may be cancelled where they are
(`CancelCall`), and the collector is stopped (`StopCollector`) when the task group of the Streamable HTTP
sessions has been left, for which SSE calls are not waited.

## Runs

| Run | Distinct states | What it asks |
|---|---|---|
| `pipeline` | 781k | from registration to exit: order of the hooks, what a failure leaves behind, who is told, who is torn down |
| `call` | 346k | safety and termination of one call with its content; `CallContract` is implemented |
| `pool` | 380k | sessions under failures of others, losses, time-outs, cancellation, shutdown |
| `obo` | 90k | the token cache under contention, failure and expiry |
| `identity` | 591k | validation while keys rotate and fetches fail |
| `decisions` | 143k | startup, listing and calls for 684 policy files and for none, in 12 environments |
| `processes` | 35k | restarts, signals, deaths noticed or not, shutdown at every suspension point |
| `analytics` | 1.2M | counting what calls record, under outages, retries of the Redis library, overflow and shutdown |
| `call_hook_error`, `call_input_mask`, `pool_shutdown`, `analytics_retry` | | one documented promise each that the code does not keep, see [Disagreements](#disagreements) |

### Properties

* `pipeline`. `ExecutionOrder`: the log of a run is a prefix of points times sorted hooks.
  `FailedPointLeavesNoTrace`: the context a run returns, and every error hook sees, is the one of the last
  completed point. `ErrorHooksAllFire`: once each, also when an error hook raises. `TornDownInReverse`: at the
  end of a gateway that was built every plugin has been torn down, once and in reverse order, whatever teardowns
  raise.
* `call`. `NothingSensitiveReleased` (with masking, in no item of whatever type, whatever the filter did before
  or after); `FilteredExactly` (no entry of a disallowed repository, and in a list no allowed one missing;
  stated for entries that name one repository and not by an API address, see [Disagreements](#disagreements));
  `DeniedNeverForwarded`; `ContentIsProcessed` (released content was executed upstream, authenticated, allowed
  and masked in the post-run); `NothingUnaudited`; `ExecutionsBounded` (at most `max_retries` + 1, late
  executions included); `ImplementsContract`; `EveryRequestAnswered`.
* `pool`. `SessionIsolation` (issue #50); `OneConnectionPerKey` while no connection is refused;
  `CallsStartOnOpenSession`; `UndisturbedShutdownClosesAll`; `EveryoneFinishes`.
* `obo`. `OwnToken` (issue #51); `SingleFlight`; `NoNeedlessExchange`; `ReturnedAlive`, provided the margin covers
  the latency of an exchange; `EveryCallReturns`.
* `identity`. `RevokedKeyExpires` within the cache's life and one request; `RotationIsTolerated`;
  `EveryValidationEnds`.
* `decisions`. `DenyOverrides`; `ForwardedOnGrounds` (a valid token or a rule, unless startup checks are relaxed);
  `StrictIsEnforced`; `ListedIffCallable`; `PatternsAreGlobs`.
* `processes`. `OneProcessPerServer`; `RestartsBounded`; `UndisturbedShutdownIsClean`;
  `UnhealthyServerAttended` (of the servers `is_healthy` finds unhealthy, which those are not whose child process died
  unnoticed); `ShutdownReturnsEventually`.
* `analytics`. `CountedOncePerSending` (once, and at most once more for each time the Redis library sent the pipeline
  again); `NothingVanishes`; `StopDeliversAll`; `EveryCallIsCounted` (of the calls over Streamable
  HTTP, when Redis never failed); `ShutdownEnds`.

The type invariants of `ProxyCall`, `OBOCache` and `ProcessManager` are theorems and not repeated in runs; those of
the other modules are part of the invariants in their proofs.

For every property the module that models the code contains an operator marked "Mutant": a plausible
bug (a dropped second check, a swapped order, a lock that is not released) under which that property fails in
that run. It documents what the property is sensitive to.

### Bounds, and why they are enough

* `pipeline`: governance and audit as the gateway's own hooks and up to two plugins, which may come before,
  share the place of, or follow either of them: priorities 50, 100, 150. Plugins are interchangeable, hence the
  symmetry. `MaxRuns = 2` is the code's own number.
* `call`: one request. `ProxyCall` shares nothing between requests (the shared parts are in the modules of their
  own), so one request shows what any number do, and the proofs are for any number. Two retries make a first, a
  middle and a last attempt. All twelve deployments the startup code can build, without the filter; with it
  those that have identity, policy and no token exchange, which it does not touch. Three repositories: one on
  the list, one not, and one the masking engine takes for personal data. Seven answers: lists, objects, words,
  images, text that does not parse, several items of different kinds.
* `pool`: three requests, the least for one to fail while two others meet on a key; one retry and one failing
  connection: each further failure starts from a state already reached. Six setups combine users
  and faults, two of them with cancellations; all faults at once would be the same steps in more orders.
* `obo`: three callers, two with one key, so that one waits behind a failure; lives 2 and 3 around
  `CacheTtl + MaxLatency = 2`; the clock stops at 3, when every token of the first round has expired.
* `identity`: two tasks and two keys: a rotation and a refresh behind a refresh. `MaxTime = 3` is
  one cache life, one request and one step more.
* `decisions`: files of up to two rules out of seven that differ in subject, pattern kind, effect and validity.
  Two rules suffice for what rules do to each other: the scan keeps the first of each effect.
* `processes`: two servers, so that one fails while the worker is busy with the other; `MaxRestarts = 2`;
  two deaths, noticed or not; `start_all` twice, for what the first life leaves behind.
* `analytics`: two calls, one over Streamable HTTP and one over SSE, record up to four events for a queue of
  two: it overflows, and a second batch follows while the first is written. Two faults: one for each of the two
  clients-in-a-row of a failing reconnect, or one for each of two sendings that go unanswered. `Retries = 1`, what
  redis-py 5 makes of `retry_on_timeout`; the proof is for any number.

`MaxTime`, `MaxRuns`, `MaxFailures`, `MaxCrashes`, `MaxStarts`, `MaxEvents` and `MaxFaults` are
bounds of the models; `MaxRetries`, `Retries`, `MaxRestarts`, `CacheTtl`, `QueueSize` and `MaxLatency` (a client
timeout) are the code's own parameters. `CHECK_DEADLOCK FALSE` stands in the configurations because the systems stop:
requests are answered, clocks reach their bound, gateways refuse to start.

### Fairness

Weak fairness only, of each task's steps taken together: the event loop runs every task that can go on, and what
the code waits for has an end of its own, a timeout (`wait_for`, the HTTP client's timeout, Redis's
`socket_timeout`), a sleep, or an event that the other task sets. Two assumptions are worth naming. `ServerPool`
and `ProcessManager` assume that opening and closing a connection ends; the HTTP client guarantees that, for
stdio nothing does. `Analytics` assumes that Redis comes back for `ShutdownEnds` and `ConnectionIsRetried`.
`Lifespan` lets the server end the Streamable HTTP calls under way once it is shutting down (uvicorn cancels
what is left, the session manager its task group), and goes on to stop the collector then. No fairness is given
to clients, deaths of child processes or their discovery, cancellation by a client, key rotation, SSE calls, or
a connection leaving by itself.

## Proofs

Checked by TLAPS, for every value of the constants that satisfies the `ASSUME` of the module.

**ProxyCallProofs.** Assumes `ProxyAssumption`: plugins come with a policy file, deployments are records of switches,
`MaxRetries` is a number; what its theorems say of `Content` assumes `ContentAssumption` (the shape of setups and
answers, personal names are repositories, the placeholder is none). The safety properties are not inductive: that a
denied request is never sent needs to know where in `_call_tool` it is. `IInv` adds `Progress` (what is known at each
program point: nothing is sent before the session, an attempt in `calling` has been sent, an attempt answered has
been executed, only attempts up to the current one exist), `Denials` (a denied request is over), `Exchanged` (behind
the token exchange the identity is there) and `Recorded` (what was recorded at each stage). One lemma per action
shows that it preserves `IInv`; `RunIsContext` and `AuditedIsCounts` are what is needed of a pipeline run. Theorems:
`TypeCorrect`, `DeniedStaysHome`, `ReleasedIsProcessed`, `ExchangeIsIdentified` (a server behind a token exchange is
only called for a validated identity, also if the identity hook failed without denying), `EverythingAudited`,
`ExecutionsAreBounded`. `CallKeepsContract` is the refinement: with `IInv` every step of `ProxyCall` is one step of
`CallContract` for one request or none (`Allowed`): `Progress` gives the execution behind a release,
`ExecutionsAreBounded` the bound of `Execute`.

`Content` takes the steps of `ProxyCall` (`ContentIsHandled`), so all this holds of it too, the contract included
(`ContentKeepsContract`). `DInv` adds what the data of a request are worth: what upstream servers answered is made of
items, the post-run begins with that answer, and what was released is one outcome of the two plugins over that answer
(`Processed`). What such an outcome is, whatever the order of the two, is `ProcessedIs`; it rests on `RepoIsNamed`
(the field that decides), `KeptIffAllowed` (for an entry that names one repository the code's verdict is the
documentation's), `MaskingKeepsVerdict` and `FilteredIs`. Theorems: `NothingSensitiveEscapes`, `FilteringIsExact`.

**OBOCacheProofs.** Assumes `CacheAssumption`: times are numbers, no caller is `None`. `IInv` adds `InFlight`
(who exchanges holds the lock of his key, and the exchange is not older than `MaxLatency`) and `Cached` (an
entry belongs to its key, and its two times differ by at most `MaxLatency`). Theorems: `TypeCorrect`,
`TokensAreOwn`, `ExchangeIsSingle`, `TokensAreAlive`, `ExchangeIsNeeded` (an action property).

**ProcessManagerProofs.** Assumes `ManagerAssumption`: the order lists every server, the bounds are numbers.
That a server has one child process is inductive only together with the types (no owner is replaced that has not
left). That a shutdown leaves none behind needs more: every transport with an owner must be one that is
disconnected. `IInv` adds `Worker` (who works in which phase), `Owners` (an owner is connecting exactly while
its transport is CONNECTING, and a transport in a state in between is `Attended`: somebody waits who ends it),
`Disconnecting` (while transports are disconnected those with an owner are among them) and `Restarts` (a restart
is begun below the limit). `TailIsAhead`, `NextServerOwners`, `SpawnStep` and `ConnectStep` are shared by the
actions. Theorems: `TypeCorrect`, `ProcessesAreSingle`, `RestartsAreBounded`, `ShutdownIsClean`.

**HookPipelineProofs.** For any number of hooks, plugins, priorities and runs, of `PluginSpec`. That `build`
sorts is a counting argument: in a finite set under a strict total order the ranks are an injection into
`0..n-1` and hence onto it (`RanksAreTaken`), so `Sorted`'s choice exists for each place. The invariant has
`Registry`, `Running` (the log is as long as `point` and `index` say), `InOrder` (the i-th call is at the point
and hook that division by the number of hooks gives, `Position`), `Broadcast`, and `Trace`: the log covers
exactly the hooks before the current one at the current point and all at the points before (`Covers`), and the
two contexts of `execute` are what the calls of the points before the current one, and of those up to it, make
of the starting context (`ContextOf`). Both are then functions of the log, and the property compares functions
of the log. `Stages` adds what `teardown_all` has reached. Theorems: `HooksRunInOrder`, `FailuresLeaveNoTrace`,
`EveryHookIsTold`, `PluginsEndInReverse`.

**ServerPoolProofs.** For any number of requests, users, servers and faults, cancellation included. No lock is
needed for isolation: there is a key for every transport (`KeyedBy`), the one it was created for, that never
changes; the pool, the requests connecting and the connections opened all agree with it. Each action is shown to
keep to it (`Keeps`), perhaps extended by a new transport. Theorems: `RequestsUseOwnSessions`, `CallsStartOpen`
(an action property: a session in a transport belongs to a live connection, `SessionsLive`).

The number of connections does depend on the locks. Its invariant `CInv` speaks of behaviours in which no
connection is refused (`Calm`), so that nobody but the gateway disconnects (`Unrefused`), and only the cancellation
of requests is left to disturb them:

* `Locks`: keys have different locks; who waits for the lock of his key stands in its queue, and who connects is
  the head of it. That a step of one request moves nobody else out of his place or from the head is `KeepsPlaces`,
  shown once for each thing that can happen to a queue (`QueueCreated`, `QueueJoined`, `QueueReleased`, `QueueLeft`).
* `Ownership`: until the shutdown, a connection that is not over is owned by the transport pooled for its key, and
  who connects works on that transport and that connection. This is `OneConnectionPerKey` made inductive.
* `Opening`, if nobody is cancelled: somebody waits in `connect()` for each connection that is being opened, and a
  transport that is CONNECTING has such a connection, one that is DISCONNECTED has none. Without it a shutdown could
  pass over a transport whose state says that there is nothing to disconnect, which is what a cancelled `connect()`
  leaves behind.
* `Closing`: during the shutdown every open connection is the one awaited or remains in the pool, in a state that
  `disconnect()` acts on, under a key whose turn is still to come.

To the tables of transports and connections a step of a request does one of four things (`Acts`: it rests, opens a
connection, tells one to stop, or gives its transport up), and a step of an owner one (`Turns`). `TaskActs` and
`OwnerTurns` establish this once for all actions, and the parts of the invariant are proved over these shapes.
`DisconnectIs` and `DisconnectCloses` treat the loop of `disconnect_all` over any number of keys. Theorems:
`ConnectionsAreSingle`, `ShutdownClosesConnections`.

**TokenValidationProofs.** Neither property needs the lock. `Sound(r)` says of a validation what its keys are
worth: an answer taken at `began` cannot hold a key revoked earlier; `CacheInv` says it of the cache, whose age
counts from the delivery, `MaxLatency` later. Theorems: `RevocationIsBounded`, `RotationTolerated`.

**AnalyticsProofs.** `OnePlace`: an event is in the queue, in one batch, or gone from both, and while it is in a
batch it has been counted at most `tries` times, which is why the limit, one counting per sending, is kept when
the batch is written. `Kept`: while nothing has failed it is queued, in a batch or counted. `LeftLate`: what the final flush
leaves behind was recorded after `stop` began. `Lifespan` takes the steps of `Analytics`, so its invariant
carries over; `CallsInv` adds that the collector leaves `running` only when the Streamable HTTP calls are over,
so that all their events were recorded before `stop` began. Theorems: `Counted`, `NoneVanishes`, `Delivered`,
`CallsCounted`.

**GovernanceProofs.** Assumes `GovernanceAssumption`: names are not empty, `None` is no text, and files have a default
and rules of the shape that passes the loader. Three lemmas carry it. `ParsesBack`:
`parse_tool` undoes `namespace_tool` for a server whose name neither contains the separator nor ends in an
underscore, because then the first separator is the one that was put there. `MatchesGlob`: a pattern with one star
accepts what is its prefix, anything, and its suffix, which do not overlap (`PrefixIs`, `SuffixIs`, `Stretches`).
`EvaluateIs`: the scan returns the first rule that denies, or else the first that allows. This one is an
induction over how many rules were seen. The library's induction theorems take a predicate as a parameter, which
the provers cannot instantiate; instead the numbers at which a statement holds are a set, and `InductionSet` (from
`LeastNumber`, the well-foundedness of the numbers) says that a set with 0 and every successor has them all.
The invariant says that `listing` and `last` are what the gateway, whose policy never changes, would answer now.
Theorems: `StrictHolds`, `ListedAreCallable`, `DenyWins`, `NothingForwardedByDefault`, `PatternsMeanGlobs`.

Only model-checked: the seven liveness properties (`EveryRequestAnswered`, `EveryoneFinishes`, `EveryCallReturns`,
`EveryValidationEnds`, `UnhealthyServerAttended`, `ShutdownReturnsEventually`, `ShutdownEnds`), because fairness and
`ENABLED` are beyond TLAPS. Every other property of a passing run is the subject of a theorem.

## Disagreements

Four runs show that a promise of the documentation does not hold of the code; `PROJECT.json` has the quotations.

* `call_hook_error`: a hook that fails with anything but `ShortCircuitError(deny=True)` does not deny the request;
  it is forwarded upstream. Only the post-run fails closed.
* `call_input_mask`: the upstream server receives the original arguments, not the masked ones.
* `pool_shutdown`: a connection being opened by one user while another user's failure disconnects the server
  is dropped from the pool in state CONNECTING and closed by nobody.
* `analytics_retry`: once a reconnect has failed, the client stays unset and is not tried again.

Met while modelling, with no run of their own:

* A session that is lost leaves its transport CONNECTED: `get_session` does not reconnect, `.session` raises
  `TransportClosedError`, and this is neither retried nor followed by a disconnect. That user's calls to
  that server fail until the restart, or another user's connection failure (`ServerPool`: `Leaves`, `OpenSession`).
* The pool keys sessions by user, not by token: a pooled session keeps the headers it was opened with when
  the exchanged token has long been replaced in the cache.
* Every answered call passes PRE_AUDIT twice, so it has two TOOL_INVOCATION events, and two counted
  tool calls in analytics (`ProxyCall`: `Invocations` in `PreRun` and `PostRun`).
* `_try_restart` sleeps outside its `try`: cancelled there it leaves `restart_in_progress` set, and after
  another `start_all` the health task skips that server for ever. A connect that is cancelled leaves its child
  process running.
* A child process that dies while nobody uses it stays healthy and is neither restarted nor given up (`ProcessManager`:
  `Crash` without `Notices`): `is_healthy` does no I/O and nothing watches the process (`stdio.py:95`, `:166`).
  `process_manager.py:34` says "Monitors health, restarts on failure with exponential backoff"; under `FairSpec`
  "a server whose child process is dead gets another or is given up" has a counterexample of one start and one death.
* The Redis library sends a pipeline again that was answered late, also when it was applied, and counts its events
  twice (`Analytics`: `WriteIsResent`). `docs/analytics-redis-plan.md:143` asks for the "Auto-retry on timeout", and
  no document promises exact counts.
* `stop()` of the collector cancels the flush task also in the middle of a write, whose batch is lost. What SSE
  calls record after `stop()` is lost too: the lifespan waits only for the Streamable HTTP sessions (`Lifespan`:
  `TaskGroupLeft`).
* The same two runs count a call twice in analytics (`AnalyticsHook.on_pre_audit`), and what was masked of its input:
  `docs/analytics-redis-plan.md:100` speaks of the call count (`Lifespan`: `RunPipeline`).
* No plugin is torn down when a later one fails to load: `atexit` is registered behind `_build_pipeline`
  (`main.py:445`), and `docs/plugins/README.md:74` promises the teardown on shutdown (`Plugins`: `LoadFails`).
* The repository filter reads an API address (`https://api.github.com/repos/o/r`) as the repository `repos/o`,
  and looks at `repository_url` before `html_url`: a blocklist lets such an entry pass, an allowlist drops it.
  It does not look into the `{"items": [...]}` of search results, nor into arrays a single-result tool returns,
  nor into items that are not text; a list that was empty all along is answered with "All results were
  filtered". `FilteredExactly` is stated without these cases.
* By its documentation the filter runs behind masking; its default priority, 55, puts it before the masking
  plugin's 75. Configured behind it, a masked name passes a blocklist, and text masking has made unparsable is
  refused (`Content`: `Processed`).
* The post-run decides again on masked arguments, and may deny a call for them that has been executed.
* A masking engine whose second recognizer fails to load is taken for initialised afterwards and raises an
  `AttributeError`, which is no `MaskingEngineError`, from then on; the pre-run does not deny for it
  (`masking/presidio.py:83`).
* The upstream server's `is_error` flag is dropped (`proxy/proxy_server.py:75`).
* Server names may contain `__` or end in `_`, and server patterns are not validated as tool patterns are.

## Not modelled

* Recognizers and masking rules, audit fields, counters and their expiry, log lines: data no decision is made on.
  What masking does to text is modelled by its result, what analytics writes as one event.
* YAML parsing and the checks of single fields in the loader; CORS, the header middleware and the MCP SDK. Which
  task of the SDK sees the `Authorization` context variable is decided there.
* `sse.py` and `stdio.py` differ from `http.py` in what they open; `ServerPool` has the life cycle they share.
* `register`/`unregister` of the process manager while it runs.
* The `except` in `evaluate` that turns an error into a denial: the modelled evaluation, on a policy the loader has
  accepted, raises nothing.
* A `ValidationError` while content is rebuilt behind a successful post-run (`_rebuild_content`): the modelled plugins
  leave items that are valid content.
* The event bus: handlers are called in order, and what they raise is logged and skipped.
* Cancellation of a request inside a pipeline run, where only the masking engine's thread and the identity
  provider are waited for.
* A pooled session keeps the token it was opened with: `ServerPool` has the sessions, `OBOCache` the tokens, and
  no document says which of the two lifetimes should win, so there is no property to state.

## Plan

In place: what decides about a call (`HookPipeline`, `Plugins`, `ProxyCall`, `Content`), what calls share
(`ServerPool`, `OBOCache`, `TokenValidation`), policy and startup, the background services and the lifespan they
run in. What would add to it:

1. A composition of `ServerPool` and `OBOCache` that follows a token into the session opened with it.
2. Refinements: `OBOCache` and `TokenValidation` as implementations of one abstract cache with bounded staleness;
   `HookPipeline` as an implementation of the one-step run that `ProxyCall` uses.
3. The process manager with `register` and `unregister` under way.

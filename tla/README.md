# Verification of the goondan runtime

goondan (`src/packages/*`) runs swarms of LLM agents. An orchestrator process
forks one process per agent instance, routes events and requests between them,
restarts what crashes and drains what is no longer wanted; the runner, which
`gdn run` starts, runs the same agents inside its own process and holds the
connectors that bring events in. Around them are the CLI that starts and stops
runners, the loader that reads a bundle of YAML resources, the package registry
and its client, and the extensions of the base package that rewrite an agent's
conversation. This directory holds TLA+ modules for the parts whose correctness
depends on the order of events, TLC configurations that check them on small
instances, and TLAPS proofs of what must hold for every size.

Paths are relative to `src/packages/runtime/src/` unless they begin with another
package (`base/`, `cli/`, `registry/`: `src/packages/.../src/`) or with `docs/`
(`src/docs/`).

## 1. Inventory

### 1.1 The runtime

| Component | State | Operations | Talks to | Module |
|---|---|---|---|---|
| **Orchestrator** `orchestrator/orchestrator.ts` | `agentState`/`agents` maps (slot per agent and instance: status, process, consecutiveCrashes, nextSpawnAllowedAt), `connectorState`, `pendingRequests`, `shutdownResolvers`, reconcile timer | `spawn`, `route`, `routeResponse`, `reconcile`, `restart`, `gracefulShutdown`, `handleShutdownAck`, exit listener, `calculateBackoffMs`, `shutdown` | agent processes over IPC; the runner calls it | `Orchestrator`, `RequestBroker` |
| **Agent process** `runner/agent-runner.ts` | `eventQueue`, `processing`, `draining`, `currentTurn`, `pendingResponses`, `pendingAsyncResponses`, `asyncResponseInboxes`, stored conversation | two IPC listeners, `processQueue`, `executeTurn`, `request`/`send` tools, timers, drain | orchestrator; the file store | `AgentProcess`, `RequestBroker` |
| **In-process engine** `runner/runtime-runner.ts` | `executionQueue`, per-turn inbox, call stack in event metadata | `handleConnectorEvent`, `executeInboundTurn`, `runAgentTurn`, `createAgentToolRuntime`, `withOptionalTimeout`, `requestRuntimeRestart` | the file store; connectors | `RuntimeEngine`, `Turn` |
| **Runner** `runner/runtime-runner.ts` (`main`) | connectors, `restartInProgress`, `restartRequestedReason` | start, lifecycle race, stop, replacement runner, watch | connector children, the CLI that waits for `ready` | `RunnerLifecycle`, `RuntimeControl` |
| **Connector child** `runner/runtime-runner-connector-child.ts` | one connector | start, emit, shutdown | runner | `RunnerLifecycle` |
| **Conversation and storage** `conversation/state.ts`, `workspace/storage.ts` | `base.jsonl`, `events.jsonl`, `metadata.json`, extension state files | load, append, fold, delta append or rewrite, clear | both engines | `InstanceFiles` |
| **Pipeline** `pipeline/registry.ts` | middleware lists | `runTurn`, `runStep`, `runToolCall` | extensions | `Turn` |
| **Extensions** `extension/*.ts` | state and dirty names per extension | `set`, `saveAll`, load | pipeline, storage | `InstanceFiles`, `BundlePlan` |
| **Tools** `tools/*.ts` | registry | dispatch, validation | steps | `Turn`, `BundlePlan` |
| **Configuration** `config/*.ts`, `runner/agent-process-plan.ts`, `runner/runtime-routing.ts` | none over time | load and validate a bundle, plan it for the runner and for an agent process, route an event | runner, agent process, CLI | `BundleLoad`, `BundlePlan` |
| **Process spawner** `orchestrator/bun-process-spawner.ts` | child handle | fork, send, kill | operating system | environment of the above |
| **Runtime events** `events/runtime-events.ts` | subscribers, append queue | emit, subscribe, persist | studio | none |

### 1.2 Around it

| Component | State | Operations | Module |
|---|---|---|---|
| **Base extensions** `base/extensions/*.ts` | the conversation, `calledToolsPerTurn`, selected tools | window, compaction, integrity, required-tools guard, tool search, context | `Turn` |
| **Base connectors** `base/connectors/*.ts` | Telegram's offset and batch, the line of an input | poll, emit, webhook translation | `RunnerLifecycle` |
| **CLI runtime service** `cli/services/runtime.ts`, `instances.ts` | `runtime/active.json`, the process table | `gdn run`, `restart`, `instance delete` | `RuntimeControl` |
| **CLI package service** `cli/services/package.ts` | manifest, `packages/`, lockfile | `add`, `install`, `update` | `PackageInstall` |
| **Registry server** `registry/server.ts`, `registry/cloudflare/src/router.ts` | a metadata document and tarballs per package | publish, unpublish, delete, deprecate, reads | `Semver`, `Registry` |
| studio, types, eval, base tools, samples, e2e | | | none (section 6) |

### 1.3 What is hard, and what makes each part correct

* **Orchestrator.** One JavaScript thread, but `reconcile`, `restart` and
  `shutdown` each await one graceful shutdown after another, and between those
  awaits messages, acks, exits and timers act on the same slots. A slot must never
  hold a process that has died, a status must tell the truth to the code that reads
  it after an await, nobody may await a drain that can no longer settle, a crashed
  agent must come back and an unwanted one go away.
* **Agent process.** Two listeners hear each message; a turn awaits the model, a
  tool, another agent. Turns must be serial and in order; an answer, an error, the
  timer and the eviction must decide a request once; an asynchronous answer must
  appear once; a drain must not acknowledge before its turn has ended.
* **Requests.** They cross two channels and a broker that forgets nothing and knows
  requesters by name only, while either end may die. A request runs at most once,
  its requester learns at most one outcome, and nobody blocks for ever.
* **Engine.** Turns of one key are serial only through a chain of promises, each of
  which rewrites the conversation it loaded. A call that comes back to a caller that waits
  can only be freed by a timer; timeouts leave turns running whose answers nobody wants any more.
* **Turn.** Extensions that do not know of each other rewrite the conversation at
  different depths of the pipeline, while the model may answer with nothing, with
  malformed calls or with an error. What is sent and stored must be a conversation
  that a model accepts, and the guard must be obeyed.
* **Runner and CLI.** Connectors fail, hang and end in any order; commands that
  run at once and runners that replace themselves share one file. Nothing may be left
  running, nothing of somebody else's may be killed, and every command must return.
* **Packages.** A registry's two stores are joined by no transaction, an install's
  steps by none either.
* **Bundles.** Three readers of a reference (the validator, the runner's planner
  and the agent process's) each have rules of their own for packages.
* **Files.** The process may die between any two file operations; a state may be
  set while it is being saved.

The hazards, each at its line and with the properties that watch it, are listed
in `PROJECT.json`.

## 2. How the project is laid out

| | Module | Builds on | Checked by | Proved |
|---|---|---|---|---|
| 1 | `Orchestrator` | | `orchestrator_safety`, `orchestrator_liveness` | `OrchestratorProofs` |
| 2 | `AgentProcess` | | `agent_safety` | `AgentProcessProofs` |
| 3 | `AgentCalls` (abstract), `RequestBroker` (agent processes and broker composed) | | `broker_calls` | `RequestBrokerProofs` |
| 4 | `RuntimeEngine` (the turns of all agents) | | `engine_turns`, `engine_circular` | `RuntimeEngineProofs` |
| 5 | `Turn` (inside one turn) | | `turn_steps` | `RunnerProofs` |
| 6 | `RunnerLifecycle` (runner and connector processes) | | `lifecycle_connectors` | `RunnerLifecycleProofs` |
| 7 | `RuntimeControl` (runners, commands, `active.json`) | | `control_commands` | `RuntimeControlProofs` |
| 8 | `PackageInstall` (client) | `Registry` (both servers), `Semver` | `packages` | `StorageProofs` |
| 9 | `BundlePlan` (planners, routing) | `BundleLoad` | `bundle_plans` | `RunnerProofs` |
| 10 | `InstanceFiles` | | `instance_files` | `StorageProofs` |

`MC*` modules give the constants of a run. Definitions that begin with "Mutant:"
are variants with a bug, one for each property, that TLC has to refute in place of the
definition that follows them.

What would come next: watch mode of `runtime-runner.ts`, and the status that samples read
from `metadata.json`.

## 3. The modules and the code

### Orchestrator

A slot is an `AgentRuntimeState` object, numbered in the order in which it was
created, which is the insertion order of the `agentState` map; `agentState` is the set
of slots that the map still holds, because `reconcile()` deletes keys while other
calls keep references to the object. `proc` has what the environment knows of a forked
process: whether it runs, whether it was told to shut down or signalled, and
whether an ack of it is in the channel.

The event loop is explicit. An asynchronous call is a `task`: `missing`, `scan`,
`names` and `each` are synchronous sections that nothing interrupts, `await`
waits for a graceful shutdown, `ready` is a continuation in the microtask queue.
`Quiet` is the guard of every message, timer and exit: the microtask queue is
empty. `NoneRunning` is the guard of a continuation, so that the settled promises
of two callers resume in either order but before any further event.

| Action | Code |
|---|---|
| `Route` | `route` to an agent that may need forking |
| `SpawnNew`, `SpawnExisting`, `SpawnIntoState` | `spawn`, `spawnIntoState` |
| `HandleShutdown`, `GracefulShutdown`, `AwaitShutdown`, `Wake` | `handle.shutdown`, `gracefulShutdown` and its callers |
| `GraceTimeout` | the timer of `gracefulShutdown`, which kills whatever the slot holds by then |
| `SendShutdownAck`, `HandleShutdownAck` | the ack; the lookup by agent and instance |
| `ProcessExit`, `OnExit`, `Crash`, `Backoff` | the exit listener, `calculateBackoffMs` |
| `Reconcile*`, `Restart*`, `Shutdown*` | the three loops, one action per synchronous section |
| `Tick` | time, in units of the backoff |

### AgentProcess

One process from its fork to its exit. `channel` is the IPC channel to it; a message
is heard by the module's listener (answers) and then by `main`'s (events, shutdown)
in one step. `turns` is the set of executions of `executeTurn`, so that two of them
at once would be visible. A step of a turn is begun (the inbox is emptied), may
make calls, wait for one and go on; what the model says is nondeterministic.
`settled` and `asked` record how each correlation id was used and answered.
The orchestrator sends each event and answer at most once and may kill the process.

### AgentCalls and RequestBroker

`AgentCalls` is the promise: a call is run at most once, decided at most once, and
`ok` only after its turn has finished. `RequestBroker` composes several processes
(queue, one turn, open requests with their timers) with the orchestrator's
`pendingRequests`, `route` and `routeResponse`, over ordered channels that die with
their process. `CallsAreKept` is the refinement, `Abstract == INSTANCE AgentCalls WITH
...`. How a turn proceeds and how slots are drained is left to the two modules
above: here slots are only added to the map, and notifications and
`spawn_request` (which only create a target) are `Route` of `Orchestrator`. An agent may have
several instances, and the broker knows a requester by its agent's name: `FindInstance` is the
oldest slot of that name, whichever instance asked, so what is promised of requests that can
still be answered (`OpenIsTracked`) is promised to the oldest instance only. That an entry of
`pendingRequests` whose responder died stays for ever is no violation of it: the entry is what
makes a late answer possible, and the code has nothing that removes it.

### RuntimeEngine

`turns` is a growing sequence; the place of a turn is its identity. `queue[k]` is the
chain of promises that `queueAgentEvent` builds, with the turn under way at its head.
`by`, `viaMiddleware`, `reply` and `waits` say who asked and who waits. `talk` is the
turn's conversation (its input, the answers it was told), which `Persist` writes over
`stored`. `Timeout` is `withOptionalTimeout`: the caller goes on, the turn asked for
does too. `Exit` is the end of the process, for a signal or for a restart a turn asked
for, followed by the next start on the same files. A turn makes one call at a time here:
a middleware that starts two calls with `Promise.all` waits for one after the other. A
middleware's call inherits the call stack of the turn's event; the `agents__request` tool
builds its event from its arguments alone, so that the circular-call test sees the caller and
nobody before it (`StackOf`). `spawn`, `list`, `catalog` and the status in
`metadata.json` are left out.

### Turn

`RuntimeEngine` decides when a turn runs; `Turn` is what happens in it. A message is
reduced to what the rules tell apart: its kind, the turn and step it came from, the
tools it calls or answers, whether it has text, its size. `Begin` to `Persist` follow
`runAgentTurn`: the inbox is flushed into the conversation, the middlewares of
`TurnExtensions` run in the order of their registration (`Window`, `Compact`, both
closed under `Integrity`, and the context message), a step makes a text of each answer of
another agent (`Formatted`), the model answers (`ModelAnswers`, `ModelFails`; a malformed answer keeps all its calls, the good
ones too, runs none of them and is retried after a note), each tool
call goes through the registry (`RunTool`: arguments that do not fit, an unknown tool and
one that throws are results too), the guard inspects the step (`GuardSatisfied`, `GuardDemands`), and the runner retries, goes on,
stops at the step limit or gives up (`Retry`, `GoOn`, `Finish`, `Failed`). `Persist`
stores what a failed or a finished turn stores. `Crash` may come before any step. The
same loop of `agent-runner.ts` differs in three places (section 4) and is not modelled.

### RunnerLifecycle

`main` of the runner, one connector process per connector, and the connectors
`telegram-polling` and `cli`. `Start` forks them one after the other; `Import`, `Probe`,
`Fail`, `Resolve` and `Obey` are the child's side, `Hear`, `HearExit`,
`EventsSettled`, `StartupTimeout` the runner's, over one ordered channel each. `HearError` is
the child's error listener: a message or a signal of the runner's did not get through, and
`exitPromise` settles wherever the child is (`exit` is `unsure`).
`AbortStart`, `AbortOthers`, `Ready`, `Stop`, `Stopped` and `Exit` are `main` and
`runLifecycle`; `Kill` is the timer of `terminate()`. A poller keeps an offset and the
rest of its batch (`Poll`, `PollFails`, `PollTimesOut`, `Take`); what Telegram will not
send again is `confirmed`. `Die` is a crash of the runner or a signal that nothing
handles, and `Restart` whoever starts the next one.

### RuntimeControl

`proc` is the process table, `active` is `runtime/active.json`, and `cmd` the commands:
`gdn run` (read, reuse or fork, wait for `ready` with a timer, write), `gdn restart`
(read, terminate, wait, kill, clear with `--fresh`, fork) and `gdn instance delete`
(read, check, signal the tree, drain, unlink, list the processes that are left, kill
each, remove the files). An action is the code between two awaits. A runner may start,
fail, hang, crash, end with a connector, drain, or replace itself (`Replace`,
`ReplacementReady`, `Record`); the bundle may be edited in between. Every `ps` may fail, and
what the code makes of that is part of the action: no runner, no children, no group in `Check`,
an empty list in `List`. Process ids may be used again (`Reuse`) by a stranger, or by a process
that is `alike`: its command line has the text of the key in it, which is all that
`isManagedRuntimeCommand` asks for. An id that a delete has checked and is about to kill is not
used again (`Watched`): that gap, of 550 ms at most, is left out.

### Semver, Registry and PackageInstall

`Registry` has both servers: `kind` says which of them this is. A request that writes is
`Read`, its tarball steps and `Save`, with an await between each; up to two overlap, and a
crash (`CutOff`, `ServerStops`) may come in between; the file server's metadata file is
emptied before it is written (`Tear`), and a read of the emptied file ends that server
(`ReadsTorn`). A publish brings tags of its own, which are stored as they come, or none
(`NewTags`). `PackageInstall` runs one
client beside it: `Add`, `AddVersion`, `Install`, `Update`, then the walk `Resolve`,
`GetEntry`, `Fetch`, `Wipe`, `Extract`, `NextDemand`, `WriteLock`; `Interrupt` is any step
that fails. `Semver` is the order of versions that both use, on numbers and words.

### BundleLoad and BundlePlan

A bundle is a value: files, lockfile, installed packages. `BundleLoad` reads it in the
order of `bundle-loader.ts` (`ReadManifest`, `TakeDependency` per package,
`LoadLocal`) and validates it (`Errors`, one operator per check of `resources.ts`).
`BundlePlan` then has three readers of the same resources: `RunnerPlan`
(`buildRunnerPlan`), `ProcessPlan` (`agent-process-plan.ts`), and `Receive`
(`runtime-routing.ts`). Candidates for a reference are places in the list of resources, of
which `find` takes the first (`FirstOf`). A plan that throws is `None`; the connections and
connectors of one are sets, since any of them may emit next. YAML and JSON Schema are taken
as read. The specifications of these modules are `PlanSpec` and, for packages, `InstallSpec`.

### InstanceFiles

Three kinds of process write an instance's directory: the runner and the agent process
rewrite the conversation at the end of a turn (`Persist`, `EmptyTemp`, `WriteTemp`,
`Rename`, and for the runner `ClearEvents`); a user of the library appends events
(`AppendEvent`) and folds them (`StartFold`, `DeltaAppend` when only new messages came).
Extensions set states (`SetState`) while `saveAll` (`TakeDirty`, `Refuse`, `EmptyState`,
`WriteState`, `FinishSave`) writes them. `Kill` comes between any two file operations,
`Start` is the next process on what is left.

## 4. The runs

| Run | Checks | Instance |
|---|---|---|
| `orchestrator_safety` | `TypeOK`, `SlotsAgree`, `HeldIsLive`, `AwaitIsArmed`, `WantedIsKept` | a wanted and an unwanted agent, one instance each, two processes at a time, a connector; two reconciliations, a restart and the shutdown in flight together |
| `orchestrator_liveness` | `ShutdownReturns`, `DesiredIsReached` | the two agents, a third process to fork, two reconciliations and the shutdown |
| `agent_safety` | `TurnsAreSerial`, `DrainIsOrderly`, `StoredOnceInOrder`, `RequestsAreDecidedOnce` | one event, three requests, both limits at 1 |
| `broker_calls` | `RequestsCanBeAnswered`, `CallsAreKept`, `EveryTurnEnds` | two agents of two instances each, two requests, one event |
| `engine_turns` | `ConversationsAreKept`, `AnswersAreOwn`, `EveryTurnEnds` | two keys, three turns, one step each, an inbox of 1, one end of the process |
| `turn_steps` | `RequestsAreSound`, `InputReachesModel`, `RequiredToolWasCalled`, `ReplyIsRemembered`, `TurnsEnd` | two turns of two steps, one retry of each kind, seven kinds of answers, a window of 4, a compaction at 3 messages or size 5, one answer of another agent |
| `lifecycle_connectors` | `ExitLeavesNoChild`, `EndedIsHandled`, `UpdatesAreEmitted`, `LifecycleGoesOn` | a bot with two updates, one of them ignored, and an input with two lines; two faults, two runs |
| `control_commands` | `ActiveIsSound`, `DeletedIsGone`, `DeleteSparesOthers`, `CommandsReturn` | three commands, two of them at once, three processes, one swarm, two keys, one event of the environment |
| `packages` | `RegistryIsSound`, `LockIsSound`, `LockMatchesDisk`, `CommandsEnd` | two packages that depend on each other, two versions, two builds, a tag of a version that is never published; two requests at once, two commands, four of both together |
| `bundle_plans` | `LoadIsClosed`, `RefsMeanWhatWasChecked`, `ToolRunsAsDeclared`, `RoutedIsPlanned` | every bundle of three families in `MCBundle`: what is installed and locked; what resources refer to; which swarm is chosen |
| `instance_files` | `RestartFindsConversation`, `UnsavedIsDirty` | three messages, two extensions, three events, two kills |
| `engine_circular` (violation) | `CircularIsRefused` | two keys, three turns |

**Why the bounds are enough.** In the orchestrator, two processes let a new one live
beside the one it replaces, and the third of the liveness run lets two live agents be shut
down, or one dropped and one brought back, with an identity left to fork; two slots let a key be
deleted and created again, two reconciliations let one run into the awaits of the other. With
`CrashThreshold = 1` the first crash is under the threshold, the second one is delayed, and the
doubled delay of the third is cut at the cap; so the three cases are told apart (no delay, 2, and 3
where the doubling gives 4). In the agent process, one event gives a first turn and the answers
that the second listener queues give further ones; with the limits at 1 the second
request evicts, the second answer overflows, and the third comes after both. Two
requests between two agents are enough for a cycle, a request that outlives its
requester, and an answer that comes after the timer; with two events and one request instead,
where the younger instance of an agent may ask, the model was also run, with the same result. Three turns of two keys
are enough for a call that comes back to its caller, a turn that queues behind the one that waits
for it, and an answer to a caller that has ended. In a turn, the second turn reads what
the first stored; a window of 4 and a compaction at 3 cut into the calls and results
of two steps, and a message of size 9 is over the compaction's limit by itself. In
the lifecycle, the second connector starts after the first, so that a first one that
fails early, and one that runs while the second fails, both occur; the second run meets
the orphans and the offset of the first. In the control of runners, three processes let
a runner be replaced while another command starts one; the second command overlaps the
first and the third comes after both. The model was also run
with commands that all overlap (two of them, two events) and with three in sequence and two
events, with the same result. Two packages make a cycle, and two requests at once are a lost
update. In the files, three messages tell "twice", "lost" and "out of order" apart; the same
held with four messages and one kill. Every counter that is cut is named as a bound where it
is declared (`MaxSlots`, `Procs`, `MaxExponent`, `MaxTurns`, `MaxExits`, `MaxAnswers`,
`MaxRuns`, `MaxFaults`, `MaxEvents`, `MaxRequests`, `MaxCommands`, `MaxActs`, `MaxKills`,
`Pids`, the sets of correlation ids).

Deadlock is not an error in any of them: the program idles when nothing arrives, and
each model stops when its budget of events, processes or turns is spent.
`OutOfRoom` in the orchestrator's liveness properties, and the last disjunct of
`CommandsReturn`, are that budget: the code is about to fork, or has forked, and no identity
is left. `OutOfRoom` is true only where the loop stands before a fork it cannot take, and not
merely where every process is in use.

**Fairness.** `Orchestrator` assumes that the host's event loop goes on and that its
timers fire (the interval of `reconcile`, the grace timer, the clock). Strong
fairness stands for that where events in between disable the timer for a moment: a
timer that is due is not overtaken for ever by messages. Nothing is assumed of agent
processes: no ack, no exit. `RequestBroker` assumes the timer of each request and
that a turn that awaits nothing ends, because its steps are bounded by
`maxSteps`; nothing is assumed of channels, respawns or the broker. `RuntimeEngine`
assumes the same of its turns, their promises and timers. `Turn` assumes that the
runner goes on, that the model answers, if only with an error, and that a tool returns or
is refused (nothing in a turn bounds either wait: that much is taken of the model client
and of the tools); nothing of crashes and answers of others. `RunnerLifecycle` assumes that the runner and its timers go on and that
turns end, nothing of connectors. `RuntimeControl` assumes that the commands go on and their
timers fire, nothing of runners. `PackageInstall` assumes that requests are answered, if only
with an error, and nothing of what the registry does.

### Where the code differs from what is written about it

`engine_circular` ends in a counterexample. docs/specs/runtime.md:579 says that a circular
chain of requests is refused at once, for the tool as for `ctx.agents`. x asks y and waits, y
asks x by `agents__request`, whose event carries no call stack (`base/tools/agents.ts:59`): the
request is accepted and queued behind the turn that waits, until a timer frees both.

The following definitions state other claims of documents, tests or the code. They are kept
beside the properties, and TLC refutes each of them on the constants of its module's passing
run, unless the table says otherwise.

| Module | Claim | What happens |
|---|---|---|
| `Orchestrator` | `ProcessMapIsActual`, docs/specs/runtime.md:309 | the exit of a drained process, handled after its successor was forked, empties the slot: the successor runs on unheld |
| `Orchestrator` | the comeback of `DesiredIsReached`, docs/specs/runtime.md:316, with a restart under way | the late clean exit of the replaced process turns a crashed slot into a terminated one, which `reconcile` never respawns |
| `AgentProcess` | `AnswerIsNotATurn`, docs/specs/shared-types.md:400 | the listener of `main` asks `isPendingResponsePayload` after the module's listener has removed the entry, so an answer is also run as a turn |
| `AgentProcess` | `AnswerInTheSameTurn`, docs/specs/shared-types.md:402; `EventsAreQueued`, docs/specs/runtime.md 4.4 | an answer after the last step stays for the next turn; an event sent before `main` listens is lost |
| `RequestBroker` | `AnswerReachesRequester`, docs/specs/runtime.md:555 (with two events and one request) | the answer goes to the oldest instance of the requester's agent; the younger one that asked waits until its timer |
| `RequestBroker` | `CycleIsRefused`, docs/specs/runtime.md:579 | the call chain is dropped on its way into an event, so only the sender is ever in it: two agents block on each other until a timer |
| `RuntimeEngine` | `AnswerIsRead` | the inbox belongs to a turn that may be over |
| `Turn` | `CallsAreRun`, docs/specs/runtime.md:98 | a well-formed call beside a malformed one is not run, and the message with both is sent again, and stored, without results |
| `Turn` | `SatisfiedIsNotAsked`, `base/test/extensions-required-tools-guard.test.ts:228` and the listing of docs/specs/extension.md:755-769 (one turn of four steps) | `required-tools-guard.ts:88` forgets what the turn has called as soon as a step satisfies it; the answer of that step has a fault and is retried, and the guard demands a tool that was called |
| `RuntimeControl` | `DeleteFindsRunners`, docs/specs/cli.md:488 | when `ps` fails the list of runners is empty, and the deletion a success |
| `RuntimeControl` | `DeleteLeavesNoOrphan`, docs/specs/cli.md:488 | a runner in the foreground leads no group, and an agent it forks after its children were listed gets no signal |
| `RuntimeControl` | `DeleteSparesRunners`, `cli/test/instances-store.test.ts:479` | the key is looked for as a text in the command line: a runner of a longer key that has got a recorded id is killed |
| `RuntimeControl` | `SameKeyIsReused`, docs/specs/cli.md:204 | `active.json` names one runner only: after another swarm's start the first is forgotten and forked again |
| `RuntimeControl` | `FreshIsEmpty`, docs/specs/cli.md:473 | an agent of the killed runner ends its turn, and stores it, after the history was cleared |
| `RuntimeControl` | `FailedRestartLeavesOne`, docs/specs/cli.md:310 | the old runner is terminated before the new one is started |
| `Registry` | `PublishedIsFinal` | the worker replaces a version that is published; the file server answers 409 |
| `PackageInstall` | `DemandsAreMet`, docs/specs/bundle_package.md:53, 327 | whatever the range, the latest version is taken |
| `BundlePlan` | `RulesMeanTheirAgents`, docs/specs/bundle_package.md:525 | agent plans are kept by bare name, so a rule for `a@D` leads to the local `a` if the swarm has both |
| `InstanceFiles` | `ChangedIsSaved`, docs/specs/extension.md:323, workspace.md:461 | a state that is set while `saveAll` writes its predecessor loses its mark with all others and is never written |

Seen while reading, and not the subject of a property:

* orchestrator and agents: `consecutiveCrashes` is never reset by a turn that succeeds
  (docs/specs/runtime.md:334); an entry of `pendingRequests` whose responder died is
  never removed; with no turn under way the ack is sent before `saveAll()`;
  `agent-runner.ts` has no retry limits, no text at the step limit, and does not
  save extension states when a turn fails;
* turn: giving up on empty answers ends the turn without the required
  tool; an overflow of the compaction removes messages it means to keep; an extension that
  adds a message before a window of 1 makes the window drop the turn's input;
* lifecycle: a Telegram request that its own timer aborts looks like a shutdown, so
  the connector resolves and the whole runner stops; a connector that fails while a
  later one starts kills the runner and leaves the other connectors' processes;
  turns of other connectors are not awaited at the exit; watch mode drops a change
  that comes while a restart is under way (docs/specs/runtime.md:937, 967);
* bundles: two versions of one package always fail with `DUPLICATE_NAME`; an unknown
  kind becomes a Model; of two agents of one name the later replaces the first in the
  runner's plan, while the agent process prefers its own package's; a tool name that two
  packages share fails the whole plan; the two planners disagree about the default
  swarm, the step limit, and unknown kinds; a local Package without a name
  (docs/specs/bundle_package.md:242 demands one) loads without errors, but where it asks for
  other packages their resources may be taken for its own; an entry agent that is written
  otherwise than in the swarm's list is taken by its name alone; of several resources of one
  name a reference without a package takes its own package's, or the local one, where
  docs/specs/bundle_package.md:526 asks for a unique match; a range is never compared with the
  version that is loaded for it;
* packages: dependency cycles are accepted (docs/specs/bundle_package.md 7.1); a
  frozen install compares only after everything was installed; concurrent
  publishes lose a version; a failed install leaves the earlier lockfile beside
  changed packages; an integrity of another form than sha512 or sha1 is not checked; the tags
  of a publish are stored without asking whether their versions exist;
* files: between a fold's write and the clearing of the events a crash applies the
  events twice (docs/specs/runtime.md is silent, docs/specs/workspace.md 449-451 is not);
  a state that is no object makes every later
  `saveAll` throw.

## 5. The proofs

TLC finds out on small instances whether a formula holds; the theorems hold for every
value of the constants that the assumptions allow.

| Theorem | States | Argument |
|---|---|---|
| `OrchestratorProofs!TypeCorrect` | `Spec => []TypeOK` | inductive as it stands; one lemma per operator that returns a slot |
| `OrchestratorProofs!SlotsAlwaysAgree` | `Spec => []SlotsAgree` | `WellKept` of every slot (crashed is vacant, draining is armed, backoff has a deadline), which each operator on a slot preserves; `SlotsAgree` is its conjunction over the slots |
| `OrchestratorProofs!HeldLive` | `Spec => []HeldIsLive` | a process is forked for one slot only, forgotten at its exit, and `Free` keeps an identity from being forked again while its ack is in the channel |
| `OrchestratorProofs!AwaitArmed` | `Spec => []AwaitIsArmed` | a drain ends only in `GraceTimeout` and `HandleShutdownAck`, which wake all who await it; every other step leaves drains (`DrainsOn`) and adds no wait (`NoNewWait`) |
| `OrchestratorProofs!WantedStay` | `Spec => []WantedIsKept` | `MapKept`: slots are numbered as they are added, so a new one replaces none; a reconciliation that waits, waits for a slot of an agent the swarm does not want (`AwaitedIsUnwanted`), and nothing else is deleted |
| `AgentProcessProofs!TurnsNeverOverlap` | `Spec => []TurnsAreSerial` | `Serial`: `processing` is true exactly while there is a turn, `currentTurn` is its event, and the queue is empty without one unless the process drains. `LoopStep` and `EnqueueStep` are the two ways a turn begins, `BecomeStep` the one it goes on |
| `AgentProcessProofs!DrainsAreOrderly` | `Spec => DrainIsOrderly` | `Drained`: an ack, or the phase before it, means that the process drains and has no turn; the loop starts none in a drain |
| `AgentProcessProofs!RequestsDecidedOnce` | `Spec => RequestsAreDecidedOnce` | `Decided`: the two maps are disjoint, their entries are undecided and asked for, and what was never asked for is undecided. `SettleStep` takes the entry away with the decision |
| `AgentProcessProofs!ConversationIsKept` | `Spec => ConversationKept` (a part of the next) | `Kept`: what the turn has loaded begins with what is stored. Only that turn stores, because it is the only one |
| `AgentProcessProofs!StoredOnceAndInOrder` | `Spec => StoredOnceInOrder` | `StoreInv`, three invariants on top of `IInv`: the channel is the end of what was sent (`MailOK`), so an arrival comes after all that was received (`MailReceive`); what is stored came before the turn, and the turn before the queue (`OrderOK`); an answer that can still be injected (`Coming`) is in no conversation yet (`InjectedOK`), and no step but the injection changes that |
| `RunnerLifecycleProofs!NoChildIsLeft` | `Spec => []ExitLeavesNoChild`: none but one whose error listener has given it up | `MainOK`: from `stopping` on a connector process that lives is expected to end, and `stopping` ends only when those that are expected have settled; `ProcessOK`: a connector that has settled has no process, unless its exit is `unsure` |
| `RunnerLifecycleProofs!EndedWasHandled` | `Spec => []EndedIsHandled` | `EndedOK`: an orderly exit settles only with no event under way, the exit is the last message of its channel, so none comes later |
| `RunnerLifecycleProofs!UpdatesWereEmitted` | `Spec => []UpdatesAreEmitted` | `PolledOK`: a batch is a run of updates from the one the poller wants next, what is before the offset or confirmed was emitted, and what is at the offset or after it was not emitted in this run |
| `RequestBrokerProofs!CallsKept` | `Spec => CallsAreKept`, the refinement of `AgentCalls` | `AllCarried`: where each request is (in a channel, a queue, a turn, the table, decided), at one place at a time, and what has come of it by then. Each action is a step of `AgentCalls` for one request (`StartsOne`) or leaves everything the promise speaks of (`Unnoticed`) |
| `RequestBrokerProofs!AnswersStayPossible` | `Spec => []RequestsCanBeAnswered`, for any number of instances of an agent | `OpenIsTracked`: a request that the oldest instance of its agent (`IsFound`) waits for is on its way up, in `pendingRequests`, or answered on the way down; slots are only added, so the oldest stays the oldest. Of younger instances it is false (`AnswerReachesRequester`) |
| `RequestBrokerProofs!NoTurnBlocksItself` | `Spec => []NoSelfDeadlock` (a part of `RequestsCanBeAnswered`) | from `AllCarried`: a request for its own sender is refused |
| `RuntimeEngineProofs!TurnsKeepConversations` | `Spec => []ConversationsAreKept` | `Engine`: the queues hold the unfinished turns of their key in order (`QueueOK`), what a turn says begins with what is stored (`TalkOK`), and only the head of a queue stores (`StoredOK`) |
| `RuntimeEngineProofs!AnswersStayOwn` | `Spec => []AnswersAreOwn` | `CallOK`: who waits, waits for a turn of its own that can still answer; an answer in an inbox is one that was asked for, and is put there once |
| `RuntimeEngineProofs!MiddlewareChainsStaySimple` | `Spec => []MiddlewareChainsAreSimple` | `ChainOK`: the stack of a turn under way has every key that the chain of its middlewares' calls went through, for chains of any length. Calls of `agents__request` are outside of it (`engine_circular`) |
| `RunnerProofs!RequestsStaySound` | `Spec => []RequestsAreSound`: no result without its call, no call without its result but those of answers with a malformed call (`CallsAreRun`) | `TalkOK`: the three conversations are `Sound` (each result after its call, each call before its results), but for the call at the end of `conv` while its tools run (`CallIsLast`). What the window and the compaction leave is the end of the list, from a place that holds no results (`WithoutFirst`, `FromSound`); leaving out context and summaries parts no call from its results (`SentSound`) |
| `RunnerProofs!RequiredToolIsCalled` | `Spec => []RequiredToolWasCalled` | `GuardOK`: a step after which the turn may stop was let through because of a tool the guard noted, and it notes only tools that were called |
| `RunnerProofs!ReplyStays` | `Spec => ReplyIsRemembered` | `SpokenOK`: the last text is in the conversation. No step of a turn removes a message but an answer, which it replaces by a text (`Stays`) |
| `RunnerProofs!InputIsHeard` | `Spec => []InputReachesModel`, if the order of the extensions keeps it | `HeardOK`: the input survives the extensions one by one (`ExtensionsLeave`): the window keeps the end, the compaction what `RetainLast` keeps if that is below its limit |
| `RuntimeControlProofs!ActiveRunnersWereReady` | `Spec => []ActiveIsSound` | `Control`: a process that is recorded, or that a command or a runner is about to record, has reported ready under the key it is recorded with (`RecordOK`, `ChildOK`, `LinkOK`) |
| `RuntimeControlProofs!DeletesSpareOthers` | `Spec => DeleteSparesOthers` | `DeleteOK`: in the tree that `instance delete` is about to signal is no process that does not look like a runner; `Moves`: the id of a process that is watched (`Watched`) is not used again |
| `RuntimeControlProofs!DeletedAreGone` | `Spec => DeletedIsGone`: all runners of the key, or, where the listing failed, the one `active.json` named | `DeleteOK`: from the listing on, a runner of the key that ran at the beginning is still to be killed or being killed |
| `StorageProofs!RestartsFindConversations` | `Spec => []RestartFindsConversation` | `Files`: which write is under way (`CallWrites`) and, per phase of it, what base, its successor and the events stand for (`FilesStand`); applying the events again to a base that has them loses no message (`AppliedAgain`) |
| `StorageProofs!UnsavedStatesAreDirty` | `Spec => []UnsavedIsDirty` | `Saves`: the walk of `saveAll` has its list and place (`SaveWalks`), and what it has passed is in its file (`TakenIsSaved`) |
| `StorageProofs!PackageInvariant` | `InstallSpec => []PackageInv` | the invariant of the next three: `RegistryInv` (every document is `IsSound`, every request carries what its handler had in hand, and where no requests of a package overlapped, `Agrees`: its two stores are in step, or as far apart as the one request has come, `Midway`) and `InstallOK` (`CommandOK`, `OnDisk`, `LockOK`) |
| `StorageProofs!RegistryStaysSound` | `InstallSpec => RegistryIsSound`; a tag names a version that is listed, or one that a publish of another version asked for (`Foreign`) | a document that is read and written back keeps such tags, because `latest` is set again after each removal (`LatestIsListed`, from `Semver`'s order being total and transitive: `VersionsAreTotal`, `VersionsAreTransitive`); the file server's publish answers 409 before it touches a tarball |
| `StorageProofs!LockfileIsSound` | `InstallSpec => []LockIsSound` | `Pending`: what is recorded has its dependencies recorded or still in the queue, and the queue is empty when the lockfile is written; one version is chosen per name (`RecordsOK`) |
| `StorageProofs!LockfileMatchesDisk` | `InstallSpec => LockMatchesDisk` | `OnDisk` of the records under way, which `Extract` alone extends; `AtHead`: from the digest's check on, the bytes in hand are those of the entry, and the directory that is wiped is of nothing recorded |
| `RunnerProofs!LoadInvariant` | `PlanSpec => []LoadInv` | `VisitedAreRead`, `PackagesArePlaced` (each visited package has a Package document of its own among the resources, so that a second version is a duplicate), `WantedIsQueued` (what a visited package asks for is visited or in the queue), `OnlyPackages`, `IsValidated` |
| `RunnerProofs!LoadsAreClosed` | `PlanSpec => []LoadIsClosed` | `LoadInv` with an empty queue and no errors |
| `RunnerProofs!RefsMeanChecked` | `PlanSpec => []RefsMeanWhatWasChecked` | `MeantInv`: a plan is made of a load that is over and has no errors. Without duplicates a scope is of one resource (`ScopesDiffer`); each reader takes the one denoted (`RunnerTakesDenoted`, `ProcessTakesDenoted`), by cases of its order of packages, and what a plan of an agent holds is what was taken (`TakenIsDenoted`, `AgentPlanMeans`, `RunnerPlanMeans`, `ProcessPlanMeans`). An entry agent written in another way than in the swarm's list is left open, and of the agent a rule leads to nothing is said (`RulesMeanTheirAgents`) |
| `RunnerProofs!PlanInvariant` | `PlanSpec => [](LoadInv /\ PlanInv)` | `IsSoundPlan` of what `RunnerPlan` returns, from one lemma on each fold over tools and agents (`RunnerRegistryHasAll`, `ProcessRegistryHasAll`, `CatalogIsOfTools`, `PlansAreOfAgents`) |
| `RunnerProofs!ToolsRunAsDeclared` | `PlanSpec => []ToolRunsAsDeclared` | a registry that refuses a name that is taken has each tool under its own resource, and a catalog has nothing else: `Handled` |
| `RunnerProofs!EventsReachPlannedAgents` | `PlanSpec => []RoutedIsPlanned` | `IsRouted`: the rules of a connector and its default lead to agents of the swarm, all of which have a plan (`AgentsAreLoaded`) |

In each module `IInv`, `Inv` or the conjunction the table names is the inductive invariant: the safety properties say nothing of the loop's flags, the map of open
requests, or the order of a channel, on which they depend, so that none of them is preserved
by a step from just any state in which it holds. `InitKeeps` or its like shows that it holds
at first, one lemma per action that the action preserves it, and each theorem that it implies
the property.

They rest on the assumptions on the constants in the modules, which TLC evaluates in every run:
in `Orchestrator` the names are what their comments say (`NamesAssumption`,
`ProcsAssumption`, `TasksAssumption`), the numbers are natural numbers, and
`DoublingAssumption`: powers of two up to `MaxExponent` are natural numbers (an arithmetic
fact whose induction the provers do not do) and the last doubling reaches `MaxBackoff`, so
that counting crashes further changes nothing; in `AgentProcess` that events,
correlation ids and strangers' ids are different (`IdsAssumption`) and the limits
positive; in `RunnerLifecycle` that the counts are natural numbers and pollers are connectors;
in `RequestBroker` that agents, requests, events and nobody are different
(`DistinctAssumption`); in `RuntimeEngine`, `RuntimeControl` and `InstanceFiles` that counts
and ids are numbers and the marks for "nothing", "torn" and the like are no ids or messages
(`ControlAssumption`, `ValuesAssumption`); in `Turn` that the limits are natural numbers, the
window and the step limit positive (`TurnAssumption`), and the answers are of the declared
form (`ResponsesAssumption`); in `Semver`, `Registry` and `PackageInstall` that what numbers
stand for are numbers, that words come after numbers, and that publishes and the manifest are
of the declared names, versions and dependencies (`AlphaAssumption`, `RegistryAssumption`,
`InstallAssumption`); in `BundleLoad` that the mark of a loose range is no version
(`LooseAssumption`), and of each bundle that its files are lists of documents, that `None` is
none of its resources, and that an installed package is named by its manifest as by its
directory (`BundleAssumption`: `gdn package publish`, package.ts:939-1009, takes the name it
publishes under from that manifest).

One theorem has a hypothesis of its own, and one property a precondition. `InputIsHeard` supposes that the message window is
registered before every extension that removes or adds messages, and that the compaction
keeps at least one (`OrderKeepsInput`, `RetainLast # 0`). The code does not ask for that order: with
a context message before a window of 1, or a compaction before it, the window drops the
input itself, and so does a compaction that is told to keep nothing. Every other theorem
about `Turn` holds in any order. `RefsMeanWhatWasChecked` speaks of bundles whose local
Package has a name or asks for no others (`LocalIsApart`): without one, validation checks a
reference of a local file against the local resources, and the agent process may take one of
a package. TLC found that while the theorem was being prepared. The runner refuses such a
bundle (`LocalPackageIsNamed`).

What a fold computes (`ToConversationTurns`, `Without`, `SizeOf`, the extensions in turn, the
tool registries, catalogs and agent plans of a bundle) is
reasoned about through its run: the sequence of its intermediate values exists (`FoldExists`,
`FoldRuns`, by the least number without one), and what holds of the first and is handed on
from place to place holds of the last (`PlaceByPlace`). The chains of `RuntimeEngine` are
treated alike. The induction theorems of the library cannot be used for it, because they take
an operator as a parameter.

**How far some of them reach.** `DeleteSparesOthers` leaves out the ids that are used again
between a check and a SIGKILL (section 3). `UpdatesAreEmitted` counts what was emitted over all
runs: a second run may emit again what the first did and could not confirm. `LockMatchesDisk`
speaks of installs that change the lockfile, not of one that is frozen or finds it as it is, and
of digests of a form the client checks. `LoadIsClosed` compares a version only where exactly one
is asked for. `RoutedIsPlanned` says that an event finds an agent with a plan, not that it is the
one the rule means. `UnsavedIsDirty` leaves out the states of `ChangedIsSaved`, and
`RestartFindsConversation` what a crash in the middle of a fold applies twice.

Every safety invariant and action property that a passing run checks is stated by a theorem.
Only model-checked are the liveness properties (`ShutdownReturns`, `DesiredIsReached`, the
two `EveryTurnEnds`, `TurnsEnd`, `LifecycleGoesOn`, `CommandsReturn`, `CommandsEnd`): they
need fairness and ENABLED, which are out of the provers' reach; and what only recursion over
data could show of an operator for every input.

## 6. Not modelled

* **Watch mode** of the runner (`runtime-runner.ts:5014-5042`): it drops changes by design
  of its guard, so the property one would want does not hold.
* **`spawn`, `list` and `catalog`** of the engine and the status in `metadata.json`: nothing
  of the runtime decides anything by them. `worker-lifecycle.ts` of the samples does, and is
  a sample.
* **Runtime events**: a log that nothing of the runtime reads back.
* **Process spawner**: a wrapper of `child_process`, whose channels and exits are the
  environment of the other modules.
* **Studio (service and client), eval, base tools, types, e2e, the other samples**: they
  read, present, declare or test.
* The content of prompts, messages and tool results; the network; YAML and JSON Schema;
  credentials and the checks of a request's form. A call to the file system that appends is
  taken to be written whole; one that writes a file anew may be cut between emptying and
  writing it.

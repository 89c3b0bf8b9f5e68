--------------------------- MODULE RunnerLifecycle ---------------------------
(***************************************************************************)
(* A runner and its connector processes: main(), startConnector() and      *)
(* stopConnectors() of runner/runtime-runner.ts, the child's side in       *)
(* runtime-runner-connector-child.ts, and the two connectors that read on  *)
(* their own, telegram-polling and cli.  The runner's turns are            *)
(* RuntimeEngine's and its replacement is RuntimeControl's.                *)
(*                                                                         *)
(* An event is the number of an update or a line.  A channel delivers in   *)
(* order, and the exit of a child is seen after what it has sent.          *)
(***************************************************************************)
EXTENDS Naturals, Sequences

CONSTANTS
  N,          \* connectors, started in the order of their numbers
  Pollers,    \* those that are telegram-polling; the others are cli
  MaxEvents,  \* updates of each bot, lines of each input
  Ignored,    \* updates that give no event: those of a bot, those without a text
  MaxRuns,    \* times the runner is started
  MaxFaults   \* polls without an answer, failures of a connector or of its channel, signals

ASSUME LifecycleAssumption ==
  /\ N \in Nat /\ MaxEvents \in Nat /\ MaxRuns \in Nat \ {0} /\ MaxFaults \in Nat
  /\ Pollers \subseteq 1..N /\ Ignored \subseteq 1..MaxEvents

Connectors == 1..N
Updates == 1..MaxEvents

\* A message of a child, or its exit with code 0 or not.
Message == [type : {"started", "error", "exit0", "exit1"}, event : {0}]
             \cup [type : {"event"}, event : Updates]
Plain(type) == [type |-> type, event |-> 0]
Event(u) == [type |-> "event", event |-> u]
Exits == {<<Plain("exit0")>>, <<Plain("exit1")>>}

VARIABLES
  main,       \* where main() is
  why,        \* what ended its wait
  run,        \* how often a runner was started
  child,      \* the connector processes
  signalled,  \* those that were sent SIGTERM
  orphans,    \* connectors of which a process of an earlier runner lives
  chan,       \* from each child to the runner
  startup,    \* startupPromise of each
  exit,       \* exitPromise of each
  expected,   \* expectedTermination
  inflight,   \* inflightEvents
  offset,     \* the poller's offset; for cli, the next line
  batch,      \* updates fetched and not yet emitted
  confirmed,  \* updates Telegram will not send again
  emitted,    \* how often each was emitted
  faults

childVars == <<child, signalled, offset, batch>>
upVars == <<startup, exit, expected, inflight>>
\* Why main() stops, and because of which connector.
Reason == [by : {"none", "signal", "start", "ended", "failed"}, of : 0..N]
Because(by, of) == [by |-> by, of |-> of]

serverVars == <<confirmed, emitted>>
vars == <<main, why, run, orphans, chan, faults, childVars, upVars, serverVars>>

-----------------------------------------------------------------------------
TypeOK ==
  /\ main \in {"starting", "aborting", "running", "stopping", "shutdown", "exited", "dead"}
  /\ why \in Reason
  /\ run \in 1..MaxRuns /\ faults \in 0..MaxFaults
  /\ child \in [Connectors -> {"none", "forked", "probing", "running", "gone"}]
  /\ signalled \subseteq {c \in Connectors : child[c] # "none"} /\ orphans \subseteq Connectors
  /\ chan \in [Connectors -> Seq(Message)]
  /\ startup \in [Connectors -> {"none", "pending", "ok", "failed"}]
  /\ exit \in [Connectors -> {"pending", "waiting", "ok", "failed", "unsure"}]
  /\ expected \subseteq Connectors
  /\ inflight \in [Connectors -> SUBSET Updates]
  /\ offset \in [Connectors -> 1..MaxEvents + 1]
  /\ batch \in [Connectors -> Seq(Updates)]
  /\ confirmed \in [Connectors -> 0..MaxEvents]
  /\ emitted \in [Connectors -> [Updates -> 0..MaxRuns]]

Each(x) == [c \in Connectors |-> x]

Init ==
  /\ main = "starting" /\ why = Because("none", 0) /\ run = 1 /\ faults = 0
  /\ child = Each("none") /\ signalled = {} /\ orphans = {} /\ chan = Each(<<>>)
  /\ startup = Each("none") /\ exit = Each("pending") /\ expected = {}
  /\ inflight = Each({})
  /\ offset = Each(1) /\ batch = Each(<<>>)
  /\ confirmed = Each(0) /\ emitted = Each([u \in Updates |-> 0])

Fault == faults < MaxFaults /\ faults' = faults + 1
Lives(c) == child[c] \in {"forked", "probing", "running"}
Settled(c) == exit[c] \in {"ok", "failed", "unsure"}

-----------------------------------------------------------------------------
(* A connector process *)

\* What c sends last, and its exit.
Quit(c, last) ==
  /\ child' = [child EXCEPT ![c] = "gone"]
  /\ chan' = [chan EXCEPT ![c] = @ \o last]

Import(c) ==
  /\ child[c] = "forked"
  /\ child' = [child EXCEPT ![c] = "probing"]
  /\ UNCHANGED <<main, why, run, orphans, chan, faults, signalled, offset, batch, upVars, serverVars>>

\* probeConnectorStartup: it has not ended within the first round of the event loop.
Probe(c) ==
  /\ child[c] = "probing"
  /\ child' = [child EXCEPT ![c] = "running"]
  /\ chan' = [chan EXCEPT ![c] = Append(@, Plain("started"))]
  /\ UNCHANGED <<main, why, run, orphans, faults, signalled, offset, batch, upVars, serverVars>>

\* The connector rejects, or the module does not load.
Fail(c) ==
  /\ Lives(c) /\ Fault
  /\ Quit(c, IF child[c] = "running" THEN <<Plain("exit1")>> ELSE <<Plain("error"), Plain("exit1")>>)
  /\ UNCHANGED <<main, why, run, orphans, signalled, offset, batch, upVars, serverVars>>

\* The connector resolves.
End(c) ==
  Quit(c, IF child[c] = "running" THEN <<Plain("exit0")>> ELSE <<Plain("error"), Plain("exit1")>>)

\* The input of a connector that reads lines has ended.
Resolve(c) ==
  /\ c \notin Pollers /\ child[c] \in {"probing", "running"}
  /\ offset[c] > MaxEvents
  /\ End(c)
  /\ UNCHANGED <<main, why, run, orphans, faults, signalled, offset, batch, upVars, serverVars>>

\* fetchWithTimeout: a poll that its own timer aborts looks like one that was
\* asked to stop, and the connector resolves.
PollTimesOut(c) ==
  /\ c \in Pollers /\ child[c] \in {"probing", "running"} /\ batch[c] = <<>>
  /\ Fault
  /\ End(c)
  /\ UNCHANGED <<main, why, run, orphans, signalled, offset, batch, upVars, serverVars>>

\* shutdownChild; a child whose event loop hangs never gets there.
Obey(c) ==
  /\ Lives(c) /\ c \in signalled
  /\ Quit(c, <<Plain("exit0")>>)
  /\ UNCHANGED <<main, why, run, orphans, faults, signalled, offset, batch, upVars, serverVars>>

Emit(c, u) ==
  IF u \in Ignored THEN UNCHANGED <<chan, emitted>>
  ELSE /\ chan' = [chan EXCEPT ![c] = Append(@, Event(u))]
       /\ emitted' = [emitted EXCEPT ![c][u] = @ + 1]

ReadLine(c) ==
  /\ c \notin Pollers /\ child[c] \in {"probing", "running"}
  /\ offset[c] <= MaxEvents
  /\ Emit(c, offset[c])
  /\ offset' = [offset EXCEPT ![c] = @ + 1]
  /\ UNCHANGED <<main, why, run, orphans, faults, child, signalled, batch, confirmed, upVars>>

\* Mutant: the next request goes out while updates are still emitted
PollAhead(c) ==
  /\ c \in Pollers /\ child[c] \in {"probing", "running"}
  /\ LET from == IF batch[c] = <<>> THEN offset[c] ELSE batch[c][Len(batch[c])] + 1 IN
     /\ confirmed' = [confirmed EXCEPT ![c] = IF from > @ + 1 THEN from - 1 ELSE @]
     /\ \E n \in confirmed'[c]..MaxEvents :
          batch' = [batch EXCEPT ![c] = @ \o [i \in 1..n - confirmed'[c] |-> confirmed'[c] + i]]
  /\ UNCHANGED <<main, why, run, orphans, chan, faults, child, signalled, offset, emitted, upVars>>

\* getUpdates with an offset confirms what is before it.
Asks(c) ==
  /\ c \in Pollers /\ child[c] \in {"probing", "running"} /\ batch[c] = <<>>
  /\ confirmed' = [confirmed EXCEPT ![c] = IF offset[c] > @ + 1 THEN offset[c] - 1 ELSE @]
  /\ UNCHANGED <<main, why, run, orphans, chan, child, signalled, offset, emitted, upVars>>

Poll(c) ==
  /\ Asks(c)
  /\ \E n \in confirmed'[c]..MaxEvents :
       batch' = [batch EXCEPT ![c] = [i \in 1..n - confirmed'[c] |-> confirmed'[c] + i]]
  /\ UNCHANGED faults

\* The answer is lost, or an error: it waits and asks again.
PollFails(c) == Asks(c) /\ Fault /\ UNCHANGED batch

\* The offset moves before the event is emitted.
Take(c) ==
  /\ c \in Pollers /\ child[c] \in {"probing", "running"} /\ batch[c] # <<>>
  /\ LET u == Head(batch[c]) IN
     /\ offset' = [offset EXCEPT ![c] = IF u >= @ THEN u + 1 ELSE @]
     /\ Emit(c, u)
  /\ batch' = [batch EXCEPT ![c] = Tail(@)]
  /\ UNCHANGED <<main, why, run, orphans, faults, child, signalled, confirmed, upVars>>

-----------------------------------------------------------------------------
(* startConnector *)

Alive == main \notin {"exited", "dead"}

\* The connectors are started one after the other.
Start(c) ==
  /\ main = "starting" /\ startup[c] = "none"
  /\ \A b \in Connectors : b < c => startup[b] = "ok"
  /\ child' = [child EXCEPT ![c] = "forked"]
  /\ startup' = [startup EXCEPT ![c] = "pending"]
  /\ UNCHANGED <<main, why, run, orphans, chan, faults, signalled, offset, batch,
                 exit, expected, inflight, serverVars>>

\* CONNECTOR_CHILD_STARTUP_TIMEOUT_MS
StartupTimeout(c) ==
  /\ main = "starting" /\ startup[c] = "pending"
  /\ startup' = [startup EXCEPT ![c] = "failed"]
  /\ UNCHANGED <<main, why, run, orphans, chan, faults, childVars, exit, expected, inflight, serverVars>>

\* onMessage; handleConnectorEvent runs the turns of the event.
Hear(c) ==
  /\ Alive /\ ~Settled(c) /\ chan[c] # <<>> /\ chan[c] \notin Exits
  /\ chan' = [chan EXCEPT ![c] = Tail(@)]
  /\ LET message == Head(chan[c]) IN
     IF message.type = "event"
     THEN inflight' = [inflight EXCEPT ![c] = @ \cup {message.event}] /\ UNCHANGED startup
     ELSE /\ startup' = [startup EXCEPT ![c] = IF @ # "pending" THEN @
                                               ELSE IF message.type = "started" THEN "ok" ELSE "failed"]
          /\ UNCHANGED inflight
  /\ UNCHANGED <<main, why, run, orphans, faults, childVars, exit, expected, serverVars>>

Handled(c, u) ==
  /\ Alive /\ u \in inflight[c]
  /\ inflight' = [inflight EXCEPT ![c] = @ \ {u}]
  /\ UNCHANGED <<main, why, run, orphans, chan, faults, childVars, startup, exit, expected, serverVars>>

\* exitPromise rejects when nobody listens: the connectors are watched by
\* runLifecycle, and by terminate.
Unheard(c) == main \in {"starting", "aborting"} /\ startup[c] = "ok" /\ c \notin expected

\* Mutant: an orderly exit does not wait for the events under way
HearExitAtOnce(c) ==
  /\ Alive /\ ~Settled(c) /\ chan[c] \in Exits
  /\ chan' = [chan EXCEPT ![c] = <<>>]
  /\ startup' = [startup EXCEPT ![c] = IF @ = "pending" THEN "failed" ELSE @]
  /\ exit' = [exit EXCEPT ![c] = IF c \in expected \/ chan[c] = <<Plain("exit0")>> THEN "ok" ELSE "failed"]
  /\ IF exit'[c] = "failed" /\ Unheard(c)
     THEN main' = "dead" /\ orphans' = orphans \cup {b \in Connectors : Lives(b)}
     ELSE UNCHANGED <<main, orphans>>
  /\ UNCHANGED <<why, run, faults, childVars, expected, inflight, serverVars>>

\* onExit.  An orderly exit that nobody asked for waits for the events under way.
HearExit(c) ==
  /\ Alive /\ ~Settled(c) /\ chan[c] \in Exits
  /\ chan' = [chan EXCEPT ![c] = <<>>]
  /\ startup' = [startup EXCEPT ![c] = IF @ = "pending" THEN "failed" ELSE @]
  /\ exit' = [exit EXCEPT ![c] = IF c \in expected THEN "ok"
                                 ELSE IF chan[c] = <<Plain("exit0")>> THEN "waiting" ELSE "failed"]
  /\ IF exit'[c] = "failed" /\ Unheard(c)
     THEN main' = "dead" /\ orphans' = orphans \cup {b \in Connectors : Lives(b)}
     ELSE UNCHANGED <<main, orphans>>
  /\ UNCHANGED <<why, run, faults, childVars, expected, inflight, serverVars>>

\* onError: what the runner sends at the start or at the end, or its signal, does not
\* get through.  exitPromise settles wherever the child is, and nobody hears it again.
HearError(c) ==
  /\ Alive /\ Fault /\ ~Settled(c)
  /\ c \in expected \/ (main = "starting" /\ startup[c] = "pending" /\ child[c] = "forked")
  /\ startup' = [startup EXCEPT ![c] = IF @ = "pending" THEN "failed" ELSE @]
  /\ exit' = [exit EXCEPT ![c] = "unsure"]
  /\ UNCHANGED <<main, why, run, orphans, chan, childVars, expected, inflight, serverVars>>

EventsSettled(c) ==
  /\ Alive /\ exit[c] = "waiting" /\ inflight[c] = {}
  /\ exit' = [exit EXCEPT ![c] = "ok"]
  /\ UNCHANGED <<main, why, run, orphans, chan, faults, childVars, startup, expected, inflight, serverVars>>

\* terminate() of each connector in cs.
Terminate(cs) ==
  /\ expected' = expected \cup cs
  /\ signalled' = signalled \cup cs

\* Mutant: a child that has not started is not killed
KillRunning(c) ==
  /\ main \in {"aborting", "stopping"} /\ c \in expected /\ ~Settled(c)
  /\ child[c] = "running"
  /\ Quit(c, <<Plain("exit1")>>)
  /\ UNCHANGED <<main, why, run, orphans, faults, signalled, offset, batch, upVars, serverVars>>

\* CONNECTOR_CHILD_SHUTDOWN_TIMEOUT_MS
Kill(c) ==
  /\ main \in {"aborting", "stopping"} /\ c \in expected /\ ~Settled(c)
  /\ Lives(c)
  /\ Quit(c, <<Plain("exit1")>>)
  /\ UNCHANGED <<main, why, run, orphans, faults, signalled, offset, batch, upVars, serverVars>>

-----------------------------------------------------------------------------
(* main *)

\* The connector that does not start is stopped first, then those that run.
AbortStart(c) ==
  /\ main = "starting" /\ startup[c] = "failed"
  /\ main' = "aborting" /\ why' = Because("start", c)
  /\ Terminate({c})
  /\ UNCHANGED <<run, orphans, chan, faults, child, offset, batch, startup, exit, inflight, serverVars>>

\* Mutant: only the connector that failed is stopped
AbortOnly ==
  /\ main = "aborting" /\ \A c \in expected : Settled(c)
  /\ main' = "stopping"
  /\ UNCHANGED <<expected, signalled>>
  /\ UNCHANGED <<why, run, orphans, chan, faults, child, offset, batch, startup, exit, inflight, serverVars>>

AbortOthers ==
  /\ main = "aborting" /\ \A c \in expected : Settled(c)
  /\ main' = "stopping"
  /\ Terminate({c \in Connectors : startup[c] = "ok"})
  /\ UNCHANGED <<why, run, orphans, chan, faults, child, offset, batch, startup, exit, inflight, serverVars>>

\* The ready message, and the handlers of runLifecycle.
Ready ==
  /\ main = "starting" /\ \A c \in Connectors : startup[c] = "ok"
  /\ main' = "running"
  /\ UNCHANGED <<why, run, orphans, chan, faults, childVars, upVars, serverVars>>

\* Promise.race of the signal and every connector.
Stop(reason) ==
  /\ main = "running"
  /\ main' = "stopping" /\ why' = reason
  /\ Terminate(Connectors)
  /\ UNCHANGED <<run, orphans, chan, child, offset, batch, startup, exit, inflight, serverVars>>

ConnectorEnds(c) == exit[c] = "ok" /\ Stop(Because("ended", c)) /\ UNCHANGED faults
ConnectorFails(c) == exit[c] = "failed" /\ Stop(Because("failed", c)) /\ UNCHANGED faults
Signal == Fault /\ Stop(Because("signal", 0))

\* A signal before runLifecycle or a second one, or a crash: what lives stays.
Die ==
  /\ Alive /\ Fault
  /\ main' = "dead"
  /\ orphans' = orphans \cup {c \in Connectors : Lives(c)}
  /\ UNCHANGED <<why, run, chan, childVars, upVars, serverVars>>

Stopped ==
  /\ main = "stopping" /\ \A c \in expected : Settled(c)
  /\ main' = "shutdown"
  /\ UNCHANGED <<why, run, orphans, chan, faults, childVars, upVars, serverVars>>

\* orchestrator.shutdown() is over: process.exit, whatever is under way.
Exit ==
  /\ main = "shutdown"
  /\ main' = "exited"
  /\ orphans' = orphans \cup {c \in Connectors : Lives(c)}
  /\ UNCHANGED <<why, run, chan, faults, childVars, upVars, serverVars>>

\* Whoever started the runner starts another.
Restart ==
  /\ ~Alive /\ run < MaxRuns
  /\ run' = run + 1
  /\ main' = "starting" /\ why' = Because("none", 0)
  /\ child' = Each("none") /\ signalled' = {} /\ chan' = Each(<<>>)
  /\ startup' = Each("none") /\ exit' = Each("pending") /\ expected' = {}
  /\ inflight' = Each({})
  /\ offset' = [c \in Connectors |-> IF c \in Pollers THEN 1 ELSE offset[c]]
  /\ batch' = Each(<<>>)
  /\ UNCHANGED <<orphans, faults, serverVars>>

\* An orphan can emit nothing: at its first event it ends.
OrphanEnds(c) ==
  /\ c \in orphans
  /\ orphans' = orphans \ {c}
  /\ UNCHANGED <<main, why, run, chan, faults, childVars, upVars, serverVars>>

-----------------------------------------------------------------------------
Child(c) ==
  /\ Alive
  /\ \/ Import(c) \/ Probe(c) \/ Fail(c) \/ Resolve(c) \/ Obey(c) \/ ReadLine(c)
     \/ Poll(c) \/ PollFails(c) \/ PollTimesOut(c) \/ Take(c)
Parent(c) ==
  \/ Start(c) \/ StartupTimeout(c) \/ Hear(c) \/ HearExit(c) \/ EventsSettled(c)
  \/ Kill(c) \/ AbortStart(c) \/ ConnectorEnds(c) \/ ConnectorFails(c)
Main == AbortOthers \/ Ready \/ Stopped \/ Exit
Turns(c) == \E u \in Updates : Handled(c, u)

Next ==
  \/ \E c \in Connectors : Child(c) \/ Parent(c) \/ HearError(c) \/ Turns(c) \/ OrphanEnds(c)
  \/ Main \/ Signal \/ Die \/ Restart

Spec == Init /\ [][Next]_vars

\* The runner runs on, its timers fire and its turns end; a connector may do
\* nothing for ever.
FairSpec == Spec /\ WF_vars(Main)
                 /\ \A c \in Connectors : WF_vars(Parent(c)) /\ WF_vars(Turns(c))

-----------------------------------------------------------------------------
(* Properties *)

\* A runner that exits by itself leaves no connector behind: not when a later
\* connector failed to start, not when one does not obey.  (One that could not be
\* written or signalled to counts as ended: runtime-runner.ts:4689-4697.)
ExitLeavesNoChild == main = "exited" => \A c \in Connectors : Lives(c) => exit[c] = "unsure"

\* The runner that exits because a connector's input ended has handled every
\* event of that connector (runtime-runner.ts:4710-4716).
EndedIsHandled ==
  main = "exited" /\ why.by = "ended" => inflight[why.of] = {}

\* An update that Telegram will not send again was emitted, whatever polls,
\* connectors and runners failed in between.
ConfirmedWasEmitted ==
  \A c \in Pollers : \A u \in Updates \ Ignored : u <= confirmed[c] => emitted[c][u] > 0

\* A runner gets each update and each line at most once.
EmittedOncePerRun == \A c \in Connectors : \A u \in Updates : emitted[c][u] <= run

\* The offset a poller confirms and what it has emitted agree over failed polls,
\* connectors that end and runners that are started again.
UpdatesAreEmitted == TypeOK /\ ConfirmedWasEmitted /\ EmittedOncePerRun

\* A runner that starts gets ready or gives up, and one that stops exits, even
\* when its connectors hang.
LifecycleGoesOn ==
  /\ main = "starting" ~> main # "starting"
  /\ main \in {"aborting", "stopping"} ~> ~Alive
=============================================================================

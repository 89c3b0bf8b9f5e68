--------------------------- MODULE RuntimeControl ---------------------------
(***************************************************************************)
(* The processes of runners and the commands that start, replace and kill  *)
(* them: `gdn run`, `gdn restart` and `gdn instance delete`                *)
(* (cli/src/services/runtime.ts, instances.ts) and the end of main() of    *)
(* runner/runtime-runner.ts.  They share nothing but the process table and *)
(* runtime/active.json, which each reads, acts on and writes in steps.     *)
(*                                                                         *)
(* An action of a command is its code between two awaits.  How a runner    *)
(* drains its agents is Orchestrator's; here a runner has or has not a     *)
(* child process at work, and its history is who has written to it.        *)
(***************************************************************************)
EXTENDS Naturals, FiniteSets

CONSTANTS
  Swarms,      \* Swarm resources of the bundle
  Keys,        \* instance keys
  Pids,        \* ids of processes ever forked, given out in order
  Commands,    \* invocations of gdn, begun in order
  None,        \* no file, no process
  FirstKeyOf,  \* the key of each swarm before the first edit of the bundle
  Patient,     \* commands begun when those before are over
  MaxEvents    \* edits of the bundle, agents forked, crashes, restarts asked for by
               \* turns, process ids used again, calls of ps that fail

ASSUME ControlAssumption ==
  /\ MaxEvents \in Nat /\ Patient \subseteq Commands
  /\ Pids \subseteq Nat /\ Commands \subseteq Nat
  /\ None \notin Pids \cup Keys \cup Swarms \cup Commands
  /\ Pids \cap Commands = {}
  /\ FirstKeyOf \in [Swarms -> Keys]

VARIABLES
  keyOf,   \* spec.instanceKey ?? metadata.name of each swarm, as the bundle says now
  active,  \* runtime/active.json
  proc,    \* the process table
  cmd,     \* the commands
  stored,  \* per key, the runners whose messages are in the message store
  events

vars == <<keyOf, active, proc, cmd, stored, events>>
environment == <<keyOf, events>>

-----------------------------------------------------------------------------
(* Processes *)

Event == events < MaxEvents /\ events' = events + 1

\* by: who waits for its ready message.  leader: forked detached, so it leads a process
\* group.  armed: its SIGTERM handler is set.  kid: its agents and connectors.
\* The id of a process that is "other" or "alike" has been used again, by a process that
\* is no runner of this key: "alike" is one whose command line passes for it all the same.
Process ==
  [st : {"free", "starting", "ready", "stopping", "replacing", "recording", "dead", "other", "alike"},
   key : Keys \cup {None}, swarm : Swarms \cup {None}, by : Pids \cup Commands \cup {None},
   leader : BOOLEAN, armed : BOOLEAN, restart : BOOLEAN,
   broken : BOOLEAN, out : {"none", "ready", "error"}, wasReady : BOOLEAN,
   next : Pids \cup {None}, kid : {"none", "live", "orphan"}]

Free == [st |-> "free", key |-> None, swarm |-> None, by |-> None,
         leader |-> FALSE, armed |-> FALSE, restart |-> FALSE, broken |-> FALSE,
         out |-> "none", wasReady |-> FALSE, next |-> None, kid |-> "none"]

\* fork() of the runner with buildRunnerArgs.
Forked(key, swarm, by, leader) ==
  [Free EXCEPT !.st = "starting", !.key = key, !.swarm = swarm, !.by = by,
               !.leader = leader]

NextFree(p) == proc[p].st = "free" /\ \A q \in Pids : q < p => proc[q].st # "free"

Strangers == {"other", "alike"}

Alive(p) == p # None /\ proc[p].st \notin {"free", "dead"}
Runs(p) == Alive(p) /\ proc[p].st \notin Strangers

\* listManagedRuntimeProcesses: what ps shows of this key.
Managed(key) == {p \in Pids : Runs(p) /\ proc[p].key = key}

Dead(r) == [r EXCEPT !.st = "dead", !.armed = FALSE, !.restart = FALSE, !.broken = FALSE,
                     !.by = None, !.kid = IF @ = "live" THEN "orphan" ELSE @]

\* waitForShutdownSignal takes one signal; before it and after, a signal kills.
Signalled(r) ==
  IF r.armed
  THEN [r EXCEPT !.armed = FALSE, !.st = IF @ = "ready" THEN "stopping" ELSE @]
  ELSE Dead(r)

\* process.kill of each of ps, if it is still there; kids are hit through the
\* process group or because they were listed.
SigTerm(ps, hit) ==
  [p \in Pids |->
     LET r == IF p \in ps /\ Alive(p) THEN Signalled(proc[p]) ELSE proc[p]
     IN IF p \in hit THEN [r EXCEPT !.kid = "none"] ELSE r]

SigKill(ps, hit) ==
  [p \in Pids |->
     LET r == IF p \in ps /\ Alive(p) THEN Dead(proc[p]) ELSE proc[p]
     IN IF p \in hit THEN [r EXCEPT !.kid = "none"] ELSE r]

-----------------------------------------------------------------------------
(* Commands *)

\* before: the runners of the key when a delete began.  tree, kids and group: what it
\* found of the process it is about to kill.  blind: its ps -ax has failed.
Command ==
  [op : {"none", "run", "restart", "delete"},
   pc : {"idle", "read", "fork", "waiting", "write", "term", "grace", "clear", "check",
         "signal", "drain", "unlink", "list", "each", "remove", "done", "failed"},
   swarm : Swarms \cup {None}, key : Keys \cup {None}, oldKey : Keys \cup {None},
   prev : Pids \cup {None}, child : Pids \cup {None}, todo : SUBSET Pids,
   tree : SUBSET Pids, kids : SUBSET Pids, group : BOOLEAN, fresh : BOOLEAN,
   foreground : BOOLEAN, listed : BOOLEAN, blind : BOOLEAN, before : SUBSET Pids]

NotBegun == [op |-> "none", pc |-> "idle", swarm |-> None, key |-> None, oldKey |-> None,
             prev |-> None, child |-> None, todo |-> {}, tree |-> {}, kids |-> {},
             group |-> FALSE, fresh |-> FALSE, foreground |-> FALSE, listed |-> FALSE,
             blind |-> FALSE, before |-> {}]

Active == [key : Keys, swarm : Swarms, pid : Pids]

Over(c) == cmd[c].pc \in {"done", "failed"}
Busy(c) == cmd[c].pc # "idle" /\ ~Over(c)

\* Every value has the shape above.
TypeOK ==
  /\ keyOf \in [Swarms -> Keys]
  /\ active \in Active \cup {None}
  /\ proc \in [Pids -> Process]
  /\ cmd \in [Commands -> Command]
  /\ stored \in [Keys -> SUBSET Pids]
  /\ events \in 0..MaxEvents

Init ==
  /\ keyOf = FirstKeyOf
  /\ active = None
  /\ proc = [p \in Pids |-> Free]
  /\ cmd = [c \in Commands |-> NotBegun]
  /\ stored = [k \in Keys |-> {}]
  /\ events = 0

Goto(c, pc) == cmd' = [cmd EXCEPT ![c].pc = pc]
End(c, pc) == cmd' = [cmd EXCEPT ![c] = [NotBegun EXCEPT !.pc = pc]]

Begin(c, command) ==
  /\ cmd[c].pc = "idle"
  /\ \A d \in Commands : d < c => cmd[d].pc # "idle"
  /\ c \in Patient => \A d \in Commands : ~Busy(d)
  /\ cmd' = [cmd EXCEPT ![c] = [command EXCEPT !.pc = "read"]]
  /\ UNCHANGED <<active, proc, stored, environment>>

\* resolveRuntimeStartIdentity: the key is computed once, here.
Run(c, s, foreground) ==
  Begin(c, [NotBegun EXCEPT !.op = "run", !.swarm = s, !.key = keyOf[s],
                            !.foreground = foreground])
Restart(c, fresh) == Begin(c, [NotBegun EXCEPT !.op = "restart", !.fresh = fresh])
Delete(c, k) ==
  Begin(c, [NotBegun EXCEPT !.op = "delete", !.key = k, !.before = Managed(k)])

\* A second runner is not started while active.json names a live process.
ReadToRun(c) ==
  /\ cmd[c].op = "run" /\ cmd[c].pc = "read"
  /\ IF active # None /\ active.key = cmd[c].key /\ Alive(active.pid)
     THEN End(c, IF cmd[c].foreground THEN "failed" ELSE "done")
     ELSE Goto(c, "fork")
  /\ UNCHANGED <<active, proc, stored, environment>>

\* The key is computed anew from the swarm that active.json names.
ReadToRestart(c) ==
  /\ cmd[c].op = "restart" /\ cmd[c].pc = "read"
  /\ IF active = None
     THEN End(c, "failed")
     ELSE cmd' = [cmd EXCEPT ![c].pc = "term", ![c].prev = active.pid,
                             ![c].swarm = active.swarm, ![c].oldKey = active.key,
                             ![c].key = keyOf[active.swarm]]
  /\ UNCHANGED <<active, proc, stored, environment>>

ReadToDelete(c) ==
  /\ cmd[c].op = "delete" /\ cmd[c].pc = "read"
  /\ IF active # None /\ active.key = cmd[c].key
     THEN cmd' = [cmd EXCEPT ![c].pc = "check", ![c].prev = active.pid]
     ELSE Goto(c, "list")
  /\ UNCHANGED <<active, proc, stored, environment>>

-----------------------------------------------------------------------------
(* Starting a runner: startDetachedRunner, startForegroundRunner *)

Fork(c, p) ==
  /\ cmd[c].pc = "fork"
  /\ NextFree(p)
  /\ proc' = [proc EXCEPT ![p] = Forked(cmd[c].key, cmd[c].swarm, c, ~cmd[c].foreground)]
  /\ cmd' = [cmd EXCEPT ![c].pc = "waiting", ![c].child = p]
  /\ UNCHANGED <<active, stored, environment>>

\* The ready message; the channel is closed.
HearReady(c) ==
  /\ cmd[c].pc = "waiting"
  /\ proc[cmd[c].child].out = "ready"
  /\ proc' = [proc EXCEPT ![cmd[c].child].out = "none", ![cmd[c].child].by = None]
  /\ Goto(c, "write")
  /\ UNCHANGED <<active, stored, environment>>

\* start_error, or the exit before any message.
HearFailure(c) ==
  /\ cmd[c].pc = "waiting"
  /\ \/ proc[cmd[c].child].out = "error"
     \/ proc[cmd[c].child].out = "none" /\ ~Alive(cmd[c].child)
  /\ proc' = SigKill({cmd[c].child}, {})
  /\ End(c, "failed")
  /\ UNCHANGED <<active, stored, environment>>

\* Mutant: a process that lives is given all the time it takes.
NoTimeout(c) ==
  /\ cmd[c].pc = "waiting" /\ ~Alive(cmd[c].child)
  /\ End(c, "failed")
  /\ UNCHANGED <<active, proc, stored, environment>>

\* STARTUP_TIMEOUT_MS.
StartupTimeout(c) ==
  /\ cmd[c].pc = "waiting"
  /\ proc' = SigKill({cmd[c].child}, {})
  /\ End(c, "failed")
  /\ UNCHANGED <<active, stored, environment>>

\* Mutant: the record is written as soon as the process is forked.
WriteEarly(c) ==
  /\ cmd[c].pc \in {"waiting", "write"}
  /\ active' = [key |-> cmd[c].key, swarm |-> cmd[c].swarm, pid |-> cmd[c].child]
  /\ IF cmd[c].pc = "write" THEN End(c, "done") ELSE UNCHANGED cmd
  /\ UNCHANGED <<proc, stored, environment>>

WriteActive(c) ==
  /\ cmd[c].pc = "write"
  /\ active' = [key |-> cmd[c].key, swarm |-> cmd[c].swarm, pid |-> cmd[c].child]
  /\ End(c, "done")
  /\ UNCHANGED <<proc, stored, environment>>

-----------------------------------------------------------------------------
(* gdn restart *)

AfterTermination(c) == IF cmd[c].fresh THEN "clear" ELSE "fork"

\* terminatePreviousProcess looks at nothing but the process id.
Terminate(c) ==
  /\ cmd[c].pc = "term"
  /\ IF Alive(cmd[c].prev)
     THEN proc' = SigTerm({cmd[c].prev}, {}) /\ Goto(c, "grace")
     ELSE UNCHANGED proc /\ Goto(c, AfterTermination(c))
  /\ UNCHANGED <<active, stored, environment>>

\* Twenty looks, 50 ms apart, and then SIGKILL.
GraceEnds(c) ==
  /\ cmd[c].pc = "grace"
  /\ proc' = SigKill({cmd[c].prev}, {})
  /\ Goto(c, AfterTermination(c))
  /\ UNCHANGED <<active, stored, environment>>

\* clearPersistedMessageHistory of the old and the new key.
Clear(c) ==
  /\ cmd[c].pc = "clear"
  /\ stored' = [k \in Keys |-> IF k \in {cmd[c].key, cmd[c].oldKey} THEN {} ELSE stored[k]]
  /\ Goto(c, "fork")
  /\ UNCHANGED <<active, proc, environment>>

-----------------------------------------------------------------------------
(* gdn instance delete *)

\* The children of p that ps shows: replacements it forked, and its kids.
Tree(p) == {p} \cup {q \in Pids : Runs(p) /\ Alive(q) /\ proc[p].next = q}
Kids(ps) == {p \in ps : proc[p].kid = "live"}

\* After the process of active.json its record goes; after a listed one, the next.
AfterKill(c) == IF cmd[c].listed THEN "each" ELSE "unlink"

\* Mutant: delete takes the process id's word for it.
CheckAlive(c) ==
  /\ cmd[c].pc = "check"
  /\ LET p == cmd[c].prev IN
     IF Alive(p)
     THEN cmd' = [cmd EXCEPT ![c].pc = "signal", ![c].tree = Tree(p), ![c].kids = Kids(Tree(p)),
                             ![c].group = proc[p].leader]
     ELSE Goto(c, AfterKill(c))
  /\ UNCHANGED <<active, proc, stored, environment>>

\* isManagedRuntimeCommand: the text of the key is somewhere in a runner's command line.
PassesFor(p, key) == p \in Managed(key) \/ proc[p].st = "alike"

\* terminateRuntimeProcess, up to the first signal: three calls of ps.  Without the first
\* the process is no runner; without the others it has no children, and leads no group.
Check(c) ==
  LET p == cmd[c].prev
      Found(tree, kids, group) ==
        cmd' = [cmd EXCEPT ![c].pc = "signal", ![c].tree = tree, ![c].kids = kids,
                           ![c].group = group]
  IN /\ cmd[c].pc = "check"
     /\ \/ /\ ~Alive(p) /\ Goto(c, AfterKill(c))
           /\ UNCHANGED environment
        \/ /\ Alive(p) /\ ~PassesFor(p, cmd[c].key) /\ End(c, "failed")
           /\ UNCHANGED environment
        \/ /\ PassesFor(p, cmd[c].key) /\ Found(Tree(p), Kids(Tree(p)), proc[p].leader)
           /\ UNCHANGED environment
        \/ /\ PassesFor(p, cmd[c].key)
           /\ \/ End(c, "failed")
              \/ Found({p}, {}, proc[p].leader)
              \/ Found(Tree(p), Kids(Tree(p)), FALSE)
           /\ Event /\ UNCHANGED keyOf
     /\ UNCHANGED <<active, proc, stored>>

\* signalRuntimeProcessTree: the group of a leader also holds what it forked since.
Hit(c) == cmd[c].kids \cup (IF cmd[c].group THEN {cmd[c].prev} ELSE {})

SignalTree(c) ==
  /\ cmd[c].pc = "signal"
  /\ proc' = SigTerm(cmd[c].tree, Hit(c))
  /\ Goto(c, "drain")
  /\ UNCHANGED <<active, stored, environment>>

\* Mutant: once the wait is over, what is left is left.
DrainUnkilled(c) ==
  /\ cmd[c].pc = "drain"
  /\ Goto(c, AfterKill(c))
  /\ UNCHANGED <<active, proc, stored, environment>>

\* All are gone, or the wait is over and what is left is killed; 40 ms later it is
\* gone, or the delete gives up.
Drain(c) ==
  /\ cmd[c].pc = "drain"
  /\ proc' = SigKill(cmd[c].tree, Hit(c))
  /\ \/ Goto(c, AfterKill(c))
     \/ (\E p \in cmd[c].tree : Alive(p)) /\ End(c, "failed")
  /\ UNCHANGED <<active, stored, environment>>

\* active.json and the logs go, whoever they are about by now.
Unlink(c) ==
  /\ cmd[c].pc = "unlink"
  /\ active' = None
  /\ Goto(c, "list")
  /\ UNCHANGED <<proc, stored, environment>>

\* listManagedRuntimeProcesses: where ps fails it has found none, and delete goes on.
List(c) ==
  /\ cmd[c].pc = "list"
  /\ \/ /\ cmd' = [cmd EXCEPT ![c].pc = "each", ![c].listed = TRUE,
                              ![c].todo = Managed(cmd[c].key) \ {cmd[c].prev}]
        /\ UNCHANGED environment
     \/ /\ cmd' = [cmd EXCEPT ![c].pc = "each", ![c].listed = TRUE, ![c].todo = {},
                              ![c].blind = TRUE]
        /\ Event /\ UNCHANGED keyOf
  /\ UNCHANGED <<active, proc, stored>>

Each(c) ==
  /\ cmd[c].pc = "each"
  /\ \/ \E p \in cmd[c].todo :
          cmd' = [cmd EXCEPT ![c].pc = "check", ![c].prev = p, ![c].todo = @ \ {p}]
     \/ cmd[c].todo = {} /\ Goto(c, "remove")
  /\ UNCHANGED <<active, proc, stored, environment>>

\* collectDeleteTargetsForKey: the directories of the instance.
Remove(c) ==
  /\ cmd[c].pc = "remove"
  /\ stored' = [stored EXCEPT ![cmd[c].key] = {}]
  /\ End(c, "done")
  /\ UNCHANGED <<active, proc, environment>>

-----------------------------------------------------------------------------
(* A runner *)

\* The channel may be gone by now: then the message is lost or ends the process.
RunnerReady(p) ==
  /\ proc[p].st = "starting"
  /\ LET up == [proc[p] EXCEPT !.st = "ready", !.armed = TRUE, !.wasReady = TRUE]
         heard == \/ proc[p].by \in Commands /\ cmd[proc[p].by].pc = "waiting"
                  \/ proc[p].by \in Pids /\ proc[proc[p].by].st = "replacing"
     IN \/ heard /\ proc' = [proc EXCEPT ![p] = [up EXCEPT !.out = "ready"]]
        \/ ~heard /\ proc' = [proc EXCEPT ![p] = up]
        \/ ~heard /\ proc' = [proc EXCEPT ![p] = Dead(@)]
  /\ UNCHANGED <<active, cmd, stored, environment>>

\* preflight or a connector fails: start_error and exit(1).
RunnerFails(p) ==
  /\ proc[p].st = "starting"
  /\ proc' = [proc EXCEPT ![p] = [Dead(@) EXCEPT !.out = "error"]]
  /\ UNCHANGED <<active, cmd, stored, environment>>

\* The orchestrator forks an agent.
KidStarts(p) ==
  /\ proc[p].st \in {"starting", "ready"} /\ proc[p].kid = "none"
  /\ Event
  /\ proc' = [proc EXCEPT ![p].kid = "live"]
  /\ UNCHANGED <<active, cmd, stored, keyOf>>

\* An agent's turn ends and its conversation is saved; an orphan has then
\* nothing left to do.
KidWrites(p) ==
  /\ proc[p].kid # "none"
  /\ stored' = [stored EXCEPT ![proc[p].key] = @ \cup {p}]
  /\ proc' = [proc EXCEPT ![p].kid = IF @ = "orphan" THEN "none" ELSE @]
  /\ UNCHANGED <<active, cmd, environment>>

\* A turn's tool asks for a restart: the runner sends itself a SIGTERM.
RequestRestart(p) ==
  /\ proc[p].st \in {"ready", "stopping"} /\ ~proc[p].restart
  /\ Event
  /\ proc' = [proc EXCEPT ![p] = Signalled([@ EXCEPT !.restart = TRUE])]
  /\ UNCHANGED <<keyOf, active, cmd, stored>>

\* runLifecycle ends with the first connector, in order or by an error.
ConnectorEnds(p, broken) ==
  /\ proc[p].st = "ready"
  /\ Event
  /\ proc' = [proc EXCEPT ![p].st = "stopping", ![p].broken = broken]
  /\ UNCHANGED <<keyOf, active, cmd, stored>>

\* Connectors and agents are down.
Stopped(p) ==
  /\ proc[p].st = "stopping"
  /\ proc' = [proc EXCEPT ![p] =
       [(IF @.restart /\ ~@.broken THEN [@ EXCEPT !.st = "replacing"] ELSE Dead(@))
        EXCEPT !.kid = "none"]]
  /\ UNCHANGED <<active, cmd, stored, environment>>

\* spawnReplacementRunner: for the key that the bundle gives by now.
Replace(p, q) ==
  /\ proc[p].st = "replacing" /\ proc[p].next = None
  /\ NextFree(q)
  /\ proc' = [proc EXCEPT ![q] = Forked(keyOf[proc[p].swarm], proc[p].swarm, p, TRUE),
                          ![p].next = q]
  /\ UNCHANGED <<active, cmd, stored, environment>>

ReplacementReady(p) ==
  LET q == proc[p].next IN
  /\ proc[p].st = "replacing" /\ q # None
  /\ proc[q].out = "ready"
  /\ proc' = [proc EXCEPT ![q].out = "none", ![q].by = None, ![p].st = "recording"]
  /\ UNCHANGED <<active, cmd, stored, environment>>

\* It reported an error, it died, or REPLACEMENT_STARTUP_TIMEOUT_MS is over.
ReplacementFails(p) ==
  /\ proc[p].st = "replacing" /\ proc[p].next # None
  /\ proc' = SigKill({p, proc[p].next}, {})
  /\ UNCHANGED <<active, cmd, stored, environment>>

Record(p) ==
  LET q == proc[p].next IN
  /\ proc[p].st = "recording"
  /\ active' = [key |-> proc[q].key, swarm |-> proc[q].swarm, pid |-> q]
  /\ proc' = [proc EXCEPT ![p] = Dead(@)]
  /\ UNCHANGED <<cmd, stored, environment>>

Crash(p) ==
  /\ Runs(p)
  /\ Event
  /\ proc' = [proc EXCEPT ![p] = Dead(@)]
  /\ UNCHANGED <<keyOf, active, cmd, stored>>

\* The processes that are not reaped before someone has heard of their end, and those
\* that a delete has looked at and is about to kill: that an id is used again within
\* these 550 ms is left out.
Watched(p) ==
  \/ \E c \in Commands : \/ cmd[c].pc = "waiting" /\ cmd[c].child = p
                         \/ cmd[c].pc \in {"signal", "drain"} /\ p \in cmd[c].tree
  \/ \E q \in Pids : Runs(q) /\ proc[q].next = p

\* The system gives the id of a process that is gone to another.
Reuse(p, stranger) ==
  /\ proc[p].st = "dead" /\ proc[p].kid = "none"
  /\ ~Watched(p)
  /\ Event
  /\ proc' = [proc EXCEPT ![p].st = stranger]
  /\ UNCHANGED <<keyOf, active, cmd, stored>>

\* The bundle is edited.
Edit(s, k) ==
  /\ keyOf[s] # k
  /\ Event
  /\ keyOf' = [keyOf EXCEPT ![s] = k]
  /\ UNCHANGED <<active, proc, cmd, stored>>

-----------------------------------------------------------------------------
(* The specification *)

RunStep(c) == ReadToRun(c) \/ HearReady(c) \/ HearFailure(c) \/ StartupTimeout(c)
                \/ WriteActive(c) \/ \E p \in Pids : Fork(c, p)
RestartStep(c) == ReadToRestart(c) \/ Terminate(c) \/ GraceEnds(c) \/ Clear(c)
DeleteStep(c) == ReadToDelete(c) \/ Check(c) \/ SignalTree(c) \/ Drain(c) \/ Unlink(c)
                   \/ List(c) \/ Each(c) \/ Remove(c)
Step(c) == RunStep(c) \/ RestartStep(c) \/ DeleteStep(c)

RunnerStep(p) ==
  \/ RunnerReady(p) \/ RunnerFails(p) \/ KidStarts(p) \/ KidWrites(p)
  \/ RequestRestart(p) \/ ConnectorEnds(p, TRUE) \/ ConnectorEnds(p, FALSE)
  \/ Stopped(p) \/ (\E q \in Pids : Replace(p, q))
  \/ ReplacementReady(p) \/ ReplacementFails(p) \/ Record(p) \/ Crash(p)
  \/ \E stranger \in Strangers : Reuse(p, stranger)

Next ==
  \/ \E c \in Commands :
       \/ \E s \in Swarms, fg \in BOOLEAN : Run(c, s, fg)
       \/ \E fresh \in BOOLEAN : Restart(c, fresh)
       \/ \E k \in Keys : Delete(c, k)
       \/ Step(c)
  \/ \E p \in Pids : RunnerStep(p)
  \/ \E s \in Swarms, k \in Keys : Edit(s, k)

Spec == Init /\ [][Next]_vars

\* The timers and system calls of a command come to an end; nothing is assumed
\* of the runners it waits for.
FairSpec == Spec /\ \A c \in Commands : WF_vars(Step(c))

-----------------------------------------------------------------------------
(* What must hold *)

\* active.json only names a runner that has reported ready under the key the
\* file gives, so a start that fails is never recorded (runtime.ts:497-548,
\* runtime-runner.ts:540-612).
ActiveWasReady ==
  active # None =>
    /\ proc[active.pid].wasReady
    /\ proc[active.pid].key = active.key

\* Commands that run at once and runners that replace each other leave
\* active.json with nothing that has not been up.
ActiveIsSound == TypeOK /\ ActiveWasReady

\* When `gdn instance delete` reports success, no runner of the key is left that
\* ran when it began, recorded in active.json or not, whatever took its place in
\* the file meanwhile.  If the one ps -ax that lists them has failed, that much is
\* true of the runner of active.json (instances.ts:532-602).
DeletedIsGone ==
  [][\A c \in Commands :
       cmd[c].op = "delete" /\ cmd'[c].pc = "done" =>
         LET sought == IF cmd[c].blind THEN {cmd[c].prev} ELSE Pids
         IN cmd[c].before \cap sought \cap Managed(cmd[c].key) = {}]_vars

\* `gdn instance delete` never signals a process that does not look like a runner of the
\* key, though the id in a stale active.json may be one's (instances.ts:389-392).
DeleteSparesOthers ==
  [][\A p \in Pids :
       proc[p].st = "other" /\ proc'[p].st # "other" =>
         \E c \in Commands : cmd[c].op = "restart" /\ cmd[c].pc \in {"term", "grace"}]_vars

\* Whatever the runner does, each command comes to its end.  Fork needs a
\* process that is free, which the model may run out of.
CommandsReturn ==
  \A c \in Commands :
    Busy(c) ~> (Over(c) \/ \A p \in Pids : proc[p].st # "free")

\* docs/specs/cli.md:204: a runner of the key that runs is used again, no second
\* one is forked.  (Refuted by swarms that take turns in active.json.)
SameKeyIsReused ==
  [][\A c \in Commands :
       cmd[c].op = "run" /\ cmd[c].pc = "fork" /\ cmd'[c].pc = "waiting" =>
         \A p \in Managed(cmd[c].key) : proc[p].st # "ready"]_vars

\* docs/specs/cli.md:473: after `restart --fresh` nothing of an earlier runner is
\* in the store.  (Refuted: an agent of a killed runner ends its turn later.)
FreshIsEmpty ==
  [][\A c \in Commands :
       cmd[c].op = "restart" /\ cmd[c].fresh /\ cmd'[c].pc = "done" =>
         cmd[c].prev \notin stored[cmd[c].key]]_vars

\* docs/specs/cli.md:310: the replacement is up before the old one is told to go,
\* so a restart that fails leaves one running.  (Refuted: the old one goes first.)
FailedRestartLeavesOne ==
  [][\A c \in Commands :
       cmd[c].pc = "waiting" /\ cmd[c].op = "restart" /\ cmd'[c].pc = "failed" =>
         Alive(cmd[c].prev)]_vars

\* docs/specs/cli.md:488: a delete finds the runners of the key and ends them, in
\* active.json or not.  (Refuted: a ps that fails is a list of none, and success.)
DeleteFindsRunners ==
  [][\A c \in Commands :
       cmd[c].op = "delete" /\ cmd'[c].pc = "done" =>
         cmd[c].before \cap Managed(cmd[c].key) = {}]_vars

\* docs/specs/cli.md:488: the children of the runners it ends do not survive them.
\* (Refuted: an agent is forked after the listing, by a runner that leads no group.)
DeleteLeavesNoOrphan ==
  [][\A c \in Commands :
       cmd[c].pc = "drain" /\ cmd'[c].pc # "drain" =>
         \A p \in cmd[c].tree : proc'[p].kid # "orphan"]_vars

\* test/instances-store.test.ts:479: a delete stops where the process of active.json is
\* not one of the key.  (Refuted: a runner of another is, if it has the key in its line.)
DeleteSparesRunners ==
  [][\A c \in Commands :
       cmd[c].pc = "check" /\ ~cmd[c].listed /\ cmd'[c].pc = "signal" =>
         cmd[c].prev \in Managed(cmd[c].key)]_vars
=============================================================================

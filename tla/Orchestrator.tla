---------------------------- MODULE Orchestrator ----------------------------
(***************************************************************************)
(* OrchestratorImpl (packages/runtime/src/orchestrator/orchestrator.ts):   *)
(* the supervisor that forks one process per agent instance, respawns the  *)
(* crashed ones with a backoff, drains them on restart and on shutdown.    *)
(*                                                                         *)
(* The code is one JavaScript event loop.  A handler runs to its end or to *)
(* its next await before another starts; the asynchronous methods          *)
(* (reconcile, restart, shutdown) are tasks that give up the loop only     *)
(* while they await gracefulShutdown.  Events (exit, message, timer) wait  *)
(* until no task is running and no continuation is queued: Quiet.          *)
(*                                                                         *)
(* A slot is one AgentRuntimeState object, numbered in creation order,     *)
(* which is the insertion order of the agentState map; the map itself is   *)
(* the set of slots it still holds.                                        *)
(***************************************************************************)
EXTENDS Integers, FiniteSets

CONSTANTS
  Agents,            \* agent names a message can be addressed to
  Instances,         \* instance keys
  DefaultInstance,   \* the key "default"
  Desired,           \* options.desiredAgents
  Connectors,        \* options.desiredConnectors
  Reconciles,        \* reconcile() calls that can be in flight together
  Restarts,          \* restart()/reloadAndRestartAll() calls, likewise
  Stopper,           \* the one shutdown() call
  Stoppable,         \* agents whose handle.shutdown() a caller may use
  CrashThreshold, InitialBackoff, MaxBackoff,
  MaxExponent,       \* bound: doublings after which the backoff is MaxBackoff
  MaxSlots,          \* bound: AgentRuntimeState objects ever created
  Procs,             \* bound: operating-system processes at one time
  NoProc             \* state.process === null

ASSUME NamesAssumption ==
  /\ Desired \subseteq Agents
  /\ Stoppable \subseteq Agents
  /\ DefaultInstance \in Instances

ASSUME ProcsAssumption == NoProc \notin Procs

ASSUME TasksAssumption ==
  /\ Reconciles \cap Restarts = {}
  /\ Stopper \notin Reconciles \cup Restarts

ASSUME NumbersAssumption ==
  /\ CrashThreshold \in Nat /\ InitialBackoff \in Nat /\ MaxBackoff \in Nat
  /\ MaxExponent \in Nat /\ MaxSlots \in Nat

ASSUME DoublingAssumption ==
  /\ \A n \in 0..MaxExponent : 2^n \in Nat
  /\ InitialBackoff * 2^MaxExponent >= MaxBackoff

VARIABLES
  agentState,  \* the slots the agentState (and agents) map holds
  slot,        \* the AgentRuntimeState objects
  nslots,      \* how many of them exist
  proc,        \* the forked agent processes
  conn,        \* connectorState, per connector name
  task,        \* the asynchronous calls in flight
  timerOn      \* reconcileTimer is armed

vars == <<agentState, slot, nslots, proc, conn, task, timerOn>>

-----------------------------------------------------------------------------
(* Values *)

Tasks == Reconciles \cup Restarts \cup {Stopper}
SlotIds == 1..MaxSlots
Keys == Agents \X Instances
NoKey == <<>>
NoDeadline == -1   \* state.nextSpawnAllowedAt === undefined
MaxCrashes == CrashThreshold + 1 + MaxExponent

\* "spawning" and "processing" are never seen from outside spawnIntoState.
Statuses == {"idle", "draining", "terminated", "crashed", "crashLoopBackOff"}
CrashStatuses == {"crashed", "crashLoopBackOff"}

\* nextSpawnAllowedAt is kept as the time left until it.
Slot == [key : Keys \cup {NoKey}, status : Statuses, crashes : 0..MaxCrashes,
         wait : 0..MaxBackoff \cup {NoDeadline}, process : Procs \cup {NoProc},
         drain : BOOLEAN]

\* up: the exit event has not been handled yet.  told: shutdown was sent.
\* ack: its shutdown_ack, which may still be in the channel after the exit.
\* signalled: SIGTERM or SIGKILL was sent; the runner ignores neither.
Proc == [slot : 0..MaxSlots, up : BOOLEAN, told : BOOLEAN,
         ack : {"none", "sent", "seen"}, signalled : BOOLEAN]

NotForked == [slot |-> 0, up |-> FALSE, told |-> FALSE, ack |-> "none",
              signalled |-> FALSE]

RunPcs == {"missing", "scan", "names", "each"}
Task == [pc : RunPcs \cup {"idle", "await", "ready", "done"},
         at : 0..MaxSlots, todo : SUBSET SlotIds, names : SUBSET Agents]

TypeOK ==
  /\ agentState \subseteq SlotIds
  /\ slot \in [SlotIds -> Slot]
  /\ nslots \in 0..MaxSlots
  /\ proc \in [Procs -> Proc]
  /\ conn \in [Connectors -> {"absent", "up", "down"}]
  /\ task \in [Tasks -> Task]
  /\ timerOn \in BOOLEAN

Init ==
  /\ agentState = {}
  /\ slot = [s \in SlotIds |-> [key |-> NoKey, status |-> "idle", crashes |-> 0,
              wait |-> NoDeadline, process |-> NoProc, drain |-> FALSE]]
  /\ nslots = 0
  /\ proc = [p \in Procs |-> NotForked]
  /\ conn = [c \in Connectors |-> "absent"]
  /\ task = [t \in Tasks |-> [pc |-> "idle", at |-> 0, todo |-> {}, names |-> {}]]
  /\ timerOn = TRUE

-----------------------------------------------------------------------------
(* The event loop *)

NoneRunning == \A t \in Tasks : task[t].pc \notin RunPcs
Quiet == NoneRunning /\ \A t \in Tasks : task[t].pc # "ready"

Goto(t, pc) == task' = [task EXCEPT ![t].pc = pc]
Finish(t, pc) == task' = [task EXCEPT ![t].pc = pc, ![t].at = 0]

\* The next entry a live iteration over the map yields after slot `at`.
IsNext(n, at) ==
  /\ n \in agentState /\ n > at
  /\ \A m \in agentState : m > at => n <= m

Exhausted(at) == \A n \in agentState : n <= at

-----------------------------------------------------------------------------
(* Spawning *)

Free(p) == ~proc[p].up /\ proc[p].ack # "sent"

AgentOf(s) == IF slot[s].key = NoKey THEN NoKey ELSE slot[s].key[1]
\* Mutant: a slot whose process has exited is not found again.
HasRunning(key) == \E s \in agentState : slot[s].key = key /\ slot[s].process # NoProc
Has(key) == \E s \in agentState : slot[s].key = key

\* spawnIntoState: a fresh process; any earlier one is just forgotten.
Started(st, p) == [st EXCEPT !.process = p, !.wait = NoDeadline, !.status = "idle"]
Forked(s) == [slot |-> s, up |-> TRUE, told |-> FALSE, ack |-> "none", signalled |-> FALSE]

SpawnIntoState(s, st) ==
  \E p \in Procs :
    /\ Free(p)
    /\ slot' = [slot EXCEPT ![s] = Started(st, p)]
    /\ proc' = [proc EXCEPT ![p] = Forked(s)]

\* spawn for a key at which nothing is found: Map.set replaces what it held.
SpawnNew(key) ==
  LET s == nslots + 1 IN
  /\ nslots < MaxSlots
  /\ SpawnIntoState(s, [slot[s] EXCEPT !.key = key])
  /\ nslots' = s
  /\ agentState' = {u \in agentState : slot[u].key # key} \cup {s}

\* spawn for a key the map holds: only a slot without a process is filled,
\* whatever its status and however far its deadline.
SpawnExisting(key) ==
  \E s \in agentState :
    /\ slot[s].key = key
    /\ slot[s].process = NoProc
    /\ SpawnIntoState(s, slot[s])
    /\ UNCHANGED <<agentState, nslots>>

Spawn(key) == IF Has(key) THEN SpawnExisting(key) ELSE SpawnNew(key)

\* route: an event addressed to key makes the target exist.  Its sender is a
\* process that is up; what the event says is the business of other modules.
Route(key) ==
  /\ Quiet
  /\ \E p \in Procs : proc[p].up
  /\ Spawn(key)
  /\ UNCHANGED <<conn, task, timerOn>>

-----------------------------------------------------------------------------
(* Graceful shutdown of one slot *)

ResetCrashTracking(st) == [st EXCEPT !.crashes = 0, !.wait = NoDeadline]

\* The synchronous part of gracefulShutdown(s).
GracefulShutdown(s) ==
  \/ /\ slot[s].process = NoProc
     /\ slot' = [slot EXCEPT ![s] = ResetCrashTracking([@ EXCEPT !.status = "terminated"])]
     /\ UNCHANGED proc
  \/ /\ slot[s].process # NoProc /\ slot[s].drain
     /\ UNCHANGED <<slot, proc>>
  \/ /\ slot[s].process # NoProc /\ ~slot[s].drain
     /\ slot' = [slot EXCEPT ![s].status = "draining", ![s].drain = TRUE]
     /\ proc' = [proc EXCEPT ![slot[s].process].told = TRUE]

\* Task t calls gracefulShutdown(s) and awaits it.
AwaitShutdown(t, s, todo) ==
  /\ GracefulShutdown(s)
  /\ task' = [task EXCEPT ![t].at = s, ![t].todo = todo,
                ![t].pc = IF slot[s].process = NoProc THEN "ready" ELSE "await"]

\* handle.shutdown(): the same without a task behind it.
HandleShutdown(s) ==
  /\ Quiet
  /\ s \in agentState /\ AgentOf(s) \in Stoppable
  /\ GracefulShutdown(s)
  /\ UNCHANGED <<agentState, nslots, conn, task, timerOn>>

\* Mutant: the promise releases only its first caller.
WakeOne(s) ==
  LET Awaits(t) == task[t].pc = "await" /\ task[t].at = s
      first == IF \E t \in Tasks : Awaits(t)
               THEN {CHOOSE t \in Tasks : Awaits(t)} ELSE {}
  IN task' = [t \in Tasks |-> IF t \in first THEN [task[t] EXCEPT !.pc = "ready"]
                              ELSE task[t]]

\* Resolving the promise queues the continuation of every task awaiting s.
Wake(s) ==
  task' = [t \in Tasks |-> IF task[t].pc = "await" /\ task[t].at = s
                           THEN [task[t] EXCEPT !.pc = "ready"] ELSE task[t]]

Signalled(s) ==
  [p \in Procs |-> IF p = slot[s].process THEN [proc[p] EXCEPT !.signalled = TRUE]
                   ELSE proc[p]]

Drained(st) == [st EXCEPT !.status = "terminated", !.process = NoProc, !.drain = FALSE]

\* Mutant: the timer has nothing to do once the process has exited.
GraceTimeoutIfHeld(s) ==
  /\ Quiet
  /\ slot[s].drain /\ slot[s].process # NoProc
  /\ slot' = [slot EXCEPT ![s] = Drained(@)]
  /\ proc' = Signalled(s)
  /\ Wake(s)
  /\ UNCHANGED <<agentState, nslots, conn, timerOn>>

\* The grace timer.  The process it kills is whichever the slot holds now.
GraceTimeout(s) ==
  /\ Quiet
  /\ slot[s].drain
  /\ slot' = [slot EXCEPT ![s] = Drained(@)]
  /\ proc' = Signalled(s)
  /\ Wake(s)
  /\ UNCHANGED <<agentState, nslots, conn, timerOn>>

\* handleShutdownAck: the slot is looked up by the sender's agent and instance,
\* so an ack can meet a later shutdown of the same key.
HandleShutdownAck(p) ==
  LET key == slot[proc[p].slot].key
      Heard(pr) == IF pr.up THEN [pr EXCEPT !.ack = "seen"] ELSE NotForked
  IN
  /\ Quiet
  /\ proc[p].ack = "sent"
  /\ \/ \E s \in agentState :
          /\ slot[s].key = key /\ slot[s].drain
          /\ slot' = [slot EXCEPT ![s] = ResetCrashTracking(Drained(@))]
          /\ proc' = [Signalled(s) EXCEPT ![p] = Heard(@)]
          /\ Wake(s)
     \/ /\ \A s \in agentState : slot[s].key = key => ~slot[s].drain
        /\ proc' = [proc EXCEPT ![p] = Heard(@)]
        /\ UNCHANGED <<slot, task>>
  /\ UNCHANGED <<agentState, nslots, conn, timerOn>>

-----------------------------------------------------------------------------
(* The agent process and its exit event *)

\* Once drained, the agent sends shutdown_ack.  It may also never do so.
SendShutdownAck(p) ==
  /\ Quiet
  /\ proc[p].up /\ proc[p].told /\ proc[p].ack = "none"
  /\ proc' = [proc EXCEPT ![p].ack = "sent"]
  /\ UNCHANGED <<agentState, slot, nslots, conn, task, timerOn>>

\* Mutant: no Math.min.
BackoffUncapped(crashes) ==
  LET exponent == crashes - CrashThreshold - 1
  IN InitialBackoff * (IF exponent <= 0 THEN 1 ELSE 2^exponent)

\* calculateBackoffMs
Backoff(crashes) ==
  LET exponent == crashes - CrashThreshold - 1
      ms == InitialBackoff * (IF exponent <= 0 THEN 1 ELSE 2^exponent)
  IN IF ms <= MaxBackoff THEN ms ELSE MaxBackoff

\* Mutant: a crash leaves the process in the slot.
CrashHolding(st) ==
  LET n == IF st.crashes < MaxCrashes THEN st.crashes + 1 ELSE st.crashes IN
  IF n > CrashThreshold
  THEN [st EXCEPT !.crashes = n, !.status = "crashLoopBackOff", !.wait = Backoff(n)]
  ELSE [st EXCEPT !.crashes = n, !.status = "crashed"]

\* consecutiveCrashes saturates at MaxCrashes: from there on the backoff is
\* MaxBackoff whatever the count.
Crash(st) ==
  LET n == IF st.crashes < MaxCrashes THEN st.crashes + 1 ELSE st.crashes IN
  IF n > CrashThreshold
  THEN [st EXCEPT !.process = NoProc, !.crashes = n,
                  !.status = "crashLoopBackOff", !.wait = Backoff(n)]
  ELSE [st EXCEPT !.process = NoProc, !.crashes = n, !.status = "crashed"]

\* Mutant: the early return comes before process = null.
OnExitEarly(st, clean) ==
  IF st.status \in {"draining", "terminated"}
  THEN ResetCrashTracking([st EXCEPT !.status = "terminated"])
  ELSE IF clean
  THEN ResetCrashTracking([st EXCEPT !.process = NoProc, !.status = "terminated"])
  ELSE Crash(st)

\* onExit: whatever process the slot holds by now, it is forgotten.
OnExit(st, clean) ==
  IF st.status \in {"draining", "terminated"} \/ clean
  THEN ResetCrashTracking([st EXCEPT !.process = NoProc, !.status = "terminated"])
  ELSE Crash(st)

\* What is left of an exited process: the ack still in its channel.
Exited(pr) ==
  IF pr.ack = "sent" THEN [NotForked EXCEPT !.ack = "sent", !.slot = pr.slot]
  ELSE NotForked

\* The exit event of p.  Code 0 only ends a drain; a crash, a signal and a
\* failed saveAll all count as a crash.
ProcessExit(p, clean) ==
  /\ Quiet
  /\ proc[p].up
  /\ clean => proc[p].told
  /\ slot' = [slot EXCEPT ![proc[p].slot] = OnExit(@, clean)]
  /\ proc' = [proc EXCEPT ![p] = Exited(@)]
  /\ UNCHANGED <<agentState, nslots, conn, task, timerOn>>

\* The exit event of a connector process.
ConnectorExit(c) ==
  /\ Quiet
  /\ conn[c] = "up"
  /\ conn' = [conn EXCEPT ![c] = "down"]
  /\ UNCHANGED <<agentState, slot, nslots, proc, task, timerOn>>

\* Time passes: every deadline comes one unit closer.
Tick ==
  /\ Quiet
  /\ \E s \in SlotIds : slot[s].wait > 0
  /\ slot' = [s \in SlotIds |-> IF slot[s].wait > 0
                                THEN [slot[s] EXCEPT !.wait = @ - 1] ELSE slot[s]]
  /\ UNCHANGED <<agentState, nslots, proc, conn, task, timerOn>>

-----------------------------------------------------------------------------
(* reconcile() *)

\* The interval timer starts a pass, also while an earlier one still awaits.
\* Connectors without a process are spawned in the same synchronous section.
ReconcileStart(t) ==
  /\ Quiet /\ timerOn
  /\ task[t].pc = "idle"
  /\ conn' = [c \in Connectors |-> "up"]
  /\ task' = [task EXCEPT ![t].pc = "missing", ![t].at = 0]
  /\ UNCHANGED <<agentState, slot, nslots, proc, timerOn>>

Missing == {a \in Desired : \A s \in agentState : AgentOf(s) # a}

ReconcileMissing(t) ==
  /\ task[t].pc = "missing"
  /\ \/ /\ \E a \in Missing : Spawn(<<a, DefaultInstance>>)
        /\ UNCHANGED task
     \/ /\ Missing = {}
        /\ Goto(t, "scan")
        /\ UNCHANGED <<agentState, slot, nslots, proc>>
  /\ UNCHANGED <<conn, timerOn>>

\* Mutant: a passed deadline still counts as a deadline.
DueWithoutDeadline(s) == slot[s].status \in CrashStatuses /\ slot[s].wait = NoDeadline

\* A crashed slot whose deadline has passed, or that has none.
Due(s) == slot[s].status \in CrashStatuses /\ slot[s].wait <= 0

ReconcileSlot(t, s) ==
  /\ task[t].pc = "scan"
  /\ IsNext(s, task[t].at)
  /\ \/ /\ AgentOf(s) \notin Desired
        /\ AwaitShutdown(t, s, {})
     \/ /\ AgentOf(s) \in Desired /\ Due(s)
        /\ SpawnIntoState(s, slot[s])
        /\ task' = [task EXCEPT ![t].at = s]
     \/ /\ AgentOf(s) \in Desired /\ ~Due(s)
        /\ task' = [task EXCEPT ![t].at = s]
        /\ UNCHANGED <<slot, proc>>
  /\ UNCHANGED <<agentState, nslots, conn, timerOn>>

\* The continuation: the key is deleted, whatever slot it names by now.
ReconcileResume(t) ==
  /\ NoneRunning
  /\ task[t].pc = "ready"
  /\ agentState' = {s \in agentState : slot[s].key # slot[task[t].at].key}
  /\ Goto(t, "scan")
  /\ UNCHANGED <<slot, nslots, proc, conn, timerOn>>

ReconcileEnd(t) ==
  /\ task[t].pc = "scan"
  /\ Exhausted(task[t].at)
  /\ Finish(t, "idle")
  /\ UNCHANGED <<agentState, slot, nslots, proc, conn, timerOn>>

ReconcileStep(t) ==
  \/ ReconcileMissing(t)
  \/ \E s \in SlotIds : ReconcileSlot(t, s)
  \/ ReconcileResume(t)
  \/ ReconcileEnd(t)

-----------------------------------------------------------------------------
(* restart(agentName) and reloadAndRestartAll() *)

RestartStart(t, names) ==
  /\ Quiet
  /\ task[t].pc = "idle"
  /\ names # {}
  /\ \/ \E a \in Agents : names = {a}
     \/ names = {AgentOf(s) : s \in agentState}
  /\ task' = [task EXCEPT ![t].pc = "names", ![t].names = names]
  /\ UNCHANGED <<agentState, slot, nslots, proc, conn, timerOn>>

\* The slots of one name are collected before the first of them is drained.
RestartName(t) ==
  /\ task[t].pc = "names"
  /\ \/ \E a \in task[t].names :
          task' = [task EXCEPT ![t].pc = "each", ![t].names = @ \ {a},
                     ![t].todo = {s \in agentState : AgentOf(s) = a}]
     \/ /\ task[t].names = {}
        /\ Finish(t, "idle")
  /\ UNCHANGED <<agentState, slot, nslots, proc, conn, timerOn>>

RestartSlot(t) ==
  /\ task[t].pc = "each"
  /\ \/ \E s \in task[t].todo :
          /\ \A m \in task[t].todo : s <= m
          /\ AwaitShutdown(t, s, task[t].todo \ {s})
     \/ /\ task[t].todo = {}
        /\ Goto(t, "names")
        /\ UNCHANGED <<slot, proc>>
  /\ UNCHANGED <<agentState, nslots, conn, timerOn>>

RestartResume(t) ==
  /\ NoneRunning
  /\ task[t].pc = "ready"
  /\ SpawnIntoState(task[t].at, [slot[task[t].at] EXCEPT !.crashes = 0])
  /\ Goto(t, "each")
  /\ UNCHANGED <<agentState, nslots, conn, timerOn>>

RestartStep(t) == RestartName(t) \/ RestartSlot(t) \/ RestartResume(t)

-----------------------------------------------------------------------------
(* shutdown() *)

ShutdownStart ==
  /\ Quiet
  /\ task[Stopper].pc = "idle"
  /\ timerOn' = FALSE
  /\ task' = [task EXCEPT ![Stopper].pc = "scan", ![Stopper].at = 0]
  /\ UNCHANGED <<agentState, slot, nslots, proc, conn>>

ShutdownSlot(s) ==
  /\ task[Stopper].pc = "scan"
  /\ IsNext(s, task[Stopper].at)
  /\ AwaitShutdown(Stopper, s, {})
  /\ UNCHANGED <<agentState, nslots, conn, timerOn>>

ShutdownResume ==
  /\ NoneRunning
  /\ task[Stopper].pc = "ready"
  /\ Goto(Stopper, "scan")
  /\ UNCHANGED <<agentState, slot, nslots, proc, conn, timerOn>>

ShutdownEnd ==
  /\ task[Stopper].pc = "scan"
  /\ Exhausted(task[Stopper].at)
  /\ Finish(Stopper, "done")
  /\ conn' = [c \in Connectors |-> IF conn[c] = "up" THEN "down" ELSE conn[c]]
  /\ UNCHANGED <<agentState, slot, nslots, proc, timerOn>>

ShutdownStep == (\E s \in SlotIds : ShutdownSlot(s)) \/ ShutdownResume \/ ShutdownEnd

-----------------------------------------------------------------------------
(* The specification *)

Next ==
  \/ \E key \in Keys : Route(key)
  \/ \E s \in SlotIds : HandleShutdown(s) \/ GraceTimeout(s)
  \/ \E p \in Procs :
       \/ SendShutdownAck(p)
       \/ HandleShutdownAck(p)
       \/ \E clean \in BOOLEAN : ProcessExit(p, clean)
  \/ \E c \in Connectors : ConnectorExit(c)
  \/ Tick
  \/ \E t \in Reconciles : ReconcileStart(t) \/ ReconcileStep(t)
  \/ \E t \in Restarts :
       (\E names \in SUBSET Agents : RestartStart(t, names)) \/ RestartStep(t)
  \/ ShutdownStart
  \/ ShutdownStep

Spec == Init /\ [][Next]_vars

\* What the host guarantees: a running or queued task goes on, and timers that
\* are due (grace, interval, time itself) fire although other events keep
\* coming in between.  Nothing is assumed of the agent processes.
Fairness ==
  /\ \A t \in Reconciles : WF_vars(ReconcileStep(t))
  /\ \A t \in Restarts : WF_vars(RestartStep(t))
  /\ WF_vars(ShutdownStep)
  /\ SF_vars(\E t \in Reconciles : ReconcileStart(t))
  /\ \A s \in SlotIds : SF_vars(GraceTimeout(s))
  /\ SF_vars(Tick)

FairSpec == Spec /\ Fairness

-----------------------------------------------------------------------------
(* Safety *)

\* A slot counted as crashed holds no process.  reconcile() spawns into such a
\* slot without looking, so a process it still held would be leaked.
CrashedIsVacant ==
  \A s \in SlotIds : slot[s].status \in CrashStatuses => slot[s].process = NoProc

\* A slot shown as draining has both a process to drain and a grace timer, so
\* no slot is left draining by an exit, an ack or a timeout that came first.
DrainingIsArmed ==
  \A s \in SlotIds :
    slot[s].status = "draining" => slot[s].drain /\ slot[s].process # NoProc

\* A slot in backoff has crashed more than crashThreshold times in a row and has
\* a deadline, so that reconcile() can neither respawn it at once nor forget it.
BackoffHasDeadline ==
  \A s \in SlotIds : slot[s].status = "crashLoopBackOff" =>
    slot[s].crashes > CrashThreshold /\ slot[s].wait # NoDeadline

\* What the status of a slot promises to the code that reads it later, whichever
\* of the exit, the ack, the timer and the respawn came first.
SlotsAgree == CrashedIsVacant /\ DrainingIsArmed /\ BackoffHasDeadline

\* The process a slot holds is one that was forked for it and whose exit has not
\* been seen: send() and kill() never reach a dead or a foreign process.
HeldIsLive ==
  \A s \in SlotIds : slot[s].process # NoProc =>
    proc[slot[s].process].up /\ proc[slot[s].process].slot = s

\* No lost wake-up: whoever awaits a graceful shutdown, of a slot that may have
\* crashed, been respawned or been deleted meanwhile, still has a timer ahead.
AwaitIsArmed ==
  \A t \in Tasks : task[t].pc = "await" => task[t].at # 0 /\ slot[task[t].at].drain

\* The object of a wanted agent stays in the map, with its crash count and its
\* deadline, and every call that awaits it keeps looking at the same object: what
\* reconcile() deletes after an await (orchestrator.ts:198), and what route() and
\* reconcile() create (orchestrator.ts:86-111), is never an agent of the swarm
\* that has crashed, been drained or been respawned meanwhile.
WantedIsKept ==
  \A s \in 1..nslots : AgentOf(s) \in Desired => s \in agentState

-----------------------------------------------------------------------------
(* What the specification documents say and the code does not do: TLC        *)
(* refutes each of these on the constants of the safety run.                 *)

\* docs/specs/runtime.md:309: the orchestrator's own process map is the actual state,
\* and as it forks every process and receives every exit it always knows the exact
\* state.  The exit of a drained process, handled after its successor was forked,
\* empties the slot (orchestrator.ts:498-499): the successor runs on, held by nobody.
ProcessMapIsActual ==
  task[Stopper].pc = "idle" =>
    \A p \in Procs : proc[p].up /\ ~proc[p].signalled
      => \E s \in agentState : slot[s].process = p

\* docs/specs/runtime.md 4.5 rule 5: no respawn of a slot in crashLoopBackOff
\* before nextSpawnAllowedAt.  route() respawns it as soon as a message comes.
BackoffIsHonoured ==
  [][\A s \in SlotIds : slot[s].status = "crashLoopBackOff" /\ slot[s].wait > 0
       => slot'[s].process = NoProc]_vars

\* docs/specs/runtime.md 2.1 rule 8: no child outlives the orchestrator.  A
\* message still in flight forks a process after shutdown() has returned.
NoChildOutlivesShutdown ==
  task[Stopper].pc = "done" => \A p \in Procs : proc[p].up => proc[p].signalled

\* docs/specs/runtime.md 4.6 rule 1: shutdown first, kill later.  A grace timer
\* armed for an exited process kills the one that was forked in its place.
ShutdownBeforeKill ==
  [][\A p \in Procs : proc'[p].signalled /\ ~proc[p].signalled => proc[p].told]_vars

\* docs/specs/runtime.md 4.5 rule 3: what is not wanted does not keep running.
\* restart() refills a slot that reconcile() deletes in the same turn of the loop.
DroppedHoldsNothing ==
  \A s \in 1..nslots : s \notin agentState => slot[s].process = NoProc

\* docs/specs/runtime.md 4.5 rule 4 gives the exponent as crashes - 1.
DocumentedBackoff ==
  [][\A s \in SlotIds :
       slot[s].status # "crashLoopBackOff" /\ slot'[s].status = "crashLoopBackOff"
       => LET ms == InitialBackoff * 2^(slot'[s].crashes - 1)
          IN slot'[s].wait = IF ms <= MaxBackoff THEN ms ELSE MaxBackoff]_vars

-----------------------------------------------------------------------------
(* Liveness, under FairSpec *)

Stopping == task[Stopper].pc # "idle"

\* Bound: the loop is about to fork, and Procs or MaxSlots has nothing left.  This
\* is the end of the behaviour, as every event waits for the loop.
OutOfRoom ==
  LET noProc == \A p \in Procs : ~Free(p)
      forks(t) == \E s \in SlotIds : IsNext(s, task[t].at) /\ AgentOf(s) \in Desired /\ Due(s)
  IN \/ \E t \in Reconciles :
          \/ task[t].pc = "missing" /\ Missing # {} /\ (noProc \/ nslots = MaxSlots)
          \/ task[t].pc = "scan" /\ forks(t) /\ noProc
     \/ \E t \in Restarts : task[t].pc = "ready" /\ noProc

\* shutdown() returns, though it awaits one grace timer after another, messages
\* add slots meanwhile and reconciliations are under way.
ShutdownReturns == Stopping ~> (task[Stopper].pc = "done" \/ OutOfRoom)

\* A crashed agent the swarm wants is given a process again, whatever its backoff
\* (docs/specs/runtime.md:316).  It holds as long as nobody calls restart():
\* then the late exit of the process that was replaced, with code 0, can mark the
\* crashed slot terminated, and reconcile() never looks at it again.
CrashedComesBack ==
  \A key \in Desired \X Instances :
    LET own == {s \in agentState : slot[s].key = key}
        crashed == \E s \in own : slot[s].status \in CrashStatuses
        running == \E s \in own : slot[s].process # NoProc
    IN crashed ~> (running \/ Stopping \/ OutOfRoom)

\* An agent the swarm does not want is drained and dropped from the map.
UndesiredIsDropped ==
  \A key \in (Agents \ Desired) \X Instances :
    Has(key) ~> (~Has(key) \/ Stopping \/ OutOfRoom)

\* reconcile() brings the swarm to what is wanted: crashed agents come back after
\* their backoff, and what is not wanted goes, although no process ever answers
\* and drains and other reconciliations are under way.
DesiredIsReached == CrashedComesBack /\ UndesiredIsDropped

=============================================================================

------------------------- MODULE OrchestratorProofs -------------------------
(* Proofs about Orchestrator for every value of its constants. *)
EXTENDS Orchestrator, TLAPS

SlotsOK == slot \in [SlotIds -> Slot]
ProcsOK == proc \in [Procs -> Proc]
TasksOK == task \in [Tasks -> Task]

-----------------------------------------------------------------------------
(* What the operators return *)

\* The backoff of a counted crash is a number of time units up to MaxBackoff.
LEMMA BackoffType ==
  ASSUME NEW n \in 0..MaxCrashes, n > CrashThreshold
  PROVE  Backoff(n) \in 0..MaxBackoff
<1> DEFINE e == n - CrashThreshold - 1
           factor == IF e <= 0 THEN 1 ELSE 2^e
<1>1. e \in 0..MaxExponent
  BY NumbersAssumption DEF MaxCrashes
<1>2. factor \in Nat
  BY <1>1, DoublingAssumption
<1>3. ASSUME NEW f \in Nat PROVE InitialBackoff * f \in Nat
  BY NumbersAssumption
<1>4. InitialBackoff * factor \in Nat
  BY <1>2, <1>3
<1>5. Backoff(n) = IF InitialBackoff * factor <= MaxBackoff
                   THEN InitialBackoff * factor ELSE MaxBackoff
  BY DEF Backoff
<1> QED BY <1>4, <1>5, NumbersAssumption

\* Counting a crash keeps the record well-formed, vacates it, and gives it a
\* deadline exactly when it enters crashLoopBackOff.
LEMMA CrashType ==
  ASSUME NEW st \in Slot
  PROVE  /\ Crash(st) \in Slot
         /\ Crash(st).process = NoProc
         /\ Crash(st).key = st.key /\ Crash(st).drain = st.drain
         /\ Crash(st).status \in CrashStatuses
         /\ Crash(st).status = "crashLoopBackOff" =>
              Crash(st).crashes > CrashThreshold /\ Crash(st).wait # NoDeadline
<1> DEFINE n == IF st.crashes < MaxCrashes THEN st.crashes + 1 ELSE st.crashes
<1>1. n \in 0..MaxCrashes
  BY NumbersAssumption DEF Slot, MaxCrashes
<1>2. n > CrashThreshold => Backoff(n) \in 0..MaxBackoff
  BY <1>1, BackoffType
<1>3. CASE n > CrashThreshold
  <2> DEFINE b == Backoff(n)
  <2>1. Crash(st) = [st EXCEPT !.process = NoProc, !.crashes = n,
                       !.status = "crashLoopBackOff", !.wait = b]
    BY <1>3 DEF Crash
  <2>2. b \in 0..MaxBackoff
    BY <1>2, <1>3
  <2> HIDE DEF n, b
  <2>3. Crash(st).crashes = n /\ Crash(st).wait = b
    BY <2>1 DEF Slot
  <2>4. Crash(st).wait # NoDeadline
    BY <2>2, <2>3, NumbersAssumption DEF NoDeadline
  <2>5. Crash(st) \in Slot
    BY <1>1, <2>1, <2>2 DEF Slot, Statuses
  <2> QED BY <1>3, <2>1, <2>3, <2>4, <2>5 DEF Slot, CrashStatuses
<1>4. CASE ~(n > CrashThreshold)
  <2>1. Crash(st) = [st EXCEPT !.process = NoProc, !.crashes = n, !.status = "crashed"]
    BY <1>4 DEF Crash
  <2> HIDE DEF n
  <2> QED BY <1>1, <2>1 DEF Slot, Statuses, CrashStatuses
<1> QED BY <1>3, <1>4

\* A counter that was reset.
LEMMA ZeroCrashes == 0 \in 0..MaxCrashes
  BY NumbersAssumption DEF MaxCrashes

\* Resetting the crash tracking touches the counter and the deadline only.
LEMMA ResetType ==
  ASSUME NEW st \in Slot
  PROVE  /\ ResetCrashTracking(st) \in Slot
         /\ ResetCrashTracking(st).key = st.key
         /\ ResetCrashTracking(st).status = st.status
         /\ ResetCrashTracking(st).process = st.process
         /\ ResetCrashTracking(st).drain = st.drain
<1> QED BY ZeroCrashes DEF ResetCrashTracking, Slot

\* The exit handler likewise; a slot that was being drained ends terminated.
LEMMA OnExitType ==
  ASSUME NEW st \in Slot, NEW clean \in BOOLEAN
  PROVE  /\ OnExit(st, clean) \in Slot
         /\ OnExit(st, clean).process = NoProc
         /\ OnExit(st, clean).key = st.key /\ OnExit(st, clean).drain = st.drain
         /\ OnExit(st, clean).status \in {"terminated"} \cup CrashStatuses
         /\ OnExit(st, clean).status = "crashLoopBackOff" =>
              /\ OnExit(st, clean).crashes > CrashThreshold
              /\ OnExit(st, clean).wait # NoDeadline
<1>1. CASE st.status \in {"draining", "terminated"} \/ clean
  <2> DEFINE ended == [st EXCEPT !.process = NoProc, !.status = "terminated"]
  <2>1. OnExit(st, clean) = ResetCrashTracking(ended)
    BY <1>1 DEF OnExit
  <2>2. /\ ended \in Slot /\ ended.process = NoProc /\ ended.status = "terminated"
        /\ ended.key = st.key /\ ended.drain = st.drain
    BY DEF Slot, Statuses
  <2> HIDE DEF ended
  <2> QED BY <2>1, <2>2, ResetType DEF CrashStatuses
<1>2. CASE ~(st.status \in {"draining", "terminated"} \/ clean)
  BY <1>2, CrashType DEF OnExit
<1> QED BY <1>1, <1>2
-----------------------------------------------------------------------------
(* Type correctness *)

\* spawnIntoState(s) keeps both tables well-formed.
LEMMA SpawnIntoStateType ==
  ASSUME SlotsOK, ProcsOK, NEW s \in 0..MaxSlots, NEW st \in Slot,
         SpawnIntoState(s, st)
  PROVE  SlotsOK' /\ ProcsOK'
<1>1. PICK p \in Procs : /\ slot' = [slot EXCEPT ![s] = Started(st, p)]
                         /\ proc' = [proc EXCEPT ![p] = Forked(s)]
  BY DEF SpawnIntoState
<1>2. Started(st, p) \in Slot
  BY DEF Started, Slot, Statuses
<1>3. Forked(s) \in Proc
  BY DEF Forked, Proc
<1> QED BY <1>1, <1>2, <1>3 DEF SlotsOK, ProcsOK

\* spawn(key) keeps everything well-formed.
LEMMA SpawnType ==
  ASSUME TypeOK, NEW key \in Keys, Spawn(key)
  PROVE  SlotsOK' /\ ProcsOK' /\ nslots' \in 0..MaxSlots /\ agentState' \subseteq SlotIds
<1> SlotsOK /\ ProcsOK
  BY DEF TypeOK, SlotsOK, ProcsOK
<1>1. CASE SpawnExisting(key)
  <2>1. PICK s \in agentState : SpawnIntoState(s, slot[s])
    BY <1>1 DEF SpawnExisting
  <2>2. s \in 0..MaxSlots /\ slot[s] \in Slot
    BY NumbersAssumption DEF TypeOK, SlotIds
  <2> QED BY <1>1, <2>1, <2>2, SpawnIntoStateType DEF SpawnExisting, TypeOK
<1>2. CASE SpawnNew(key)
  <2> DEFINE s == nslots + 1
  <2>1. s \in SlotIds /\ s \in 0..MaxSlots
    BY <1>2, NumbersAssumption DEF SpawnNew, TypeOK, SlotIds
  <2>2. [slot[s] EXCEPT !.key = key] \in Slot
    BY <2>1 DEF TypeOK, Slot
  <2>3. SpawnIntoState(s, [slot[s] EXCEPT !.key = key])
    BY <1>2 DEF SpawnNew
  <2>4. SlotsOK' /\ ProcsOK'
    BY <2>1, <2>2, <2>3, SpawnIntoStateType
  <2> QED BY <1>2, <2>1, <2>4 DEF SpawnNew, TypeOK
<1> QED BY <1>1, <1>2 DEF Spawn

\* The synchronous part of gracefulShutdown, for a caller that awaits or not.
LEMMA GracefulShutdownType ==
  ASSUME TypeOK, NEW s \in SlotIds, GracefulShutdown(s)
  PROVE  SlotsOK' /\ ProcsOK'
<1>1. slot[s] \in Slot
  BY DEF TypeOK
<1>2. CASE slot[s].process = NoProc
  <2>1. [slot[s] EXCEPT !.status = "terminated"] \in Slot
    BY <1>1 DEF Slot, Statuses
  <2>2. ResetCrashTracking([slot[s] EXCEPT !.status = "terminated"]) \in Slot
    BY <2>1, ResetType
  <2>3. slot' = [slot EXCEPT ![s] =
                   ResetCrashTracking([slot[s] EXCEPT !.status = "terminated"])]
        /\ proc' = proc
    BY <1>2 DEF GracefulShutdown, TypeOK
  <2> QED BY <2>2, <2>3 DEF TypeOK, SlotsOK, ProcsOK
<1>3. CASE slot[s].process # NoProc /\ slot[s].drain
  BY <1>3 DEF GracefulShutdown, TypeOK, SlotsOK, ProcsOK
<1>4. CASE slot[s].process # NoProc /\ ~slot[s].drain
  <2>1. slot' = [slot EXCEPT ![s] =
                   [slot[s] EXCEPT !.status = "draining", !.drain = TRUE]]
    BY <1>4 DEF GracefulShutdown, TypeOK
  <2>2. [slot[s] EXCEPT !.status = "draining", !.drain = TRUE] \in Slot
    BY <1>1 DEF Slot, Statuses
  <2>3. proc' = [proc EXCEPT ![slot[s].process].told = TRUE] /\ slot[s].process \in Procs
    BY <1>1, <1>4 DEF GracefulShutdown, Slot
  <2>4. [proc[slot[s].process] EXCEPT !.told = TRUE] \in Proc
    BY <2>3 DEF TypeOK, Proc
  <2>5. proc' \in [Procs -> Proc]
    BY <2>3, <2>4 DEF TypeOK
  <2> QED BY <2>1, <2>2, <2>5 DEF TypeOK, SlotsOK, ProcsOK
<1> QED BY <1>2, <1>3, <1>4

\* A task that awaits a graceful shutdown stays a well-formed task.
LEMMA AwaitShutdownType ==
  ASSUME TypeOK, NEW t \in Tasks, NEW s \in SlotIds, NEW todo \in SUBSET SlotIds,
         AwaitShutdown(t, s, todo)
  PROVE  SlotsOK' /\ ProcsOK' /\ TasksOK'
<1>1. SlotsOK' /\ ProcsOK'
  BY GracefulShutdownType DEF AwaitShutdown
<1>2. s \in 0..MaxSlots
  BY NumbersAssumption DEF SlotIds
<1> DEFINE pc == IF slot[s].process = NoProc THEN "ready" ELSE "await"
<1>3. [task[t] EXCEPT !.at = s, !.todo = todo, !.pc = pc] \in Task
  BY <1>2 DEF TypeOK, Task
<1>4. task' = [task EXCEPT ![t] = [task[t] EXCEPT !.at = s, !.todo = todo, !.pc = pc]]
  BY DEF AwaitShutdown, TypeOK
<1> QED BY <1>1, <1>3, <1>4 DEF TypeOK, TasksOK

\* What a settled drain does to the slot, to its process and to its waiters.
LEMMA DrainedType ==
  ASSUME NEW st \in Slot
  PROVE  /\ Drained(st) \in Slot
         /\ Drained(st).status = "terminated" /\ Drained(st).process = NoProc
         /\ Drained(st).drain = FALSE /\ Drained(st).key = st.key
  BY DEF Drained, Slot, Statuses

\* Sending a signal keeps the process table well-formed.
LEMMA SignalledType ==
  ASSUME ProcsOK, NEW s PROVE Signalled(s) \in [Procs -> Proc]
  BY DEF Signalled, ProcsOK, Proc

\* Waking the waiters keeps the tasks well-formed.
LEMMA WakeType ==
  ASSUME TasksOK, NEW s, Wake(s)
  PROVE  TasksOK'
  BY DEF Wake, TasksOK, Task

\* Slot number 0 stands for "none".
LEMMA ZeroInRange == 0 \in 0..MaxSlots
  BY NumbersAssumption

\* So does moving one task on.
LEMMA GotoType ==
  ASSUME TasksOK, NEW t \in Tasks, NEW pc \in RunPcs \cup {"idle", "done"}
  PROVE  /\ Goto(t, pc) => TasksOK'
         /\ Finish(t, pc) => TasksOK'
<1>1. [task[t] EXCEPT !.pc = pc] \in Task
  BY DEF TasksOK, Task
<1>2. [task[t] EXCEPT !.pc = pc, !.at = 0] \in Task
  BY ZeroInRange DEF TasksOK, Task
<1> QED BY <1>1, <1>2 DEF Goto, Finish, TasksOK

\* Every step of the orchestrator keeps every variable well-formed.
LEMMA TypeStep ==
  ASSUME TypeOK, [Next]_vars PROVE TypeOK'
<1> USE DEF SlotsOK, ProcsOK, TasksOK
<1>0. SlotsOK /\ ProcsOK /\ TasksOK /\ \A s \in SlotIds : s \in 0..MaxSlots
  BY NumbersAssumption DEF TypeOK, SlotIds
<1>1. ASSUME NEW key \in Keys, Route(key) PROVE TypeOK'
  BY <1>1, SpawnType DEF Route, TypeOK
<1>2. ASSUME NEW s \in SlotIds, HandleShutdown(s) PROVE TypeOK'
  BY <1>2, GracefulShutdownType DEF HandleShutdown, TypeOK
<1>3. ASSUME NEW s \in SlotIds, GraceTimeout(s) PROVE TypeOK'
  <2>1. slot' \in [SlotIds -> Slot]
    BY <1>3, <1>0, DrainedType DEF GraceTimeout
  <2>2. proc' \in [Procs -> Proc] /\ task' \in [Tasks -> Task]
    BY <1>3, <1>0, SignalledType, WakeType DEF GraceTimeout
  <2> QED BY <1>3, <2>1, <2>2 DEF GraceTimeout, TypeOK
<1>4. ASSUME NEW p \in Procs, SendShutdownAck(p) PROVE TypeOK'
  <2>1. [proc[p] EXCEPT !.ack = "sent"] \in Proc
    BY <1>0 DEF Proc
  <2> QED BY <1>4, <1>0, <2>1 DEF SendShutdownAck, TypeOK
<1>5. ASSUME NEW p \in Procs, HandleShutdownAck(p) PROVE TypeOK'
  <2> DEFINE Heard(pr) == IF pr.up THEN [pr EXCEPT !.ack = "seen"] ELSE NotForked
  <2>1. \A pr \in Proc : Heard(pr) \in Proc
    BY ZeroInRange DEF Proc, NotForked
  <2>2. ASSUME NEW s \in agentState,
               slot' = [slot EXCEPT ![s] = ResetCrashTracking(Drained(@))],
               proc' = [Signalled(s) EXCEPT ![p] = Heard(@)], Wake(s)
        PROVE  TypeOK'
    <3>1. s \in SlotIds /\ slot[s] \in Slot
      BY <1>0 DEF TypeOK
    <3>2. ResetCrashTracking(Drained(slot[s])) \in Slot
      BY <3>1, DrainedType, ResetType
    <3>3. slot' \in [SlotIds -> Slot]
      BY <1>0, <2>2, <3>1, <3>2
    <3>4. proc' \in [Procs -> Proc]
      BY <1>0, <2>1, <2>2, SignalledType
    <3>5. task' \in [Tasks -> Task]
      BY <1>0, <2>2, WakeType
    <3> QED BY <1>5, <3>3, <3>4, <3>5 DEF HandleShutdownAck, TypeOK
  <2>3. ASSUME proc' = [proc EXCEPT ![p] = Heard(@)], UNCHANGED <<slot, task>>
        PROVE  TypeOK'
    <3>1. proc' \in [Procs -> Proc]
      BY <1>0, <2>1, <2>3
    <3> QED BY <1>5, <2>3, <3>1 DEF HandleShutdownAck, TypeOK
  <2> QED BY <1>5, <2>2, <2>3 DEF HandleShutdownAck
<1>6. ASSUME NEW p \in Procs, NEW clean \in BOOLEAN, ProcessExit(p, clean) PROVE TypeOK'
  <2> DEFINE s == proc[p].slot
  <2>1. s \in 0..MaxSlots /\ proc[p] \in Proc
    BY <1>0 DEF Proc
  <2>2. slot' \in [SlotIds -> Slot]
    BY <1>6, <1>0, OnExitType DEF ProcessExit
  <2>3. Exited(proc[p]) \in Proc
    BY <2>1, ZeroInRange DEF Exited, NotForked, Proc
  <2> QED BY <1>6, <1>0, <2>2, <2>3 DEF ProcessExit, TypeOK
<1>7. ASSUME NEW c \in Connectors, ConnectorExit(c) PROVE TypeOK'
  BY <1>7 DEF ConnectorExit, TypeOK
<1>8. CASE Tick
  <2>1. ASSUME NEW s \in SlotIds, slot[s].wait > 0
        PROVE  [slot[s] EXCEPT !.wait = @ - 1] \in Slot
    <3>1. slot[s].wait \in Nat /\ slot[s].wait <= MaxBackoff
      BY <1>0, <2>1, NumbersAssumption DEF Slot, NoDeadline
    <3>2. slot[s].wait - 1 \in 0..MaxBackoff
      BY <2>1, <3>1, NumbersAssumption
    <3> QED BY <1>0, <3>2 DEF Slot
  <2> QED BY <1>8, <1>0, <2>1 DEF Tick, TypeOK
<1>9. ASSUME NEW t \in Reconciles, ReconcileStart(t) PROVE TypeOK'
  <2>1. t \in Tasks /\ [task[t] EXCEPT !.pc = "missing", !.at = 0] \in Task
    BY <1>0, ZeroInRange DEF Tasks, Task, RunPcs
  <2> QED BY <1>9, <1>0, <2>1 DEF ReconcileStart, TypeOK
<1>10. ASSUME NEW t \in Reconciles, ReconcileStep(t) PROVE TypeOK'
  <2>0. t \in Tasks
    BY DEF Tasks
  <2>1. CASE ReconcileMissing(t)
    <3>1. ASSUME NEW a \in Missing, Spawn(<<a, DefaultInstance>>), UNCHANGED task
          PROVE  TypeOK'
      <4>1. <<a, DefaultInstance>> \in Keys
        BY NamesAssumption DEF Missing, Keys
      <4> QED BY <2>1, <3>1, <4>1, SpawnType DEF ReconcileMissing, TypeOK
    <3>2. ASSUME Goto(t, "scan"), UNCHANGED <<agentState, slot, nslots, proc>>
          PROVE  TypeOK'
      BY <1>0, <2>0, <2>1, <3>2, GotoType DEF ReconcileMissing, TypeOK, RunPcs
    <3> QED BY <2>1, <3>1, <3>2 DEF ReconcileMissing
  <2>2. ASSUME NEW s \in SlotIds, ReconcileSlot(t, s) PROVE TypeOK'
    <3>1. CASE AwaitShutdown(t, s, {})
      BY <2>0, <2>2, <3>1, AwaitShutdownType DEF ReconcileSlot, TypeOK
    <3>2. [task[t] EXCEPT !.at = s] \in Task
      BY <1>0, <2>0 DEF Task
    <3>3. CASE SpawnIntoState(s, slot[s]) /\ task' = [task EXCEPT ![t].at = s]
      BY <1>0, <2>2, <3>2, <3>3, SpawnIntoStateType DEF ReconcileSlot, TypeOK
    <3>4. CASE task' = [task EXCEPT ![t].at = s] /\ UNCHANGED <<slot, proc>>
      BY <1>0, <2>2, <3>2, <3>4 DEF ReconcileSlot, TypeOK
    <3> QED BY <2>2, <3>1, <3>3, <3>4 DEF ReconcileSlot
  <2>3. CASE ReconcileResume(t)
    BY <1>0, <2>0, <2>3, GotoType DEF ReconcileResume, TypeOK, RunPcs
  <2>4. CASE ReconcileEnd(t)
    BY <1>0, <2>0, <2>4, GotoType DEF ReconcileEnd, TypeOK
  <2> QED BY <1>10, <2>1, <2>2, <2>3, <2>4 DEF ReconcileStep
<1>11. ASSUME NEW t \in Restarts, NEW names \in SUBSET Agents, RestartStart(t, names)
       PROVE TypeOK'
  <2>1. t \in Tasks /\ [task[t] EXCEPT !.pc = "names", !.names = names] \in Task
    BY <1>0, ZeroInRange DEF Tasks, Task, RunPcs
  <2> QED BY <1>11, <1>0, <2>1 DEF RestartStart, TypeOK
<1>12. ASSUME NEW t \in Restarts, RestartStep(t) PROVE TypeOK'
  <2>0. t \in Tasks
    BY DEF Tasks
  <2>1. CASE RestartName(t)
    <3>1. ASSUME NEW a \in task[t].names
          PROVE  [task[t] EXCEPT !.pc = "each", !.names = @ \ {a},
                    !.todo = {s \in agentState : AgentOf(s) = a}] \in Task
      BY <1>0, <2>0 DEF TypeOK, Task, RunPcs
    <3>2. CASE Finish(t, "idle")
      BY <1>0, <2>0, <2>1, <3>2, GotoType DEF RestartName, TypeOK
    <3>3. ASSUME NEW a \in task[t].names,
                 task' = [task EXCEPT ![t].pc = "each", ![t].names = @ \ {a},
                            ![t].todo = {s \in agentState : AgentOf(s) = a}]
          PROVE  TypeOK'
      BY <1>0, <2>0, <2>1, <3>1, <3>3 DEF RestartName, TypeOK
    <3> QED BY <2>1, <3>2, <3>3 DEF RestartName
  <2>2. CASE RestartSlot(t)
    <3>1. ASSUME NEW s \in task[t].todo, AwaitShutdown(t, s, task[t].todo \ {s})
          PROVE  TypeOK'
      <4>1. task[t].todo \in SUBSET SlotIds
        BY <1>0, <2>0 DEF Task
      <4> QED BY <2>0, <2>2, <3>1, <4>1, AwaitShutdownType DEF RestartSlot, TypeOK
    <3>2. CASE Goto(t, "names") /\ UNCHANGED <<slot, proc>>
      BY <1>0, <2>0, <2>2, <3>2, GotoType DEF RestartSlot, TypeOK, RunPcs
    <3> QED BY <2>2, <3>1, <3>2 DEF RestartSlot
  <2>3. CASE RestartResume(t)
    <3> DEFINE s == task[t].at
    <3>1. s \in 0..MaxSlots
      BY <1>0, <2>0 DEF Task
    <3>2. CASE s \in SlotIds
      <4>1. [slot[s] EXCEPT !.crashes = 0] \in Slot
        BY <1>0, <3>2, ZeroCrashes DEF Slot
      <4>2. SlotsOK' /\ ProcsOK'
        BY <1>0, <2>3, <3>1, <4>1, SpawnIntoStateType DEF RestartResume
      <4> QED BY <1>0, <2>0, <2>3, <4>2, GotoType DEF RestartResume, TypeOK, RunPcs
    <3>3. CASE s \notin SlotIds
      <4>1. Forked(s) \in Proc
        BY <3>1 DEF Forked, Proc
      <4>2. slot' = slot /\ proc' \in [Procs -> Proc]
        BY <1>0, <2>3, <3>3, <4>1 DEF RestartResume, SpawnIntoState
      <4> QED BY <1>0, <2>0, <2>3, <4>2, GotoType DEF RestartResume, TypeOK, RunPcs
    <3> QED BY <3>2, <3>3
  <2> QED BY <1>12, <2>1, <2>2, <2>3 DEF RestartStep
<1>13. CASE ShutdownStart
  <2>1. Stopper \in Tasks /\ [task[Stopper] EXCEPT !.pc = "scan", !.at = 0] \in Task
    BY <1>0, ZeroInRange DEF Tasks, Task, RunPcs
  <2> QED BY <1>13, <1>0, <2>1 DEF ShutdownStart, TypeOK
<1>14. CASE ShutdownStep
  <2>0. Stopper \in Tasks
    BY DEF Tasks
  <2>1. ASSUME NEW s \in SlotIds, ShutdownSlot(s) PROVE TypeOK'
    BY <2>0, <2>1, AwaitShutdownType DEF ShutdownSlot, TypeOK
  <2>2. CASE ShutdownResume
    BY <1>0, <2>0, <2>2, GotoType DEF ShutdownResume, TypeOK, RunPcs
  <2>3. CASE ShutdownEnd
    BY <1>0, <2>0, <2>3, GotoType DEF ShutdownEnd, TypeOK
  <2> QED BY <1>14, <2>1, <2>2, <2>3 DEF ShutdownStep
<1>15. CASE UNCHANGED vars
  BY <1>15 DEF vars, TypeOK
<1> QED BY <1>1, <1>2, <1>3, <1>4, <1>5, <1>6, <1>7, <1>8, <1>9, <1>10, <1>11, <1>12,
           <1>13, <1>14, <1>15 DEF Next

\* TypeOK is an invariant: no handler ever stores a value outside its table.
THEOREM TypeCorrect == Spec => []TypeOK
<1>1. Init => TypeOK
  BY NumbersAssumption DEF Init, TypeOK, Slot, Proc, Task, NotForked, Statuses, RunPcs,
     NoDeadline, MaxCrashes
<1>2. TypeOK /\ [Next]_vars => TypeOK'
  BY TypeStep
<1> QED BY <1>1, <1>2, PTL DEF Spec
-----------------------------------------------------------------------------
(* The status of a slot agrees with its process, its drain and its deadline *)

WellKept(st) ==
  /\ st.status \in CrashStatuses => st.process = NoProc
  /\ st.status = "draining" => st.drain /\ st.process # NoProc
  /\ st.status = "crashLoopBackOff" => st.crashes > CrashThreshold /\ st.wait # NoDeadline

AllWellKept == \A s \in SlotIds : WellKept(slot[s])

\* spawnIntoState(s) leaves every slot consistent: the filled one is idle.
LEMMA SpawnIntoStateKeeps ==
  ASSUME TypeOK, AllWellKept, NEW s, NEW st \in Slot, SpawnIntoState(s, st)
  PROVE  AllWellKept'
<1>1. PICK p \in Procs : slot' = [slot EXCEPT ![s] = Started(st, p)]
  BY DEF SpawnIntoState
<1>2. Started(st, p).status = "idle"
  BY DEF Started, Slot
<1> QED BY <1>1, <1>2 DEF AllWellKept, WellKept, TypeOK, CrashStatuses

\* So does spawn(key), for a new slot and for an old one.
LEMMA SpawnKeeps ==
  ASSUME TypeOK, AllWellKept, NEW key \in Keys, Spawn(key)
  PROVE  AllWellKept'
<1>1. CASE SpawnExisting(key)
  <2>1. PICK s \in agentState : SpawnIntoState(s, slot[s])
    BY <1>1 DEF SpawnExisting
  <2> QED BY <2>1, SpawnIntoStateKeeps DEF TypeOK
<1>2. CASE SpawnNew(key)
  <2>1. nslots + 1 \in SlotIds
    BY <1>2, NumbersAssumption DEF SpawnNew, TypeOK, SlotIds
  <2>2. [slot[nslots + 1] EXCEPT !.key = key] \in Slot
    BY <2>1 DEF TypeOK, Slot
  <2> QED BY <1>2, <2>2, SpawnIntoStateKeeps DEF SpawnNew
<1> QED BY <1>1, <1>2 DEF Spawn

\* A graceful shutdown leaves its slot terminated, or draining with a process.
LEMMA GracefulShutdownKeeps ==
  ASSUME TypeOK, AllWellKept, NEW s \in SlotIds, GracefulShutdown(s)
  PROVE  AllWellKept'
<1>1. slot[s] \in Slot
  BY DEF TypeOK
<1>2. CASE slot[s].process = NoProc
  <2> DEFINE ended == [slot[s] EXCEPT !.status = "terminated"]
  <2>1. ended \in Slot /\ ended.status = "terminated"
    BY <1>1 DEF Slot, Statuses
  <2>2. slot' = [slot EXCEPT ![s] = ResetCrashTracking(ended)]
    BY <1>2 DEF GracefulShutdown, TypeOK
  <2> HIDE DEF ended
  <2> QED BY <2>1, <2>2, ResetType DEF AllWellKept, WellKept, TypeOK, CrashStatuses
<1>3. CASE slot[s].process # NoProc /\ slot[s].drain
  BY <1>3 DEF GracefulShutdown, AllWellKept
<1>4. CASE slot[s].process # NoProc /\ ~slot[s].drain
  <2>1. slot' = [slot EXCEPT ![s] =
                   [slot[s] EXCEPT !.status = "draining", !.drain = TRUE]]
    BY <1>4 DEF GracefulShutdown, TypeOK
  <2>2. WellKept([slot[s] EXCEPT !.status = "draining", !.drain = TRUE])
    BY <1>1, <1>4 DEF WellKept, Slot, CrashStatuses
  <2> QED BY <2>1, <2>2 DEF AllWellKept, TypeOK
<1> QED BY <1>2, <1>3, <1>4

\* Every step keeps every slot consistent.
LEMMA WellKeptStep ==
  ASSUME TypeOK, AllWellKept, [Next]_vars PROVE AllWellKept'
<1>0. slot \in [SlotIds -> Slot] /\ agentState \subseteq SlotIds
  BY DEF TypeOK
<1>1. ASSUME NEW key \in Keys, Route(key) PROVE AllWellKept'
  BY <1>1, SpawnKeeps DEF Route
<1>2. ASSUME NEW s \in SlotIds, HandleShutdown(s) PROVE AllWellKept'
  BY <1>2, GracefulShutdownKeeps DEF HandleShutdown
<1>3. ASSUME NEW s \in SlotIds, GraceTimeout(s) PROVE AllWellKept'
  <2>1. slot' = [slot EXCEPT ![s] = Drained(slot[s])]
    BY <1>3 DEF GraceTimeout
  <2> QED BY <1>0, <2>1, DrainedType DEF AllWellKept, WellKept, CrashStatuses
<1>4. ASSUME NEW p \in Procs, SendShutdownAck(p) \/ HandleShutdownAck(p)
      PROVE  AllWellKept'
  <2>1. ASSUME NEW s \in agentState,
               slot' = [slot EXCEPT ![s] = ResetCrashTracking(Drained(@))]
        PROVE  AllWellKept'
    <3>1. Drained(slot[s]) \in Slot /\ Drained(slot[s]).status = "terminated"
      BY <1>0, DrainedType
    <3>2. ResetCrashTracking(Drained(slot[s])).status = "terminated"
      BY <3>1, ResetType
    <3> QED BY <1>0, <2>1, <3>2 DEF AllWellKept, WellKept, CrashStatuses
  <2>2. CASE UNCHANGED slot
    BY <2>2 DEF AllWellKept
  <2> QED BY <1>4, <2>1, <2>2 DEF SendShutdownAck, HandleShutdownAck
<1>5. ASSUME NEW p \in Procs, NEW clean \in BOOLEAN, ProcessExit(p, clean)
      PROVE  AllWellKept'
  <2>1. slot' = [slot EXCEPT ![proc[p].slot] = OnExit(slot[proc[p].slot], clean)]
    BY <1>5 DEF ProcessExit
  <2> QED BY <1>0, <2>1, OnExitType DEF AllWellKept, WellKept, CrashStatuses
<1>6. CASE Tick
  <2>1. ASSUME NEW s \in SlotIds, slot[s].wait > 0
        PROVE  WellKept([slot[s] EXCEPT !.wait = @ - 1])
    <3>1. slot[s].wait \in Int /\ slot[s] \in Slot
      BY <1>0, NumbersAssumption DEF Slot, NoDeadline
    <3>2. slot[s].wait - 1 # NoDeadline
      BY <2>1, <3>1 DEF NoDeadline
    <3> QED BY <3>1, <3>2 DEF AllWellKept, WellKept, Slot
  <2> QED BY <1>0, <1>6, <2>1 DEF Tick, AllWellKept
<1>7. ASSUME NEW t \in Reconciles, ReconcileStep(t) PROVE AllWellKept'
  <2>1. ASSUME NEW a \in Missing, Spawn(<<a, DefaultInstance>>) PROVE AllWellKept'
    <3>1. <<a, DefaultInstance>> \in Keys
      BY NamesAssumption DEF Missing, Keys
    <3> QED BY <2>1, <3>1, SpawnKeeps
  <2>2. ASSUME NEW s \in SlotIds, ReconcileSlot(t, s) PROVE AllWellKept'
    <3>1. CASE AwaitShutdown(t, s, {})
      BY <3>1, GracefulShutdownKeeps DEF AwaitShutdown
    <3>2. CASE SpawnIntoState(s, slot[s])
      BY <1>0, <3>2, SpawnIntoStateKeeps
    <3>3. CASE UNCHANGED slot
      BY <3>3 DEF AllWellKept
    <3> QED BY <2>2, <3>1, <3>2, <3>3 DEF ReconcileSlot
  <2>3. CASE UNCHANGED slot
    BY <2>3 DEF AllWellKept
  <2> QED BY <1>7, <2>1, <2>2, <2>3
          DEF ReconcileStep, ReconcileMissing, ReconcileResume, ReconcileEnd
<1>8. ASSUME NEW t \in Restarts, RestartStep(t) PROVE AllWellKept'
  <2>1. CASE RestartSlot(t)
    <3>1. ASSUME NEW s \in task[t].todo, AwaitShutdown(t, s, task[t].todo \ {s})
          PROVE  AllWellKept'
      <4>1. s \in SlotIds
        BY DEF TypeOK, Tasks, Task
      <4> QED BY <3>1, <4>1, GracefulShutdownKeeps DEF AwaitShutdown
    <3>2. CASE UNCHANGED slot
      BY <3>2 DEF AllWellKept
    <3> QED BY <2>1, <3>1, <3>2 DEF RestartSlot
  <2>2. CASE RestartResume(t)
    <3> DEFINE s == task[t].at
    <3>1. CASE s \in SlotIds
      <4>1. [slot[s] EXCEPT !.crashes = 0] \in Slot
        BY <1>0, <3>1, ZeroCrashes DEF Slot
      <4> QED BY <2>2, <4>1, SpawnIntoStateKeeps DEF RestartResume
    <3>2. CASE s \notin SlotIds
      <4>1. slot' = slot
        BY <1>0, <2>2, <3>2 DEF RestartResume, SpawnIntoState
      <4> QED BY <4>1 DEF AllWellKept
    <3> QED BY <3>1, <3>2
  <2>3. CASE RestartName(t)
    BY <2>3 DEF RestartName, AllWellKept
  <2> QED BY <1>8, <2>1, <2>2, <2>3 DEF RestartStep
<1>9. CASE ShutdownStep
  <2>1. ASSUME NEW s \in SlotIds, ShutdownSlot(s) PROVE AllWellKept'
    BY <2>1, GracefulShutdownKeeps DEF ShutdownSlot, AwaitShutdown
  <2>2. CASE UNCHANGED slot
    BY <2>2 DEF AllWellKept
  <2> QED BY <1>9, <2>1, <2>2 DEF ShutdownStep, ShutdownResume, ShutdownEnd
<1>10. CASE UNCHANGED slot
  BY <1>10 DEF AllWellKept
<1> QED BY <1>1, <1>2, <1>3, <1>4, <1>5, <1>6, <1>7, <1>8, <1>9, <1>10
        DEF Next, ConnectorExit, ReconcileStart, RestartStart, ShutdownStart, vars

\* A crashed slot holds no process, so reconcile() may spawn into it without
\* looking; a draining one has a process and a timer; a slot in backoff has
\* crashed too often and has a deadline.
THEOREM SlotsAlwaysAgree == Spec => []SlotsAgree
<1>1. Init => AllWellKept
  BY DEF Init, AllWellKept, WellKept, CrashStatuses
<1>2. TypeOK /\ AllWellKept /\ [Next]_vars => AllWellKept'
  BY WellKeptStep
<1>3. AllWellKept => SlotsAgree
  BY DEF SlotsAgree, AllWellKept, WellKept, CrashedIsVacant, DrainingIsArmed, BackoffHasDeadline
<1> QED BY <1>1, <1>2, <1>3, TypeCorrect, PTL DEF Spec
-----------------------------------------------------------------------------
(* The process a slot holds is live and its own *)

\* A process that is forked was free, so no other slot holds it.
LEMMA SpawnIntoStateHolds ==
  ASSUME TypeOK, HeldIsLive, NEW s \in SlotIds, NEW st \in Slot, SpawnIntoState(s, st)
  PROVE  HeldIsLive'
<1>1. PICK p \in Procs : /\ Free(p)
                         /\ slot' = [slot EXCEPT ![s] = Started(st, p)]
                         /\ proc' = [proc EXCEPT ![p] = Forked(s)]
  BY DEF SpawnIntoState
<1>2. Started(st, p).process = p
  BY DEF Started, Slot
<1>3. Forked(s).up /\ Forked(s).slot = s
  BY DEF Forked
<1>4. ASSUME NEW u \in SlotIds, u # s, slot[u].process # NoProc
      PROVE  slot[u].process # p /\ slot[u].process \in Procs
  BY <1>1, <1>4 DEF HeldIsLive, Free, TypeOK, Slot
<1> QED BY <1>1, <1>2, <1>3, <1>4 DEF HeldIsLive, TypeOK

\* spawn(key) gives its slot a process of its own.
LEMMA SpawnHolds ==
  ASSUME TypeOK, HeldIsLive, NEW key \in Keys, Spawn(key)
  PROVE  HeldIsLive'
<1>1. CASE SpawnExisting(key)
  <2>1. PICK s \in agentState : SpawnIntoState(s, slot[s])
    BY <1>1 DEF SpawnExisting
  <2> QED BY <2>1, SpawnIntoStateHolds DEF TypeOK
<1>2. CASE SpawnNew(key)
  <2>1. nslots + 1 \in SlotIds
    BY <1>2, NumbersAssumption DEF SpawnNew, TypeOK, SlotIds
  <2>2. [slot[nslots + 1] EXCEPT !.key = key] \in Slot
    BY <2>1 DEF TypeOK, Slot
  <2> QED BY <1>2, <2>1, <2>2, SpawnIntoStateHolds DEF SpawnNew
<1> QED BY <1>1, <1>2 DEF Spawn

\* A graceful shutdown changes nobody's process.
LEMMA GracefulShutdownHolds ==
  ASSUME TypeOK, HeldIsLive, NEW s \in SlotIds, GracefulShutdown(s)
  PROVE  HeldIsLive'
<1>1. slot[s] \in Slot
  BY DEF TypeOK
<1>2. CASE slot[s].process = NoProc
  <2> DEFINE ended == [slot[s] EXCEPT !.status = "terminated"]
  <2>1. ended \in Slot /\ ended.process = NoProc
    BY <1>1, <1>2 DEF Slot, Statuses
  <2>2. slot' = [slot EXCEPT ![s] = ResetCrashTracking(ended)] /\ proc' = proc
    BY <1>2 DEF GracefulShutdown, TypeOK
  <2> HIDE DEF ended
  <2> QED BY <2>1, <2>2, ResetType DEF HeldIsLive, TypeOK
<1>3. CASE slot[s].process # NoProc /\ slot[s].drain
  BY <1>3 DEF GracefulShutdown, HeldIsLive
<1>4. CASE slot[s].process # NoProc /\ ~slot[s].drain
  <2>1. \A u \in SlotIds : slot'[u].process = slot[u].process
    BY <1>4 DEF GracefulShutdown, TypeOK, Slot
  <2>2. \A p \in Procs : proc'[p].up = proc[p].up /\ proc'[p].slot = proc[p].slot
    BY <1>4 DEF GracefulShutdown, TypeOK, Proc
  <2> QED BY <2>1, <2>2 DEF HeldIsLive, TypeOK, Slot
<1> QED BY <1>2, <1>3, <1>4

\* Emptying a slot keeps what the others hold, if their processes stay up.
LEMMA DrainedHolds ==
  ASSUME TypeOK, HeldIsLive, NEW s \in SlotIds, NEW st \in Slot, st.process = NoProc,
         slot' = [slot EXCEPT ![s] = st],
         \A p \in Procs : proc[p].up => proc'[p].up /\ proc'[p].slot = proc[p].slot
  PROVE  HeldIsLive'
  BY DEF HeldIsLive, TypeOK, Slot

\* Every step keeps each held process live and its slot's own.
LEMMA HeldStep ==
  ASSUME TypeOK, HeldIsLive, [Next]_vars PROVE HeldIsLive'
<1>0. slot \in [SlotIds -> Slot] /\ agentState \subseteq SlotIds /\ proc \in [Procs -> Proc]
  BY DEF TypeOK
<1>1. ASSUME NEW key \in Keys, Route(key) PROVE HeldIsLive'
  BY <1>1, SpawnHolds DEF Route
<1>2. ASSUME NEW s \in SlotIds, HandleShutdown(s) PROVE HeldIsLive'
  BY <1>2, GracefulShutdownHolds DEF HandleShutdown
<1>3. ASSUME NEW s \in SlotIds, GraceTimeout(s) PROVE HeldIsLive'
  <2>1. slot' = [slot EXCEPT ![s] = Drained(slot[s])] /\ proc' = Signalled(s)
    BY <1>3 DEF GraceTimeout
  <2>2. \A p \in Procs : proc'[p].up = proc[p].up /\ proc'[p].slot = proc[p].slot
    BY <1>0, <2>1 DEF Signalled, Proc
  <2>3. Drained(slot[s]) \in Slot /\ Drained(slot[s]).process = NoProc
    BY <1>0, DrainedType
  <2> QED BY <2>1, <2>2, <2>3, DrainedHolds
<1>4. ASSUME NEW p \in Procs, SendShutdownAck(p) PROVE HeldIsLive'
  <2>1. \A q \in Procs : proc'[q].up = proc[q].up /\ proc'[q].slot = proc[q].slot
    BY <1>0, <1>4 DEF SendShutdownAck, Proc
  <2> QED BY <1>0, <1>4, <2>1 DEF SendShutdownAck, HeldIsLive, Slot
<1>5. ASSUME NEW p \in Procs, HandleShutdownAck(p) PROVE HeldIsLive'
  <2> DEFINE Heard(pr) == IF pr.up THEN [pr EXCEPT !.ack = "seen"] ELSE NotForked
  <2>1. \A pr \in Proc : pr.up => Heard(pr).up /\ Heard(pr).slot = pr.slot
    BY DEF Proc
  <2>2. ASSUME NEW s \in agentState,
               slot' = [slot EXCEPT ![s] = ResetCrashTracking(Drained(@))],
               proc' = [Signalled(s) EXCEPT ![p] = Heard(@)]
        PROVE  HeldIsLive'
    <3>1. Drained(slot[s]) \in Slot /\ Drained(slot[s]).process = NoProc
      BY <1>0, DrainedType
    <3>2. /\ ResetCrashTracking(Drained(slot[s])) \in Slot
          /\ ResetCrashTracking(Drained(slot[s])).process = NoProc
      BY <3>1, ResetType
    <3>3. \A q \in Procs : /\ Signalled(s)[q] \in Proc
                            /\ Signalled(s)[q].up = proc[q].up
                            /\ Signalled(s)[q].slot = proc[q].slot
      BY <1>0 DEF Signalled, Proc
    <3>4. Signalled(s) = [q \in Procs |-> Signalled(s)[q]]
      BY DEF Signalled
    <3>5. \A q \in Procs : proc[q].up => proc'[q].up /\ proc'[q].slot = proc[q].slot
      <4> HIDE DEF Heard
      <4> QED BY <2>1, <2>2, <3>3, <3>4
    <3> QED BY <1>0, <2>2, <3>2, <3>5, DrainedHolds
  <2>3. ASSUME proc' = [proc EXCEPT ![p] = Heard(@)], UNCHANGED slot
        PROVE  HeldIsLive'
    <3>1. \A q \in Procs : proc[q].up => proc'[q].up /\ proc'[q].slot = proc[q].slot
      <4> HIDE DEF Heard
      <4> QED BY <1>0, <2>1, <2>3
    <3> QED BY <1>0, <2>3, <3>1 DEF HeldIsLive, Slot
  <2> QED BY <1>5, <2>2, <2>3 DEF HandleShutdownAck
<1>6. ASSUME NEW p \in Procs, NEW clean \in BOOLEAN, ProcessExit(p, clean)
      PROVE  HeldIsLive'
  <2>1. slot' = [slot EXCEPT ![proc[p].slot] = OnExit(slot[proc[p].slot], clean)]
    BY <1>6 DEF ProcessExit
  <2>2. ASSUME NEW u \in SlotIds, slot'[u].process # NoProc
        PROVE  u # proc[p].slot /\ slot'[u] = slot[u] /\ slot[u].process # p
    BY <1>0, <2>1, <2>2, OnExitType DEF HeldIsLive
  <2>3. \A q \in Procs : q # p => proc'[q] = proc[q]
    BY <1>0, <1>6 DEF ProcessExit
  <2> QED BY <1>0, <2>2, <2>3 DEF HeldIsLive, Slot
<1>7. CASE Tick
  <2>1. \A u \in SlotIds : slot'[u].process = slot[u].process
    BY <1>0, <1>7 DEF Tick, Slot
  <2> QED BY <1>7, <2>1 DEF Tick, HeldIsLive
<1>8. ASSUME NEW t \in Reconciles, ReconcileStep(t) PROVE HeldIsLive'
  <2>1. ASSUME NEW a \in Missing, Spawn(<<a, DefaultInstance>>) PROVE HeldIsLive'
    <3>1. <<a, DefaultInstance>> \in Keys
      BY NamesAssumption DEF Missing, Keys
    <3> QED BY <2>1, <3>1, SpawnHolds
  <2>2. ASSUME NEW s \in SlotIds, ReconcileSlot(t, s) PROVE HeldIsLive'
    <3>1. CASE AwaitShutdown(t, s, {})
      BY <3>1, GracefulShutdownHolds DEF AwaitShutdown
    <3>2. CASE SpawnIntoState(s, slot[s])
      BY <1>0, <3>2, SpawnIntoStateHolds
    <3>3. CASE UNCHANGED <<slot, proc>>
      BY <3>3 DEF HeldIsLive
    <3> QED BY <2>2, <3>1, <3>2, <3>3 DEF ReconcileSlot
  <2>3. CASE UNCHANGED <<slot, proc>>
    BY <2>3 DEF HeldIsLive
  <2> QED BY <1>8, <2>1, <2>2, <2>3
          DEF ReconcileStep, ReconcileMissing, ReconcileResume, ReconcileEnd
<1>9. ASSUME NEW t \in Restarts, RestartStep(t) PROVE HeldIsLive'
  <2>1. ASSUME NEW s \in task[t].todo, AwaitShutdown(t, s, task[t].todo \ {s})
        PROVE  HeldIsLive'
    <3>1. s \in SlotIds
      BY DEF TypeOK, Tasks, Task
    <3> QED BY <2>1, <3>1, GracefulShutdownHolds DEF AwaitShutdown
  <2>2. CASE RestartResume(t)
    <3> DEFINE s == task[t].at
    <3>1. CASE s \in SlotIds
      <4>1. [slot[s] EXCEPT !.crashes = 0] \in Slot
        BY <1>0, <3>1, ZeroCrashes DEF Slot
      <4> QED BY <2>2, <3>1, <4>1, SpawnIntoStateHolds DEF RestartResume
    <3>2. CASE s \notin SlotIds
      <4>1. PICK p \in Procs : Free(p) /\ slot' = slot /\ proc' = [proc EXCEPT ![p] = Forked(s)]
        BY <1>0, <2>2, <3>2 DEF RestartResume, SpawnIntoState
      <4> QED BY <1>0, <4>1 DEF HeldIsLive, Free, Slot
    <3> QED BY <3>1, <3>2
  <2>3. CASE UNCHANGED <<slot, proc>>
    BY <2>3 DEF HeldIsLive
  <2> QED BY <1>9, <2>1, <2>2, <2>3 DEF RestartStep, RestartName, RestartSlot
<1>10. CASE ShutdownStep
  <2>1. ASSUME NEW s \in SlotIds, ShutdownSlot(s) PROVE HeldIsLive'
    BY <2>1, GracefulShutdownHolds DEF ShutdownSlot, AwaitShutdown
  <2>2. CASE UNCHANGED <<slot, proc>>
    BY <2>2 DEF HeldIsLive
  <2> QED BY <1>10, <2>1, <2>2 DEF ShutdownStep, ShutdownResume, ShutdownEnd
<1>11. CASE UNCHANGED <<slot, proc>>
  BY <1>11 DEF HeldIsLive
<1> QED BY <1>1, <1>2, <1>3, <1>4, <1>5, <1>6, <1>7, <1>8, <1>9, <1>10, <1>11
        DEF Next, ConnectorExit, ReconcileStart, RestartStart, ShutdownStart, vars

\* send() and kill() on a slot reach a live process of that slot, however exits,
\* acks, timers and respawns interleave.
THEOREM HeldLive == Spec => []HeldIsLive
<1>1. Init => HeldIsLive
  BY DEF Init, HeldIsLive
<1>2. TypeOK /\ HeldIsLive /\ [Next]_vars => HeldIsLive'
  BY HeldStep
<1> QED BY <1>1, <1>2, TypeCorrect, PTL DEF Spec

-----------------------------------------------------------------------------
(* What an operation does to the keys and the drains of the slots *)

\* A slot's key and its pending shutdown request, kept by most operations.
SameKeys == \A u \in SlotIds : slot'[u].key = slot[u].key
DrainsOn == \A u \in SlotIds : slot[u].drain => slot'[u].drain

\* spawnIntoState(s) gives slot s the key and the drain of the given record.
LEMMA SpawnIntoStateFrame ==
  ASSUME TypeOK, NEW s \in SlotIds, NEW st \in Slot, SpawnIntoState(s, st)
  PROVE  /\ slot'[s].key = st.key /\ slot'[s].drain = st.drain
         /\ \A u \in SlotIds \ {s} : slot'[u] = slot[u]
<1>1. PICK p \in Procs : slot' = [slot EXCEPT ![s] = Started(st, p)]
  BY DEF SpawnIntoState
<1>2. Started(st, p).key = st.key /\ Started(st, p).drain = st.drain
  BY DEF Started, Slot
<1> QED BY <1>1, <1>2 DEF TypeOK

\* Filling an existing slot changes no key and ends no drain.
LEMMA RefillFrame ==
  ASSUME TypeOK, NEW s \in SlotIds, NEW st \in Slot, SpawnIntoState(s, st),
         st.key = slot[s].key, st.drain = slot[s].drain
  PROVE  SameKeys /\ DrainsOn
  BY SpawnIntoStateFrame DEF SameKeys, DrainsOn

\* A graceful shutdown changes no key, ends no drain, and is itself a drain if
\* there is a process to wait for.
LEMMA GracefulShutdownFrame ==
  ASSUME TypeOK, NEW s \in SlotIds, GracefulShutdown(s)
  PROVE  SameKeys /\ DrainsOn /\ (slot[s].process # NoProc => slot'[s].drain)
<1>1. slot[s] \in Slot
  BY DEF TypeOK
<1>2. CASE slot[s].process = NoProc
  <2> DEFINE ended == [slot[s] EXCEPT !.status = "terminated"]
  <2>1. ended \in Slot /\ ended.key = slot[s].key /\ ended.drain = slot[s].drain
    BY <1>1 DEF Slot, Statuses
  <2>2. slot' = [slot EXCEPT ![s] = ResetCrashTracking(ended)]
    BY <1>2 DEF GracefulShutdown, TypeOK
  <2> HIDE DEF ended
  <2> QED BY <1>2, <2>1, <2>2, ResetType DEF TypeOK, SameKeys, DrainsOn
<1>3. CASE slot[s].process # NoProc /\ slot[s].drain
  BY <1>3 DEF GracefulShutdown, SameKeys, DrainsOn
<1>4. CASE slot[s].process # NoProc /\ ~slot[s].drain
  BY <1>1, <1>4 DEF GracefulShutdown, TypeOK, Slot, SameKeys, DrainsOn
<1> QED BY <1>2, <1>3, <1>4

\* spawn(key) ends no drain.
LEMMA SpawnDrainsOn ==
  ASSUME TypeOK, NEW key \in Keys, Spawn(key)
  PROVE  DrainsOn
<1>1. CASE SpawnExisting(key)
  <2>1. PICK s \in agentState : SpawnIntoState(s, slot[s])
    BY <1>1 DEF SpawnExisting
  <2> QED BY <2>1, RefillFrame DEF TypeOK
<1>2. CASE SpawnNew(key)
  <2> DEFINE s == nslots + 1
             st == [slot[s] EXCEPT !.key = key]
  <2>1. s \in SlotIds
    BY <1>2, NumbersAssumption DEF SpawnNew, TypeOK, SlotIds
  <2>2. st \in Slot /\ st.drain = slot[s].drain
    BY <2>1 DEF TypeOK, Slot
  <2>3. SpawnIntoState(s, st)
    BY <1>2 DEF SpawnNew
  <2> HIDE DEF s, st
  <2> QED BY <2>1, <2>2, <2>3, SpawnIntoStateFrame DEF DrainsOn
<1> QED BY <1>1, <1>2 DEF Spawn

\* A drain that settles, by its ack or by its timer, ends only itself.
LEMMA DrainedFrame ==
  ASSUME TypeOK, NEW s \in SlotIds, NEW st \in Slot, st.key = slot[s].key,
         slot' = [slot EXCEPT ![s] = st]
  PROVE  SameKeys /\ \A u \in SlotIds \ {s} : slot'[u] = slot[u]
  BY DEF TypeOK, SameKeys

\* The key of a drained slot whose crash tracking is reset as well.
LEMMA AckedType ==
  ASSUME NEW st \in Slot
  PROVE  /\ ResetCrashTracking(Drained(st)) \in Slot
         /\ ResetCrashTracking(Drained(st)).key = st.key
  BY DrainedType, ResetType

\* The exit of a process and the passing of time change no key and no drain.
LEMMA ExitFrame ==
  ASSUME TypeOK, NEW p \in Procs, NEW clean \in BOOLEAN, ProcessExit(p, clean)
  PROVE  SameKeys /\ DrainsOn
<1>1. slot' = [slot EXCEPT ![proc[p].slot] = OnExit(slot[proc[p].slot], clean)]
  BY DEF ProcessExit
<1> QED BY <1>1, OnExitType DEF TypeOK, SameKeys, DrainsOn

\* See ExitFrame.
LEMMA TickFrame ==
  ASSUME TypeOK, Tick PROVE SameKeys /\ DrainsOn
  BY DEF TypeOK, Tick, Slot, SameKeys, DrainsOn

-----------------------------------------------------------------------------
(* Nobody waits in vain *)

\* No task starts to wait in this step.
NoNewWait ==
  \A t \in Tasks : task'[t].pc = "await" =>
    task[t].pc = "await" /\ task'[t].at = task[t].at

\* A step that ends no drain and starts no wait.
LEMMA ArmedFrame ==
  ASSUME TypeOK, AwaitIsArmed, DrainsOn, NoNewWait
  PROVE  AwaitIsArmed'
<1>1. \A t \in Tasks : task[t].at # 0 => task[t].at \in SlotIds
  BY NumbersAssumption DEF TypeOK, Task, SlotIds
<1> QED BY <1>1 DEF AwaitIsArmed, DrainsOn, NoNewWait

\* A task that begins to wait does so on a slot that is being drained.
LEMMA AwaitShutdownArmed ==
  ASSUME TypeOK, AwaitIsArmed, NEW t \in Tasks, NEW s \in SlotIds,
         NEW todo \in SUBSET SlotIds, AwaitShutdown(t, s, todo)
  PROVE  AwaitIsArmed'
<1>1. DrainsOn /\ (slot[s].process # NoProc => slot'[s].drain)
  BY GracefulShutdownFrame DEF AwaitShutdown
<1>2. \A u \in Tasks \ {t} : task'[u] = task[u]
  BY DEF AwaitShutdown, TypeOK
<1>3. /\ task'[t].at = s
      /\ task'[t].pc = IF slot[s].process = NoProc THEN "ready" ELSE "await"
  BY DEF AwaitShutdown, TypeOK, Task
<1>4. s # 0 /\ \A u \in Tasks : task[u].at # 0 => task[u].at \in SlotIds
  BY NumbersAssumption DEF TypeOK, Task, SlotIds
<1> QED BY <1>1, <1>2, <1>3, <1>4 DEF AwaitIsArmed, DrainsOn

\* A drain that settles wakes everyone who awaited it.
LEMMA WakeArmed ==
  ASSUME TypeOK, AwaitIsArmed, NEW s \in SlotIds, Wake(s),
         \A u \in SlotIds \ {s} : slot'[u] = slot[u]
  PROVE  AwaitIsArmed'
<1>1. \A t \in Tasks : task[t].at # 0 => task[t].at \in SlotIds
  BY NumbersAssumption DEF TypeOK, Task, SlotIds
<1>2. \A t \in Tasks : task'[t].pc = "await" =>
        task[t].pc = "await" /\ task[t].at # s /\ task'[t] = task[t]
  BY DEF Wake, TypeOK, Task
<1> QED BY <1>1, <1>2 DEF AwaitIsArmed

\* Every step leaves whoever waits with a drain that is still pending.
LEMMA ArmedStep ==
  ASSUME TypeOK, AwaitIsArmed, [Next]_vars PROVE AwaitIsArmed'
<1>0. slot \in [SlotIds -> Slot] /\ agentState \subseteq SlotIds
  BY DEF TypeOK
<1>a. ASSUME UNCHANGED task PROVE NoNewWait
  BY <1>a DEF NoNewWait
<1>b. ASSUME UNCHANGED slot PROVE DrainsOn
  BY <1>b DEF DrainsOn
<1>c. ASSUME NEW t \in Tasks, NEW pc \in RunPcs \cup {"idle", "done"},
             Goto(t, pc) \/ Finish(t, pc)
      PROVE  NoNewWait
  BY <1>c DEF Goto, Finish, NoNewWait, TypeOK, Task, RunPcs
<1>1. ASSUME NEW key \in Keys, Route(key) PROVE AwaitIsArmed'
  BY <1>1, <1>a, SpawnDrainsOn, ArmedFrame DEF Route
<1>2. ASSUME NEW s \in SlotIds, HandleShutdown(s) PROVE AwaitIsArmed'
  BY <1>2, <1>a, GracefulShutdownFrame, ArmedFrame DEF HandleShutdown
<1>3. ASSUME NEW s \in SlotIds, GraceTimeout(s) PROVE AwaitIsArmed'
  <2>1. slot' = [slot EXCEPT ![s] = Drained(slot[s])] /\ Wake(s)
    BY <1>3 DEF GraceTimeout
  <2> QED BY <1>0, <2>1, DrainedType, DrainedFrame, WakeArmed
<1>4. ASSUME NEW p \in Procs, SendShutdownAck(p) PROVE AwaitIsArmed'
  BY <1>4, <1>a, <1>b, ArmedFrame DEF SendShutdownAck
<1>5. ASSUME NEW p \in Procs, HandleShutdownAck(p) PROVE AwaitIsArmed'
  <2>1. ASSUME NEW s \in agentState,
               slot' = [slot EXCEPT ![s] = ResetCrashTracking(Drained(@))], Wake(s)
        PROVE  AwaitIsArmed'
    <3>1. s \in SlotIds /\ slot[s] \in Slot
      BY <1>0
    <3> QED BY <2>1, <3>1, AckedType, DrainedFrame, WakeArmed
  <2>2. CASE UNCHANGED <<slot, task>>
    BY <2>2, <1>a, <1>b, ArmedFrame
  <2> QED BY <1>5, <2>1, <2>2 DEF HandleShutdownAck
<1>6. ASSUME NEW p \in Procs, NEW clean \in BOOLEAN, ProcessExit(p, clean)
      PROVE  AwaitIsArmed'
  BY <1>6, <1>a, ExitFrame, ArmedFrame DEF ProcessExit
<1>7. CASE Tick
  BY <1>7, <1>a, TickFrame, ArmedFrame DEF Tick
<1>8. ASSUME NEW t \in Reconciles, ReconcileStart(t) PROVE AwaitIsArmed'
  <2>1. t \in Tasks
    BY DEF Tasks
  <2>2. NoNewWait
    BY <1>8, <2>1 DEF ReconcileStart, NoNewWait, TypeOK, Task
  <2> QED BY <1>8, <1>b, <2>2, ArmedFrame DEF ReconcileStart
<1>9. ASSUME NEW t \in Reconciles, ReconcileStep(t) PROVE AwaitIsArmed'
  <2>0. t \in Tasks
    BY DEF Tasks
  <2>1. CASE ReconcileMissing(t)
    <3>1. ASSUME NEW a \in Missing, Spawn(<<a, DefaultInstance>>), UNCHANGED task
          PROVE  AwaitIsArmed'
      <4>1. <<a, DefaultInstance>> \in Keys
        BY NamesAssumption DEF Missing, Keys
      <4> QED BY <3>1, <4>1, <1>a, SpawnDrainsOn, ArmedFrame
    <3>2. CASE Goto(t, "scan") /\ UNCHANGED <<agentState, slot, nslots, proc>>
      BY <2>0, <3>2, <1>b, <1>c, ArmedFrame DEF RunPcs
    <3> QED BY <2>1, <3>1, <3>2 DEF ReconcileMissing
  <2>2. ASSUME NEW s \in SlotIds, ReconcileSlot(t, s) PROVE AwaitIsArmed'
    <3>1. CASE AwaitShutdown(t, s, {})
      BY <2>0, <3>1, AwaitShutdownArmed
    <3>2. CASE task' = [task EXCEPT ![t].at = s]
      <4>1. NoNewWait
        BY <2>0, <2>2, <3>2 DEF ReconcileSlot, NoNewWait, TypeOK, Task
      <4>2. CASE SpawnIntoState(s, slot[s])
        BY <1>0, <4>1, <4>2, RefillFrame, ArmedFrame
      <4>3. CASE UNCHANGED slot
        BY <1>b, <4>1, <4>3, ArmedFrame
      <4> QED BY <2>2, <3>1, <3>2, <4>2, <4>3 DEF ReconcileSlot
    <3> QED BY <2>2, <3>1, <3>2 DEF ReconcileSlot
  <2>3. CASE ReconcileResume(t)
    BY <2>0, <2>3, <1>b, <1>c, ArmedFrame DEF ReconcileResume, RunPcs
  <2>4. CASE ReconcileEnd(t)
    BY <2>0, <2>4, <1>b, <1>c, ArmedFrame DEF ReconcileEnd
  <2> QED BY <1>9, <2>1, <2>2, <2>3, <2>4 DEF ReconcileStep
<1>10. ASSUME NEW t \in Restarts, NEW names \in SUBSET Agents, RestartStart(t, names)
       PROVE  AwaitIsArmed'
  <2>1. t \in Tasks
    BY DEF Tasks
  <2>2. NoNewWait
    BY <1>10, <2>1 DEF RestartStart, NoNewWait, TypeOK, Task
  <2> QED BY <1>10, <1>b, <2>2, ArmedFrame DEF RestartStart
<1>11. ASSUME NEW t \in Restarts, RestartStep(t) PROVE AwaitIsArmed'
  <2>0. t \in Tasks
    BY DEF Tasks
  <2>1. CASE RestartName(t)
    <3>1. CASE Finish(t, "idle")
      BY <2>0, <2>1, <3>1, <1>b, <1>c, ArmedFrame DEF RestartName
    <3>2. ASSUME NEW a \in task[t].names,
                 task' = [task EXCEPT ![t].pc = "each", ![t].names = @ \ {a},
                            ![t].todo = {s \in agentState : AgentOf(s) = a}]
          PROVE  AwaitIsArmed'
      <4>1. NoNewWait
        BY <2>0, <3>2 DEF NoNewWait, TypeOK, Task
      <4> QED BY <2>1, <4>1, <1>b, ArmedFrame DEF RestartName
    <3> QED BY <2>1, <3>1, <3>2 DEF RestartName
  <2>2. CASE RestartSlot(t)
    <3>1. ASSUME NEW s \in task[t].todo, AwaitShutdown(t, s, task[t].todo \ {s})
          PROVE  AwaitIsArmed'
      <4>1. s \in SlotIds /\ task[t].todo \ {s} \in SUBSET SlotIds
        BY <2>0 DEF TypeOK, Task
      <4> QED BY <2>0, <3>1, <4>1, AwaitShutdownArmed
    <3>2. CASE Goto(t, "names") /\ UNCHANGED <<slot, proc>>
      BY <2>0, <3>2, <1>b, <1>c, ArmedFrame DEF RunPcs
    <3> QED BY <2>2, <3>1, <3>2 DEF RestartSlot
  <2>3. CASE RestartResume(t)
    <3> DEFINE s == task[t].at
               st == [slot[s] EXCEPT !.crashes = 0]
    <3>1. NoNewWait
      BY <2>0, <2>3, <1>c DEF RestartResume, RunPcs
    <3>2. CASE s \in SlotIds
      <4>1. st \in Slot /\ st.key = slot[s].key /\ st.drain = slot[s].drain
        BY <1>0, <3>2, ZeroCrashes DEF Slot
      <4>2. SpawnIntoState(s, st)
        BY <2>3 DEF RestartResume
      <4> HIDE DEF s, st
      <4> QED BY <3>1, <3>2, <4>1, <4>2, RefillFrame, ArmedFrame
    <3>3. CASE s \notin SlotIds
      <4>1. UNCHANGED slot
        BY <1>0, <2>3, <3>3 DEF RestartResume, SpawnIntoState
      <4> QED BY <1>b, <3>1, <4>1, ArmedFrame
    <3> QED BY <3>2, <3>3
  <2> QED BY <1>11, <2>1, <2>2, <2>3 DEF RestartStep
<1>12. CASE ShutdownStart \/ ShutdownStep
  <2>0. Stopper \in Tasks
    BY DEF Tasks
  <2>1. ASSUME NEW s \in SlotIds, ShutdownSlot(s) PROVE AwaitIsArmed'
    BY <2>0, <2>1, AwaitShutdownArmed DEF ShutdownSlot
  <2>2. CASE ShutdownStart
    <3>1. NoNewWait
      BY <2>0, <2>2 DEF ShutdownStart, NoNewWait, TypeOK, Task
    <3> QED BY <2>2, <3>1, <1>b, ArmedFrame DEF ShutdownStart
  <2>3. CASE ShutdownResume
    BY <2>0, <2>3, <1>b, <1>c, ArmedFrame DEF ShutdownResume, RunPcs
  <2>4. CASE ShutdownEnd
    BY <2>0, <2>4, <1>b, <1>c, ArmedFrame DEF ShutdownEnd
  <2> QED BY <1>12, <2>1, <2>2, <2>3, <2>4 DEF ShutdownStep
<1>13. CASE UNCHANGED <<slot, task>>
  BY <1>13, <1>a, <1>b, ArmedFrame
<1> QED BY <1>1, <1>2, <1>3, <1>4, <1>5, <1>6, <1>7, <1>8, <1>9, <1>10, <1>11,
           <1>12, <1>13 DEF Next, ConnectorExit, vars

\* No lost wake-up: every caller of gracefulShutdown that still waits has the
\* drain, and with it the grace timer, still ahead of it.
THEOREM AwaitArmed == Spec => []AwaitIsArmed
<1>1. Init => AwaitIsArmed
  BY DEF Init, AwaitIsArmed
<1>2. TypeOK /\ AwaitIsArmed /\ [Next]_vars => AwaitIsArmed'
  BY ArmedStep
<1> QED BY <1>1, <1>2, TypeCorrect, PTL DEF Spec

-----------------------------------------------------------------------------
(* Wanted agents keep their slots *)

\* The pass of t waits for a drain, or has been waiting until now.
Drains(t) == task[t].pc \in {"await", "ready"}

\* What a reconciliation remembers over an await is of an agent nobody wants.
AwaitedIsUnwanted ==
  \A t \in Reconciles : Drains(t) =>
    task[t].at \in 1..nslots /\ AgentOf(task[t].at) \notin Desired

\* The strengthening: slots are numbered in the order in which they were added,
\* so a new one is never a slot the map holds already, nor one that is awaited.
MapKept == agentState \subseteq 1..nslots /\ WantedIsKept /\ AwaitedIsUnwanted

\* No reconciliation begins to wait in this step.
NoNewDrain ==
  \A t \in Reconciles : Drains(t)' => Drains(t) /\ task'[t].at = task[t].at

LEMMA SlotsAreNumbered ==
  ASSUME TypeOK PROVE nslots \in Nat /\ 1..nslots \subseteq SlotIds
  BY NumbersAssumption DEF TypeOK, SlotIds

LEMMA AgentsStay ==
  ASSUME SameKeys PROVE \A s \in SlotIds : AgentOf(s)' = AgentOf(s)
  BY DEF SameKeys, AgentOf

\* A step that adds and drops no slot and changes no key.
LEMMA MapFrame ==
  ASSUME TypeOK, MapKept, SameKeys, NoNewDrain, UNCHANGED <<agentState, nslots>>
  PROVE  MapKept'
<1>1. WantedIsKept'
  BY SlotsAreNumbered, AgentsStay DEF MapKept, WantedIsKept
<1>2. AwaitedIsUnwanted'
  BY SlotsAreNumbered, AgentsStay DEF MapKept, AwaitedIsUnwanted, NoNewDrain
<1> QED BY <1>1, <1>2 DEF MapKept

\* Steps that start no wait.
LEMMA TasksStay ==
  ASSUME UNCHANGED task PROVE NoNewDrain
  BY DEF NoNewDrain, Drains

LEMMA TaskGoes ==
  ASSUME TypeOK, NEW t \in Tasks, NEW pc \in RunPcs \cup {"idle", "done"},
         Goto(t, pc) \/ Finish(t, pc)
  PROVE  NoNewDrain
  BY DEF Goto, Finish, NoNewDrain, Drains, TypeOK, Task, Tasks, RunPcs

LEMMA WakeStartsNoWait ==
  ASSUME TypeOK, NEW s \in SlotIds, Wake(s) PROVE NoNewDrain
  BY DEF Wake, NoNewDrain, Drains, TypeOK, Task, Tasks

\* Another task's step.
LEMMA OthersGo ==
  ASSUME TypeOK, NEW t \in Tasks \ Reconciles, \A u \in Tasks \ {t} : task'[u] = task[u]
  PROVE  NoNewDrain
  BY DEF NoNewDrain, Drains, Tasks

\* spawn(key) adds a slot only if the map holds none for the key.
LEMMA SpawnMap ==
  ASSUME TypeOK, MapKept, NEW key \in Keys, Spawn(key), UNCHANGED task
  PROVE  MapKept'
<1>0. agentState \subseteq SlotIds /\ slot \in [SlotIds -> Slot]
  BY DEF TypeOK
<1>1. CASE SpawnExisting(key)
  <2>1. PICK s \in agentState : SpawnIntoState(s, slot[s])
    BY <1>1 DEF SpawnExisting
  <2>2. SameKeys
    BY <1>0, <2>1, RefillFrame
  <2> QED BY <1>1, <2>2, TasksStay, MapFrame DEF SpawnExisting
<1>2. CASE SpawnNew(key) /\ ~Has(key)
  <2> DEFINE n == nslots + 1
             st == [slot[n] EXCEPT !.key = key]
  <2>1. n \in SlotIds /\ nslots \in Nat
    BY <1>2, NumbersAssumption DEF SpawnNew, TypeOK, SlotIds
  <2>2. st \in Slot /\ st.key = key
    BY <1>0, <2>1 DEF Slot
  <2>3. SpawnIntoState(n, st) /\ nslots' = n /\ agentState' = agentState \cup {n}
    BY <1>2 DEF SpawnNew, Has
  <2>4. agentState' \subseteq 1..nslots' /\ 1..nslots' = 1..nslots \cup {n} /\ n \notin 1..nslots
    BY <2>1, <2>3 DEF MapKept
  <2> HIDE DEF n, st
  <2>5. \A u \in SlotIds \ {n} : slot'[u] = slot[u]
    BY <2>1, <2>2, <2>3, SpawnIntoStateFrame
  <2>6. \A u \in 1..nslots : AgentOf(u)' = AgentOf(u)
    BY <2>4, <2>5, SlotsAreNumbered DEF AgentOf
  <2>7. WantedIsKept'
    BY <2>3, <2>4, <2>6 DEF MapKept, WantedIsKept
  <2>8. AwaitedIsUnwanted'
    BY <2>4, <2>6 DEF MapKept, AwaitedIsUnwanted, Drains
  <2> QED BY <2>4, <2>7, <2>8 DEF MapKept
<1> QED BY <1>1, <1>2 DEF Spawn

\* restart() and shutdown(), which await a graceful shutdown, leave the map as it is.
LEMMA AwaitShutdownMap ==
  ASSUME TypeOK, MapKept, NEW t \in Tasks \ Reconciles, NEW s \in SlotIds, NEW todo,
         AwaitShutdown(t, s, todo), UNCHANGED <<agentState, nslots>>
  PROVE  MapKept'
<1>1. NoNewDrain
  BY OthersGo DEF AwaitShutdown, TypeOK
<1> QED BY <1>1, GracefulShutdownFrame, MapFrame DEF AwaitShutdown

\* reconcile() drains what is in the map and nobody wants.
LEMMA ReconcileDrains ==
  ASSUME TypeOK, MapKept, NEW t \in Reconciles, NEW s \in agentState, NEW todo,
         AgentOf(s) \notin Desired, AwaitShutdown(t, s, todo), UNCHANGED <<agentState, nslots>>
  PROVE  MapKept'
<1>1. s \in SlotIds /\ s \in 1..nslots
  BY DEF TypeOK, MapKept
<1>2. SameKeys
  BY <1>1, GracefulShutdownFrame DEF AwaitShutdown
<1>3. task'[t].at = s /\ \A u \in Reconciles \ {t} : task'[u] = task[u]
  BY DEF AwaitShutdown, TypeOK, Task, Tasks
<1>4. WantedIsKept'
  BY <1>2, SlotsAreNumbered, AgentsStay DEF MapKept, WantedIsKept
<1>5. AwaitedIsUnwanted'
  BY <1>1, <1>2, <1>3, SlotsAreNumbered, AgentsStay DEF MapKept, AwaitedIsUnwanted, Drains
<1> QED BY <1>4, <1>5 DEF MapKept

\* A key that is deleted after the await is of an agent nobody wants.
LEMMA ReconcileDeletes ==
  ASSUME TypeOK, MapKept, NEW t \in Reconciles, ReconcileResume(t)
  PROVE  MapKept'
<1>1. AgentOf(task[t].at) \notin Desired
  BY DEF ReconcileResume, MapKept, AwaitedIsUnwanted, Drains
<1>2. \A s \in agentState \ agentState' : AgentOf(s) \notin Desired
  BY <1>1 DEF ReconcileResume, AgentOf
<1>3. \A s : AgentOf(s)' = AgentOf(s)
  BY DEF ReconcileResume, AgentOf
<1>4. NoNewDrain
  BY TaskGoes DEF ReconcileResume, RunPcs, Tasks
<1>5. WantedIsKept'
  BY <1>2, <1>3 DEF ReconcileResume, MapKept, WantedIsKept
<1>6. AwaitedIsUnwanted'
  BY <1>3, <1>4 DEF ReconcileResume, MapKept, AwaitedIsUnwanted, NoNewDrain
<1> QED BY <1>5, <1>6 DEF ReconcileResume, MapKept

\* Every step keeps the map.
LEMMA MapStep ==
  ASSUME TypeOK, MapKept, [Next]_vars PROVE MapKept'
<1>0. slot \in [SlotIds -> Slot] /\ agentState \subseteq SlotIds /\ task \in [Tasks -> Task]
  BY DEF TypeOK
<1>a. ASSUME UNCHANGED slot PROVE SameKeys
  BY <1>a DEF SameKeys
<1>1. ASSUME NEW key \in Keys, Route(key) PROVE MapKept'
  BY <1>1, SpawnMap DEF Route
<1>2. ASSUME NEW s \in SlotIds, HandleShutdown(s) PROVE MapKept'
  BY <1>2, GracefulShutdownFrame, TasksStay, MapFrame DEF HandleShutdown
<1>3. ASSUME NEW s \in SlotIds, GraceTimeout(s) PROVE MapKept'
  <2>1. slot' = [slot EXCEPT ![s] = Drained(slot[s])]
    BY <1>3 DEF GraceTimeout
  <2>2. SameKeys
    BY <1>0, <2>1, DrainedType, DrainedFrame
  <2> QED BY <1>3, <2>2, WakeStartsNoWait, MapFrame DEF GraceTimeout
<1>4. ASSUME NEW p \in Procs, HandleShutdownAck(p) PROVE MapKept'
  <2>1. ASSUME NEW s \in agentState,
               slot' = [slot EXCEPT ![s] = ResetCrashTracking(Drained(@))], Wake(s)
        PROVE  SameKeys /\ NoNewDrain
    BY <1>0, <2>1, AckedType, DrainedFrame, WakeStartsNoWait
  <2>2. SameKeys /\ NoNewDrain
    BY <1>4, <1>a, <2>1, TasksStay DEF HandleShutdownAck
  <2> QED BY <1>4, <2>2, MapFrame DEF HandleShutdownAck
<1>5. ASSUME NEW p \in Procs, NEW clean \in BOOLEAN, ProcessExit(p, clean)
      PROVE  MapKept'
  BY <1>5, ExitFrame, TasksStay, MapFrame DEF ProcessExit
<1>6. CASE Tick
  BY <1>6, TickFrame, TasksStay, MapFrame DEF Tick
<1>7. ASSUME NEW t \in Reconciles, ReconcileStep(t) PROVE MapKept'
  <2>0. t \in Tasks
    BY DEF Tasks
  <2>1. CASE ReconcileMissing(t)
    <3>1. ASSUME NEW a \in Missing, Spawn(<<a, DefaultInstance>>), UNCHANGED task PROVE MapKept'
      <4>1. <<a, DefaultInstance>> \in Keys
        BY NamesAssumption DEF Missing, Keys
      <4> QED BY <3>1, <4>1, SpawnMap
    <3>2. CASE Goto(t, "scan") /\ UNCHANGED <<agentState, slot, nslots, proc>>
      BY <2>0, <3>2, <1>a, TaskGoes, MapFrame DEF RunPcs
    <3> QED BY <2>1, <3>1, <3>2 DEF ReconcileMissing
  <2>2. ASSUME NEW s \in SlotIds, ReconcileSlot(t, s) PROVE MapKept'
    <3>1. CASE AgentOf(s) \notin Desired /\ AwaitShutdown(t, s, {})
      BY <2>2, <3>1, ReconcileDrains DEF ReconcileSlot, IsNext
    <3>2. ASSUME task' = [task EXCEPT ![t].at = s] PROVE NoNewDrain
      BY <2>0, <2>2, <3>2 DEF ReconcileSlot, NoNewDrain, Drains, TypeOK, Task
    <3>3. CASE SpawnIntoState(s, slot[s]) /\ task' = [task EXCEPT ![t].at = s]
      BY <1>0, <2>2, <3>2, <3>3, RefillFrame, MapFrame DEF ReconcileSlot
    <3>4. CASE UNCHANGED <<slot, proc>> /\ task' = [task EXCEPT ![t].at = s]
      BY <2>2, <3>2, <3>4, <1>a, MapFrame DEF ReconcileSlot
    <3> QED BY <2>2, <3>1, <3>3, <3>4 DEF ReconcileSlot
  <2>3. CASE ReconcileResume(t)
    BY <2>3, ReconcileDeletes
  <2>4. CASE ReconcileEnd(t)
    BY <2>0, <2>4, <1>a, TaskGoes, MapFrame DEF ReconcileEnd, RunPcs
  <2> QED BY <1>7, <2>1, <2>2, <2>3, <2>4 DEF ReconcileStep
<1>8. ASSUME NEW t \in Restarts, RestartStep(t) PROVE MapKept'
  <2>0. t \in Tasks \ Reconciles
    BY TasksAssumption DEF Tasks
  <2>a. NoNewDrain
    <3>1. \A u \in Tasks \ {t} : task'[u] = task[u]
      BY <1>8, <2>0 DEF RestartStep, RestartName, RestartSlot, RestartResume, AwaitShutdown,
                        Goto, Finish, TypeOK
    <3> QED BY <2>0, <3>1, OthersGo
  <2>1. CASE RestartName(t)
    BY <2>1, <2>a, <1>a, MapFrame DEF RestartName
  <2>2. CASE RestartSlot(t)
    <3>1. ASSUME NEW s \in task[t].todo, AwaitShutdown(t, s, task[t].todo \ {s})
          PROVE  MapKept'
      <4>1. s \in SlotIds
        BY <1>0, <2>0 DEF Task
      <4> QED BY <2>0, <2>2, <3>1, <4>1, AwaitShutdownMap DEF RestartSlot
    <3>2. CASE UNCHANGED <<slot, proc>>
      BY <2>2, <2>a, <3>2, <1>a, MapFrame DEF RestartSlot
    <3> QED BY <2>2, <3>1, <3>2 DEF RestartSlot
  <2>3. CASE RestartResume(t)
    <3> DEFINE s == task[t].at
               st == [slot[s] EXCEPT !.crashes = 0]
    <3>1. CASE s \in SlotIds
      <4>1. st \in Slot /\ st.key = slot[s].key /\ st.drain = slot[s].drain
        BY <1>0, <3>1, ZeroCrashes DEF Slot
      <4>2. SpawnIntoState(s, st) /\ UNCHANGED <<agentState, nslots>>
        BY <2>3 DEF RestartResume
      <4> HIDE DEF s, st
      <4> QED BY <2>a, <3>1, <4>1, <4>2, RefillFrame, MapFrame
    <3>2. CASE s \notin SlotIds
      <4>1. UNCHANGED slot
        BY <1>0, <2>3, <3>2 DEF RestartResume, SpawnIntoState
      <4> QED BY <1>a, <2>a, <2>3, <4>1, MapFrame DEF RestartResume
    <3> QED BY <3>1, <3>2
  <2> QED BY <1>8, <2>1, <2>2, <2>3 DEF RestartStep
<1>9. ASSUME NEW s \in SlotIds, ShutdownSlot(s) PROVE MapKept'
  <2>1. Stopper \in Tasks \ Reconciles
    BY TasksAssumption DEF Tasks
  <2> QED BY <1>9, <2>1, AwaitShutdownMap DEF ShutdownSlot
<1>10. CASE UNCHANGED <<agentState, slot, nslots>> /\ NoNewDrain
  BY <1>10, <1>a, MapFrame
<1>11. ASSUME \/ \E p \in Procs : SendShutdownAck(p)
              \/ \E c \in Connectors : ConnectorExit(c)
              \/ UNCHANGED vars
       PROVE MapKept'
  BY <1>10, <1>11, TasksStay DEF SendShutdownAck, ConnectorExit, vars
<1>12. ASSUME NEW t \in Reconciles, ReconcileStart(t) PROVE MapKept'
  <2>1. NoNewDrain
    BY <1>12 DEF ReconcileStart, NoNewDrain, Drains, TypeOK, Task, Tasks
  <2> QED BY <1>10, <1>12, <2>1 DEF ReconcileStart
<1>13. ASSUME NEW t \in Restarts, NEW names \in SUBSET Agents, RestartStart(t, names)
       PROVE  MapKept'
  <2>1. t \in Tasks \ Reconciles /\ \A u \in Tasks \ {t} : task'[u] = task[u]
    BY <1>13, TasksAssumption DEF RestartStart, Tasks, TypeOK
  <2> QED BY <1>10, <1>13, <2>1, OthersGo DEF RestartStart
<1>14. CASE ShutdownStart \/ ShutdownResume \/ ShutdownEnd
  <2>1. Stopper \in Tasks \ Reconciles /\ \A u \in Tasks \ {Stopper} : task'[u] = task[u]
    BY <1>14, TasksAssumption DEF ShutdownStart, ShutdownResume, ShutdownEnd, Goto, Finish, Tasks, TypeOK
  <2> QED BY <1>10, <1>14, <2>1, OthersGo DEF ShutdownStart, ShutdownResume, ShutdownEnd
<1> QED BY <1>1, <1>2, <1>3, <1>4, <1>5, <1>6, <1>7, <1>8, <1>9, <1>11, <1>12, <1>13, <1>14
        DEF Next, ShutdownStep

\* The object of a wanted agent never leaves the map, however route(), reconcile()
\* and restart() interleave: orchestrator.ts:86-111, 196-199.
THEOREM WantedStay == Spec => []WantedIsKept
<1>1. ASSUME Init PROVE MapKept
  <2>1. agentState = {} /\ 1..nslots = {}
    BY <1>1 DEF Init
  <2>2. \A t \in Reconciles : ~Drains(t)
    BY <1>1 DEF Init, Drains, Tasks
  <2> QED BY <2>1, <2>2 DEF MapKept, WantedIsKept, AwaitedIsUnwanted
<1>2. TypeOK /\ MapKept /\ [Next]_vars => MapKept'
  BY MapStep
<1>3. MapKept => WantedIsKept
  BY DEF MapKept
<1> QED BY <1>1, <1>2, <1>3, TypeCorrect, PTL DEF Spec
=============================================================================

------------------------ MODULE RuntimeControlProofs ------------------------
(* Proofs about RuntimeControl, for any swarms, keys, processes, commands and events. *)
EXTENDS RuntimeControl, TLAPS

USE DEF Strangers

-----------------------------------------------------------------------------
(* The inductive invariant *)

RecordOK(r) ==
  /\ r \in Process
  /\ r.st = "free" => ~r.wasReady /\ r.next = None
  /\ r.st # "free" => r.key \in Keys /\ r.swarm \in Swarms
  /\ r.out = "ready" => r.wasReady

\* A runner's replacement has been forked, and its id is not used again as long
\* as the runner runs; it is recorded when it is ready.
LinkOK(p) ==
  /\ proc[p].next \in Pids => proc[proc[p].next].st # "free"
  /\ proc[p].next \in Pids /\ Runs(p) => proc[proc[p].next].st \notin Strangers
  /\ proc[p].st = "recording" => proc[p].next \in Pids /\ proc[proc[p].next].wasReady

StartSteps == {"fork", "waiting", "write"}
KillSteps == {"check", "signal", "drain"}

\* Where a command may be, and what it then knows.
CommandOK(c) ==
  /\ cmd[c].op = "none" => cmd[c].pc \in {"idle", "done", "failed"}
  /\ cmd[c].op = "run" => cmd[c].pc \in {"read"} \cup StartSteps
  /\ cmd[c].op = "restart" => cmd[c].pc \in {"read", "term", "grace", "clear"} \cup StartSteps
  /\ cmd[c].op = "delete" => cmd[c].pc \in {"read", "unlink", "list", "each", "remove"} \cup KillSteps
  /\ cmd[c].op = "run" \/ (cmd[c].op = "restart" /\ cmd[c].pc # "read") =>
       cmd[c].key \in Keys /\ cmd[c].swarm \in Swarms
  /\ cmd[c].op = "restart" /\ cmd[c].pc # "read" => cmd[c].prev \in Pids
  /\ cmd[c].op = "delete" => cmd[c].key \in Keys

\* The runner a command has forked is its own, whatever its key in the bundle is by now.
ChildOK(c) ==
  cmd[c].pc \in {"waiting", "write"} =>
    /\ cmd[c].child \in Pids
    /\ proc[cmd[c].child].st # "free"
    /\ proc[cmd[c].child].key = cmd[c].key
    /\ cmd[c].pc = "waiting" => proc[cmd[c].child].st \notin Strangers
    /\ cmd[c].pc = "write" => proc[cmd[c].child].wasReady

\* The processes a delete is about to signal are runners, and those that ran when
\* it began are gone or still to be looked at.
DeleteOK(c) ==
  cmd[c].op = "delete" =>
    /\ \A p \in cmd[c].before \cup cmd[c].todo : proc[p].st # "free"
    /\ cmd[c].pc = "read" => cmd[c].prev = None
    /\ cmd[c].prev \in Pids => proc[cmd[c].prev].st # "free"
    /\ cmd[c].pc \in KillSteps => cmd[c].prev \in Pids
    /\ cmd[c].pc \in {"signal", "drain"} =>
         cmd[c].prev \in cmd[c].tree /\ \A p \in cmd[c].tree : proc[p].st \notin {"free", "other"}
    /\ (cmd[c].pc \in {"unlink", "list"} \/ cmd[c].blind) /\ cmd[c].prev \in Pids => ~Runs(cmd[c].prev)
    /\ cmd[c].pc = "remove" => cmd[c].todo = {}
    /\ cmd[c].pc \in {"each", "remove"} => cmd[c].listed
    /\ cmd[c].blind => cmd[c].pc \in {"each", "remove"} /\ cmd[c].todo = {}
    /\ cmd[c].listed /\ ~cmd[c].blind =>
         \A p \in cmd[c].before : Runs(p) /\ proc[p].key = cmd[c].key =>
           p \in cmd[c].todo \/ (cmd[c].pc \in KillSteps /\ p = cmd[c].prev)

Control ==
  /\ TypeOK /\ ActiveWasReady
  /\ \A p \in Pids : RecordOK(proc[p]) /\ LinkOK(p)
  /\ \A c \in Commands : CommandOK(c) /\ ChildOK(c) /\ DeleteOK(c)

-----------------------------------------------------------------------------
(* What a step may make of the processes *)

\* A process keeps its key and is never started again.
Later(r, s) ==
  /\ s.key = r.key /\ s.swarm = r.swarm
  /\ r.wasReady => s.wasReady
  /\ s.st = "free" <=> r.st = "free"
  /\ r.st \in {"dead"} \cup Strangers => s.st \in {"dead"} \cup Strangers

Born(p) ==
  proc[p].st = "free" /\ proc'[p].st = "starting" /\ proc'[p].next = None /\ ~ proc'[p].wasReady

Moves ==
  /\ proc' \in [Pids -> Process]
  /\ \A p \in Pids : RecordOK(proc'[p]) /\ (Later(proc[p], proc'[p]) \/ Born(p))
  /\ \A p \in Pids : proc'[p].next = proc[p].next \/ (proc'[p].next \in Pids /\ Born(proc'[p].next))
  /\ \A p \in Pids : proc'[p].st = "recording" =>
       \/ proc[p].st = "recording" /\ proc'[p].next = proc[p].next
       \/ proc'[p].next \in Pids /\ proc'[proc'[p].next].wasReady
  /\ \A p \in Pids : proc'[p].st \in Strangers /\ proc'[p].st # proc[p].st => ~Watched(p)

LEMMA MovesKeepProcesses ==
  ASSUME Control, Moves
  PROVE  \A p \in Pids : RecordOK(proc[p])' /\ LinkOK(p)'
<1> SUFFICES ASSUME NEW p \in Pids PROVE RecordOK(proc'[p]) /\ LinkOK(p)'
  BY DEF RecordOK
<1>1. RecordOK(proc'[p])
  BY DEF Moves
<1>2. RecordOK(proc[p]) /\ LinkOK(p) /\ (Later(proc[p], proc'[p]) \/ Born(p))
  BY DEF Control, Moves
<1>3. None \notin Pids
  BY ControlAssumption
<1>4. ASSUME proc'[p].next \in Pids
      PROVE  /\ proc'[proc'[p].next].st # "free"
             /\ Runs(p)' => proc'[proc'[p].next].st \notin Strangers
  <2>1. CASE Born(proc'[p].next)
    BY <2>1 DEF Born, Strangers
  <2>2. CASE proc'[p].next = proc[p].next
    <3>1. PICK q \in Pids : q = proc[p].next
      BY <1>4, <2>2
    <3>2. proc[q].st # "free" /\ (Runs(p) => proc[q].st \notin Strangers)
      BY <1>2, <3>1 DEF LinkOK
    <3>3. Later(proc[q], proc'[q]) /\ proc'[q].st # "free"
      BY <3>2 DEF Moves, Later, Born
    <3>4. Runs(p)' => Runs(p)
      BY <1>2, <1>3, <1>4, <2>2 DEF Runs, Alive, Later, Born, Strangers
    <3>5. Runs(p)' => proc'[q].st \notin Strangers
      BY <3>1, <3>2, <3>4 DEF Moves, Watched
    <3> QED BY <2>2, <3>1, <3>3, <3>5
  <2> QED BY <2>1, <2>2 DEF Moves
<1>5. ASSUME proc'[p].st = "recording"
      PROVE  proc'[p].next \in Pids /\ proc'[proc'[p].next].wasReady
  <2>1. CASE proc[p].st = "recording" /\ proc'[p].next = proc[p].next
    <3>1. PICK q \in Pids : q = proc[p].next
      BY <1>2, <2>1 DEF LinkOK
    <3>2. proc[q].wasReady /\ RecordOK(proc[q])
      BY <1>2, <2>1, <3>1 DEF LinkOK, Control
    <3>3. proc'[q].wasReady
      BY <3>2 DEF Moves, Later, Born, RecordOK
    <3> QED BY <2>1, <3>1, <3>3
  <2> QED BY <1>5, <2>1 DEF Moves
<1> QED BY <1>1, <1>4, <1>5 DEF LinkOK

LEMMA MovesKeepRuns ==
  ASSUME Moves, NEW p \in Pids, proc[p].st # "free"
  PROVE  /\ proc'[p].st # "free" /\ proc'[p].key = proc[p].key
         /\ proc[p].wasReady => proc'[p].wasReady
         /\ Runs(p)' => Runs(p)
         /\ Watched(p) /\ proc[p].st # "other" => proc'[p].st # "other"
         /\ Watched(p) /\ proc[p].st \notin Strangers => proc'[p].st \notin Strangers
BY DEF Moves, Later, Born, Runs, Alive, Strangers

LEMMA MovesKeepCommand ==
  ASSUME Control, Moves, NEW c \in Commands, cmd'[c] = cmd[c]
  PROVE  CommandOK(c)' /\ ChildOK(c)' /\ DeleteOK(c)'
<1>1. CommandOK(c) /\ ChildOK(c) /\ DeleteOK(c) /\ cmd[c] \in Command
  BY DEF Control, TypeOK
<1>2. PICK r \in Command : r = cmd[c] /\ r = cmd'[c]
  BY <1>1
<1>3. \A p \in Pids : proc[p].st # "free" =>
        /\ proc'[p].st # "free" /\ proc'[p].key = proc[p].key
        /\ proc[p].wasReady => proc'[p].wasReady
        /\ Runs(p)' => Runs(p)
        /\ Watched(p) /\ proc[p].st # "other" => proc'[p].st # "other"
        /\ Watched(p) /\ proc[p].st \notin Strangers => proc'[p].st \notin Strangers
  BY MovesKeepRuns
<1>4. CommandOK(c)'
  BY <1>1, <1>2 DEF CommandOK
<1>5. ChildOK(c)'
  BY <1>1, <1>2, <1>3 DEF ChildOK, Watched
<1>6. DeleteOK(c)'
  <2> SUFFICES ASSUME r.op = "delete" PROVE DeleteOK(c)'
    BY <1>2 DEF DeleteOK
  <2>1. /\ r.before \subseteq Pids /\ r.todo \subseteq Pids /\ r.tree \subseteq Pids
        /\ r.pc \in {"signal", "drain"} => \A p \in r.tree : Watched(p)
    BY <1>2 DEF Command, Watched
  <2>2. /\ \A p \in r.before \cup r.todo : proc[p].st # "free"
        /\ r.pc = "read" => r.prev = None
        /\ r.prev \in Pids => proc[r.prev].st # "free"
        /\ r.pc \in KillSteps => r.prev \in Pids
        /\ r.pc \in {"signal", "drain"} =>
             r.prev \in r.tree /\ \A p \in r.tree : proc[p].st \notin {"free", "other"}
        /\ (r.pc \in {"unlink", "list"} \/ r.blind) /\ r.prev \in Pids => ~Runs(r.prev)
        /\ r.pc = "remove" => r.todo = {}
        /\ r.pc \in {"each", "remove"} => r.listed
        /\ r.blind => r.pc \in {"each", "remove"} /\ r.todo = {}
        /\ r.listed /\ ~r.blind => \A p \in r.before : Runs(p) /\ proc[p].key = r.key =>
             p \in r.todo \/ (r.pc \in KillSteps /\ p = r.prev)
    BY <1>1, <1>2 DEF DeleteOK
  <2>3. \A p \in r.before \cup r.todo : proc'[p].st # "free"
    BY <1>3, <2>1, <2>2
  <2>4. r.prev \in Pids => proc'[r.prev].st # "free"
    BY <1>3, <2>2
  <2>5. r.pc \in {"signal", "drain"} => \A p \in r.tree : proc'[p].st \notin {"free", "other"}
    BY <1>3, <2>1, <2>2
  <2>6. (r.pc \in {"unlink", "list"} \/ r.blind) /\ r.prev \in Pids => ~Runs(r.prev)'
    BY <1>3, <2>2
  <2>7. \A p \in r.before : Runs(p)' /\ proc'[p].key = r.key => Runs(p) /\ proc[p].key = r.key
    BY <1>3, <2>1, <2>2
  <2> QED BY <1>2, <2>2, <2>3, <2>4, <2>5, <2>6, <2>7 DEF DeleteOK
<1> QED BY <1>4, <1>5, <1>6

LEMMA MovesKeepActive ==
  ASSUME Control, Moves, active' = active
  PROVE  ActiveWasReady'
<1>1. CASE active = None
  BY <1>1 DEF ActiveWasReady
<1>2. CASE active # None
  <2>1. active.pid \in Pids /\ proc[active.pid].wasReady /\ proc[active.pid].key = active.key
    BY <1>2 DEF Control, TypeOK, Active, ActiveWasReady
  <2>2. RecordOK(proc[active.pid])
    BY <2>1 DEF Control
  <2>3. Later(proc[active.pid], proc'[active.pid])
    BY <2>1, <2>2 DEF Moves, Born, RecordOK
  <2> QED BY <2>1, <2>3 DEF ActiveWasReady, Later
<1> QED BY <1>1, <1>2

LEMMA NothingMoves ==
  ASSUME Control, proc' = proc
  PROVE  Moves
BY DEF Control, TypeOK, Moves, Later, RecordOK

-----------------------------------------------------------------------------
(* One process *)

LEMMA DeadRecord ==
  ASSUME NEW r, RecordOK(r), r.st # "free"
  PROVE  /\ RecordOK(Dead(r)) /\ Later(r, Dead(r)) /\ Dead(r).st = "dead"
         /\ Dead(r).next = r.next /\ Dead(r).out = r.out /\ Dead(r).wasReady = r.wasReady
<1> DEFINE left == IF r.kid = "live" THEN "orphan" ELSE r.kid
           s == [r EXCEPT !.st = "dead", !.armed = FALSE, !.restart = FALSE, !.broken = FALSE,
                          !.by = None, !.kid = left]
<1>1. r \in Process
  BY DEF RecordOK
<1>2. left \in {"none", "live", "orphan"} /\ Dead(r) = s
  BY <1>1 DEF Dead, Process
<1>3. s \in Process
  <2> HIDE DEF left
  <2> QED BY <1>1, <1>2 DEF Process
<1>4. /\ s.st = "dead" /\ s.next = r.next /\ s.out = r.out /\ s.wasReady = r.wasReady
      /\ s.key = r.key /\ s.swarm = r.swarm
  <2> HIDE DEF left
  <2> QED BY <1>1 DEF Process
<1> HIDE DEF s
<1>5. RecordOK(s)
  BY <1>3, <1>4 DEF RecordOK
<1>6. Later(r, s)
  BY <1>4 DEF Later
<1> QED BY <1>2, <1>4, <1>5, <1>6

LEMMA SignalledRecord ==
  ASSUME NEW r, RecordOK(r), r.st # "free"
  PROVE  /\ RecordOK(Signalled(r)) /\ Later(r, Signalled(r))
         /\ Signalled(r).st \in {r.st, "stopping", "dead"} /\ Signalled(r).next = r.next
<1>1. CASE r.armed
  <2> DEFINE s == [r EXCEPT !.armed = FALSE, !.st = IF @ = "ready" THEN "stopping" ELSE @]
  <2>1. RecordOK(s) /\ Later(r, s) /\ s.st \in {r.st, "stopping"} /\ s.next = r.next
    BY DEF RecordOK, Later, Process
  <2>2. Signalled(r) = s
    BY <1>1 DEF Signalled
  <2> HIDE DEF s
  <2> QED BY <2>1, <2>2
<1>2. CASE ~r.armed
  BY <1>2, DeadRecord DEF Signalled
<1> QED BY <1>1, <1>2

LEMMA KidlessRecord ==
  ASSUME NEW r, RecordOK(r)
  PROVE  LET s == [r EXCEPT !.kid = "none"] IN
         RecordOK(s) /\ Later(r, s) /\ s.st = r.st /\ s.next = r.next
BY DEF RecordOK, Later, Process

\* A step of one process that neither forks nor ends as another's.
LEMMA OneMoves ==
  ASSUME Control, NEW p \in Pids, NEW s, RecordOK(s), Later(proc[p], s),
         s.next = proc[p].next, s.st \notin {"recording"} \cup Strangers \/ s.st = proc[p].st,
         proc' = [proc EXCEPT ![p] = s]
  PROVE  Moves
<1>1. /\ proc \in [Pids -> Process] /\ s \in Process
      /\ \A q \in Pids : RecordOK(proc[q]) /\ Later(proc[q], proc[q]) /\ LinkOK(q)
  BY DEF Control, TypeOK, RecordOK, Later
<1>2. proc' \in [Pids -> Process] /\ proc'[p] = s /\ \A q \in Pids : q # p => proc'[q] = proc[q]
  BY <1>1
<1>3. \A q \in Pids : RecordOK(proc'[q]) /\ Later(proc[q], proc'[q])
  BY <1>1, <1>2
<1>4. \A q \in Pids : proc'[q].next = proc[q].next
  BY <1>2
<1>5. \A q \in Pids : proc'[q].st \in {"recording"} \cup Strangers => proc'[q].st = proc[q].st
  BY <1>2
<1> QED BY <1>2, <1>3, <1>4, <1>5 DEF Moves

\* Signals to several.
LEMMA SignalsMove ==
  ASSUME Control, NEW ps \in SUBSET Pids, NEW hit \in SUBSET Pids,
         proc' = SigTerm(ps, hit) \/ proc' = SigKill(ps, hit)
  PROVE  /\ Moves
         /\ \A p \in Pids : proc'[p].st = proc[p].st \/ p \in ps
         /\ proc' = SigKill(ps, hit) => \A p \in ps : ~Runs(p)'
<1> DEFINE Sent(p) == IF p \in ps /\ Alive(p)
                      THEN IF proc' = SigKill(ps, hit) THEN Dead(proc[p]) ELSE Signalled(proc[p])
                      ELSE proc[p]
           Left(p) == IF p \in hit THEN [Sent(p) EXCEPT !.kid = "none"] ELSE Sent(p)
<1>1. proc' = [p \in Pids |-> Left(p)]
  BY DEF SigTerm, SigKill
<1>2. \A p \in Pids : RecordOK(proc[p])
  BY DEF Control
<1>3. ASSUME NEW p \in Pids
      PROVE  /\ RecordOK(Sent(p)) /\ Later(proc[p], Sent(p)) /\ Sent(p).next = proc[p].next
             /\ Sent(p).st \in {proc[p].st, "stopping", "dead"}
             /\ p \notin ps => Sent(p).st = proc[p].st
             /\ p \in ps /\ proc' = SigKill(ps, hit) => Sent(p).st \in {"dead", "free"}
  <2>1. RecordOK(proc[p]) /\ Later(proc[p], proc[p])
    BY <1>2 DEF Later
  <2>2. CASE p \in ps /\ Alive(p) /\ proc' = SigKill(ps, hit)
    BY <2>1, <2>2, DeadRecord DEF Alive
  <2>3. CASE p \in ps /\ Alive(p) /\ proc' # SigKill(ps, hit)
    BY <2>1, <2>3, SignalledRecord DEF Alive
  <2>4. CASE ~(p \in ps /\ Alive(p))
    BY <2>1, <2>4, ControlAssumption DEF Alive
  <2> QED BY <2>2, <2>3, <2>4
<1> HIDE DEF Sent
<1>4. ASSUME NEW p \in Pids
      PROVE  /\ RecordOK(Left(p)) /\ Later(proc[p], Left(p)) /\ Left(p).next = proc[p].next
             /\ Left(p).st = Sent(p).st
  <2>1. PICK r : r = Sent(p)
    OBVIOUS
  <2>2. LET s == [r EXCEPT !.kid = "none"] IN RecordOK(s) /\ Later(r, s) /\ s.st = r.st /\ s.next = r.next
    BY <1>3, <2>1, KidlessRecord
  <2>3. Later(proc[p], r) /\ Later(r, [r EXCEPT !.kid = "none"]) => Later(proc[p], [r EXCEPT !.kid = "none"])
    BY DEF Later
  <2> QED BY <1>3, <2>1, <2>2, <2>3
<1> HIDE DEF Left
<1>5. \A p \in Pids : proc'[p] = Left(p)
  BY <1>1
<1>6. \A p \in Pids : /\ RecordOK(proc'[p]) /\ Later(proc[p], proc'[p]) /\ proc'[p].next = proc[p].next
                      /\ proc'[p].st \in {"recording"} \cup Strangers => proc'[p].st = proc[p].st
  BY <1>3, <1>4, <1>5
<1>7. proc' \in [Pids -> Process]
  BY <1>1, <1>5, <1>6 DEF RecordOK
<1>8. Moves
  BY <1>6, <1>7 DEF Moves
<1>9. \A p \in Pids : proc'[p].st = proc[p].st \/ p \in ps
  BY <1>3, <1>4, <1>5
<1>10. proc' = SigKill(ps, hit) => \A p \in ps : ~Runs(p)'
  BY <1>3, <1>4, <1>5 DEF Runs, Alive
<1> QED BY <1>8, <1>9, <1>10

LEMMA ForkedRecord ==
  ASSUME NEW k \in Keys, NEW s \in Swarms, NEW b \in Pids \cup Commands \cup {None}, NEW leader \in BOOLEAN,
         NEW f, f = Forked(k, s, b, leader)
  PROVE  RecordOK(f) /\ f.st = "starting" /\ f.next = None /\ f.key = k /\ f.swarm = s /\ ~f.wasReady
BY ControlAssumption DEF Forked, Free, RecordOK, Process

LEMMA ForkMoves ==
  ASSUME Control, NEW q \in Pids, proc[q].st = "free",
         NEW f, RecordOK(f), f.st = "starting", f.next = None, ~f.wasReady,
         proc' = [proc EXCEPT ![q] = f]
  PROVE  Moves /\ Born(q)
<1>1. /\ proc \in [Pids -> Process] /\ f \in Process
      /\ \A p \in Pids : RecordOK(proc[p]) /\ Later(proc[p], proc[p])
  BY DEF Control, TypeOK, RecordOK, Later
<1>2. proc' \in [Pids -> Process] /\ proc'[q] = f /\ \A p \in Pids : p # q => proc'[p] = proc[p]
  BY <1>1
<1>3. Born(q)
  BY <1>1, <1>2 DEF Born
<1>4. proc[q].next = None
  BY <1>1 DEF RecordOK
<1>5. \A p \in Pids : proc'[p].next = proc[p].next
  BY <1>1, <1>2, <1>4
<1>6. \A p \in Pids : proc'[p].st \in {"recording"} \cup Strangers => proc'[p].st = proc[p].st
  BY <1>1, <1>2
<1>7. \A p \in Pids : RecordOK(proc'[p]) /\ (Later(proc[p], proc'[p]) \/ Born(p))
  BY <1>1, <1>2, <1>3
<1> QED BY <1>2, <1>3, <1>5, <1>6, <1>7 DEF Moves

-----------------------------------------------------------------------------
(* The steps of a runner *)

LEMMA RunnerMoves ==
  ASSUME Control, NEW p \in Pids, RunnerStep(p)
  PROVE  Moves
<1> DEFINE r == proc[p]
<1>1. RecordOK(r) /\ Later(r, r) /\ LinkOK(p) /\ r \in Process /\ proc \in [Pids -> Process]
  BY DEF Control, TypeOK, Later, RecordOK
<1>2. \A q \in Pids : RecordOK(proc[q]) /\ LinkOK(q)
  BY DEF Control
<1>3. None \notin Pids
  BY ControlAssumption
<1>4. CASE RunnerReady(p)
  <2> DEFINE up == [r EXCEPT !.st = "ready", !.armed = TRUE, !.wasReady = TRUE]
             said == [up EXCEPT !.out = "ready"]
  <2>1. r.st = "starting"
    BY <1>4 DEF RunnerReady
  <2>2. RecordOK(up) /\ Later(r, up) /\ up.next = r.next /\ up.st = "ready"
    BY <1>1, <2>1 DEF RecordOK, Later, Process
  <2>3. RecordOK(said) /\ Later(r, said) /\ said.next = r.next /\ said.st = "ready"
    BY <1>1, <2>1 DEF RecordOK, Later, Process
  <2>4. \/ proc' = [proc EXCEPT ![p] = said]
        \/ proc' = [proc EXCEPT ![p] = up]
        \/ proc' = [proc EXCEPT ![p] = Dead(r)]
    BY <1>4 DEF RunnerReady
  <2>5. CASE proc' = [proc EXCEPT ![p] = said]
    <3> HIDE DEF said
    <3> QED BY <2>3, <2>5, OneMoves
  <2>6. CASE proc' = [proc EXCEPT ![p] = up]
    <3> HIDE DEF up
    <3> QED BY <2>2, <2>6, OneMoves
  <2>7. CASE proc' = [proc EXCEPT ![p] = Dead(r)]
    BY <1>1, <2>1, <2>7, OneMoves, DeadRecord
  <2> QED BY <2>4, <2>5, <2>6, <2>7
<1>5. CASE RunnerFails(p)
  <2> DEFINE s == [Dead(r) EXCEPT !.out = "error"]
  <2>1. r.st = "starting" /\ proc' = [proc EXCEPT ![p] = s]
    BY <1>5 DEF RunnerFails
  <2>2. RecordOK(Dead(r)) /\ Later(r, Dead(r)) /\ Dead(r).st = "dead" /\ Dead(r).next = r.next
    BY <1>1, <2>1, DeadRecord
  <2>3. \A d : RecordOK(d) => LET e == [d EXCEPT !.out = "error"] IN
          RecordOK(e) /\ e.st = d.st /\ e.next = d.next /\ (Later(r, d) => Later(r, e))
    BY DEF RecordOK, Process, Later
  <2>4. RecordOK(s) /\ Later(r, s) /\ s.st = "dead" /\ s.next = r.next
    BY <2>2, <2>3
  <2> HIDE DEF s
  <2> QED BY <2>1, <2>4, OneMoves
<1>6. CASE KidStarts(p)
  <2> DEFINE s == [r EXCEPT !.kid = "live"]
  <2>1. proc' = [proc EXCEPT ![p] = s]
    BY <1>1, <1>6 DEF KidStarts
  <2>2. RecordOK(s) /\ Later(r, s) /\ s.st = r.st /\ s.next = r.next
    BY <1>1 DEF RecordOK, Later, Process
  <2> HIDE DEF s
  <2> QED BY <2>1, <2>2, OneMoves
<1>7. CASE KidWrites(p)
  <2> DEFINE s == [r EXCEPT !.kid = IF @ = "orphan" THEN "none" ELSE @]
  <2>1. proc' = [proc EXCEPT ![p] = s]
    BY <1>1, <1>7 DEF KidWrites
  <2>2. RecordOK(s) /\ Later(r, s) /\ s.st = r.st /\ s.next = r.next
    BY <1>1 DEF RecordOK, Later, Process
  <2> HIDE DEF s
  <2> QED BY <2>1, <2>2, OneMoves
<1>8. CASE RequestRestart(p)
  <2> DEFINE a == [r EXCEPT !.restart = TRUE]
             s == Signalled(a)
  <2>1. proc' = [proc EXCEPT ![p] = s] /\ r.st \in {"ready", "stopping"}
    BY <1>8 DEF RequestRestart
  <2>2. RecordOK(a) /\ Later(r, a) /\ a.st = r.st /\ a.next = r.next
    BY <1>1 DEF RecordOK, Later, Process
  <2> HIDE DEF a
  <2>3. RecordOK(s) /\ Later(a, s) /\ s.st \in {"ready", "stopping", "dead"} /\ s.next = a.next
    BY <2>1, <2>2, SignalledRecord
  <2> HIDE DEF s
  <2>4. Later(r, s)
    BY <2>2, <2>3 DEF Later
  <2> QED BY <2>1, <2>2, <2>3, <2>4, OneMoves
<1>9. CASE ConnectorEnds(p, TRUE) \/ ConnectorEnds(p, FALSE)
  <2>1. PICK b \in BOOLEAN : ConnectorEnds(p, b)
    BY <1>9
  <2> DEFINE s == [r EXCEPT !.st = "stopping", !.broken = b]
  <2>2. proc' = [proc EXCEPT ![p] = s] /\ r.st = "ready"
    BY <1>1, <2>1 DEF ConnectorEnds
  <2>3. RecordOK(s) /\ Later(r, s) /\ s.st = "stopping" /\ s.next = r.next
    BY <1>1, <2>2 DEF RecordOK, Later, Process
  <2> HIDE DEF s
  <2> QED BY <2>2, <2>3, OneMoves
<1>10. CASE Stopped(p)
  <2> DEFINE d == IF r.restart /\ ~r.broken THEN [r EXCEPT !.st = "replacing"] ELSE Dead(r)
             s == [d EXCEPT !.kid = "none"]
  <2>1. proc' = [proc EXCEPT ![p] = s] /\ r.st = "stopping"
    BY <1>10 DEF Stopped
  <2>2. RecordOK(d) /\ Later(r, d) /\ d.st \in {"replacing", "dead"} /\ d.next = r.next
    <3>1. CASE r.restart /\ ~r.broken
      BY <1>1, <2>1, <3>1 DEF RecordOK, Later, Process
    <3>2. CASE ~(r.restart /\ ~r.broken)
      BY <1>1, <2>1, <3>2, DeadRecord
    <3> QED BY <3>1, <3>2
  <2> HIDE DEF d
  <2>3. RecordOK(s) /\ Later(d, s) /\ s.st = d.st /\ s.next = d.next
    BY <2>2, KidlessRecord
  <2> HIDE DEF s
  <2>4. Later(r, s)
    BY <2>2, <2>3 DEF Later
  <2> QED BY <2>1, <2>2, <2>3, <2>4, OneMoves
<1>11. CASE \E q \in Pids : Replace(p, q)
  <2>1. PICK q \in Pids : Replace(p, q)
    BY <1>11
  <2> DEFINE f == Forked(keyOf[r.swarm], r.swarm, p, TRUE)
             s == [r EXCEPT !.next = q]
  <2>2. /\ proc[q].st = "free" /\ r.st = "replacing"
        /\ proc' = [proc EXCEPT ![q] = f, ![p].next = q]
    BY <2>1 DEF Replace, NextFree
  <2>3. p # q /\ r.swarm \in Swarms /\ keyOf[r.swarm] \in Keys
    BY <1>1, <2>2 DEF RecordOK, Control, TypeOK
  <2>4. RecordOK(f) /\ f.st = "starting" /\ f.next = None /\ ~f.wasReady
    <3>1. PICK k \in Keys, w \in Swarms, b \in Pids \cup Commands \cup {None}, leader \in BOOLEAN :
            k = keyOf[r.swarm] /\ w = r.swarm /\ b = p /\ leader = TRUE
      BY <2>3
    <3>2. f = Forked(k, w, b, leader)
      BY <3>1
    <3> HIDE DEF f
    <3> QED BY <3>2, ForkedRecord
  <2> HIDE DEF f
  <2>5. RecordOK(s) /\ Later(r, s) /\ s.st = r.st /\ s.next = q
    BY <1>1, <2>2 DEF RecordOK, Later, Process
  <2>6. /\ proc' \in [Pids -> Process] /\ proc'[q] = f /\ proc'[p] = s
        /\ \A x \in Pids : x # p /\ x # q => proc'[x] = proc[x]
    BY <1>1, <2>2, <2>3, <2>4, <2>5 DEF RecordOK
  <2> HIDE DEF s
  <2>7. Born(q)
    BY <2>2, <2>4, <2>6 DEF Born
  <2>8. proc[q].next = None /\ \A x \in Pids : Later(proc[x], proc[x])
    BY <1>2, <2>2 DEF RecordOK, Later
  <2>9. \A x \in Pids : proc'[x].st \in {"recording"} \cup Strangers => proc'[x].st = proc[x].st /\ x # p
    BY <2>2, <2>4, <2>5, <2>6
  <2>10. \A x \in Pids : RecordOK(proc'[x]) /\ (Later(proc[x], proc'[x]) \/ Born(x))
    <3> TAKE x \in Pids
    <3>1. CASE x = p
      BY <2>5, <2>6, <3>1
    <3>2. CASE x = q
      BY <2>4, <2>6, <2>7, <3>2
    <3>3. CASE x # p /\ x # q
      BY <1>2, <2>6, <2>8, <3>3
    <3> QED BY <3>1, <3>2, <3>3
  <2>11. \A x \in Pids : proc'[x].next = proc[x].next \/ (proc'[x].next \in Pids /\ Born(proc'[x].next))
    BY <2>4, <2>5, <2>6, <2>7, <2>8
  <2>12. \A x \in Pids : proc'[x].st = "recording" => proc[x].st = "recording" /\ proc'[x].next = proc[x].next
    BY <2>4, <2>6, <2>9
  <2> QED BY <2>6, <2>9, <2>10, <2>11, <2>12 DEF Moves
<1>12. CASE ReplacementReady(p)
  <2> DEFINE q == r.next
             t == [proc[q] EXCEPT !.out = "none", !.by = None]
             s == [r EXCEPT !.st = "recording"]
  <2>1. /\ r.st = "replacing" /\ q # None /\ proc[q].out = "ready"
        /\ proc' = [proc EXCEPT ![q].out = "none", ![q].by = None, ![p].st = "recording"]
    BY <1>12 DEF ReplacementReady
  <2>2. q \in Pids /\ proc[q] \in Process
    BY <1>1, <2>1 DEF Process
  <2> HIDE DEF q
  <2>3. proc[q].wasReady /\ RecordOK(proc[q])
    BY <1>2, <2>1, <2>2 DEF RecordOK
  <2>4. RecordOK(t) /\ Later(proc[q], t) /\ t.st = proc[q].st /\ t.next = proc[q].next /\ t.wasReady
    BY <2>2, <2>3 DEF RecordOK, Later, Process
  <2>5. RecordOK(s) /\ Later(r, s) /\ s.st = "recording" /\ s.next = q /\ (r.wasReady => s.wasReady)
    BY <1>1, <2>1 DEF RecordOK, Later, Process, q
  <2>6. CASE p # q
    <3>1. proc' = [proc EXCEPT ![q] = t, ![p] = s]
      BY <1>1, <2>1, <2>2, <2>6
    <3> HIDE DEF t, s
    <3>2. /\ proc' \in [Pids -> Process] /\ proc'[q] = t /\ proc'[p] = s
          /\ \A x \in Pids : x # p /\ x # q => proc'[x] = proc[x]
      BY <1>1, <2>2, <2>4, <2>5, <2>6, <3>1 DEF RecordOK
    <3>3. \A x \in Pids : Later(proc[x], proc[x]) /\ RecordOK(proc[x])
      BY <1>2 DEF Later
    <3>4. \A x \in Pids : RecordOK(proc'[x]) /\ Later(proc[x], proc'[x]) /\ proc'[x].next = proc[x].next
      BY <2>4, <2>5, <3>2, <3>3 DEF q
    <3>5. \A x \in Pids : proc'[x].st \in Strangers => proc[x].st = proc'[x].st
      BY <2>4, <2>5, <3>2
    <3>6. \A x \in Pids : x # p /\ proc'[x].st = "recording" => proc[x].st = "recording"
      BY <2>4, <3>2
    <3>7. proc'[p].next \in Pids /\ proc'[proc'[p].next].wasReady
      BY <2>2, <2>4, <2>5, <3>2
    <3> QED BY <3>2, <3>4, <3>5, <3>6, <3>7 DEF Moves
  <2>7. CASE p = q
    <3> DEFINE u == [r EXCEPT !.out = "none", !.by = None, !.st = "recording"]
    <3>1. proc' = [proc EXCEPT ![p] = u]
      BY <1>1, <2>1, <2>2, <2>7
    <3>2. RecordOK(u) /\ Later(r, u) /\ u.st = "recording" /\ u.next = q /\ u.wasReady /\ q = r.next
      BY <1>1, <2>1, <2>3, <2>7 DEF RecordOK, Later, Process, q
    <3> HIDE DEF u
    <3>3. proc' \in [Pids -> Process] /\ proc'[p] = u /\ \A x \in Pids : x # p => proc'[x] = proc[x]
      BY <1>1, <3>1, <3>2 DEF RecordOK
    <3>4. \A x \in Pids : RecordOK(proc[x]) /\ Later(proc[x], proc[x])
      BY <1>2 DEF Later
    <3>5. \A x \in Pids : RecordOK(proc'[x]) /\ Later(proc[x], proc'[x]) /\ proc'[x].next = proc[x].next
      BY <3>2, <3>3, <3>4
    <3>6. \A x \in Pids : /\ proc'[x].st \in Strangers => proc[x].st = proc'[x].st
                          /\ x # p /\ proc'[x].st = "recording" => proc[x].st = "recording"
      BY <3>2, <3>3
    <3>7. proc'[p].next \in Pids /\ proc'[proc'[p].next].wasReady
      BY <2>2, <2>7, <3>2, <3>3
    <3> QED BY <3>3, <3>5, <3>6, <3>7 DEF Moves
  <2> QED BY <2>6, <2>7
<1>13. CASE ReplacementFails(p)
  <2>1. proc[p].next \in Pids /\ proc' = SigKill({p, proc[p].next}, {})
    BY <1>1, <1>13 DEF ReplacementFails, Process
  <2> QED BY <2>1, SignalsMove
<1>14. CASE Record(p)
  <2>1. r.st = "recording" /\ proc' = [proc EXCEPT ![p] = Dead(r)]
    BY <1>14 DEF Record
  <2> QED BY <1>1, <2>1, OneMoves, DeadRecord
<1>15. CASE Crash(p)
  <2>1. r.st # "free" /\ proc' = [proc EXCEPT ![p] = Dead(r)]
    BY <1>15 DEF Crash, Runs, Alive
  <2> QED BY <1>1, <2>1, OneMoves, DeadRecord
<1>16. CASE \E stranger \in Strangers : Reuse(p, stranger)
  <2> PICK stranger \in Strangers : Reuse(p, stranger)
    BY <1>16
  <2> DEFINE s == [r EXCEPT !.st = stranger]
  <2>1. r.st = "dead" /\ proc' = [proc EXCEPT ![p] = s] /\ ~Watched(p)
    BY <1>1, <1>16 DEF Reuse
  <2>2. RecordOK(s) /\ Later(r, s) /\ s.st \in Strangers /\ s.next = r.next
    BY <1>1, <2>1 DEF RecordOK, Later, Process, Strangers
  <2> HIDE DEF s
  <2>3. proc' \in [Pids -> Process] /\ proc'[p] = s /\ \A x \in Pids : x # p => proc'[x] = proc[x]
    BY <1>1, <2>1, <2>2 DEF RecordOK
  <2>4. \A x \in Pids : RecordOK(proc[x]) /\ Later(proc[x], proc[x])
    BY <1>2 DEF Later
  <2>5. \A x \in Pids : RecordOK(proc'[x]) /\ Later(proc[x], proc'[x]) /\ proc'[x].next = proc[x].next
    BY <2>2, <2>3, <2>4
  <2>6. \A x \in Pids : /\ proc'[x].st = "recording" => proc[x].st = "recording"
                        /\ proc'[x].st \in Strangers /\ proc'[x].st # proc[x].st => x = p
    BY <2>2, <2>3 DEF Strangers
  <2> QED BY <2>1, <2>3, <2>5, <2>6 DEF Moves
<1> QED BY <1>4, <1>5, <1>6, <1>7, <1>8, <1>9, <1>10, <1>11, <1>12, <1>13, <1>14, <1>15, <1>16 DEF RunnerStep

-----------------------------------------------------------------------------
(* The steps of a command *)

Others(c) ==
  cmd' \in [Commands -> Command] /\ \A d \in Commands : d # c => cmd'[d] = cmd[d]

Well(c) == CommandOK(c) /\ ChildOK(c) /\ DeleteOK(c)

Steps == {"idle", "read", "fork", "waiting", "write", "term", "grace", "clear", "check",
          "signal", "drain", "unlink", "list", "each", "remove", "done", "failed"}

LEMMA EndIsWell ==
  ASSUME Control, NEW c \in Commands, NEW pc \in {"done", "failed"}, End(c, pc)
  PROVE  Others(c) /\ Well(c)'
<1>1. [NotBegun EXCEPT !.pc = pc] \in Command
  BY DEF NotBegun, Command
<1>2. cmd \in [Commands -> Command]
  BY DEF Control, TypeOK
<1>3. Others(c) /\ cmd'[c] = [NotBegun EXCEPT !.pc = pc]
  BY <1>1, <1>2 DEF End, Others
<1>4. cmd'[c].op = "none" /\ cmd'[c].pc = pc
  BY <1>3 DEF NotBegun
<1> QED BY <1>3, <1>4 DEF Well, CommandOK, ChildOK, DeleteOK

LEMMA GotoIs ==
  ASSUME Control, NEW c \in Commands, NEW pc \in Steps, Goto(c, pc)
  PROVE  Others(c) /\ cmd'[c] = [cmd[c] EXCEPT !.pc = pc] /\ cmd[c] \in Command
BY DEF Control, TypeOK, Goto, Others, Command, Steps

LEMMA BeginIsWell ==
  ASSUME Control, NEW c \in Commands,
         \/ \E s \in Swarms, fg \in BOOLEAN : Run(c, s, fg)
         \/ \E fresh \in BOOLEAN : Restart(c, fresh)
         \/ \E k \in Keys : Delete(c, k)
  PROVE  Moves /\ Others(c) /\ Well(c)'
<1> DEFINE Is(r) == r \in Command /\ cmd' = [cmd EXCEPT ![c] = r]
<1>1. proc' = proc /\ cmd \in [Commands -> Command] /\ keyOf \in [Swarms -> Keys]
  BY DEF Control, TypeOK, Run, Restart, Delete, Begin
<1>2. Moves
  BY <1>1, NothingMoves
<1>3. ASSUME NEW r \in Command, cmd' = [cmd EXCEPT ![c] = r]
      PROVE  Others(c) /\ cmd'[c] = r
  BY <1>1, <1>3 DEF Others
<1>4. ASSUME NEW s \in Swarms, NEW fg \in BOOLEAN, Run(c, s, fg)
      PROVE  Others(c) /\ Well(c)'
  <2> DEFINE r == [NotBegun EXCEPT !.op = "run", !.swarm = s, !.key = keyOf[s], !.foreground = fg, !.pc = "read"]
  <2>1. cmd' = [cmd EXCEPT ![c] = r]
    BY <1>4 DEF Run, Begin
  <2>2. r \in Command /\ r.op = "run" /\ r.pc = "read" /\ r.key \in Keys /\ r.swarm \in Swarms
    BY <1>1 DEF NotBegun, Command
  <2> HIDE DEF r
  <2>3. Others(c) /\ cmd'[c] = r
    BY <1>3, <2>1, <2>2
  <2> QED BY <2>2, <2>3 DEF Well, CommandOK, ChildOK, DeleteOK
<1>5. ASSUME NEW fresh \in BOOLEAN, Restart(c, fresh)
      PROVE  Others(c) /\ Well(c)'
  <2> DEFINE r == [NotBegun EXCEPT !.op = "restart", !.fresh = fresh, !.pc = "read"]
  <2>1. cmd' = [cmd EXCEPT ![c] = r]
    BY <1>5 DEF Restart, Begin
  <2>2. r \in Command /\ r.op = "restart" /\ r.pc = "read"
    BY DEF NotBegun, Command
  <2> HIDE DEF r
  <2>3. Others(c) /\ cmd'[c] = r
    BY <1>3, <2>1, <2>2
  <2> QED BY <2>2, <2>3 DEF Well, CommandOK, ChildOK, DeleteOK
<1>6. ASSUME NEW k \in Keys, Delete(c, k)
      PROVE  Others(c) /\ Well(c)'
  <2> DEFINE r == [NotBegun EXCEPT !.op = "delete", !.key = k, !.before = Managed(k), !.pc = "read"]
  <2>1. cmd' = [cmd EXCEPT ![c] = r]
    BY <1>6 DEF Delete, Begin
  <2>2. Managed(k) \subseteq Pids /\ \A p \in Managed(k) : proc[p].st # "free"
    BY DEF Managed, Runs, Alive
  <2>3. /\ r \in Command /\ r.op = "delete" /\ r.pc = "read" /\ r.key = k /\ r.before = Managed(k)
        /\ r.todo = {} /\ r.prev = None /\ r.listed = FALSE /\ r.blind = FALSE
    BY <2>2 DEF NotBegun, Command
  <2> HIDE DEF r
  <2>4. Others(c) /\ cmd'[c] = r
    BY <1>3, <2>1, <2>3
  <2>5. None \notin Pids
    BY ControlAssumption
  <2> QED BY <1>1, <2>2, <2>3, <2>4, <2>5 DEF Well, CommandOK, ChildOK, DeleteOK, KillSteps
<1> QED BY <1>2, <1>4, <1>5, <1>6

LEMMA RunIsWell ==
  ASSUME Control, NEW c \in Commands, RunStep(c)
  PROVE  Moves /\ Others(c) /\ Well(c)'
<1> DEFINE r == cmd[c]
<1>1. CommandOK(c) /\ ChildOK(c) /\ r \in Command /\ proc \in [Pids -> Process]
  BY DEF Control, TypeOK
<1>2. CASE ReadToRun(c)
  <2>1. Moves /\ r.op = "run" /\ proc' = proc
    BY <1>2, NothingMoves DEF ReadToRun
  <2>2. CASE End(c, "failed") \/ End(c, "done")
    BY <2>1, <2>2, EndIsWell
  <2>3. CASE Goto(c, "fork")
    <3>1. Others(c) /\ cmd'[c] = [r EXCEPT !.pc = "fork"]
      BY <2>3, GotoIs DEF Steps
    <3>2. Well(c)'
      BY <1>1, <2>1, <3>1 DEF Well, CommandOK, ChildOK, DeleteOK, StartSteps, Command
    <3> QED BY <2>1, <3>1, <3>2
  <2> QED BY <1>2, <2>2, <2>3 DEF ReadToRun
<1>3. CASE HearReady(c)
  <2> DEFINE q == r.child
             s == [proc[q] EXCEPT !.out = "none", !.by = None]
  <2>1. /\ r.pc = "waiting" /\ proc[q].out = "ready" /\ Goto(c, "write")
        /\ proc' = [proc EXCEPT ![q].out = "none", ![q].by = None]
    BY <1>3 DEF HearReady
  <2>2. q \in Pids /\ proc[q].st # "free" /\ proc[q].key = r.key
    BY <1>1, <2>1 DEF ChildOK
  <2>3. RecordOK(proc[q]) /\ proc[q] \in Process
    BY <2>2 DEF Control, RecordOK
  <2>4. proc' = [proc EXCEPT ![q] = s]
    BY <1>1, <2>1, <2>2
  <2> HIDE DEF q
  <2>5. RecordOK(s) /\ Later(proc[q], s) /\ s.st = proc[q].st /\ s.next = proc[q].next /\ s.wasReady /\ s.key = proc[q].key
    BY <2>1, <2>3 DEF RecordOK, Later, Process
  <2> HIDE DEF s
  <2>6. Moves /\ proc'[q] = s
    BY <1>1, <2>2, <2>4, <2>5, OneMoves
  <2>7. Others(c) /\ cmd'[c] = [r EXCEPT !.pc = "write"]
    BY <2>1, GotoIs DEF Steps
  <2>8. Well(c)'
    BY <1>1, <2>1, <2>2, <2>5, <2>6, <2>7 DEF Well, CommandOK, ChildOK, DeleteOK, StartSteps, KillSteps, Command, q
  <2> QED BY <2>6, <2>7, <2>8
<1>4. CASE HearFailure(c) \/ StartupTimeout(c)
  <2>1. r.pc = "waiting" /\ proc' = SigKill({r.child}, {}) /\ End(c, "failed")
    BY <1>4 DEF HearFailure, StartupTimeout
  <2>2. r.child \in Pids
    BY <1>1, <2>1 DEF ChildOK
  <2> QED BY <2>1, <2>2, SignalsMove, EndIsWell
<1>5. CASE WriteActive(c)
  <2>1. proc' = proc /\ End(c, "done")
    BY <1>5 DEF WriteActive
  <2> QED BY <2>1, NothingMoves, EndIsWell
<1>6. CASE \E p \in Pids : Fork(c, p)
  <2>1. PICK p \in Pids : Fork(c, p)
    BY <1>6
  <2> DEFINE f == Forked(r.key, r.swarm, c, ~r.foreground)
             n == [r EXCEPT !.pc = "waiting", !.child = p]
  <2>2. /\ r.pc = "fork" /\ proc[p].st = "free" /\ proc' = [proc EXCEPT ![p] = f]
        /\ cmd' = [cmd EXCEPT ![c] = n]
    BY <1>1, <2>1 DEF Fork, NextFree, Control, TypeOK
  <2>3. r.key \in Keys /\ r.swarm \in Swarms /\ r.op \in {"run", "restart"} /\ (r.op = "restart" => r.prev \in Pids)
    BY <1>1, <2>2 DEF CommandOK, StartSteps, KillSteps, Command
  <2>4. RecordOK(f) /\ f.st = "starting" /\ f.next = None /\ ~f.wasReady /\ f.key = r.key
    <3>1. PICK k \in Keys, w \in Swarms, b \in Pids \cup Commands \cup {None}, leader \in BOOLEAN :
            k = r.key /\ w = r.swarm /\ b = c /\ leader = (~r.foreground)
      BY <2>3
    <3>2. f = Forked(k, w, b, leader)
      BY <3>1
    <3> HIDE DEF f
    <3>3. RecordOK(f) /\ f.st = "starting" /\ f.next = None /\ ~f.wasReady /\ f.key = k
      BY <3>2, ForkedRecord
    <3> QED BY <3>1, <3>3
  <2> HIDE DEF f
  <2>5. Moves /\ proc'[p] = f
    BY <1>1, <2>2, <2>4, ForkMoves
  <2>6. n \in Command /\ n.pc = "waiting" /\ n.child = p /\ n.key = r.key /\ n.swarm = r.swarm /\ n.op = r.op /\ n.prev = r.prev
    BY <1>1 DEF Command
  <2> HIDE DEF n
  <2>7. Others(c) /\ cmd'[c] = n
    BY <2>2, <2>6 DEF Control, TypeOK, Others
  <2>8. Well(c)'
    BY <2>3, <2>4, <2>5, <2>6, <2>7 DEF Well, CommandOK, ChildOK, DeleteOK, StartSteps
  <2> QED BY <2>5, <2>7, <2>8
<1> QED BY <1>2, <1>3, <1>4, <1>5, <1>6 DEF RunStep

LEMMA RestartIsWell ==
  ASSUME Control, NEW c \in Commands, RestartStep(c)
  PROVE  Moves /\ Others(c) /\ Well(c)'
<1> DEFINE r == cmd[c]
<1>1. CommandOK(c) /\ r \in Command /\ cmd \in [Commands -> Command]
  BY DEF Control, TypeOK
<1>2. CASE ReadToRestart(c)
  <2>1. Moves /\ r.op = "restart" /\ proc' = proc
    BY <1>2, NothingMoves DEF ReadToRestart
  <2>2. CASE active = None
    BY <1>2, <2>1, <2>2, EndIsWell DEF ReadToRestart
  <2>3. CASE active # None
    <3> DEFINE n == [r EXCEPT !.pc = "term", !.prev = active.pid, !.swarm = active.swarm,
                              !.oldKey = active.key, !.key = keyOf[active.swarm]]
    <3>1. active \in Active /\ keyOf[active.swarm] \in Keys
      BY <2>3 DEF Control, TypeOK, Active
    <3>2. cmd' = [cmd EXCEPT ![c] = n]
      BY <1>1, <1>2, <2>3 DEF ReadToRestart
    <3>3. /\ n \in Command /\ n.pc = "term" /\ n.op = "restart" /\ n.key \in Keys /\ n.swarm \in Swarms
          /\ n.prev \in Pids
      BY <1>1, <2>1, <3>1 DEF Command, Active
    <3> HIDE DEF n
    <3>4. Others(c) /\ cmd'[c] = n
      BY <1>1, <3>2, <3>3 DEF Others
    <3>5. Well(c)'
      BY <3>3, <3>4 DEF Well, CommandOK, ChildOK, DeleteOK
    <3> QED BY <2>1, <3>4, <3>5
  <2> QED BY <2>2, <2>3
<1>3. CASE Terminate(c) \/ GraceEnds(c) \/ Clear(c)
  <2>1. r.pc \in {"term", "grace", "clear"} /\ r.op = "restart"
    BY <1>1, <1>3 DEF Terminate, GraceEnds, Clear, CommandOK, StartSteps, KillSteps, Command
  <2>2. PICK pc \in {"grace", "clear", "fork"} : Goto(c, pc)
    BY <1>3 DEF Terminate, GraceEnds, Clear, AfterTermination
  <2>3. Others(c) /\ cmd'[c] = [r EXCEPT !.pc = pc]
    BY <2>2, GotoIs DEF Steps
  <2>4. Well(c)'
    BY <1>1, <2>1, <2>3 DEF Well, CommandOK, ChildOK, DeleteOK, StartSteps, Command
  <2>5. r.prev \in Pids
    BY <1>1, <2>1 DEF CommandOK
  <2>6. proc' = proc \/ proc' = SigTerm({r.prev}, {}) \/ proc' = SigKill({r.prev}, {})
    BY <1>3 DEF Terminate, GraceEnds, Clear
  <2>7. Moves
    BY <2>5, <2>6, NothingMoves, SignalsMove
  <2> QED BY <2>3, <2>4, <2>7
<1> QED BY <1>2, <1>3 DEF RestartStep

LEMMA DeleteIsWell ==
  ASSUME Control, NEW c \in Commands, DeleteStep(c)
  PROVE  Moves /\ Others(c) /\ Well(c)'
<1> DEFINE r == cmd[c]
           n == cmd'[c]
           Gone == {"free", "dead"} \cup Strangers
<1>1. CommandOK(c) /\ DeleteOK(c) /\ r \in Command /\ cmd \in [Commands -> Command]
  BY DEF Control, TypeOK
<1>2. r.op = "delete" /\ r.key \in Keys
  BY <1>1 DEF DeleteStep, ReadToDelete, Check, SignalTree, Drain, Unlink, List, Each, Remove, CommandOK,
              StartSteps, Command
<1>3. None \notin Pids
  BY ControlAssumption
<1>4. /\ r.before \subseteq Pids /\ r.todo \subseteq Pids /\ r.tree \subseteq Pids /\ r.kids \subseteq Pids
      /\ r.prev \in Pids \cup {None}
  BY <1>1 DEF Command
<1>5. /\ \A p \in r.before \cup r.todo : proc[p].st # "free"
      /\ r.pc = "read" => r.prev = None
      /\ r.prev \in Pids => proc[r.prev].st # "free"
      /\ r.pc \in KillSteps => r.prev \in Pids
      /\ r.pc \in {"signal", "drain"} =>
           r.prev \in r.tree /\ \A p \in r.tree : proc[p].st \notin {"free", "other"}
      /\ (r.pc \in {"unlink", "list"} \/ r.blind) /\ r.prev \in Pids => ~Runs(r.prev)
      /\ r.pc = "remove" => r.todo = {}
      /\ r.pc \in {"each", "remove"} => r.listed
      /\ r.blind => r.pc \in {"each", "remove"} /\ r.todo = {}
      /\ r.listed /\ ~r.blind => \A p \in r.before : Runs(p) /\ proc[p].key = r.key =>
           p \in r.todo \/ (r.pc \in KillSteps /\ p = r.prev)
  BY <1>1, <1>2 DEF DeleteOK
\* A step to pc that leaves the command's other fields alone.
<1>6. ASSUME NEW pc \in {"unlink", "list", "each", "drain"}, n = [r EXCEPT !.pc = pc], Moves,
             r.pc \in {"read", "check", "signal", "drain", "unlink"},
             pc = "drain" => r.pc = "signal",
             pc = "each" => r.listed /\ r.pc \in KillSteps /\ proc'[r.prev].st \in Gone,
             pc \in {"unlink", "list"} => (r.prev \in Pids => proc'[r.prev].st \in Gone)
      PROVE  Well(c)'
  <2>1. /\ n.pc = pc /\ n.op = "delete" /\ n.key = r.key /\ n.prev = r.prev /\ n.todo = r.todo
        /\ n.before = r.before /\ n.tree = r.tree /\ n.listed = r.listed /\ ~n.blind /\ ~r.blind
    BY <1>1, <1>2, <1>5, <1>6 DEF Command
  <2>2. r.pc \in {"signal", "drain"} => \A p \in r.tree : Watched(p)
    BY DEF Watched
  <2>3. \A p \in Pids : proc[p].st # "free" =>
          /\ proc'[p].st # "free" /\ proc'[p].key = proc[p].key /\ (Runs(p)' => Runs(p))
          /\ Watched(p) /\ proc[p].st # "other" => proc'[p].st # "other"
    BY <1>6, MovesKeepRuns
  <2>4. /\ \A p \in r.before \cup r.todo : proc'[p].st # "free"
        /\ r.prev \in Pids => proc'[r.prev].st # "free"
    BY <1>4, <1>5, <2>3
  <2>5. pc = "drain" => /\ r.prev \in r.tree /\ r.prev \in Pids
                        /\ \A p \in r.tree : proc'[p].st \notin {"free", "other"}
    BY <1>4, <1>5, <1>6, <2>2, <2>3 DEF KillSteps
  <2>6. r.listed => \A p \in r.before : Runs(p)' /\ proc'[p].key = r.key =>
          p \in r.todo \/ (pc \in KillSteps /\ p = r.prev)
    <3> SUFFICES ASSUME r.listed, NEW p \in r.before, Runs(p)', proc'[p].key = r.key, p \notin r.todo
                 PROVE  pc \in KillSteps /\ p = r.prev
      OBVIOUS
    <3>1. Runs(p) /\ proc[p].key = r.key
      BY <1>4, <1>5, <2>3
    <3>2. p = r.prev
      BY <1>5, <2>1, <3>1
    <3>3. pc = "drain"
      BY <1>4, <1>6, <3>2 DEF Runs, Alive
    <3> QED BY <3>2, <3>3 DEF KillSteps
  <2>7. CommandOK(c)' /\ ChildOK(c)'
    BY <1>2, <1>6, <2>1 DEF CommandOK, ChildOK, KillSteps
  <2>8. DeleteOK(c)'
    <3> HIDE DEF n, r
    <3> USE DEF KillSteps
    <3>1. pc \in {"check", "signal", "drain"} => pc = "drain"
      BY <1>6
    <3>2. pc # "remove" /\ (pc \in {"signal", "drain"} => pc = "drain")
      BY <1>6
    <3> QED BY <1>6, <2>1, <2>4, <2>5, <2>6, <3>1, <3>2 DEF DeleteOK, n, r, Runs, Alive
  <2> QED BY <2>7, <2>8 DEF Well
<1>7. CASE ReadToDelete(c)
  <2>1. Moves /\ proc' = proc /\ r.pc = "read" /\ r.prev = None
    BY <1>2, <1>5, <1>7, NothingMoves DEF ReadToDelete
  <2>2. CASE active # None /\ active.key = r.key
    <3> DEFINE m == [r EXCEPT !.pc = "check", !.prev = active.pid]
    <3>1. active.pid \in Pids /\ proc[active.pid].wasReady
      BY <2>2 DEF Control, TypeOK, Active, ActiveWasReady
    <3>2. proc[active.pid].st # "free"
      BY <3>1 DEF Control, RecordOK
    <3>3. cmd' = [cmd EXCEPT ![c] = m]
      BY <1>1, <1>7, <2>2 DEF ReadToDelete
    <3>4. /\ m \in Command /\ m.pc = "check" /\ m.op = "delete" /\ m.key = r.key /\ m.prev = active.pid
          /\ m.todo = r.todo /\ m.before = r.before /\ m.listed = r.listed /\ m.blind = r.blind
      BY <1>1, <1>2, <3>1 DEF Command
    <3> HIDE DEF m
    <3>5. Others(c) /\ n = m
      BY <1>1, <3>3, <3>4 DEF Others
    <3>6. CommandOK(c)' /\ ChildOK(c)'
      BY <1>2, <3>4, <3>5 DEF CommandOK, ChildOK, KillSteps
    <3>7. DeleteOK(c)'
      BY <1>5, <2>1, <3>1, <3>2, <3>4, <3>5 DEF DeleteOK, KillSteps, Runs, Alive
    <3> QED BY <2>1, <3>5, <3>6, <3>7 DEF Well
  <2>3. CASE ~(active # None /\ active.key = r.key)
    <3>1. Goto(c, "list")
      BY <1>7, <2>3 DEF ReadToDelete
    <3>2. Others(c) /\ n = [r EXCEPT !.pc = "list"]
      BY <3>1, GotoIs DEF Steps
    <3> QED BY <1>3, <1>6, <2>1, <3>2
  <2> QED BY <2>2, <2>3
<1>8. CASE Check(c)
  <2> DEFINE p == r.prev
             Found(tree, kids, group) ==
               cmd' = [cmd EXCEPT ![c].pc = "signal", ![c].tree = tree, ![c].kids = kids, ![c].group = group]
  <2>1. Moves /\ proc' = proc /\ r.pc = "check" /\ p \in Pids /\ ~r.blind
    BY <1>5, <1>8, NothingMoves DEF Check, KillSteps
  <2>2. ASSUME NEW tree, NEW kids, NEW group, Found(tree, kids, group), PassesFor(p, r.key),
               <<tree, kids>> \in {<<Tree(p), Kids(Tree(p))>>, <<{p}, {}>>}, group \in BOOLEAN
        PROVE  Others(c) /\ Well(c)'
    <3> DEFINE m == [r EXCEPT !.pc = "signal", !.tree = tree, !.kids = kids, !.group = group]
    <3>1. proc[p].st \notin {"free", "other"}
      BY <2>2 DEF PassesFor, Managed, Runs, Alive
    <3>2. /\ p \in tree /\ tree \subseteq Pids /\ kids \subseteq Pids
          /\ \A q \in tree : proc[q].st \notin {"free", "other"}
      BY <2>1, <2>2, <3>1 DEF Tree, Kids, Runs, Alive, Control, LinkOK
    <3>3. cmd' = [cmd EXCEPT ![c] = m]
      BY <1>1, <2>2
    <3>4. /\ m \in Command /\ m.pc = "signal" /\ m.op = "delete" /\ m.key = r.key /\ m.prev = p
          /\ m.todo = r.todo /\ m.before = r.before /\ m.listed = r.listed /\ m.tree = tree /\ m.blind = r.blind
      BY <1>1, <1>2, <2>2, <3>2 DEF Command
    <3> HIDE DEF m
    <3>5. Others(c) /\ n = m
      BY <1>1, <3>3, <3>4 DEF Others
    <3>6. CommandOK(c)' /\ ChildOK(c)'
      BY <1>2, <3>4, <3>5 DEF CommandOK, ChildOK, KillSteps
    <3>7. DeleteOK(c)'
      BY <1>5, <2>1, <3>2, <3>4, <3>5 DEF DeleteOK, KillSteps, Runs, Alive
    <3> QED BY <3>5, <3>6, <3>7 DEF Well
  <2>3. CASE End(c, "failed")
    BY <2>1, <2>3, EndIsWell
  <2>4. CASE ~Alive(p) /\ Goto(c, AfterKill(c))
    <3>1. proc'[p].st \in Gone
      BY <1>3, <2>1, <2>4 DEF Alive
    <3>2. CASE r.listed
      <4>1. Others(c) /\ n = [r EXCEPT !.pc = "each"]
        BY <2>4, <3>2, GotoIs DEF Steps, AfterKill
      <4> QED BY <1>6, <2>1, <3>1, <3>2, <4>1 DEF KillSteps
    <3>3. CASE ~r.listed
      <4>1. Others(c) /\ n = [r EXCEPT !.pc = "unlink"]
        BY <2>4, <3>3, GotoIs DEF Steps, AfterKill
      <4> QED BY <1>6, <2>1, <3>1, <4>1
    <3> QED BY <3>2, <3>3
  <2>5. proc[p].leader \in BOOLEAN
    BY <2>1 DEF Control, TypeOK, Process
  <2>6. \/ ~Alive(p) /\ Goto(c, AfterKill(c))
        \/ End(c, "failed")
        \/ /\ PassesFor(p, r.key)
           /\ \/ Found(Tree(p), Kids(Tree(p)), proc[p].leader)
              \/ Found({p}, {}, proc[p].leader)
              \/ Found(Tree(p), Kids(Tree(p)), FALSE)
    BY <1>8 DEF Check
  <2> HIDE DEF Found
  <2> QED BY <2>1, <2>2, <2>3, <2>4, <2>5, <2>6
<1>9. r.pc \in {"signal", "drain"} => Hit(c) \in SUBSET Pids
  BY <1>4, <1>5 DEF Hit, KillSteps
<1>10. CASE SignalTree(c)
  <2>1. r.pc = "signal" /\ proc' = SigTerm(r.tree, Hit(c)) /\ Goto(c, "drain")
    BY <1>10 DEF SignalTree
  <2>2. Moves
    BY <1>4, <1>9, <2>1, SignalsMove
  <2>3. Others(c) /\ n = [r EXCEPT !.pc = "drain"]
    BY <2>1, GotoIs DEF Steps
  <2> QED BY <1>6, <2>1, <2>2, <2>3
<1>11. CASE Drain(c)
  <2>1. r.pc = "drain" /\ proc' = SigKill(r.tree, Hit(c)) /\ (Goto(c, AfterKill(c)) \/ End(c, "failed"))
    BY <1>11 DEF Drain
  <2>2. Moves /\ \A p \in r.tree : ~Runs(p)'
    <3>1. PICK ps \in SUBSET Pids, hit \in SUBSET Pids : ps = r.tree /\ hit = Hit(c)
      BY <1>4, <1>9, <2>1
    <3>2. Moves /\ \A p \in ps : ~Runs(p)'
      BY <2>1, <3>1, SignalsMove
    <3> QED BY <3>1, <3>2
  <2>3. proc'[r.prev].st \in Gone
    BY <1>3, <1>4, <1>5, <2>1, <2>2 DEF Runs, Alive, KillSteps
  <2>4. CASE r.listed /\ Goto(c, AfterKill(c))
    <3>1. Others(c) /\ n = [r EXCEPT !.pc = "each"]
      BY <2>4, GotoIs DEF Steps, AfterKill
    <3> QED BY <1>6, <2>1, <2>2, <2>3, <2>4, <3>1 DEF KillSteps
  <2>5. CASE ~r.listed /\ Goto(c, AfterKill(c))
    <3>1. Others(c) /\ n = [r EXCEPT !.pc = "unlink"]
      BY <2>5, GotoIs DEF Steps, AfterKill
    <3> QED BY <1>6, <2>1, <2>2, <2>3, <3>1
  <2>6. CASE End(c, "failed")
    BY <2>2, <2>6, EndIsWell
  <2> QED BY <2>1, <2>4, <2>5, <2>6
<1>12. CASE Unlink(c)
  <2>1. r.pc = "unlink" /\ proc' = proc /\ Goto(c, "list") /\ Moves
    BY <1>12, NothingMoves DEF Unlink
  <2>2. Others(c) /\ n = [r EXCEPT !.pc = "list"]
    BY <2>1, GotoIs DEF Steps
  <2>3. r.prev \in Pids => proc'[r.prev].st \in Gone
    BY <1>3, <1>5, <2>1 DEF Runs, Alive
  <2> QED BY <1>6, <2>1, <2>2, <2>3
<1>13. CASE List(c)
  <2> DEFINE all == Managed(r.key) \ {r.prev}
  <2>1. r.pc = "list" /\ proc' = proc /\ Moves /\ ~r.blind
    BY <1>5, <1>13, NothingMoves DEF List
  <2>2. /\ all \subseteq Pids /\ \A p \in all : proc[p].st # "free"
        /\ \A p \in Pids : Runs(p) /\ proc[p].key = r.key => p \in all \/ p = r.prev
    BY DEF Managed, Runs, Alive
  <2> HIDE DEF all
  <2>3. ASSUME NEW m \in Command, cmd' = [cmd EXCEPT ![c] = m],
               m.pc = "each", m.op = "delete", m.key = r.key, m.prev = r.prev, m.before = r.before, m.listed,
               m.todo = IF m.blind THEN {} ELSE all
        PROVE  Others(c) /\ Well(c)'
    <3>1. m.todo \subseteq Pids /\ \A p \in m.todo : proc[p].st # "free"
      BY <2>2, <2>3
    <3>2. Others(c) /\ n = m
      BY <1>1, <2>3 DEF Others
    <3>3. CommandOK(c)' /\ ChildOK(c)'
      BY <1>2, <2>3, <3>2 DEF CommandOK, ChildOK, KillSteps
    <3>4. ~m.blind => \A p \in r.before : Runs(p) /\ proc[p].key = r.key => p \in m.todo
      BY <1>4, <1>5, <2>1, <2>2, <2>3
    <3>5. DeleteOK(c)'
      BY <1>5, <2>1, <2>3, <3>1, <3>2, <3>4 DEF DeleteOK, KillSteps, Runs, Alive
    <3> QED BY <3>2, <3>3, <3>5 DEF Well
  <2>4. ASSUME NEW m, m = [r EXCEPT !.pc = "each", !.listed = TRUE, !.todo = all],
               cmd' = [cmd EXCEPT ![c] = m]
        PROVE  Others(c) /\ Well(c)'
    <3>1. /\ m \in Command /\ m.pc = "each" /\ m.op = "delete" /\ m.key = r.key /\ m.prev = r.prev
          /\ m.before = r.before /\ m.listed /\ m.todo = all /\ ~m.blind
      BY <1>1, <1>2, <2>1, <2>2, <2>4 DEF Command
    <3> QED BY <2>3, <2>4, <3>1
  <2>5. ASSUME NEW m, m = [r EXCEPT !.pc = "each", !.listed = TRUE, !.todo = {}, !.blind = TRUE],
               cmd' = [cmd EXCEPT ![c] = m]
        PROVE  Others(c) /\ Well(c)'
    <3>1. /\ m \in Command /\ m.pc = "each" /\ m.op = "delete" /\ m.key = r.key /\ m.prev = r.prev
          /\ m.before = r.before /\ m.listed /\ m.todo = {} /\ m.blind
      BY <1>1, <1>2, <2>5 DEF Command
    <3> QED BY <2>3, <2>5, <3>1
  <2>6. \/ cmd' = [cmd EXCEPT ![c] = [r EXCEPT !.pc = "each", !.listed = TRUE, !.todo = all]]
        \/ cmd' = [cmd EXCEPT ![c] = [r EXCEPT !.pc = "each", !.listed = TRUE, !.todo = {}, !.blind = TRUE]]
    BY <1>1, <1>13 DEF List, all
  <2> QED BY <2>1, <2>4, <2>5, <2>6
<1>14. CASE Each(c)
  <2>1. r.pc = "each" /\ proc' = proc /\ Moves /\ r.listed
    BY <1>5, <1>14, NothingMoves DEF Each
  <2>2. ~r.blind => \A q \in r.before : Runs(q) /\ proc[q].key = r.key => q \in r.todo
    BY <1>5, <2>1 DEF KillSteps
  <2>3. ASSUME NEW p \in r.todo,
               cmd' = [cmd EXCEPT ![c] = [r EXCEPT !.pc = "check", !.prev = p, !.todo = r.todo \ {p}]]
        PROVE  Others(c) /\ Well(c)'
    <3> DEFINE m == [r EXCEPT !.pc = "check", !.prev = p, !.todo = r.todo \ {p}]
    <3>1. p \in Pids /\ proc[p].st # "free"
      BY <1>4, <1>5
    <3>2. /\ m \in Command /\ m.pc = "check" /\ m.op = "delete" /\ m.key = r.key /\ m.prev = p
          /\ m.todo = r.todo \ {p} /\ m.before = r.before /\ m.listed = r.listed /\ m.blind = r.blind
      BY <1>1, <1>2, <3>1 DEF Command
    <3> HIDE DEF m
    <3>3. Others(c) /\ n = m
      BY <1>1, <2>3, <3>2 DEF Others, m
    <3>4. CommandOK(c)' /\ ChildOK(c)'
      BY <1>2, <3>2, <3>3 DEF CommandOK, ChildOK, KillSteps
    <3>5. DeleteOK(c)'
      BY <1>5, <2>1, <2>2, <3>1, <3>2, <3>3 DEF DeleteOK, KillSteps, Runs, Alive
    <3> QED BY <3>3, <3>4, <3>5 DEF Well
  <2>4. CASE r.todo = {} /\ Goto(c, "remove")
    <3>1. Others(c) /\ n = [r EXCEPT !.pc = "remove"]
      BY <2>4, GotoIs DEF Steps
    <3>2. /\ n.pc = "remove" /\ n.op = "delete" /\ n.key = r.key /\ n.prev = r.prev /\ n.todo = r.todo
          /\ n.before = r.before /\ n.listed = r.listed /\ n.blind = r.blind
      BY <1>1, <1>2, <3>1 DEF Command
    <3>3. CommandOK(c)' /\ ChildOK(c)'
      BY <1>2, <3>2 DEF CommandOK, ChildOK, KillSteps
    <3>4. DeleteOK(c)'
      BY <1>5, <2>1, <2>2, <2>4, <3>2 DEF DeleteOK, KillSteps, Runs, Alive
    <3> QED BY <2>1, <3>1, <3>3, <3>4 DEF Well
  <2>5. \/ \E p \in r.todo : cmd' = [cmd EXCEPT ![c] = [r EXCEPT !.pc = "check", !.prev = p, !.todo = r.todo \ {p}]]
        \/ r.todo = {} /\ Goto(c, "remove")
    BY <1>1, <1>14 DEF Each
  <2> QED BY <2>1, <2>3, <2>4, <2>5
<1>15. CASE Remove(c)
  <2>1. proc' = proc /\ End(c, "done")
    BY <1>15 DEF Remove
  <2> QED BY <2>1, NothingMoves, EndIsWell
<1> QED BY <1>7, <1>8, <1>10, <1>11, <1>12, <1>13, <1>14, <1>15 DEF DeleteStep

-----------------------------------------------------------------------------
(* The invariant *)

RestTyped ==
  /\ keyOf \in [Swarms -> Keys] /\ active \in Active \cup {None}
  /\ stored \in [Keys -> SUBSET Pids] /\ events \in 0..MaxEvents

LEMMA RecordSteps ==
  ASSUME Control, Moves, active' # active, Next
  PROVE  active' \in Active \cup {None} /\ ActiveWasReady'
<1>1. \/ \E c \in Commands : WriteActive(c) \/ Unlink(c)
      \/ \E p \in Pids : Record(p)
  BY DEF Next, Step, RunStep, RestartStep, DeleteStep, RunnerStep, Run, Restart, Delete, Begin, Edit,
         ReadToRun, HearReady, HearFailure, StartupTimeout, Fork, ReadToRestart, Terminate, GraceEnds, Clear,
         ReadToDelete, Check, SignalTree, Drain, List, Each, Remove,
         RunnerReady, RunnerFails, KidStarts, KidWrites, RequestRestart, ConnectorEnds, Stopped, Replace,
         ReplacementReady, ReplacementFails, Crash, Reuse
<1>2. ASSUME NEW c \in Commands, WriteActive(c)
      PROVE  active' \in Active /\ ActiveWasReady'
  <2>1. /\ cmd[c].pc = "write" /\ proc' = proc
        /\ active' = [key |-> cmd[c].key, swarm |-> cmd[c].swarm, pid |-> cmd[c].child]
    BY <1>2 DEF WriteActive
  <2>2. CommandOK(c) /\ ChildOK(c) /\ cmd[c] \in Command
    BY DEF Control, TypeOK
  <2>3. cmd[c].key \in Keys /\ cmd[c].swarm \in Swarms
    BY <2>1, <2>2 DEF CommandOK, StartSteps, KillSteps, Command
  <2> QED BY <2>1, <2>2, <2>3 DEF ChildOK, Active, ActiveWasReady
<1>3. ASSUME NEW c \in Commands, Unlink(c)
      PROVE  active' = None
  BY <1>3 DEF Unlink
<1>4. ASSUME NEW p \in Pids, Record(p)
      PROVE  active' \in Active /\ ActiveWasReady'
  <2> DEFINE q == proc[p].next
  <2>1. proc[p].st = "recording" /\ active' = [key |-> proc[q].key, swarm |-> proc[q].swarm, pid |-> q]
    BY <1>4 DEF Record
  <2>2. q \in Pids /\ proc[q].wasReady
    BY <2>1 DEF Control, LinkOK
  <2> HIDE DEF q
  <2>3. RecordOK(proc[q]) /\ proc[q].st # "free" /\ proc[q].key \in Keys /\ proc[q].swarm \in Swarms
    BY <2>2 DEF Control, RecordOK
  <2>4. proc'[q].wasReady /\ proc'[q].key = proc[q].key
    BY <2>2, <2>3, MovesKeepRuns
  <2> QED BY <2>1, <2>2, <2>3, <2>4 DEF Active, ActiveWasReady
<1> QED BY <1>1, <1>2, <1>3, <1>4 DEF ActiveWasReady

LEMMA EventTyped ==
  ASSUME events \in 0..MaxEvents, Event
  PROVE  events' \in 0..MaxEvents
BY ControlAssumption DEF Event

LEMMA RestStays ==
  ASSUME Control, Moves, Next
  PROVE  RestTyped' /\ ActiveWasReady'
<1>1. RestTyped /\ events \in 0..MaxEvents
  BY DEF Control, TypeOK, RestTyped
<1>2. active' \in Active \cup {None} /\ ActiveWasReady'
  BY <1>1, RecordSteps, MovesKeepActive DEF RestTyped
<1>3. keyOf' \in [Swarms -> Keys] /\ stored' \in [Keys -> SUBSET Pids] /\ events' \in 0..MaxEvents
  <2>1. ASSUME NEW c \in Commands, Step(c)
        PROVE  keyOf' = keyOf /\ events' \in 0..MaxEvents /\ stored' \in [Keys -> SUBSET Pids]
    <3>1. CASE RunStep(c)
      BY <1>1, <3>1 DEF RunStep, ReadToRun, HearReady, HearFailure, StartupTimeout, WriteActive, Fork, environment, RestTyped
    <3>2. CASE RestartStep(c)
      BY <1>1, <3>2 DEF RestartStep, ReadToRestart, Terminate, GraceEnds, Clear, environment, RestTyped
    <3>3. CASE DeleteStep(c)
      <4>1. CASE Check(c) \/ List(c)
        <5>1. keyOf' = keyOf /\ stored' = stored /\ (Event \/ events' = events)
          BY <4>1 DEF Check, List, environment
        <5> QED BY <1>1, <5>1, EventTyped DEF RestTyped
      <4> QED BY <1>1, <3>3, <4>1 DEF DeleteStep, ReadToDelete, SignalTree, Drain, Unlink, Each, Remove, environment, RestTyped
    <3> QED BY <2>1, <3>1, <3>2, <3>3 DEF Step
  <2>2. ASSUME NEW p \in Pids, RunnerStep(p)
        PROVE  keyOf' = keyOf /\ events' \in 0..MaxEvents /\ stored' \in [Keys -> SUBSET Pids]
    <3>1. CASE KidStarts(p) \/ RequestRestart(p) \/ ConnectorEnds(p, TRUE) \/ ConnectorEnds(p, FALSE) \/ Crash(p)
               \/ \E stranger \in Strangers : Reuse(p, stranger)
      <4>1. keyOf' = keyOf /\ stored' = stored /\ Event
        BY <3>1 DEF KidStarts, RequestRestart, ConnectorEnds, Crash, Reuse
      <4> QED BY <1>1, <4>1, EventTyped DEF RestTyped
    <3>2. CASE KidWrites(p)
      BY <1>1, <3>2 DEF KidWrites, environment, RestTyped
    <3>3. CASE \/ RunnerReady(p) \/ RunnerFails(p) \/ Stopped(p) \/ (\E q \in Pids : Replace(p, q))
               \/ ReplacementReady(p) \/ ReplacementFails(p) \/ Record(p)
      BY <1>1, <3>3 DEF RunnerReady, RunnerFails, Stopped, Replace, ReplacementReady, ReplacementFails, Record, environment, RestTyped
    <3> QED BY <2>2, <3>1, <3>2, <3>3 DEF RunnerStep
  <2>3. ASSUME NEW s \in Swarms, NEW k \in Keys, Edit(s, k)
        PROVE  keyOf' \in [Swarms -> Keys] /\ events' \in 0..MaxEvents /\ stored' = stored
    <3>1. keyOf' = [keyOf EXCEPT ![s] = k] /\ stored' = stored /\ Event
      BY <2>3 DEF Edit
    <3> QED BY <1>1, <3>1, EventTyped DEF RestTyped
  <2>4. ASSUME NEW c \in Commands,
               \/ \E s \in Swarms, fg \in BOOLEAN : Run(c, s, fg)
               \/ \E fresh \in BOOLEAN : Restart(c, fresh)
               \/ \E k \in Keys : Delete(c, k)
        PROVE  keyOf' = keyOf /\ events' = events /\ stored' = stored
    BY <2>4 DEF Run, Restart, Delete, Begin, environment
  <2> QED BY <1>1, <2>1, <2>2, <2>3, <2>4 DEF Next, RestTyped
<1> QED BY <1>2, <1>3 DEF RestTyped

\* Who steps: no command, or one.
LEMMA NextMoves ==
  ASSUME Control, Next
  PROVE  Moves /\ (cmd' = cmd \/ \E c \in Commands : Others(c) /\ Well(c)')
<1>1. ASSUME NEW c \in Commands,
             \/ \E s \in Swarms, fg \in BOOLEAN : Run(c, s, fg)
             \/ \E fresh \in BOOLEAN : Restart(c, fresh)
             \/ \E k \in Keys : Delete(c, k)
             \/ Step(c)
      PROVE  Moves /\ Others(c) /\ Well(c)'
  BY <1>1, BeginIsWell, RunIsWell, RestartIsWell, DeleteIsWell DEF Step
<1>2. ASSUME NEW p \in Pids, RunnerStep(p)
      PROVE  Moves /\ cmd' = cmd
  <2>1. cmd' = cmd
    BY <1>2 DEF RunnerStep, RunnerReady, RunnerFails, KidStarts, KidWrites, RequestRestart, ConnectorEnds, Stopped,
                Replace, ReplacementReady, ReplacementFails, Record, Crash, Reuse
  <2> QED BY <1>2, <2>1, RunnerMoves
<1>3. ASSUME NEW s \in Swarms, NEW k \in Keys, Edit(s, k)
      PROVE  Moves /\ cmd' = cmd
  BY <1>3, NothingMoves DEF Edit
<1> QED BY <1>1, <1>2, <1>3 DEF Next

LEMMA ControlInit == Init => Control
<1> SUFFICES ASSUME Init PROVE Control
  OBVIOUS
<1>1. Free \in Process /\ NotBegun \in Command
  BY DEF Free, Process, NotBegun, Command
<1>2. TypeOK /\ ActiveWasReady
  BY <1>1, ControlAssumption DEF Init, TypeOK, ActiveWasReady
<1>3. \A p \in Pids : RecordOK(proc[p]) /\ LinkOK(p)
  BY <1>1, ControlAssumption DEF Init, RecordOK, LinkOK, Free
<1>4. \A c \in Commands : CommandOK(c) /\ ChildOK(c) /\ DeleteOK(c)
  BY DEF Init, CommandOK, ChildOK, DeleteOK, NotBegun
<1> QED BY <1>2, <1>3, <1>4 DEF Control

LEMMA ControlStep == Control /\ [Next]_vars => Control'
<1> SUFFICES ASSUME Control, [Next]_vars PROVE Control'
  OBVIOUS
<1>1. CASE UNCHANGED vars
  BY <1>1 DEF vars, environment, Control, TypeOK, ActiveWasReady, LinkOK, CommandOK, ChildOK, DeleteOK, Runs, Alive
<1>2. CASE Next
  <2>1. Moves /\ (cmd' = cmd \/ \E c \in Commands : Others(c) /\ Well(c)')
    BY <1>2, NextMoves
  <2>2. RestTyped' /\ ActiveWasReady'
    BY <1>2, <2>1, RestStays
  <2>3. \A p \in Pids : RecordOK(proc[p])' /\ LinkOK(p)'
    BY <2>1, MovesKeepProcesses
  <2>4. cmd' \in [Commands -> Command]
    BY <2>1 DEF Others, Control, TypeOK
  <2>5. \A c \in Commands : cmd'[c] = cmd[c] \/ Well(c)'
    BY <2>1 DEF Others
  <2>6. \A c \in Commands : CommandOK(c)' /\ ChildOK(c)' /\ DeleteOK(c)'
    BY <2>1, <2>5, MovesKeepCommand DEF Well
  <2>7. TypeOK'
    BY <2>1, <2>2, <2>4 DEF TypeOK, RestTyped, Moves
  <2> QED BY <2>2, <2>3, <2>6, <2>7 DEF Control
<1> QED BY <1>1, <1>2

LEMMA ControlAlways == Spec => []Control
BY ControlInit, ControlStep, PTL DEF Spec

\* Whatever commands run at once, whichever runners crash or replace themselves and
\* however the bundle is edited, runtime/active.json names a process that has
\* reported ready under the key in the file: the write at the end of startOrchestrator in
\* runtime.ts, spawnReplacementRunner and writeActiveRuntimeState in runtime-runner.ts.
THEOREM ActiveRunnersWereReady == Spec => []ActiveIsSound
<1>1. Control => ActiveIsSound
  BY DEF Control, ActiveIsSound
<1> QED BY <1>1, ControlAlways, PTL

-----------------------------------------------------------------------------
(* What gdn instance delete never does *)

LEMMA RunnersSpareOthers ==
  ASSUME Control, NEW p \in Pids, RunnerStep(p), NEW x \in Pids, proc[x].st = "other"
  PROVE  proc'[x].st = "other"
<1>1. proc \in [Pids -> Process] /\ LinkOK(p) /\ None \notin Pids
  BY ControlAssumption DEF Control, TypeOK
<1>2. CASE RunnerReady(p) \/ RunnerFails(p)
  BY <1>1, <1>2 DEF RunnerReady, RunnerFails
<1>3. CASE KidStarts(p) \/ KidWrites(p)
  BY <1>1, <1>3 DEF KidStarts, KidWrites, Process
<1>4. CASE RequestRestart(p) \/ ConnectorEnds(p, TRUE) \/ ConnectorEnds(p, FALSE) \/ Stopped(p)
  BY <1>1, <1>4 DEF RequestRestart, ConnectorEnds, Stopped
<1>5. CASE \E q \in Pids : Replace(p, q)
  <2>1. PICK q \in Pids : Replace(p, q)
    BY <1>5
  <2>2. proc[p].st = "replacing" /\ proc[q].st = "free"
    BY <2>1 DEF Replace, NextFree
  <2>3. proc'[x] = proc[x]
    BY <1>1, <2>1, <2>2 DEF Replace
  <2> QED BY <2>3
<1>6. CASE ReplacementReady(p)
  <2>1. x # p
    BY <1>6 DEF ReplacementReady
  <2>2. proc'[x].st = proc[x].st
    BY <1>1, <1>6, <2>1 DEF ReplacementReady, Process
  <2> QED BY <2>2
<1>7. CASE ReplacementFails(p)
  <2> DEFINE q == proc[p].next
  <2>1. proc[p].st = "replacing" /\ q \in Pids /\ proc' = SigKill({p, q}, {})
    BY <1>1, <1>7 DEF ReplacementFails, Process
  <2>2. proc[q].st # "other"
    BY <1>1, <2>1 DEF LinkOK, Runs, Alive, Strangers
  <2> HIDE DEF q
  <2> QED BY <2>1, <2>2, SignalsMove
<1>8. CASE Record(p) \/ Crash(p) \/ \E stranger \in Strangers : Reuse(p, stranger)
  BY <1>1, <1>8 DEF Record, Crash, Runs, Reuse, Strangers
<1> QED BY <1>2, <1>3, <1>4, <1>5, <1>6, <1>7, <1>8 DEF RunnerStep

LEMMA CommandsSpareOthers ==
  ASSUME Control, NEW c \in Commands, Step(c), NEW x \in Pids, proc[x].st = "other", proc'[x].st # "other"
  PROVE  cmd[c].op = "restart" /\ cmd[c].pc \in {"term", "grace"}
<1> DEFINE r == cmd[c]
<1>1. CommandOK(c) /\ ChildOK(c) /\ DeleteOK(c) /\ r \in Command /\ proc \in [Pids -> Process]
  BY DEF Control, TypeOK
<1>2. proc' # proc
  OBVIOUS
<1>3. CASE RunStep(c)
  <2>1. CASE HearReady(c)
    <3>1. r.child \in Pids
      BY <1>1, <2>1 DEF HearReady, ChildOK
    <3>2. proc'[x].st = proc[x].st
      BY <1>1, <2>1, <3>1 DEF HearReady, Process
    <3> QED BY <3>2
  <2>2. CASE HearFailure(c) \/ StartupTimeout(c)
    <3>1. r.pc = "waiting" /\ proc' = SigKill({r.child}, {})
      BY <2>2 DEF HearFailure, StartupTimeout
    <3>2. r.child \in Pids /\ proc[r.child].st # "other"
      BY <1>1, <3>1 DEF ChildOK, Strangers
    <3> QED BY <3>1, <3>2, SignalsMove
  <2>3. CASE \E p \in Pids : Fork(c, p)
    BY <1>1, <2>3 DEF Fork, NextFree
  <2> QED BY <1>2, <1>3, <2>1, <2>2, <2>3 DEF RunStep, ReadToRun, WriteActive
<1>4. CASE RestartStep(c)
  <2>1. r.pc \in {"term", "grace"}
    BY <1>2, <1>4 DEF RestartStep, ReadToRestart, Terminate, GraceEnds, Clear
  <2> QED BY <1>1, <2>1 DEF CommandOK, StartSteps, KillSteps, Command
<1>5. CASE DeleteStep(c)
  <2>1. /\ r.pc \in {"signal", "drain"}
        /\ proc' = SigTerm(r.tree, Hit(c)) \/ proc' = SigKill(r.tree, Hit(c))
    BY <1>2, <1>5 DEF DeleteStep, ReadToDelete, Check, SignalTree, Drain, Unlink, List, Each, Remove
  <2>2. r.op = "delete"
    BY <1>1, <2>1 DEF CommandOK, StartSteps, Command
  <2>3. /\ r.tree \subseteq Pids /\ r.kids \subseteq Pids /\ r.prev \in Pids
        /\ \A p \in r.tree : proc[p].st # "other"
    BY <1>1, <2>1, <2>2 DEF DeleteOK, Command, KillSteps
  <2>4. Hit(c) \in SUBSET Pids
    BY <2>3 DEF Hit
  <2>5. proc'[x].st = proc[x].st \/ x \in r.tree
    BY <2>1, <2>3, <2>4, SignalsMove
  <2> QED BY <2>3, <2>5
<1> QED BY <1>3, <1>4, <1>5 DEF Step

LEMMA NextSparesOthers ==
  ASSUME Control, [Next]_vars, NEW x \in Pids, proc[x].st = "other", proc'[x].st # "other"
  PROVE  \E c \in Commands : cmd[c].op = "restart" /\ cmd[c].pc \in {"term", "grace"}
<1>1. proc' # proc
  OBVIOUS
<1>2. \/ \E c \in Commands : Step(c)
      \/ \E p \in Pids : RunnerStep(p)
  BY <1>1 DEF Next, vars, Run, Restart, Delete, Begin, Edit
<1> QED BY <1>2, RunnersSpareOthers, CommandsSpareOthers

\* gdn instance delete and the runners never signal a process that does not look like a
\* runner of the key, though its id may stand in a stale active.json or have been listed
\* before; only gdn restart, which looks at nothing but the id, may:
\* terminateRuntimeProcess and isManagedRuntimeCommand of instances.ts.
THEOREM DeletesSpareOthers == Spec => DeleteSparesOthers
<1>1. Control /\ [Next]_vars =>
        [\A p \in Pids : proc[p].st = "other" /\ proc'[p].st # "other" =>
           \E c \in Commands : cmd[c].op = "restart" /\ cmd[c].pc \in {"term", "grace"}]_vars
  BY NextSparesOthers
<1> QED BY <1>1, ControlAlways, PTL DEF Spec, DeleteSparesOthers

LEMMA OnlyRemoveIsDone ==
  ASSUME Control, [Next]_vars, NEW c \in Commands, cmd[c].op = "delete", cmd'[c].pc = "done"
  PROVE  Remove(c)
<1> DEFINE r == cmd[c]
<1>1. CommandOK(c) /\ r \in Command /\ cmd \in [Commands -> Command]
  BY DEF Control, TypeOK
<1>2. r.pc \in {"read", "unlink", "list", "each", "remove"} \cup KillSteps
  BY <1>1 DEF CommandOK
<1>3. cmd'[c] # cmd[c]
  BY <1>2 DEF KillSteps
<1>4. PICK d \in Commands : \/ \E s \in Swarms, fg \in BOOLEAN : Run(d, s, fg)
                            \/ \E fresh \in BOOLEAN : Restart(d, fresh)
                            \/ \E k \in Keys : Delete(d, k)
                            \/ Step(d)
  <2>1. ASSUME NEW p \in Pids, RunnerStep(p) PROVE cmd' = cmd
    BY <2>1 DEF RunnerStep, RunnerReady, RunnerFails, KidStarts, KidWrites, RequestRestart, ConnectorEnds, Stopped,
                Replace, ReplacementReady, ReplacementFails, Record, Crash, Reuse
  <2> QED BY <1>3, <2>1 DEF Next, vars, Edit
<1>5. d = c
  BY <1>3, <1>4, BeginIsWell, RunIsWell, RestartIsWell, DeleteIsWell DEF Step, Others
<1>6. ~(\/ \E s \in Swarms, fg \in BOOLEAN : Run(c, s, fg)
        \/ \E fresh \in BOOLEAN : Restart(c, fresh)
        \/ \E k \in Keys : Delete(c, k))
  BY <1>2 DEF Run, Restart, Delete, Begin, KillSteps
<1>7. ~RunStep(c) /\ ~RestartStep(c)
  BY <1>2 DEF RunStep, RestartStep, ReadToRun, HearReady, HearFailure, StartupTimeout, WriteActive, Fork,
              ReadToRestart, Terminate, GraceEnds, Clear, KillSteps
<1>8. DeleteStep(c)
  BY <1>4, <1>5, <1>6, <1>7 DEF Step
<1>9. ASSUME NEW pc, Goto(c, pc) PROVE cmd'[c].pc = pc
  BY <1>1, <1>9 DEF Goto, Command
<1>10. ASSUME NEW n, n.pc # "done", cmd' = [cmd EXCEPT ![c] = n] PROVE FALSE
  BY <1>1, <1>10
<1>11. CASE ReadToDelete(c)
  <2>1. CASE Goto(c, "list")
    BY <1>9, <2>1
  <2>2. CASE cmd' = [cmd EXCEPT ![c].pc = "check", ![c].prev = active.pid]
    BY <1>1, <2>2 DEF Command
  <2> QED BY <1>11, <2>1, <2>2 DEF ReadToDelete
<1>12. CASE Check(c)
  <2>1. CASE Goto(c, AfterKill(c))
    BY <1>9, <2>1 DEF AfterKill
  <2>2. CASE End(c, "failed")
    BY <1>1, <2>2 DEF End, NotBegun
  <2> DEFINE p == r.prev
             Found(tree, kids, group) ==
               cmd' = [cmd EXCEPT ![c].pc = "signal", ![c].tree = tree, ![c].kids = kids, ![c].group = group]
  <2>3. ASSUME NEW tree, NEW kids, NEW group, Found(tree, kids, group) PROVE FALSE
    BY <1>1, <2>3 DEF Command
  <2>4. \/ Goto(c, AfterKill(c))
        \/ End(c, "failed")
        \/ Found(Tree(p), Kids(Tree(p)), proc[p].leader)
        \/ Found({p}, {}, proc[p].leader)
        \/ Found(Tree(p), Kids(Tree(p)), FALSE)
    BY <1>12 DEF Check
  <2> HIDE DEF Found
  <2> QED BY <2>1, <2>2, <2>3, <2>4
<1>13. CASE SignalTree(c) \/ Drain(c) \/ Unlink(c)
  <2>1. CASE End(c, "failed")
    BY <1>1, <2>1 DEF End, NotBegun
  <2>2. CASE \E pc \in {"drain", "each", "unlink", "list"} : Goto(c, pc)
    BY <1>9, <2>2
  <2> QED BY <1>13, <2>1, <2>2 DEF SignalTree, Drain, Unlink, AfterKill
<1>14. CASE List(c)
  BY <1>1, <1>14 DEF List, Command
<1>15. CASE Each(c)
  <2>1. CASE Goto(c, "remove")
    BY <1>9, <2>1
  <2>2. CASE \E p \in r.todo : cmd' = [cmd EXCEPT ![c].pc = "check", ![c].prev = p, ![c].todo = @ \ {p}]
    BY <1>1, <2>2 DEF Command
  <2> QED BY <1>15, <2>1, <2>2 DEF Each
<1> QED BY <1>8, <1>11, <1>12, <1>13, <1>14, <1>15 DEF DeleteStep

\* When gdn instance delete reports success, every runner of the key that ran when
\* it began has gone, whatever was started, replaced or recorded meanwhile, unless the
\* ps that lists them failed; then the one that active.json named at the time has:
\* delete and listManagedRuntimeProcesses of instances.ts.
THEOREM DeletedAreGone == Spec => DeletedIsGone
<1> DEFINE Sought(c) == IF cmd[c].blind THEN {cmd[c].prev} ELSE Pids
<1>1. Control /\ [Next]_vars =>
        [\A c \in Commands : cmd[c].op = "delete" /\ cmd'[c].pc = "done" =>
           cmd[c].before \cap Sought(c) \cap Managed(cmd[c].key) = {}]_vars
  <2> SUFFICES ASSUME Control, [Next]_vars, NEW c \in Commands, cmd[c].op = "delete", cmd'[c].pc = "done"
               PROVE  cmd[c].before \cap Sought(c) \cap Managed(cmd[c].key) = {}
    OBVIOUS
  <2>1. cmd[c].pc = "remove"
    BY OnlyRemoveIsDone DEF Remove
  <2>2. DeleteOK(c)
    BY DEF Control
  <2>3. CASE cmd[c].blind
    BY <2>2, <2>3 DEF DeleteOK, Managed
  <2>4. CASE ~cmd[c].blind
    BY <2>1, <2>2, <2>4 DEF DeleteOK, Managed, KillSteps
  <2> QED BY <2>3, <2>4
<1> QED BY <1>1, ControlAlways, PTL DEF Spec, DeletedIsGone
=============================================================================

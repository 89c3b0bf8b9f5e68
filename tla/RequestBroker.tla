--------------------------- MODULE RequestBroker ----------------------------
(***************************************************************************)
(* Requests between agents, end to end: the processes that ask and answer  *)
(* (runner/agent-runner.ts) and the orchestrator's broker between them     *)
(* (orchestrator/orchestrator.ts, route and routeResponse).                *)
(*                                                                         *)
(* Every process has one ordered channel to the orchestrator and one back; *)
(* the orchestrator handles one message at a time.  A process may die at   *)
(* any moment, and is forked again by the next message for it or by        *)
(* reconcile().  How a turn proceeds is the business of AgentProcess, how  *)
(* slots are drained that of Orchestrator; here a turn asks, waits and     *)
(* answers.                                                                *)
(***************************************************************************)
EXTENDS Naturals, Sequences, FiniteSets

CONSTANTS
  Agents,      \* agent names
  InstanceKeys,
  Corrs,       \* correlation ids (createId: unique over all processes)
  Events,      \* events from outside
  Nobody       \* no agent, no call, no turn

VARIABLES
  slots,     \* agentState, in insertion order
  running,   \* whether an instance has a process, and how far it is
  pending,   \* pendingRequests: the agent name a response is owed to
  call,      \* each request ever made: by which instance, to which
  up,        \* messages from each instance to the orchestrator
  down,      \* messages from the orchestrator to each instance
  queue,     \* state.eventQueue of each process
  turn,      \* the turn each process runs
  open,      \* pendingResponses and pendingAsyncResponses of each process
  arrived,   \* events from outside already delivered
  runs,      \* turns that each request was given
  finished,  \* requests whose turn came to its end
  outcome    \* what the turn or the inbox of the requester was told

vars == <<slots, running, pending, call, up, down, queue, turn, open, arrived,
          runs, finished, outcome>>
brokerVars == <<slots, running, pending>>
workVars == <<queue, turn, runs, finished>>

-----------------------------------------------------------------------------
(* Values *)

Instances == Agents \X InstanceKeys
AgentOf(i) == i[1]

Call == [by : Instances, to : Instances]
Job == [kind : {"event"}, id : Events] \cup [kind : {"request", "answer"}, id : Corrs]
Upward == [type : {"request", "response"}, id : Corrs]
Downward == [type : {"event"}, id : Events]
              \cup [type : {"request", "response", "error"}, id : Corrs]
Turn == [job : Job, waits : SUBSET Corrs]

ASSUME DistinctAssumption ==
  /\ Nobody \notin Agents \cup Corrs \cup Events
  /\ Nobody \notin Call /\ Nobody \notin Turn
  /\ Corrs \cap Events = {}

TypeOK ==
  /\ slots \in Seq(Instances)
  /\ running \in [Instances -> {"no", "booting", "yes"}]
  /\ pending \in [Corrs -> Agents \cup {Nobody}]
  /\ call \in [Corrs -> Call \cup {Nobody}]
  /\ up \in [Instances -> Seq(Upward)] /\ down \in [Instances -> Seq(Downward)]
  /\ queue \in [Instances -> Seq(Job)] /\ turn \in [Instances -> Turn \cup {Nobody}]
  /\ open \in [Instances -> SUBSET Corrs]
  /\ arrived \subseteq Events
  /\ runs \in [Corrs -> Nat] /\ finished \subseteq Corrs
  /\ outcome \in [Corrs -> {"none", "ok", "error", "timeout"}]

Init ==
  /\ slots = <<>>
  /\ running = [i \in Instances |-> "no"]
  /\ pending = [c \in Corrs |-> Nobody]
  /\ call = [c \in Corrs |-> Nobody]
  /\ up = [i \in Instances |-> <<>>] /\ down = [i \in Instances |-> <<>>]
  /\ queue = [i \in Instances |-> <<>>] /\ turn = [i \in Instances |-> Nobody]
  /\ open = [i \in Instances |-> {}]
  /\ arrived = {} /\ runs = [c \in Corrs |-> 0] /\ finished = {}
  /\ outcome = [c \in Corrs |-> "none"]

Elements(s) == {s[k] : k \in DOMAIN s}

-----------------------------------------------------------------------------
(* The orchestrator *)

\* findInstanceKeyForAgent: the oldest instance of that name.
FindInstance(a) ==
  LET First(k) == AgentOf(slots[k]) = a /\ \A j \in 1..(k - 1) : AgentOf(slots[j]) # a
  IN slots[CHOOSE k \in DOMAIN slots : First(k)]

Spawned(i) ==
  /\ slots' = IF i \in Elements(slots) THEN slots ELSE Append(slots, i)
  /\ running' = [running EXCEPT ![i] = IF @ = "no" THEN "booting" ELSE @]

\* spawn(target) and handle.send(message).
SpawnAndSend(i, m) ==
  /\ Spawned(i)
  /\ down' = [down EXCEPT ![i] = Append(@, m)]

\* handle.send alone: without a process the message is dropped.
SendIfRunning(i, m) ==
  /\ down' = [down EXCEPT ![i] = IF running[i] = "no" THEN @ ELSE Append(@, m)]
  /\ UNCHANGED <<slots, running>>

\* sendErrorResponse: to an instance of the requester that is found by name, and
\* to nobody when that one has no process.
SendErrorResponse(i, c) ==
  SendIfRunning(FindInstance(AgentOf(i)), [type |-> "error", id |-> c])

\* An event from outside, routed to instance i.
Arrive(e, i) ==
  /\ e \notin arrived
  /\ arrived' = arrived \cup {e}
  /\ SpawnAndSend(i, [type |-> "event", id |-> e])
  /\ UNCHANGED <<pending, call, up, workVars, open, outcome>>

Take(i, type) ==
  /\ up[i] # <<>> /\ Head(up[i]).type = type
  /\ up' = [up EXCEPT ![i] = Tail(@)]
  /\ UNCHANGED <<call, workVars, open, arrived, outcome>>

\* extractCallChain: a process builds its requests anew and passes no chain on,
\* so a request brings none.
CallChain(c) == {}

\* Mutant: a circular call is refused and nobody is told.
RouteRequestRefusing(i) ==
  LET c == Head(up[i]).id
      newCallChain == CallChain(c) \cup {AgentOf(i)}
  IN
  /\ Take(i, "request")
  /\ IF AgentOf(call[c].to) \in newCallChain
     THEN UNCHANGED <<pending, slots, running, down>>
     ELSE /\ pending' = [pending EXCEPT ![c] = AgentOf(i)]
          /\ SpawnAndSend(call[c].to, [type |-> "request", id |-> c])

\* route, for a payload with a replyTo.
RouteRequest(i) ==
  LET c == Head(up[i]).id
      newCallChain == CallChain(c) \cup {AgentOf(i)}
  IN
  /\ Take(i, "request")
  /\ IF AgentOf(call[c].to) \in newCallChain
     THEN /\ SendErrorResponse(i, c)
          /\ UNCHANGED pending
     ELSE /\ pending' = [pending EXCEPT ![c] = AgentOf(i)]
          /\ SpawnAndSend(call[c].to, [type |-> "request", id |-> c])

\* routeResponse: whoever asked is found by name only, and forked if need be.
RouteResponse(i) ==
  LET c == Head(up[i]).id IN
  /\ Take(i, "response")
  /\ IF pending[c] # Nobody
     THEN /\ pending' = [pending EXCEPT ![c] = Nobody]
          /\ SpawnAndSend(FindInstance(pending[c]), [type |-> "response", id |-> c])
     ELSE UNCHANGED <<slots, running, pending, down>>

\* reconcile() forks a process for a slot that lost its own.
Respawn(i) ==
  /\ i \in Elements(slots) /\ running[i] = "no"
  /\ Spawned(i)
  /\ UNCHANGED <<pending, call, up, down, workVars, open, arrived, outcome>>

-----------------------------------------------------------------------------
(* An agent process *)

\* main() has attached its listener.
Boot(i) ==
  /\ running[i] = "booting"
  /\ running' = [running EXCEPT ![i] = "yes"]
  /\ UNCHANGED <<slots, pending, call, up, down, workVars, open, arrived, outcome>>

\* It dies: what it knew is gone, what it sent is still read.
Die(i) ==
  /\ running[i] # "no"
  /\ running' = [running EXCEPT ![i] = "no"]
  /\ down' = [down EXCEPT ![i] = <<>>] /\ queue' = [queue EXCEPT ![i] = <<>>]
  /\ turn' = [turn EXCEPT ![i] = Nobody] /\ open' = [open EXCEPT ![i] = {}]
  /\ UNCHANGED <<slots, pending, call, up, arrived, runs, finished, outcome>>

\* processQueue: the head of q, if any, becomes the turn of i.
StartNext(i, q) ==
  IF q = <<>>
  THEN /\ queue' = [queue EXCEPT ![i] = q] /\ turn' = [turn EXCEPT ![i] = Nobody]
       /\ UNCHANGED runs
  ELSE /\ queue' = [queue EXCEPT ![i] = Tail(q)]
       /\ turn' = [turn EXCEPT ![i] = [job |-> Head(q), waits |-> {}]]
       /\ runs' = IF Head(q).kind # "request" THEN runs
                  ELSE [runs EXCEPT ![Head(q).id] = @ + 1]

Enqueue(i, job) ==
  IF turn[i] = Nobody THEN StartNext(i, <<job>>)
  ELSE /\ queue' = [queue EXCEPT ![i] = Append(@, job)]
       /\ UNCHANGED <<turn, runs>>

Receive(i) ==
  /\ down[i] # <<>>
  /\ down' = [down EXCEPT ![i] = Tail(@)]
  /\ UNCHANGED <<brokerVars, call, up, finished, arrived>>

\* Before main() listens a message is lost; so is an answer, that nobody awaits.
ReceiveEarly(i) ==
  /\ running[i] = "booting"
  /\ Receive(i)
  /\ UNCHANGED <<queue, turn, runs, open, outcome>>

ReceiveJob(i) ==
  LET m == Head(down[i]) IN
  /\ running[i] = "yes"
  /\ Receive(i)
  /\ m.type \in {"event", "request"}
  /\ Enqueue(i, [kind |-> m.type, id |-> m.id])
  /\ UNCHANGED <<open, outcome>>

Settle(i, c, how) ==
  IF c \in open[i]
  THEN /\ open' = [open EXCEPT ![i] = @ \ {c}]
       /\ outcome' = [outcome EXCEPT ![c] = how]
  ELSE UNCHANGED <<open, outcome>>

\* Mutant: an error response is taken for an answer.
ReceiveAnswerAsOk(i) ==
  LET m == Head(down[i]) IN
  /\ running[i] = "yes"
  /\ Receive(i)
  /\ m.type \in {"response", "error"}
  /\ Settle(i, m.id, "ok")
  /\ Enqueue(i, [kind |-> "answer", id |-> m.id])

\* An answer settles the request that awaits it, and is queued besides.
ReceiveAnswer(i) ==
  LET m == Head(down[i]) IN
  /\ running[i] = "yes"
  /\ Receive(i)
  /\ m.type \in {"response", "error"}
  /\ Settle(i, m.id, IF m.type = "response" THEN "ok" ELSE "error")
  /\ Enqueue(i, [kind |-> "answer", id |-> m.id])

\* A tool or a middleware of the turn asks instance `to`; whether it blocks
\* on the answer or leaves it to the inbox.
Request(i, c, to, blocks) ==
  /\ turn[i] # Nobody /\ call[c] = Nobody
  /\ call' = [call EXCEPT ![c] = [by |-> i, to |-> to]]
  /\ open' = [open EXCEPT ![i] = @ \cup {c}]
  /\ turn' = IF blocks THEN [turn EXCEPT ![i].waits = @ \cup {c}] ELSE turn
  /\ up' = [up EXCEPT ![i] = Append(@, [type |-> "request", id |-> c])]
  /\ UNCHANGED <<brokerVars, down, queue, arrived, runs, finished, outcome>>

\* Mutant: only the timer of an asynchronous request is set.
RequestTimeoutAsync(i, c) ==
  /\ c \in open[i]
  /\ turn[i] # Nobody => c \notin turn[i].waits
  /\ Settle(i, c, "timeout")
  /\ UNCHANGED <<brokerVars, call, up, down, workVars, arrived>>

\* The timer of a request, in the process that made it.
RequestTimeout(i, c) ==
  /\ c \in open[i]
  /\ Settle(i, c, "timeout")
  /\ UNCHANGED <<brokerVars, call, up, down, workVars, arrived>>

\* Nothing the turn awaits is still open; a request is answered at its end.
EndTurn(i) ==
  LET job == turn[i].job IN
  /\ turn[i] # Nobody
  /\ turn[i].waits \cap open[i] = {}
  /\ IF job.kind = "request"
     THEN /\ up' = [up EXCEPT ![i] = Append(@, [type |-> "response", id |-> job.id])]
          /\ finished' = finished \cup {job.id}
     ELSE UNCHANGED <<up, finished>>
  /\ StartNext(i, queue[i])
  /\ UNCHANGED <<brokerVars, call, down, open, arrived, outcome>>

\* A turn that fails answers nothing; its requests stay open.
FailTurn(i) ==
  /\ turn[i] # Nobody
  /\ StartNext(i, queue[i])
  /\ UNCHANGED <<brokerVars, call, up, down, open, arrived, finished, outcome>>

ProcessNext(i) ==
  \/ Boot(i) \/ Die(i)
  \/ ReceiveEarly(i) \/ ReceiveJob(i) \/ ReceiveAnswer(i)
  \/ EndTurn(i) \/ FailTurn(i)
  \/ \E c \in Corrs :
       \/ RequestTimeout(i, c)
       \/ \E to \in Instances, blocks \in BOOLEAN : Request(i, c, to, blocks)

OrchestratorNext(i) ==
  \/ RouteRequest(i) \/ RouteResponse(i) \/ Respawn(i)
  \/ \E e \in Events : Arrive(e, i)

Next == \E i \in Instances : ProcessNext(i) \/ OrchestratorNext(i)

Spec == Init /\ [][Next]_vars

\* Timers fire, and a turn that awaits nothing comes to its end: its steps are
\* limited by maxSteps.  Nothing is assumed of the processes' lives, of the
\* channels or of the broker.
FairSpec ==
  /\ Spec
  /\ \A i \in Instances, c \in Corrs : WF_vars(RequestTimeout(i, c))
  /\ \A i \in Instances : WF_vars(EndTurn(i))

-----------------------------------------------------------------------------
(* Safety *)

\* The broker finds a requester by name: it is the one that asked if that one is
\* the oldest instance of its agent.  Slots are only added here, so it stays so.
IsFound(i) == FindInstance(AgentOf(i)) = i

Tracked(c, i) ==
  \/ [type |-> "request", id |-> c] \in Elements(up[i])
  \/ pending[c] # Nobody
  \/ \E type \in {"response", "error"} : [type |-> type, id |-> c] \in Elements(down[i])

\* As long as the oldest instance of an agent has a request open, the broker or a
\* channel holds it: it is on its way, or remembered in pendingRequests, or its
\* answer is on its way back.  This is what makes an answer possible at all.  For
\* the other instances of the agent it does not hold: see AnswerReachesRequester.
OpenIsTracked == \A i \in Instances : \A c \in open[i] : IsFound(i) => Tracked(c, i)

\* No turn blocks on a request that stands behind it in the queue of its own
\* process, where only the timer could end the wait.
NoSelfDeadlock ==
  \A i \in Instances : turn[i] # Nobody =>
    \A c \in turn[i].waits : [kind |-> "request", id |-> c] \notin Elements(queue[i])

\* No request of an agent's oldest instance is open that nothing but its timer
\* could settle because the broker forgot it, and no request at all because the
\* turn of its requester stands in the way of its own answer.
RequestsCanBeAnswered == TypeOK /\ OpenIsTracked /\ NoSelfDeadlock

\* The requests keep the promise of AgentCalls, over crashes, respawns, lost
\* messages and answers that come late or to the wrong instance.
Abstract == INSTANCE AgentCalls WITH
  Calls <- Corrs,
  asked <- {c \in Corrs : call[c] # Nobody}

CallsAreKept == Abstract!Spec

-----------------------------------------------------------------------------
(* What the specification documents say and the code does not do. *)

\* docs/specs/runtime.md:555: the response is delivered to the process that waits
\* for its correlation id.  It goes to the oldest instance of the requester's agent.
AnswerReachesRequester ==
  \A i \in Instances, c \in Corrs :
    [type |-> "response", id |-> c] \in Elements(down[i]) => call[c].by = i

\* docs/specs/runtime.md 6.2 rule 9: a circular chain of requests is refused at
\* once.  Two agents can block on each other until a timer ends it.
Blocked(i, j) ==
  /\ turn[i] # Nobody /\ turn[j] # Nobody
  /\ turn[j].job.kind = "request"
  /\ turn[j].job.id \in turn[i].waits \cap open[i]

CycleIsRefused ==
  ~\E i, j \in Instances :
     /\ Blocked(i, j)
     /\ \E c \in turn[j].waits \cap open[j] : call[c].to = i /\ pending[c] # Nobody

-----------------------------------------------------------------------------
(* Liveness, under FairSpec *)

\* Every process comes back to an empty hand: agents that wait on each other, or
\* on one that died, are freed by the timers, without help of the broker.
EveryTurnEnds == \A i \in Instances : turn[i] # Nobody ~> turn[i] = Nobody

=============================================================================

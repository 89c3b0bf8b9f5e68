--------------------------- MODULE RuntimeEngine ----------------------------
(***************************************************************************)
(* The runner's own engine (runner/runtime-runner.ts): what a connector or *)
(* an agent sends is run as a turn in the runner's process.  The turns of  *)
(* one agent and instance are chained in executionQueue; a turn may ask    *)
(* another agent for an answer, by a tool or by a middleware, and wait for *)
(* it or take it from its inbox at a later step.                           *)
(*                                                                         *)
(* One thread runs everything: an action is the code between two awaits.   *)
(***************************************************************************)
EXTENDS Naturals, Sequences, FiniteSets

CONSTANTS
  Keys,      \* agent and instance, as createConversationKey joins them
  MaxTurns,  \* turns ever queued
  Restarters,\* the keys whose agent has a tool that asks for a restart
  MaxSteps,  \* maxSteps of an agent's plan
  MaxInbox,  \* MAX_RUNTIME_ASYNC_RESPONSE_INBOX_SIZE
  MaxExits   \* ends of the runner's process

ASSUME BoundsAssumption == MaxTurns \in Nat /\ MaxSteps \in Nat \ {0} /\ MaxInbox \in Nat \ {0}
                             /\ MaxExits \in Nat /\ Restarters \subseteq Keys

VARIABLES
  turns,    \* every turn queued so far; its place is its identity
  queue,    \* executionQueue: the unfinished turns of each key
  stored,   \* the conversation of each key in the workspace
  restart,  \* restartRequestedReason: the turn that gave it, or 0
  exits     \* ends of the process so far

vars == <<turns, queue, stored, restart, exits>>

-----------------------------------------------------------------------------
(* Values *)

Ids == 1..MaxTurns

\* A message of a conversation that some turn put there: its own input, or the
\* answer of the turn it had asked.
Message == [kind : {"input", "answer"}, id : Ids]

\* by: the turn that asked for this one (0: a connector).  reply: what that turn
\* still expects of it.  stack: AGENT_CALL_STACK_METADATA_KEY of its event.
Turn == [key : Keys, by : 0..MaxTurns, reply : {"none", "sync", "async"},
         asked : BOOLEAN, viaMiddleware : BOOLEAN, stack : SUBSET Keys,
         phase : {"queued", "running", "ended", "stored", "done", "failed", "lost"},
         talk : Seq(Message), inbox : Seq(Ids), waits : 0..MaxTurns,
         steps : 0..MaxSteps, restarts : BOOLEAN]

Known == 1..Len(turns)
Over(t) == turns[t].phase \in {"done", "failed", "lost"}
Idle(t) == turns[t].phase = "running" /\ turns[t].waits = 0
Last(s, n) == IF Len(s) > n THEN SubSeq(s, Len(s) - n + 1, Len(s)) ELSE s

TypeOK ==
  /\ turns \in Seq(Turn) /\ Len(turns) <= MaxTurns
  /\ queue \in [Keys -> Seq(Ids)]
  /\ stored \in [Keys -> Seq(Message)]
  /\ restart \in 0..MaxTurns
  /\ exits \in 0..MaxExits
  /\ \A t \in Known : Len(turns[t].inbox) <= MaxInbox

Init ==
  /\ turns = <<>>
  /\ queue = [k \in Keys |-> <<>>]
  /\ stored = [k \in Keys |-> <<>>]
  /\ restart = 0 /\ exits = 0

-----------------------------------------------------------------------------
(* Queueing *)

NewTurn(k, t, reply, middleware, stack) ==
  [key |-> k, by |-> t, reply |-> reply, asked |-> reply # "none",
   viaMiddleware |-> middleware, stack |-> stack, phase |-> "queued",
   talk |-> <<>>, inbox |-> <<>>, waits |-> 0, steps |-> 0, restarts |-> FALSE]

Chain(k) == queue' = [queue EXCEPT ![k] = Append(@, Len(turns) + 1)]

\* A connector's event.
Inbound(k) ==
  /\ Len(turns) < MaxTurns
  /\ turns' = Append(turns, NewTurn(k, 0, "none", FALSE, {}))
  /\ Chain(k)
  /\ UNCHANGED <<stored, restart, exits>>

\* currentCallStack of a call of turn t.  A middleware's call inherits the stack
\* of the event of t (createMiddlewareAgentMetadata).  agents__request builds its
\* event from the tool's arguments and knows no stack: only the caller is in it.
StackOf(t, middleware) ==
  {turns[t].key} \cup (IF middleware THEN turns[t].stack ELSE {})

\* agents.request; a refused call throws and changes nothing here.
Request(t, k, async, middleware) ==
  LET stack == StackOf(t, middleware) IN
  /\ Len(turns) < MaxTurns
  /\ Idle(t)
  /\ k \notin stack
  /\ turns' = Append([turns EXCEPT ![t].waits = IF async THEN 0 ELSE Len(turns) + 1],
                     NewTurn(k, t, IF async THEN "async" ELSE "sync", middleware, stack))
  /\ Chain(k)
  /\ UNCHANGED <<stored, restart, exits>>

\* agents.send: nobody waits, so nothing is refused.
SendEvent(t, k, middleware) ==
  /\ Len(turns) < MaxTurns
  /\ Idle(t)
  /\ turns' = Append(turns, NewTurn(k, t, "none", middleware, StackOf(t, middleware)))
  /\ Chain(k)
  /\ UNCHANGED <<stored, restart, exits>>

-----------------------------------------------------------------------------
(* A turn *)

Asked(t) == [kind |-> "input", id |-> t]
Answers(s) == [i \in DOMAIN s |-> [kind |-> "answer", id |-> s[i]]]

\* Mutant: the chain does not wait for the turn before it.
BeginAtOnce(t) ==
  LET k == turns[t].key IN
  /\ turns[t].phase = "queued"
  /\ turns' = [turns EXCEPT ![t].phase = "running",
                            ![t].talk = Append(stored[k], Asked(t))]
  /\ UNCHANGED <<queue, stored, restart, exits>>

\* The promise of the turn before has settled; the conversation is loaded.
Begin(t) ==
  LET k == turns[t].key IN
  /\ turns[t].phase = "queued"
  /\ Head(queue[k]) = t
  /\ turns' = [turns EXCEPT ![t].phase = "running",
                            ![t].talk = Append(stored[k], Asked(t))]
  /\ UNCHANGED <<queue, stored, restart, exits>>

\* A step starts: the inbox is emptied into the conversation.  A tool of the
\* step may ask for a restart.
Step(t, restarts) ==
  /\ Idle(t)
  /\ turns[t].steps < MaxSteps
  /\ restarts => turns[t].key \in Restarters
  /\ turns' = [turns EXCEPT ![t].talk = @ \o Answers(turns[t].inbox),
                            ![t].inbox = <<>>,
                            ![t].steps = @ + 1,
                            ![t].restarts = @ \/ restarts]
  /\ UNCHANGED <<queue, stored, restart, exits>>

\* The model answers without a tool call, a middleware answers in its place, or
\* the steps are used up: at the limit the inbox is emptied once more.
End(t) ==
  /\ Idle(t)
  /\ \/ turns' = [turns EXCEPT ![t].phase = "ended"]
     \/ /\ turns[t].steps = MaxSteps
        /\ turns' = [turns EXCEPT ![t].phase = "ended", ![t].inbox = <<>>,
                                  ![t].talk = @ \o Answers(turns[t].inbox)]
  /\ UNCHANGED <<queue, stored, restart, exits>>

\* runTurn throws: the turn's conversation is the one before it and the error.
Fail(t) ==
  /\ Idle(t)
  /\ turns' = [turns EXCEPT ![t].phase = "ended", ![t].restarts = FALSE,
                            ![t].talk = Append(stored[turns[t].key], Asked(t))]
  /\ UNCHANGED <<queue, stored, restart, exits>>

\* persistConversationToStorage.
Persist(t) ==
  /\ turns[t].phase = "ended"
  /\ stored' = [stored EXCEPT ![turns[t].key] = turns[t].talk]
  /\ turns' = [turns EXCEPT ![t].phase = "stored", ![t].talk = <<>>]
  /\ UNCHANGED <<queue, restart, exits>>

\* requestRuntimeRestart: only the first reason is kept.
MayRestart(t) == turns[t].phase = "stored" /\ turns[t].restarts /\ restart = 0

RequestRestart(t) ==
  /\ MayRestart(t)
  /\ restart' = t
  /\ UNCHANGED <<turns, queue, stored, exits>>

\* enqueueRuntimeAsyncResponse, in the inbox that the caller's turn made.
Deliver(ts, t) ==
  LET c == ts[t].by IN
  CASE ts[t].reply = "sync"  -> [ts EXCEPT ![c].waits = 0, ![t].reply = "none"]
    [] ts[t].reply = "async" -> [ts EXCEPT ![c].inbox = Last(Append(@, t), MaxInbox),
                                           ![t].reply = "none"]
    [] OTHER -> ts

\* What is left of a turn that is over; its caller keeps its own timer.
Ended(r, phase) ==
  [r EXCEPT !.phase = phase, !.waits = 0, !.talk = <<>>, !.steps = 0, !.stack = {},
            !.restarts = FALSE, !.inbox = <<>>]

\* The promise of the turn settles: the next of the key may begin, and whoever
\* asked has its answer in the same run of the microtask queue.
Settle(t, phase) ==
  /\ queue' = [queue EXCEPT ![turns[t].key] = Tail(@)]
  /\ turns' = Deliver([turns EXCEPT ![t] = Ended(@, phase)], t)

Finish(t) ==
  /\ turns[t].phase = "stored" /\ ~MayRestart(t)
  /\ Settle(t, "done")
  /\ UNCHANGED <<stored, restart, exits>>

\* The storage rejects what the turn reads or writes, or the signal of the
\* restart cannot be sent, and the reason is forgotten: whoever asked is told,
\* also when the conversation is stored already.
Reject(t) ==
  /\ turns[t].phase \in {"queued", "ended", "stored"}
  /\ Head(queue[turns[t].key]) = t
  /\ Settle(t, "failed")
  /\ UNCHANGED <<stored, restart, exits>>

\* Mutant: the answer of a call that has timed out is delivered as well.
TimeoutKeeping(t) ==
  /\ turns[t].reply # "none" /\ ~Over(t)
  /\ turns' = [Deliver(turns, t) EXCEPT ![t].reply = turns[t].reply]
  /\ UNCHANGED <<queue, stored, restart, exits>>

\* Mutant: only asynchronous requests have a timer.
TimeoutAsync(t) ==
  /\ turns[t].reply = "async" /\ ~Over(t)
  /\ turns' = Deliver(turns, t)
  /\ UNCHANGED <<queue, stored, restart, exits>>

\* withOptionalTimeout: the caller goes on, or finds the timeout in its inbox;
\* the turn it asked for is run all the same and its answer goes nowhere.
Timeout(t) ==
  /\ turns[t].reply # "none" /\ ~Over(t)
  /\ turns' = Deliver(turns, t)
  /\ UNCHANGED <<queue, stored, restart, exits>>

-----------------------------------------------------------------------------
(* The process *)

\* The runner ends, asked to by a turn or by its host, and is started again:
\* turns under way or queued are not waited for.
Exit ==
  /\ exits < MaxExits /\ exits' = exits + 1
  /\ turns' = [t \in Known |-> IF Over(t) THEN turns[t] ELSE [Ended(turns[t], "lost") EXCEPT !.reply = "none"]]
  /\ queue' = [k \in Keys |-> <<>>]
  /\ restart' = 0
  /\ UNCHANGED stored

Next ==
  \/ \E k \in Keys : Inbound(k)
  \/ \E t \in Known, k \in Keys, async, middleware \in BOOLEAN : Request(t, k, async, middleware)
  \/ \E t \in Known, k \in Keys, middleware \in BOOLEAN : SendEvent(t, k, middleware)
  \/ \E t \in Known : Begin(t) \/ End(t) \/ Fail(t) \/ Persist(t)
                        \/ RequestRestart(t) \/ Finish(t) \/ Reject(t) \/ Timeout(t)
  \/ \E t \in Known, restarts \in BOOLEAN : Step(t, restarts)
  \/ Exit

Spec == Init /\ [][Next]_vars

\* The runner's timers go off, its promises are run, and a turn that waits for
\* nobody comes to its end: its steps are bounded.
Fairness ==
  \A t \in Ids : /\ WF_vars(t \in Known /\ Begin(t))
                 /\ WF_vars(t \in Known /\ End(t))
                 /\ WF_vars(t \in Known /\ (Persist(t) \/ RequestRestart(t) \/ Finish(t)))
                 /\ WF_vars(t \in Known /\ Timeout(t))

FairSpec == Spec /\ Fairness

-----------------------------------------------------------------------------
(* Properties *)

Inputs(k) == {stored[k][i].id : i \in {j \in DOMAIN stored[k] : stored[k][j].kind = "input"}}

\* A stored conversation holds the inputs of its key in the order in which they
\* were queued and each message once, and no turn that has been stored is
\* missing: turns of one key never overwrite each other (queueAgentEvent,
\* loadConversationFromStorage).
StoredInOrder ==
  \A k \in Keys :
    /\ \A i, j \in DOMAIN stored[k] :
         i < j => /\ stored[k][i] # stored[k][j]
                  /\ (stored[k][i].kind = "input" /\ stored[k][j].kind = "input")
                       => stored[k][i].id < stored[k][j].id
    /\ {t \in Known : turns[t].key = k /\ turns[t].phase \in {"stored", "done"}} \subseteq Inputs(k)

\* A turn is told only of what it asked for itself and of each answer once:
\* neither a later turn of its key nor one that asked the same agent can read it,
\* and a turn blocks only on one that can still answer it (createAgentToolRuntime,
\* withOptionalTimeout).
AnswersAreOwn ==
  \A t \in Known :
    LET told == turns[t].inbox
                  \o [i \in 1..Len(turns[t].talk) |->
                        IF turns[t].talk[i].kind = "answer" THEN turns[t].talk[i].id ELSE 0]
    IN /\ \A i \in DOMAIN turns[t].inbox : turns[turns[t].inbox[i]].by = t
       /\ \A i, j \in DOMAIN told : i # j /\ told[i] # 0 => told[i] # told[j]
       /\ turns[t].waits # 0 =>
            LET c == turns[turns[t].waits] IN
            c.by = t /\ c.reply = "sync" /\ c.phase \notin {"done", "failed", "lost"}

\* The turn that asked for a restart is in the conversation the replacement
\* will load, and no reason outlives its process (executeInboundTurn,
\* requestRuntimeRestart).
RestartAfterStore == restart # 0 => restart \in Inputs(turns[restart].key)

\* What is stored survives the turns, of the same key and of others, and the
\* restart that a turn asks for.
ConversationsAreKept == TypeOK /\ StoredInOrder /\ RestartAfterStore

\* Every queued turn comes to its end unless the process does, even when turns
\* of several keys wait for each other's queues: the timers free them
\* (queueAgentEvent, withOptionalTimeout).
EveryTurnEnds == \A t \in Ids : t \in Known ~> (t \in Known /\ Over(t))

-----------------------------------------------------------------------------
(* Chains of calls *)

\* The keys a turn was asked for by, through middlewares all the way but for the
\* last call.
Callers ==
  LET f[t \in Known] ==
        IF turns[t].by = 0 THEN {}
        ELSE {turns[turns[t].by].key}
               \cup (IF turns[t].viaMiddleware THEN f[turns[t].by] ELSE {})
  IN f

\* A request that ends a chain of middlewares' calls, of any length, is of none of
\* the keys the chain went through, whether they wait, were told of a timeout or only
\* sent.  Of a chain with a call of agents__request in it nothing of the kind holds.
MiddlewareChainsAreSimple == \A t \in Known : turns[t].asked => turns[t].key \notin Callers[t]

-----------------------------------------------------------------------------
(* Documented claims that the code does not keep *)

\* The keys with a turn that waits for t, or for a turn that waits for it.
Waiting ==
  LET f[t \in Known] ==
        LET c == turns[t].by IN
        IF c = 0 \/ turns[t].reply # "sync" THEN {} ELSE {turns[c].key} \cup f[c]
  IN f

\* A circular chain of requests is refused at once (docs/specs/runtime.md:579): no
\* request is accepted for a key that waits, by way of others, for the one who asks.
CircularIsRefused == \A t \in Known : turns[t].key \notin Waiting[t]

\* An answer to an asynchronous request is put where a step will read it: the
\* inbox is the turn's own, and the turn may be over (docs/specs/tool.md:526).
AnswerIsRead ==
  [][\A t \in Known : turns[t].inbox # turns'[t].inbox /\ turns'[t].inbox # <<>> => ~Over(t)]_vars
=============================================================================

---------------------------- MODULE AgentProcess ----------------------------
(***************************************************************************)
(* One agent process (packages/runtime/src/runner/agent-runner.ts): its    *)
(* event queue, the turn it runs, the requests it waits for, the inbox of  *)
(* asynchronous answers, and how it drains.                                *)
(*                                                                         *)
(* One JavaScript event loop: a listener, a timer or a continuation runs   *)
(* to its next await.  Two listeners hear every IPC message, the one of    *)
(* the module (answers) before the one of main() (events, shutdown).  The  *)
(* orchestrator is the environment: it sends each event and each answer at *)
(* most once, and may kill the process at any time.                        *)
(***************************************************************************)
EXTENDS Naturals, Sequences, FiniteSets

CONSTANTS
  Events,      \* events addressed to this agent instance
  Requests,    \* those with a replyTo
  Corrs,       \* correlation ids this process may create
  Strangers,   \* correlation ids of another instance of the same agent
  NoTurn,      \* state.currentTurn === null
  MaxSteps, MaxPending, MaxInbox

ASSUME IdsAssumption ==
  /\ Requests \subseteq Events
  /\ Events \cap (Corrs \cup Strangers) = {} /\ Corrs \cap Strangers = {}
  /\ NoTurn \notin Events \cup Corrs \cup Strangers

ASSUME LimitsAssumption ==
  MaxSteps \in Nat /\ MaxPending \in Nat \ {0} /\ MaxInbox \in Nat \ {0}

VARIABLES
  phase,             \* how far the process is in its life
  sent,              \* what the orchestrator has sent, in order
  channel,           \* sent and not yet received, in order
  queue,             \* state.eventQueue
  processing,        \* state.processing
  draining,          \* state.draining
  currentTurn,       \* state.currentTurn
  turns,             \* the executions of executeTurn under way
  pendingResponses,  \* answers a turn blocks on
  pendingAsync,      \* pendingAsyncResponses
  asked,             \* how each correlation id was used
  settled,           \* how it was answered
  inbox,             \* asyncResponseInboxes of this instance
  base,              \* the stored conversation: events and injected answers
  replied,           \* requests whose response was sent
  acked              \* shutdown_ack was sent

vars == <<phase, sent, channel, queue, processing, draining, currentTurn, turns,
          pendingResponses, pendingAsync, asked, settled, inbox, base, replied, acked>>
loopVars == <<queue, processing, currentTurn, turns>>
askVars == <<pendingResponses, pendingAsync, asked, settled, inbox>>
lifeVars == <<phase, draining, acked>>

-----------------------------------------------------------------------------
(* Values *)

Answers == Corrs \cup Strangers
Ids == Events \cup Answers        \* what the queue can hold, and a turn can be about
Shutdown == [type |-> "shutdown"]
Message == [type : {"event"}, id : Events] \cup {Shutdown}
             \cup [type : {"response", "error_response"}, id : Answers]

\* What a conversation holds: inbound events and injected answers.
Inbound(id) == [role |-> "inbound", id |-> id]
Answer(c) == [role |-> "answer", id |-> c]
Entry == [role : {"inbound"}, id : Ids] \cup [role : {"answer"}, id : Corrs]
Injected == [i \in DOMAIN inbox |-> Answer(inbox[i])]

Turn == [event : Ids, pc : {"load", "loop", "model", "tools", "save", "reply", "end"},
         steps : 0..MaxSteps, waits : SUBSET Corrs, conv : Seq(Entry)]

TypeOK ==
  /\ phase \in {"booting", "ready", "saving", "exiting", "exited"}
  /\ sent \in Seq(Ids \cup {"shutdown"})
  /\ channel \in Seq(Message) /\ queue \in Seq(Ids) /\ base \in Seq(Entry)
  /\ processing \in BOOLEAN /\ draining \in BOOLEAN /\ acked \in BOOLEAN
  /\ currentTurn \in Ids \cup {NoTurn} /\ turns \subseteq Turn
  /\ pendingResponses \subseteq Corrs /\ pendingAsync \subseteq Corrs
  /\ asked \in [Corrs -> {"no", "sync", "async"}]
  /\ settled \in [Corrs -> {"none", "ok", "error", "timeout"}]
  /\ inbox \in Seq(Corrs) /\ Len(inbox) <= MaxInbox
  /\ Cardinality(pendingAsync) <= MaxPending
  /\ replied \subseteq Requests

Init ==
  /\ phase = "booting" /\ sent = <<>> /\ channel = <<>>
  /\ queue = <<>> /\ processing = FALSE /\ currentTurn = NoTurn /\ turns = {}
  /\ pendingResponses = {} /\ pendingAsync = {} /\ inbox = <<>>
  /\ asked = [c \in Corrs |-> "no"] /\ settled = [c \in Corrs |-> "none"]
  /\ base = <<>> /\ replied = {} /\ draining = FALSE /\ acked = FALSE

Alive == phase # "exited"
Elements(s) == {s[i] : i \in DOMAIN s}
Once(s) == \A i, j \in DOMAIN s : s[i] = s[j] => i = j

-----------------------------------------------------------------------------
(* The orchestrator *)

Send(what, m) ==
  /\ Alive /\ what \notin Elements(sent)
  /\ sent' = Append(sent, what)
  /\ channel' = Append(channel, m)
  /\ UNCHANGED <<loopVars, askVars, lifeVars, base, replied>>

SendEvent(e) == Send(e, [type |-> "event", id |-> e])
SendShutdown == Send("shutdown", Shutdown)

\* An answer to a request of this process, or one meant for a namesake.
SendResponse(c, type) ==
  /\ c \in Corrs => asked[c] # "no"
  /\ Send(c, [type |-> type, id |-> c])

\* SIGTERM, SIGKILL or a crash.
Die ==
  /\ Alive
  /\ phase' = "exited"
  /\ UNCHANGED <<sent, channel, loopVars, askVars, draining, acked, base, replied>>

-----------------------------------------------------------------------------
(* The queue *)

Begun(id) == [event |-> id, pc |-> "load", steps |-> 0, waits |-> {}, conv |-> <<>>]

\* The head of the while loop in processQueue: start the next turn or leave.
Loop(q, others) ==
  IF q = <<>> \/ draining
  THEN /\ queue' = q /\ processing' = FALSE
       /\ currentTurn' = NoTurn /\ turns' = others
  ELSE /\ queue' = Tail(q) /\ processing' = TRUE
       /\ currentTurn' = Head(q) /\ turns' = others \cup {Begun(Head(q))}

\* eventQueue.push, then processQueue.
Enqueue(id) ==
  IF processing
  THEN queue' = Append(queue, id) /\ UNCHANGED <<processing, currentTurn, turns>>
  ELSE Loop(Append(queue, id), turns)

-----------------------------------------------------------------------------
(* Incoming messages *)

\* enqueueAsyncResponse: beyond the limit the oldest answer is forgotten.
EnqueueAsync(c) ==
  LET all == Append(inbox, c)
  IN inbox' = IF Len(all) > MaxInbox THEN Tail(all) ELSE all

\* Mutant: an answer does not stop the timer of an asynchronous request.
SettleKeeping(c, how) ==
  /\ settled' = [settled EXCEPT ![c] = how]
  /\ pendingResponses' = pendingResponses \ {c}
  /\ IF c \in pendingAsync THEN EnqueueAsync(c) ELSE UNCHANGED inbox
  /\ UNCHANGED <<pendingAsync, asked>>

\* Take c off the map that holds it and hand its answer to whoever waits.
Settle(c, how) ==
  /\ settled' = [settled EXCEPT ![c] = how]
  /\ pendingResponses' = pendingResponses \ {c}
  /\ pendingAsync' = pendingAsync \ {c}
  /\ IF c \in pendingAsync THEN EnqueueAsync(c) ELSE UNCHANGED inbox
  /\ UNCHANGED asked

\* Before main() has attached its listener, only the other one hears.
ReceiveEarly ==
  /\ phase = "booting" /\ channel # <<>>
  /\ channel' = Tail(channel)
  /\ UNCHANGED <<sent, loopVars, askVars, lifeVars, base, replied>>

Receive(type) ==
  /\ phase \in {"ready", "saving", "exiting"} /\ channel # <<>>
  /\ Head(channel).type = type
  /\ channel' = Tail(channel)
  /\ UNCHANGED <<sent, base, replied>>

ReceiveEvent ==
  /\ Receive("event")
  /\ IF draining THEN UNCHANGED loopVars ELSE Enqueue(Head(channel).id)
  /\ UNCHANGED <<askVars, lifeVars>>

\* isPendingResponsePayload asks after the first listener has removed the
\* entry, so an answer that was awaited is queued as an event as well.
ReceiveResponse(type) ==
  LET c == Head(channel).id
      how == IF type = "response" THEN "ok" ELSE "error"
  IN
  /\ Receive(type)
  /\ IF c \in pendingResponses \cup pendingAsync THEN Settle(c, how)
     ELSE UNCHANGED askVars
  /\ IF draining \/ c \in pendingResponses' \cup pendingAsync' THEN UNCHANGED loopVars
     ELSE Enqueue(c)
  /\ UNCHANGED lifeVars

\* Mutant: the ack does not wait for the turn.
ReceiveShutdownAndAck ==
  /\ Receive("shutdown")
  /\ draining' = TRUE
  /\ acked' = TRUE /\ phase' = "exiting"
  /\ UNCHANGED <<loopVars, askVars>>

\* Without a turn the ack goes out at once, before saveAll; otherwise the
\* rest waits for the current turn.
ReceiveShutdown ==
  /\ Receive("shutdown")
  /\ draining' = TRUE
  /\ IF currentTurn = NoTurn THEN acked' = TRUE /\ phase' = "exiting"
     ELSE UNCHANGED <<acked, phase>>
  /\ UNCHANGED <<loopVars, askVars>>

\* main() attaches its listener and reports ready.
Boot ==
  /\ phase = "booting"
  /\ phase' = "ready"
  /\ UNCHANGED <<sent, channel, loopVars, askVars, draining, acked, base, replied>>

\* saveAll done: the ack after a turn, or the exit after the early ack.
Exit ==
  /\ phase \in {"saving", "exiting"}
  /\ acked' = TRUE /\ phase' = "exited"
  /\ UNCHANGED <<sent, channel, loopVars, askVars, draining, base, replied>>

-----------------------------------------------------------------------------
(* executeTurn *)

Become(t, u) == turns' = (turns \ {t}) \cup {u}
TurnStep(t, pc) == Alive /\ t \in turns /\ t.pc = pc
TurnOnly == UNCHANGED <<sent, channel, queue, processing, currentTurn, lifeVars>>

\* Load the history, append the inbound message and the answers in the inbox.
LoadConversation(t) ==
  /\ TurnStep(t, "load")
  /\ Become(t, [t EXCEPT !.pc = "loop", !.conv = Append(base, Inbound(t.event)) \o Injected])
  /\ inbox' = <<>>
  /\ TurnOnly /\ UNCHANGED <<pendingResponses, pendingAsync, asked, settled, base, replied>>

\* Mutant: the inbox is read and not emptied.
BeginStepCopying(t) ==
  /\ TurnStep(t, "loop")
  /\ Become(t, [t EXCEPT !.conv = @ \o Injected,
                  !.pc = IF t.steps >= MaxSteps THEN "save" ELSE "model",
                  !.steps = IF t.steps >= MaxSteps THEN @ ELSE @ + 1])
  /\ TurnOnly /\ UNCHANGED <<askVars, base, replied>>

\* The head of the step loop: inject the inbox, stop at maxSteps, else ask.
BeginStep(t) ==
  /\ TurnStep(t, "loop")
  /\ Become(t, [t EXCEPT !.conv = @ \o Injected,
                  !.pc = IF t.steps >= MaxSteps THEN "save" ELSE "model",
                  !.steps = IF t.steps >= MaxSteps THEN @ ELSE @ + 1])
  /\ inbox' = <<>>
  /\ TurnOnly /\ UNCHANGED <<pendingResponses, pendingAsync, asked, settled, base, replied>>

\* The model answers with text, with nothing usable (retry), or with tool calls.
ModelAnswers(t) ==
  /\ TurnStep(t, "model")
  /\ \E pc \in {"save", "loop", "tools"} : Become(t, [t EXCEPT !.pc = pc])
  /\ TurnOnly /\ UNCHANGED <<askVars, base, replied>>

\* waitForIpcResponse; when too many answers are awaited, the stale ones are
\* given up first (their age is not modelled: any of them).
RequestSync(t, c, stale) ==
  /\ TurnStep(t, "tools") /\ asked[c] = "no"
  /\ stale \subseteq pendingResponses
  /\ stale # {} => Cardinality(pendingResponses) > MaxPending
  /\ asked' = [asked EXCEPT ![c] = "sync"]
  /\ settled' = [d \in Corrs |-> IF d \in stale THEN "timeout" ELSE settled[d]]
  /\ pendingResponses' = (pendingResponses \ stale) \cup {c}
  /\ Become(t, [t EXCEPT !.waits = @ \cup {c}])
  /\ TurnOnly /\ UNCHANGED <<pendingAsync, inbox, base, replied>>

\* registerPendingAsyncResponse; at the limit the call fails and asks nothing.
RequestAsync(t, c) ==
  /\ TurnStep(t, "tools") /\ asked[c] = "no"
  /\ Cardinality(pendingAsync) < MaxPending
  /\ asked' = [asked EXCEPT ![c] = "async"]
  /\ pendingAsync' = pendingAsync \cup {c}
  /\ TurnOnly /\ UNCHANGED <<turns, pendingResponses, settled, inbox, base, replied>>

\* The tool results are in: every answer the tools waited for has come.
ToolsDone(t) ==
  /\ TurnStep(t, "tools")
  /\ \A c \in t.waits : settled[c] # "none"
  /\ Become(t, [t EXCEPT !.pc = "loop", !.waits = {}])
  /\ TurnOnly /\ UNCHANGED <<askVars, base, replied>>

\* writeBaseMessages replaces the stored conversation by the turn's.
SaveConversation(t) ==
  /\ TurnStep(t, "save")
  /\ base' = t.conv
  /\ Become(t, [t EXCEPT !.pc = "reply"])
  /\ TurnOnly /\ UNCHANGED <<askVars, replied>>

\* saveAll is done: send the response, if one is expected.
Reply(t) ==
  /\ TurnStep(t, "reply")
  /\ replied' = replied \cup ({t.event} \cap Requests)
  /\ Become(t, [t EXCEPT !.pc = "end"])
  /\ TurnOnly /\ UNCHANGED <<askVars, base>>

\* The turn's promise resolves; a drain goes on to saveAll, the ack and the exit.
EndTurn(t) ==
  /\ TurnStep(t, "end")
  /\ Loop(queue, turns \ {t})
  /\ phase' = IF draining /\ currentTurn = t.event THEN "saving" ELSE phase
  /\ UNCHANGED <<sent, channel, askVars, draining, acked, base, replied>>

\* Mutant: the exception leaves processQueue.
FailTurnAndLoop(t) ==
  /\ Alive /\ t \in turns
  /\ turns' = turns \ {t} /\ processing' = FALSE /\ currentTurn' = NoTurn
  /\ phase' = IF draining /\ currentTurn = t.event THEN "exited" ELSE phase
  /\ UNCHANGED <<sent, channel, queue, askVars, draining, acked, base, replied>>

\* It rejects, wherever it is: the queue goes on.  A drain has no handler for
\* that: whether or not the unhandled rejection ends the process, no ack follows.
FailTurn(t) ==
  /\ Alive /\ t \in turns
  /\ Loop(queue, turns \ {t})
  /\ phase' \in IF draining /\ currentTurn = t.event THEN {phase, "exited"} ELSE {phase}
  /\ UNCHANGED <<sent, channel, askVars, draining, acked, base, replied>>

\* The timer of one request, whether or not the turn that made it still runs.
RequestTimeout(c) ==
  /\ Alive
  /\ c \in pendingResponses \cup pendingAsync
  /\ Settle(c, "timeout")
  /\ UNCHANGED <<sent, channel, loopVars, lifeVars, base, replied>>

TurnNext(t) ==
  \/ LoadConversation(t) \/ BeginStep(t) \/ ModelAnswers(t) \/ ToolsDone(t)
  \/ SaveConversation(t) \/ Reply(t) \/ EndTurn(t) \/ FailTurn(t)
  \/ \E c \in Corrs :
       RequestAsync(t, c) \/ \E stale \in SUBSET Corrs : RequestSync(t, c, stale)

ReceiveNext ==
  \/ ReceiveEarly \/ ReceiveEvent \/ ReceiveShutdown
  \/ \E type \in {"response", "error_response"} : ReceiveResponse(type)

Next ==
  \/ \E e \in Events : SendEvent(e)
  \/ \E c \in Answers, type \in {"response", "error_response"} : SendResponse(c, type)
  \/ SendShutdown \/ Die \/ Boot \/ Exit
  \/ ReceiveNext
  \/ \E t \in turns : TurnNext(t)
  \/ \E c \in Corrs : RequestTimeout(c)

Spec == Init /\ [][Next]_vars

-----------------------------------------------------------------------------
(* Safety *)

\* docs/specs/runtime.md 5.4: turns of one process never overlap, although any
\* message can start one; and currentTurn names the one that runs, which is how
\* a shutdown finds it.
OneTurn ==
  /\ Cardinality(turns) <= 1
  /\ currentTurn = NoTurn <=> turns = {}
  /\ \A t \in turns : t.event = currentTurn

\* No lost wake-up: a queued event has a turn ahead of it, whose end starts it.
QueueIsServed == queue # <<>> /\ ~draining => turns # {}

\* The three listeners and the loop agree on who runs: at most one turn, the one
\* currentTurn names, and one is ahead of every queued event.
TurnsAreSerial == TypeOK /\ OneTurn /\ QueueIsServed

\* Once the shutdown was received no further turn starts.
DrainStartsNothing ==
  [][draining => {t.event : t \in turns'} \subseteq {t.event : t \in turns}]_vars

\* A drain lets the turn under way finish, starts no other, and is acknowledged
\* when none is left, in whatever order events and the shutdown come: the ack lets
\* the orchestrator kill the process (docs/specs/runtime.md 4.6).
DrainIsOrderly == [](acked => turns = {}) /\ DrainStartsNothing

\* A turn never waits on a request whose map entry, and so whose timer, is gone.
WaitIsArmed ==
  \A t \in turns : \A c \in t.waits : settled[c] # "none" \/ c \in pendingResponses

\* A late answer, an error, the timer and the eviction race for one request:
\* the first of them decides.
AnsweredOnce == [][\A c \in Corrs : settled[c] # "none" => settled'[c] = settled[c]]_vars

\* Each request is decided, and decided once: one that a turn waits for has a
\* timer left, also after the eviction of other entries, and nothing that comes
\* after the decision changes it.
RequestsAreDecidedOnce == []WaitIsArmed /\ AnsweredOnce

\* An answer to an asynchronous request is in one place only: the inbox, or one
\* message of the conversation.
InjectedOnce ==
  /\ Once(inbox) /\ Once(base)
  /\ \A t \in turns : Once(t.conv) /\ Elements(Injected) \cap Elements(t.conv) = {}
  /\ Elements(Injected) \cap Elements(base) = {}

\* The whole-file rewrite at the end of a turn loses nothing stored before.
ConversationKept ==
  [][Len(base) <= Len(base') /\ SubSeq(base', 1, Len(base)) = base]_vars

\* FIFO: events are stored in the order the orchestrator sent them.
StoredInOrder ==
  \A i, j \in DOMAIN base :
    base[i].role = "inbound" /\ base[j].role = "inbound" /\ i < j =>
      \E k, l \in DOMAIN sent : sent[k] = base[i].id /\ sent[l] = base[j].id /\ k < l

\* What a process stores, over turns that fail and a crash: the events in the
\* order in which they were sent, each asynchronous answer once, and everything
\* that was stored before.
StoredOnceInOrder == [](StoredInOrder /\ InjectedOnce) /\ ConversationKept

-----------------------------------------------------------------------------
(* What the specification documents say and the code does not do: TLC        *)
(* refutes each of these on the constants of the safety run.                 *)

\* docs/specs/shared-types.md 400-401: an answer goes to the caller that blocks
\* on it, or to the inbox.  It is also queued and run as a turn of its own.
AnswerIsNotATurn ==
  \A c \in Corrs : settled[c] = "ok" =>
    c \notin Elements(queue) \cup {t.event : t \in turns}

\* docs/specs/shared-types.md 402: an asynchronous answer is injected before the
\* next step, never left to the next turn.
AnswerInTheSameTurn ==
  [][\A t \in turns : t.pc = "end" /\ t \notin turns' => inbox = <<>>]_vars

\* docs/specs/runtime.md 4.4: an event for an agent that had to be spawned is
\* delivered to it.  What arrives before main() listens is heard by nobody.
EventsAreQueued ==
  [][channel # <<>> /\ channel' = Tail(channel) /\ ~draining
       /\ Head(channel).type = "event"
     => Head(channel).id \in Elements(queue') \cup {t.event : t \in turns'}]_vars

=============================================================================

-------------------------------- MODULE Turn --------------------------------
(***************************************************************************)
(* One turn after another of one agent instance in the runner              *)
(* (runAgentTurn, runtime-runner.ts): the conversation, the base           *)
(* extensions that rewrite it, the model steps with their retries, the     *)
(* tools, and what is stored when the turn ends.  RuntimeEngine has the    *)
(* queue that runs these turns one by one.                                 *)
(*                                                                         *)
(* The model, a tool's result, the answers of other agents and a crash are *)
(* the environment.  A message is what the rules below tell apart; its ids *)
(* are fresh (createId), so removing an id removes a place.  Nothing in    *)
(* the repository pins a message, so the pin test of the compaction is     *)
(* left out.                                                               *)
(***************************************************************************)
EXTENDS Naturals, Sequences, FiniteSets, SequencesExt

CONSTANTS
  PlanTools,       \* the agent's own tools
  SearchTool,      \* the tool the tool-search extension registers
  Required,        \* requiredTools of the guard; {} when it is not registered
  TurnExtensions,  \* "window", "compaction", "context", in order of registration
  WindowSize,      \* message-window: maxMessages
  CompactMessages, CompactSize, RetainLast,   \* message-compaction
  MaxSteps,        \* plan.maxSteps
  MaxRetries,      \* MAX_EMPTY_OUTPUT_ and MAX_MALFORMED_TOOL_CALL_RETRY_COUNT
  Sizes,           \* sizes of an inbound message
  Responses,       \* what the model may answer, see Response
  MaxTurns, MaxAnswers

ASSUME TurnAssumption ==
  /\ Required \subseteq PlanTools /\ SearchTool \notin PlanTools
  /\ TurnExtensions \in Seq({"window", "compaction", "context"})
  /\ {WindowSize, MaxSteps} \subseteq Nat \ {0}
  /\ {CompactMessages, CompactSize, RetainLast, MaxRetries, MaxTurns, MaxAnswers} \subseteq Nat
  /\ Sizes \subseteq Nat \ {0}

VARIABLES
  stored,         \* messages/base.jsonl
  savedSelection, \* extensions/tool-search.json: selectedTools
  selection,      \* the same in memory
  conv,           \* conversationState.nextMessages
  pc, turn, step,
  input,          \* the inbound message of the turn
  sent,           \* what the model was sent and has not answered
  offered,        \* the step's tool catalog
  todo, results,  \* tool calls of the step still to run, and run
  called,         \* tools that succeeded in this turn
  noted,          \* calledToolsPerTurn of the guard
  verdict,        \* how the step ended: "retry:empty", "retry:malformed", "go on", "stop"
  retries,        \* emptyOutputRetryCount, malformedToolCallRetryCount
  lastText,       \* the step whose text is lastText, 0 when there is none
  inbox,          \* asyncResponseInbox
  ending          \* why the turn ended

turnVars == <<turn, input>>
stepVars == <<todo, results, offered>>
guardVars == <<called, noted>>
vars == <<stored, savedSelection, selection, conv, pc, step, sent, verdict, retries,
          lastText, inbox, ending, turnVars, stepVars, guardVars>>

-----------------------------------------------------------------------------
(* Messages *)

AllTools == PlanTools \cup {SearchTool}
Kinds == {"inbound", "answer", "formatted", "note", "assistant", "malformed", "results",
          "context", "summary"}
Message == [kind : Kinds, turn : 0..MaxTurns, step : 0..MaxSteps,
            tools : SUBSET AllTools, text : BOOLEAN, size : Nat]

Msg(kind, tools, text) ==
  [kind |-> kind, turn |-> turn, step |-> step, tools |-> tools, text |-> text, size |-> 1]
Context == [kind |-> "context", turn |-> 0, step |-> 0, tools |-> {}, text |-> TRUE, size |-> 1]
Summary == [Context EXCEPT !.kind = "summary"]
Inbound(t, size) == [Context EXCEPT !.kind = "inbound", !.turn = t, !.size = size]

\* Only user and assistant messages are sent to the model, and stored.
Sendable(m) == m.kind \notin {"context", "summary"}
ToConversationTurns(c) ==
  FoldLeft(LAMBDA kept, m : IF Sendable(m) THEN Append(kept, m) ELSE kept, <<>>, c)

Calls(m) == IF m.kind \in {"assistant", "malformed"} THEN m.tools ELSE {}
Results(m) == IF m.kind = "results" THEN m.tools ELSE {}
Answers(r, m) == r.turn = m.turn /\ r.step = m.step /\ Results(r) \subseteq Calls(m)

SizeOf(c) == FoldLeft(LAMBDA n, m : n + m.size, 0, c)

-----------------------------------------------------------------------------
(* The extensions that rewrite the conversation *)

\* A result whose call is not in the message before it.
HasDanglingToolResult(m, kept) ==
  Results(m) # {} /\ (kept = <<>> \/ ~ Answers(m, Last(kept)))

\* What is left when the places in gone are removed, with every result the
\* removal leaves without its call.
Without(c, gone) ==
  FoldLeftDomain(LAMBDA kept, i :
                   IF i \in gone \/ HasDanglingToolResult(c[i], kept) THEN kept ELSE Append(kept, c[i]),
                 <<>>, c)

Window(c) == Without(c, {i \in DOMAIN c : i + WindowSize <= Len(c)})

OverLimit(c) == Len(c) > CompactMessages \/ SizeOf(c) > CompactSize

\* From the front, as long as what is left is over a limit.
Removable(c) ==
  {i \in DOMAIN c : i + RetainLast <= Len(c) /\ OverLimit(SubSeq(c, i, Len(c)))}

\* Mutant: whether the removal was enough is asked of the list before it
CompactStale(c) ==
  IF ~ OverLimit(c) THEN c ELSE <<Summary>>

Compact(c) ==
  LET kept == Without(c, Removable(c)) IN
  IF ~ OverLimit(c) THEN c
  ELSE IF OverLimit(kept) THEN <<Summary>> ELSE Append(kept, Summary)

HasPromptHashMarker(c) == \E i \in DOMAIN c : c[i].kind = "context"

AddContext(c) == IF HasPromptHashMarker(c) THEN c ELSE Append(c, Context)

Apply(c, extension) ==
  CASE extension = "window" -> Window(c)
    [] extension = "compaction" -> Compact(c)
    [] extension = "context" -> AddContext(c)

-----------------------------------------------------------------------------
TypeOK ==
  /\ stored \in Seq(Message) /\ stored = ToConversationTurns(stored) /\ conv \in Seq(Message) /\ sent \in Seq(Message)
  /\ savedSelection \subseteq AllTools /\ selection \subseteq AllTools /\ offered \subseteq AllTools
  /\ pc \in {"idle", "loop", "model", "tools", "guard", "after", "save", "failed", "persist"}
  /\ turn \in 0..MaxTurns /\ step \in 0..MaxSteps /\ lastText \in 0..MaxSteps
  /\ todo \subseteq AllTools /\ results \subseteq AllTools
  /\ called \subseteq AllTools /\ noted \subseteq called
  /\ verdict \in {"none", "go on", "stop", "retry:empty", "retry:malformed"}
  /\ retries \in [{"retry:empty", "retry:malformed"} -> 0..MaxRetries + 1]
  /\ inbox \in 0..MaxAnswers
  /\ ending \in {"none", "text", "max_steps", "gave_up", "error"}
  /\ input \in Message

NoRetries == [kind \in {"retry:empty", "retry:malformed"} |-> 0]

Init ==
  /\ stored = <<>> /\ conv = <<>> /\ sent = <<>>
  /\ savedSelection = {} /\ selection = {} /\ offered = {} /\ todo = {} /\ results = {}
  /\ pc = "idle" /\ turn = 0 /\ step = 0 /\ lastText = 0 /\ inbox = 0
  /\ called = {} /\ noted = {} /\ verdict = "none" /\ retries = NoRetries
  /\ ending = "none" /\ input = Context

\* The locals of runAgentTurn, before and after a turn.
Forgotten ==
  /\ conv' = <<>> /\ sent' = <<>> /\ offered' = {} /\ todo' = {} /\ results' = {}
  /\ step' = 0 /\ lastText' = 0 /\ inbox' = 0 /\ called' = {} /\ noted' = {}
  /\ verdict' = "none" /\ retries' = NoRetries /\ ending' = "none" /\ input' = Context

-----------------------------------------------------------------------------
(* A turn *)

\* The inbound message is appended before the turn middlewares run; the guard
\* starts its own count.
Begin(size) ==
  /\ pc = "idle" /\ turn < MaxTurns
  /\ turn' = turn + 1
  /\ input' = Inbound(turn + 1, size)
  /\ conv' = FoldLeft(Apply, Append(stored, input'), TurnExtensions)
  /\ pc' = "loop"
  /\ UNCHANGED <<stored, savedSelection, selection, step, sent, verdict, retries, lastText, inbox,
                 ending, stepVars, guardVars>>

\* Mutant: an answer goes into the conversation at once
AnswerAtOnce ==
  /\ pc \in {"model", "tools"} /\ Len(conv) < 9
  /\ conv' = Append(conv, Msg("answer", {}, TRUE))
  /\ UNCHANGED <<stored, savedSelection, selection, inbox, pc, step, sent, verdict, retries,
                 lastText, ending, turnVars, stepVars, guardVars>>

AnswerArrives ==
  /\ pc \in {"model", "tools"} /\ inbox < MaxAnswers
  /\ inbox' = inbox + 1
  /\ UNCHANGED <<stored, savedSelection, selection, conv, pc, step, sent, verdict, retries,
                 lastText, ending, turnVars, stepVars, guardVars>>

Flushed == conv \o [i \in 1..inbox |-> Msg("answer", {}, TRUE)]

\* inter-agent-response-format: an answer is data until a step makes it a text, and
\* its mark keeps a later step from doing so again.
Unformatted(m) == m.kind = "answer"
Formatted(c) == [i \in DOMAIN c |-> IF Unformatted(c[i]) THEN [c[i] EXCEPT !.kind = "formatted"] ELSE c[i]]

\* What the turn ends with: the last text, or a message that stands in for it.
End(why, c) ==
  /\ conv' = c
  /\ ending' = why /\ pc' = "save"

Fallback == [Msg("assistant", {}, TRUE) EXCEPT !.step = 0]
\* Mutant: as in agent-runner.ts, where the stand-in is only sent
WithoutReply(c) == c

WithReply(c) == IF lastText = 0 THEN Append(c, Fallback) ELSE c

StepLimit ==
  /\ pc = "loop" /\ step >= MaxSteps
  /\ End("max_steps", WithReply(Flushed))
  /\ inbox' = 0
  /\ UNCHANGED <<stored, savedSelection, selection, step, sent, verdict, retries, lastText,
                 turnVars, stepVars, guardVars>>

\* tool-search: the tools it selected, and itself.
Filtered(all) == IF selection = {} THEN all ELSE all \cap (selection \cup {SearchTool})

\* The step middlewares format the answers and filter the catalog; the
\* request is what is left of the conversation.
BeginStep ==
  /\ pc = "loop" /\ step < MaxSteps
  /\ step' = step + 1
  /\ conv' = Formatted(Flushed) /\ inbox' = 0
  /\ offered' = Filtered(AllTools)
  /\ sent' = ToConversationTurns(conv')
  /\ pc' = "model" /\ todo' = {} /\ results' = {} /\ verdict' = "none"
  /\ UNCHANGED <<stored, savedSelection, selection, retries, lastText, ending, turnVars, guardVars>>

-----------------------------------------------------------------------------
(* The model answers *)

\* Text that is blank is content but no text block.  tools: the well-formed calls.
\* A fault is a call of a tool that is not offered or with arguments that do not fit
\* its schema ("bad call"), or a finish reason that names calls where there are none.
Response == [text : {"none", "blank", "text"}, tools : SUBSET AllTools,
             fault : {"none", "bad call", "no call"}]

ASSUME ResponsesAssumption == Responses \subseteq Response

MayAnswer(r) ==
  /\ r.tools \subseteq offered /\ (r.tools # {} => r.text # "blank")
  /\ r.fault = "no call" => r.tools = {}

Content(r) == r.text # "none" \/ r.tools # {} \/ r.fault = "bad call"

\* An empty answer to tool results ends the turn, any other is retried.
ClassifyModelStepRetryKind(r) ==
  IF r.fault # "none" THEN "retry:malformed"
  ELSE IF ~ Content(r) /\ Last(sent).kind # "results" THEN "retry:empty"
  ELSE IF r.tools = {} THEN "stop" ELSE "go on"

\* The assistant's message keeps all its calls, the bad ones and those beside them.
Said(r) ==
  IF Content(r) THEN Append(conv, Msg(IF r.fault = "bad call" THEN "malformed" ELSE "assistant",
                                      r.tools, r.text = "text"))
  ELSE conv

ModelAnswers(r) ==
  /\ pc = "model" /\ sent # <<>> /\ MayAnswer(r)
  /\ verdict' = ClassifyModelStepRetryKind(r)
  /\ lastText' = IF r.text = "text" THEN step ELSE lastText
  /\ IF verdict' = "go on"
     THEN pc' = "tools" /\ todo' = r.tools
     ELSE pc' = "guard" /\ todo' = {}
  /\ conv' = IF verdict' \in DOMAIN retries THEN Append(Said(r), Msg("note", {}, TRUE)) ELSE Said(r)
  /\ sent' = <<>>
  /\ UNCHANGED <<stored, savedSelection, selection, step, retries, inbox, ending,
                 turnVars, offered, results, guardVars>>

\* The provider fails, or refuses the request.
ModelFails ==
  /\ pc = "model"
  /\ pc' = "failed" /\ sent' = <<>>
  /\ UNCHANGED <<stored, savedSelection, selection, conv, step, verdict, retries, lastText,
                 inbox, ending, turnVars, stepVars, guardVars>>

\* Any part of the step's catalog may match a query.
SearchSnapshot == SUBSET offered

\* The search tool selects what matched; a query that is too short selects nothing.
Search == selection' \in SearchSnapshot \cup {selection}

\* Arguments that do not fit the schema, a tool that is not in the catalog or has no
\* handler, a handler that throws: the executor makes a result of each.
Outcomes == {"ok", "invalid_args", "not_found", "threw"}

Execute(tool, outcome) ==
  /\ todo' = todo \ {tool} /\ results' = results \cup {tool}
  /\ called' = IF outcome = "ok" THEN called \cup {tool} ELSE called
  /\ IF tool = SearchTool /\ outcome = "ok" THEN Search ELSE UNCHANGED selection

\* Mutant: the guard counts a call whatever its result
RunToolUnchecked(tool, outcome) ==
  /\ pc = "tools" /\ tool \in todo
  /\ Execute(tool, outcome)
  /\ noted' = noted \cup {tool}
  /\ UNCHANGED <<stored, savedSelection, conv, pc, step, sent, verdict, retries, lastText, inbox,
                 ending, turnVars, offered>>

\* runToolCall: the guard's middleware notes a call that succeeded.
RunTool(tool, outcome) ==
  /\ pc = "tools" /\ tool \in todo
  /\ Execute(tool, outcome)
  /\ noted' = IF outcome = "ok" THEN noted \cup {tool} ELSE noted
  /\ UNCHANGED <<stored, savedSelection, conv, pc, step, sent, verdict, retries, lastText, inbox,
                 ending, turnVars, offered>>

\* Mutant: the step waits until every tool has succeeded
ToolsDoneWhenOk ==
  /\ pc = "tools" /\ todo = {} /\ results \subseteq called
  /\ conv' = Append(conv, Msg("results", results, FALSE))
  /\ pc' = "guard" /\ results' = {}
  /\ UNCHANGED <<stored, savedSelection, selection, step, sent, verdict, retries, lastText, inbox,
                 ending, turnVars, todo, offered, guardVars>>

ToolsDone ==
  /\ pc = "tools" /\ todo = {}
  /\ conv' = Append(conv, Msg("results", results, FALSE))
  /\ pc' = "guard" /\ results' = {}
  /\ UNCHANGED <<stored, savedSelection, selection, step, sent, verdict, retries, lastText, inbox,
                 ending, turnVars, todo, offered, guardVars>>

-----------------------------------------------------------------------------
(* After a step *)

Satisfied == Required = {} \/ noted \cap Required # {}

\* required-tools-guard: a step that would end the turn goes on when no
\* required tool has succeeded; once satisfied the count is dropped.
GuardSatisfied ==
  /\ pc = "guard" /\ (verdict = "go on" \/ Satisfied)
  /\ noted' = IF verdict = "go on" THEN noted ELSE {}
  /\ pc' = "after"
  /\ UNCHANGED <<stored, savedSelection, selection, conv, step, sent, verdict, retries, lastText,
                 inbox, ending, turnVars, stepVars, called>>

GuardDemands ==
  /\ pc = "guard" /\ verdict # "go on" /\ ~ Satisfied
  /\ conv' = Append(conv, Msg("note", Required, TRUE))
  /\ verdict' = IF verdict = "stop" THEN "go on" ELSE verdict
  /\ pc' = "after"
  /\ UNCHANGED <<stored, savedSelection, selection, step, sent, retries, lastText, inbox, ending,
                 turnVars, stepVars, guardVars>>

\* The loop looks at the retry first, whatever the guard made of the step.
Retry ==
  /\ pc = "after" /\ verdict \in DOMAIN retries
  /\ retries' = [NoRetries EXCEPT ![verdict] = retries[verdict] + 1]
  /\ IF retries'[verdict] > MaxRetries
     THEN End("gave_up", Append(conv, Fallback))
     ELSE pc' = "loop" /\ UNCHANGED <<conv, ending>>
  /\ UNCHANGED <<stored, savedSelection, selection, step, sent, verdict, lastText, inbox,
                 turnVars, stepVars, guardVars>>

GoOn ==
  /\ pc = "after" /\ verdict = "go on"
  /\ retries' = NoRetries /\ pc' = "loop"
  /\ UNCHANGED <<stored, savedSelection, selection, conv, step, sent, verdict, lastText, inbox,
                 ending, turnVars, stepVars, guardVars>>

Finish ==
  /\ pc = "after" /\ verdict = "stop"
  /\ retries' = NoRetries
  /\ End("text", WithReply(conv))
  /\ UNCHANGED <<stored, savedSelection, selection, step, sent, verdict, lastText, inbox,
                 turnVars, stepVars, guardVars>>

\* A turn that failed is stored as its input and an error, without its steps.
Failed ==
  /\ pc = "failed"
  /\ End("error", stored \o <<input, Fallback>>)
  /\ UNCHANGED <<stored, savedSelection, selection, step, sent, verdict, retries, lastText, inbox,
                 turnVars, stepVars, guardVars>>

-----------------------------------------------------------------------------
(* Storing it *)

\* extensionStateManager.saveAll, whether the turn failed or not.
SaveExtensions ==
  /\ pc = "save"
  /\ savedSelection' = selection
  /\ pc' = "persist"
  /\ UNCHANGED <<stored, selection, conv, step, sent, verdict, retries, lastText, inbox, ending,
                 turnVars, stepVars, guardVars>>

\* base.jsonl is written beside the old one and renamed.
Persist ==
  /\ pc = "persist"
  /\ stored' = ToConversationTurns(conv)
  /\ pc' = "idle" /\ Forgotten
  /\ UNCHANGED <<savedSelection, selection, turn>>

\* The process dies and comes back: what was not stored is gone.
Crash ==
  /\ pc # "idle"
  /\ pc' = "idle" /\ Forgotten
  /\ selection' = savedSelection
  /\ UNCHANGED <<stored, savedSelection, turn>>

-----------------------------------------------------------------------------
Model == ModelFails \/ \E r \in Responses : ModelAnswers(r)
Tools == \E tool \in AllTools, outcome \in Outcomes : RunTool(tool, outcome)
Runtime ==
  \/ StepLimit \/ BeginStep \/ ToolsDone \/ GuardSatisfied \/ GuardDemands
  \/ Retry \/ GoOn \/ Finish \/ Failed \/ SaveExtensions \/ Persist
Environment == AnswerArrives \/ Crash \/ \E size \in Sizes : Begin(size)

Next == Model \/ Tools \/ Runtime \/ Environment

\* The runner runs on; the model and the tools answer, if only with an error.  Nothing
\* in the turn bounds the wait for either: without that much a turn may never end.
Fairness == WF_vars(Runtime) /\ WF_vars(Model) /\ WF_vars(Tools)
Spec == Init /\ [][Next]_vars /\ Fairness

-----------------------------------------------------------------------------
(* Properties *)

\* Every result that is sent to the model or stored follows the call it
\* answers, whatever the window and the compaction removed
\* (message-integrity.ts:75-79).
ResultsFollowCalls ==
  \A c \in {sent, stored} : \A i \in DOMAIN c :
    Results(c[i]) # {} => i > 1 /\ Answers(c[i], c[i-1])

\* The calls of an answer without a fault are never sent or stored without the
\* results of all their tools right after them, even when an answer of another agent,
\* a failure of a tool, the step limit or a crash comes between.  Those of an answer
\* with a bad call stay without results: see CallsAreRun.
CallsAreAnswered ==
  \A c \in {sent, stored} : \A i \in DOMAIN c :
    c[i].kind = "assistant" /\ c[i].tools # {} =>
      i < Len(c) /\ c[i+1].kind = "results" /\ c[i+1].step = c[i].step /\ c[i+1].tools = c[i].tools

\* The model reads an answer of another agent as a text, also one that came after the
\* last step of an earlier turn and was stored as data
\* (inter-agent-response-format.ts:217-240).
AnswersAreTexts == \A m \in ToSet(sent) : ~ Unformatted(m)

\* The calls and results of a conversation match, but for the answers that were
\* retried for a bad call, and what the model reads of other agents is text.
RequestsAreSound == TypeOK /\ ResultsFollowCalls /\ CallsAreAnswered /\ AnswersAreTexts

\* The message the turn is about is in every request of the turn, unless the
\* messages the compaction has to keep are over its limit by themselves.
InputReachesModel ==
  LET h == Append(stored, input)
      tail == SubSeq(h, IF Len(h) > RetainLast THEN Len(h) - RetainLast + 1 ELSE 1, Len(h))
  IN pc = "model" /\ ~ OverLimit(tail) => input \in ToSet(sent)

\* A turn that ends with the model's answer has called a required tool with
\* success in that turn; only the step limit and the retry limits end it
\* without (docs/wiki/reference/resources.md:238).
RequiredToolWasCalled ==
  ending = "text" /\ Required # {} => called \cap Required # {}

\* What the turn returns is in the conversation it stores: the next turn
\* remembers what the agent said, at the step limit too.
ReplyIsRemembered ==
  [][Persist /\ ending \in {"text", "max_steps"} =>
       \E m \in ToSet(stored') : /\ m.kind \in {"assistant", "malformed"} /\ m.text
                                 /\ m.turn = turn /\ m.step = lastText]_vars

\* Every turn ends: steps are counted whatever the guard and the retries ask
\* for.
TurnsEnd == pc # "idle" ~> pc = "idle"

-----------------------------------------------------------------------------
(* Documented claims that the code does not keep *)

\* When an answer has tool calls they are run before the next step
\* (docs/specs/runtime.md:98).  One bad call keeps the others from being run, and the
\* message with all of them is sent, and stored, without results.
CallsAreRun ==
  \A c \in {sent, stored} : \A i \in DOMAIN c :
    Calls(c[i]) # {} => i < Len(c) /\ c[i+1].kind = "results" /\ c[i+1].tools = Calls(c[i])

\* The guard does not ask for a required tool that has succeeded in the turn
\* (docs/specs/extension.md:755-769 and 802).  It forgets the success when a step that
\* would have ended the turn is retried.
SatisfiedIsNotAsked ==
  [][pc = "guard" /\ called \cap Required # {} => Len(conv') <= Len(conv)]_vars
=============================================================================

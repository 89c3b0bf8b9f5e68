------------------------- MODULE AgentProcessProofs -------------------------
(***************************************************************************)
(* Proofs about AgentProcess: turns never overlap and a queued event has   *)
(* one ahead of it, a drain is orderly, requests are decided once, and     *)
(* what is stored is in order, each answer once, and kept.                 *)
(*                                                                         *)
(* IInv is the inductive invariant.  Its parts are disturbed by different  *)
(* actions: the loop by listeners that start a turn and by the end of one, *)
(* the asks by requests, answers and timers, the drain by both.  StoreInv, *)
(* built on it, follows a message from the channel to the conversation.    *)
(***************************************************************************)
EXTENDS AgentProcess, FiniteSetTheorems, SequenceTheorems, TLAPS

-----------------------------------------------------------------------------
(* The inductive invariant *)

LifeTyped ==
  /\ phase \in {"booting", "ready", "saving", "exiting", "exited"}
  /\ draining \in BOOLEAN /\ acked \in BOOLEAN

MailTyped ==
  /\ sent \in Seq(Ids \cup {"shutdown"}) /\ channel \in Seq(Message)
  /\ base \in Seq(Entry) /\ replied \subseteq Requests

LoopTyped ==
  /\ queue \in Seq(Ids) /\ processing \in BOOLEAN
  /\ currentTurn \in Ids \cup {NoTurn} /\ turns \subseteq Turn

AsksTyped ==
  /\ pendingResponses \subseteq Corrs /\ pendingAsync \subseteq Corrs
  /\ asked \in [Corrs -> {"no", "sync", "async"}]
  /\ settled \in [Corrs -> {"none", "ok", "error", "timeout"}]
  /\ inbox \in Seq(Corrs) /\ Len(inbox) <= MaxInbox
  /\ IsFiniteSet(pendingAsync) /\ Cardinality(pendingAsync) <= MaxPending

\* The loop runs exactly while it has a turn, the one currentTurn names, and it
\* leaves no event behind.
Serial ==
  /\ \A t, u \in turns : t = u
  /\ \A t \in turns : t.event = currentTurn
  /\ currentTurn # NoTurn => turns # {}
  /\ processing <=> turns # {}
  /\ queue # <<>> /\ ~draining => processing

\* Past the last turn of a drain nothing runs and nothing can begin.
Drained == acked \/ phase \in {"saving", "exiting"} => draining /\ turns = {}

\* An entry of the maps is an open request, and each map has its own.
Decided ==
  /\ pendingResponses \cap pendingAsync = {}
  /\ \A c \in pendingResponses \cup pendingAsync : settled[c] = "none" /\ asked[c] # "no"
  /\ \A c \in Corrs : asked[c] = "no" => settled[c] = "none"

\* What the turn has loaded begins with what is stored.
Extends(conv) ==
  Len(base) <= Len(conv) /\ \A i \in 1..Len(base) : conv[i] = base[i]
Kept == \A t \in turns : t.pc # "load" => Extends(t.conv)

IInv ==
  /\ LifeTyped /\ MailTyped /\ LoopTyped /\ AsksTyped
  /\ Serial /\ Drained /\ Decided /\ WaitIsArmed /\ Kept

-----------------------------------------------------------------------------
(* Lemmas about the operators *)

\* A new turn is one.
LEMMA BegunIsTurn ==
  ASSUME NEW id \in Ids
  PROVE  Begun(id) \in Turn /\ Begun(id).event = id /\ Begun(id).pc = "load"
         /\ Begun(id).waits = {}
BY LimitsAssumption DEF Begun, Turn

\* The head of the loop, with no turn left: it starts the turn of the first
\* event or leaves, and it leaves with events only in a drain.
LEMMA LoopStep ==
  ASSUME NEW q \in Seq(Ids), draining \in BOOLEAN, Loop(q, {})
  PROVE  /\ LoopTyped'
         /\ draining' = draining => Serial'
         /\ draining => turns' = {}
         /\ \A t \in turns' : t.waits = {} /\ t.pc = "load"
<1>1. CASE q = <<>> \/ draining
  <2>1. queue' = q /\ processing' = FALSE /\ currentTurn' = NoTurn /\ turns' = {}
    BY <1>1 DEF Loop
  <2> QED BY <1>1, <2>1 DEF LoopTyped, Serial
<1>2. CASE ~(q = <<>> \/ draining)
  <2>1. /\ queue' = Tail(q) /\ processing' = TRUE
        /\ currentTurn' = Head(q) /\ turns' = {Begun(Head(q))}
    BY <1>2 DEF Loop
  <2>2. Head(q) \in Ids /\ Tail(q) \in Seq(Ids)
    BY <1>2
  <2>3. Begun(Head(q)) \in Turn /\ Begun(Head(q)).event = Head(q)
        /\ Begun(Head(q)).waits = {} /\ Begun(Head(q)).pc = "load"
    BY <2>2, BegunIsTurn
  <2> QED BY <1>2, <2>1, <2>2, <2>3, Zenon DEF LoopTyped, Serial
<1> QED BY <1>1, <1>2

\* An event that arrives joins the queue behind the turn under way, or starts its own.
LEMMA EnqueueStep ==
  ASSUME LoopTyped, Serial, NEW id \in Ids, draining = FALSE, draining' = FALSE, Enqueue(id)
  PROVE  /\ LoopTyped' /\ Serial'
         /\ turns' = turns \/ \A t \in turns' : t.waits = {} /\ t.pc = "load"
<1>0. Append(queue, id) \in Seq(Ids)
  BY DEF LoopTyped
<1>1. CASE processing
  BY <1>0, <1>1 DEF Enqueue, LoopTyped, Serial
<1>2. CASE ~processing
  <2>1. turns = {}
    BY <1>2 DEF Serial
  <2>2. Loop(Append(queue, id), {})
    BY <1>2, <2>1 DEF Enqueue
  <2> QED BY <1>0, <2>2, LoopStep, Zenon
<1> QED BY <1>1, <1>2

\* A step of the turn replaces it by itself further on.
LEMMA BecomeStep ==
  ASSUME LoopTyped, Serial, NEW t \in turns, NEW u \in Turn, u.event = t.event,
         Become(t, u), UNCHANGED <<queue, processing, currentTurn, draining>>
  PROVE  LoopTyped' /\ Serial' /\ turns' = {u}
<1>1. turns = {t}
  BY DEF Serial
<1>2. turns' = {u}
  BY <1>1 DEF Become
<1> QED BY <1>1, <1>2 DEF LoopTyped, Serial

\* Taking an answer in, from the orchestrator or from the timer.
LEMMA SettleStep ==
  ASSUME AsksTyped, Decided, WaitIsArmed, NEW c \in pendingResponses \cup pendingAsync,
         NEW how \in {"ok", "error", "timeout"}, Settle(c, how)
  PROVE  /\ AsksTyped' /\ Decided'
         /\ \A d \in Corrs : settled[d] # "none" => settled'[d] = settled[d]
         /\ \A d \in Corrs : settled[d] # "none" \/ d \in pendingResponses
                             => settled'[d] # "none" \/ d \in pendingResponses'
         /\ pendingResponses' \cup pendingAsync' = (pendingResponses \cup pendingAsync) \ {c}
<1>1. /\ settled' = [settled EXCEPT ![c] = how]
      /\ pendingResponses' = pendingResponses \ {c}
      /\ pendingAsync' = pendingAsync \ {c}
      /\ asked' = asked
  BY DEF Settle
<1>2. c \in Corrs
  BY DEF AsksTyped
<1>3. inbox' \in Seq(Corrs) /\ Len(inbox') <= MaxInbox
  <2>1. CASE c \in pendingAsync
    <3> DEFINE all == Append(inbox, c)
    <3>1. all \in Seq(Corrs) /\ Len(all) = Len(inbox) + 1 /\ Len(inbox) \in Nat
      BY <1>2 DEF AsksTyped
    <3>2. inbox' = IF Len(all) > MaxInbox THEN Tail(all) ELSE all
      BY <2>1 DEF Settle, EnqueueAsync
    <3>3. all # <<>> /\ Tail(all) \in Seq(Corrs) /\ Len(Tail(all)) = Len(all) - 1
      BY <3>1
    <3>4. MaxInbox \in Nat /\ Len(inbox) <= MaxInbox
      BY LimitsAssumption DEF AsksTyped
    <3> QED BY <3>1, <3>2, <3>3, <3>4
  <2>2. CASE c \notin pendingAsync
    BY <2>2 DEF Settle, AsksTyped
  <2> QED BY <2>1, <2>2
<1>4. IsFiniteSet(pendingAsync') /\ Cardinality(pendingAsync') <= MaxPending
  <2>1. CASE c \in pendingAsync
    <3>1. Cardinality(pendingAsync') = Cardinality(pendingAsync) - 1 /\ IsFiniteSet(pendingAsync')
      BY <1>1, <2>1, FS_RemoveElement DEF AsksTyped
    <3>2. Cardinality(pendingAsync) \in Nat
      BY FS_CardinalityType DEF AsksTyped
    <3> QED BY <3>1, <3>2, LimitsAssumption DEF AsksTyped
  <2>2. CASE c \notin pendingAsync
    <3>1. pendingAsync' = pendingAsync
      BY <1>1, <2>2
    <3> QED BY <3>1 DEF AsksTyped
  <2> QED BY <2>1, <2>2
<1>5. AsksTyped'
  BY <1>1, <1>2, <1>3, <1>4 DEF AsksTyped
<1>6. Decided'
  BY <1>1, <1>2 DEF Decided, AsksTyped
<1> QED BY <1>1, <1>2, <1>5, <1>6 DEF AsksTyped, Decided

-----------------------------------------------------------------------------
(* The steps keep the invariant *)

LEMMA InitKeeps == Init => IInv
<1> SUFFICES ASSUME Init PROVE IInv
  OBVIOUS
<1>1. IsFiniteSet(pendingAsync) /\ Cardinality(pendingAsync) = 0
  BY FS_EmptySet DEF Init
<1>2. AsksTyped
  BY <1>1, LimitsAssumption DEF Init, AsksTyped
<1>3. MailTyped
  <2>1. sent = <<>> /\ channel = <<>> /\ base = <<>> /\ replied = {}
    BY DEF Init
  <2> QED BY <2>1 DEF MailTyped
<1>6. queue \in Seq(Ids) /\ currentTurn \in Ids \cup {NoTurn} /\ turns \subseteq Turn
  <2>1. queue = <<>> /\ currentTurn = NoTurn /\ turns = {}
    BY DEF Init
  <2> QED BY <2>1
<1>7. /\ processing \in BOOLEAN /\ draining \in BOOLEAN /\ acked \in BOOLEAN
      /\ phase \in {"booting", "ready", "saving", "exiting", "exited"}
  BY Zenon DEF Init
<1>4. Serial
  BY Zenon DEF Init, Serial
<1>5. Drained /\ Decided /\ WaitIsArmed /\ Kept
  BY DEF Init, Drained, Decided, WaitIsArmed, Kept
<1> QED BY <1>2, <1>3, <1>4, <1>5, <1>6, <1>7 DEF IInv, LifeTyped, LoopTyped

\* What the orchestrator sends only joins the channel.
LEMMA SendKeeps ==
  ASSUME IInv, NEW what \in Ids \cup {"shutdown"}, NEW m \in Message, Send(what, m)
  PROVE  IInv'
<1>1. MailTyped'
  BY DEF Send, IInv, MailTyped
<1> QED BY <1>1 DEF Send, loopVars, askVars, lifeVars, IInv, LifeTyped, LoopTyped, AsksTyped,
             Serial, Drained, Decided, WaitIsArmed, Kept, Extends

\* A change of the phase alone.
LEMMA PhaseKeeps ==
  ASSUME IInv, phase' \in {"booting", "ready", "saving", "exiting", "exited"},
         UNCHANGED <<sent, channel, loopVars, askVars, draining, base, replied>>,
         acked' \in BOOLEAN, Drained'
  PROVE  IInv'
BY DEF loopVars, askVars, IInv, LifeTyped, MailTyped, LoopTyped, AsksTyped,
       Serial, Decided, WaitIsArmed, Kept, Extends

LEMMA LifeKeeps ==
  ASSUME IInv, Die \/ Boot \/ Exit
  PROVE  IInv'
<1>1. /\ phase' \in {"booting", "ready", "saving", "exiting", "exited"}
      /\ UNCHANGED <<sent, channel, loopVars, askVars, draining, base, replied>>
      /\ acked' \in BOOLEAN
  BY DEF Die, Boot, Exit, IInv, LifeTyped
<1>2. Drained'
  BY DEF Die, Boot, Exit, loopVars, IInv, Drained
<1> QED BY <1>1, <1>2, PhaseKeeps, Zenon

\* The head of the channel is gone, and no listener has done anything yet.
LEMMA ReceiveTyped ==
  ASSUME IInv, channel # <<>>, channel' = Tail(channel), UNCHANGED <<sent, base, replied>>
  PROVE  MailTyped' /\ Head(channel) \in Message
BY DEF IInv, MailTyped

LEMMA ReceiveEventKeeps ==
  ASSUME IInv, ReceiveEvent
  PROVE  IInv'
<1>1. MailTyped' /\ Head(channel) \in Message
  BY ReceiveTyped DEF ReceiveEvent, Receive
<1>2. Head(channel).id \in Ids
  BY <1>1, IdsAssumption DEF ReceiveEvent, Receive, Message, Ids, Shutdown
<1>3. UNCHANGED <<askVars, lifeVars, base>>
  BY DEF ReceiveEvent, Receive
<1>4. LoopTyped' /\ Serial' /\ (turns' = turns \/ \A t \in turns' : t.waits = {} /\ t.pc = "load")
  <2>1. CASE draining
    BY <2>1, <1>3 DEF ReceiveEvent, lifeVars, loopVars, IInv, LoopTyped, Serial
  <2>2. CASE ~draining
    <3>1. draining = FALSE /\ draining' = FALSE
      BY <2>2, <1>3 DEF lifeVars, IInv, LifeTyped
    <3>2. Enqueue(Head(channel).id)
      BY <2>2 DEF ReceiveEvent
    <3> QED BY <3>1, <3>2, <1>2, EnqueueStep, Zenon DEF IInv
  <2> QED BY <2>1, <2>2
<1>5. draining => turns' = turns
  BY DEF ReceiveEvent, loopVars
<1>6. LifeTyped' /\ AsksTyped' /\ Decided'
  BY <1>3 DEF askVars, lifeVars, IInv, LifeTyped, AsksTyped, Decided
<1>7. Drained'
  BY <1>3, <1>5 DEF lifeVars, IInv, Drained
<1>8. WaitIsArmed' /\ Kept'
  BY <1>3, <1>4 DEF askVars, IInv, WaitIsArmed, Kept, Extends
<1> QED BY <1>1, <1>4, <1>6, <1>7, <1>8 DEF IInv

LEMMA ReceiveResponseKeeps ==
  ASSUME IInv, NEW type \in {"response", "error_response"}, ReceiveResponse(type)
  PROVE  /\ IInv'
         /\ \A d \in Corrs : settled[d] # "none" => settled'[d] = settled[d]
<1> DEFINE c == Head(channel).id
           how == IF type = "response" THEN "ok" ELSE "error"
<1>1. MailTyped' /\ Head(channel) \in Message
  BY ReceiveTyped DEF ReceiveResponse, Receive
<1>2. c \in Ids
  BY <1>1 DEF ReceiveResponse, Receive, Message, Ids, Shutdown
<1>3. UNCHANGED <<lifeVars, base>>
  BY DEF ReceiveResponse, Receive
<1>4. /\ AsksTyped' /\ Decided'
      /\ \A d \in Corrs : settled[d] # "none" => settled'[d] = settled[d]
      /\ \A d \in Corrs : settled[d] # "none" \/ d \in pendingResponses
                          => settled'[d] # "none" \/ d \in pendingResponses'
  <2>1. CASE c \in pendingResponses \cup pendingAsync
    <3>1. Settle(c, how)
      BY <2>1 DEF ReceiveResponse
    <3>2. how \in {"ok", "error", "timeout"}
      OBVIOUS
    <3> HIDE DEF c, how
    <3> QED BY <2>1, <3>1, <3>2, SettleStep DEF IInv
  <2>2. CASE c \notin pendingResponses \cup pendingAsync
    <3>1. UNCHANGED askVars
      BY <2>2 DEF ReceiveResponse
    <3> QED BY <3>1 DEF askVars, IInv, AsksTyped, Decided
  <2> QED BY <2>1, <2>2
<1>5. /\ LoopTyped' /\ Serial'
      /\ turns' = turns \/ \A t \in turns' : t.waits = {} /\ t.pc = "load"
  <2>1. CASE draining \/ c \in pendingResponses' \cup pendingAsync'
    <3>1. UNCHANGED loopVars
      BY <2>1 DEF ReceiveResponse
    <3> QED BY <3>1, <1>3 DEF lifeVars, loopVars, IInv, LoopTyped, Serial
  <2>2. CASE ~(draining \/ c \in pendingResponses' \cup pendingAsync')
    <3>1. draining = FALSE /\ draining' = FALSE
      BY <2>2, <1>3 DEF lifeVars, IInv, LifeTyped
    <3>2. Enqueue(c)
      BY <2>2 DEF ReceiveResponse
    <3> HIDE DEF c
    <3> QED BY <3>1, <3>2, <1>2, EnqueueStep, Zenon DEF IInv
  <2> QED BY <2>1, <2>2
<1>6. draining => turns' = turns
  BY DEF ReceiveResponse, loopVars
<1>7. LifeTyped' /\ Drained'
  BY <1>3, <1>6 DEF lifeVars, IInv, LifeTyped, Drained
<1>8. WaitIsArmed'
  <2> SUFFICES ASSUME NEW t \in turns', NEW d \in t.waits
               PROVE  settled'[d] # "none" \/ d \in pendingResponses'
    BY DEF WaitIsArmed
  <2>1. t \in turns
    BY <1>5
  <2>2. d \in Corrs
    BY <2>1 DEF IInv, LoopTyped, Turn
  <2> QED BY <2>1, <2>2, <1>4 DEF IInv, WaitIsArmed
<1>9. Kept'
  BY <1>3, <1>5 DEF IInv, Kept, Extends
<1> QED BY <1>1, <1>4, <1>5, <1>7, <1>8, <1>9 DEF IInv

LEMMA ReceiveShutdownKeeps ==
  ASSUME IInv, ReceiveShutdown
  PROVE  IInv'
<1>1. MailTyped'
  BY ReceiveTyped DEF ReceiveShutdown, Receive
<1>2. UNCHANGED <<loopVars, askVars, base>>
  BY DEF ReceiveShutdown, Receive
<1>3. /\ draining' = TRUE
      /\ \/ currentTurn = NoTurn /\ acked' = TRUE /\ phase' = "exiting"
         \/ UNCHANGED <<acked, phase>>
  BY DEF ReceiveShutdown
<1>4. currentTurn = NoTurn => turns = {}
  <2>1. \A t \in turns : t.event \in Ids
    BY DEF IInv, LoopTyped, Turn
  <2> QED BY <2>1, IdsAssumption DEF IInv, Serial, Ids, Answers
<1>5. Drained'
  BY <1>2, <1>3, <1>4 DEF loopVars, IInv, Drained
<1>6. LifeTyped'
  BY <1>3 DEF IInv, LifeTyped
<1> QED BY <1>1, <1>2, <1>3, <1>5, <1>6 DEF loopVars, askVars, IInv, LoopTyped, AsksTyped,
             Serial, Decided, WaitIsArmed, Kept, Extends

LEMMA ReceiveEarlyKeeps ==
  ASSUME IInv, ReceiveEarly
  PROVE  IInv'
<1>1. MailTyped'
  BY ReceiveTyped DEF ReceiveEarly
<1> QED BY <1>1 DEF ReceiveEarly, loopVars, askVars, lifeVars, IInv, LifeTyped, LoopTyped,
             AsksTyped, Serial, Drained, Decided, WaitIsArmed, Kept, Extends

-----------------------------------------------------------------------------
(* The turn *)

\* The answers in the inbox as messages, behind a conversation.
LEMMA InjectedTyped ==
  ASSUME AsksTyped
  PROVE  Injected \in Seq(Entry)
<1>1. inbox \in Seq(Corrs)
  BY DEF AsksTyped
<1>2. \A i \in DOMAIN inbox : Answer(inbox[i]) \in Entry
  BY <1>1 DEF Answer, Entry
<1>3. DOMAIN inbox = 1..Len(inbox) /\ Len(inbox) \in Nat
  BY <1>1
<1> QED BY <1>2, <1>3 DEF Injected

LEMMA LongerExtends ==
  ASSUME base \in Seq(Entry), NEW s \in Seq(Entry), NEW more \in Seq(Entry), Extends(s)
  PROVE  s \o more \in Seq(Entry) /\ Extends(s \o more)
BY DEF Extends

LEMMA SameTypes ==
  ASSUME IInv, TurnOnly, base' \in Seq(Entry), replied' \subseteq Requests
  PROVE  LifeTyped' /\ MailTyped' /\ UNCHANGED <<queue, processing, currentTurn, draining, acked, phase>>
BY DEF TurnOnly, lifeVars, IInv, LifeTyped, MailTyped

\* What a step of the turn has to show for the rest of the invariant.
LEMMA TurnStepKeeps ==
  ASSUME IInv, NEW t \in turns, NEW u \in Turn, u.event = t.event, Become(t, u), TurnOnly,
         base' \in Seq(Entry), replied' \subseteq Requests, AsksTyped', Decided',
         \A c \in u.waits : settled'[c] # "none" \/ c \in pendingResponses',
         u.pc # "load" => Extends(u.conv)'
  PROVE  IInv'
<1>1. /\ LifeTyped' /\ MailTyped'
      /\ UNCHANGED <<queue, processing, currentTurn, draining, acked, phase>>
  BY SameTypes
<1>2. LoopTyped' /\ Serial' /\ turns' = {u}
  BY <1>1, BecomeStep DEF IInv
<1>3. Drained'
  BY <1>1 DEF IInv, Drained
<1>4. WaitIsArmed'
  BY <1>2 DEF WaitIsArmed
<1>5. Kept'
  BY <1>2 DEF Kept
<1> QED BY <1>1, <1>2, <1>3, <1>4, <1>5 DEF IInv

\* The asks of a step that leaves them alone but for the inbox.
LEMMA SameAsks ==
  ASSUME IInv, UNCHANGED <<pendingResponses, pendingAsync, asked, settled>>,
         inbox' = inbox \/ inbox' = <<>>
  PROVE  AsksTyped' /\ Decided'
<1>1. inbox' \in Seq(Corrs) /\ Len(inbox') <= MaxInbox
  <2>1. CASE inbox' = inbox
    BY <2>1 DEF IInv, AsksTyped
  <2>2. CASE inbox' = <<>>
    BY <2>2, LimitsAssumption
  <2> QED BY <2>1, <2>2
<1> QED BY <1>1 DEF IInv, AsksTyped, Decided

LEMMA LoadKeeps ==
  ASSUME IInv, NEW t \in turns, LoadConversation(t)
  PROVE  IInv'
<1>1. t \in Turn /\ base \in Seq(Entry) /\ replied \subseteq Requests
  BY DEF IInv, LoopTyped, MailTyped
<1>2. Append(base, Inbound(t.event)) \in Seq(Entry) /\ Extends(Append(base, Inbound(t.event)))
  <2>1. Inbound(t.event) \in Entry
    BY <1>1 DEF Turn, Inbound, Entry
  <2> QED BY <1>1, <2>1 DEF Extends
<1>3. PICK conv \in Seq(Entry) :
        conv = Append(base, Inbound(t.event)) \o Injected /\ Extends(conv)
  BY <1>1, <1>2, InjectedTyped, LongerExtends DEF IInv
<1>4. PICK u : u = [t EXCEPT !.pc = "loop", !.conv = conv]
  OBVIOUS
<1>5. u \in Turn /\ u.event = t.event /\ u.waits = t.waits /\ u.conv = conv
  BY <1>1, <1>4 DEF Turn
<1>6. /\ Become(t, u) /\ TurnOnly /\ inbox' = <<>>
      /\ UNCHANGED <<pendingResponses, pendingAsync, asked, settled, base, replied>>
  BY <1>3, <1>4 DEF LoadConversation
<1>7. \A c \in u.waits : settled'[c] # "none" \/ c \in pendingResponses'
  BY <1>5, <1>6 DEF IInv, WaitIsArmed
<1>8. Extends(u.conv)'
  BY <1>3, <1>5, <1>6 DEF Extends
<1> QED BY <1>1, <1>5, <1>6, <1>7, <1>8, SameAsks, TurnStepKeeps

LEMMA BeginStepKeeps ==
  ASSUME IInv, NEW t \in turns, BeginStep(t)
  PROVE  IInv'
<1>1. t \in Turn /\ base \in Seq(Entry) /\ replied \subseteq Requests /\ t.pc = "loop"
  BY DEF IInv, LoopTyped, MailTyped, BeginStep, TurnStep
<1>2. Extends(t.conv) /\ t.conv \in Seq(Entry)
  BY <1>1 DEF IInv, Kept, Turn
<1>3. PICK conv \in Seq(Entry) : conv = t.conv \o Injected /\ Extends(conv)
  BY <1>1, <1>2, InjectedTyped, LongerExtends DEF IInv
<1>4. PICK u : u = [t EXCEPT !.conv = conv,
                      !.pc = IF t.steps >= MaxSteps THEN "save" ELSE "model",
                      !.steps = IF t.steps >= MaxSteps THEN @ ELSE @ + 1]
  OBVIOUS
<1>5. u \in Turn /\ u.event = t.event /\ u.waits = t.waits /\ u.conv = conv
  <2>1. CASE t.steps >= MaxSteps
    BY <1>1, <1>4, <2>1 DEF Turn
  <2>2. CASE ~(t.steps >= MaxSteps)
    <3>1. t.steps + 1 \in 0..MaxSteps
      BY <1>1, <2>2, LimitsAssumption DEF Turn
    <3>2. u = [t EXCEPT !.conv = conv, !.pc = "model", !.steps = t.steps + 1]
      BY <1>1, <1>4, <2>2 DEF Turn
    <3> QED BY <1>1, <3>1, <3>2 DEF Turn
  <2> QED BY <2>1, <2>2
<1>6. /\ Become(t, u) /\ TurnOnly /\ inbox' = <<>>
      /\ UNCHANGED <<pendingResponses, pendingAsync, asked, settled, base, replied>>
  BY <1>3, <1>4 DEF BeginStep
<1>7. \A c \in u.waits : settled'[c] # "none" \/ c \in pendingResponses'
  BY <1>5, <1>6 DEF IInv, WaitIsArmed
<1>8. Extends(u.conv)'
  BY <1>3, <1>5, <1>6 DEF Extends
<1> QED BY <1>1, <1>5, <1>6, <1>7, <1>8, SameAsks, TurnStepKeeps

\* The model's answer and the tools' results move the turn on.
LEMMA MoveKeeps ==
  ASSUME IInv, NEW t \in turns, ModelAnswers(t) \/ ToolsDone(t) \/ Reply(t)
  PROVE  IInv'
<1>1. t \in Turn /\ base \in Seq(Entry) /\ replied \subseteq Requests /\ t.pc # "load"
  BY DEF IInv, LoopTyped, MailTyped, ModelAnswers, ToolsDone, Reply, TurnStep
<1>2. PICK pc \in {"save", "loop", "tools", "end"}, waits \in {{}, t.waits} :
        Become(t, [t EXCEPT !.pc = pc, !.waits = waits])
  <2>1. CASE ModelAnswers(t)
    <3>1. PICK pc \in {"save", "loop", "tools"} : Become(t, [t EXCEPT !.pc = pc])
      BY <2>1 DEF ModelAnswers
    <3>2. [t EXCEPT !.pc = pc] = [t EXCEPT !.pc = pc, !.waits = t.waits]
      BY <1>1 DEF Turn
    <3> QED BY <3>1, <3>2
  <2>2. CASE ToolsDone(t)
    BY <2>2 DEF ToolsDone
  <2>3. CASE Reply(t)
    <3>1. [t EXCEPT !.pc = "end"] = [t EXCEPT !.pc = "end", !.waits = t.waits]
      BY <1>1 DEF Turn
    <3> QED BY <2>3, <3>1 DEF Reply
  <2> QED BY <2>1, <2>2, <2>3
<1>3. PICK u : u = [t EXCEPT !.pc = pc, !.waits = waits]
  OBVIOUS
<1>4. u \in Turn /\ u.event = t.event /\ u.waits \subseteq t.waits /\ u.conv = t.conv
  BY <1>1, <1>3 DEF Turn
<1>5. TurnOnly /\ UNCHANGED <<askVars, base>> /\ replied' \subseteq Requests
  BY <1>1 DEF ModelAnswers, ToolsDone, Reply
<1>6. Become(t, u)
  BY <1>2, <1>3
<1>7. \A c \in u.waits : settled'[c] # "none" \/ c \in pendingResponses'
  BY <1>4, <1>5 DEF askVars, IInv, WaitIsArmed
<1>8. Extends(u.conv)'
  BY <1>1, <1>4, <1>5 DEF IInv, Kept, Extends
<1>9. AsksTyped' /\ Decided'
  BY <1>5, SameAsks DEF askVars
<1> QED BY <1>1, <1>4, <1>5, <1>6, <1>7, <1>8, <1>9, TurnStepKeeps

LEMMA SaveKeeps ==
  ASSUME IInv, NEW t \in turns, SaveConversation(t)
  PROVE  IInv' /\ Extends(t.conv) /\ base' = t.conv
<1>1. t \in Turn /\ t.pc = "save" /\ base' = t.conv
  BY DEF IInv, LoopTyped, SaveConversation, TurnStep
<1>2. PICK u : u = [t EXCEPT !.pc = "reply"]
  OBVIOUS
<1>3. u \in Turn /\ u.event = t.event /\ u.waits = t.waits /\ u.conv = t.conv
      /\ t.conv \in Seq(Entry)
  BY <1>1, <1>2 DEF Turn
<1>4. TurnOnly /\ UNCHANGED <<askVars, replied>> /\ Become(t, u)
  BY <1>2 DEF SaveConversation
<1>5. replied' \subseteq Requests
  BY <1>4 DEF IInv, MailTyped
<1>6. \A c \in u.waits : settled'[c] # "none" \/ c \in pendingResponses'
  BY <1>3, <1>4 DEF askVars, IInv, WaitIsArmed
<1>7. Extends(u.conv)'
  BY <1>1, <1>3 DEF Extends
<1>8. AsksTyped' /\ Decided'
  BY <1>4, SameAsks DEF askVars
<1> QED BY <1>1, <1>3, <1>4, <1>5, <1>6, <1>7, <1>8, TurnStepKeeps DEF IInv, Kept

LEMMA RequestSyncKeeps ==
  ASSUME IInv, NEW t \in turns, NEW c \in Corrs, NEW stale \in SUBSET Corrs,
         RequestSync(t, c, stale)
  PROVE  /\ IInv'
         /\ \A d \in Corrs : settled[d] # "none" => settled'[d] = settled[d]
<1>1. t \in Turn /\ t.pc = "tools" /\ asked[c] = "no" /\ stale \subseteq pendingResponses
      /\ base \in Seq(Entry) /\ replied \subseteq Requests
  BY DEF IInv, LoopTyped, MailTyped, RequestSync, TurnStep
<1>2. /\ asked' = [asked EXCEPT ![c] = "sync"]
      /\ settled' = [d \in Corrs |-> IF d \in stale THEN "timeout" ELSE settled[d]]
      /\ pendingResponses' = (pendingResponses \ stale) \cup {c}
      /\ UNCHANGED <<pendingAsync, inbox, base, replied>> /\ TurnOnly
  BY DEF RequestSync
<1>3. PICK u : u = [t EXCEPT !.waits = @ \cup {c}]
  OBVIOUS
<1>4. u \in Turn /\ u.event = t.event /\ u.waits = t.waits \cup {c} /\ u.conv = t.conv
  BY <1>1, <1>3 DEF Turn
<1>5. Become(t, u)
  BY <1>3 DEF RequestSync
<1>6. c \notin pendingResponses \cup pendingAsync
  BY <1>1 DEF IInv, Decided
<1>7. AsksTyped'
  BY <1>2 DEF IInv, AsksTyped
<1>8. Decided'
  <2>1. stale \cap pendingAsync = {}
    BY <1>1 DEF IInv, Decided
  <2> QED BY <1>1, <1>2, <1>6, <2>1 DEF IInv, AsksTyped, Decided
<1>9. \A d \in u.waits : settled'[d] # "none" \/ d \in pendingResponses'
  BY <1>2, <1>4 DEF IInv, AsksTyped, WaitIsArmed, Turn
<1>10. Extends(u.conv)'
  BY <1>1, <1>2, <1>4 DEF IInv, Kept, Extends
<1>11. \A d \in Corrs : settled[d] # "none" => settled'[d] = settled[d]
  BY <1>1, <1>2 DEF IInv, Decided
<1> QED BY <1>1, <1>2, <1>4, <1>5, <1>7, <1>8, <1>9, <1>10, <1>11, TurnStepKeeps

LEMMA RequestAsyncKeeps ==
  ASSUME IInv, NEW t \in turns, NEW c \in Corrs, RequestAsync(t, c)
  PROVE  IInv'
<1>1. /\ asked[c] = "no" /\ Cardinality(pendingAsync) < MaxPending
      /\ asked' = [asked EXCEPT ![c] = "async"]
      /\ pendingAsync' = pendingAsync \cup {c}
      /\ TurnOnly /\ UNCHANGED <<turns, pendingResponses, settled, inbox, base, replied>>
  BY DEF RequestAsync, TurnStep
<1>2. c \notin pendingResponses \cup pendingAsync
  BY <1>1 DEF IInv, Decided
<1>3. IsFiniteSet(pendingAsync') /\ Cardinality(pendingAsync') <= MaxPending
  <2>1. IsFiniteSet(pendingAsync') /\ Cardinality(pendingAsync') = Cardinality(pendingAsync) + 1
    BY <1>1, <1>2, FS_AddElement DEF IInv, AsksTyped
  <2>2. Cardinality(pendingAsync) \in Nat
    BY FS_CardinalityType DEF IInv, AsksTyped
  <2> QED BY <1>1, <2>1, <2>2, LimitsAssumption
<1>4. AsksTyped'
  BY <1>1, <1>3 DEF IInv, AsksTyped
<1>5. Decided'
  BY <1>1, <1>2 DEF IInv, AsksTyped, Decided
<1>6. /\ LifeTyped' /\ MailTyped'
      /\ UNCHANGED <<queue, processing, currentTurn, draining, acked, phase>>
  BY <1>1, SameTypes DEF IInv, MailTyped
<1>7. LoopTyped' /\ Serial' /\ Drained' /\ WaitIsArmed' /\ Kept'
  BY <1>1, <1>6 DEF IInv, LoopTyped, Serial, Drained, WaitIsArmed, Kept, Extends
<1> QED BY <1>4, <1>5, <1>6, <1>7 DEF IInv

LEMMA EndKeeps ==
  ASSUME IInv, NEW t \in turns, EndTurn(t) \/ FailTurn(t)
  PROVE  IInv' /\ (draining => turns' = {})
<1>1. /\ Loop(queue, turns \ {t})
      /\ UNCHANGED <<sent, channel, askVars, draining, acked, base, replied>>
      /\ phase' = phase \/ (draining /\ phase' \in {"saving", "exited"})
  <2>1. CASE EndTurn(t)
    BY <2>1, Zenon DEF EndTurn
  <2>2. CASE FailTurn(t)
    <3>1. phase' \in IF draining /\ currentTurn = t.event THEN {phase, "exited"} ELSE {phase}
      BY <2>2 DEF FailTurn
    <3>2. phase' = phase \/ (draining /\ phase' = "exited")
      BY <3>1, Zenon
    <3> QED BY <2>2, <3>2, Zenon DEF FailTurn
  <2> QED BY <2>1, <2>2
<1>2. turns \ {t} = {} /\ ~acked /\ phase \notin {"saving", "exiting"}
  BY DEF IInv, Serial, Drained
<1>3. queue \in Seq(Ids) /\ draining \in BOOLEAN
  BY DEF IInv, LoopTyped, LifeTyped
<1>4. /\ LoopTyped' /\ Serial' /\ (draining => turns' = {})
      /\ \A s \in turns' : s.waits = {} /\ s.pc = "load"
  BY <1>1, <1>2, <1>3, LoopStep
<1>5. LifeTyped' /\ MailTyped' /\ AsksTyped' /\ Decided'
  BY <1>1 DEF askVars, IInv, LifeTyped, MailTyped, AsksTyped, Decided
<1>6. Drained'
  BY <1>1, <1>2, <1>4 DEF Drained
<1>7. WaitIsArmed' /\ Kept'
  BY <1>4 DEF WaitIsArmed, Kept
<1> QED BY <1>4, <1>5, <1>6, <1>7 DEF IInv

LEMMA TimeoutKeeps ==
  ASSUME IInv, NEW c \in Corrs, RequestTimeout(c)
  PROVE  /\ IInv'
         /\ \A d \in Corrs : settled[d] # "none" => settled'[d] = settled[d]
<1>1. /\ c \in pendingResponses \cup pendingAsync /\ Settle(c, "timeout")
      /\ UNCHANGED <<sent, channel, loopVars, lifeVars, base, replied>>
  BY DEF RequestTimeout
<1>2. /\ AsksTyped' /\ Decided'
      /\ \A d \in Corrs : settled[d] # "none" => settled'[d] = settled[d]
      /\ \A d \in Corrs : settled[d] # "none" \/ d \in pendingResponses
                          => settled'[d] # "none" \/ d \in pendingResponses'
  BY <1>1, SettleStep DEF IInv
<1>3. LifeTyped' /\ MailTyped' /\ LoopTyped' /\ Serial' /\ Drained' /\ Kept'
  BY <1>1 DEF loopVars, lifeVars, IInv, LifeTyped, MailTyped, LoopTyped, Serial, Drained,
              Kept, Extends
<1>4. WaitIsArmed'
  <2> SUFFICES ASSUME NEW t \in turns, NEW d \in t.waits
               PROVE  settled'[d] # "none" \/ d \in pendingResponses'
    BY <1>1 DEF loopVars, WaitIsArmed
  <2>1. d \in Corrs
    BY DEF IInv, LoopTyped, Turn
  <2> QED BY <2>1, <1>2 DEF IInv, WaitIsArmed
<1> QED BY <1>2, <1>3, <1>4 DEF IInv

-----------------------------------------------------------------------------
(* The theorems *)

LEMMA TurnKeeps ==
  ASSUME IInv, NEW t \in turns, TurnNext(t)
  PROVE  IInv'
<1>1. CASE \E c \in Corrs :
             RequestAsync(t, c) \/ \E stale \in SUBSET Corrs : RequestSync(t, c, stale)
  BY <1>1, RequestAsyncKeeps, RequestSyncKeeps
<1>2. CASE ~ \E c \in Corrs :
             RequestAsync(t, c) \/ \E stale \in SUBSET Corrs : RequestSync(t, c, stale)
  BY <1>2, LoadKeeps, BeginStepKeeps, MoveKeeps, SaveKeeps, EndKeeps DEF TurnNext
<1> QED BY <1>1, <1>2

LEMMA NextKeeps ==
  ASSUME IInv, [Next]_vars
  PROVE  IInv'
<1>1. CASE \E e \in Events : SendEvent(e)
  <2>1. \A e \in Events : e \in Ids /\ [type |-> "event", id |-> e] \in Message
    BY DEF Ids, Message
  <2> QED BY <1>1, <2>1, SendKeeps DEF SendEvent
<1>2. CASE \E c \in Answers, type \in {"response", "error_response"} : SendResponse(c, type)
  <2>1. \A c \in Answers, type \in {"response", "error_response"} :
          c \in Ids /\ [type |-> type, id |-> c] \in Message
    BY DEF Ids, Message
  <2> QED BY <1>2, <2>1, SendKeeps DEF SendResponse
<1>3. CASE SendShutdown
  BY <1>3, SendKeeps DEF SendShutdown, Message
<1>4. CASE Die \/ Boot \/ Exit
  BY <1>4, LifeKeeps
<1>5. CASE ReceiveNext
  BY <1>5, ReceiveEarlyKeeps, ReceiveEventKeeps, ReceiveShutdownKeeps, ReceiveResponseKeeps
     DEF ReceiveNext
<1>6. CASE \E t \in turns : TurnNext(t)
  BY <1>6, TurnKeeps
<1>7. CASE \E c \in Corrs : RequestTimeout(c)
  BY <1>7, TimeoutKeeps
<1>8. CASE UNCHANGED vars
  BY <1>8 DEF vars, IInv, LifeTyped, MailTyped, LoopTyped, AsksTyped, Serial, Drained, Decided,
              WaitIsArmed, Kept, Extends
<1> QED BY <1>1, <1>2, <1>3, <1>4, <1>5, <1>6, <1>7, <1>8 DEF Next

LEMMA Invariant == Spec => []IInv
<1>1. Init => IInv
  BY InitKeeps
<1>2. IInv /\ [Next]_vars => IInv'
  BY NextKeeps
<1> QED BY <1>1, <1>2, PTL DEF Spec

\* The turns of one process never overlap, whichever listener starts them, and a
\* queued event is never left without a turn ahead of it: what runtime.md 5.4 says
\* of processQueue, for every set of events and every limit.
THEOREM TurnsNeverOverlap == Spec => []TurnsAreSerial
<1>1. IInv => TurnsAreSerial
  <2> SUFFICES ASSUME IInv PROVE TypeOK /\ OneTurn /\ QueueIsServed
    BY DEF TurnsAreSerial
  <2>1. TypeOK
    BY Zenon DEF IInv, LifeTyped, MailTyped, LoopTyped, AsksTyped, TypeOK
  <2>2. \A t \in turns : t.event # NoTurn
    BY IdsAssumption DEF IInv, LoopTyped, Turn, Ids, Answers
  <2>3. Cardinality(turns) <= 1
    <3>1. CASE turns = {}
      BY <3>1, FS_EmptySet
    <3>2. CASE turns # {}
      <4>1. PICK t \in turns : turns = {t}
        BY <3>2 DEF IInv, Serial
      <4>2. Cardinality({t}) = 1
        BY FS_Singleton
      <4> QED BY <4>1, <4>2
    <3> QED BY <3>1, <3>2
  <2>4. OneTurn
    BY <2>2, <2>3 DEF IInv, Serial, OneTurn
  <2>5. QueueIsServed
    BY Zenon DEF IInv, Serial, QueueIsServed
  <2> QED BY <2>1, <2>4, <2>5
<1> QED BY <1>1, Invariant, PTL

\* A turn that moves on is about the same event.
LEMMA SameEvent ==
  ASSUME NEW t \in turns, NEW u, u.event = t.event, Become(t, u)
  PROVE  {s.event : s \in turns'} \subseteq {s.event : s \in turns}
BY DEF Become

LEMMA DrainStep ==
  ASSUME IInv, [Next]_vars, draining
  PROVE  {s.event : s \in turns'} \subseteq {s.event : s \in turns}
<1>1. ASSUME NEW t \in turns, TurnNext(t)
      PROVE  {s.event : s \in turns'} \subseteq {s.event : s \in turns}
  <2> USE <1>1
  <2>1. t \in Turn
    BY DEF IInv, LoopTyped
  <2>2. CASE \E u : u.event = t.event /\ Become(t, u)
    BY <2>2, SameEvent
  <2>3. CASE LoadConversation(t) \/ BeginStep(t)
    BY <2>1, <2>2, <2>3 DEF LoadConversation, BeginStep, Turn
  <2>4. CASE ModelAnswers(t) \/ ToolsDone(t) \/ SaveConversation(t) \/ Reply(t)
    BY <2>1, <2>2, <2>4 DEF ModelAnswers, ToolsDone, SaveConversation, Reply, Turn
  <2>5. CASE EndTurn(t) \/ FailTurn(t)
    BY <2>5, EndKeeps
  <2>6. CASE \E c \in Corrs : RequestAsync(t, c)
    BY <2>6 DEF RequestAsync
  <2>7. CASE \E c \in Corrs : \E stale \in SUBSET Corrs : RequestSync(t, c, stale)
    BY <2>1, <2>2, <2>7 DEF RequestSync, Turn
  <2> QED BY <2>3, <2>4, <2>5, <2>6, <2>7 DEF TurnNext
<1>2. CASE UNCHANGED turns
  BY <1>2
<1>3. CASE ReceiveNext
  BY <1>2, <1>3 DEF ReceiveNext, ReceiveEarly, ReceiveEvent, ReceiveShutdown, ReceiveResponse, loopVars
<1>4. CASE \/ \E e \in Events : SendEvent(e)
           \/ \E c \in Answers, type \in {"response", "error_response"} : SendResponse(c, type)
           \/ SendShutdown \/ Die \/ Boot \/ Exit
           \/ \E c \in Corrs : RequestTimeout(c)
           \/ UNCHANGED vars
  BY <1>2, <1>4 DEF SendEvent, SendResponse, SendShutdown, Send, Die, Boot, Exit, RequestTimeout,
                    loopVars, vars
<1> QED BY <1>1, <1>3, <1>4 DEF Next

\* A drain lets the turn under way finish and starts no other, and the ack that
\* lets the orchestrator kill the process finds nothing running.
THEOREM DrainsAreOrderly == Spec => DrainIsOrderly
<1>1. IInv => (acked => turns = {})
  BY DEF IInv, Drained
<1>2. IInv /\ [Next]_vars => [draining => {t.event : t \in turns'} \subseteq {t.event : t \in turns}]_vars
  BY DrainStep
<1> QED BY <1>1, <1>2, Invariant, PTL DEF Spec, DrainIsOrderly, DrainStartsNothing

\* What settles a request, and no other step does.
LEMMA SettledStays ==
  ASSUME IInv, [Next]_vars, NEW c \in Corrs, settled[c] # "none"
  PROVE  settled'[c] = settled[c]
<1>1. CASE ReceiveNext
  <2>1. CASE UNCHANGED settled
    BY <2>1
  <2>2. CASE \E type \in {"response", "error_response"} : ReceiveResponse(type)
    BY <2>2, ReceiveResponseKeeps
  <2>3. CASE ReceiveEarly \/ ReceiveEvent \/ ReceiveShutdown
    BY <2>1, <2>3 DEF ReceiveEarly, ReceiveEvent, ReceiveShutdown, askVars
  <2> QED BY <1>1, <2>2, <2>3 DEF ReceiveNext
<1>2. ASSUME NEW t \in turns, TurnNext(t) PROVE settled'[c] = settled[c]
  <2>1. CASE UNCHANGED settled
    BY <2>1
  <2>2. CASE \E d \in Corrs : \E stale \in SUBSET Corrs : RequestSync(t, d, stale)
    BY <2>2, RequestSyncKeeps
  <2>3. CASE ~ \E d \in Corrs : \E stale \in SUBSET Corrs : RequestSync(t, d, stale)
    BY <1>2, <2>1, <2>3 DEF TurnNext, LoadConversation, BeginStep, ModelAnswers, ToolsDone,
       SaveConversation, Reply, EndTurn, FailTurn, RequestAsync, askVars
  <2> QED BY <2>2, <2>3
<1>3. CASE \E d \in Corrs : RequestTimeout(d)
  BY <1>3, TimeoutKeeps
<1>4. CASE \/ \E e \in Events : SendEvent(e)
           \/ \E d \in Answers, type \in {"response", "error_response"} : SendResponse(d, type)
           \/ SendShutdown \/ Die \/ Boot \/ Exit \/ UNCHANGED vars
  BY <1>4 DEF SendEvent, SendResponse, SendShutdown, Send, Die, Boot, Exit, askVars, vars
<1> QED BY <1>1, <1>2, <1>3, <1>4 DEF Next

\* A request that a turn waits for always has a timer left, and what has decided
\* it, an answer, an error, the timer or the eviction of stale entries, decided it
\* for good.
THEOREM RequestsDecidedOnce == Spec => RequestsAreDecidedOnce
<1>1. IInv => WaitIsArmed
  BY DEF IInv
<1>2. IInv /\ [Next]_vars => [\A c \in Corrs : settled[c] # "none" => settled'[c] = settled[c]]_vars
  BY SettledStays
<1> QED BY <1>1, <1>2, Invariant, PTL DEF Spec, RequestsAreDecidedOnce, AnsweredOnce

\* The rewrite of the whole conversation at the end of a turn keeps all that was
\* stored before: no other turn has stored anything since this one loaded it.
THEOREM ConversationIsKept == Spec => ConversationKept
<1>1. ASSUME IInv, [Next]_vars
      PROVE  Len(base) <= Len(base') /\ SubSeq(base', 1, Len(base)) = base
  <2>1. base \in Seq(Entry) /\ base' \in Seq(Entry)
    BY <1>1, NextKeeps DEF IInv, MailTyped
  <2>2. Len(base) <= Len(base') /\ \A i \in 1..Len(base) : base'[i] = base[i]
    <3>1. CASE UNCHANGED base
      BY <2>1, <3>1
    <3>2. CASE \E t \in turns : SaveConversation(t)
      <4>1. PICK t \in turns : base' = t.conv /\ Extends(t.conv)
        BY <1>1, <3>2, SaveKeeps
      <4> QED BY <4>1 DEF Extends
    <3>3. ASSUME NEW t \in turns, TurnNext(t), ~SaveConversation(t) PROVE UNCHANGED base
      BY <3>3 DEF TurnNext, LoadConversation, BeginStep, ModelAnswers, ToolsDone,
         Reply, EndTurn, FailTurn, RequestAsync, RequestSync
    <3>4. CASE ReceiveNext
      BY <3>1, <3>4 DEF ReceiveNext, ReceiveEarly, ReceiveEvent, ReceiveShutdown, ReceiveResponse, Receive
    <3>5. CASE \/ \E e \in Events : SendEvent(e)
               \/ \E d \in Answers, type \in {"response", "error_response"} : SendResponse(d, type)
               \/ SendShutdown \/ Die \/ Boot \/ Exit
               \/ \E c \in Corrs : RequestTimeout(c)
               \/ UNCHANGED vars
      BY <3>1, <3>5 DEF SendEvent, SendResponse, SendShutdown, Send, Die, Boot, Exit,
                        RequestTimeout, vars
    <3> QED BY <1>1, <3>1, <3>2, <3>3, <3>4, <3>5 DEF Next
  <2>3. SubSeq(base', 1, Len(base)) = base
    <3>1. /\ SubSeq(base', 1, Len(base)) = [i \in 1..Len(base) |-> base'[i]]
          /\ Len(base) \in Nat
      BY <2>1, <2>2
    <3>2. base = [i \in 1..Len(base) |-> base[i]]
      BY <2>1
    <3>3. [i \in 1..Len(base) |-> base'[i]] = [i \in 1..Len(base) |-> base[i]]
      BY <2>2
    <3> QED BY <3>1, <3>2, <3>3
  <2> QED BY <2>2, <2>3
<1>2. IInv /\ [Next]_vars => [Len(base) <= Len(base') /\ SubSeq(base', 1, Len(base)) = base]_vars
  BY <1>1
<1> QED BY <1>2, Invariant, PTL DEF Spec, ConversationKept

-----------------------------------------------------------------------------
(* The order of what is stored, and each answer once *)

\* How many messages the process has received: the channel has the rest.
Received == Len(sent) - Len(channel)
NameOf(m) == IF m.type = "shutdown" THEN "shutdown" ELSE m.id

\* What is sent is sent once, and received in the same order.
MailOK ==
  /\ Once(sent)
  /\ Len(channel) <= Len(sent)
  /\ \A i \in 1..Len(channel) : sent[Received + i] = NameOf(channel[i])

Before(x, y) == \E k, l \in 1..Len(sent) : sent[k] = x /\ sent[l] = y /\ k < l
WasReceived(x) == \E k \in 1..Len(sent) : sent[k] = x /\ k <= Received

\* The inbound events of a conversation.
Told(c) == {c[i].id : i \in {j \in 1..Len(c) : c[j].role = "inbound"}}
Sorted(c) ==
  \A i, j \in 1..Len(c) :
    c[i].role = "inbound" /\ c[j].role = "inbound" /\ i < j => Before(c[i].id, c[j].id)

\* Everything that waits came after what is stored, in its order.
QueueFits(q) ==
  /\ \A i \in 1..Len(q) : WasReceived(q[i]) /\ \A x \in Told(base) : Before(x, q[i])
  /\ \A i, j \in 1..Len(q) : i < j => Before(q[i], q[j])

\* The turn comes after what was stored before it, and before what waits.
TurnFits(t) ==
  /\ WasReceived(t.event) /\ \A i \in 1..Len(queue) : Before(t.event, queue[i])
  /\ t.pc \notin {"reply", "end"} => \A x \in Told(base) : Before(x, t.event)
  /\ t.pc # "load" => Sorted(t.conv) /\ Told(t.conv) \subseteq Told(base) \cup {t.event}

OrderOK ==
  /\ QueueFits(queue) /\ Sorted(base) /\ \A x \in Told(base) : WasReceived(x)
  /\ \A t \in turns : TurnFits(t)

\* The answers that a conversation may still be given.
Coming == Elements(inbox) \cup pendingAsync \cup {c \in Corrs : asked[c] = "no"}
Apart(conv) == Once(conv) /\ \A c \in Coming : Answer(c) \notin Elements(conv)

\* An answer that can still be injected is in no conversation yet.
InjectedOK ==
  /\ Once(inbox) /\ \A c \in Elements(inbox) : c \notin pendingAsync /\ asked[c] # "no"
  /\ Apart(base)
  /\ \A t \in turns : Apart(t.conv) /\ (t.pc = "load" => t.conv = <<>>)

StoreInv == MailOK /\ OrderOK /\ InjectedOK

LEMMA SeqPlaces ==
  ASSUME NEW S, NEW s \in Seq(S)
  PROVE  /\ DOMAIN s = 1..Len(s) /\ Len(s) \in Nat /\ Elements(s) \subseteq S
         /\ \A i \in 1..Len(s) : s[i] \in S /\ s[i] \in Elements(s)
         /\ \A x \in Elements(s) : \E i \in 1..Len(s) : s[i] = x
BY LenProperties, ElementOfSeq DEF Elements

LEMMA JoinPlaces ==
  ASSUME NEW S, NEW a \in Seq(S), NEW b \in Seq(S)
  PROVE  /\ a \o b \in Seq(S) /\ Len(a \o b) = Len(a) + Len(b)
         /\ \A i \in 1..Len(a) : (a \o b)[i] = a[i] /\ i \in 1..Len(a \o b)
         /\ \A i \in 1..Len(b) : (a \o b)[Len(a) + i] = b[i] /\ Len(a) + i \in 1..Len(a \o b)
         /\ \A i \in 1..Len(a \o b) :
              \/ i \in 1..Len(a) /\ (a \o b)[i] = a[i]
              \/ i - Len(a) \in 1..Len(b) /\ i > Len(a) /\ (a \o b)[i] = b[i - Len(a)]
<1>1. Len(a) \in Nat /\ Len(b) \in Nat
  BY SeqPlaces
<1>2. /\ a \o b \in Seq(S) /\ Len(a \o b) = Len(a) + Len(b)
      /\ \A i \in 1..(Len(a) + Len(b)) : (a \o b)[i] = IF i <= Len(a) THEN a[i] ELSE b[i - Len(a)]
  BY ConcatProperties
<1> DEFINE c == a \o b
<1> HIDE DEF c
<1>3. /\ c \in Seq(S) /\ Len(c) = Len(a) + Len(b)
      /\ \A i \in 1..(Len(a) + Len(b)) : c[i] = IF i <= Len(a) THEN a[i] ELSE b[i - Len(a)]
  BY <1>2 DEF c
<1>4. \A i \in 1..Len(a) : c[i] = a[i] /\ i \in 1..Len(c)
  BY <1>1, <1>3
<1>5. ASSUME NEW i \in 1..Len(b) PROVE c[Len(a) + i] = b[i] /\ Len(a) + i \in 1..Len(c)
  <2>1. Len(a) + i \in 1..(Len(a) + Len(b)) /\ ~ (Len(a) + i <= Len(a)) /\ (Len(a) + i) - Len(a) = i
    BY <1>1
  <2>2. c[Len(a) + i] = b[(Len(a) + i) - Len(a)]
    BY <1>3, <2>1
  <2> QED BY <1>3, <2>1, <2>2
<1>6. ASSUME NEW i \in 1..Len(c)
      PROVE  \/ i \in 1..Len(a) /\ c[i] = a[i]
             \/ i - Len(a) \in 1..Len(b) /\ i > Len(a) /\ c[i] = b[i - Len(a)]
  <2>1. i \in 1..(Len(a) + Len(b))
    BY <1>3
  <2>2. i <= Len(a) => i \in 1..Len(a)
    BY <1>1, <2>1
  <2>3. ~ (i <= Len(a)) => i - Len(a) \in 1..Len(b) /\ i > Len(a)
    BY <1>1, <2>1
  <2> QED BY <1>3, <2>1, <2>2, <2>3
<1> QED BY <1>3, <1>4, <1>5, <1>6 DEF c

LEMMA JoinElements ==
  ASSUME NEW S, NEW a \in Seq(S), NEW b \in Seq(S)
  PROVE  Elements(a \o b) = Elements(a) \cup Elements(b)
<1> DEFINE c == a \o b
<1>1. /\ c \in Seq(S)
      /\ \A i \in 1..Len(a) : c[i] = a[i] /\ i \in 1..Len(c)
      /\ \A i \in 1..Len(b) : c[Len(a) + i] = b[i] /\ Len(a) + i \in 1..Len(c)
      /\ \A i \in 1..Len(c) : \/ i \in 1..Len(a) /\ c[i] = a[i]
                              \/ i - Len(a) \in 1..Len(b) /\ i > Len(a) /\ c[i] = b[i - Len(a)]
  BY JoinPlaces
<1> HIDE DEF c
<1>2. /\ DOMAIN a = 1..Len(a) /\ DOMAIN b = 1..Len(b) /\ DOMAIN c = 1..Len(c)
  BY <1>1, SeqPlaces
<1>3. \A x \in Elements(c) : x \in Elements(a) \cup Elements(b)
  BY <1>1, <1>2 DEF Elements
<1>4. \A x \in Elements(a) : x \in Elements(c)
  BY <1>1, <1>2 DEF Elements
<1>5. \A x \in Elements(b) : x \in Elements(c)
  BY <1>1, <1>2 DEF Elements
<1> QED BY <1>3, <1>4, <1>5 DEF c

LEMMA JoinOnce ==
  ASSUME NEW S, NEW a \in Seq(S), NEW b \in Seq(S), Once(a), Once(b), Elements(a) \cap Elements(b) = {}
  PROVE  Once(a \o b)
<1> DEFINE c == a \o b
<1>1. /\ c \in Seq(S)
      /\ \A i \in 1..Len(c) : \/ i \in 1..Len(a) /\ c[i] = a[i]
                              \/ i - Len(a) \in 1..Len(b) /\ i > Len(a) /\ c[i] = b[i - Len(a)]
  BY JoinPlaces
<1> HIDE DEF c
<1>2. /\ DOMAIN a = 1..Len(a) /\ DOMAIN b = 1..Len(b) /\ DOMAIN c = 1..Len(c) /\ Len(a) \in Nat /\ Len(c) \in Nat
  BY <1>1, SeqPlaces
<1>3. /\ \A i \in 1..Len(a) : a[i] \in Elements(a)
      /\ \A i \in 1..Len(b) : b[i] \in Elements(b)
  BY SeqPlaces
<1>4. ASSUME NEW i \in 1..Len(c), NEW j \in 1..Len(c), c[i] = c[j] PROVE i = j
  <2>1. CASE i \in 1..Len(a) /\ c[i] = a[i] /\ j \in 1..Len(a) /\ c[j] = a[j]
    BY <1>2, <1>4, <2>1 DEF Once
  <2>2. CASE /\ i - Len(a) \in 1..Len(b) /\ c[i] = b[i - Len(a)]
             /\ j - Len(a) \in 1..Len(b) /\ c[j] = b[j - Len(a)]
    <3>1. i - Len(a) = j - Len(a)
      BY <1>2, <1>4, <2>2 DEF Once
    <3> QED BY <1>2, <3>1
  <2>3. CASE ~ (i \in 1..Len(a) /\ j \in 1..Len(a)) /\ ~ (i - Len(a) \in 1..Len(b) /\ j - Len(a) \in 1..Len(b))
    BY <1>1, <1>3, <1>4, <2>3
  <2> QED BY <1>1, <2>1, <2>2, <2>3
<1> QED BY <1>2, <1>4 DEF Once, c

\* The history only grows: what was sent before and what was received stay so.
HistoryGrows ==
  /\ \A x, y : Before(x, y) => Before(x, y)'
  /\ \A x : WasReceived(x) => WasReceived(x)'

\* Sending: the message is the last, and nothing is received.
LEMMA MailSend ==
  ASSUME IInv, MailOK, NEW what \in Ids \cup {"shutdown"}, NEW m \in Message, NameOf(m) = what,
         Send(what, m)
  PROVE  MailOK' /\ HistoryGrows
<1>1. /\ sent \in Seq(Ids \cup {"shutdown"}) /\ channel \in Seq(Message)
      /\ sent' = Append(sent, what) /\ channel' = Append(channel, m) /\ what \notin Elements(sent)
  BY DEF Send, IInv, MailTyped
<1>2. /\ Len(sent) \in Nat /\ Len(sent') = Len(sent) + 1 /\ DOMAIN sent = 1..Len(sent)
      /\ DOMAIN sent' = 1..Len(sent') /\ sent'[Len(sent) + 1] = what
      /\ \A i \in 1..Len(sent) : sent'[i] = sent[i] /\ sent[i] # what
  BY <1>1 DEF Elements
<1>3. /\ Len(channel) \in Nat /\ Len(channel') = Len(channel) + 1
      /\ channel'[Len(channel) + 1] = m
      /\ \A i \in 1..Len(channel) : channel'[i] = channel[i]
  BY <1>1
<1>4. Received' = Received /\ Received \in Nat
  BY <1>2, <1>3 DEF Received, MailOK
<1>5. Once(sent')
  <2> SUFFICES ASSUME NEW i \in 1..Len(sent'), NEW j \in 1..Len(sent'), sent'[i] = sent'[j] PROVE i = j
    BY <1>2 DEF Once
  <2>1. CASE i \in 1..Len(sent) /\ j \in 1..Len(sent)
    BY <1>2, <2>1 DEF MailOK, Once
  <2>2. CASE ~ (i \in 1..Len(sent) /\ j \in 1..Len(sent))
    BY <1>2, <2>2
  <2> QED BY <2>1, <2>2
<1>6. ASSUME NEW i \in 1..Len(channel') PROVE sent'[Received + i] = NameOf(channel'[i])
  <2>1. CASE i \in 1..Len(channel)
    <3>1. Received + i \in 1..Len(sent)
      BY <1>2, <1>3, <1>4, <2>1 DEF Received
    <3> QED BY <1>2, <1>3, <2>1, <3>1 DEF MailOK
  <2>2. CASE i \notin 1..Len(channel)
    <3>1. i = Len(channel) + 1 /\ Received + i = Len(sent) + 1
      BY <1>2, <1>3, <2>2 DEF Received
    <3> QED BY <1>2, <1>3, <3>1
  <2> QED BY <2>1, <2>2
<1>7. MailOK'
  BY <1>2, <1>3, <1>4, <1>5, <1>6 DEF MailOK, Once
<1>8. \A x, y : Before(x, y) => Before(x, y)'
  BY <1>2 DEF Before
<1>9. \A x : WasReceived(x) => WasReceived(x)'
  BY <1>2, <1>4 DEF WasReceived
<1> QED BY <1>7, <1>8, <1>9 DEF HistoryGrows

\* Receiving: what arrives is after all that was received before it.
LEMMA MailReceive ==
  ASSUME IInv, MailOK, channel # <<>>, channel' = Tail(channel), UNCHANGED sent,
         NEW id, id = NameOf(Head(channel))
  PROVE  /\ MailOK' /\ HistoryGrows
         /\ WasReceived(id)' /\ \A x : WasReceived(x) => Before(x, id)'
<1>1. /\ sent \in Seq(Ids \cup {"shutdown"}) /\ channel \in Seq(Message)
  BY DEF IInv, MailTyped
<1>2. /\ Len(sent) \in Nat /\ Len(channel) \in Nat /\ Len(channel) >= 1
      /\ Len(channel') = Len(channel) - 1 /\ Head(channel) = channel[1]
      /\ \A i \in 1..Len(channel') : channel'[i] = channel[i + 1]
  BY <1>1
<1>3. Received' = Received + 1 /\ Received \in Nat /\ Received + 1 \in 1..Len(sent)
  BY <1>2 DEF Received, MailOK
<1>4. sent[Received + 1] = id
  BY <1>2 DEF MailOK
<1>5. ASSUME NEW i \in 1..Len(channel') PROVE sent'[Received' + i] = NameOf(channel'[i])
  <2>1. i + 1 \in 1..Len(channel) /\ Received' + i = Received + (i + 1)
    BY <1>2, <1>3
  <2> QED BY <1>2, <2>1 DEF MailOK
<1>6. MailOK'
  BY <1>2, <1>5 DEF MailOK, Once
<1>7. \A x, y : Before(x, y) => Before(x, y)'
  BY DEF Before
<1>8. \A x : WasReceived(x) => WasReceived(x)'
  BY <1>3 DEF WasReceived
<1>9. WasReceived(id)'
  BY <1>3, <1>4 DEF WasReceived
<1>10. ASSUME NEW x, WasReceived(x) PROVE Before(x, id)'
  <2>1. PICK k \in 1..Len(sent) : sent[k] = x /\ k <= Received
    BY <1>10 DEF WasReceived
  <2>2. k < Received + 1
    BY <1>3, <2>1
  <2> QED BY <1>3, <1>4, <2>1, <2>2 DEF Before
<1> QED BY <1>6, <1>7, <1>8, <1>9, <1>10 DEF HistoryGrows

\* A step that neither sends nor receives.
LEMMA MailStays ==
  ASSUME MailOK, UNCHANGED <<sent, channel>>
  PROVE  MailOK' /\ HistoryGrows
BY DEF MailOK, HistoryGrows, Before, WasReceived, Received, Once

\* Every step of the process takes at most the head of the channel.
LEMMA MailStep ==
  ASSUME IInv, MailOK, [Next]_vars
  PROVE  MailOK' /\ HistoryGrows
<1>1. CASE \E e \in Events : SendEvent(e)
  <2>1. \A e \in Events : /\ e \in Ids /\ [type |-> "event", id |-> e] \in Message
                          /\ NameOf([type |-> "event", id |-> e]) = e
    BY DEF Ids, Message, NameOf
  <2> QED BY <1>1, <2>1, MailSend DEF SendEvent
<1>2. CASE \E c \in Answers, type \in {"response", "error_response"} : SendResponse(c, type)
  <2>1. \A c \in Answers, type \in {"response", "error_response"} :
          /\ c \in Ids /\ [type |-> type, id |-> c] \in Message
          /\ NameOf([type |-> type, id |-> c]) = c
    BY DEF Ids, Message, NameOf
  <2> QED BY <1>2, <2>1, MailSend DEF SendResponse
<1>3. CASE SendShutdown
  BY <1>3, MailSend DEF SendShutdown, Message, NameOf, Shutdown
<1>4. CASE Die \/ Boot \/ Exit \/ UNCHANGED vars
  <2>1. UNCHANGED <<sent, channel>>
    BY <1>4 DEF Die, Boot, Exit, vars
  <2> QED BY MailStays, <2>1
<1>5. CASE ReceiveNext
  <2>1. channel # <<>> /\ channel' = Tail(channel) /\ UNCHANGED sent
    BY <1>5 DEF ReceiveNext, ReceiveEarly, ReceiveEvent, ReceiveShutdown, ReceiveResponse, Receive
  <2> QED BY <2>1, MailReceive
<1>6. CASE \E t \in turns : TurnNext(t)
  <2>1. PICK t \in turns : TurnNext(t)
    BY <1>6
  <2>2. UNCHANGED <<sent, channel>>
    BY <2>1 DEF TurnNext, LoadConversation, BeginStep, ModelAnswers, ToolsDone,
       SaveConversation, Reply, EndTurn, FailTurn, RequestAsync, RequestSync, TurnOnly
  <2> QED BY MailStays, <2>2
<1>7. CASE \E c \in Corrs : RequestTimeout(c)
  <2>1. UNCHANGED <<sent, channel>>
    BY <1>7 DEF RequestTimeout
  <2> QED BY MailStays, <2>1
<1> QED BY <1>1, <1>2, <1>3, <1>4, <1>5, <1>6, <1>7 DEF Next

\* Nothing was sent before itself.
LEMMA NotBeforeItself ==
  ASSUME MailOK, IInv, NEW x
  PROVE  ~ Before(x, x)
BY DEF IInv, MailTyped, MailOK, Once, Before

-----------------------------------------------------------------------------
(* The order *)

\* A step that leaves the queue, the turns and the stored conversation alone.
LEMMA OrderStays ==
  ASSUME OrderOK, HistoryGrows, UNCHANGED <<queue, turns, base>>
  PROVE  OrderOK'
<1>1. ASSUME NEW c, Sorted(c) PROVE Sorted(c)'
  BY <1>1 DEF Sorted, HistoryGrows
<1>2. QueueFits(queue)'
  BY DEF OrderOK, QueueFits, HistoryGrows, Told
<1>3. Sorted(base)' /\ \A x \in Told(base)' : WasReceived(x)'
  BY <1>1 DEF OrderOK, HistoryGrows, Told, Sorted
<1>4. ASSUME NEW t \in turns' PROVE TurnFits(t)'
  BY <1>1, <1>4 DEF OrderOK, TurnFits, HistoryGrows, Told
<1> QED BY <1>2, <1>3, <1>4 DEF OrderOK

\* The turn under way moves on, with a conversation that is still in order.
LEMMA OrderMove ==
  ASSUME OrderOK, HistoryGrows, NEW t \in turns, NEW u, turns' = {u}, UNCHANGED <<queue, base>>,
         u.event = t.event, u.pc \notin {"reply", "end"} => t.pc \notin {"reply", "end"},
         u.pc # "load" => Sorted(u.conv) /\ Told(u.conv) \subseteq Told(base) \cup {t.event}
  PROVE  OrderOK'
<1>1. ASSUME NEW c, Sorted(c) PROVE Sorted(c)'
  BY <1>1 DEF Sorted, HistoryGrows
<1>2. QueueFits(queue)'
  BY DEF OrderOK, QueueFits, HistoryGrows, Told
<1>3. Sorted(base)' /\ \A x \in Told(base)' : WasReceived(x)'
  BY <1>1 DEF OrderOK, HistoryGrows, Told, Sorted
<1>4. TurnFits(u)'
  BY <1>1 DEF OrderOK, TurnFits, HistoryGrows, Told
<1> QED BY <1>2, <1>3, <1>4 DEF OrderOK

\* The turn's conversation becomes the stored one.
LEMMA OrderSave ==
  ASSUME OrderOK, HistoryGrows, NEW t \in turns, NEW u, turns' = {u}, UNCHANGED queue,
         u.event = t.event, u.conv = t.conv, u.pc = "reply", t.pc = "save", base' = t.conv
  PROVE  OrderOK'
<1>1. ASSUME NEW c, Sorted(c) PROVE Sorted(c)'
  BY <1>1 DEF Sorted, HistoryGrows
<1>2. /\ TurnFits(t) /\ Sorted(t.conv) /\ Told(t.conv) \subseteq Told(base) \cup {t.event}
      /\ WasReceived(t.event) /\ \A i \in 1..Len(queue) : Before(t.event, queue[i])
  BY DEF OrderOK, TurnFits
<1>3. Told(base)' = Told(t.conv) /\ Sorted(base)'
  BY <1>1, <1>2 DEF Told, Sorted
<1>4. QueueFits(queue)'
  BY <1>2, <1>3 DEF OrderOK, QueueFits, HistoryGrows
<1>5. \A x \in Told(base)' : WasReceived(x)'
  BY <1>2, <1>3 DEF OrderOK, HistoryGrows
<1>6. TurnFits(u)'
  <2>1. Told(u.conv)' = Told(t.conv) /\ Sorted(u.conv)'
    BY <1>1, <1>2 DEF Told
  <2> QED BY <1>2, <1>3, <2>1 DEF TurnFits, HistoryGrows
<1> QED BY <1>3, <1>4, <1>5, <1>6 DEF OrderOK

\* The head of the loop starts the turn of the event that came first.
LEMMA OrderLoop ==
  ASSUME OrderOK, HistoryGrows, UNCHANGED base, NEW q \in Seq(Ids), QueueFits(q)', Loop(q, {})
  PROVE  OrderOK'
<1>1. ASSUME NEW c, Sorted(c) PROVE Sorted(c)'
  BY <1>1 DEF Sorted, HistoryGrows
<1>3. Sorted(base)' /\ \A x \in Told(base)' : WasReceived(x)'
  BY <1>1 DEF OrderOK, HistoryGrows, Told, Sorted
<1>4. CASE q = <<>> \/ draining
  <2>1. queue' = q /\ turns' = {}
    BY <1>4 DEF Loop
  <2> QED BY <1>3, <2>1 DEF OrderOK, QueueFits
<1>5. CASE ~ (q = <<>> \/ draining)
  <2>1. queue' = Tail(q) /\ turns' = {Begun(Head(q))}
    BY <1>5 DEF Loop
  <2>2. /\ q # <<>> /\ Head(q) = q[1] /\ Len(q) \in Nat /\ Len(q) >= 1
        /\ Len(queue') = Len(q) - 1 /\ \A i \in 1..Len(queue') : queue'[i] = q[i + 1]
    BY <1>5, <2>1
  <2>3. \A i \in 1..Len(queue') : i + 1 \in 1..Len(q) /\ 1 < i + 1 /\ 1 \in 1..Len(q)
    BY <2>2
  <2>4. QueueFits(queue)'
    BY <2>2, <2>3 DEF QueueFits
  <2>5. PICK t : t = Begun(q[1])
    OBVIOUS
  <2>6. t.event = q[1] /\ t.pc = "load"
    BY <2>5 DEF Begun
  <2>7. TurnFits(t)'
    BY <2>2, <2>3, <2>6 DEF QueueFits, TurnFits
  <2> QED BY <1>3, <2>1, <2>2, <2>4, <2>5, <2>7 DEF OrderOK
<1> QED BY <1>4, <1>5

\* An event joins the queue behind all that was received before it.
LEMMA OrderEnqueue ==
  ASSUME IInv, OrderOK, HistoryGrows, UNCHANGED base, NEW id \in Ids, WasReceived(id)',
         \A x : WasReceived(x) => Before(x, id)', Enqueue(id)
  PROVE  OrderOK'
<1>1. PICK q : q = Append(queue, id)
  OBVIOUS
<1>2. queue \in Seq(Ids)
  BY DEF IInv, LoopTyped
<1>3. /\ q \in Seq(Ids) /\ Len(queue) \in Nat /\ Len(q) = Len(queue) + 1 /\ q[Len(queue) + 1] = id
      /\ \A i \in 1..Len(queue) : q[i] = queue[i]
  BY <1>1, <1>2
<1>4. \A i \in 1..Len(q) : i \in 1..Len(queue) \/ i = Len(queue) + 1
  BY <1>3
<1>5. \A i, j \in 1..Len(q) : i < j => i \in 1..Len(queue)
  BY <1>3
<1>6. QueueFits(queue) /\ \A x \in Told(base) : WasReceived(x)
  BY DEF OrderOK
<1>7. Told(base)' = Told(base)
  BY DEF Told
<1>8. QueueFits(q)'
  <2>1. ASSUME NEW i \in 1..Len(q) PROVE WasReceived(q[i])' /\ \A x \in Told(base) : Before(x, q[i])'
    <3>1. CASE i \in 1..Len(queue)
      BY <1>3, <1>6, <3>1 DEF QueueFits, HistoryGrows
    <3>2. CASE i = Len(queue) + 1
      BY <1>3, <1>6, <3>2
    <3> QED BY <1>4, <3>1, <3>2
  <2>2. ASSUME NEW i \in 1..Len(q), NEW j \in 1..Len(q), i < j PROVE Before(q[i], q[j])'
    <3>1. i \in 1..Len(queue)
      BY <1>5, <2>2
    <3>2. CASE j \in 1..Len(queue)
      BY <1>3, <1>6, <2>2, <3>1, <3>2 DEF QueueFits, HistoryGrows
    <3>3. CASE j = Len(queue) + 1
      <4>1. WasReceived(q[i])
        BY <1>3, <1>6, <3>1 DEF QueueFits
      <4> QED BY <1>3, <3>3, <4>1
    <3> QED BY <1>4, <3>2, <3>3
  <2> QED BY <1>7, <2>1, <2>2 DEF QueueFits
<1>9. CASE ~processing
  <2>1. turns = {}
    BY <1>9 DEF IInv, Serial
  <2>2. Loop(q, {})
    BY <1>1, <1>9, <2>1 DEF Enqueue
  <2> QED BY <1>3, <1>8, <2>2, OrderLoop
<1>10. CASE processing
  <2>1. queue' = q /\ turns' = turns
    BY <1>1, <1>10 DEF Enqueue
  <2>2. ASSUME NEW c, Sorted(c) PROVE Sorted(c)'
    BY <2>2 DEF Sorted, HistoryGrows
  <2>3. Sorted(base)' /\ \A x \in Told(base)' : WasReceived(x)'
    BY <2>2 DEF OrderOK, HistoryGrows, Told, Sorted
  <2>4. ASSUME NEW t \in turns PROVE TurnFits(t)'
    <3>1. TurnFits(t)
      BY DEF OrderOK
    <3>2. \A i \in 1..Len(q) : Before(t.event, q[i])'
      <4>1. ASSUME NEW i \in 1..Len(q) PROVE Before(t.event, q[i])'
        <5>1. CASE i \in 1..Len(queue)
          BY <1>3, <3>1, <5>1 DEF TurnFits, HistoryGrows
        <5>2. CASE i = Len(queue) + 1
          BY <1>3, <3>1, <5>2 DEF TurnFits
        <5> QED BY <1>4, <5>1, <5>2
      <4> QED BY <4>1
    <3>3. WasReceived(t.event)' /\ (t.pc \notin {"reply", "end"} => \A x \in Told(base)' : Before(x, t.event)')
      BY <1>7, <3>1 DEF TurnFits, HistoryGrows
    <3>4. t.pc # "load" => Sorted(t.conv)' /\ Told(t.conv)' \subseteq Told(base)' \cup {t.event}
      BY <1>7, <2>2, <3>1 DEF TurnFits, Told
    <3> QED BY <2>1, <3>2, <3>3, <3>4 DEF TurnFits
  <2>5. QueueFits(queue)'
    BY <1>8, <2>1 DEF QueueFits
  <2> QED BY <2>1, <2>3, <2>4, <2>5 DEF OrderOK
<1> QED BY <1>9, <1>10

\* The answers in the inbox are no events: behind a conversation they change
\* neither its events nor their order.
LEMMA InjectedTells ==
  ASSUME AsksTyped, NEW a \in Seq(Entry), NEW c, c = a \o Injected
  PROVE  Told(c) = Told(a) /\ (Sorted(a) => Sorted(c))
<1>1. Injected \in Seq(Entry)
  BY InjectedTyped
<1>2. PICK b \in Seq(Entry) : b = Injected
  BY <1>1
<1>3. \A i \in 1..Len(b) : b[i].role = "answer"
  <2>1. inbox \in Seq(Corrs) /\ DOMAIN inbox = 1..Len(inbox) /\ Len(inbox) \in Nat
    BY DEF AsksTyped
  <2>2. Len(Injected) = Len(inbox) /\ \A i \in 1..Len(inbox) : Injected[i] = Answer(inbox[i])
    BY <2>1 DEF Injected
  <2>3. \A d : Answer(d).role = "answer"
    BY DEF Answer
  <2>4. Len(b) = Len(inbox) /\ \A i \in 1..Len(inbox) : b[i] = Answer(inbox[i])
    BY <1>2, <2>2
  <2> QED BY <2>3, <2>4
<1>4. c = a \o b
  BY <1>2
<1>5. /\ Len(a) \in Nat /\ Len(b) \in Nat /\ Len(c) \in Nat
      /\ \A i \in 1..Len(a) : c[i] = a[i] /\ i \in 1..Len(c)
      /\ \A i \in 1..Len(c) : \/ i \in 1..Len(a) /\ c[i] = a[i]
                              \/ i - Len(a) \in 1..Len(b) /\ i > Len(a) /\ c[i] = b[i - Len(a)]
  BY <1>4, JoinPlaces, SeqPlaces
<1>6. \A i \in 1..Len(c) : c[i].role = "inbound" => i \in 1..Len(a) /\ c[i] = a[i]
  BY <1>3, <1>5
<1>7. Told(c) \subseteq Told(a)
  BY <1>6 DEF Told
<1>8. Told(a) \subseteq Told(c)
  BY <1>5 DEF Told
<1>9. Sorted(a) => Sorted(c)
  BY <1>6 DEF Sorted
<1> QED BY <1>7, <1>8, <1>9

\* The event that a turn is about comes last.
LEMMA InboundTells ==
  ASSUME NEW a \in Seq(Entry), NEW e \in Ids, NEW c, c = Append(a, Inbound(e)), Sorted(a),
         \A x \in Told(a) : Before(x, e)
  PROVE  c \in Seq(Entry) /\ Told(c) = Told(a) \cup {e} /\ Sorted(c)
<1>1. Inbound(e) \in Entry /\ Inbound(e).role = "inbound" /\ Inbound(e).id = e
  BY DEF Inbound, Entry
<1>2. PICK m \in Entry : m = Inbound(e) /\ m.role = "inbound" /\ m.id = e
  BY <1>1
<1>3. /\ c \in Seq(Entry) /\ Len(a) \in Nat /\ Len(c) = Len(a) + 1 /\ c[Len(a) + 1] = m
      /\ \A i \in 1..Len(a) : c[i] = a[i]
  BY <1>2
<1>4. \A i \in 1..Len(c) : i \in 1..Len(a) \/ i = Len(a) + 1
  BY <1>3
<1>5. \A i \in 1..Len(a) : i \in 1..Len(c)
  BY <1>3
<1>6. Len(a) + 1 \in 1..Len(c)
  BY <1>3
<1>7. Told(c) \subseteq Told(a) \cup {e}
  BY <1>2, <1>3, <1>4 DEF Told
<1>8. Told(a) \subseteq Told(c) /\ e \in Told(c)
  BY <1>2, <1>3, <1>5, <1>6 DEF Told
<1>9. ASSUME NEW i \in 1..Len(c), NEW j \in 1..Len(c), c[i].role = "inbound", c[j].role = "inbound", i < j
      PROVE  Before(c[i].id, c[j].id)
  <2>1. i \in 1..Len(a)
    BY <1>3, <1>9
  <2>2. CASE j \in 1..Len(a)
    BY <1>3, <1>9, <2>1, <2>2 DEF Sorted
  <2>3. CASE j = Len(a) + 1
    <3>1. c[i].id \in Told(a)
      BY <1>3, <1>9, <2>1 DEF Told
    <3> QED BY <1>2, <1>3, <2>3, <3>1
  <2> QED BY <1>4, <2>2, <2>3
<1> QED BY <1>3, <1>7, <1>8, <1>9 DEF Sorted

\* One turn runs, and its step is all that changes the turns.
LEMMA TheTurn ==
  ASSUME IInv, NEW t \in turns
  PROVE  turns = {t} /\ t \in Turn /\ \A u : Become(t, u) => turns' = {u}
BY DEF IInv, LoopTyped, Serial, Become

LEMMA OrderReceive ==
  ASSUME IInv, MailOK, OrderOK,
         ReceiveEvent \/ \E type \in {"response", "error_response"} : ReceiveResponse(type)
  PROVE  OrderOK'
<1>1. /\ channel # <<>> /\ channel' = Tail(channel) /\ UNCHANGED <<sent, base>>
      /\ Head(channel).type # "shutdown"
  BY DEF ReceiveEvent, ReceiveResponse, Receive
<1>2. PICK id : id = NameOf(Head(channel))
  OBVIOUS
<1>3. id = Head(channel).id
  BY <1>1, <1>2 DEF NameOf
<1>4. /\ HistoryGrows /\ WasReceived(id)' /\ \A x : WasReceived(x) => Before(x, id)'
  BY <1>1, <1>2, MailReceive
<1>5. id \in Ids
  <2>1. Head(channel) \in Message
    BY <1>1 DEF IInv, MailTyped
  <2> QED BY <1>1, <1>3, <2>1 DEF Message, Ids, Shutdown
<1>6. UNCHANGED loopVars \/ Enqueue(id)
  BY <1>3 DEF ReceiveEvent, ReceiveResponse
<1>7. CASE UNCHANGED loopVars
  BY <1>1, <1>4, <1>7, OrderStays DEF loopVars
<1>8. CASE Enqueue(id)
  BY <1>1, <1>4, <1>5, <1>8, OrderEnqueue
<1> QED BY <1>6, <1>7, <1>8

LEMMA OrderLoad ==
  ASSUME IInv, OrderOK, HistoryGrows, NEW t \in turns, LoadConversation(t)
  PROVE  OrderOK'
<1>1. t \in Turn /\ t.pc = "load" /\ base \in Seq(Entry) /\ AsksTyped /\ UNCHANGED <<queue, base>>
  BY TheTurn DEF IInv, MailTyped, LoadConversation, TurnStep, TurnOnly
<1>2. t.event \in Ids /\ Sorted(base) /\ \A x \in Told(base) : Before(x, t.event)
  BY <1>1 DEF Turn, OrderOK, TurnFits
<1>3. PICK a : a = Append(base, Inbound(t.event))
  OBVIOUS
<1>4. a \in Seq(Entry) /\ Told(a) = Told(base) \cup {t.event} /\ Sorted(a)
  BY <1>1, <1>2, <1>3, InboundTells
<1>5. PICK c : c = a \o Injected
  OBVIOUS
<1>6. Told(c) = Told(base) \cup {t.event} /\ Sorted(c)
  BY <1>1, <1>4, <1>5, InjectedTells
<1>7. PICK u : u = [t EXCEPT !.pc = "loop", !.conv = c]
  OBVIOUS
<1>8. u.event = t.event /\ u.pc = "loop" /\ u.conv = c
  BY <1>1, <1>7 DEF Turn
<1>9. turns' = {u}
  BY <1>3, <1>5, <1>7, TheTurn DEF LoadConversation
<1> QED BY <1>1, <1>6, <1>8, <1>9, OrderMove

LEMMA OrderBeginStep ==
  ASSUME IInv, OrderOK, HistoryGrows, NEW t \in turns, BeginStep(t)
  PROVE  OrderOK'
<1>1. t \in Turn /\ t.pc = "loop" /\ t.conv \in Seq(Entry) /\ AsksTyped /\ UNCHANGED <<queue, base>>
  BY TheTurn DEF IInv, Turn, BeginStep, TurnStep, TurnOnly
<1>2. Sorted(t.conv) /\ Told(t.conv) \subseteq Told(base) \cup {t.event}
  BY <1>1 DEF OrderOK, TurnFits
<1>3. PICK c : c = t.conv \o Injected
  OBVIOUS
<1>4. Told(c) \subseteq Told(base) \cup {t.event} /\ Sorted(c)
  BY <1>1, <1>2, <1>3, InjectedTells
<1>5. PICK u : u = [t EXCEPT !.conv = c,
                      !.pc = IF t.steps >= MaxSteps THEN "save" ELSE "model",
                      !.steps = IF t.steps >= MaxSteps THEN @ ELSE @ + 1]
  OBVIOUS
<1>6. u.event = t.event /\ u.conv = c
  BY <1>1, <1>5 DEF Turn
<1>7. turns' = {u}
  BY <1>3, <1>5, TheTurn DEF BeginStep
<1> QED BY <1>1, <1>4, <1>6, <1>7, OrderMove

LEMMA OrderMoves ==
  ASSUME IInv, OrderOK, HistoryGrows, NEW t \in turns, ModelAnswers(t) \/ ToolsDone(t) \/ Reply(t)
  PROVE  OrderOK'
<1>1. t \in Turn /\ t.pc # "load" /\ UNCHANGED <<queue, base>>
  BY TheTurn DEF ModelAnswers, ToolsDone, Reply, TurnStep, TurnOnly
<1>2. PICK u : /\ turns' = {u} /\ u.event = t.event /\ u.conv = t.conv
               /\ u.pc \notin {"reply", "end"} => t.pc \notin {"reply", "end"}
  <2>1. CASE ModelAnswers(t)
    <3>1. PICK pc \in {"save", "loop", "tools"} : Become(t, [t EXCEPT !.pc = pc])
      BY <2>1 DEF ModelAnswers
    <3>2. t.pc = "model"
      BY <2>1 DEF ModelAnswers, TurnStep
    <3>3. PICK u : u = [t EXCEPT !.pc = pc]
      OBVIOUS
    <3>4. /\ u.event = t.event /\ u.conv = t.conv
          /\ u.pc \notin {"reply", "end"} => t.pc \notin {"reply", "end"}
      BY <1>1, <3>1, <3>2, <3>3 DEF Turn
    <3> QED BY <3>1, <3>3, <3>4, TheTurn
  <2>2. CASE ToolsDone(t)
    <3>1. t.pc = "tools" /\ Become(t, [t EXCEPT !.pc = "loop", !.waits = {}])
      BY <2>2 DEF ToolsDone, TurnStep
    <3>2. PICK u : u = [t EXCEPT !.pc = "loop", !.waits = {}]
      OBVIOUS
    <3>3. /\ u.event = t.event /\ u.conv = t.conv
          /\ u.pc \notin {"reply", "end"} => t.pc \notin {"reply", "end"}
      BY <1>1, <3>1, <3>2 DEF Turn
    <3> QED BY <3>1, <3>2, <3>3, TheTurn
  <2>3. CASE Reply(t)
    <3>1. Become(t, [t EXCEPT !.pc = "end"])
      BY <2>3 DEF Reply
    <3>2. PICK u : u = [t EXCEPT !.pc = "end"]
      OBVIOUS
    <3>3. /\ u.event = t.event /\ u.conv = t.conv
          /\ u.pc \notin {"reply", "end"} => t.pc \notin {"reply", "end"}
      BY <1>1, <3>1, <3>2 DEF Turn
    <3> QED BY <3>1, <3>2, <3>3, TheTurn
  <2> QED BY <2>1, <2>2, <2>3
<1>3. Sorted(u.conv) /\ Told(u.conv) \subseteq Told(base) \cup {t.event}
  BY <1>1, <1>2 DEF OrderOK, TurnFits
<1> QED BY <1>1, <1>2, <1>3, OrderMove

LEMMA OrderRequest ==
  ASSUME IInv, OrderOK, HistoryGrows, NEW t \in turns, NEW c \in Corrs, NEW stale \in SUBSET Corrs,
         RequestSync(t, c, stale)
  PROVE  OrderOK'
<1>1. t \in Turn /\ t.pc = "tools" /\ UNCHANGED <<queue, base>>
  BY TheTurn DEF RequestSync, TurnStep, TurnOnly
<1>2. PICK u : u = [t EXCEPT !.waits = @ \cup {c}]
  OBVIOUS
<1>3. u.event = t.event /\ u.conv = t.conv /\ u.pc = t.pc
  BY <1>1, <1>2 DEF Turn
<1>4. turns' = {u}
  BY <1>2, TheTurn DEF RequestSync
<1>5. Sorted(u.conv) /\ Told(u.conv) \subseteq Told(base) \cup {t.event}
  BY <1>1, <1>3 DEF OrderOK, TurnFits
<1> QED BY <1>1, <1>3, <1>4, <1>5, OrderMove

LEMMA OrderStored ==
  ASSUME IInv, OrderOK, HistoryGrows, NEW t \in turns, SaveConversation(t)
  PROVE  OrderOK'
<1>1. t \in Turn /\ t.pc = "save" /\ base' = t.conv /\ UNCHANGED queue
  BY TheTurn DEF SaveConversation, TurnStep, TurnOnly
<1>2. PICK u : u = [t EXCEPT !.pc = "reply"]
  OBVIOUS
<1>3. u.event = t.event /\ u.conv = t.conv /\ u.pc = "reply"
  BY <1>1, <1>2 DEF Turn
<1>4. turns' = {u}
  BY <1>2, TheTurn DEF SaveConversation
<1> QED BY <1>1, <1>3, <1>4, OrderSave

LEMMA OrderEnd ==
  ASSUME IInv, OrderOK, HistoryGrows, NEW t \in turns, EndTurn(t) \/ FailTurn(t)
  PROVE  OrderOK'
<1>1. Loop(queue, turns \ {t}) /\ UNCHANGED <<sent, channel, base>>
  BY DEF EndTurn, FailTurn
<1>2. turns \ {t} = {} /\ queue \in Seq(Ids)
  BY TheTurn DEF IInv, LoopTyped
<1>3. PICK q : q = queue
  OBVIOUS
<1>4. QueueFits(q)'
  BY <1>1, <1>3 DEF OrderOK, QueueFits, HistoryGrows, Told
<1> QED BY <1>1, <1>2, <1>3, <1>4, OrderLoop

LEMMA OrderStep ==
  ASSUME IInv, MailOK, OrderOK, [Next]_vars
  PROVE  OrderOK'
<1>1. HistoryGrows
  BY MailStep
<1>2. CASE \/ \E e \in Events : SendEvent(e)
           \/ \E c \in Answers, type \in {"response", "error_response"} : SendResponse(c, type)
           \/ SendShutdown \/ Die \/ Boot \/ Exit \/ ReceiveEarly \/ ReceiveShutdown
           \/ \E c \in Corrs : RequestTimeout(c)
           \/ UNCHANGED vars
  <2>1. UNCHANGED <<queue, turns, base>>
    BY <1>2 DEF SendEvent, SendResponse, SendShutdown, Send, Die, Boot, Exit, ReceiveEarly,
       ReceiveShutdown, Receive, RequestTimeout, loopVars, vars
  <2> QED BY <1>1, <2>1, OrderStays
<1>3. CASE ReceiveEvent \/ \E type \in {"response", "error_response"} : ReceiveResponse(type)
  BY <1>3, OrderReceive
<1>4. ASSUME NEW t \in turns, TurnNext(t) PROVE OrderOK'
  <2>1. CASE \E c \in Corrs : RequestAsync(t, c)
    <3>1. UNCHANGED <<queue, turns, base>>
      BY <2>1 DEF RequestAsync, TurnOnly
    <3> QED BY <1>1, <3>1, OrderStays
  <2>2. CASE \E c \in Corrs : \E stale \in SUBSET Corrs : RequestSync(t, c, stale)
    BY <1>1, <2>2, OrderRequest
  <2>3. CASE LoadConversation(t) \/ BeginStep(t)
    BY <1>1, <2>3, OrderLoad, OrderBeginStep
  <2>4. CASE ModelAnswers(t) \/ ToolsDone(t) \/ Reply(t)
    BY <1>1, <2>4, OrderMoves
  <2>5. CASE SaveConversation(t) \/ EndTurn(t) \/ FailTurn(t)
    BY <1>1, <2>5, OrderStored, OrderEnd
  <2> QED BY <1>4, <2>1, <2>2, <2>3, <2>4, <2>5 DEF TurnNext
<1> QED BY <1>2, <1>3, <1>4 DEF Next, ReceiveNext

-----------------------------------------------------------------------------
(* Each answer once *)

\* A message that a conversation does not hold can join it.
LEMMA AppendOnce ==
  ASSUME NEW S, NEW s \in Seq(S), NEW x \in S, Once(s), x \notin Elements(s)
  PROVE  Once(Append(s, x)) /\ Elements(Append(s, x)) = Elements(s) \cup {x}
<1>1. PICK c : c = Append(s, x)
  OBVIOUS
<1>2. /\ c \in Seq(S) /\ Len(s) \in Nat /\ Len(c) = Len(s) + 1 /\ c[Len(s) + 1] = x
      /\ \A i \in 1..Len(s) : c[i] = s[i]
  BY <1>1
<1>3. DOMAIN s = 1..Len(s) /\ DOMAIN c = 1..Len(c) /\ \A i \in 1..Len(s) : s[i] # x
  BY <1>2, SeqPlaces
<1>4. /\ \A i \in 1..Len(c) : i \in 1..Len(s) \/ i = Len(s) + 1
      /\ \A i \in 1..Len(s) : i \in 1..Len(c)
      /\ Len(s) + 1 \in 1..Len(c)
  BY <1>2
<1>5. \A i, j \in 1..Len(c) : c[i] = c[j] => i = j
  BY <1>2, <1>3, <1>4 DEF Once
<1>6. Elements(c) \subseteq Elements(s) \cup {x}
  BY <1>2, <1>3, <1>4 DEF Elements
<1>7. Elements(s) \subseteq Elements(c) /\ x \in Elements(c)
  BY <1>2, <1>3, <1>4 DEF Elements
<1> QED BY <1>1, <1>3, <1>5, <1>6, <1>7 DEF Once

\* Forgetting the oldest repeats nothing.
LEMMA TailOnce ==
  ASSUME NEW S, NEW s \in Seq(S), s # <<>>, Once(s)
  PROVE  Once(Tail(s)) /\ Elements(Tail(s)) \subseteq Elements(s)
<1>1. PICK c : c = Tail(s)
  OBVIOUS
<1>2. /\ c \in Seq(S) /\ Len(s) \in Nat /\ Len(s) >= 1 /\ Len(c) = Len(s) - 1
      /\ \A i \in 1..Len(c) : c[i] = s[i + 1]
  BY <1>1
<1>3. DOMAIN s = 1..Len(s) /\ DOMAIN c = 1..Len(c)
  BY <1>2, SeqPlaces
<1>4. \A i \in 1..Len(c) : i + 1 \in 1..Len(s)
  BY <1>2
<1>5. ASSUME NEW i \in 1..Len(c), NEW j \in 1..Len(c), c[i] = c[j] PROVE i = j
  <2>1. i + 1 = j + 1
    BY <1>2, <1>3, <1>4, <1>5 DEF Once
  <2> QED BY <1>2, <2>1
<1>6. Elements(c) \subseteq Elements(s)
  BY <1>2, <1>3, <1>4 DEF Elements
<1> QED BY <1>1, <1>3, <1>5, <1>6 DEF Once

\* The messages injected are the answers in the inbox, each once.
LEMMA InjectedElements ==
  ASSUME AsksTyped, Once(inbox)
  PROVE  /\ Injected \in Seq(Entry) /\ Once(Injected)
         /\ \A x \in Elements(Injected) : \E c \in Elements(inbox) : x = Answer(c)
<1>1. Injected \in Seq(Entry)
  BY InjectedTyped
<1>2. inbox \in Seq(Corrs) /\ DOMAIN inbox = 1..Len(inbox) /\ Len(inbox) \in Nat
  BY DEF AsksTyped
<1>3. DOMAIN Injected = DOMAIN inbox /\ \A i \in DOMAIN inbox : Injected[i] = Answer(inbox[i])
  BY DEF Injected
<1>4. \A c, d : Answer(c) = Answer(d) => c = d
  BY DEF Answer
<1>5. Once(Injected)
  BY <1>3, <1>4 DEF Once
<1>6. \A x \in Elements(Injected) : \E c \in Elements(inbox) : x = Answer(c)
  BY <1>3 DEF Elements
<1> QED BY <1>1, <1>5, <1>6

\* A step that gives no conversation anything, and opens no way to.
LEMMA ApartStays ==
  ASSUME Coming' \subseteq Coming, NEW conv, Apart(conv)
  PROVE  Apart(conv)'
BY DEF Apart

\* The inbox of a step that leaves it alone or takes in an answer.
LEMMA InboxSettle ==
  ASSUME IInv, InjectedOK, NEW c \in pendingResponses \cup pendingAsync, NEW how, Settle(c, how)
  PROVE  /\ Coming' \subseteq Coming /\ Once(inbox')
         /\ \A d \in Elements(inbox') : d \notin pendingAsync' /\ asked'[d] # "no"
<1>1. pendingAsync' = pendingAsync \ {c} /\ asked' = asked /\ inbox \in Seq(Corrs) /\ asked[c] # "no"
      /\ c \in Corrs
  BY DEF Settle, IInv, Decided, AsksTyped
<1>2. Once(inbox) /\ \A d \in Elements(inbox) : d \notin pendingAsync /\ asked[d] # "no"
  BY DEF InjectedOK
<1>3. CASE c \notin pendingAsync
  <2>1. inbox' = inbox
    BY <1>3 DEF Settle
  <2> QED BY <1>1, <1>2, <2>1 DEF Coming
<1>4. CASE c \in pendingAsync
  <2>1. PICK all : all = Append(inbox, c)
    OBVIOUS
  <2>2. inbox' = all \/ inbox' = Tail(all)
    BY <1>4, <2>1 DEF Settle, EnqueueAsync
  <2>3. all \in Seq(Corrs) /\ all # <<>>
    BY <1>1, <2>1
  <2>4. Once(all) /\ Elements(all) = Elements(inbox) \cup {c}
    BY <1>1, <1>2, <1>4, <2>1, AppendOnce
  <2>5. Once(Tail(all)) /\ Elements(Tail(all)) \subseteq Elements(all)
    BY <2>3, <2>4, TailOnce
  <2>6. Once(inbox') /\ Elements(inbox') \subseteq Elements(inbox) \cup {c}
    BY <2>2, <2>4, <2>5
  <2>7. \A d \in Elements(inbox') : d \notin pendingAsync' /\ asked'[d] # "no"
    BY <1>1, <1>2, <2>6
  <2>8. Elements(inbox)' = Elements(inbox')
    BY DEF Elements
  <2>9. Coming' \subseteq Coming
    BY <1>1, <1>4, <2>6, <2>8 DEF Coming
  <2> QED BY <2>6, <2>7, <2>9
<1> QED BY <1>3, <1>4

\* What a step has to show that leaves the conversations alone, but for that of
\* a new turn.
LEMMA InjectedStays ==
  ASSUME InjectedOK, UNCHANGED base, Coming' \subseteq Coming, Once(inbox'),
         \A d \in Elements(inbox') : d \notin pendingAsync' /\ asked'[d] # "no",
         \A t \in turns' : t \in turns \/ t.conv = <<>>
  PROVE  InjectedOK'
<1>1. Apart(base)'
  BY DEF InjectedOK, Apart
<1>2. ASSUME NEW t \in turns' PROVE Apart(t.conv)' /\ (t.pc = "load" => t.conv = <<>>)
  <2>1. CASE t \in turns
    BY <2>1, ApartStays DEF InjectedOK
  <2>2. CASE t.conv = <<>>
    <3>1. Once(t.conv) /\ Elements(t.conv) = {}
      BY <2>2 DEF Once, Elements
    <3> QED BY <2>2, <3>1 DEF Apart
  <2> QED BY <1>2, <2>1, <2>2
<1>3. Once(inbox)' /\ \A d \in Elements(inbox)' : d \notin pendingAsync' /\ asked'[d] # "no"
  BY DEF Once, Elements
<1> QED BY <1>1, <1>2, <1>3 DEF InjectedOK

\* The turn under way moves on, and may take the inbox with it.
LEMMA InjectedMove ==
  ASSUME InjectedOK, NEW u, turns' = {u}, Apart(base)', Apart(u.conv)', u.pc # "load",
         inbox' = inbox \/ inbox' = <<>>,
         \A d \in Elements(inbox) : d \notin pendingAsync' /\ asked'[d] # "no"
  PROVE  InjectedOK'
<1>1. Once(inbox)' /\ Elements(inbox)' \subseteq Elements(inbox)
  BY DEF InjectedOK, Once, Elements
<1> QED BY <1>1 DEF InjectedOK

\* The answers of the inbox join a conversation that is apart from them.
LEMMA InjectedJoin ==
  ASSUME IInv, InjectedOK, NEW a \in Seq(Entry), NEW c, c = a \o Injected, Apart(a), inbox' = <<>>,
         UNCHANGED <<pendingAsync, asked, base>>
  PROVE  Apart(c)' /\ Apart(base)' /\ \A d \in Elements(inbox) : d \notin pendingAsync' /\ asked'[d] # "no"
<1>1. /\ Injected \in Seq(Entry) /\ Once(Injected)
      /\ \A x \in Elements(Injected) : \E d \in Elements(inbox) : x = Answer(d)
  BY InjectedElements DEF IInv, InjectedOK
<1>2. PICK b \in Seq(Entry) : b = Injected
  BY <1>1
<1>3. /\ Once(b) /\ \A x \in Elements(b) : \E d \in Elements(inbox) : x = Answer(d)
  BY <1>1, <1>2
<1>4. Elements(a) \cap Elements(b) = {}
  BY <1>3 DEF Apart, Coming
<1>5. c = a \o b
  BY <1>2
<1>6. Once(c) /\ Elements(c) = Elements(a) \cup Elements(b)
  BY <1>3, <1>4, <1>5, JoinOnce, JoinElements DEF Apart
<1>7. Elements(inbox)' = {}
  BY DEF Elements
<1>8. \A d \in Elements(inbox) : d \notin pendingAsync /\ asked[d] # "no"
  BY DEF InjectedOK
<1>9. Coming' \subseteq Coming /\ Coming' \cap Elements(inbox) = {}
  BY <1>7, <1>8 DEF Coming
<1>10. \A d, e : Answer(d) = Answer(e) => d = e
  BY DEF Answer
<1>11. Apart(c)'
  BY <1>3, <1>6, <1>9, <1>10 DEF Apart
<1>12. Apart(base)'
  BY <1>9 DEF InjectedOK, Apart
<1> QED BY <1>8, <1>11, <1>12

LEMMA OnceLoad ==
  ASSUME IInv, MailOK, OrderOK, InjectedOK, NEW t \in turns, LoadConversation(t)
  PROVE  InjectedOK'
<1>1. /\ t \in Turn /\ t.pc = "load" /\ base \in Seq(Entry) /\ inbox' = <<>>
      /\ UNCHANGED <<pendingAsync, asked, base>>
  BY TheTurn DEF IInv, MailTyped, LoadConversation, TurnStep
<1>2. PICK m : m = Inbound(t.event)
  OBVIOUS
<1>3. t.event \notin Told(base)
  BY <1>1, NotBeforeItself DEF OrderOK, TurnFits
<1>4. m \in Entry /\ m.role = "inbound" /\ m.id = t.event /\ \A c : m # Answer(c)
  BY <1>1, <1>2 DEF Turn, Inbound, Entry, Answer
<1>5. m \notin Elements(base)
  BY <1>1, <1>3, <1>4, SeqPlaces DEF Told
<1>6. PICK a : a = Append(base, m)
  OBVIOUS
<1>7. a \in Seq(Entry) /\ Once(a) /\ Elements(a) = Elements(base) \cup {m}
  BY <1>1, <1>4, <1>5, <1>6, AppendOnce DEF InjectedOK, Apart
<1>8. Apart(a)
  BY <1>4, <1>7 DEF InjectedOK, Apart
<1>9. PICK c : c = a \o Injected
  OBVIOUS
<1>10. Apart(c)' /\ Apart(base)' /\ \A d \in Elements(inbox) : d \notin pendingAsync' /\ asked'[d] # "no"
  BY <1>1, <1>7, <1>8, <1>9, InjectedJoin
<1>11. PICK u : u = [t EXCEPT !.pc = "loop", !.conv = c]
  OBVIOUS
<1>12. u.pc = "loop" /\ u.conv = c
  BY <1>1, <1>11 DEF Turn
<1>13. turns' = {u}
  BY <1>2, <1>6, <1>9, <1>11, TheTurn DEF LoadConversation
<1>14. Apart(u.conv)'
  BY <1>10, <1>12
<1> QED BY <1>1, <1>10, <1>12, <1>13, <1>14, InjectedMove

LEMMA OnceBeginStep ==
  ASSUME IInv, InjectedOK, NEW t \in turns, BeginStep(t)
  PROVE  InjectedOK'
<1>1. /\ t \in Turn /\ t.pc = "loop" /\ t.conv \in Seq(Entry) /\ inbox' = <<>>
      /\ UNCHANGED <<pendingAsync, asked, base>>
  BY TheTurn DEF Turn, BeginStep, TurnStep
<1>2. Apart(t.conv)
  BY DEF InjectedOK
<1>3. PICK c : c = t.conv \o Injected
  OBVIOUS
<1>4. Apart(c)' /\ Apart(base)' /\ \A d \in Elements(inbox) : d \notin pendingAsync' /\ asked'[d] # "no"
  BY <1>1, <1>2, <1>3, InjectedJoin
<1>5. PICK u : u = [t EXCEPT !.conv = c,
                      !.pc = IF t.steps >= MaxSteps THEN "save" ELSE "model",
                      !.steps = IF t.steps >= MaxSteps THEN @ ELSE @ + 1]
  OBVIOUS
<1>6. u.pc \in {"save", "model"} /\ u.conv = c
  BY <1>1, <1>5 DEF Turn
<1>7. turns' = {u}
  BY <1>3, <1>5, TheTurn DEF BeginStep
<1>8. Apart(u.conv)'
  BY <1>4, <1>6
<1> QED BY <1>1, <1>4, <1>6, <1>7, <1>8, InjectedMove

\* A turn that keeps its conversation, and asks at most for an answer of its own.
LEMMA OnceMove ==
  ASSUME IInv, InjectedOK, NEW t \in turns, NEW u, turns' = {u}, u.conv = t.conv, u.pc # "load",
         UNCHANGED <<inbox, pendingAsync>>, base' = base \/ base' = t.conv,
         \A d \in Corrs : asked'[d] = "no" => asked[d] = "no"
  PROVE  InjectedOK'
<1>1. \A d \in Elements(inbox) : d \in Corrs /\ d \notin pendingAsync /\ asked[d] # "no"
  <2>1. inbox \in Seq(Corrs)
    BY DEF IInv, AsksTyped
  <2> QED BY <2>1, SeqPlaces DEF InjectedOK
<1>2. Coming' \subseteq Coming
  BY DEF Coming, Elements
<1>3. Apart(base) /\ Apart(t.conv)
  BY DEF InjectedOK
<1>4. Apart(u.conv)'
  BY <1>2, <1>3, ApartStays
<1>5. Apart(base)'
  <2>1. PICK b : b = base'
    OBVIOUS
  <2>2. Apart(b)
    BY <1>3, <2>1
  <2>3. Apart(b)'
    BY <1>2, <2>2, ApartStays
  <2> QED BY <2>1, <2>3 DEF Apart
<1>6. \A d \in Elements(inbox) : d \notin pendingAsync' /\ asked'[d] # "no"
  BY <1>1
<1> QED BY <1>4, <1>5, <1>6, InjectedMove

LEMMA OnceMoves ==
  ASSUME IInv, InjectedOK, NEW t \in turns,
         ModelAnswers(t) \/ ToolsDone(t) \/ Reply(t) \/ SaveConversation(t)
  PROVE  InjectedOK'
<1>1. /\ t \in Turn /\ UNCHANGED <<inbox, pendingAsync, asked>> /\ (base' = base \/ base' = t.conv)
  BY TheTurn DEF ModelAnswers, ToolsDone, Reply, SaveConversation, askVars
<1>2. PICK u : turns' = {u} /\ u.conv = t.conv /\ u.pc # "load"
  <2>1. CASE ModelAnswers(t)
    <3>1. PICK pc \in {"save", "loop", "tools"} : Become(t, [t EXCEPT !.pc = pc])
      BY <2>1 DEF ModelAnswers
    <3>2. PICK u : u = [t EXCEPT !.pc = pc]
      OBVIOUS
    <3>3. u.conv = t.conv /\ u.pc # "load"
      BY <1>1, <3>2 DEF Turn
    <3> QED BY <3>1, <3>2, <3>3, TheTurn
  <2>2. CASE ToolsDone(t)
    <3>1. Become(t, [t EXCEPT !.pc = "loop", !.waits = {}])
      BY <2>2 DEF ToolsDone
    <3>2. PICK u : u = [t EXCEPT !.pc = "loop", !.waits = {}]
      OBVIOUS
    <3>3. u.conv = t.conv /\ u.pc # "load"
      BY <1>1, <3>2 DEF Turn
    <3> QED BY <3>1, <3>2, <3>3, TheTurn
  <2>3. CASE Reply(t)
    <3>1. Become(t, [t EXCEPT !.pc = "end"])
      BY <2>3 DEF Reply
    <3>2. PICK u : u = [t EXCEPT !.pc = "end"]
      OBVIOUS
    <3>3. u.conv = t.conv /\ u.pc # "load"
      BY <1>1, <3>2 DEF Turn
    <3> QED BY <3>1, <3>2, <3>3, TheTurn
  <2>4. CASE SaveConversation(t)
    <3>1. Become(t, [t EXCEPT !.pc = "reply"])
      BY <2>4 DEF SaveConversation
    <3>2. PICK u : u = [t EXCEPT !.pc = "reply"]
      OBVIOUS
    <3>3. u.conv = t.conv /\ u.pc # "load"
      BY <1>1, <3>2 DEF Turn
    <3> QED BY <3>1, <3>2, <3>3, TheTurn
  <2> QED BY <2>1, <2>2, <2>3, <2>4
<1> QED BY <1>1, <1>2, OnceMove

LEMMA OnceRequest ==
  ASSUME IInv, InjectedOK, NEW t \in turns, NEW c \in Corrs, NEW stale \in SUBSET Corrs,
         RequestSync(t, c, stale)
  PROVE  InjectedOK'
<1>1. /\ t \in Turn /\ t.pc = "tools" /\ UNCHANGED <<inbox, pendingAsync, base>>
      /\ asked' = [asked EXCEPT ![c] = "sync"]
  BY TheTurn DEF RequestSync, TurnStep
<1>2. PICK u : u = [t EXCEPT !.waits = @ \cup {c}]
  OBVIOUS
<1>3. u.conv = t.conv /\ u.pc = t.pc
  BY <1>1, <1>2 DEF Turn
<1>4. turns' = {u}
  BY <1>2, TheTurn DEF RequestSync
<1>5. \A d \in Corrs : asked'[d] = "no" => asked[d] = "no"
  BY <1>1 DEF IInv, AsksTyped
<1> QED BY <1>1, <1>3, <1>4, <1>5, OnceMove

\* The inbox and the asks left alone.
LEMMA SameInbox ==
  ASSUME IInv, InjectedOK, UNCHANGED <<inbox, pendingAsync, asked>>
  PROVE  /\ Coming' \subseteq Coming /\ Once(inbox')
         /\ \A d \in Elements(inbox') : d \notin pendingAsync' /\ asked'[d] # "no"
BY DEF InjectedOK, Coming, Elements

LEMMA OnceAsync ==
  ASSUME IInv, InjectedOK, NEW t \in turns, NEW c \in Corrs, RequestAsync(t, c)
  PROVE  InjectedOK'
<1>1. /\ asked[c] = "no" /\ asked' = [asked EXCEPT ![c] = "async"]
      /\ pendingAsync' = pendingAsync \cup {c} /\ UNCHANGED <<turns, inbox, base>>
      /\ asked \in [Corrs -> {"no", "sync", "async"}] /\ inbox \in Seq(Corrs)
  BY DEF RequestAsync, IInv, AsksTyped
<1>2. Coming' \subseteq Coming
  BY <1>1 DEF Coming, Elements
<1>3. \A d \in Elements(inbox') : d \in Corrs /\ d \notin pendingAsync' /\ asked'[d] # "no"
  <2>1. \A d \in Elements(inbox) : d \in Corrs /\ d \notin pendingAsync /\ asked[d] # "no"
    BY <1>1, SeqPlaces DEF InjectedOK
  <2> QED BY <1>1, <2>1
<1>4. Once(inbox')
  BY <1>1 DEF InjectedOK
<1> QED BY <1>1, <1>2, <1>3, <1>4, InjectedStays

\* A turn that the head of the loop starts has loaded nothing yet.
LEMMA LoopLoadsNothing ==
  ASSUME IInv, NEW q, Loop(q, {})
  PROVE  \A t \in turns' : t \in turns \/ t.conv = <<>>
BY DEF Loop, Begun

LEMMA OnceReceive ==
  ASSUME IInv, InjectedOK,
         ReceiveEvent \/ \E type \in {"response", "error_response"} : ReceiveResponse(type)
  PROVE  InjectedOK'
<1>1. /\ Coming' \subseteq Coming /\ Once(inbox')
      /\ \A d \in Elements(inbox') : d \notin pendingAsync' /\ asked'[d] # "no"
  <2>1. CASE UNCHANGED askVars
    BY <2>1, SameInbox DEF askVars
  <2>2. CASE \E c \in pendingResponses \cup pendingAsync : \E how : Settle(c, how)
    BY <2>2, InboxSettle
  <2>3. CASE ReceiveEvent
    BY <2>1, <2>3 DEF ReceiveEvent
  <2>4. ASSUME NEW type \in {"response", "error_response"}, ReceiveResponse(type)
        PROVE  UNCHANGED askVars \/ \E c \in pendingResponses \cup pendingAsync : \E how : Settle(c, how)
    <3> DEFINE c == Head(channel).id
               how == IF type = "response" THEN "ok" ELSE "error"
    <3>1. IF c \in pendingResponses \cup pendingAsync THEN Settle(c, how) ELSE UNCHANGED askVars
      BY <2>4 DEF ReceiveResponse
    <3> HIDE DEF c, how
    <3> QED BY <3>1
  <2> QED BY <2>1, <2>2, <2>3, <2>4
<1>2. \A t \in turns' : t \in turns \/ t.conv = <<>>
  <2>1. CASE UNCHANGED turns
    BY <2>1
  <2>2. CASE \E id : Enqueue(id)
    <3>1. PICK id : Enqueue(id)
      BY <2>2
    <3>2. CASE processing
      BY <3>1, <3>2 DEF Enqueue
    <3>3. CASE ~processing
      <4>1. turns = {}
        BY <3>3 DEF IInv, Serial
      <4>2. Loop(Append(queue, id), {})
        BY <3>1, <3>3, <4>1 DEF Enqueue
      <4> QED BY <4>2, LoopLoadsNothing
    <3> QED BY <3>2, <3>3
  <2>3. UNCHANGED turns \/ \E id : Enqueue(id)
    BY DEF ReceiveEvent, ReceiveResponse, loopVars
  <2> QED BY <2>1, <2>2, <2>3
<1>3. UNCHANGED base
  BY DEF ReceiveEvent, ReceiveResponse, Receive
<1> QED BY <1>1, <1>2, <1>3, InjectedStays

LEMMA OnceEnd ==
  ASSUME IInv, InjectedOK, NEW t \in turns, EndTurn(t) \/ FailTurn(t)
  PROVE  InjectedOK'
<1>1. Loop(queue, turns \ {t}) /\ UNCHANGED <<inbox, pendingAsync, asked, base>>
  BY DEF EndTurn, FailTurn, askVars
<1>2. turns \ {t} = {}
  BY TheTurn
<1>3. \A s \in turns' : s \in turns \/ s.conv = <<>>
  BY <1>1, <1>2, LoopLoadsNothing
<1>4. /\ Coming' \subseteq Coming /\ Once(inbox')
      /\ \A d \in Elements(inbox') : d \notin pendingAsync' /\ asked'[d] # "no"
  BY <1>1, SameInbox
<1> QED BY <1>1, <1>3, <1>4, InjectedStays

LEMMA OnceStep ==
  ASSUME IInv, MailOK, OrderOK, InjectedOK, [Next]_vars
  PROVE  InjectedOK'
<1>1. CASE \/ \E e \in Events : SendEvent(e)
           \/ \E c \in Answers, type \in {"response", "error_response"} : SendResponse(c, type)
           \/ SendShutdown \/ Die \/ Boot \/ Exit \/ ReceiveEarly \/ ReceiveShutdown
           \/ UNCHANGED vars
  <2>1. UNCHANGED <<inbox, pendingAsync, asked, turns, base>>
    BY <1>1 DEF SendEvent, SendResponse, SendShutdown, Send, Die, Boot, Exit, ReceiveEarly,
       ReceiveShutdown, Receive, askVars, loopVars, vars
  <2>2. \A t \in turns' : t \in turns \/ t.conv = <<>>
    BY <2>1
  <2>3. /\ Coming' \subseteq Coming /\ Once(inbox')
        /\ \A d \in Elements(inbox') : d \notin pendingAsync' /\ asked'[d] # "no"
    BY <2>1, SameInbox
  <2> QED BY <2>1, <2>2, <2>3, InjectedStays
<1>2. CASE ReceiveEvent \/ \E type \in {"response", "error_response"} : ReceiveResponse(type)
  BY <1>2, OnceReceive
<1>3. ASSUME NEW c \in Corrs, RequestTimeout(c) PROVE InjectedOK'
  <2>1. /\ c \in pendingResponses \cup pendingAsync /\ Settle(c, "timeout") /\ UNCHANGED <<turns, base>>
    BY <1>3 DEF RequestTimeout, loopVars
  <2>2. /\ Coming' \subseteq Coming /\ Once(inbox')
        /\ \A d \in Elements(inbox') : d \notin pendingAsync' /\ asked'[d] # "no"
    BY <2>1, InboxSettle
  <2>3. \A t \in turns' : t \in turns \/ t.conv = <<>>
    BY <2>1
  <2> QED BY <2>1, <2>2, <2>3, InjectedStays
<1>4. ASSUME NEW t \in turns, TurnNext(t) PROVE InjectedOK'
  <2>1. CASE \E c \in Corrs : RequestAsync(t, c)
    BY <2>1, OnceAsync
  <2>2. CASE \E c \in Corrs : \E stale \in SUBSET Corrs : RequestSync(t, c, stale)
    BY <2>2, OnceRequest
  <2>3. CASE LoadConversation(t) \/ BeginStep(t)
    BY <2>3, OnceLoad, OnceBeginStep
  <2>4. CASE ModelAnswers(t) \/ ToolsDone(t) \/ Reply(t) \/ SaveConversation(t)
    BY <2>4, OnceMoves
  <2>5. CASE EndTurn(t) \/ FailTurn(t)
    BY <2>5, OnceEnd
  <2> QED BY <1>4, <2>1, <2>2, <2>3, <2>4, <2>5 DEF TurnNext
<1> QED BY <1>1, <1>2, <1>3, <1>4 DEF Next, ReceiveNext

-----------------------------------------------------------------------------

LEMMA StoreInit == Init => StoreInv
<1> SUFFICES ASSUME Init PROVE StoreInv
  OBVIOUS
<1>1. sent = <<>> /\ channel = <<>> /\ queue = <<>> /\ turns = {} /\ inbox = <<>> /\ base = <<>>
  BY DEF Init
<1>2. MailOK
  BY <1>1 DEF MailOK, Once
<1>3. Told(base) = {} /\ Elements(base) = {} /\ Elements(inbox) = {} /\ Once(base) /\ Once(inbox)
  BY <1>1 DEF Told, Elements, Once
<1>4. OrderOK
  BY <1>1, <1>3 DEF OrderOK, QueueFits, Sorted
<1>5. InjectedOK
  BY <1>1, <1>3 DEF InjectedOK, Apart
<1> QED BY <1>2, <1>4, <1>5 DEF StoreInv

LEMMA StoreInvariant == Spec => []StoreInv
<1>1. Init => StoreInv
  BY StoreInit
<1>2. IInv /\ StoreInv /\ [Next]_vars => StoreInv'
  BY MailStep, OrderStep, OnceStep DEF StoreInv
<1> QED BY <1>1, <1>2, Invariant, PTL DEF Spec

\* What is stored is in the order in which the orchestrator sent it, every answer
\* once, over turns that fail, answers that come at any moment and a crash, and
\* what was stored before is kept: for every set of events and requests, and
\* every limit of the inbox and of the steps.
THEOREM StoredOnceAndInOrder == Spec => StoredOnceInOrder
<1>1. IInv /\ StoreInv => StoredInOrder /\ InjectedOnce
  <2> SUFFICES ASSUME IInv, StoreInv PROVE StoredInOrder /\ InjectedOnce
    OBVIOUS
  <2>1. sent \in Seq(Ids \cup {"shutdown"}) /\ base \in Seq(Entry)
    BY DEF IInv, MailTyped
  <2>2. DOMAIN sent = 1..Len(sent) /\ DOMAIN base = 1..Len(base)
    BY <2>1
  <2>3. StoredInOrder
    BY <2>2 DEF StoreInv, OrderOK, Sorted, Before, StoredInOrder
  <2>4. \A x \in Elements(Injected) : \E c \in Elements(inbox) : x = Answer(c)
    BY InjectedElements DEF IInv, StoreInv, InjectedOK
  <2>5. InjectedOnce
    BY <2>4 DEF StoreInv, InjectedOK, Apart, Coming, InjectedOnce
  <2> QED BY <2>3, <2>5
<1> QED BY <1>1, Invariant, StoreInvariant, ConversationIsKept, PTL DEF StoredOnceInOrder
=============================================================================

--------------------------- MODULE InstanceFiles ---------------------------
(***************************************************************************)
(* The files of one instance (workspace/storage.ts), the conversation they *)
(* stand for (conversation/state.ts) and the state of the extensions       *)
(* (extension/state-manager.ts), with a process that may be killed between *)
(* any two calls to the file system.  One call that appends is written     *)
(* whole; fs.writeFile first empties the file and then writes it.          *)
(*                                                                         *)
(* The process is of one of three kinds: a runtime runner and an agent     *)
(* process store whole conversations, a user of the library appends events *)
(* and folds them.                                                         *)
(***************************************************************************)
EXTENDS Naturals, FiniteSets, SequencesExt

CONSTANTS Messages, Extensions, Objects, Text, None, Cut, MaxEvents, MaxKills

ASSUME ValuesAssumption ==
  /\ Objects \cap {Text, None, Cut} = {} /\ Text # None /\ None # Cut /\ Cut # Text
  /\ None \notin Messages /\ IsFiniteSet(Messages)

VARIABLES
  owner,    \* "runner", "agent" or "library"
  base,     \* base.jsonl
  temp,     \* base.jsonl.tmp
  events,   \* events.jsonl
  call,     \* the storage call under way: [at, new, delta]
  up,       \* the process runs
  kills,
  stateFile,  \* extensions/<name>.json: an object, Cut when empty, None without one
  states,     \* ExtensionStateManagerImpl.states
  dirty,      \* its dirty names, in the order they were added
  save,       \* saveAll under way: [at, value, index]
  stored,     \* history: the conversation its owner has been told is stored
  folded,     \* history: the base holds what the events still say
  twice,      \* history: events have been applied twice
  overtaken   \* history: extensions that set a state while it was being saved

conversation == <<base, temp, events, call, stored, folded, twice>>
extensions == <<stateFile, states, dirty, save, overtaken>>
vars == <<owner, up, kills, conversation, extensions>>

----------------------------------------------------------------------------
(* Events *)

Events ==
  [type : {"append"}, message : Messages] \cup [type : {"replace"}, target : Messages, message : Messages]
    \cup [type : {"remove"}, target : Messages] \cup [type : {"truncate"}]

\* applyMessageEvents, one event: the first message with the id, or a warning.
ApplyEvent(messages, e) ==
  LET at == IF e.type \in {"replace", "remove"} THEN SelectInSeq(messages, LAMBDA m : m = e.target) ELSE 0
  IN CASE e.type = "append" -> Append(messages, e.message)
       [] e.type = "replace" -> IF at = 0 THEN messages ELSE [messages EXCEPT ![at] = e.message]
       [] e.type = "remove" -> IF at = 0 THEN messages ELSE RemoveAt(messages, at)
       [] e.type = "truncate" -> <<>>

ApplyEvents(messages, es) == FoldLeft(ApplyEvent, messages, es)

\* loadConversation
Loaded == ApplyEvents(base, events)

----------------------------------------------------------------------------
(* Calls on the conversation *)

\* No call under way, and no saveAll
Idle == [at |-> "idle", new |-> <<>>, delta |-> <<>>]
Unsaved == [at |-> "none", value |-> None, index |-> 0]

\* The ids that the files name; a new message has an id of its own.
Named == ToSet(base) \cup UNION {{e[f] : f \in DOMAIN e \ {"type"}} : e \in ToSet(events)}

\* appendMessageEvent; a message may replace another under its id.
AppendEvent(e) ==
  /\ up /\ owner = "library" /\ call = Idle
  /\ Len(events) < MaxEvents
  /\ e.type = "append" => e.message \notin Named
  /\ e.type = "replace" => e.message \notin Named \ {e.target}
  /\ events' = Append(events, e)
  /\ stored' = ApplyEvent(stored, e)
  /\ UNCHANGED <<owner, up, kills, base, temp, call, folded, twice, extensions>>

\* writeBaseMessages: only new messages at the end are appended to the base.
CanDeltaAppend(new, old, es) ==
  /\ es # <<>> /\ \A e \in ToSet(es) : e.type = "append"
  /\ Len(new) = Len(old) + Len(es)

\* foldEventsToBase, up to the first write
StartFold ==
  /\ up /\ owner = "library" /\ call = Idle
  /\ call' = IF CanDeltaAppend(Loaded, base, events)
             THEN [at |-> "append", new |-> Loaded,
                   delta |-> SubSeq(Loaded, Len(Loaded) - Len(events) + 1, Len(Loaded))]
             ELSE [at |-> "empty", new |-> Loaded, delta |-> <<>>]
  /\ UNCHANGED <<owner, up, kills, base, temp, events, stored, folded, twice, extensions>>

\* persistConversationToStorage of the runners: the base is written anew.  A turn
\* awaits it, as it awaits saveAll.
Persist(new) ==
  /\ up /\ owner \in {"runner", "agent"} /\ call = Idle /\ save = Unsaved
  /\ call' = [at |-> "empty", new |-> new, delta |-> <<>>]
  /\ UNCHANGED <<owner, up, kills, base, temp, events, stored, folded, twice, extensions>>

DeltaAppend ==
  /\ call.at = "append"
  /\ base' = base \o call.delta
  /\ folded' = TRUE
  /\ call' = [call EXCEPT !.at = "clear"]
  /\ UNCHANGED <<owner, up, kills, temp, events, stored, twice, extensions>>

\* Mutant: the base is written in place.
EmptyInPlace ==
  /\ call.at = "empty"
  /\ base' = <<>>
  /\ call' = [call EXCEPT !.at = "write"]
  /\ UNCHANGED <<owner, up, kills, temp, events, stored, folded, twice, extensions>>

EmptyTemp ==
  /\ call.at = "empty"
  /\ temp' = <<>>
  /\ call' = [call EXCEPT !.at = "write"]
  /\ UNCHANGED <<owner, up, kills, base, events, stored, folded, twice, extensions>>

WriteTemp ==
  /\ call.at = "write"
  /\ temp' = call.new
  /\ call' = [call EXCEPT !.at = "rename"]
  /\ UNCHANGED <<owner, up, kills, base, events, stored, folded, twice, extensions>>

\* An agent process does not clear the events; it writes none either.
Rename ==
  /\ call.at = "rename"
  /\ base' = temp /\ temp' = None
  /\ stored' = call.new
  /\ folded' = (owner = "library")
  /\ call' = IF owner = "agent" THEN Idle ELSE [call EXCEPT !.at = "clear"]
  /\ UNCHANGED <<owner, up, kills, events, twice, extensions>>

ClearEvents ==
  /\ call.at = "clear"
  /\ events' = <<>> /\ folded' = FALSE
  /\ call' = Idle
  /\ UNCHANGED <<owner, up, kills, base, temp, stored, twice, extensions>>

----------------------------------------------------------------------------
(* The states of the extensions *)

\* set(): any value, at any time an extension's own code runs.
SetState(x, v) ==
  /\ up /\ owner # "library"
  /\ states' = [states EXCEPT ![x] = v]
  /\ dirty' = IF x \in ToSet(dirty) THEN dirty ELSE Append(dirty, x)
  /\ overtaken' = IF save # Unsaved /\ x \in ToSet(SubSeq(dirty, 1, save.index))
                  THEN overtaken \cup {x} ELSE overtaken \ {x}
  /\ UNCHANGED <<owner, up, kills, conversation, stateFile, save>>

\* readExtensionState: an empty file cannot be parsed.
Readable(v) == IF v = Cut THEN None ELSE v

CanTake == up /\ call = Idle /\ save.at \in {"none", "next"} /\ save.index < Len(dirty)

\* saveAll takes the next of the dirty names, those that came since it began too.
TakeDirty ==
  /\ CanTake
  /\ LET x == dirty[save.index + 1]
     IN /\ states[x] # Text
        /\ save' = [at |-> IF Readable(stateFile[x]) = states[x] THEN "next" ELSE "empty",
                    value |-> states[x], index |-> save.index + 1]
  /\ UNCHANGED <<owner, up, kills, conversation, stateFile, states, dirty, overtaken>>

\* Mutant: what could not be saved is forgotten.
RefuseForgetting ==
  /\ CanTake
  /\ states[dirty[save.index + 1]] = Text
  /\ save' = Unsaved /\ dirty' = <<>>
  /\ UNCHANGED <<owner, up, kills, conversation, stateFile, states, overtaken>>

\* A state that is no object ends saveAll with an error: every name stays dirty.
Refuse ==
  /\ CanTake
  /\ states[dirty[save.index + 1]] = Text
  /\ save' = Unsaved
  /\ UNCHANGED <<owner, up, kills, conversation, stateFile, states, dirty, overtaken>>

EmptyState ==
  /\ save.at = "empty"
  /\ stateFile' = [stateFile EXCEPT ![dirty[save.index]] = Cut]
  /\ save' = [save EXCEPT !.at = "write"]
  /\ UNCHANGED <<owner, up, kills, conversation, states, dirty, overtaken>>

WriteState ==
  /\ save.at = "write"
  /\ stateFile' = [stateFile EXCEPT ![dirty[save.index]] = save.value]
  /\ save' = [save EXCEPT !.at = "next"]
  /\ UNCHANGED <<owner, up, kills, conversation, states, dirty, overtaken>>

\* The end of saveAll: every name is clean, also one that was set meanwhile.
FinishSave ==
  /\ save.at = "next" /\ save.index = Len(dirty)
  /\ dirty' = <<>> /\ save' = Unsaved
  /\ UNCHANGED <<owner, up, kills, conversation, stateFile, states, overtaken>>

----------------------------------------------------------------------------
(* The process *)

Kill ==
  /\ up /\ kills < MaxKills
  /\ up' = FALSE /\ kills' = kills + 1
  /\ call' = Idle /\ save' = Unsaved
  /\ states' = [x \in Extensions |-> None] /\ dirty' = <<>>
  /\ UNCHANGED <<owner, base, temp, events, stored, folded, twice, stateFile, overtaken>>

\* createConversationState or the load of the next turn, and loadAll: from here
\* on the conversation is what has been found.
Start ==
  /\ ~up
  /\ up' = TRUE
  /\ states' = [x \in Extensions |-> Readable(stateFile[x])]
  /\ stored' = Loaded /\ folded' = FALSE /\ twice' = (twice \/ folded) /\ overtaken' = {}
  /\ UNCHANGED <<owner, kills, base, temp, events, call, stateFile, dirty, save>>

Init ==
  /\ owner \in {"runner", "agent", "library"}
  /\ base = <<>> /\ temp = None /\ events = <<>> /\ call = Idle
  /\ up = TRUE /\ kills = 0
  /\ stateFile = [x \in Extensions |-> None] /\ states = stateFile
  /\ dirty = <<>> /\ save = Unsaved
  /\ stored = <<>> /\ folded = FALSE /\ twice = FALSE /\ overtaken = {}

\* What a turn makes of a conversation: any messages, each at most once.
Conversations == UNION {{s \in [1..n -> Messages] : IsInjective(s)} : n \in 0..Cardinality(Messages)}

Next ==
  \/ \E e \in Events : AppendEvent(e)
  \/ StartFold
  \/ \E new \in Conversations : Persist(new)
  \/ DeltaAppend \/ EmptyTemp \/ WriteTemp \/ Rename \/ ClearEvents
  \/ \E x \in Extensions, v \in Objects \cup {Text} : SetState(x, v)
  \/ TakeDirty \/ Refuse \/ EmptyState \/ WriteState \/ FinishSave
  \/ Kill \/ Start

Spec == Init /\ [][Next]_vars

----------------------------------------------------------------------------
(* Properties *)

\* A load finds the conversation that was stored, wherever the process was
\* killed; between a fold's write and the clearing of the events it may find
\* messages twice or out of place, but the first time none is missing: storage.ts:68-79, 100-159.
RestartFindsConversation ==
  IF folded THEN twice \/ ToSet(stored) \subseteq ToSet(Loaded) ELSE Loaded = stored

\* A state that is not on disk is one saveAll will come to, also after an error,
\* unless it was set anew while saveAll wrote the one before: state-manager.ts:36-56.
UnsavedIsDirty ==
  up => \A x \in Extensions \ overtaken : states[x] # Readable(stateFile[x]) => x \in ToSet(dirty)

\* docs/specs/extension.md:323: states that have changed are written when a turn ends,
\* so each of them is still to be written.  (Refuted: saveAll clears every mark at its end,
\* that of a state set anew while its predecessor was being written too.)
ChangedIsSaved == up => \A x \in Extensions : states[x] # Readable(stateFile[x]) => x \in ToSet(dirty)
=============================================================================

----------------------------- MODULE AgentCalls -----------------------------
(***************************************************************************)
(* What one agent's request to another promises, whoever carries it: the   *)
(* request is run at most once, its caller learns at most one outcome, and *)
(* "ok" only of a run that finished.  Nothing is promised of the others:   *)
(* an error or a timeout may come of a request that was run, is running or *)
(* will still be run.                                                      *)
(***************************************************************************)
EXTENDS Naturals

CONSTANTS Calls

VARIABLES
  asked,     \* the calls made
  runs,      \* how many turns each was given
  finished,  \* the calls whose turn came to its end
  outcome    \* what the caller learned

vars == <<asked, runs, finished, outcome>>

Init ==
  /\ asked = {} /\ finished = {}
  /\ runs = [c \in Calls |-> 0]
  /\ outcome = [c \in Calls |-> "none"]

Ask(c) ==
  /\ c \notin asked
  /\ asked' = asked \cup {c}
  /\ UNCHANGED <<runs, finished, outcome>>

Run(c) ==
  /\ c \in asked /\ runs[c] = 0
  /\ runs' = [runs EXCEPT ![c] = 1]
  /\ UNCHANGED <<asked, finished, outcome>>

Finish(c) ==
  /\ runs[c] = 1
  /\ finished' = finished \cup {c}
  /\ UNCHANGED <<asked, runs, outcome>>

Decide(c, how) ==
  /\ c \in asked /\ outcome[c] = "none"
  /\ how = "ok" => c \in finished
  /\ outcome' = [outcome EXCEPT ![c] = how]
  /\ UNCHANGED <<asked, runs, finished>>

\* The end of one turn and the start of the next are one step of the code.
FinishAndRun(c, d) ==
  /\ runs[c] = 1
  /\ d \in asked /\ runs[d] = 0
  /\ finished' = finished \cup {c}
  /\ runs' = [runs EXCEPT ![d] = 1]
  /\ UNCHANGED <<asked, outcome>>

Next ==
  \E c \in Calls :
    \/ Ask(c) \/ Run(c) \/ Finish(c)
    \/ \E how \in {"ok", "error", "timeout"} : Decide(c, how)
    \/ \E d \in Calls : FinishAndRun(c, d)

Spec == Init /\ [][Next]_vars

=============================================================================

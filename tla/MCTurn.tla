------------------------------- MODULE MCTurn -------------------------------
(* The order in which samples/brain-persona/goondan.yaml registers the base  *)
(* extensions for its coordinator.                                           *)
EXTENDS Turn
\* Every kind of answer, a few of their combinations.
SomeResponses ==
  {[text |-> x, tools |-> {}, fault |-> "none"] : x \in {"none", "blank", "text"}} \cup
  {[text |-> "none", tools |-> {}, fault |-> "no call"],
   [text |-> "text", tools |-> PlanTools, fault |-> "bad call"],
   [text |-> "none", tools |-> PlanTools, fault |-> "none"],
   [text |-> "text", tools |-> AllTools, fault |-> "none"]}
CoordinatorExtensions == <<"window", "compaction", "context">>
=============================================================================

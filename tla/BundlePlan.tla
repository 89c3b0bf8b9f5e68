----------------------------- MODULE BundlePlan -----------------------------
(***************************************************************************)
(* What is made of a loaded bundle: the plan of the runtime runner         *)
(* (buildRunnerPlan of runner/runtime-runner.ts), the plan an agent        *)
(* process makes for itself (runner/agent-process-plan.ts), and the agent  *)
(* that an event of a connector is given to (runner/runtime-routing.ts).   *)
(* A plan that throws is None.  An entry is the set of its candidate files *)
(* that are on disk: "dist", "js" and "ts".                                *)
(***************************************************************************)
EXTENDS BundleLoad

CONSTANT Unbuilt

VARIABLES plan, process, routed

planVars == <<bundle, load, plan, process, routed>>

Loaded == load.resources

----------------------------------------------------------------------------
(* References *)

\* Candidates are places in a list; find takes the first of them.
FirstOf(s, places) == IF places = {} THEN None ELSE s[Min(places)]
Named(rs, kind, name) == {i \in DOMAIN rs : rs[i].kind = kind /\ rs[i].name = name}
Within(rs, places, pkg) == IF pkg = None THEN {} ELSE {i \in places : rs[i].pkg = pkg}
FirstFilled(near, far, rest) == IF near # {} THEN near ELSE IF far # {} THEN far ELSE rest

\* Mutant: the swarm's package comes before the owner's.
SwarmFirst(rs, ref, kind, owner, swarmPkg) ==
  LET named == Named(rs, kind, ref.name)
  IN IF ref.kind # kind THEN None
     ELSE FirstOf(rs, IF ref.pkg # None THEN Within(rs, named, ref.pkg)
                      ELSE FirstFilled(Within(rs, named, swarmPkg), Within(rs, named, owner), {}))

\* selectReferencedResource of the runner: without a package, the owner's comes
\* before the swarm's, and any other has to be the only one.
RunnerSelect(rs, ref, kind, owner, swarmPkg) ==
  LET named == Named(rs, kind, ref.name)
      only == IF Cardinality(named) = 1 THEN named ELSE {}
  IN IF ref.kind # kind THEN None
     ELSE FirstOf(rs, IF ref.pkg # None THEN Within(rs, named, ref.pkg)
                      ELSE FirstFilled(Within(rs, named, owner), Within(rs, named, swarmPkg), only))

\* selectReferencedResource of the agent process: the kind written is not looked
\* at, and of several the first will do.
ProcessSelect(rs, ref, kind, owner, swarmPkg) ==
  LET named == Named(rs, kind, ref.name)
      fitting == IF ref.pkg = None THEN named ELSE Within(rs, named, ref.pkg)
  IN FirstOf(rs, FirstFilled(Within(rs, fitting, owner), Within(rs, fitting, swarmPkg), fitting))

Ref(kind, name, pkg) == [kind |-> kind, name |-> name, pkg |-> pkg]

----------------------------------------------------------------------------
(* Swarms *)

Swarms == {i \in DOMAIN Loaded : Loaded[i].kind = "Swarm"}
SwarmNamed(name) == FirstOf(Loaded, Named(Loaded, "Swarm", name))
OnlySwarm == IF Cardinality(Swarms) = 1 THEN FirstOf(Loaded, Swarms) ELSE None

\* parseSwarmSelection: the one asked for, else default, else the only one.
RunnerSwarm ==
  IF bundle.requested # None THEN SwarmNamed(bundle.requested)
  ELSE IF SwarmNamed("default") # None THEN SwarmNamed("default") ELSE OnlySwarm

\* The agent process knows no default.
ProcessSwarm == IF bundle.requested # None THEN SwarmNamed(bundle.requested) ELSE OnlySwarm

\* parseSwarmAgentRef
AreAgents(refs) == \A i \in DOMAIN refs : refs[i] # None /\ refs[i].kind = "Agent"

\* The agents of the swarm; an entry agent that is not among them comes last.
AgentsOf(swarm) ==
  LET refs == swarm.spec.agents
  IN IF swarm.spec.entry \in ToSet(refs) THEN refs ELSE Append(refs, swarm.spec.entry)

\* parseSwarmMaxStepsPerTurn, the runner's and the agent process's
RunnerSteps(swarm) == IF swarm.spec.steps = None THEN 24 ELSE swarm.spec.steps
ProcessSteps(swarm) == IF swarm.spec.steps = None THEN 25 ELSE swarm.spec.steps

----------------------------------------------------------------------------
(* Values and files *)

\* resolveConnectionValue: a value of its own, or from the environment under one
\* name, or for a secret under one of several; never two of these.
HasValue(v) ==
  \/ v.inline /\ v.env = None /\ v.secret = {}
  \/ ~v.inline /\ v.secret = {} /\ v.env \in bundle.env
  \/ ~v.inline /\ v.env = None /\ v.secret \cap bundle.env # {}

\* resolveModelApiKey of the runner; a value of its own comes before the environment.
HasKey(model) == model.spec.key.inline \/ model.spec.key.env \in bundle.env

\* collectEnvRequirements, summarizeMissingEnv: every resource loaded counts,
\* the ones that the swarm does not use too.
EnvWanted(r) ==
  (CASE r.kind = "Model" -> {r.spec.key.env}
     [] r.kind = "Connection" -> {v.env : v \in ToSet(r.spec.values)}
     [] OTHER -> {}) \ {None}
EnvIsThere == UNION {EnvWanted(r) : r \in ToSet(Loaded)} \subseteq bundle.env

\* readAgentPromptMetadata: the file is read only where no text is given.
PromptIsReadable(agent) == agent.spec.prompt.system # None \/ agent.spec.prompt.ref # "gone"

\* resolveEntryPath, the runner's and the agent process's: the built file before
\* the source, and the source before the built file.
FirstFile(entry, order) == FirstOf(order, {i \in DOMAIN order : order[i] \in entry})
RunnerFile(r) == FirstFile(r.spec.entry, <<"dist", "js", "ts">>)
ProcessFile(r) == FirstFile(r.spec.entry, <<"ts", "js">>)

----------------------------------------------------------------------------
(* Tools *)

\* A table, completed by what another has besides (what @@ computes, and provers expand).
Completed(f, g) == [x \in DOMAIN f \cup DOMAIN g |-> IF x \in DOMAIN f THEN f[x] ELSE g[x]]

ToolNames(tool) == {<<tool.name, x.name>> : x \in ToSet(tool.spec.exports)}
ToolEntries(tool) == [n \in ToolNames(tool) |-> Scope(tool)]
NoTools == [n \in {} |-> None]
HandlersAreThere(tool) == \A x \in ToSet(tool.spec.exports) : x.handled

\* Mutant: a name that is taken is taken over.
RegisterAnew(registry, tool) ==
  IF registry = None THEN None ELSE Completed(ToolEntries(tool), registry)

\* ToolRegistryImpl.register: a name that is taken is refused.
Register(registry, tool) ==
  IF registry = None \/ ToolNames(tool) \cap DOMAIN registry # {} THEN None
  ELSE Completed(registry, ToolEntries(tool))

\* A resource the runner has met before is not registered again: the registry is
\* one for all agents, and so are the resources in it.
RegisterOnce(registry, tool) ==
  IF registry # None /\ Scope(tool) \in {registry[n] : n \in DOMAIN registry} THEN registry
  ELSE Register(registry, tool)

\* agentToolCatalog: the first of a name stays.
Catalog(tools) == FoldLeft(LAMBDA cat, t : Completed(cat, ToolEntries(t)), NoTools, tools)

----------------------------------------------------------------------------
(* Extensions *)

\* mergeExtensionConfig: what the agent gives comes before what the extension has.
Extension(r, config) ==
  [id |-> Scope(r), requires |-> IF config = None THEN r.spec.config ELSE config]

\* mergeRequiredToolsGuardConfig, for the first guard among the extensions.
Guard == "required-tools-guard"
GuardRef == Ref("Extension", Guard, None)
GuardAt(exts) == SelectInSeq(exts, LAMBDA e : e.id[3] = Guard)
WithRequired(exts, required) ==
  [i \in DOMAIN exts |-> IF i = GuardAt(exts) THEN [exts[i] EXCEPT !.requires = @ \cup required]
                         ELSE exts[i]]

\* An agent that requires tools has the guard, asked for or not.
Guarded(exts, required, guard) ==
  IF required = {} THEN exts
  ELSE WithRequired(IF GuardAt(exts) # 0 THEN exts ELSE Append(exts, Extension(guard, None)), required)

----------------------------------------------------------------------------
(* The plan of one agent *)

\* The references of an agent, each with the kind it stands for.
References(agent) ==
  {<<"Model", agent.spec.model>>}
    \cup {<<"Tool", ref>> : ref \in ToSet(agent.spec.tools) \ {None}}
    \cup {<<"Extension", e.ref>> : e \in {x \in ToSet(agent.spec.exts) : x.ref # None}}

\* What they are taken for; None where nothing is found.
Uses(agent, found, guard) ==
  LET all(kind, refs) == [i \in DOMAIN refs |-> IF refs[i] = None THEN None ELSE found[<<kind, refs[i]>>]]
      exts == agent.spec.exts
  IN [model |-> found[<<"Model", agent.spec.model>>],
      tools |-> all("Tool", agent.spec.tools),
      exts  |-> all("Extension", [i \in DOMAIN exts |-> exts[i].ref]),
      guard |-> guard]

\* What both builders insist on.
CanRun(agent, uses) ==
  /\ uses.model # None /\ uses.model.spec.named
  /\ None \notin ToSet(uses.tools) \cup ToSet(uses.exts)
  /\ \A t \in ToSet(uses.tools) : HandlersAreThere(t)
  /\ agent.spec.required \subseteq DOMAIN Catalog(uses.tools)
  /\ agent.spec.required # {} =>
       uses.guard # None \/ \E e \in ToSet(uses.exts) : e.name = Guard
  /\ PromptIsReadable(agent)

AgentPlan(agent, uses, steps) ==
  LET exts == [i \in DOMAIN uses.exts |-> Extension(uses.exts[i], agent.spec.exts[i].config)]
  IN [id |-> Scope(agent), model |-> Scope(uses.model), catalog |-> Catalog(uses.tools),
      exts |-> Guarded(exts, agent.spec.required, uses.guard), steps |-> steps]

----------------------------------------------------------------------------
(* The plan of the runner *)

RunnerAgent(ref, swarm) == RunnerSelect(Loaded, ref, "Agent", swarm.pkg, swarm.pkg)
RunnerUses(agent, swarm) ==
  LET pick(kind, ref) == RunnerSelect(Loaded, ref, kind, agent.pkg, swarm.pkg)
  IN Uses(agent, [r \in References(agent) |-> pick(r[1], r[2])], pick("Extension", GuardRef))

RunnerAgents(swarm) ==
  [i \in DOMAIN AgentsOf(swarm) |-> RunnerAgent(AgentsOf(swarm)[i], swarm)]

RunnerRegistry(swarm) ==
  LET agents == RunnerAgents(swarm)
  IN FoldLeft(RegisterOnce, NoTools,
              FlattenSeq([i \in DOMAIN agents |-> RunnerUses(agents[i], swarm).tools]))

RunnerAgentPlan(a, swarm) == AgentPlan(a, RunnerUses(a, swarm), RunnerSteps(swarm))
PlanEntry(a, swarm) == [n \in {a.name} |-> RunnerAgentPlan(a, swarm)]

\* agentPlans is keyed by the bare name: of two agents of one name the later stays.
RunnerAgentPlans(swarm) ==
  FoldLeft(LAMBDA plans, a : Completed(PlanEntry(a, swarm), plans), NoTools, RunnerAgents(swarm))

\* hasMatchingSwarm
IsMatchingSwarm(c, swarm) ==
  LET ref == c.spec.swarm
  IN ref = None \/ (ref.name = swarm.name /\ (ref.pkg = None \/ swarm.pkg = None \/ ref.pkg = swarm.pkg))

Connections(swarm) ==
  {r \in ToSet(Loaded) : r.kind = "Connection" /\ IsMatchingSwarm(r, swarm)}

ConnectorOf(c, swarm) == RunnerSelect(Loaded, c.spec.connector, "Connector", c.pkg, swarm.pkg)

\* Mutant: a rule leads to any agent.
RuleIsWritten(rule, agents) ==
  /\ rule.agent # None => rule.agent.kind = "Agent"
  /\ rule.key = None \/ rule.property = None

\* parseIngressRouteRules: a rule leads to an agent of the swarm or to no agent.
RuleIsSound(rule, agents) ==
  /\ rule.agent # None =>
       /\ rule.agent.kind = "Agent"
       /\ \E a \in ToSet(agents) : a.name = rule.agent.name /\ rule.agent.pkg \in {None, a.pkg}
  /\ rule.key = None \/ rule.property = None

CanConnect(c, swarm) ==
  /\ ConnectorOf(c, swarm) # None
  /\ \A v \in ToSet(c.spec.values) : HasValue(v)
  /\ \A rule \in ToSet(c.spec.rules) : RuleIsSound(rule, AgentsOf(swarm))

ConnectorPlan(c, swarm) ==
  [name |-> c.name, connector |-> Scope(ConnectorOf(c, swarm)),
   file |-> RunnerFile(ConnectorOf(c, swarm)), rules |-> c.spec.rules,
   default |-> swarm.spec.entry.name]

LocalPackageIsNamed ==
  \E r \in ToSet(Loaded) : r.kind = "Package" /\ r.file = "goondan.yaml"

\* buildRunnerPlan, in the order of its checks
RunnerCan(swarm) ==
  /\ swarm # None
  /\ AreAgents(AgentsOf(swarm))
  /\ EnvIsThere
  /\ None \notin ToSet(RunnerAgents(swarm))
  /\ \A a \in ToSet(RunnerAgents(swarm)) :
       CanRun(a, RunnerUses(a, swarm)) /\ HasKey(RunnerUses(a, swarm).model)
  /\ RunnerRegistry(swarm) # None
  /\ \A r \in ToSet(Loaded) :
       r.kind = "Connection" /\ r.spec.swarm # None => r.spec.swarm.kind = "Swarm"
  /\ \A c \in Connections(swarm) : CanConnect(c, swarm)

RunnerPlan ==
  IF ~(load.errors = {} /\ LocalPackageIsNamed /\ RunnerCan(RunnerSwarm)) THEN None
  ELSE [swarm |-> RunnerSwarm.name, agents |-> RunnerAgentPlans(RunnerSwarm),
        registry |-> RunnerRegistry(RunnerSwarm),
        connectors |-> {ConnectorPlan(c, RunnerSwarm) : c \in Connections(RunnerSwarm)}]

----------------------------------------------------------------------------
(* The plan of an agent process *)

ProcessUses(agent) ==
  Uses(agent, [r \in References(agent) |-> ProcessSelect(Loaded, r[2], r[1], agent.pkg, None)],
       ProcessSelect(Loaded, GuardRef, "Extension", agent.pkg, ProcessSwarm.pkg))

\* buildAgentProcessPlan: every reference is registered anew; a key that is not
\* in the environment is left empty.
ProcessCan(swarm, agent) ==
  /\ swarm # None /\ AreAgents(AgentsOf(swarm))
  /\ agent # None
  /\ CanRun(agent, ProcessUses(agent))
  /\ \A t \in ToSet(ProcessUses(agent).tools) : ProcessFile(t) # None
  /\ FoldLeft(Register, NoTools, ProcessUses(agent).tools) # None

ProcessAgent(name, swarm) ==
  IF swarm = None THEN None ELSE ProcessSelect(Loaded, Ref("Agent", name, None), "Agent", swarm.pkg, None)

ProcessPlan(name) ==
  LET agent == ProcessAgent(name, ProcessSwarm)
  IN IF ~(load.errors = {} /\ ProcessCan(ProcessSwarm, agent)) THEN None
     ELSE [agent |-> AgentPlan(agent, ProcessUses(agent), ProcessSteps(ProcessSwarm)),
           registry |-> FoldLeft(Register, NoTools, ProcessUses(agent).tools),
           available |-> [i \in DOMAIN ProcessSwarm.spec.agents |-> ProcessSwarm.spec.agents[i].name]]

----------------------------------------------------------------------------
(* Routing *)

\* selectMatchingIngressRule
RuleFits(rule, event) ==
  /\ rule.event \in {None, event.name}
  /\ \A p \in DOMAIN rule.props : p \in DOMAIN event.props /\ event.props[p] = rule.props[p]

MatchingRule(rules, event) == FirstOf(rules, {i \in DOMAIN rules : RuleFits(rules[i], event)})

\* resolveInboundInstanceKey
InboundKey(rule, event) ==
  LET keyed == rule # None
      stated == keyed /\ rule.key # None
      byProperty == keyed /\ rule.property # None /\ rule.property \in DOMAIN event.props
  IN IF stated THEN <<rule.key>>
     ELSE IF byProperty THEN rule.prefix \o <<event.props[rule.property]>>
     ELSE event.key

TargetAgent(rule, connector) ==
  IF rule = None \/ rule.agent = None THEN connector.default ELSE rule.agent.name

----------------------------------------------------------------------------
PlanInit ==
  /\ bundle \in Bundles
  /\ load = Idle
  /\ plan = Unbuilt /\ process = Unbuilt /\ routed = Unbuilt

Load == LoadNext /\ UNCHANGED <<plan, process, routed>>

\* A load that is rejected has no plan either.
LoadIsOver == load.pc \in {"loaded", "failed"}

BuildRunner ==
  /\ LoadIsOver /\ plan = Unbuilt
  /\ plan' = IF load.pc = "failed" THEN None ELSE RunnerPlan
  /\ UNCHANGED <<bundle, load, process, routed>>

BuildProcess(name) ==
  /\ LoadIsOver /\ process = Unbuilt
  /\ process' = IF load.pc = "failed" THEN None ELSE ProcessPlan(name)
  /\ UNCHANGED <<bundle, load, plan, routed>>

\* handleConnectorEvent; an event without a name or a key is dropped.
Receive(connector, event) ==
  /\ event.name # None /\ event.key # None
  /\ LET rule == MatchingRule(connector.rules, event)
     IN routed' = [agent |-> TargetAgent(rule, connector), key |-> InboundKey(rule, event)]
  /\ UNCHANGED <<bundle, load, plan, process>>

PlanNext ==
  \/ Load
  \/ BuildRunner
  \/ \E name \in {r.name : r \in {r \in ToSet(Loaded) : r.kind = "Agent"}} : BuildProcess(name)
  \/ /\ plan \notin {Unbuilt, None}
     /\ \E connector \in plan.connectors, event \in bundle.events : Receive(connector, event)

PlanSpec == PlanInit /\ [][PlanNext]_planVars

----------------------------------------------------------------------------
(* Properties *)

\* A load without errors has every dependency of every package in it, at the version
\* asked for if that is one (a range is not compared: 580-602), and no package in two
\* versions: bundle-loader.ts:180-280 and the duplicates of resources.ts:28-78.
LoadIsClosed ==
  load.pc = "loaded" /\ load.errors = {} =>
    LET wanted == ToSet(Dependencies(ManifestDocs)) \cup
                    UNION {ToSet(Dependencies(bundle.installed[id].docs)) : id \in load.visited}
    IN /\ \A dep \in wanted :
            \E id \in load.visited : id[1] = dep.name /\ dep.version \in {id[2], Loose}
       /\ \A v, w \in load.visited : v[1] = w[1] => v = w

\* Where the local package has no name, the packages it asks for are taken for its own.
LocalIsApart == PackageName(ManifestDocs) # None \/ Dependencies(ManifestDocs) = <<>>

\* The plan of an agent is made of the model, tools and extensions that its
\* references denote.
IsMadeOf(p, agent) ==
  /\ p.id = Scope(agent) /\ p.model = Denoted(agent.spec.model, agent)
  /\ \A n \in DOMAIN p.catalog : \E ref \in ToSet(agent.spec.tools) : p.catalog[n] = Denoted(ref, agent)
  /\ \A i \in DOMAIN agent.spec.exts : p.exts[i].id = Denoted(agent.spec.exts[i].ref, agent)

\* An agent of the swarm's list is that of its reference; the entry agent is one of
\* these, or, written in another way, none that the validation has looked for.
IsOfSwarm(p, swarm) ==
  \/ \E ref \in ToSet(swarm.spec.agents) : p.id = Denoted(ref, swarm)
  \/ swarm.spec.entry \notin ToSet(swarm.spec.agents) /\ p.id[3] = swarm.spec.entry.name

IsWrittenByKind(agent) == \A r \in References(agent) : r[2].kind = r[1]

\* What a plan is made of are the resources whose existence the validation has
\* checked, in the runner and in an agent process (which takes a reference of another
\* kind at its name), unless a local package without a name asks for others:
\* resources.ts:80-119, runtime-runner.ts:2298-2401, 2461-2468, agent-process-plan.ts:580-650.
RefsMeanWhatWasChecked ==
  LocalIsApart =>
    /\ plan \notin {Unbuilt, None} =>
         /\ \A n \in DOMAIN plan.agents :
              /\ IsOfSwarm(plan.agents[n], RunnerSwarm)
              /\ \E agent \in ToSet(Loaded) : IsMadeOf(plan.agents[n], agent)
         /\ \A k \in plan.connectors : \E c \in Connections(RunnerSwarm) :
              k.name = c.name /\ k.connector = Denoted(c.spec.connector, c)
    /\ process \notin {Unbuilt, None} =>
         \E agent \in ToSet(Loaded) :
           /\ process.agent.id = Scope(agent)
           /\ IsWrittenByKind(agent) => IsMadeOf(process.agent, agent)

\* bundle_package.md:525: a reference with a package is looked for in that package
\* alone.  (Refuted: an agent's plan is kept, and a rule's agent found, by the bare name.)
RulesMeanTheirAgents ==
  plan \notin {Unbuilt, None} =>
    \A k \in plan.connectors : \A rule \in ToSet(k.rules) :
      rule.agent # None /\ rule.agent.pkg # None =>
        plan.agents[rule.agent.name].id = Denoted(rule.agent, [pkg |-> None])

\* A tool an agent is shown is handled by the resource the agent refers to, in the
\* registry that all agents of the runner share as in that of an agent process:
\* runtime-runner.ts:2345-2372, agent-process-plan.ts:597-609, tools/registry.ts:21-32.
ToolRunsAsDeclared ==
  LET handled(catalog, registry) ==
        \A n \in DOMAIN catalog : n \in DOMAIN registry /\ registry[n] = catalog[n]
  IN /\ plan \notin {Unbuilt, None} =>
          \A a \in DOMAIN plan.agents : handled(plan.agents[a].catalog, plan.registry)
     /\ process \notin {Unbuilt, None} => handled(process.agent.catalog, process.registry)

\* An event is given to an agent that the runner has a plan for:
\* runtime-runner.ts:4497-4553, 1333-1357, 2313-2453.
RoutedIsPlanned == routed # Unbuilt => routed.agent \in DOMAIN plan.agents
=============================================================================

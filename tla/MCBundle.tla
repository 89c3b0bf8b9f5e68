------------------------------ MODULE MCBundle ------------------------------
(* Bundles of a local package L that depends on D, and D and E on each other. *)
(* One family varies what is installed and locked, the other what the local   *)
(* resources refer to.                                                        *)
EXTENDS BundlePlan

File(path, docs) == [path |-> path, state |-> "ok", docs |-> docs]
Doc(kind, name, spec) == [kind |-> kind, name |-> name, api |-> TRUE, spec |-> spec]
Dep(name, version) == [name |-> name, version |-> version]
Package(name, deps) == Doc("Package", name, [deps |-> deps])

Key(env) == [inline |-> env = None, env |-> env]
Model(env) == Doc("Model", "m", [named |-> TRUE, key |-> Key(env)])
Tool(entry) == Doc("Tool", "t", [entry |-> entry,
  exports |-> <<[name |-> "run", described |-> TRUE, handled |-> TRUE]>>])
GuardDoc == Doc("Extension", Guard, [entry |-> {"ts"}, config |-> {}])
Agent(model, tools, exts, required, prompt) ==
  Doc("Agent", "a", [model |-> model, tools |-> tools, exts |-> exts, required |-> required,
                     prompt |-> prompt])
NoPrompt == [system |-> None, ref |-> None]
PlainAgent(tools) == Agent(Ref("Model", "m", None), tools, <<>>, {}, NoPrompt)
Swarm(name, entry, agents) ==
  Doc("Swarm", name, [entry |-> entry, agents |-> agents, key |-> None, steps |-> None])
Connector == Doc("Connector", "c", [entry |-> {"dist"}, declares |-> <<[name |-> "message"]>>])
Connection(swarm, rules, values) ==
  Doc("Connection", "n", [connector |-> Ref("Connector", "c", None), swarm |-> swarm,
                          rules |-> rules, values |-> values])
Rule(event, agent, property) ==
  [event |-> event, props |-> <<>>, agent |-> agent, key |-> None, property |-> property, prefix |-> <<>>]

AgentRef(pkg) == Ref("Agent", "a", pkg)
ToolRef(pkg) == Ref("Tool", "t", pkg)

\* What D and E hold, and in which versions they are on disk.
Shared(deps) ==
  <<Package("D", deps), Model(None), Tool({"dist", "ts"}), PlainAgent(<<ToolRef(None)>>), GuardDoc>>
Installed(deps1, deps2, depsE) ==
  (<<"D", 1>> :> File("D/goondan.yaml", Shared(deps1))) @@
  (<<"D", 2>> :> File("D/goondan.yaml", Shared(deps2))) @@
  (<<"E", 1>> :> File("E/goondan.yaml", <<Package("E", depsE)>>))

Local(deps, rest) == <<File("agents.yaml", rest), File("goondan.yaml", <<Package("L", deps)>>)>>
Events ==
  {[name |-> n, key |-> <<"k">>, props |-> p] : n \in {"message", "other"}, p \in {<<>>, "user" :> "u"}} \cup
  {[name |-> "message", key |-> None, props |-> <<>>]}

Bundle(files, lock, installed, requested) ==
  [files |-> files, lock |-> lock, installed |-> installed, env |-> {"KEY"}, requested |-> requested,
   events |-> Events]

\* Loading: demands, locks and directories of every kind.
Simple == <<Model(None), PlainAgent(<<>>), Swarm("default", AgentRef(None), <<AgentRef(None)>>)>>
LocalDeps == {<<>>, <<Dep("D", Loose)>>, <<Dep("D", 1)>>, <<Dep("D", 2), Dep("E", Loose)>>,
              <<Dep("D", Loose), Dep("E", 1)>>}
EDeps == {<<>>, <<Dep("D", Loose)>>, <<Dep("D", 1)>>}
Locks == {None, <<>>, "D" :> {1}, ("D" :> {1, 2}) @@ ("E" :> {1}), ("D" :> {1}) @@ ("E" :> {1})}
Directories(e) ==
  LET all == Installed(<<Dep("E", Loose)>>, <<>>, e)
  IN {all, [all EXCEPT ![<<"E", 1>>] = None], [id \in {<<"D", 1>>} |-> all[id]]}
\* Files that cannot be read, are too large, or hold what is not a resource.
Spoilt == {[Local(<<>>, Simple) EXCEPT ![i].state = s] :
             i \in 1..2, s \in {"broken", "large", "many"}} \cup
          {Local(<<>>, <<d>> \o Simple) :
             d \in {None, Package("L", <<>>), Package(None, <<>>), Tool({}), [Model(None) EXCEPT !.api = FALSE],
                    [Model(None) EXCEPT !.name = ""],
                    [Model(None) EXCEPT !.kind = "Other", !.name = "o"]}}
LoadFamily ==
  {Bundle(Local(deps, Simple), lock, dirs, None) :
     deps \in LocalDeps, lock \in Locks, dirs \in UNION {Directories(e) : e \in EDeps}} \cup
  {Bundle(files, <<>>, <<>>, None) : files \in Spoilt}

\* Planning: references within and across packages.
Tools == {<<ToolRef(None)>>, <<ToolRef("D")>>, <<ToolRef(None), ToolRef("D")>>,
          <<ToolRef("D"), ToolRef("D")>>, <<Ref("Model", "m", None)>>}
Exts == {<<>>, <<[ref |-> Ref("Extension", Guard, "D"), config |-> {<<"t", "run">>}]>>}
Agents(tools) ==
  {Agent(Ref("Model", "m", p), tools, x, r, NoPrompt) :
     p \in {None, "D"}, x \in Exts, r \in {{}, {<<"t", "run">>}}} \cup
  {Agent(Ref("Model", "m", None), tools, <<>>, {}, [system |-> None, ref |-> "gone"])}
SwarmDocs == {Swarm("default", e, as) : e \in {AgentRef(None), AgentRef("D")},
                as \in {<<AgentRef(None)>>, <<AgentRef("D")>>, <<AgentRef(None), AgentRef("D")>>}}
Rules == {<<>>, <<Rule("message", AgentRef("D"), "user")>>,
          <<Rule("other", AgentRef(None), None), Rule(None, None, None)>>}
Stranger == Doc("Agent", "b", [PlainAgent(<<>>).spec EXCEPT !.tools = <<>>])
Value(env) == [inline |-> FALSE, env |-> env, secret |-> {}]
Connected == {<<Connector, Connection(None, r, <<>>)>> : r \in Rules} \cup
             {<<Connector, Stranger, Connection(None, <<Rule(None, Ref("Agent", "b", None), None)>>, <<>>)>>,
              <<Connector, Connection(Ref("Swarm", "default", None), <<>>, <<Value("KEY")>>)>>,
              <<Connector, Connection(None, <<>>, <<Value("LOST")>>)>>}
PlanFamily ==
  {Bundle(Local(<<Dep("D", 1)>>, <<Model("KEY"), Tool(entry), agent, swarm>> \o connected),
          "D" :> {1}, Installed(<<>>, <<>>, <<>>), None) :
     entry \in {{"dist"}, {"ts"}}, agent \in UNION {Agents(t) : t \in Tools},
     swarm \in SwarmDocs, connected \in Connected}
SwarmFamily ==
  {Bundle(Local(<<>>, <<Model("KEY"), PlainAgent(<<>>), Swarm(one, AgentRef(None), <<AgentRef(None)>>),
                        Swarm("other", AgentRef(None), <<AgentRef(None)>>)>>),
          <<>>, <<>>, requested) : one \in {"default", "mine"}, requested \in {None, "default", "other", "lost"}}

\* A local package without a name.
NamelessFamily ==
  {Bundle(files, "D" :> {1}, Installed(<<>>, <<>>, <<>>), None) :
     files \in {[Local(<<Dep("D", 1)>>, Simple) EXCEPT ![2].docs[1].name = n] : n \in {None, ""}}}

MCBundles == LoadFamily \cup NamelessFamily \cup PlanFamily \cup SwarmFamily
=============================================================================

----------------------------- MODULE BundleLoad -----------------------------
(***************************************************************************)
(* The load of a bundle: config/bundle-loader.ts with config/resources.ts  *)
(* and config/object-ref.ts.  A bundle is what is on disk when the load    *)
(* starts:                                                                 *)
(*   files      the local YAML files in the order of their paths, each     *)
(*              [path, state, docs]                                        *)
(*   lock       package name -> its locked versions; None: unreadable      *)
(*   installed  <<name, version>> -> the manifest file, or None without one*)
(*   env        the environment variables that have a value                *)
(*   requested  the swarm asked for, or None                               *)
(*   events     the events its connectors emit                             *)
(* A document is [kind, name, api, spec], its name None when it has none,  *)
(* or None when it is nothing of the kind.                                 *)
(* A reference is [kind, name, pkg]; None stands for a value that is none  *)
(* and, as pkg, for a reference without a package.  Versions are numbers   *)
(* in the order of compareSemver; Loose is a demand that is not exact.     *)
(***************************************************************************)
EXTENDS Naturals, FiniteSets, SequencesExt

CONSTANTS Bundles, None, Loose

ASSUME LooseAssumption == Loose \notin Nat

VARIABLES bundle, load

KnownKinds == {"Model", "Agent", "Swarm", "Tool", "Extension", "Connector", "Connection", "Package"}

----------------------------------------------------------------------------
(* Resources *)

\* toRuntimeResource: a document of an unknown kind is taken for a Model.
Resource(doc, path, index, pkg) ==
  [kind |-> IF doc.kind \in KnownKinds THEN doc.kind ELSE "Model", name |-> doc.name, api |-> doc.api,
   spec |-> doc.spec, file |-> path, index |-> index, pkg |-> pkg]

IsResource(doc) == doc # None /\ doc.name # None

Scope(r) == <<r.pkg, r.kind, r.name>>

\* collectObjectRefCandidates: what stands under a key that ends in Ref, under
\* ref, or in tools, extensions and agents.  entryAgent is under none of these.
RefsOf(r) ==
  LET written ==
        CASE r.kind = "Agent" -> {r.spec.model} \cup ToSet(r.spec.tools)
                                   \cup {e.ref : e \in ToSet(r.spec.exts)}
          [] r.kind = "Swarm" -> ToSet(r.spec.agents)
          [] r.kind = "Connection" -> {r.spec.connector, r.spec.swarm}
                                        \cup {u.agent : u \in ToSet(r.spec.rules)}
          [] OTHER -> {}
  IN written \ {None}

\* What a reference written in r stands for: without a package, r's own.
Denoted(ref, r) == <<IF ref.pkg = None THEN r.pkg ELSE ref.pkg, ref.kind, ref.name>>

\* isSameAgentRef
SameAgent(a, b) ==
  /\ a.kind = "Agent" /\ b.kind = "Agent" /\ a.name = b.name
  /\ a.pkg = None \/ b.pkg = None \/ a.pkg = b.pkg

Distinct(s) == \A i, j \in DOMAIN s : i # j => s[i].name # s[j].name

----------------------------------------------------------------------------
(* Validation *)

\* validateKindMinimal
ToolIsSound(spec) ==
  /\ spec.entry # None
  /\ spec.exports # <<>> /\ Distinct(spec.exports)
  /\ \A x \in ToSet(spec.exports) : x.name # None /\ x.described

AgentIsSound(spec) ==
  /\ spec.model # None
  /\ spec.prompt.system = None \/ spec.prompt.ref = None

SwarmIsSound(spec) ==
  /\ spec.entry # None /\ spec.key # ""
  /\ spec.agents # <<>> /\ None \notin ToSet(spec.agents)
  /\ spec.entry.kind = "Agent" => \E a \in ToSet(spec.agents) : SameAgent(spec.entry, a)

ConnectorIsSound(spec) ==
  /\ spec.entry # None
  /\ spec.declares # <<>> /\ Distinct(spec.declares)
  /\ \A x \in ToSet(spec.declares) : x.name # None

KindIsSound(r) ==
  CASE r.kind = "Tool" -> ToolIsSound(r.spec)
    [] r.kind = "Agent" -> AgentIsSound(r.spec)
    [] r.kind = "Swarm" -> SwarmIsSound(r.spec)
    [] r.kind = "Extension" -> r.spec.entry # None
    [] r.kind = "Connector" -> ConnectorIsSound(r.spec)
    [] r.kind = "Connection" -> r.spec.connector # None
    [] OTHER -> TRUE

When(code, bad) == IF bad THEN {code} ELSE {}

\* validatePackageDocumentPlacement
PackageErrors(rs) ==
  LET docs == {i \in DOMAIN rs : rs[i].kind = "Package"}
      together(i, j) == rs[i].file = rs[j].file /\ rs[i].pkg = rs[j].pkg
  IN When("PACKAGE_DOC_DUPLICATED", \E i \in docs : \E j \in docs \ {i} : together(i, j))
     \cup When("PACKAGE_DOC_POSITION", \E i \in docs : rs[i].index # 1)

\* validateEntryFiles: one of the candidates for an entry has to be there.
EntryErrors(rs) ==
  When("ENTRY_NOT_FOUND",
       \E r \in ToSet(rs) : r.kind \in {"Tool", "Extension", "Connector"} /\ r.spec.entry = {})

\* validateResources
Errors(rs) ==
  LET has == {Scope(r) : r \in ToSet(rs)}
  IN When("UNSUPPORTED_API_VERSION", \E r \in ToSet(rs) : ~r.api)
     \cup When("INVALID_NAME", \E r \in ToSet(rs) : r.name = "")
     \cup When("DUPLICATE_NAME", Cardinality(has) < Len(rs))
     \cup When("REF_NOT_FOUND", \E r \in ToSet(rs) : \E ref \in RefsOf(r) : Denoted(ref, r) \notin has)
     \cup When("SCHEMA_INVALID", \E r \in ToSet(rs) : ~KindIsSound(r))
     \cup PackageErrors(rs)

----------------------------------------------------------------------------
(* Files *)

\* parsePackageMeta and readDependencies: the first document, when it is a Package.
IsPackage(docs) == docs # <<>> /\ docs[1] # None /\ docs[1].kind = "Package"
PackageName(docs) == IF IsPackage(docs) /\ docs[1].name # "" THEN docs[1].name ELSE None
Dependencies(docs) == IF IsPackage(docs) THEN docs[1].spec.deps ELSE <<>>

\* readLocalPackageMeta: a goondan.yaml that cannot be parsed counts as empty.
Manifest ==
  LET at == SelectInSeq(bundle.files, LAMBDA f : f.path = "goondan.yaml")
  IN IF at = 0 THEN None ELSE bundle.files[at]
ManifestDocs == IF Manifest = None \/ Manifest.state = "broken" THEN <<>> ELSE Manifest.docs

\* loadResourcesFromFile: [resources, errors]
FromFile(f, pkg) ==
  LET kept == [i \in DOMAIN f.docs |-> IF ~IsResource(f.docs[i]) THEN <<>>
                                       ELSE <<Resource(f.docs[i], f.path, i, pkg)>>]
  IN CASE f.state = "ok" -> [resources |-> FlattenSeq(kept), errors |-> {}]
       [] f.state = "large" -> [resources |-> <<>>, errors |-> {"FILE_TOO_LARGE"}]
       [] f.state = "many" -> [resources |-> <<>>, errors |-> {"TOO_MANY_DOCUMENTS"}]
       [] f.state = "broken" -> [resources |-> <<>>, errors |-> {"PARSE_ERROR"}]

\* loadResourcesFromLocalFiles
LocalFiles ==
  LET loaded == [i \in DOMAIN bundle.files |-> FromFile(bundle.files[i], PackageName(ManifestDocs))]
  IN [resources |-> FlattenSeq([i \in DOMAIN loaded |-> loaded[i].resources]),
      errors |-> UNION {loaded[i].errors : i \in DOMAIN loaded}]

----------------------------------------------------------------------------
(* What there is to load *)

IsList(s) == s \in Seq(ToSet(s))

\* What is listed in a document: readDependencies drops an entry without a name.
IsDocument(d) ==
  /\ d.kind = "Package" => IsList(d.spec.deps) /\ \A dep \in ToSet(d.spec.deps) : dep.name # None
  /\ d.kind = "Swarm" => IsList(d.spec.agents)
  /\ d.kind = "Agent" => IsList(d.spec.tools) /\ IsList(d.spec.exts)
  /\ d.kind = "Connection" => IsList(d.spec.rules)

IsFile(f) ==
  /\ f.state \in {"ok", "large", "many", "broken"}
  /\ IsList(f.docs) /\ \A d \in ToSet(f.docs) \ {None} : IsDocument(d)

FilesOf(b) == ToSet(b.files) \cup ({b.installed[id] : id \in DOMAIN b.installed} \ {None})

\* Every resource that a load of b may make.
PackagesOf(b) == {None} \cup {PackageName(f.docs) : f \in FilesOf(b)} \cup {id[1] : id \in DOMAIN b.installed}
ResourcesIn(f, pkg) == {Resource(f.docs[i], f.path, i, pkg) : i \in {j \in DOMAIN f.docs : IsResource(f.docs[j])}}
ResourcesOf(b) == UNION {ResourcesIn(f, pkg) : f \in FilesOf(b), pkg \in PackagesOf(b)}

\* What is installed was published, and a package is published under the name
\* that the first document of its manifest gives it.
ASSUME BundleAssumption ==
  \A b \in Bundles :
    /\ IsList(b.files) /\ \A f \in FilesOf(b) : IsFile(f)
    /\ None \notin ResourcesOf(b)
    /\ \A id \in DOMAIN b.installed :
         b.installed[id] # None /\ b.installed[id].state = "ok" => PackageName(b.installed[id].docs) = id[1]

----------------------------------------------------------------------------
(* The steps of load() *)

Idle == [pc |-> "start", queue |-> <<>>, visited |-> {}, resources |-> <<>>, errors |-> {}]

\* readLocalPackageMeta; the lock is read only for the sake of dependencies, and
\* one that does not parse rejects the load.
ReadManifest ==
  /\ load.pc = "start"
  /\ LET deps == Dependencies(ManifestDocs)
     IN load' = [load EXCEPT !.pc = IF deps # <<>> /\ bundle.lock = None THEN "failed" ELSE "deps",
                             !.queue = deps,
                             !.errors = IF Manifest # None /\ Manifest.state = "broken"
                                        THEN {"PARSE_ERROR"} ELSE {}]
  /\ UNCHANGED bundle

\* resolveDependencyVersion: an exact demand has to be locked, unless nothing of
\* that name is; any other demand takes the greatest locked version.
Resolved(dep) ==
  LET locked == IF dep.name \in DOMAIN bundle.lock THEN bundle.lock[dep.name] ELSE {}
  IN IF dep.version # Loose
     THEN IF locked = {} \/ dep.version \in locked THEN dep.version ELSE None
     ELSE IF locked = {} THEN None ELSE CHOOSE v \in locked : \A w \in locked : w <= v

\* A package that cannot be found counts as visited; a demand without a version
\* is none.
Misses(code, found) ==
  load' = [load EXCEPT !.queue = Tail(@), !.visited = @ \cup found, !.errors = @ \cup {code}]

\* The visit of one package: its resources, then its dependencies at the end of
\* the queue.
Visit(id) ==
  LET file == bundle.installed[id]
      loaded == FromFile(file, id[1])
      children == IF file.state = "broken" THEN <<>> ELSE Dependencies(file.docs)
  IN load' = [load EXCEPT !.queue = Tail(@) \o children, !.visited = @ \cup {id},
                          !.resources = @ \o loaded.resources, !.errors = @ \cup loaded.errors]

\* Mutant: once per name.
VisitedByName(id) == \E v \in load.visited : v[1] = id[1]

\* A package is visited once per version.
Visited(id) == id \in load.visited

\* loadDependencyResources, one round of its loop
TakeDependency ==
  /\ load.pc = "deps" /\ load.queue # <<>>
  /\ LET dep == Head(load.queue)
         id == <<dep.name, Resolved(dep)>>
     IN \/ id[2] = None /\ Misses("LOCK_MISSING", {})
        \/ id[2] # None /\ Visited(id) /\ load' = [load EXCEPT !.queue = Tail(@)]
        \/ /\ id[2] # None /\ ~Visited(id)
           /\ \/ id \notin DOMAIN bundle.installed /\ Misses("NOT_INSTALLED", {id})
              \/ id \in DOMAIN bundle.installed /\ bundle.installed[id] = None /\ Misses("MANIFEST_MISSING", {id})
              \/ id \in DOMAIN bundle.installed /\ bundle.installed[id] # None /\ Visit(id)
  /\ UNCHANGED bundle

\* The local files after the dependencies, then the validation of all together.
LoadLocal ==
  /\ load.pc = "deps" /\ load.queue = <<>>
  /\ LET all == load.resources \o LocalFiles.resources
     IN load' = [load EXCEPT !.pc = "loaded", !.resources = all,
                             !.errors = @ \cup LocalFiles.errors \cup Errors(all) \cup EntryErrors(all)]
  /\ UNCHANGED bundle

LoadNext == ReadManifest \/ TakeDependency \/ LoadLocal
=============================================================================

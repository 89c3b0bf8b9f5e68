--------------------------- MODULE PackageInstall ---------------------------
(***************************************************************************)
(* `gdn package add`, `update` and `install` (cli/src/services/package.ts, *)
(* registry.ts) against a registry whose packages change meanwhile.  An    *)
(* install walks the dependencies breadth first: each is resolved to a     *)
(* version, its entry and its tarball are asked for one after the other,   *)
(* the tarball is checked against the entry and unpacked, and when nothing *)
(* is left the lockfile is written.                                        *)
(***************************************************************************)
EXTENDS Registry

CONSTANTS
  Declared,     \* the dependencies of the bundle at first: name -> range
  MaxCommands, MaxActs   \* commands, and commands and requests together

\* A range is [op, ver]; what a manifest declares is a range for each of finitely many names.
Ranges == [op : {"exact", "caret", "tilde", "any"}, ver : Versions]
Dependencies == UNION {[S -> Ranges] : S \in {T \in SUBSET Names : IsFiniteSet(T)}}

ASSUME InstallAssumption ==
  /\ MaxCommands \in Nat /\ MaxActs \in Nat
  /\ Publishes \subseteq [name : Names, ver : Versions, bytes : Bytes,
                          tags : UNION {[S -> Versions] : S \in SUBSET Tags}, deps : Dependencies]
  /\ Declared \in Dependencies

VARIABLES
  manifest,  \* the dependencies of the bundle
  disk,      \* what is under packages/: <<name, version>> -> bytes, or "empty"
  lock,      \* goondan.lock.yaml: <<name, version>> -> [digest, deps]
  cmd,       \* the command under way
  ran        \* commands begun

installVars == <<manifest, disk, lock, cmd, ran>>
packageVars == <<registryVars, installVars>>

-----------------------------------------------------------------------------
NoCommand ==
  [pc |-> "idle", frozen |-> FALSE, exact |-> FALSE, ask |-> {}, queue |-> <<>>, chosen |-> <<>>,
   records |-> <<>>, entry |-> [digest |-> "", deps |-> <<>>], bytes |-> ""]

InstallInit ==
  /\ RegistryInit
  /\ manifest = Declared
  /\ disk = <<>> /\ lock = <<>>
  /\ cmd = NoCommand /\ ran = 0

Demands(deps) == {[name |-> n, range |-> deps[n]] : n \in DOMAIN deps}
AnOrder(S) == CHOOSE s \in [1..Cardinality(S) -> S] : \A x \in S : \E i \in DOMAIN s : s[i] = x

\* Mutant: what fails is tried again, for ever.
Retries == UNCHANGED cmd

Fails == cmd' = NoCommand

\* installDependencies reads the manifest.
Installing(deps, frozen) ==
  IF DOMAIN deps = {} THEN NoCommand
  ELSE [NoCommand EXCEPT !.pc = "resolve", !.frozen = frozen, !.queue = AnOrder(Demands(deps))]

Begin == cmd.pc = "idle" /\ ran < MaxCommands /\ ran + count < MaxActs /\ ran' = ran + 1

Install(frozen) ==
  /\ Begin
  /\ cmd' = Installing(manifest, frozen)
  /\ UNCHANGED <<registryVars, manifest, disk, lock>>

\* resolvePackage without an exact version asks for the latest, whatever the range.
IsPublished(n) == IsDocument(meta[n])
LatestOf(n) == meta[n].tags["latest"]

\* addDependency, of what is asked for or ^latest; one that is there stays.
Add(n, exact) ==
  /\ Begin
  /\ IF IsPublished(n)
     THEN /\ manifest' = IF n \in DOMAIN manifest THEN manifest
                         ELSE With(manifest, n, [op |-> IF exact THEN "exact" ELSE "caret",
                                                 ver |-> LatestOf(n)])
          /\ cmd' = Installing(manifest', FALSE)
     ELSE Fails /\ UNCHANGED manifest
  /\ UNCHANGED <<registryVars, disk, lock>>

AddVersion(n, v) ==
  /\ Begin
  /\ manifest' = IF n \in DOMAIN manifest THEN manifest
                 ELSE With(manifest, n, [op |-> "exact", ver |-> v])
  /\ cmd' = Installing(manifest', FALSE)
  /\ UNCHANGED <<registryVars, disk, lock>>

\* updateDependencies asks for one after the other; one that fails is skipped.
Update(exact) ==
  /\ Begin
  /\ cmd' = [NoCommand EXCEPT !.pc = "update", !.exact = exact, !.ask = DOMAIN manifest, !.chosen = manifest]
  /\ UNCHANGED <<registryVars, manifest, disk, lock>>

\* chooseUpdatedDependencyVersion keeps ^ and ~.
Newer(range, v) ==
  [op |-> IF cmd.exact \/ range.op = "any" THEN "exact" ELSE range.op, ver |-> v]

UpdateOne(n) ==
  /\ cmd.pc = "update" /\ n \in cmd.ask
  /\ cmd' = [cmd EXCEPT !.ask = @ \ {n},
                        !.chosen[n] = IF IsPublished(n) THEN Newer(@, LatestOf(n)) ELSE @]
  /\ UNCHANGED <<registryVars, manifest, disk, lock, ran>>

UpdateWrites ==
  /\ cmd.pc = "update" /\ cmd.ask = {}
  /\ manifest' = cmd.chosen
  /\ cmd' = Installing(cmd.chosen, FALSE)
  /\ UNCHANGED <<registryVars, disk, lock, ran>>

-----------------------------------------------------------------------------
(* The walk *)

Demand == Head(cmd.queue)
This == <<Demand.name, cmd.chosen[Demand.name]>>

\* A second version of a package ends the install; one that is done is skipped.
Resolved(v) ==
  IF Demand.name \in DOMAIN cmd.chosen /\ cmd.chosen[Demand.name] # v
  THEN Fails
  ELSE cmd' = [cmd EXCEPT !.chosen = With(@, Demand.name, v),
                          !.pc = IF <<Demand.name, v>> \in DOMAIN cmd.records
                                 THEN "next" ELSE "entry"]

\* An exact version is taken at its word.
Resolve ==
  /\ cmd.pc = "resolve"
  /\ IF Demand.range.op = "exact" THEN Resolved(Demand.range.ver)
     ELSE IF IsPublished(Demand.name) THEN Resolved(LatestOf(Demand.name))
     ELSE Fails
  /\ UNCHANGED <<registryVars, manifest, disk, lock, ran>>

\* getPackageVersion
GetEntry ==
  /\ cmd.pc = "entry"
  /\ LET versions == meta[Demand.name].versions
         v == cmd.chosen[Demand.name]
     IN IF v \in DOMAIN versions
        THEN cmd' = [cmd EXCEPT !.pc = "fetch",
                                !.entry = [digest |-> versions[v].digest, deps |-> versions[v].deps]]
        ELSE Fails
  /\ UNCHANGED <<registryVars, manifest, disk, lock, ran>>

\* Mutant: the tarball is unpacked as it comes.
FetchUnchecked ==
  /\ cmd.pc = "fetch"
  /\ LET v == cmd.chosen[Demand.name] IN
     IF v \in DOMAIN Served(Demand.name)
     THEN cmd' = [cmd EXCEPT !.pc = "wipe", !.bytes = Served(Demand.name)[v]]
     ELSE Fails
  /\ UNCHANGED <<registryVars, manifest, disk, lock, ran>>

\* fetchTarball and verifyIntegrity
Fetch ==
  /\ cmd.pc = "fetch"
  /\ LET v == cmd.chosen[Demand.name] IN
     IF v \in DOMAIN Served(Demand.name) /\ Served(Demand.name)[v] = cmd.entry.digest
     THEN cmd' = [cmd EXCEPT !.pc = "wipe", !.bytes = Served(Demand.name)[v]]
     ELSE Fails
  /\ UNCHANGED <<registryVars, manifest, disk, lock, ran>>

\* What was installed of this version goes first.
Wipe ==
  /\ cmd.pc = "wipe"
  /\ disk' = With(disk, This, "empty")
  /\ cmd' = [cmd EXCEPT !.pc = "extract"]
  /\ UNCHANGED <<registryVars, manifest, lock, ran>>

\* Mutant: the dependencies of a dependency are forgotten.
RecordAlone ==
  [cmd EXCEPT !.pc = "next", !.records = With(@, This, cmd.entry)]

Record ==
  [cmd EXCEPT !.pc = "next", !.records = With(@, This, cmd.entry),
              !.queue = @ \o AnOrder(Demands(cmd.entry.deps))]

\* tar, and the manifest is there.
Extract ==
  /\ cmd.pc = "extract"
  /\ disk' = With(disk, This, cmd.bytes)
  /\ cmd' = Record
  /\ UNCHANGED <<registryVars, manifest, lock, ran>>

NextDemand ==
  /\ cmd.pc = "next"
  /\ cmd' = [cmd EXCEPT !.queue = Tail(@), !.entry = NoCommand.entry, !.bytes = "",
                        !.pc = IF Len(cmd.queue) = 1 THEN "lock" ELSE "resolve"]
  /\ UNCHANGED <<registryVars, manifest, disk, lock, ran>>

\* A frozen install only compares, and only now.
WriteLock ==
  /\ cmd.pc = "lock"
  /\ lock' = IF cmd.frozen /\ DOMAIN lock # {} THEN lock ELSE cmd.records
  /\ cmd' = NoCommand
  /\ UNCHANGED <<registryVars, manifest, disk, ran>>

\* Any step may fail: the network, the disk, a tarball of another shape, Ctrl-C.
Interrupt ==
  /\ cmd.pc # "idle"
  /\ Fails
  /\ UNCHANGED <<registryVars, manifest, disk, lock, ran>>

-----------------------------------------------------------------------------
Steps ==
  \/ \E n \in Names : UpdateOne(n)
  \/ UpdateWrites \/ Resolve \/ GetEntry \/ Fetch \/ Wipe \/ Extract \/ NextDemand \/ WriteLock

InstallNext ==
  \/ RegistryNext /\ count' + ran <= MaxActs /\ UNCHANGED installVars
  \/ \E b \in BOOLEAN : Install(b) \/ Update(b) \/ \E n \in Names : Add(n, b)
  \/ \E n \in Names, v \in Versions : AddVersion(n, v)
  \/ Steps \/ Interrupt

\* Requests are answered, if only by an error, and the disk works: a command that
\* is under way goes on.  Of the registry nothing is assumed.
InstallSpec == InstallInit /\ [][InstallNext]_packageVars /\ WF_packageVars(Steps)

-----------------------------------------------------------------------------
(* What must hold *)

\* Every value has its shape.
TypeOK ==
  /\ kind \in Kinds /\ count \in 0..MaxRequests /\ raced \subseteq Names \cup {""}
  /\ \A n \in Names :
       /\ Listed(n) \subseteq Versions /\ DOMAIN meta[n].tags \subseteq Tags
       /\ \A v \in Listed(n) : meta[n].versions[v].digest \in Bytes /\ meta[n].versions[v].deps \in Dependencies
       /\ DOMAIN tar[n] \subseteq Versions
  /\ \A c \in Slots : req[c].pc \in {"idle", "read", "tarball", "save", "write"}
  /\ manifest \in Dependencies
  /\ DOMAIN disk \subseteq Names \X Versions /\ DOMAIN lock \subseteq Names \X Versions
  /\ cmd.pc \in {"idle", "update", "resolve", "entry", "fetch", "wipe", "extract", "next", "lock"}
  /\ cmd.queue \in Seq([name : Names, range : Ranges])
  /\ ran \in 0..MaxCommands

\* An install that succeeds has on disk, for each package of the lockfile, the very
\* tarball whose digest it records, though the registry may replace a version between
\* the two requests (package.ts:795-803; bundle_package.md:556).
LockMatchesDisk ==
  [][cmd.pc = "lock" /\ lock' # lock =>
       \A p \in DOMAIN lock' : p \in DOMAIN disk /\ disk[p] = lock'[p].digest]_packageVars

\* The lockfile has one version of a package, and with a package all it depends on
\* (package.ts:763-836; bundle_package.md:53, 114).
LockIsClosed ==
  /\ \A p, q \in DOMAIN lock : p[1] = q[1] => p = q
  /\ \A p \in DOMAIN lock : \A n \in DOMAIN lock[p].deps : \E q \in DOMAIN lock : q[1] = n

\* However an install was interrupted before, what the lockfile lists is complete.
LockIsSound == TypeOK /\ LockIsClosed

\* A command ends, though dependencies may go round in a circle (package.ts:769-793).
CommandsEnd == cmd.pc # "idle" ~> cmd.pc = "idle"

\* bundle_package.md:327: a version that a range does not allow is never chosen.
\* (Refuted: whatever the range, the latest is.)
Allows(range, v) ==
  /\ IF range.op = "exact" THEN v = range.ver ELSE ~SemverLess(v, range.ver)
  /\ range.op = "caret" => v.core[1] = range.ver.core[1]
  /\ range.op = "tilde" => v.core[1] = range.ver.core[1] /\ v.core[2] = range.ver.core[2]

DemandsAreMet ==
  \A p \in DOMAIN lock : \A d \in Demands(lock[p].deps) : \A q \in DOMAIN lock :
    q[1] = d.name => Allows(d.range, q[2])
=============================================================================

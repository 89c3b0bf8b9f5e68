------------------------------ MODULE Registry ------------------------------
(***************************************************************************)
(* The package registry: the file server (registry/src/server.ts,          *)
(* storage.ts) and the worker (registry/cloudflare/src/router.ts,          *)
(* worker.ts).  A package has one metadata document and one tarball per    *)
(* version, in two stores that no transaction joins.  A request that       *)
(* writes reads the document, touches tarballs and writes the whole        *)
(* document back, with an await between each; requests interleave.         *)
(*                                                                         *)
(* A refused request (route, token, payload) changes nothing and is left   *)
(* out.  A tarball is the value its digest names.  The worker's KV store   *)
(* is taken to show the last write.  A publish may name any versions by    *)
(* its dist-tags; a string there that is no version at all is left out.    *)
(***************************************************************************)
EXTENDS Semver, FiniteSets, Functions

CONSTANTS
  Names, Versions,
  Bytes,        \* what a tarball may hold
  Kinds,        \* the registries: "file", "worker"
  Publishes,    \* what is ever published: [name, ver, bytes, tags, deps]
  Slots,        \* requests that are under way at once
  MaxRequests

ASSUME RegistryAssumption ==
  /\ MaxRequests \in Nat /\ Slots \subseteq Nat
  /\ Versions \subseteq Version
  /\ Kinds \subseteq {"file", "worker"}

VARIABLES
  kind,    \* which of the registries this is
  meta,    \* per package its document, Absent or Torn
  tar,     \* per package the tarballs: a function of versions
  req,     \* the requests under way
  count,   \* requests begun
  raced    \* packages with requests that overlapped or were cut off

registryVars == <<kind, meta, tar, req, count, raced>>

-----------------------------------------------------------------------------
Tags == {"latest", "beta"}
Absent == [found |-> "absent", versions |-> <<>>, tags |-> <<>>]
Torn == [found |-> "torn", versions |-> <<>>, tags |-> <<>>]
IsDocument(d) == d.found = "yes"
Listed(n) == DOMAIN meta[n].versions

\* getPackageTarball: what a client is sent needs both, the version and its tarball.
Served(n) == Restrict(tar[n], Listed(n) \cap DOMAIN tar[n])

Without(f, x) == Restrict(f, DOMAIN f \ {x})
With(f, x, y) == [z \in DOMAIN f \cup {x} |-> IF z = x THEN y ELSE f[z]]

Entry(r) == [digest |-> r.bytes, deps |-> r.deps, deprecated |-> FALSE]

Merged(f, g) == [x \in DOMAIN f \cup DOMAIN g |-> IF x \in DOMAIN g THEN g[x] ELSE f[x]]

\* The tags of a publish: as the request says, unchecked; if it says nothing, latest
\* when the version is the highest.
NewTags(tags, v, asked) ==
  LET merged == Merged(tags, asked) IN
  IF DOMAIN asked = {}
  THEN IF "latest" \notin DOMAIN tags \/ SemverLess(tags["latest"], v)
       THEN With(tags, "latest", v) ELSE tags
  ELSE IF "latest" \in DOMAIN merged THEN merged ELSE With(merged, "latest", v)

\* buildUpdatedMetadata
Updated(old, r) ==
  [found |-> "yes",
   versions |-> With(old.versions, r.ver, Entry(r)),
   tags |-> NewTags(old.tags, r.ver, r.tags)]

\* Mutant: the tags of the version that goes are left.
UnlistedKeepingTags(old, v) == [old EXCEPT !.versions = Without(@, v)]

\* unpublishVersion on the document it read.
Unlisted(old, v) ==
  LET versions == Without(old.versions, v)
      tags == Restrict(old.tags, {t \in DOMAIN old.tags : old.tags[t] # v})
  IN IF DOMAIN versions = {} THEN Absent
     ELSE [found |-> "yes", versions |-> versions,
           tags |-> IF "latest" \in DOMAIN tags THEN tags
                    ELSE With(tags, "latest", Latest(DOMAIN versions))]

Deprecated(old, v) == [old EXCEPT !.versions[v].deprecated = TRUE]

-----------------------------------------------------------------------------
NoRequest == [op |-> "none", pc |-> "idle", name |-> "",
         ver |-> CHOOSE v \in Versions : TRUE, bytes |-> CHOOSE b \in Bytes : TRUE,
         tags |-> <<>>, deps |-> <<>>, seen |-> Absent, todo |-> {}]

RegistryInit ==
  /\ kind \in Kinds
  /\ meta = [n \in Names |-> Absent]
  /\ tar = [n \in Names |-> <<>>]
  /\ req = [c \in Slots |-> NoRequest]
  /\ count = 0
  /\ raced = {}

Ask(c, request) ==
  /\ req[c].pc = "idle" /\ \A d \in Slots : d < c => req[d].pc # "idle"
  /\ count < MaxRequests
  /\ req' = [req EXCEPT ![c] = request]
  /\ count' = count + 1
  /\ raced' = IF \E d \in Slots : req[d].pc # "idle" /\ req[d].name = request.name
              THEN raced \cup {request.name} ELSE raced
  /\ UNCHANGED <<kind, meta, tar>>

\* The worker writes the tarball of a publish before it reads anything.
AskPublish(c, p) ==
  Ask(c, [NoRequest EXCEPT !.op = "publish", !.name = p.name, !.ver = p.ver, !.bytes = p.bytes,
                      !.tags = p.tags, !.deps = p.deps,
                      !.pc = IF kind = "worker" THEN "tarball" ELSE "read"])
AskUnpublish(c, n, v) ==
  Ask(c, [NoRequest EXCEPT !.op = "unpublish", !.name = n, !.ver = v, !.pc = "read"])
AskDelete(c, n) == Ask(c, [NoRequest EXCEPT !.op = "delete", !.name = n, !.pc = "read"])
AskDeprecate(c, n, v) ==
  Ask(c, [NoRequest EXCEPT !.op = "deprecate", !.name = n, !.ver = v, !.pc = "read"])

Answer(c) == req' = [req EXCEPT ![c] = NoRequest]
Goto(c, pc) == req' = [req EXCEPT ![c].pc = pc]

\* 404, and 409 of the file server alone.
Refuses(c, d) ==
  CASE req[c].op = "publish" -> kind = "file" /\ req[c].ver \in DOMAIN d.versions
    [] req[c].op = "delete" -> ~IsDocument(d)
    [] OTHER -> req[c].ver \notin DOMAIN d.versions

AfterRead(c) ==
  CASE req[c].op = "publish" -> IF kind = "file" THEN "tarball" ELSE "save"
    [] req[c].op = "deprecate" -> "save"
    [] OTHER -> "tarball"

\* getMetadata; the rest of the request works on this copy.
Read(c) ==
  LET d == meta[req[c].name] IN
  /\ req[c].pc = "read" /\ d # Torn
  /\ IF Refuses(c, d) THEN Answer(c)
     ELSE req' = [req EXCEPT ![c].pc = AfterRead(c), ![c].seen = d,
                             ![c].todo = DOMAIN d.versions]
  /\ UNCHANGED <<kind, meta, tar, count, raced>>

\* saveTarball, putTarball
PutTarball(c) ==
  /\ req[c].pc = "tarball" /\ req[c].op = "publish"
  /\ tar' = [tar EXCEPT ![req[c].name] = With(@, req[c].ver, req[c].bytes)]
  /\ Goto(c, IF kind = "file" THEN "save" ELSE "read")
  /\ UNCHANGED <<kind, meta, count, raced>>

\* removeVersion, deleteTarball
RemoveTarball(c) ==
  /\ req[c].pc = "tarball" /\ req[c].op = "unpublish"
  /\ tar' = [tar EXCEPT ![req[c].name] = Without(@, req[c].ver)]
  /\ Goto(c, "save")
  /\ UNCHANGED <<kind, meta, count, raced>>

\* deletePackage: the file server removes the directory, the worker one tarball
\* after the other of the versions that it read, and then the document.
RemoveDirectory(c) ==
  /\ req[c].pc = "tarball" /\ req[c].op = "delete" /\ kind = "file"
  /\ tar' = [tar EXCEPT ![req[c].name] = <<>>]
  /\ meta' = [meta EXCEPT ![req[c].name] = Absent]
  /\ Answer(c)
  /\ UNCHANGED <<kind, count, raced>>

RemoveEach(c) ==
  /\ req[c].pc = "tarball" /\ req[c].op = "delete" /\ kind = "worker"
  /\ \/ \E v \in req[c].todo :
          /\ tar' = [tar EXCEPT ![req[c].name] = Without(@, v)]
          /\ req' = [req EXCEPT ![c].todo = @ \ {v}]
     \/ req[c].todo = {} /\ Goto(c, "save") /\ UNCHANGED tar
  /\ UNCHANGED <<kind, meta, count, raced>>

\* The document that the request writes.
Document(c) ==
  LET r == req[c] IN
  CASE r.op = "publish" -> Updated(r.seen, r)
    [] r.op = "unpublish" -> Unlisted(r.seen, r.ver)
    [] r.op = "deprecate" -> Deprecated(r.seen, r.ver)
    [] OTHER -> Absent

\* writeFile empties the file before it writes.
Tear(c) ==
  /\ req[c].pc = "save" /\ kind = "file" /\ IsDocument(Document(c))
  /\ meta' = [meta EXCEPT ![req[c].name] = Torn]
  /\ Goto(c, "write")
  /\ UNCHANGED <<kind, tar, count, raced>>

\* saveMetadata; removePackage when no version is left; the worker's put and delete.
Save(c) ==
  /\ \/ req[c].pc = "write"
     \/ req[c].pc = "save" /\ (kind = "worker" \/ ~IsDocument(Document(c)))
  /\ meta' = [meta EXCEPT ![req[c].name] = Document(c)]
  /\ tar' = IF kind = "file" /\ ~IsDocument(Document(c)) THEN [tar EXCEPT ![req[c].name] = <<>>] ELSE tar
  /\ Answer(c)
  /\ UNCHANGED <<kind, count, raced>>

\* All requests under way are cut off.
CutOff ==
  /\ req' = [c \in Slots |-> NoRequest]
  /\ raced' = raced \cup {req[c].name : c \in {d \in Slots : req[d].pc # "idle"}}
  /\ UNCHANGED <<kind, meta, tar, count>>

\* A request that reads an emptied document throws, which nothing catches: the
\* file server ends, and all that it was doing.
ReadsTorn(c) ==
  /\ req[c].pc = "read" /\ meta[req[c].name] = Torn
  /\ CutOff

\* The server is stopped and started.
ServerStops == (\E c \in Slots : req[c].pc # "idle") /\ CutOff

RegistryNext ==
  \/ \E c \in Slots :
       \/ \E p \in Publishes : AskPublish(c, p)
       \/ \E n \in Names, v \in Versions : AskUnpublish(c, n, v) \/ AskDeprecate(c, n, v)
       \/ \E n \in Names : AskDelete(c, n)
  \/ \E c \in Slots :
       \/ Read(c) \/ PutTarball(c) \/ RemoveTarball(c) \/ RemoveDirectory(c) \/ RemoveEach(c)
       \/ Tear(c) \/ Save(c) \/ ReadsTorn(c)
  \/ ServerStops

-----------------------------------------------------------------------------
(* What must hold *)

\* The versions that publishes of other versions name by a tag, listed or not.
Foreign(n, t) ==
  {p.tags[t] : p \in {q \in Publishes : q.name = n /\ t \in DOMAIN q.tags /\ q.tags[t] # q.ver}}

\* However requests interleave or are cut off, a document that can be read has a
\* latest version, and each of its tags names a version it lists, unless a publish of
\* another version asked for that tag: that is stored unchecked
\* (server.ts:375-416, 471-532; router.ts:261-308, 529-589).
TagsAreSound ==
  \A n \in Names : IsDocument(meta[n]) =>
    /\ "latest" \in DOMAIN meta[n].tags
    /\ \A t \in DOMAIN meta[n].tags : meta[n].tags[t] \in Listed(n) \cup Foreign(n, t)

\* While requests for a package come one after the other, and when none is under
\* way, its two stores agree: a tarball for each version, of the digest that the
\* document gives, and no other.
StoresAgree ==
  \A n \in Names \ raced :
    (\A c \in Slots : req[c].name # n) =>
      tar[n] = [v \in Listed(n) |-> meta[n].versions[v].digest]

\* One after the other, no requests change the bytes of a version that is listed
\* (server.ts:354-361; docs/specs/cli.md:668).
KeepsPublished ==
  \A n \in Names \ raced' : \A v \in Listed(n) \cap DOMAIN tar[n] \cap DOMAIN tar'[n] :
    tar'[n][v] = tar[n][v]

\* The worker does not check, and replaces it.  (Refuted by the worker.)
PublishedIsFinal == [][KeepsPublished]_registryVars

\* The file server answers 409.
FilePublishedIsFinal == [][kind = "file" => KeepsPublished]_registryVars

\* What a client can read of a package fits together, and of the file server's
\* versions it stays: over requests that interleave, a document read while it is
\* being written, and a server that ends between the two writes of a publish.
RegistryIsSound == [](TagsAreSound /\ StoresAgree) /\ FilePublishedIsFinal
=============================================================================

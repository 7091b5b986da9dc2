---------------------------- MODULE ArtifactStore ----------------------------
(***************************************************************************)
(* The local OCI stores of oci/skills and oci/plugins (store.go), written  *)
(* by Packager.Package and by Registry.Pull, read by Registry.Push         *)
(* (packager.go, registry.go).  The two packages are one code but for the  *)
(* mutex that plugins.Store holds while it tags and deletes.               *)
(*                                                                         *)
(* A build is an index over manifests, each over a config and the shared   *)
(* layer; only digests are kept.  oras-go is external: oci.Store keeps the *)
(* blobs, the digests it has seen as manifests and the tags, and CopyGraph *)
(* skips a node that its destination has, with everything below it.        *)
(***************************************************************************)
EXTENDS Naturals, Sequences, Functions

CONSTANTS Actor, Tag, World

VARIABLES world,       \* the store, builds, operations and digests this behaviour is about
          blobs,       \* the files under blobs/
          known,       \* the digests oci.Store resolves
          tags,        \* tag -> digest, or None
          remote,      \* the blobs of the registry
          remoteTags,  \* its tags
          mu,          \* the actor that holds plugins.Store.mu, or None
          ops,         \* what each actor is doing
          calls,       \* how many calls were made, up to the bound world.calls
          reclaimed    \* history: digests whose DeleteBuild went through to the end

vars == <<world, blobs, known, tags, remote, remoteTags, mu, ops, calls, reclaimed>>

None == "none"
Idle == [is |-> "idle", d |-> None, t |-> None, todo |-> <<>>]

Manifests(b) == {b.manifests[i] : i \in DOMAIN b.manifests}
Indexes == {b.index : b \in world.builds}
ManifestIds == {m.id : m \in UNION {Manifests(b) : b \in world.builds}}

\* What Tag and Push are called with: digests of indexes, of manifests, or of both.
Targets == world.targets

BuildOf(i) == CHOOSE b \in world.builds : b.index = i
ManifestOf(d) == CHOOSE m \in UNION {Manifests(b) : b \in world.builds} : m.id = d

\* What a node refers to, in order.
Successors(d) ==
  IF d \in Indexes THEN [i \in DOMAIN BuildOf(d).manifests |-> BuildOf(d).manifests[i].id]
  ELSE IF d \in ManifestIds THEN <<ManifestOf(d).config, ManifestOf(d).layer>>
  ELSE <<>>

\* The graph below d, d included.
Closure(d) ==
  LET below(S) == S \cup UNION {Range(Successors(x)) : x \in S} IN below(below({d}))

\* A digest is of one content, and a build packaged for each of its platforms once: the
\* packager does not check that, and an index that names a manifest twice cannot be deleted.
WellFormed(w) ==
  LET all == UNION {Manifests(b) : b \in w.builds} IN
  /\ w.packaged \subseteq w.builds
  /\ w.targets \subseteq {b.index : b \in w.builds} \cup {m.id : m \in all}
  /\ \A b \in w.builds :
       /\ b.manifests \in Seq(all) /\ Len(b.manifests) > 0
       /\ \A i, j \in DOMAIN b.manifests : b.manifests[i].id = b.manifests[j].id => i = j
       /\ \A c \in w.builds : b.index = c.index => b = c
       /\ \A m \in all : b.index \notin {None, m.id, m.config, m.layer}
  /\ \A m, n \in all : m.id \notin {None, n.config, n.layer} /\ (m.id = n.id => m = n)

ASSUME ActorAssumption == None \notin Actor
ASSUME WorldAssumption == \A w \in World : WellFormed(w)

Init ==
  /\ world \in World
  /\ blobs = UNION {Closure(b.index) : b \in world.packaged}
  /\ known = blobs \cap (Indexes \cup ManifestIds)
  /\ tags = [t \in Tag |-> None]
  /\ remote = {} /\ remoteTags = [t \in Tag |-> None]
  /\ mu = None
  /\ ops = [a \in Actor |-> Idle]
  /\ calls = 0
  /\ reclaimed = {}

-----------------------------------------------------------------------------
(* A call begins, runs a step at a time and returns. *)

Begins(a, op, d, t, todo) ==
  /\ ops[a] = Idle /\ op \in world.ops
  /\ calls < world.calls /\ calls' = calls + 1
  /\ ops' = [ops EXCEPT ![a] = [is |-> op, d |-> d, t |-> t, todo |-> todo]]

Advances(a, todo) == ops' = [ops EXCEPT ![a].todo = todo] /\ UNCHANGED calls

\* Store.mu of oci/plugins; oci/skills has none.
Locks(a) == IF world.mutex THEN mu = None /\ mu' = a ELSE UNCHANGED mu

Returns(a) == /\ ops' = [ops EXCEPT ![a] = Idle]
              /\ mu' = IF mu = a THEN None ELSE mu
              /\ UNCHANGED calls

\* Rows of w steps each, one after the other.
Joined(rows, w) == [k \in 1..(w * Len(rows)) |-> rows[((k - 1) \div w) + 1][((k - 1) % w) + 1]]

Step(a) == Head(ops[a].todo)
Rest(a) == Tail(ops[a].todo)
At(a, s) == ops[a].todo # <<>> /\ Step(a)[1] = s

\* inner.Push: a file that is there is left alone, and so is the index.
StorePush(d) ==
  /\ blobs' = blobs \cup {d}
  /\ known' = IF d \in (Indexes \cup ManifestIds) \ blobs THEN known \cup {d} ELSE known

-----------------------------------------------------------------------------
(* Package: the layer, then a config and a manifest for each platform, then *)
(* the index.                                                               *)

Package(a, b) ==
  /\ Begins(a, "package", None, None,
       <<<<"put", b.manifests[1].layer>>>>
         \o Joined([i \in DOMAIN b.manifests |->
              <<<<"put", b.manifests[i].config>>, <<"put", b.manifests[i].id>>>>], 2)
         \o <<<<"put", b.index>>>>)
  /\ UNCHANGED <<world, blobs, known, tags, remote, remoteTags, mu, reclaimed>>

Put(a) ==
  /\ At(a, "put")
  /\ StorePush(Step(a)[2])
  /\ IF Rest(a) = <<>> THEN Returns(a) ELSE Advances(a, Rest(a)) /\ UNCHANGED mu
  /\ UNCHANGED <<world, tags, remote, remoteTags, reclaimed>>

-----------------------------------------------------------------------------
(* Tag, DeleteTag, DeleteBuild. *)

TagUnlocked(a, d, t) ==
  /\ Begins(a, "tag", d, t, IF d \in known THEN <<<<"tag">>>> ELSE <<<<"fail">>>>)
  /\ UNCHANGED <<world, blobs, known, tags, remote, remoteTags, mu, reclaimed>>

TagDigest(a, d, t) ==
  /\ Begins(a, "tag", d, t, IF d \in known THEN <<<<"tag">>>> ELSE <<<<"fail">>>>)
  /\ Locks(a)
  /\ UNCHANGED <<world, blobs, known, tags, remote, remoteTags, reclaimed>>

\* inner.Tag, at the end of Tag and of oras.Copy: the tagged blob itself must exist.
SetTag(a) ==
  /\ At(a, "tag")
  /\ tags' = IF ops[a].d \in blobs THEN [tags EXCEPT ![ops[a].t] = ops[a].d] ELSE tags
  /\ Returns(a)
  /\ UNCHANGED <<world, blobs, known, remote, remoteTags, reclaimed>>

DeleteTag(a, t) ==
  /\ Begins(a, "untag", None, t, <<<<"untag">>>>)
  /\ Locks(a)
  /\ UNCHANGED <<world, blobs, known, tags, remote, remoteTags, reclaimed>>

DeleteBuild(a, t) ==
  /\ Begins(a, "delete", tags[t], t, IF tags[t] = None THEN <<<<"fail">>>> ELSE <<<<"untag">>>>)
  /\ Locks(a)
  /\ UNCHANGED <<world, blobs, known, tags, remote, remoteTags, reclaimed>>

Untag(a) ==
  /\ At(a, "untag")
  /\ tags' = [tags EXCEPT ![ops[a].t] = None]
  /\ IF ops[a].is = "delete" /\ tags[ops[a].t] # None
     THEN Advances(a, <<<<"list">>>>) /\ UNCHANGED mu
     ELSE Returns(a)
  /\ UNCHANGED <<world, blobs, known, remote, remoteTags, reclaimed>>

\* isDigestReferenced lists the tags, then resolves each of them.
ListTags(a) ==
  /\ At(a, "list")
  /\ Advances(a, <<<<"check", {t \in Tag : tags[t] # None}>>>>)
  /\ UNCHANGED <<world, blobs, known, tags, remote, remoteTags, mu, reclaimed>>

deleteManifestBlobs(m) ==
  <<<<"fetch", m.id>>, <<"remove", m.config>>, <<"remove", m.layer>>, <<"remove", m.id>>>>

\* What is left to do for an orphaned digest, an index or a plain manifest.
deleteOrphanedBlobs(d) ==
  IF d \in Indexes
  THEN Joined([i \in DOMAIN BuildOf(d).manifests |-> deleteManifestBlobs(BuildOf(d).manifests[i])], 4)
         \o <<<<"remove", d>>>>
  ELSE deleteManifestBlobs(ManifestOf(d))

isDigestReferenced(a) ==
  /\ At(a, "check")
  /\ IF (\E t \in Step(a)[2] : tags[t] = ops[a].d) \/ ops[a].d \notin blobs
     THEN Returns(a)
     ELSE Advances(a, deleteOrphanedBlobs(ops[a].d)) /\ UNCHANGED mu
  /\ UNCHANGED <<world, blobs, known, tags, remote, remoteTags, reclaimed>>

FetchManifest(a) ==
  /\ At(a, "fetch")
  /\ IF Step(a)[2] \in blobs THEN Advances(a, Rest(a)) /\ UNCHANGED mu ELSE Returns(a)
  /\ UNCHANGED <<world, blobs, known, tags, remote, remoteTags, reclaimed>>

\* A file that is gone already is no error.
deleteBlob(a) ==
  /\ At(a, "remove")
  /\ blobs' = blobs \ {Step(a)[2]}
  /\ IF Rest(a) = <<>>
     THEN Returns(a) /\ reclaimed' = reclaimed \cup {ops[a].d}
     ELSE Advances(a, Rest(a)) /\ UNCHANGED <<mu, reclaimed>>
  /\ UNCHANGED <<world, known, tags, remote, remoteTags>>

-----------------------------------------------------------------------------
(* Push and Pull: oras.CopyGraph copies what a node refers to before it, and *)
(* the tag is set last.                                                      *)

PushTagsFirst(a, d, t) ==
  /\ Begins(a, "push", d, t, IF d \in known THEN <<<<"tagRemote">>, <<"visit", d>>>> ELSE <<<<"fail">>>>)
  /\ UNCHANGED <<world, blobs, known, tags, remote, remoteTags, mu, reclaimed>>

Push(a, d, t) ==
  /\ Begins(a, "push", d, t, IF d \in known THEN <<<<"visit", d>>, <<"tagRemote">>>> ELSE <<<<"fail">>>>)
  /\ UNCHANGED <<world, blobs, known, tags, remote, remoteTags, mu, reclaimed>>

\* The full reference is the local tag.
Pull(a, t) ==
  /\ Begins(a, "pull", remoteTags[t], t,
       IF remoteTags[t] = None THEN <<<<"fail">>>> ELSE <<<<"visit", remoteTags[t]>>, <<"tag">>>>)
  /\ UNCHANGED <<world, blobs, known, tags, remote, remoteTags, mu, reclaimed>>

\* CopyGraph reaches a node: its destination has it, its source lost it, or it and what
\* it refers to are to be copied.
Visit(a) ==
  LET d == Step(a)[2]
      pushes == ops[a].is = "push" IN
  /\ At(a, "visit")
  /\ IF d \in (IF pushes THEN remote ELSE blobs) THEN Advances(a, Rest(a)) /\ UNCHANGED mu
     ELSE IF d \notin (IF pushes THEN blobs ELSE remote) THEN Returns(a)
     ELSE /\ Advances(a, [i \in DOMAIN Successors(d) |-> <<"visit", Successors(d)[i]>>]
                           \o <<<<"copy", d>>>> \o Rest(a))
          /\ UNCHANGED mu
  /\ UNCHANGED <<world, blobs, known, tags, remote, remoteTags, reclaimed>>

Copy(a) ==
  /\ At(a, "copy")
  /\ Advances(a, Rest(a))
  /\ IF ops[a].is = "push"
     THEN remote' = remote \cup {Step(a)[2]} /\ UNCHANGED <<blobs, known>>
     ELSE StorePush(Step(a)[2]) /\ UNCHANGED remote
  /\ UNCHANGED <<world, tags, remoteTags, mu, reclaimed>>

TagRemote(a) ==
  /\ At(a, "tagRemote")
  /\ remoteTags' = [remoteTags EXCEPT ![ops[a].t] = ops[a].d]
  /\ IF Rest(a) = <<>> THEN Returns(a) ELSE Advances(a, Rest(a)) /\ UNCHANGED mu
  /\ UNCHANGED <<world, blobs, known, tags, remote, reclaimed>>

\* A call that an I/O error, a refused blob (ValidatingTarget.Push), a cancelled context
\* or the end of the process cuts short; what it did stays.
Fails(a) ==
  /\ ops[a] # Idle /\ (At(a, "fail") \/ world.faults)
  /\ Returns(a)
  /\ UNCHANGED <<world, blobs, known, tags, remote, remoteTags, reclaimed>>

-----------------------------------------------------------------------------

Call(a) ==
  \/ \E b \in world.builds : Package(a, b)
  \/ \E d \in Targets, t \in Tag : TagDigest(a, d, t) \/ Push(a, d, t)
  \/ \E t \in Tag : DeleteTag(a, t) \/ DeleteBuild(a, t) \/ Pull(a, t)

Next == \E a \in Actor :
  \/ Call(a)
  \/ Put(a) \/ SetTag(a) \/ Untag(a) \/ ListTags(a) \/ isDigestReferenced(a)
  \/ FetchManifest(a) \/ deleteBlob(a) \/ Visit(a) \/ Copy(a) \/ TagRemote(a) \/ Fails(a)

Spec == Init /\ [][Next]_vars

-----------------------------------------------------------------------------

\* Two digests that are tagged or pushed, and have a blob in common.
Shared == \E d, e \in Targets : d # e /\ Closure(d) \cap Closure(e) # {}

(* What a tag of the registry names is there to the last blob, whatever      *)
(* happens to the local store during the push (registry.go, Push): pushes    *)
(* race deletions, fail half way and run side by side.                       *)
RemoteIsComplete ==
  \A t \in Tag : remoteTags[t] # None => Closure(remoteTags[t]) \subseteq remote

\* Whether every tag of the local store names a build that is all there.
TagsAreComplete == \A t \in Tag : tags[t] # None => Closure(tags[t]) \subseteq blobs

(* DeleteBuild takes what its tag names, an index or a plain manifest, with  *)
(* all below it, and nothing else.  The promise of plugins.Store.mu: among   *)
(* Tag, DeleteTag, DeleteBuild and Push of digests that share no blob, no    *)
(* deletion takes one away from a tag.  (Of digests that do share, it does:  *)
(* isDigestReferenced looks for the digest itself and not for a tag of a     *)
(* manifest below it, or of another index over it.)  And a deletion that got *)
(* to its end left nothing behind, with or without the mutex, even when      *)
(* others delete the same build or a part of it meanwhile (store.go,         *)
(* deleteOrphanedBlobs).                                                     *)
DeletionIsExact ==
  world.ops \cap {"package", "pull"} = {} =>
    /\ (world.mutex /\ ~world.faults /\ ~Shared) => TagsAreComplete
    /\ \A d \in reclaimed : Closure(d) \cap blobs = {}

(* Tags stay complete with Pull, too, which tags through Store.Target and so *)
(* without mu: the code does not keep it.                                    *)
PulledIsComplete ==
  (world.mutex /\ ~world.faults /\ ~Shared /\ "package" \notin world.ops) => TagsAreComplete

=============================================================================

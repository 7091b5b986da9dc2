----------------------------- MODULE MCArtifacts -----------------------------
(***************************************************************************)
(* Artifacts for TLC: the local stores, concurrent signers, and calls of   *)
(* the functions of Verification and Packaging over small sets of inputs.  *)
(* `part' says which of the three a behaviour runs; the others keep still. *)
(***************************************************************************)
EXTENDS ArtifactStore, SignedArtifact, Verifier, TLC

CONSTANTS MaxFiles, MaxTotalSize, MaxManifestSize, MaxDecompressedSize, TarHeader, PathOrder,
          HiddenName, DoubledName

VARIABLE part

storeVars == <<world, blobs, known, tags, remote, remoteTags, mu, ops, calls, reclaimed>>
signVars == <<opts, pc, made, base, result, worker, outcome, cancelled, sig, attached, foreign>>
all == <<part, storeVars, signVars, call, answer>>

K == INSTANCE Packaging

-----------------------------------------------------------------------------
(* Stores: builds A and AB of one directory for one and for two platforms. *)

A == [index |-> "iA", manifests |-> <<[id |-> "mA", config |-> "cA", layer |-> "lA"]>>]
AB == [index |-> "iAB", manifests |-> <<[id |-> "mA", config |-> "cA", layer |-> "lA"],
                                        [id |-> "mB", config |-> "cB", layer |-> "lA"]>>]

Worlds(builds, packaged, targets, names, faults, n) ==
  {[mutex |-> m, builds |-> builds, packaged |-> packaged, targets |-> targets, ops |-> names,
    faults |-> faults, calls |-> n] : m \in BOOLEAN}

\* Tags of the indexes, of a manifest alone, and of an index and its manifest.
MCWorld ==
  Worlds({A, AB}, {}, {"iA", "iAB"}, {"package", "tag", "delete", "push"}, TRUE, 3)
  \cup UNION {Worlds({A}, {A}, d, {"tag", "untag", "delete", "push"}, FALSE, 5) : d \in {{"iA"}, {"mA"}}}
  \cup Worlds({A}, {A}, {"iA", "mA"}, {"tag", "delete", "push"}, FALSE, 4)
  \cup Worlds({A}, {A}, {"iA"}, {"tag", "delete", "push", "pull"}, FALSE, 4)

(* Signers: two keys, an identity, and what each check of Options refuses. *)

Key == [regular |-> TRUE, cosign |-> TRUE, sealed |-> "cosign", opens |-> TRUE, signs |-> TRUE]
Option(key, token) == [key |-> key, token |-> token, file |-> Key, secureURLs |-> TRUE,
                       publicGood |-> TRUE, parses |-> TRUE]
ByKey == Option("k1", "")
ByIdentity == Option("", "id1")
Variants ==
  {Option("k2", ""), Option("k1", "id1"), Option("", ""),
   [ByKey EXCEPT !.file.opens = FALSE], [ByKey EXCEPT !.file.sealed = "standard"],
   [ByKey EXCEPT !.file.cosign = FALSE, !.file.sealed = "no"], [ByKey EXCEPT !.file.regular = FALSE],
   [ByIdentity EXCEPT !.secureURLs = FALSE], [ByIdentity EXCEPT !.publicGood = FALSE],
   [ByIdentity EXCEPT !.parses = FALSE]}
MCOpts == [Signer -> {ByKey, ByIdentity}]
          \cup {[s \in Signer |-> IF s = "s1" THEN o ELSE ByKey] : o \in Variants}
MCForeign == {{}, {[by |-> "id1", how |-> "keyless", trusted |-> FALSE, n |-> "other"]}}

-----------------------------------------------------------------------------
(* Calls.  Certificates of GitHub workflows, of a pipeline elsewhere that    *)
(* also names its repository, of a workflow that another repository reuses,  *)
(* and of a person.                                                          *)

Cert(san, issuer, repo) == [is |-> "cert", san |-> san, issuer |-> issuer, repo |-> repo,
                            ref |-> "main", runner |-> "hosted"]
Workflows ==
  {Cert(<<repo, path>> \o more \o <<"@", ref>>, "github", <<repo>>) :
     repo \in {"repo1", "repo2"}, path \in {"/wf"}, more \in {<<>>, <<"2">>}, ref \in {"ref1", "ref2"}}
Persons == {Cert(<<"user", "@", "host">>, "google", <<>>)}
OtherCI == {Cert(<<"repo1", "/ci", "@", "ref1">>, "gitlab", <<"repo1">>)}
Reused == {Cert(<<"repo2", "/wf", "@", "ref1">>, "github", <<"repo1">>)}
Unusable == {Cert(<<>>, "github", <<"repo1">>), Cert(<<"repo1", "/wf">>, "github", <<>>)}
Certs == Workflows \cup Persons \cup OtherCI \cup Reused \cup Unusable

Layer == [media |-> "simplesigning", cert |-> "none", bundle |-> "none", signature |-> "ok",
          algorithm |-> "sha256", accepted |-> TRUE]
Layers == {[Layer EXCEPT !.cert = c, !.bundle = b, !.signature = s] :
             c \in {"none", "broken", "cert1"}, b \in {"none", "broken", "promise"},
             s \in {"none", "broken", "ok"}}
          \cup {[Layer EXCEPT !.media = "other"], [Layer EXCEPT !.algorithm = "sha512"],
                [Layer EXCEPT !.accepted = FALSE]}
Referrers == [type : {"bundle", "empty", "", "other"}, fetched : BOOLEAN,
              config : {"bundle", "other"}, layer : {"bundle", "other"}, parses : BOOLEAN]
Image(layers, referrers) == [exists |-> TRUE, readable |-> TRUE, layers |-> layers,
                             stays |-> TRUE, listed |-> TRUE, referrers |-> referrers]
Images == {Image(<<l>>, <<r>>) : l \in Layers, r \in Referrers}
          \cup {Image(<<l, Layer>>, <<>>) : l \in Layers}
          \cup {[Image(<<l>>, <<r>>) EXCEPT !.exists = e, !.readable = x, !.stays = s, !.listed = y] :
                  e \in BOOLEAN, x \in BOOLEAN, s \in BOOLEAN, y \in BOOLEAN,
                  l \in {Layer, [Layer EXCEPT !.media = "other"]}, r \in Referrers}

NoPredicate == [shape |-> "none", fields |-> "none"]
Unset == [repo |-> <<>>, ref |-> "", runner |-> "", issuer |-> "", signer |-> <<>>,
          attestation |-> [is |-> "none", type |-> "", predicate |-> NoPredicate]]
Asks(type, predicate) == [is |-> "asked", type |-> type, predicate |-> predicate]
Provenances ==
  {[Unset EXCEPT !.repo = r, !.issuer = i, !.signer = s] :
     r \in {<<>>, <<"repo1">>}, i \in {"", "github"}, s \in {<<>>, <<"/wf">>}}
  \cup {[Unset EXCEPT !.ref = "dev"], [Unset EXCEPT !.runner = "own"]}
  \cup {[Unset EXCEPT !.attestation = Asks(t, p)] : t \in {"", "slsa"},
          p \in {NoPredicate, [shape |-> "object", fields |-> "f1"], [shape |-> "list", fields |-> "f1"]}}
Statements == {[is |-> "none", type |-> "", fields |-> "none"]}
              \cup {[is |-> "statement", type |-> t, fields |-> f] : t \in {"slsa", "vuln"}, f \in {"none", "f1", "f2"}}
Results == {[cert |-> c, statement |-> s] :
              c \in Reused \cup Persons \cup Unusable \cup {V!NoCertificate}
                    \cup {Cert(<<"repo1", "/wf", "@", "ref1">>, "github", <<"repo1">>)}, s \in Statements}

\* No image, no bundles, one, or one beside another that does not verify.
Founds == {V!Bad("image"), V!Bad("not found")}
          \cup {[is |-> "bundles", of |-> {[genuine |-> g, result |-> r]}] : g \in BOOLEAN, r \in Results}
          \cup {[is |-> "bundles", of |-> {[genuine |-> TRUE, result |-> r], [genuine |-> FALSE, result |-> q]}] :
                  r \in {x \in Results : x.statement.is = "none"}, q \in Results}

\* Directories: the required file, and up to two more entries of every kind.
Entry(path, kind) == [path |-> path, kind |-> kind, size |-> 1, mode |-> 493, body |-> <<"body of", path>>]
MCPathOrder == << <<".claude-plugin">>, <<".claude-plugin", "plugin.json">>, <<".claude-plugin", "x">>,
                  <<".git">>, <<".git", "x">>, <<".mcp.json">>, <<"SKILL.md">>, <<"a">>, <<"a", ".x">>,
                  <<"a", "b">>, <<"c">> >>
MCHiddenName == {".claude-plugin", ".git", ".mcp.json", ".x"}
\* What is left beside a package of the largest size and its headers, and more than that.
MainSizes == {1, MaxManifestSize, MaxManifestSize + 1, MaxDecompressedSize}
Trees == {<<>>,
          <<Entry(<<".git">>, "dir"), Entry(<<".git", "x">>, "file")>>,
          <<Entry(<<".claude-plugin">>, "dir"), Entry(<<".claude-plugin", "x">>, "file")>>,
          <<Entry(<<".mcp.json">>, "file"), Entry(<<"c">>, "file")>>,
          <<Entry(<<"a">>, "dir"), Entry(<<"a", ".x">>, "file"), Entry(<<"a", "b">>, "file"), Entry(<<"c">>, "file")>>,
          <<Entry(<<"a">>, "file"), Entry(<<"c">>, "symlink")>>,
          <<Entry(<<".git">>, "symlink"), Entry(<<"a">>, "file")>>,
          <<Entry(<<"a">>, "pipe")>>,
          <<[Entry(<<"a">>, "file") EXCEPT !.size = MaxTotalSize], Entry(<<"c">>, "file")>>,
          <<[Entry(<<"a">>, "file") EXCEPT !.size = MaxTotalSize - 1], Entry(<<"c">>, "file")>>,
          <<Entry(<<".mcp.json">>, "file"), Entry(<<"a">>, "file"), Entry(<<"c">>, "file")>>}
InOrder(tree) == SelectSeq(MCPathOrder, LAMBDA p : \E i \in DOMAIN tree : tree[i].path = p)
Ordered(tree) == [i \in DOMAIN InOrder(tree) |->
                   tree[CHOOSE j \in DOMAIN tree : tree[j].path = InOrder(tree)[i]]]
Doc == [opens |-> TRUE, closes |-> TRUE, big |-> FALSE, parses |-> TRUE, metadata |-> [name |-> "n"]]
Docs == {Doc, [Doc EXCEPT !.opens = FALSE], [Doc EXCEPT !.closes = FALSE], [Doc EXCEPT !.big = TRUE],
         [Doc EXCEPT !.parses = FALSE], [Doc EXCEPT !.metadata.name = ""]}
Dir(doc, entries) == [exists |-> TRUE, absolute |-> TRUE, dots |-> FALSE, doc |-> doc, entries |-> entries]
Dirs(main) ==
  {Dir(Doc, Ordered(Append(t, [Entry(main, "file") EXCEPT !.size = n]))) : t \in Trees, n \in MainSizes}
  \cup {[Dir(d, e) EXCEPT !.exists = x, !.absolute = y, !.dots = z] :
          x \in BOOLEAN, y \in BOOLEAN, z \in BOOLEAN, d \in Docs,
          e \in {<<>>, <<Entry(main, "symlink")>>, <<Entry(main, "file")>>}}
MapOrders == {<<>>, <<1>>, <<1, 2>>, <<2, 1>>}
PackageOpts == [epoch : {K!ZeroTime, 7}, platforms : {<<>>, <<"linux/amd64">>}]

MCDoubledName == {"..\\\\a"}
Segments == UNION {[1..n -> {"..", ".", "", "a", "..\\a", "..\\\\a"}] : n \in 0..4}

MCVerifierCalls ==
  {[op |-> "attach", pb |-> [cert |-> c, tlog |-> t]] :
     c \in {"none", "broken", "cert1"}, t \in {"none", "promise", "proof", "both"}}
  \cup {[op |-> "retrieve", image |-> i] : i \in Images}
  \cup {[op |-> "identity", recorded |-> c, later |-> d] : c \in Certs, d \in Certs}
  \cup {[op |-> "server", found |-> f, provenance |-> p] : f \in Founds, p \in Provenances}
  \cup {[op |-> "roots", url |-> u] : u \in {"", "public good", "github instance", "another"}}

Calls ==
  VerifierCalls
  \cup {[op |-> "skill", dir |-> d, order |-> o, opts |-> x] :
          d \in Dirs(K!SkillFileName), o \in MapOrders, x \in PackageOpts}
  \cup {[op |-> "plugin", dir |-> d, order |-> o, opts |-> x] :
          d \in Dirs(K!ManifestFileName), o \in MapOrders, x \in PackageOpts}
  \cup {[op |-> "path", path |-> [rooted |-> r, segments |-> s]] : r \in BOOLEAN, s \in Segments}
  \cup {[op |-> "platform", parts |-> p] :
          p \in UNION {[1..n -> [text : {"", "x", "y"}, spaces : BOOLEAN]] : n \in 0..4}}
  \cup {[op |-> "push", desc |-> [media |-> m, size |-> n, digest |-> "d"],
         content |-> [size |-> k, digest |-> g, parses |-> p, count |-> c]] :
          m \in {"manifest", "index", "docker", "layer"}, n \in -1..5, k \in 0..5, g \in {"d", "e"},
          p \in BOOLEAN, c \in 0..3}

\* A map has as many orders as the directory has files to collect.
Fits(c) ==
  /\ c.op = "skill" => Len(c.order) = Len(K!WalkDir(c.dir.entries, "skill").files)
  /\ c.op = "plugin" => Len(c.order) = Len(K!WalkDir(c.dir.entries, "plugin").files)

Outcome(c) ==
  CASE c.op \in VerifierOps -> Verdict(c)
    [] c.op = "skill" -> K!PackageSkill(c.dir, c.order, c.opts)
    [] c.op = "plugin" -> K!PackagePlugin(c.dir, c.order, c.opts)
    [] c.op = "path" -> K!validateTarPath(c.path)
    [] c.op = "platform" -> K!ParsePlatform(c.parts)
    [] c.op = "push" -> K!ValidatedPush(c.desc, c.content)

NoCall == [op |-> "none"]

-----------------------------------------------------------------------------

StoreIdle == Init /\ world = [mutex |-> TRUE, builds |-> {A}, packaged |-> {A}, targets |-> {"iA"},
                              ops |-> {"tag", "untag", "delete", "push"}, faults |-> FALSE, calls |-> 5]
SignersIdle == S!Init /\ opts["s1"] = Option("", "") /\ foreign = {}

MCInit ==
  \/ part = "store" /\ Init /\ SignersIdle /\ call = NoCall /\ answer = <<>>
  \/ part = "signers" /\ StoreIdle /\ S!Init /\ call = NoCall /\ answer = <<>>
  \/ part = "calls" /\ StoreIdle /\ SignersIdle /\ call \in {c \in Calls : Fits(c)} /\ answer = <<>>

Answer == call # NoCall /\ answer = <<>> /\ answer' = <<Outcome(call)>> /\ UNCHANGED call

SignerStep(s) == part = "signers" /\ S!SignerStep(s) /\ UNCHANGED <<part, storeVars, call, answer>>

MCNext ==
  \/ part = "store" /\ Next /\ UNCHANGED <<part, signVars, call, answer>>
  \/ part = "signers" /\ S!Next /\ UNCHANGED <<part, storeVars, call, answer>>
  \/ part = "calls" /\ Answer /\ UNCHANGED <<part, storeVars, signVars>>

MCSpec == MCInit /\ [][MCNext]_all /\ \A s \in Signer : WF_all(SignerStep(s))

-----------------------------------------------------------------------------

(* An identity that could be recorded admits the certificate it was recorded *)
(* from: the code does not keep it for certificates that name a repository   *)
(* and are not of a workflow in it.                                          *)
RecordedIdentityVerifies ==
  (Answered("identity") /\ call.recorded = call.later) => answer[1] \in {"ok", "unusable"}

Packaged == (call.op \in {"skill", "plugin"}) /\ answer # <<>> /\ answer[1].is = "artifact"

\* In the code 95 MB, the headers of 1001 files and 64 kB, against 100 MB.
ASSUME LimitsAssumption ==
  MaxTotalSize + (MaxFiles + 1) * TarHeader + MaxManifestSize <= MaxDecompressedSize

(* A package is a function of its directory and options, whatever order Go   *)
(* iterates its maps in, and says the truth about itself: the layer holds    *)
(* every visible file and nothing hidden but a plugin's manifest and         *)
(* .mcp.json; the files label lists what extraction yields; and config,      *)
(* manifest, tar and gzip header carry one timestamp, but for a skill        *)
(* without an epoch.  What could be packaged can be extracted, headers       *)
(* included, as maxPluginTotalSize is there for; a skill only as long as its *)
(* SKILL.md, which the limits leave out, fits in what they leave beside the  *)
(* largest package (packager.go, tar.go, gzip.go).                           *)
PackageIsExact ==
  Packaged =>
    LET artifact == answer[1]
        tar == artifact.layer.tar
        files == K!DecompressTar(artifact.layer)
        visible(p) == \A i \in DOMAIN p : p[i] \notin HiddenName
        allowed == IF call.op = "plugin" THEN {K!ManifestFileName, <<".mcp.json">>} ELSE {}
        main == IF call.op = "plugin" THEN K!ManifestFileName ELSE K!SkillFileName
        left == MaxDecompressedSize - MaxTotalSize - (MaxFiles + 1) * TarHeader
    IN /\ artifact = Outcome([call EXCEPT !.order = [i \in DOMAIN call.order |-> i]])
       /\ {e.path : e \in Range(tar)} =
            {f.path : f \in {e \in Range(call.dir.entries) :
                               e.kind = "file" /\ (visible(e.path) \/ e.path \in allowed)}}
       /\ \/ files.is = "files"
          \/ call.op = "skill" /\ \E e \in Range(call.dir.entries) : e.path = main /\ e.size > left
       /\ \A m \in Range(artifact.index.manifests) :
            /\ files.is = "files" =>
                 m.config.labels.files = [i \in DOMAIN files.of |-> files.of[i].path]
            /\ (call.op = "plugin" \/ call.opts.epoch # K!ZeroTime) =>
                 {m.created, m.config.created} \cup {e.time : e \in Range(m.layer.tar)} \subseteq {m.layer.gzip}

(* What is taken in from outside is what it claims to be.  Extraction        *)
(* refuses exactly the paths that start outside the archive's root, leave it *)
(* on the way by their slashes, or double a backslash; a single backslash is *)
(* a character like any other (tar.go, validateTarPath).  The string of a    *)
(* platform that parses is the one it was parsed from but for the white      *)
(* space around its parts, and parses to the same platform (platform.go).    *)
(* A blob reaches the store only when its content has the descriptor's       *)
(* digest and is within the limits of its kind by its real size, whatever    *)
(* the descriptor claims (validate.go).                                      *)
TakenInIsGenuine ==
  /\ Answered("path") =>
       LET depth[n \in 0..Len(call.path.segments)] ==
             IF n = 0 THEN 0
             ELSE depth[n - 1] + CASE call.path.segments[n] = ".." -> -1
                                   [] call.path.segments[n] \in {"", "."} -> 0
                                   [] OTHER -> 1
           leaves == \E n \in DOMAIN depth : depth[n] < 0
           doubled == \E n \in DOMAIN call.path.segments : call.path.segments[n] \in DoubledName
       IN (answer[1].is = "path") <=> (~call.path.rooted /\ ~doubled /\ ~leaves)
  /\ (Answered("platform") /\ answer[1].is = "platform") =>
       LET string == K!PlatformString(answer[1]) IN
       /\ string = [i \in DOMAIN call.parts |-> [call.parts[i] EXCEPT !.spaces = FALSE]]
       /\ K!ParsePlatform(string) = answer[1]
  /\ (Answered("push") /\ answer[1] = "ok") =>
       /\ call.content.digest = call.desc.digest
       /\ call.content.size <= (IF call.desc.media = "layer" THEN 4 ELSE 2)
       /\ (call.desc.media = "index") => call.content.count <= 1

=============================================================================

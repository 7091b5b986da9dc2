----------------------------- MODULE Verification -----------------------------
(***************************************************************************)
(* container/verifier, with what container/signer writes: how a signature  *)
(* layer is written and read back, where bundles are looked for, and what  *)
(* a certificate identity is matched against.  A name is a sequence of     *)
(* tokens, so that a prefix of it, or its part before "@", is a prefix of  *)
(* the sequence.                                                           *)
(***************************************************************************)
EXTENDS Naturals, Sequences, Functions, Checks

Bad(why) == [is |-> "error", why |-> why]

(***************************************************************************)
(* The data.  A certificate's name and repository are sequences of tokens. *)
(* An annotation of a layer is absent ("none"), does not decode ("broken") *)
(* or holds something, and a layer is "accepted" when bundle.NewBundle      *)
(* takes what was read of it; a referrer's descriptor has the type of a    *)
(* bundle, one that does not tell ("empty", or none at all), or another.   *)
(* An image is looked up once for its signature manifest and once for its  *)
(* referrers ("exists", "stays"); either list may not be readable, and     *)
(* where there is no signature manifest, that is not readable.             *)
(***************************************************************************)

Bundle == [cert : STRING, tlog : {"none", "promise", "proof", "both"}]
SignatureLayer == [media : STRING, cert : STRING, bundle : {"none", "broken", "promise"},
                   signature : {"none", "broken", "ok"}, algorithm : STRING, accepted : BOOLEAN]
Referrer == [type : {"bundle", "empty", "", "other"}, fetched : BOOLEAN, config : STRING,
             layer : STRING, parses : BOOLEAN]
Image == [exists : BOOLEAN, readable : BOOLEAN, layers : Seq(SignatureLayer),
          stays : BOOLEAN, listed : BOOLEAN, referrers : Seq(Referrer)]

Certificate == [is : {"cert"}, san : Seq(STRING), issuer : STRING, repo : Seq(STRING),
                ref : STRING, runner : STRING]
NoCertificate == [is |-> "none"]
Statement == [is : {"none", "statement"}, type : STRING, fields : STRING]
VerificationResult == [cert : Certificate \cup {NoCertificate}, statement : Statement]
Found == [is : {"error"}, why : STRING]
         \cup [is : {"bundles"}, of : SUBSET [genuine : BOOLEAN, result : VerificationResult]]
Provenance == [repo : Seq(STRING), ref : STRING, runner : STRING, issuer : STRING, signer : Seq(STRING),
               attestation : [is : {"none", "asked"}, type : STRING,
                              predicate : [shape : STRING, fields : STRING]]]

(***************************************************************************)
(* Writing and reading a layer (cosign_attach.go, sigstore.go).  A bundle  *)
(* has a certificate ("none", "broken", or one) and a log entry: "none",   *)
(* or one with an inclusion promise (the signed entry timestamp), with an  *)
(* inclusion proof, or with both, as Rekor v1 gives them.                  *)
(***************************************************************************)

certMaterialFromBundle(pb) ==
  CASE pb.cert = "none" -> [is |-> "key"]
    [] pb.cert = "broken" -> Bad("certificate")
    [] OTHER -> [is |-> "cert", cert |-> pb.cert, tlog |-> pb.tlog]

\* The certificate alone.
WithoutLogEntry(material) ==
  CASE material.is = "error" -> material
    [] material.is = "key" -> [is |-> "layer", signature |-> "ok", cert |-> "none", bundle |-> "none"]
    [] OTHER -> IF material.tlog = "proof" THEN Bad("no inclusion promise")
                ELSE [is |-> "layer", signature |-> "ok", cert |-> material.cert, bundle |-> "none"]

\* The signature always; the certificate and the log entry when there are any.  The
\* annotation for the log entry holds the promise of one and has no place for its proof.
signatureAnnotations(material) ==
  CASE material.is = "error" -> material
    [] material.is = "key" -> [is |-> "layer", signature |-> "ok", cert |-> "none", bundle |-> "none"]
    [] OTHER -> IF material.tlog = "proof" THEN Bad("no inclusion promise")
                ELSE [is |-> "layer", signature |-> "ok", cert |-> material.cert,
                      bundle |-> IF material.tlog = "none" THEN "none" ELSE "promise"]

\* A layer is key-signed when it has no certificate annotation at all; a certificate that
\* does not decode stays an error.  The log entry is rebuilt from its promise, with no proof.
getBundleVerificationMaterial(layer) ==
  CASE layer.cert = "none" -> IF layer.signature = "none" THEN Bad("neither") ELSE [is |-> "key"]
    [] layer.cert = "broken" -> Bad("certificate")
    [] OTHER -> IF layer.bundle = "broken" THEN Bad("tlog")
                ELSE [is |-> "cert", cert |-> layer.cert, tlog |-> layer.bundle]

getBundleMsgSignature(layer) ==
  FirstOf(<< <<layer.algorithm # "sha256", Bad("algorithm")>>,
             <<layer.signature = "broken", Bad("signature")>> >>, [is |-> "signature"])

\* The bundles of a signature image: the layers that make one, the others skipped.  An
\* unknown image is an error; a signature manifest that cannot be fetched or parsed, or has
\* no bundle in it, is "not found".
bundleFromSigstoreSignedImage(image) ==
  LET simple == {l \in Range(image.layers) : l.media = "simplesigning"}
      good == {l \in simple : /\ getBundleVerificationMaterial(l).is # "error"
                              /\ getBundleMsgSignature(l).is # "error"
                              /\ l.accepted}
  IN FirstOf(<< <<~image.exists, Bad("image")>>,
                <<~image.readable \/ good = {}, Bad("not found")>> >>, [is |-> "bundles", of |-> good])

\* A referrer is a bundle by its descriptor's type or, when that is ambiguous, by its own
\* manifest.
isSigstoreBundle(r) == r.config = "bundle" \/ r.layer = "bundle"

\* The same of the referrers, when the image is still there and they can be listed.
bundleFromAttestation(image) ==
  LET good == {r \in Range(image.referrers) :
                 /\ r.type \in {"bundle", "empty", ""}
                 /\ r.fetched
                 /\ r.type = "bundle" \/ isSigstoreBundle(r)
                 /\ r.parses}
  IN FirstOf(<< <<~image.stays, Bad("image")>>,
                <<~image.listed \/ good = {}, Bad("not found")>> >>, [is |-> "bundles", of |-> good])

getSigstoreBundles(image) ==
  LET signed == bundleFromSigstoreSignedImage(image) IN
  IF signed = Bad("not found") THEN bundleFromAttestation(image) ELSE signed

(***************************************************************************)
(* Matching a verified bundle against a server's provenance (verifier.go). *)
(* "" is a field that is not set.                                          *)
(***************************************************************************)

GitHub == "github"

\* strings.Cut at "@", strings.HasPrefix and strings.TrimPrefix, on tokens.
BeforeAt(san) ==
  LET at == {i \in DOMAIN san : san[i] = "@"}
  IN IF at = {} THEN san ELSE SubSeq(san, 1, (CHOOSE i \in at : \A j \in at : i <= j) - 1)

HasPrefix(name, prefix) == Len(prefix) <= Len(name) /\ SubSeq(name, 1, Len(prefix)) = prefix
TrimPrefix(name, prefix) ==
  IF HasPrefix(name, prefix) THEN SubSeq(name, Len(prefix) + 1, Len(name)) ELSE name

\* Verbatim unless GitHub Actions issued it; then the path of the workflow in its
\* repository, without its ref.
signerIdentityFromCertificate(c) ==
  FirstOf(<< <<c.san = <<>>, Bad("no SAN")>>,
             <<c.issuer # GitHub, [is |-> "identity", of |-> c.san]>>,
             <<c.repo = <<>>, Bad("no repository")>> >>,
          [is |-> "identity", of |-> TrimPrefix(BeforeAt(c.san), c.repo)])

\* An identity that could not be extracted compares as the empty one.
compareBaseProperties(c, p) ==
  LET signer == signerIdentityFromCertificate(c)
      identity == IF signer.is = "error" THEN <<>> ELSE signer.of
  IN /\ p.repo = <<>> \/ p.repo = c.repo
     /\ p.ref = "" \/ p.ref = c.ref
     /\ p.runner = "" \/ p.runner = c.runner
     /\ p.issuer = "" \/ p.issuer = c.issuer
     /\ p.signer = <<>> \/ p.signer = identity

\* Predicates compare by value, whichever way the expected one was decoded; one that is
\* not an object matches nothing.
normalizeAttestationPredicate(predicate) ==
  IF predicate.shape = "object" THEN [is |-> "object", fields |-> predicate.fields] ELSE Bad("shape")

\* An attestation that is asked for and missing passes.
AttestationIfAny(r, p) ==
  \/ p.attestation.is = "none"
  \/ r.statement.is = "none"
  \/ /\ p.attestation.type \in {"", r.statement.type}
     /\ \/ p.attestation.predicate.shape = "none"
        \/ normalizeAttestationPredicate(p.attestation.predicate) =
             [is |-> "object", fields |-> r.statement.fields]

compareAttestation(r, p) ==
  \/ p.attestation.is = "none"
  \/ /\ r.statement.is # "none"
     /\ p.attestation.type \in {"", r.statement.type}
     /\ \/ p.attestation.predicate.shape = "none"
        \/ /\ r.statement.fields # "none"
           /\ normalizeAttestationPredicate(p.attestation.predicate) =
                [is |-> "object", fields |-> r.statement.fields]

\* A result without a certificate (a key-signed bundle) matches nothing.
isVerificationResultMatchingServerProvenance(r, p) ==
  r.cert.is # "none" /\ compareBaseProperties(r.cert, p) /\ compareAttestation(r, p)

\* found: what getSigstoreBundles answered, a bundle as what the verification of it gives.
\* A bundle that does not verify is skipped, and an image without bundles has no results.
getVerifiedResults(bundles) == {b.result : b \in {c \in bundles : c.genuine}}

GetVerificationResults(found) ==
  IF found.is = "bundles" THEN [is |-> "results", of |-> getVerifiedResults(found.of)]
  ELSE IF found = Bad("not found") THEN [is |-> "results", of |-> {}]
  ELSE found

VerifyServer(found, p) ==
  LET results == GetVerificationResults(found) IN
  IF results.is = "error" THEN "failed"
  ELSE FirstOf(<< <<results.of = {}, "not signed">>,
                  <<\E r \in results.of : isVerificationResultMatchingServerProvenance(r, p),
                    "verified">> >>, "mismatch")

(***************************************************************************)
(* The trust root a server's provenance names (New, utils.go).             *)
(***************************************************************************)

PublicGood == "public good"
EmbeddedRoots == {PublicGood, "github instance"}

getSigstoreOptions(url) ==
  LET rootURL == IF url = "" THEN PublicGood ELSE url IN
  FirstOf(<< <<rootURL \notin EmbeddedRoots, Bad("root")>>,
             <<rootURL = PublicGood, [is |-> "options", needs |-> {"sct", "tlog", "timestamp"}]>> >>,
          [is |-> "options", needs |-> {"timestamp"}])

(***************************************************************************)
(* Recording an identity and requiring it later (bundles.go).              *)
(***************************************************************************)

IdentityFromResult(c) ==
  LET signer == signerIdentityFromCertificate(c) IN
  IF signer.is = "error" THEN signer
  ELSE [is |-> "identity", signer |-> signer.of, issuer |-> c.issuer, repo |-> c.repo]

\* Whether a certificate passes: its SAN is repository, path and maybe "@" and a ref when
\* the identity was recorded with a repository, and exactly the recorded one when not.
identityPolicyOption(expected, c) ==
  /\ c.issuer = expected.issuer
  /\ LET anchored == expected.repo \o expected.signer
         rest == TrimPrefix(c.san, anchored)
     IN IF expected.repo # <<>>
        THEN HasPrefix(c.san, anchored) /\ (rest = <<>> \/ rest[1] = "@")
        ELSE c.san = expected.signer

\* The policy library takes no identity without an issuer or without a name.
PolicyBuilds(expected) == expected.issuer # "" /\ (expected.repo # <<>> \/ expected.signer # <<>>)

\* What VerifyBundle asks besides the identity: that the bundle parsed, that the caller
\* gave options and they make a verifier, that the digest decodes and that the signature
\* verifies.
VerifyBundle(b, expected) ==
  FirstOf(<< <<~b.parsed, "not parsed">>,
             <<~b.options, "options">>,
             <<~b.verifier, "verifier">>,
             <<~b.digest, "digest">>,
             <<expected.is = "identity" /\ ~PolicyBuilds(expected), "identity">>,
             <<~b.genuine, "failed">>,
             <<expected.is = "identity" /\ ~identityPolicyOption(expected, b.cert), "failed">> >>,
          "ok")

=============================================================================

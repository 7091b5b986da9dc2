------------------------------ MODULE Verifier ------------------------------
(***************************************************************************)
(* The verifier of signatures and provenance (Verification, as V) as what  *)
(* it answers to one call: a bundle's way into a layer's annotations and   *)
(* back, the bundles of an image, an identity recorded from one            *)
(* certificate and required of a later one, a server's provenance, and the *)
(* options of a trust root.                                                *)
(***************************************************************************)
EXTENDS Naturals, Sequences, Functions

CONSTANT VerifierCalls

VARIABLES call, answer

V == INSTANCE Verification

VerifierOps == {"attach", "retrieve", "identity", "server", "roots"}

ASSUME VerifierAssumption ==
  \A c \in VerifierCalls :
    /\ c.op \in VerifierOps
    /\ c.op = "attach" => c.pb \in V!Bundle
    /\ c.op = "retrieve" => c.image \in V!Image
    /\ c.op = "identity" => c.recorded \in V!Certificate /\ c.later \in V!Certificate
    /\ c.op = "server" => c.found \in V!Found /\ c.provenance \in V!Provenance

Verdict(c) ==
  CASE c.op = "attach" ->
         LET written == V!signatureAnnotations(V!certMaterialFromBundle(c.pb))
         IN IF written.is = "error" THEN written ELSE V!getBundleVerificationMaterial(written)
    [] c.op = "retrieve" -> V!getSigstoreBundles(c.image)
    [] c.op = "identity" ->
         LET recorded == V!IdentityFromResult(c.recorded)
         IN IF recorded.is = "error" THEN "unusable"
            ELSE V!VerifyBundle([parsed |-> TRUE, options |-> TRUE, verifier |-> TRUE, digest |-> TRUE,
                                 genuine |-> TRUE, cert |-> c.later], recorded)
    [] c.op = "server" -> V!VerifyServer(c.found, c.provenance)
    [] c.op = "roots" -> V!getSigstoreOptions(c.url)

Answered(op) == call.op = op /\ answer # <<>>

VerifierInit == call \in VerifierCalls /\ answer = <<>>
Verify == answer = <<>> /\ answer' = <<Verdict(call)>> /\ UNCHANGED call
VerifierSpec == VerifierInit /\ [][Verify]_<<call, answer>>

-----------------------------------------------------------------------------

\* A layer, and a referrer, that holds a bundle.
HoldsBundle(l) ==
  /\ l.media = "simplesigning" /\ l.algorithm = "sha256" /\ l.signature # "broken" /\ l.accepted
  /\ l.cert # "broken" /\ (l.cert = "none" => l.signature = "ok")
  /\ (l.cert # "none" => l.bundle # "broken")
Attested(r) == r.fetched /\ r.parses /\ r.type # "other" /\ "bundle" \in {r.type, r.config, r.layer}

\* What is left of a bundle in the annotations: the promise of its log entry, not the proof.
Kept(pb) == IF pb.cert = "none" THEN [is |-> "key"]
            ELSE [is |-> "cert", cert |-> pb.cert, tlog |-> IF pb.tlog = "none" THEN "none" ELSE "promise"]

(* What was signed is found.  The annotations the signer writes are read     *)
(* back as the material they were written from, but for the inclusion proof, *)
(* which they cannot carry: key-signed stays key-signed, a certificate keeps *)
(* the promise of its log entry or its lack of an entry, and what would not  *)
(* verify without its proof is refused when it is written                    *)
(* (cosign_attach.go, sigstore.go).  The layers handed out are the           *)
(* well-formed ones, so that one whose certificate does not decode never     *)
(* passes as key-signed, and referrers are handed out only when no layer is. *)
(* "Not found" is answered when no layer and no referrer that could be read  *)
(* holds a bundle: a signature manifest or a list of referrers that cannot   *)
(* be read counts as an empty one (sigstore.go, attestations.go).            *)
SignedIsFound ==
  /\ Answered("attach") =>
       IF call.pb.cert = "broken" \/ (call.pb.cert # "none" /\ call.pb.tlog = "proof")
       THEN answer[1].is = "error" ELSE answer[1] = Kept(call.pb)
  /\ (Answered("retrieve") /\ call.image.exists /\ call.image.stays) =>
       LET layers == {l \in Range(call.image.layers) : call.image.readable /\ HoldsBundle(l)}
           referrers == {r \in Range(call.image.referrers) : call.image.listed /\ Attested(r)}
           found == IF layers # {} THEN layers ELSE referrers
       IN answer[1] = IF found = {} THEN V!Bad("not found") ELSE [is |-> "bundles", of |-> found]

\* A workflow of the repository its certificate names, and a person.
OwnWorkflow(c) == c.issuer = V!GitHub /\ c.repo # <<>> /\ V!HasPrefix(V!BeforeAt(c.san), c.repo)
Person(c) == c.issuer \notin {"", V!GitHub} /\ c.repo = <<>> /\ c.san # <<>>

(* What verifies matches what was asked.  A recorded identity admits exactly *)
(* the certificates of its issuer with its name, of any ref when it is a     *)
(* workflow of its own repository (bundles.go, identityPolicyOption).  A     *)
(* server's provenance is met only by a bundle that verified, and a          *)
(* constraint of it never by a result that lacks what it is about: a         *)
(* certificate, an identity that can be extracted, a statement, a predicate  *)
(* of that shape (verifier.go).                                              *)
VerifiedIsMatched ==
  /\ (Answered("identity") /\ (OwnWorkflow(call.recorded) \/ Person(call.recorded))) =>
       ((answer[1] = "ok") <=>
          /\ call.later.issuer = call.recorded.issuer
          /\ IF Person(call.recorded) THEN call.later.san = call.recorded.san
             ELSE V!BeforeAt(call.later.san) = V!BeforeAt(call.recorded.san))
  /\ (Answered("server") /\ answer[1] = "verified") =>
       /\ call.found.is = "bundles"
       /\ \E b \in call.found.of :
            /\ b.genuine
            /\ b.result.cert.is = "cert"
            /\ (call.provenance.signer # <<>>) => V!signerIdentityFromCertificate(b.result.cert).is = "identity"
            /\ (call.provenance.attestation.is = "asked") =>
                 /\ b.result.statement.is = "statement"
                 /\ (call.provenance.attestation.predicate.shape # "none") =>
                      (call.provenance.attestation.predicate =
                         [shape |-> "object", fields |-> b.result.statement.fields])

=============================================================================

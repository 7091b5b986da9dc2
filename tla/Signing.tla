------------------------------- MODULE Signing -------------------------------
(***************************************************************************)
(* container/signer: calls of SignOCI for one artifact, side by side, and  *)
(* the signature image at its .sig tag, a sequence of layers that each     *)
(* call reads and then writes whole (signer.go, cosign_attach.go, key.go). *)
(*                                                                         *)
(* A layer is by a key ("key") or by an identity ("keyless"); every        *)
(* signature is fresh, so n tells layers of one signer apart.  A layer of  *)
(* an identity is trusted when its certificate chains to the trust root.   *)
(***************************************************************************)
EXTENDS Naturals, Sequences, Checks

CONSTANTS Signer, Opts, Foreign

VARIABLES opts,      \* the Options of each call
          pc, made,  \* where a call is; the layer its bundle becomes
          base,      \* the signature image a call read
          result,    \* what it returned: a layer, or an error
          worker,    \* the goroutine of keylessSignBundle
          outcome,   \* its channel, with room for one outcome
          cancelled, \* whether the call's context is
          sig,       \* the layers at the .sig tag
          attached,  \* history: every layer that SignOCI wrote
          foreign    \* layers that other tools are yet to append

signVars == <<opts, pc, made, base, result, worker, outcome, cancelled, sig, attached, foreign>>

NoLayer == [by |-> "none", how |-> "none", trusted |-> FALSE, n |-> "none"]
Failure(why) == [is |-> "error", why |-> why, layer |-> NoLayer]
Signed(layer) == [is |-> "signed", why |-> "none", layer |-> layer]
Pending == [is |-> "pending", why |-> "none", layer |-> NoLayer]

keyless(s) == opts[s].token # ""

Init ==
  /\ opts \in Opts
  /\ pc = [s \in Signer |-> "idle"]
  /\ made = [s \in Signer |-> NoLayer]
  /\ base = [s \in Signer |-> <<>>]
  /\ result = [s \in Signer |-> Pending]
  /\ worker = [s \in Signer |-> "none"]
  /\ outcome = [s \in Signer |-> <<>>]
  /\ cancelled = [s \in Signer |-> FALSE]
  /\ sig = <<>> /\ attached = {}
  /\ foreign \in Foreign

Goes(s, to) == pc' = [pc EXCEPT ![s] = to] /\ UNCHANGED result

Fails(s, why) == /\ pc' = [pc EXCEPT ![s] = "done"]
                 /\ result' = [result EXCEPT ![s] = Failure(why)]

-----------------------------------------------------------------------------
(* signingMaterial, with the key file and the two URLs as they are. *)

\* A key file is labelled as cosign's encrypted PEM or not, sealed in cosign's way, in the
\* standard way or not at all, and the password opens it or does not.  The label alone
\* does not tell which way it is sealed.
decodePrivateKeyPEM(file) ==
  FirstOf(<< <<~file.cosign, IF file.sealed = "no" \/ (file.sealed = "standard" /\ file.opens)
                             THEN "ok" ELSE "decoding">>,
             <<file.sealed = "cosign" /\ file.opens, "ok">>,
             <<file.sealed = "standard" /\ file.opens, "ok">> >>, "check password")

loadKeypair(file) ==
  FirstOf(<< <<~file.regular, "not a file">>,
             <<decodePrivateKeyPEM(file) # "ok", decodePrivateKeyPEM(file)>>,
             <<~file.signs, "cannot sign">> >>, "ok")

signingMaterial(o) ==
  FirstOf(<< <<o.key # "" /\ o.token # "", "ambiguous">>,
             <<o.key # "", loadKeypair(o.file)>>,
             <<o.token # "", IF o.secureURLs THEN "ok" ELSE "url">> >>, "key required")

\* The layer a bundle of this call is attached as.
Bundle(s) == [by |-> IF keyless(s) THEN opts[s].token ELSE opts[s].key,
              how |-> IF keyless(s) THEN "keyless" ELSE "key",
              trusted |-> keyless(s) => opts[s].publicGood, n |-> s]

\* What ends a call before it signs: its material, or a reference or digest that does not
\* parse (SimpleSigningPayload).
Refusal(o) == IF signingMaterial(o) = "ok" /\ ~o.parses THEN "reference" ELSE signingMaterial(o)

SignOCI(s) ==
  /\ pc[s] = "idle"
  /\ IF Refusal(opts[s]) # "ok" THEN Fails(s, Refusal(opts[s])) /\ UNCHANGED worker
     ELSE IF keyless(s)
     THEN Goes(s, "await") /\ worker' = [worker EXCEPT ![s] = "running"]
     ELSE Goes(s, "validate") /\ UNCHANGED worker
  /\ UNCHANGED <<opts, made, base, outcome, cancelled, sig, attached, foreign>>

\* The goroutine: Fulcio and Rekor answer, refuse, or answer what panics the client, which
\* is recovered.  The channel has room, whether anyone still listens or not.
Work(s, answer) ==
  /\ worker[s] = "running" /\ outcome[s] = <<>>
  /\ outcome' = [outcome EXCEPT ![s] = <<answer>>]
  /\ worker' = [worker EXCEPT ![s] = "ended"]
  /\ UNCHANGED <<opts, pc, made, base, result, cancelled, sig, attached, foreign>>

Cancel(s) ==
  /\ pc[s] # "done" /\ ~cancelled[s]
  /\ cancelled' = [cancelled EXCEPT ![s] = TRUE]
  /\ UNCHANGED <<opts, pc, made, base, result, worker, outcome, sig, attached, foreign>>

AwaitsWorker(s) ==
  /\ pc[s] = "await" /\ outcome[s] # <<>>
  /\ IF Head(outcome[s]) = "signed" THEN Goes(s, "validate") ELSE Fails(s, Head(outcome[s]))
  /\ UNCHANGED <<opts, made, base, worker, outcome, cancelled, sig, attached, foreign>>

\* select: the context or the outcome, whichever is ready.
keylessSignBundle(s) ==
  /\ pc[s] = "await"
  /\ \/ cancelled[s] /\ Fails(s, "cancelled")
     \/ /\ outcome[s] # <<>>
        /\ IF Head(outcome[s]) = "signed" THEN Goes(s, "validate") ELSE Fails(s, Head(outcome[s]))
  /\ UNCHANGED <<opts, made, base, worker, outcome, cancelled, sig, attached, foreign>>

-----------------------------------------------------------------------------
(* The bundle is validated before the registry is touched; then the image at *)
(* the tag is read, checked for this signer, and written with a layer more.  *)

\* verifybundle.NewBundle: Fulcio and Rekor may have answered what makes no valid bundle.
Validate(s, valid) ==
  /\ pc[s] = "validate"
  /\ IF valid THEN Goes(s, "read") /\ made' = [made EXCEPT ![s] = Bundle(s)]
     ELSE Fails(s, "invalid bundle") /\ UNCHANGED made
  /\ UNCHANGED <<opts, base, worker, outcome, cancelled, sig, attached, foreign>>

\* Only an absent tag is an empty image; any other failure ends the call.
existingSignatureImage(s, ok) ==
  /\ pc[s] = "read"
  /\ IF ok THEN Goes(s, "check") /\ base' = [base EXCEPT ![s] = sig]
     ELSE Fails(s, "read") /\ UNCHANGED base
  /\ UNCHANGED <<opts, made, worker, outcome, cancelled, sig, attached, foreign>>

IdentityClaimed(s, l) == l.by = Bundle(s).by /\ l.how = Bundle(s).how

\* bundleMatchesSigner: keylessLayerTrusted for an identity, a signature that verifies
\* for a key.
bundleMatchesSigner(s, l) ==
  l.by = Bundle(s).by /\ l.how = Bundle(s).how /\ l.trusted

\* The layers at the tag that are this signer's.
Layers(s) == {i \in DOMAIN sig : bundleMatchesSigner(s, sig[i])}

\* A key is looked for in the image that was read, an identity in the registry once more;
\* a registry that cannot be read then counts as unsigned.
alreadySigned(s, readable) ==
  LET layers == IF keyless(s) THEN (IF readable THEN sig ELSE <<>>) ELSE base[s]
  IN \E i \in DOMAIN layers : bundleMatchesSigner(s, layers[i])

Check(s, readable) ==
  /\ pc[s] = "check"
  /\ Goes(s, IF alreadySigned(s, readable) THEN "retrieve" ELSE "write")
  /\ UNCHANGED <<opts, made, base, worker, outcome, cancelled, sig, attached, foreign>>

\* remote.Write replaces the whole image, or fails; a failure may be of the answer only.
Write(s, answer) ==
  /\ pc[s] = "write"
  /\ IF answer = "refused" THEN UNCHANGED <<sig, attached>>
     ELSE sig' = Append(base[s], made[s]) /\ attached' = attached \cup {made[s]}
  /\ IF answer = "ok" THEN /\ pc' = [pc EXCEPT ![s] = "done"]
                          /\ result' = [result EXCEPT ![s] = Signed(made[s])]
     ELSE Fails(s, "write")
  /\ UNCHANGED <<opts, made, base, worker, outcome, cancelled, foreign>>

\* resultBundleJSON with the bundle just built, whatever was attached.
ReturnsOwn(s, readable) ==
  /\ pc[s] = "retrieve"
  /\ pc' = [pc EXCEPT ![s] = "done"]
  /\ result' = [result EXCEPT ![s] = Signed(made[s])]
  /\ UNCHANGED <<opts, made, base, worker, outcome, cancelled, sig, attached, foreign>>

\* The layer that made this call a no-op is looked up again: the first that matches.
previouslyAttachedBundleJSON(s, readable) ==
  /\ pc[s] = "retrieve"
  /\ IF readable /\ Layers(s) # {}
     THEN /\ pc' = [pc EXCEPT ![s] = "done"]
          /\ \E i \in Layers(s) : /\ \A j \in Layers(s) : i <= j
                                  /\ result' = [result EXCEPT ![s] = Signed(sig[i])]
     ELSE Fails(s, "not found")
  /\ UNCHANGED <<opts, made, base, worker, outcome, cancelled, sig, attached, foreign>>

\* Another tool appends a layer of its own; its identity need not be its own.
Append3rd(l) ==
  /\ l \in foreign
  /\ sig' = Append(sig, l) /\ foreign' = foreign \ {l}
  /\ UNCHANGED <<opts, pc, made, base, result, worker, outcome, cancelled, attached>>

-----------------------------------------------------------------------------

SignerStep(s) ==
  \/ keylessSignBundle(s)
  \/ \E ok \in BOOLEAN : \/ Validate(s, ok) \/ existingSignatureImage(s, ok) \/ Check(s, ok)
                         \/ previouslyAttachedBundleJSON(s, ok)
  \/ \E answer \in {"ok", "refused", "lost"} : Write(s, answer)

Next ==
  \/ \E s \in Signer : \/ SignOCI(s) \/ SignerStep(s) \/ Cancel(s)
                       \/ \E answer \in {"signed", "fulcio", "rekor", "panic"} : Work(s, answer)
  \/ \E l \in foreign : Append3rd(l)

\* A call that began runs on; whether Fulcio and Rekor ever answer is open.
Fairness == \A s \in Signer : WF_signVars(SignerStep(s))

Spec == Init /\ [][Next]_signVars /\ Fairness

-----------------------------------------------------------------------------

(* What calls report is what the image holds, however they interleave.  The  *)
(* bundle a call returns was attached by SignOCI and is this signer's: not   *)
(* one that was built and not written, nor another tool's layer that claims  *)
(* the identity (signer.go, resultBundleJSON).  A key has at most one layer  *)
(* (cosign_attach.go, signedByKey).  A call that fails attached nothing,     *)
(* unless the error is the registry's answer to the write itself.            *)
ReportedIsAttached ==
  \A s \in Signer :
    /\ result[s].is = "signed" => result[s].layer \in attached /\ IdentityClaimed(s, result[s].layer)
    /\ (result[s].is = "error" /\ result[s].why # "write") => made[s] \notin attached
    /\ ~keyless(s) => \A i, j \in Layers(s) : i = j

(* What SignOCI attached stays attached: the code appends to an image that   *)
(* it read earlier, and so does not keep it when calls overlap.              *)
SignaturesAreKept == \A l \in attached : \E i \in DOMAIN sig : sig[i] = l

(* A call whose context is cancelled returns, even when Fulcio or Rekor      *)
(* never answer (signer.go, keylessSignBundle).                              *)
CancelledReturns == \A s \in Signer : (cancelled[s] /\ pc[s] # "idle") ~> (pc[s] = "done")

=============================================================================

--------------------------- MODULE SigningProofs ---------------------------
(***************************************************************************)
(* Proofs about Signing: what signing calls report is what the image holds *)
(* (ReportsAreTrue); and about Verifier: what was signed is found          *)
(* (SignaturesAreFound) and what verifies matches what was asked           *)
(* (VerificationMatches).                                                  *)
(*                                                                         *)
(* SignInv says that a layer which verifies as a signer's was attached by  *)
(* one, that what is attached is of a call that has returned, and that     *)
(* neither the image nor one that a call has read holds two layers of a    *)
(* key.                                                                    *)
(***************************************************************************)
EXTENDS Naturals, Sequences, Functions, SignedArtifact, Verifier, WellFoundedInduction, TLAPS

\* The default prover; a leaf with arithmetic or sequences cites SMTT.
USE ZenonT(30)

Bundles == {S!Bundle(s) : s \in Signer}
AllLayers == Bundles \cup UNION Foreign
Answers == {"signed", "fulcio", "rekor", "panic"}
Whys == {S!Refusal(opts[s]) : s \in Signer} \cup Answers
        \cup {"cancelled", "invalid bundle", "read", "write", "not found"}
Results == {S!Pending} \cup {S!Signed(l) : l \in AllLayers} \cup {S!Failure(w) : w \in Whys}

SignTypes ==
  /\ pc \in [Signer -> {"idle", "await", "validate", "read", "check", "write", "retrieve", "done"}]
  /\ made \in [Signer -> Bundles \cup {S!NoLayer}]
  /\ base \in [Signer -> Seq(AllLayers)]
  /\ result \in [Signer -> Results]
  /\ outcome \in [Signer -> Seq(Answers)]
  /\ sig \in Seq(AllLayers)
  /\ foreign \subseteq UNION Foreign

OneMatch(s, q) == \A i, j \in DOMAIN q :
  S!bundleMatchesSigner(s, q[i]) /\ S!bundleMatchesSigner(s, q[j]) => i = j
Trusts(q) == \A i \in DOMAIN q : q[i].trusted => q[i] \in attached

Reports(s) ==
  /\ made[s] \in {S!NoLayer, S!Bundle(s)}
  /\ pc[s] \in {"read", "check", "write", "retrieve"} => made[s] = S!Bundle(s)
  /\ pc[s] # "done" => result[s] = S!Pending
  /\ result[s].is = "signed" => result[s].layer \in attached /\ S!IdentityClaimed(s, result[s].layer)
  /\ (pc[s] = "write" /\ ~S!keyless(s)) =>
       \A i \in DOMAIN base[s] : ~S!bundleMatchesSigner(s, base[s][i])

Images ==
  /\ Trusts(sig) /\ \A t \in Signer : Trusts(base[t])
  /\ \A s \in Signer : ~S!keyless(s) => OneMatch(s, sig) /\ \A t \in Signer : OneMatch(s, base[t])

Attributed ==
  \A l \in attached : \E s \in Signer :
    /\ l = S!Bundle(s) /\ pc[s] = "done"
    /\ result[s].is = "signed" \/ result[s] = S!Failure("write")

SignInv == SignTypes /\ (\A s \in Signer : Reports(s)) /\ Images /\ Attributed

LEMMA BundleIs ==
  ASSUME NEW s \in Signer
  PROVE /\ S!Bundle(s).n = s /\ S!Bundle(s) # S!NoLayer
        /\ S!Bundle(s).how = IF S!keyless(s) THEN "keyless" ELSE "key"
        /\ ~S!keyless(s) => S!Bundle(s).trusted
BY DEF S!Bundle, S!NoLayer

LEMMA BundlesSteady ==
  ASSUME opts' = opts
  PROVE /\ \A s \in Signer : /\ S!keyless(s)' = S!keyless(s) /\ S!Bundle(s)' = S!Bundle(s)
                             /\ S!Refusal(opts[s])' = S!Refusal(opts[s])
        /\ Bundles' = Bundles /\ AllLayers' = AllLayers /\ Whys' = Whys /\ Results' = Results
<1>1. ASSUME NEW s \in Signer
      PROVE S!keyless(s)' = S!keyless(s) /\ S!Refusal(opts[s])' = S!Refusal(opts[s])
  BY DEF S!keyless
<1>2. ASSUME NEW s \in Signer PROVE S!Bundle(s)' = S!Bundle(s)
  BY <1>1 DEF S!Bundle
<1>3. Bundles' = Bundles
  BY <1>2 DEF Bundles
<1>4. AllLayers' = AllLayers
  BY <1>3 DEF AllLayers
<1>5. Whys' = Whys
  BY <1>1 DEF Whys, Answers
<1>6. Results' = Results
  BY <1>4, <1>5 DEF Results, S!Pending, S!Signed, S!Failure, S!NoLayer
<1> QED BY <1>1, <1>2, <1>3, <1>4, <1>5, <1>6

LEMMA MatchSteady ==
  ASSUME opts' = opts, NEW s \in Signer, NEW l
  PROVE /\ S!bundleMatchesSigner(s, l)' = S!bundleMatchesSigner(s, l)
        /\ S!IdentityClaimed(s, l)' = S!IdentityClaimed(s, l)
BY BundlesSteady DEF S!bundleMatchesSigner, S!IdentityClaimed

LEMMA ImagesKept ==
  ASSUME Images, opts' = opts, sig' = sig, attached' = attached,
         \A t \in Signer : base'[t] = base[t] \/ base'[t] = sig
  PROVE Images'
<1>1. Trusts(sig)' /\ \A t \in Signer : Trusts(base[t])'
  BY DEF Images, Trusts
<1>2. ASSUME NEW s \in Signer, ~S!keyless(s)' PROVE OneMatch(s, sig)' /\ \A t \in Signer : OneMatch(s, base[t])'
  <2>1. \A i, j \in DOMAIN sig :
          S!bundleMatchesSigner(s, sig[i]) /\ S!bundleMatchesSigner(s, sig[j]) => i = j
    BY <1>2, BundlesSteady DEF Images, OneMatch
  <2>2. \A t \in Signer : \A i, j \in DOMAIN base[t] :
          S!bundleMatchesSigner(s, base[t][i]) /\ S!bundleMatchesSigner(s, base[t][j]) => i = j
    BY <1>2, BundlesSteady DEF Images, OneMatch
  <2>3. S!Bundle(s)' = S!Bundle(s)
    BY BundlesSteady
  <2> QED BY <2>1, <2>2, <2>3, SMTT(30) DEF OneMatch, S!bundleMatchesSigner
<1> QED BY <1>1, <1>2 DEF Images

LEMMA AttributedKept ==
  ASSUME Attributed, opts' = opts, attached' = attached,
         \A t \in Signer : pc[t] = "done" => pc'[t] = pc[t] /\ result'[t] = result[t]
  PROVE Attributed'
BY BundlesSteady, SMTT(30) DEF Attributed, S!Failure, S!NoLayer

LEMMA ReportsKept ==
  ASSUME NEW t \in Signer, Reports(t), opts' = opts, attached \subseteq attached',
         made'[t] = made[t], pc'[t] = pc[t], result'[t] = result[t], base'[t] = base[t]
  PROVE Reports(t)'
<1>1. S!keyless(t)' = S!keyless(t) /\ S!Bundle(t)' = S!Bundle(t)
  BY BundlesSteady
<1> QED BY <1>1 DEF Reports, S!NoLayer, S!Pending, S!IdentityClaimed, S!bundleMatchesSigner

(* A call that ends with an error it was not the registry's answer to the write. *)
LEMMA FailsOK ==
  ASSUME NEW s \in Signer, SignTypes, Reports(s), opts' = opts, NEW w \in Whys, S!Fails(s, w),
         attached' = attached, made' = made, base' = base
  PROVE /\ pc' \in [Signer -> {"idle", "await", "validate", "read", "check", "write", "retrieve", "done"}]
        /\ result' \in [Signer -> Results'] /\ Reports(s)'
        /\ \A t \in Signer : t # s => pc'[t] = pc[t] /\ result'[t] = result[t]
<1>1. S!Bundle(s)' = S!Bundle(s) /\ Results' = Results
  BY BundlesSteady
<1>2. S!Failure(w) \in Results /\ S!Failure(w).is = "error"
  BY DEF Results, S!Failure
<1>3. pc'[s] = "done" /\ result'[s] = S!Failure(w)
  BY DEF S!Fails, SignTypes
<1>4. Reports(s)'
  BY <1>1, <1>2, <1>3 DEF Reports, S!NoLayer
<1> QED BY <1>1, <1>2, <1>4 DEF S!Fails, SignTypes

LEMMA GoesOK ==
  ASSUME NEW s \in Signer, SignTypes, pc[s] # "done",
         NEW to \in {"await", "validate", "read", "check", "write", "retrieve"}, S!Goes(s, to), opts' = opts
  PROVE /\ pc' \in [Signer -> {"idle", "await", "validate", "read", "check", "write", "retrieve", "done"}]
        /\ result' \in [Signer -> Results'] /\ pc'[s] = to /\ result'[s] = result[s]
        /\ \A t \in Signer : t # s => pc'[t] = pc[t] /\ result'[t] = result[t]
BY BundlesSteady DEF S!Goes, SignTypes

LEMMA CallOnly ==
  ASSUME SignInv, NEW s \in Signer, pc[s] # "done", opts' = opts, sig' = sig, attached' = attached,
         SignTypes', Reports(s)', base'[s] = base[s] \/ base'[s] = sig,
         \A t \in Signer : t # s => made'[t] = made[t] /\ pc'[t] = pc[t] /\ result'[t] = result[t] /\ base'[t] = base[t]
  PROVE SignInv'
<1>1. Images'
  BY ImagesKept DEF SignInv
<1>2. Attributed'
  BY AttributedKept DEF SignInv
<1>3. ASSUME NEW t \in Signer, t # s PROVE Reports(t)'
  BY <1>3, ReportsKept DEF SignInv
<1> QED BY <1>1, <1>2, <1>3 DEF SignInv

LEMMA SignOCIOK == ASSUME SignInv, NEW s \in Signer, S!SignOCI(s) PROVE SignInv'
<1>1. /\ pc[s] = "idle" /\ opts' = opts /\ made' = made /\ base' = base /\ outcome' = outcome /\ sig' = sig
      /\ attached' = attached /\ foreign' = foreign
  BY DEF S!SignOCI
<1>2. SignTypes /\ Reports(s) /\ AllLayers' = AllLayers /\ Bundles' = Bundles /\ S!Bundle(s)' = S!Bundle(s)
  BY <1>1, BundlesSteady DEF SignInv
<1>3. CASE S!Refusal(opts[s]) # "ok"
  <2>1. S!Fails(s, S!Refusal(opts[s]))
    BY <1>3 DEF S!SignOCI
  <2>2. S!Refusal(opts[s]) \in Whys
    BY DEF Whys
  <2>3. SignTypes' /\ Reports(s)' /\ \A t \in Signer : t # s => pc'[t] = pc[t] /\ result'[t] = result[t]
    BY <1>1, <1>2, <2>1, <2>2, FailsOK DEF SignTypes, S!NoLayer
  <2> QED BY <1>1, <2>3, CallOnly
<1>4. CASE S!Refusal(opts[s]) = "ok"
  <2>1. PICK to \in {"await", "validate"} : S!Goes(s, to)
    BY <1>4 DEF S!SignOCI
  <2>2. /\ SignTypes' /\ pc'[s] = to /\ result'[s] = result[s]
        /\ \A t \in Signer : t # s => pc'[t] = pc[t] /\ result'[t] = result[t]
    BY <1>1, <1>2, <2>1, GoesOK DEF SignTypes, S!NoLayer
  <2>3. Reports(s)'
    BY <1>1, <1>2, <2>2 DEF Reports, S!NoLayer, S!Pending, S!IdentityClaimed
  <2> QED BY <1>1, <2>2, <2>3, CallOnly
<1> QED BY <1>3, <1>4

LEMMA BesideOK ==
  ASSUME SignInv, NEW s \in Signer,
         S!Cancel(s) \/ \E ans \in {"signed", "fulcio", "rekor", "panic"} : S!Work(s, ans)
  PROVE SignInv'
<1>1. UNCHANGED <<opts, pc, made, base, result, sig, attached, foreign>> /\ outcome' \in [Signer -> Seq(Answers)]
  <2>1. CASE S!Cancel(s)
    BY <2>1 DEF S!Cancel, SignInv, SignTypes
  <2>2. ASSUME NEW ans \in {"signed", "fulcio", "rekor", "panic"}, S!Work(s, ans)
        PROVE UNCHANGED <<opts, pc, made, base, result, sig, attached, foreign>> /\ outcome' \in [Signer -> Seq(Answers)]
    <3>1. <<ans>> \in Seq(Answers)
      BY SMTT(30) DEF Answers
    <3> QED BY <2>2, <3>1 DEF S!Work, SignInv, SignTypes
  <2> QED BY <2>1, <2>2
<1>2. SignTypes'
  BY <1>1, BundlesSteady DEF SignInv, SignTypes, S!NoLayer
<1>3. Images' /\ Attributed' /\ \A t \in Signer : Reports(t)'
  BY <1>1, ImagesKept, AttributedKept, ReportsKept DEF SignInv
<1> QED BY <1>2, <1>3 DEF SignInv

LEMMA AwaitOK == ASSUME SignInv, NEW s \in Signer, S!keylessSignBundle(s) PROVE SignInv'
<1>1. /\ pc[s] = "await" /\ opts' = opts /\ made' = made /\ base' = base /\ outcome' = outcome /\ sig' = sig
      /\ attached' = attached /\ foreign' = foreign
  BY DEF S!keylessSignBundle
<1>2. SignTypes /\ Reports(s) /\ AllLayers' = AllLayers /\ Bundles' = Bundles /\ S!Bundle(s)' = S!Bundle(s)
  BY <1>1, BundlesSteady DEF SignInv
<1>3. ASSUME outcome[s] # <<>> PROVE Head(outcome[s]) \in Answers
  BY <1>2, <1>3, SMTT(30) DEF SignTypes
<1>4. (\E w \in Whys : S!Fails(s, w)) \/ S!Goes(s, "validate")
  BY <1>3 DEF S!keylessSignBundle, Whys
<1>5. CASE \E w \in Whys : S!Fails(s, w)
  <2>1. SignTypes' /\ Reports(s)' /\ \A t \in Signer : t # s => pc'[t] = pc[t] /\ result'[t] = result[t]
    BY <1>1, <1>2, <1>5, FailsOK DEF SignTypes, S!NoLayer
  <2> QED BY <1>1, <2>1, CallOnly
<1>6. CASE S!Goes(s, "validate")
  <2>1. /\ SignTypes' /\ pc'[s] = "validate" /\ result'[s] = result[s]
        /\ \A t \in Signer : t # s => pc'[t] = pc[t] /\ result'[t] = result[t]
    BY <1>1, <1>2, <1>6, GoesOK DEF SignTypes, S!NoLayer
  <2>2. Reports(s)'
    BY <1>1, <1>2, <2>1 DEF Reports, S!NoLayer, S!Pending, S!IdentityClaimed
  <2> QED BY <1>1, <2>1, <2>2, CallOnly
<1> QED BY <1>4, <1>5, <1>6

LEMMA ValidateOK == ASSUME SignInv, NEW s \in Signer, NEW valid \in BOOLEAN, S!Validate(s, valid) PROVE SignInv'
<1>1. /\ pc[s] = "validate" /\ opts' = opts /\ base' = base /\ outcome' = outcome /\ sig' = sig
      /\ attached' = attached /\ foreign' = foreign
  BY DEF S!Validate
<1>2. SignTypes /\ Reports(s) /\ AllLayers' = AllLayers /\ Bundles' = Bundles /\ S!Bundle(s)' = S!Bundle(s)
  BY <1>1, BundlesSteady DEF SignInv
<1>3. CASE ~valid
  <2>1. S!Fails(s, "invalid bundle") /\ made' = made /\ "invalid bundle" \in Whys
    BY <1>3 DEF S!Validate, Whys
  <2>2. SignTypes' /\ Reports(s)' /\ \A t \in Signer : t # s => pc'[t] = pc[t] /\ result'[t] = result[t]
    BY <1>1, <1>2, <2>1, FailsOK DEF SignTypes, S!NoLayer
  <2> QED BY <1>1, <2>1, <2>2, CallOnly
<1>4. CASE valid
  <2>1. S!Goes(s, "read") /\ made' = [made EXCEPT ![s] = S!Bundle(s)] /\ S!Bundle(s) \in Bundles
    BY <1>4 DEF S!Validate, Bundles
  <2>2. /\ made' \in [Signer -> Bundles \cup {S!NoLayer}] /\ made'[s] = S!Bundle(s)
        /\ \A t \in Signer : t # s => made'[t] = made[t]
    BY <1>2, <2>1 DEF SignTypes
  <2>3. /\ SignTypes' /\ pc'[s] = "read" /\ result'[s] = result[s]
        /\ \A t \in Signer : t # s => pc'[t] = pc[t] /\ result'[t] = result[t]
    BY <1>1, <1>2, <2>1, <2>2, GoesOK DEF SignTypes, S!NoLayer
  <2>4. Reports(s)'
    BY <1>1, <1>2, <2>2, <2>3 DEF Reports, S!NoLayer, S!Pending, S!IdentityClaimed
  <2> QED BY <1>1, <2>2, <2>3, <2>4, CallOnly
<1> QED BY <1>3, <1>4

LEMMA ReadOK == ASSUME SignInv, NEW s \in Signer, NEW ok \in BOOLEAN, S!existingSignatureImage(s, ok) PROVE SignInv'
<1>1. /\ pc[s] = "read" /\ opts' = opts /\ made' = made /\ outcome' = outcome /\ sig' = sig
      /\ attached' = attached /\ foreign' = foreign
  BY DEF S!existingSignatureImage
<1>2. SignTypes /\ Reports(s) /\ AllLayers' = AllLayers /\ Bundles' = Bundles /\ S!Bundle(s)' = S!Bundle(s)
  BY <1>1, BundlesSteady DEF SignInv
<1>3. CASE ~ok
  <2>1. S!Fails(s, "read") /\ base' = base /\ "read" \in Whys
    BY <1>3 DEF S!existingSignatureImage, Whys
  <2>2. SignTypes' /\ Reports(s)' /\ \A t \in Signer : t # s => pc'[t] = pc[t] /\ result'[t] = result[t]
    BY <1>1, <1>2, <2>1, FailsOK DEF SignTypes, S!NoLayer
  <2> QED BY <1>1, <2>1, <2>2, CallOnly
<1>4. CASE ok
  <2>1. S!Goes(s, "check") /\ base' = [base EXCEPT ![s] = sig]
    BY <1>4 DEF S!existingSignatureImage
  <2>2. /\ base' \in [Signer -> Seq(AllLayers)] /\ base'[s] = sig /\ \A t \in Signer : t # s => base'[t] = base[t]
    BY <1>2, <2>1 DEF SignTypes
  <2>3. /\ SignTypes' /\ pc'[s] = "check" /\ result'[s] = result[s]
        /\ \A t \in Signer : t # s => pc'[t] = pc[t] /\ result'[t] = result[t]
    BY <1>1, <1>2, <2>1, <2>2, GoesOK DEF SignTypes, S!NoLayer
  <2>4. Reports(s)'
    BY <1>1, <1>2, <2>2, <2>3 DEF Reports, S!NoLayer, S!Pending, S!IdentityClaimed
  <2> QED BY <1>1, <2>2, <2>3, <2>4, CallOnly
<1> QED BY <1>3, <1>4

LEMMA CheckOK == ASSUME SignInv, NEW s \in Signer, NEW readable \in BOOLEAN, S!Check(s, readable) PROVE SignInv'
<1>1. /\ pc[s] = "check" /\ opts' = opts /\ made' = made /\ base' = base /\ outcome' = outcome /\ sig' = sig
      /\ attached' = attached /\ foreign' = foreign
  BY DEF S!Check
<1>2. /\ SignTypes /\ Reports(s) /\ AllLayers' = AllLayers /\ Bundles' = Bundles /\ S!Bundle(s)' = S!Bundle(s)
      /\ S!keyless(s)' = S!keyless(s)
  BY <1>1, BundlesSteady DEF SignInv
<1>3. PICK to \in {"write", "retrieve"} :
        /\ S!Goes(s, to)
        /\ (to = "write" /\ ~S!keyless(s)) => \A i \in DOMAIN base[s] : ~S!bundleMatchesSigner(s, base[s][i])
  BY DEF S!Check, S!alreadySigned
<1>4. /\ SignTypes' /\ pc'[s] = to /\ result'[s] = result[s]
      /\ \A t \in Signer : t # s => pc'[t] = pc[t] /\ result'[t] = result[t]
  BY <1>1, <1>2, <1>3, GoesOK DEF SignTypes, S!NoLayer
<1>5. (pc'[s] = "write" /\ ~S!keyless(s)') => \A i \in DOMAIN base'[s] : ~S!bundleMatchesSigner(s, base[s][i])'
  BY <1>1, <1>2, <1>3, <1>4 DEF S!bundleMatchesSigner
<1>6. Reports(s)'
  BY <1>1, <1>2, <1>4, <1>5 DEF Reports, S!NoLayer, S!Pending, S!IdentityClaimed
<1> QED BY <1>1, <1>4, <1>6, CallOnly

LEMMA RetrieveOK ==
  ASSUME SignInv, NEW s \in Signer, NEW readable \in BOOLEAN, S!previouslyAttachedBundleJSON(s, readable)
  PROVE SignInv'
<1>1. /\ pc[s] = "retrieve" /\ opts' = opts /\ made' = made /\ base' = base /\ outcome' = outcome /\ sig' = sig
      /\ attached' = attached /\ foreign' = foreign
  BY DEF S!previouslyAttachedBundleJSON
<1>2. /\ SignTypes /\ Reports(s) /\ AllLayers' = AllLayers /\ Bundles' = Bundles /\ S!Bundle(s)' = S!Bundle(s)
      /\ Results' = Results
  BY <1>1, BundlesSteady DEF SignInv
<1>3. CASE ~(readable /\ S!Layers(s) # {})
  <2>1. S!Fails(s, "not found") /\ "not found" \in Whys
    BY <1>3 DEF S!previouslyAttachedBundleJSON, Whys
  <2>2. SignTypes' /\ Reports(s)' /\ \A t \in Signer : t # s => pc'[t] = pc[t] /\ result'[t] = result[t]
    BY <1>1, <1>2, <2>1, FailsOK DEF SignTypes, S!NoLayer
  <2> QED BY <1>1, <2>1, <2>2, CallOnly
<1>4. CASE readable /\ S!Layers(s) # {}
  <2>1. PICK i \in S!Layers(s) : result' = [result EXCEPT ![s] = S!Signed(sig[i])]
    BY <1>4 DEF S!previouslyAttachedBundleJSON
  <2>2. i \in DOMAIN sig /\ S!bundleMatchesSigner(s, sig[i])
    BY <2>1 DEF S!Layers
  <2>3. sig[i] \in AllLayers /\ sig[i] \in attached /\ S!IdentityClaimed(s, sig[i])
    BY <1>2, <2>2, SMTT(30) DEF SignTypes, SignInv, Images, Trusts, S!bundleMatchesSigner, S!IdentityClaimed
  <2>4. S!Signed(sig[i]) \in Results /\ S!Signed(sig[i]).layer = sig[i]
    BY <2>3 DEF Results, S!Signed
  <2>5. pc' = [pc EXCEPT ![s] = "done"]
    BY <1>4 DEF S!previouslyAttachedBundleJSON
  <2>6. SignTypes' /\ \A t \in Signer : t # s => pc'[t] = pc[t] /\ result'[t] = result[t]
    BY <1>1, <1>2, <2>1, <2>4, <2>5 DEF SignTypes, S!NoLayer
  <2>7. result'[s] = S!Signed(sig[i]) /\ pc'[s] = "done"
    BY <1>2, <2>1, <2>5 DEF SignTypes
  <2>8. Reports(s)'
    BY <1>1, <1>2, <2>3, <2>4, <2>7 DEF Reports, S!NoLayer, S!IdentityClaimed
  <2> QED BY <1>1, <2>6, <2>8, CallOnly
<1> QED BY <1>3, <1>4

LEMMA TrustsAppend ==
  ASSUME NEW q \in Seq(AllLayers), NEW l \in AllLayers, Trusts(q), attached \subseteq attached', l \in attached',
         sig' = Append(q, l)
  PROVE Trusts(sig)'
<1>1. \A i \in DOMAIN Append(q, l) : (i \in DOMAIN q /\ Append(q, l)[i] = q[i]) \/ Append(q, l)[i] = l
  BY SMTT(30)
<1> QED BY <1>1 DEF Trusts

LEMMA OneMatchAppend ==
  ASSUME NEW u \in Signer, NEW q \in Seq(AllLayers), NEW l \in AllLayers, OneMatch(u, q),
         S!bundleMatchesSigner(u, l) => \A i \in DOMAIN q : ~S!bundleMatchesSigner(u, q[i])
  PROVE OneMatch(u, Append(q, l))
<1>1. \A i \in DOMAIN Append(q, l) : \/ i \in DOMAIN q /\ Append(q, l)[i] = q[i]
                                     \/ i = Len(q) + 1 /\ Append(q, l)[i] = l
  BY SMTT(30)
<1>2. ASSUME NEW i \in DOMAIN Append(q, l), NEW j \in DOMAIN Append(q, l),
             S!bundleMatchesSigner(u, Append(q, l)[i]), S!bundleMatchesSigner(u, Append(q, l)[j])
      PROVE i = j
  BY <1>1, <1>2 DEF OneMatch
<1> QED BY <1>2 DEF OneMatch

LEMMA WriteOK ==
  ASSUME SignInv, NEW s \in Signer, NEW ans \in {"ok", "refused", "lost"}, S!Write(s, ans)
  PROVE SignInv'
<1>1. /\ pc[s] = "write" /\ opts' = opts /\ made' = made /\ base' = base /\ outcome' = outcome /\ foreign' = foreign
  BY DEF S!Write
<1>2. /\ SignTypes /\ Reports(s) /\ AllLayers' = AllLayers /\ Bundles' = Bundles /\ S!Bundle(s)' = S!Bundle(s)
      /\ Results' = Results
  BY <1>1, BundlesSteady DEF SignInv
<1>3. made[s] = S!Bundle(s)
  BY <1>1, <1>2 DEF Reports
<1>4. CASE ans = "refused"
  <2>1. S!Fails(s, "write") /\ "write" \in Whys /\ sig' = sig /\ attached' = attached
    BY <1>4 DEF S!Write, Whys
  <2>2. SignTypes' /\ Reports(s)' /\ \A t \in Signer : t # s => pc'[t] = pc[t] /\ result'[t] = result[t]
    BY <1>1, <1>2, <2>1, FailsOK DEF SignTypes, S!NoLayer
  <2> QED BY <1>1, <2>1, <2>2, CallOnly
<1>5. CASE ans # "refused"
  <2>1. sig' = Append(base[s], made[s]) /\ attached' = attached \cup {made[s]}
    BY <1>5 DEF S!Write
  <2>2. PICK r \in {S!Signed(made[s]), S!Failure("write")} :
          pc' = [pc EXCEPT ![s] = "done"] /\ result' = [result EXCEPT ![s] = r]
    BY DEF S!Write, S!Fails
  <2>3. made[s] \in AllLayers /\ base[s] \in Seq(AllLayers)
    BY <1>2, <1>3 DEF SignTypes, AllLayers, Bundles
  <2>4. r \in Results
    BY <2>2, <2>3 DEF Results, Whys
  <2>5. pc'[s] = "done" /\ result'[s] = r /\ \A t \in Signer : t # s => pc'[t] = pc[t] /\ result'[t] = result[t]
    BY <1>2, <2>2 DEF SignTypes
  <2>6. SignTypes'
    <3>1. sig' \in Seq(AllLayers)
      BY <2>1, <2>3, SMTT(30)
    <3> QED BY <1>1, <1>2, <2>2, <2>4, <3>1 DEF SignTypes, S!NoLayer
  <2>7. /\ r.is = "signed" \/ r = S!Failure("write")
        /\ r.is = "signed" => r.layer = made[s]
    BY <2>2, SMTT(30) DEF S!Signed, S!Failure
  <2>8. Reports(s)'
    BY <1>1, <1>2, <1>3, <2>1, <2>5, <2>7 DEF Reports, S!NoLayer, S!IdentityClaimed
  <2>9. ASSUME NEW t \in Signer, t # s PROVE Reports(t)'
    BY <1>1, <2>1, <2>5, <2>9, ReportsKept DEF SignInv
  <2>10. Attributed'
    <3>1. ASSUME NEW l \in attached
          PROVE \E t \in Signer : l = S!Bundle(t)' /\ pc'[t] = "done" /\ (result'[t].is = "signed" \/ result'[t] = S!Failure("write")')
      <4>1. PICK t \in Signer : l = S!Bundle(t) /\ pc[t] = "done" /\ (result[t].is = "signed" \/ result[t] = S!Failure("write"))
        BY <3>1 DEF SignInv, Attributed
      <4> QED BY <1>1, <2>5, <4>1, BundlesSteady DEF S!Failure, S!NoLayer
    <3>2. S!Failure("write")' = S!Failure("write")
      BY DEF S!Failure, S!NoLayer
    <3> QED BY <1>2, <1>3, <2>1, <2>5, <2>7, <3>1, <3>2 DEF Attributed
  <2>11. Images'
    <3>1. Trusts(sig)'
      BY <2>1, <2>3, TrustsAppend DEF SignInv, Images
    <3>2. \A t \in Signer : Trusts(base[t])'
      BY <1>1, <2>1 DEF SignInv, Images, Trusts
    <3>3. ASSUME NEW u \in Signer, ~S!keyless(u)' PROVE OneMatch(u, sig)' /\ \A t \in Signer : OneMatch(u, base[t])'
      <4>1. ~S!keyless(u) /\ S!Bundle(u)' = S!Bundle(u)
        BY <1>1, <3>3, BundlesSteady
      <4>2. \A t \in Signer : OneMatch(u, base[t])
        BY <4>1 DEF SignInv, Images
      <4>3. S!bundleMatchesSigner(u, made[s]) => \A i \in DOMAIN base[s] : ~S!bundleMatchesSigner(u, base[s][i])
        <5>1. SUFFICES ASSUME S!bundleMatchesSigner(u, made[s])
                       PROVE \A i \in DOMAIN base[s] : ~S!bundleMatchesSigner(u, base[s][i])
          OBVIOUS
        <5>2. S!Bundle(s).by = S!Bundle(u).by /\ S!Bundle(s).how = S!Bundle(u).how
          BY <1>3, <5>1 DEF S!bundleMatchesSigner
        <5>3. ~S!keyless(s)
          BY <4>1, <5>2, BundleIs
        <5>4. \A i \in DOMAIN base[s] : ~S!bundleMatchesSigner(s, base[s][i])
          BY <1>1, <1>2, <5>3 DEF Reports
        <5> QED BY <5>2, <5>4 DEF S!bundleMatchesSigner
      <4>4. OneMatch(u, Append(base[s], made[s]))
        BY <2>3, <4>2, <4>3, OneMatchAppend
      <4>5. \A i, j \in DOMAIN sig' :
              S!bundleMatchesSigner(u, sig'[i]) /\ S!bundleMatchesSigner(u, sig'[j]) => i = j
        BY <2>1, <4>4 DEF OneMatch
      <4>6. \A t \in Signer : OneMatch(u, base[t])'
        BY <1>1, <4>1, <4>2, SMTT(30) DEF OneMatch, S!bundleMatchesSigner
      <4>7. OneMatch(u, sig)'
        BY <4>1, <4>5 DEF OneMatch, S!bundleMatchesSigner
      <4> QED BY <4>6, <4>7
    <3> QED BY <3>1, <3>2, <3>3 DEF Images
  <2> QED BY <2>6, <2>8, <2>9, <2>10, <2>11 DEF SignInv
<1> QED BY <1>4, <1>5

LEMMA ForeignOK ==
  ASSUME SignInv, NEW l \in foreign, S!Append3rd(l)
  PROVE SignInv'
<1>1. UNCHANGED <<opts, pc, made, base, result, outcome, attached>> /\ sig' = Append(sig, l) /\ foreign' \subseteq foreign
  BY DEF S!Append3rd
<1>2. SignTypes /\ AllLayers' = AllLayers /\ Bundles' = Bundles /\ Results' = Results
  BY <1>1, BundlesSteady DEF SignInv
<1>3. l \in AllLayers /\ ~l.trusted /\ sig \in Seq(AllLayers)
  BY <1>2, ForeignAssumption DEF SignTypes, AllLayers
<1>4. SignTypes'
  <2>1. sig' \in Seq(AllLayers)
    BY <1>1, <1>3, SMTT(30)
  <2> QED BY <1>1, <1>2, <2>1 DEF SignTypes, S!NoLayer
<1>5. Attributed' /\ \A t \in Signer : Reports(t)'
  BY <1>1, AttributedKept, ReportsKept DEF SignInv
<1>6. Images'
  <2>1. \A i \in DOMAIN sig' : (i \in DOMAIN sig /\ sig'[i] = sig[i]) \/ sig'[i] = l
    BY <1>1, <1>3, SMTT(30)
  <2>2. Trusts(sig)' /\ \A t \in Signer : Trusts(base[t])'
    BY <1>1, <1>3, <2>1 DEF SignInv, Images, Trusts
  <2>3. ASSUME NEW u \in Signer, ~S!keyless(u)' PROVE OneMatch(u, sig)' /\ \A t \in Signer : OneMatch(u, base[t])'
    <3>1. ~S!keyless(u) /\ S!Bundle(u)' = S!Bundle(u)
      BY <1>1, <2>3, BundlesSteady
    <3>2. OneMatch(u, sig) /\ \A t \in Signer : OneMatch(u, base[t])
      BY <3>1 DEF SignInv, Images
    <3>3. OneMatch(u, Append(sig, l))
      BY <1>3, <3>2, OneMatchAppend DEF S!bundleMatchesSigner
    <3> QED BY <1>1, <3>1, <3>2, <3>3, SMTT(30) DEF OneMatch, S!bundleMatchesSigner
  <2> QED BY <2>2, <2>3 DEF Images
<1> QED BY <1>4, <1>5, <1>6 DEF SignInv

LEMMA SignInit == S!Init => SignInv
<1> SUFFICES ASSUME S!Init PROVE SignInv
  OBVIOUS
<1>0. /\ pc = [s \in Signer |-> "idle"] /\ made = [s \in Signer |-> S!NoLayer] /\ base = [s \in Signer |-> <<>>]
      /\ result = [s \in Signer |-> S!Pending] /\ outcome = [s \in Signer |-> <<>>] /\ sig = <<>> /\ attached = {}
      /\ foreign \in Foreign
  BY DEF S!Init
<1>1. SignTypes
  <2>1. S!Pending \in Results /\ <<>> \in Seq(AllLayers) /\ <<>> \in Seq(Answers)
    BY SMTT(30) DEF Results
  <2> QED BY <1>0, <2>1 DEF SignTypes
<1>2. \A s \in Signer : Reports(s)
  <2>1. S!Pending.is = "pending"
    BY DEF S!Pending
  <2> QED BY <1>0, <2>1 DEF Reports
<1>3. Images /\ Attributed
  BY <1>0, SMTT(30) DEF Images, Attributed, Trusts, OneMatch
<1> QED BY <1>1, <1>2, <1>3 DEF SignInv

LEMMA SignNextOK == SignInv /\ [S!Next]_(S!signVars) => SignInv'
<1> SUFFICES ASSUME SignInv, [S!Next]_(S!signVars) PROVE SignInv'
  OBVIOUS
<1>1. CASE S!Next
  BY <1>1, SignOCIOK, BesideOK, AwaitOK, ValidateOK, ReadOK, CheckOK, RetrieveOK, WriteOK, ForeignOK
     DEF S!Next, S!SignerStep
<1>2. CASE UNCHANGED S!signVars
  <2>1. UNCHANGED <<opts, pc, made, base, result, outcome, sig, attached, foreign>>
    BY <1>2 DEF S!signVars
  <2>2. SignTypes'
    BY <2>1, BundlesSteady DEF SignInv, SignTypes, S!NoLayer
  <2>3. Images' /\ Attributed' /\ \A t \in Signer : Reports(t)'
    BY <2>1, ImagesKept, AttributedKept, ReportsKept DEF SignInv
  <2> QED BY <2>2, <2>3 DEF SignInv
<1> QED BY <1>1, <1>2

LEMMA SignInvReports == SignInv => ReportedIsAttached
<1> SUFFICES ASSUME SignInv, NEW s \in Signer
             PROVE /\ result[s].is = "signed" => result[s].layer \in attached /\ S!IdentityClaimed(s, result[s].layer)
                   /\ (result[s].is = "error" /\ result[s].why # "write") => made[s] \notin attached
                   /\ ~S!keyless(s) => \A i, j \in S!Layers(s) : i = j
  BY DEF ReportedIsAttached, S!ReportedIsAttached
<1>1. result[s].is = "signed" => result[s].layer \in attached /\ S!IdentityClaimed(s, result[s].layer)
  BY DEF SignInv, Reports
<1>2. ASSUME result[s].is = "error", result[s].why # "write", made[s] \in attached PROVE FALSE
  <2>1. PICK t \in Signer : made[s] = S!Bundle(t) /\ (result[t].is = "signed" \/ result[t] = S!Failure("write"))
    BY <1>2 DEF SignInv, Attributed
  <2>2. made[s] = S!Bundle(s)
    BY <2>1, BundleIs DEF SignInv, Reports
  <2>3. t = s
    BY <2>1, <2>2, BundleIs
  <2> QED BY <1>2, <2>1, <2>3, SMTT(30) DEF S!Failure
<1>3. ~S!keyless(s) => \A i, j \in S!Layers(s) : i = j
  BY DEF SignInv, Images, OneMatch, S!Layers
<1> QED BY <1>1, <1>2, <1>3

(* What signing calls report is what the image holds, for any number of calls, keys and     *)
(* identities and any layers of other tools: a returned bundle was attached by SignOCI and  *)
(* is this signer's, a call that failed before the registry answered its write attached     *)
(* nothing, and a key has one layer at most (signer.go, cosign_attach.go).                  *)
THEOREM ReportsAreTrue == S!Spec => []ReportedIsAttached
BY SignInit, SignNextOK, SignInvReports, PTL DEF S!Spec

-----------------------------------------------------------------------------
(* Verification: what is answered to one call. *)

\* A set of natural numbers has a least one.
LEMMA NatMin ==
  ASSUME NEW N, N \subseteq Nat, N # {}
  PROVE  \E x \in N : \A y \in N : x <= y
<1> DEFINE R == {p \in Nat \X Nat : p[1] < p[2]}
<1>1. IsWellFoundedOn(R, Nat)
  BY NatLessThanWellFounded DEF OpToRel, IsWellFoundedOn
<1>2. \E x \in N : \A y \in N : <<y, x>> \notin R
  <2> HIDE DEF R
  <2> QED BY <1>1, WFMin
<1>3. PICK x \in N : \A y \in N : <<y, x>> \notin R
  BY <1>2
<1>4. ASSUME NEW y \in N PROVE x <= y
  <2>1. x \in Nat /\ y \in Nat
    OBVIOUS
  <2>2. ~(y < x)
    BY <1>3, <2>1
  <2> QED BY <2>1, <2>2, SMTT(30)
<1> QED BY <1>4

\* A cascade (Checks) answers with the first check that holds, or with its default when none does.
LEMMA FirstHit ==
  ASSUME NEW s, NEW o, NEW n \in Nat, DOMAIN s = 1..n
  PROVE  \/ \E i \in 1..n : s[i][1] /\ (\A j \in 1..n : s[j][1] => i <= j) /\ V!FirstOf(s, o) = s[i][2]
         \/ (\A i \in 1..n : ~s[i][1]) /\ V!FirstOf(s, o) = o
<1> DEFINE hit == {i \in DOMAIN s : s[i][1]}
<1>1. CASE hit = {}
  BY <1>1 DEF V!FirstOf
<1>2. CASE hit # {}
  <2>1. hit \subseteq Nat
    BY SMTT(30)
  <2>2. \E i \in hit : \A j \in hit : i <= j
    BY <1>2, <2>1, NatMin
  <2> DEFINE k == CHOOSE i \in hit : \A j \in hit : i <= j
  <2>3. k \in hit /\ \A j \in hit : k <= j
    BY <2>2
  <2>4. V!FirstOf(s, o) = s[k][2]
    BY <1>2 DEF V!FirstOf
  <2> HIDE DEF k
  <2> QED BY <2>3, <2>4, SMTT(30)
<1> QED BY <1>1, <1>2

\* A cascade of two checks as nested conditionals.
LEMMA TwoChecks ==
  ASSUME NEW a \in BOOLEAN, NEW x, NEW b \in BOOLEAN, NEW y, NEW z
  PROVE  V!FirstOf(<< <<a, x>>, <<b, y>> >>, z) = IF a THEN x ELSE IF b THEN y ELSE z
<1> DEFINE s == << <<a, x>>, <<b, y>> >>
           r == V!FirstOf(s, z)
<1>1. /\ DOMAIN s = 1..2 /\ s[1][1] = a /\ s[1][2] = x /\ s[2][1] = b /\ s[2][2] = y
  BY SMTT(30)
<1> HIDE DEF s
<1>2. \/ \E i \in 1..2 : s[i][1] /\ (\A j \in 1..2 : s[j][1] => i <= j) /\ r = s[i][2]
      \/ (\A i \in 1..2 : ~s[i][1]) /\ r = z
  <2>1. 2 \in Nat
    BY SMTT(30)
  <2> QED BY <1>1, <2>1, FirstHit
<1> HIDE DEF r
<1>3. r = IF a THEN x ELSE IF b THEN y ELSE z
  BY <1>1, <1>2, SMTT(30)
<1> QED BY <1>3 DEF r, s

\* The same for three checks.
LEMMA ThreeChecks ==
  ASSUME NEW a \in BOOLEAN, NEW x, NEW b \in BOOLEAN, NEW y, NEW c \in BOOLEAN, NEW w, NEW z
  PROVE  V!FirstOf(<< <<a, x>>, <<b, y>>, <<c, w>> >>, z) =
           IF a THEN x ELSE IF b THEN y ELSE IF c THEN w ELSE z
<1> DEFINE s == << <<a, x>>, <<b, y>>, <<c, w>> >>
           r == V!FirstOf(s, z)
<1>1. /\ DOMAIN s = 1..3 /\ s[1][1] = a /\ s[1][2] = x /\ s[2][1] = b /\ s[2][2] = y
      /\ s[3][1] = c /\ s[3][2] = w
  BY SMTT(30)
<1> HIDE DEF s
<1>2. \/ \E i \in 1..3 : s[i][1] /\ (\A j \in 1..3 : s[j][1] => i <= j) /\ r = s[i][2]
      \/ (\A i \in 1..3 : ~s[i][1]) /\ r = z
  <2>1. 3 \in Nat
    BY SMTT(30)
  <2> QED BY <1>1, <2>1, FirstHit
<1> HIDE DEF r
<1>3. r = IF a THEN x ELSE IF b THEN y ELSE IF c THEN w ELSE z
  BY <1>1, <1>2, SMTT(30)
<1> QED BY <1>3 DEF r, s

\* What the annotations of a bundle are read back as (cosign_attach.go, sigstore.go).
LEMMA ReadBack ==
  ASSUME NEW pb \in V!Bundle
  PROVE  LET written == V!signatureAnnotations(V!certMaterialFromBundle(pb))
             material == IF written.is = "error" THEN written ELSE V!getBundleVerificationMaterial(written)
         IN IF pb.cert = "broken" \/ (pb.cert # "none" /\ pb.tlog = "proof")
            THEN material.is = "error" ELSE material = Kept(pb)
<1> DEFINE m == V!certMaterialFromBundle(pb)
           written == V!signatureAnnotations(m)
           lost == V!Bad("no inclusion promise")
           entry == IF pb.tlog = "none" THEN "none" ELSE "promise"
<1>1. entry \in {"none", "promise"}
  OBVIOUS
<1>2. CASE pb.cert = "none"
  <2>1. m = [is |-> "key"]
    BY <1>2 DEF V!certMaterialFromBundle
  <2>2. written = [is |-> "layer", signature |-> "ok", cert |-> "none", bundle |-> "none"]
    BY <2>1, SMTT(30) DEF V!signatureAnnotations
  <2>3. V!getBundleVerificationMaterial(written) = [is |-> "key"] /\ written.is = "layer"
    BY <2>2, SMTT(30) DEF V!getBundleVerificationMaterial
  <2> QED BY <1>2, <2>3 DEF Kept
<1>3. CASE pb.cert = "broken"
  <2>1. m.is = "error"
    BY <1>3 DEF V!certMaterialFromBundle, V!Bad
  <2>2. written = m
    BY <2>1, SMTT(30) DEF V!signatureAnnotations
  <2> QED BY <1>3, <2>1, <2>2
<1>4. CASE pb.cert \notin {"none", "broken"}
  <2>1. m = [is |-> "cert", cert |-> pb.cert, tlog |-> pb.tlog]
    BY <1>4 DEF V!certMaterialFromBundle
  <2>2. m.is = "cert" /\ m.cert = pb.cert /\ m.tlog = pb.tlog
    BY <2>1, SMTT(30)
  <2>3. CASE pb.tlog = "proof"
    <3>1. written = lost
      BY <2>2, <2>3, SMTT(30) DEF V!signatureAnnotations
    <3>2. lost.is = "error"
      BY DEF V!Bad
    <3> QED BY <1>4, <2>3, <3>1, <3>2
  <2>4. CASE pb.tlog # "proof"
    <3>1. written = [is |-> "layer", signature |-> "ok", cert |-> pb.cert, bundle |-> entry]
      BY <2>2, <2>4 DEF V!signatureAnnotations
    <3>2. Kept(pb) = [is |-> "cert", cert |-> pb.cert, tlog |-> entry]
      BY <1>4 DEF Kept
    <3> HIDE DEF entry
    <3>3. written.is = "layer" /\ written.cert = pb.cert /\ written.bundle = entry
      BY <3>1, SMTT(30)
    <3>4. V!getBundleVerificationMaterial(written) = Kept(pb)
      BY <1>1, <1>4, <3>2, <3>3, SMTT(30) DEF V!getBundleVerificationMaterial
    <3> QED BY <1>4, <2>4, <3>3, <3>4
  <2> QED BY <2>3, <2>4
<1> QED BY <1>2, <1>3, <1>4

\* The layers that make a bundle are the well-formed ones (sigstore.go).
LEMMA LayerMakesBundle ==
  ASSUME NEW l \in V!SignatureLayer
  PROVE  HoldsBundle(l) <=> /\ l.media = "simplesigning"
                           /\ V!getBundleVerificationMaterial(l).is # "error"
                           /\ V!getBundleMsgSignature(l).is # "error"
                           /\ l.accepted
<1>1. l.signature \in {"none", "broken", "ok"}
  BY DEF V!SignatureLayer
<1>2. V!getBundleVerificationMaterial(l).is = "error" <=>
        \/ l.cert = "none" /\ l.signature = "none"
        \/ l.cert = "broken"
        \/ l.cert # "none" /\ l.bundle = "broken"
  BY SMTT(30) DEF V!getBundleVerificationMaterial, V!Bad
<1>3. V!getBundleMsgSignature(l).is = "error" <=> l.algorithm # "sha256" \/ l.signature = "broken"
  <2> DEFINE a == l.algorithm # "sha256"   b == l.signature = "broken"
             x == V!Bad("algorithm")       y == V!Bad("signature")     z == [is |-> "signature"]
  <2>1. a \in BOOLEAN /\ b \in BOOLEAN /\ x.is = "error" /\ y.is = "error" /\ z.is # "error"
    BY SMTT(30) DEF V!Bad
  <2>2. V!getBundleMsgSignature(l) = V!FirstOf(<< <<a, x>>, <<b, y>> >>, z)
    BY DEF V!getBundleMsgSignature
  <2>3. a \/ b <=> l.algorithm # "sha256" \/ l.signature = "broken"
    OBVIOUS
  <2> HIDE DEF a, b, x, y, z
  <2>4. V!getBundleMsgSignature(l) = IF a THEN x ELSE IF b THEN y ELSE z
    BY <2>1, <2>2, TwoChecks, SMTT(30)
  <2> QED BY <2>1, <2>3, <2>4
<1> QED BY <1>1, <1>2, <1>3 DEF HoldsBundle

\* What the two ways to bundles of an image find (sigstore.go, attestations.go).
LEMMA Retrieved ==
  ASSUME NEW image \in V!Image, image.exists, image.stays
  PROVE  LET layers == {l \in Range(image.layers) : image.readable /\ HoldsBundle(l)}
             referrers == {r \in Range(image.referrers) : image.listed /\ Attested(r)}
             found == IF layers # {} THEN layers ELSE referrers
         IN V!getSigstoreBundles(image) = IF found = {} THEN V!Bad("not found")
                                          ELSE [is |-> "bundles", of |-> found]
<1> DEFINE layers == {l \in Range(image.layers) : image.readable /\ HoldsBundle(l)}
           referrers == {r \in Range(image.referrers) : image.listed /\ Attested(r)}
           Found(set) == IF set = {} THEN V!Bad("not found") ELSE [is |-> "bundles", of |-> set]
           no == ~image.exists
           gone == ~image.stays
           bad == V!Bad("image")
           missing == V!Bad("not found")
<1>1. image.layers \in Seq(V!SignatureLayer) /\ image.referrers \in Seq(V!Referrer)
  BY DEF V!Image
<1>2. /\ \A l \in Range(image.layers) : l \in V!SignatureLayer
      /\ \A r \in Range(image.referrers) : r \in V!Referrer
  BY <1>1, SMTT(30) DEF Range
<1>3. V!Range(image.layers) = Range(image.layers) /\ V!Range(image.referrers) = Range(image.referrers)
  BY DEF V!Range, Range
<1>4. no \in BOOLEAN /\ ~no /\ gone \in BOOLEAN /\ ~gone
  OBVIOUS
<1>5. V!bundleFromSigstoreSignedImage(image) = Found(layers)
  <2> DEFINE simple == {l \in V!Range(image.layers) : l.media = "simplesigning"}
             good == {l \in simple : /\ V!getBundleVerificationMaterial(l).is # "error"
                                     /\ V!getBundleMsgSignature(l).is # "error"
                                     /\ l.accepted}
             none == ~image.readable \/ good = {}
             ok == [is |-> "bundles", of |-> good]
  <2>1. V!bundleFromSigstoreSignedImage(image) = V!FirstOf(<< <<no, bad>>, <<none, missing>> >>, ok)
    BY DEF V!bundleFromSigstoreSignedImage
  <2>2. good = {l \in Range(image.layers) : HoldsBundle(l)}
    BY <1>2, <1>3, LayerMakesBundle
  <2>3. none \in BOOLEAN
    OBVIOUS
  <2>4. Found(layers) = IF none THEN missing ELSE ok
    <3>1. layers = IF image.readable THEN good ELSE {}
      BY <2>2
    <3> HIDE DEF layers, good
    <3> QED BY <3>1
  <2> HIDE DEF good, no, bad, none, missing, ok
  <2>5. V!FirstOf(<< <<no, bad>>, <<none, missing>> >>, ok) = IF no THEN bad ELSE IF none THEN missing ELSE ok
    BY <1>4, <2>3, TwoChecks, SMTT(30)
  <2> QED BY <1>4, <2>1, <2>4, <2>5
<1>6. V!bundleFromAttestation(image) = Found(referrers)
  <2> DEFINE good == {r \in V!Range(image.referrers) :
                        /\ r.type \in {"bundle", "empty", ""}
                        /\ r.fetched
                        /\ r.type = "bundle" \/ V!isSigstoreBundle(r)
                        /\ r.parses}
             none == ~image.listed \/ good = {}
             ok == [is |-> "bundles", of |-> good]
  <2>1. V!bundleFromAttestation(image) = V!FirstOf(<< <<gone, bad>>, <<none, missing>> >>, ok)
    BY DEF V!bundleFromAttestation
  <2>2. good = {r \in Range(image.referrers) : Attested(r)}
    <3>1. ASSUME NEW r \in V!Referrer
          PROVE Attested(r) <=> /\ r.type \in {"bundle", "empty", ""} /\ r.fetched
                                /\ r.type = "bundle" \/ V!isSigstoreBundle(r)
                                /\ r.parses
      <4>1. r.type \in {"bundle", "empty", "", "other"}
        BY DEF V!Referrer
      <4> QED BY <4>1 DEF Attested, V!isSigstoreBundle
    <3> QED BY <1>2, <1>3, <3>1
  <2>3. none \in BOOLEAN
    OBVIOUS
  <2>4. Found(referrers) = IF none THEN missing ELSE ok
    <3>1. referrers = IF image.listed THEN good ELSE {}
      BY <2>2
    <3> HIDE DEF referrers, good
    <3> QED BY <3>1
  <2> HIDE DEF good, gone, bad, none, missing, ok
  <2>5. V!FirstOf(<< <<gone, bad>>, <<none, missing>> >>, ok) = IF gone THEN bad ELSE IF none THEN missing ELSE ok
    BY <1>4, <2>3, TwoChecks, SMTT(30)
  <2> QED BY <1>4, <2>1, <2>4, <2>5
<1>7. CASE layers = {}
  <2>1. V!getSigstoreBundles(image) = Found(referrers)
    BY <1>5, <1>6, <1>7 DEF V!getSigstoreBundles
  <2> QED BY <1>7, <2>1
<1>8. CASE layers # {}
  <2>1. Found(layers).is = "bundles" /\ V!Bad("not found").is = "error"
    BY <1>8 DEF V!Bad
  <2>2. V!getSigstoreBundles(image) = Found(layers)
    BY <1>5, <2>1 DEF V!getSigstoreBundles
  <2> QED BY <1>8, <2>2
<1> QED BY <1>7, <1>8

\* The part before "@" is the longest beginning without one.
LEMMA BeforeAtIs ==
  ASSUME NEW san \in Seq(STRING)
  PROVE  \E n \in 0..Len(san) :
           /\ V!BeforeAt(san) = SubSeq(san, 1, n)
           /\ \A i \in 1..n : san[i] # "@"
           /\ n < Len(san) => san[n + 1] = "@"
<1> DEFINE at == {i \in DOMAIN san : san[i] = "@"}
<1>1. Len(san) \in Nat /\ DOMAIN san = 1..Len(san)
  BY SMTT(30)
<1>2. CASE at = {}
  <2>1. V!BeforeAt(san) = san
    BY <1>2 DEF V!BeforeAt
  <2>2. san = SubSeq(san, 1, Len(san))
    BY SMTT(30)
  <2>3. \A i \in 1..Len(san) : san[i] # "@"
    BY <1>1, <1>2
  <2>4. Len(san) \in 0..Len(san) /\ ~(Len(san) < Len(san))
    BY <1>1, SMTT(30)
  <2> QED BY <2>1, <2>2, <2>3, <2>4
<1>3. CASE at # {}
  <2> DEFINE k == CHOOSE i \in at : \A j \in at : i <= j
  <2>1. at \subseteq Nat
    BY <1>1, SMTT(30)
  <2>2. \E x \in at : \A y \in at : x <= y
    BY <1>3, <2>1, NatMin
  <2>3. k \in at /\ \A y \in at : k <= y
    BY <2>2
  <2>4. V!BeforeAt(san) = SubSeq(san, 1, k - 1)
    BY <1>3 DEF V!BeforeAt
  <2> HIDE DEF k
  <2>5. k \in 1..Len(san) /\ san[k] = "@" /\ \A i \in 1..Len(san) : san[i] = "@" => k <= i
    BY <1>1, <2>3
  <2>6. k - 1 \in 0..Len(san) /\ (k - 1) + 1 = k
    BY <1>1, <2>5, SMTT(30)
  <2>7. \A i \in 1..(k - 1) : san[i] # "@"
    BY <1>1, <2>5, SMTT(30)
  <2> QED BY <2>4, <2>5, <2>6, <2>7
<1> QED BY <1>2, <1>3

\* A name begins with a part without "@", up to its end or an "@", exactly when that part is the
\* one before its "@".
LEMMA AnchoredMatch ==
  ASSUME NEW before \in Seq(STRING), NEW san \in Seq(STRING), \A i \in 1..Len(before) : before[i] # "@"
  PROVE  LET rest == V!TrimPrefix(san, before)
         IN V!HasPrefix(san, before) /\ (rest = <<>> \/ rest[1] = "@") <=> V!BeforeAt(san) = before
<1> DEFINE m == Len(before)
           tail == SubSeq(san, m + 1, Len(san))
           rest == V!TrimPrefix(san, before)
<1>1. m \in Nat /\ Len(san) \in Nat
  BY SMTT(30)
<1>2. PICK n \in 0..Len(san) :
        /\ V!BeforeAt(san) = SubSeq(san, 1, n)
        /\ \A i \in 1..n : san[i] # "@"
        /\ n < Len(san) => san[n + 1] = "@"
  BY BeforeAtIs
<1>3. V!HasPrefix(san, before) <=> m <= Len(san) /\ \A i \in 1..m : san[i] = before[i]
  BY <1>1, SMTT(30) DEF V!HasPrefix
<1>4. V!HasPrefix(san, before) => rest = tail
  BY DEF V!TrimPrefix
<1>5. m <= Len(san) => /\ (tail = <<>> <=> m = Len(san))
                       /\ m < Len(san) => tail[1] = san[m + 1]
  <2> HIDE DEF m
  <2> SUFFICES ASSUME m <= Len(san)
               PROVE  (tail = <<>> <=> m = Len(san)) /\ (m < Len(san) => tail[1] = san[m + 1])
    OBVIOUS
  <2>1. tail \in Seq(STRING) /\ Len(tail) = Len(san) - m /\ \A i \in 1..(Len(san) - m) : tail[i] = san[m + i]
    BY <1>1, SMTT(30)
  <2> HIDE DEF tail
  <2>2. tail = <<>> <=> Len(tail) = 0
    BY <2>1, SMTT(30)
  <2>3. m < Len(san) => tail[1] = san[m + 1]
    BY <1>1, <2>1, SMTT(30)
  <2>4. Len(san) - m = 0 <=> m = Len(san)
    BY <1>1, SMTT(30)
  <2> QED BY <2>1, <2>2, <2>3, <2>4
<1> HIDE DEF rest, tail
<1>6. ASSUME V!HasPrefix(san, before), rest = <<>> \/ rest[1] = "@" PROVE V!BeforeAt(san) = before
  <2>1. /\ m <= Len(san) /\ \A i \in 1..m : san[i] = before[i] /\ san[i] # "@"
        /\ m < Len(san) => san[m + 1] = "@"
    BY <1>1, <1>3, <1>4, <1>5, <1>6, SMTT(30)
  <2> HIDE DEF m
  <2>2. n = m
    BY <1>1, <1>2, <2>1, SMTT(30)
  <2>3. SubSeq(san, 1, Len(before)) = before
    BY <1>1, <2>1, SMTT(30) DEF m
  <2> QED BY <1>2, <2>2, <2>3 DEF m
<1>7. ASSUME V!BeforeAt(san) = before PROVE V!HasPrefix(san, before) /\ (rest = <<>> \/ rest[1] = "@")
  <2>1. Len(SubSeq(san, 1, n)) = n /\ \A i \in 1..n : SubSeq(san, 1, n)[i] = san[i]
    BY <1>1, SMTT(30)
  <2>2. m = n /\ \A i \in 1..n : before[i] = san[i]
    BY <1>2, <1>7, <2>1
  <2>3. m <= Len(san) /\ \A i \in 1..m : san[i] = before[i]
    BY <1>1, <2>2, SMTT(30)
  <2>4. V!HasPrefix(san, before)
    BY <1>3, <2>3
  <2>5. m < Len(san) => rest[1] = "@"
    BY <1>2, <1>4, <1>5, <2>2, <2>3, <2>4
  <2>6. m = Len(san) => rest = <<>>
    BY <1>4, <1>5, <2>3, <2>4
  <2> QED BY <1>1, <2>3, <2>4, <2>5, <2>6, SMTT(30)
<1> QED BY <1>6, <1>7 DEF rest

\* What a certificate's identity is (verifier.go, signerIdentityFromCertificate).
LEMMA SignerIs ==
  ASSUME NEW c
  PROVE  V!signerIdentityFromCertificate(c) =
           IF c.san = <<>> THEN V!Bad("no SAN")
           ELSE IF c.issuer # V!GitHub THEN [is |-> "identity", of |-> c.san]
           ELSE IF c.repo = <<>> THEN V!Bad("no repository")
           ELSE [is |-> "identity", of |-> V!TrimPrefix(V!BeforeAt(c.san), c.repo)]
<1> DEFINE a1 == c.san = <<>>             x1 == V!Bad("no SAN")
           a2 == c.issuer # V!GitHub      x2 == [is |-> "identity", of |-> c.san]
           a3 == c.repo = <<>>            x3 == V!Bad("no repository")
           x4 == [is |-> "identity", of |-> V!TrimPrefix(V!BeforeAt(c.san), c.repo)]
           r == V!signerIdentityFromCertificate(c)
<1>1. r = V!FirstOf(<< <<a1, x1>>, <<a2, x2>>, <<a3, x3>> >>, x4)
  BY DEF V!signerIdentityFromCertificate
<1>2. a1 \in BOOLEAN /\ a2 \in BOOLEAN /\ a3 \in BOOLEAN
  OBVIOUS
<1> HIDE DEF a1, a2, a3, x1, x2, x3, x4, r
<1>3. r = IF a1 THEN x1 ELSE IF a2 THEN x2 ELSE IF a3 THEN x3 ELSE x4
  BY <1>1, <1>2, ThreeChecks, SMTT(30)
<1> QED BY <1>3 DEF a1, a2, a3, x1, x2, x3, x4, r

\* A genuine bundle verifies unless the policy of the expected identity refuses its certificate
\* (bundles.go, VerifyBundle).
LEMMA BundleVerdict ==
  ASSUME NEW d, NEW expected, expected.is = "identity", V!PolicyBuilds(expected)
  PROVE  LET b == [parsed |-> TRUE, options |-> TRUE, verifier |-> TRUE, digest |-> TRUE,
                   genuine |-> TRUE, cert |-> d]
         IN V!VerifyBundle(b, expected) = "ok" <=> V!identityPolicyOption(expected, d)
<1> DEFINE b == [parsed |-> TRUE, options |-> TRUE, verifier |-> TRUE, digest |-> TRUE,
                 genuine |-> TRUE, cert |-> d]
           a1 == ~b.parsed   a2 == ~b.options   a3 == ~b.verifier   a4 == ~b.digest
           a5 == expected.is = "identity" /\ ~V!PolicyBuilds(expected)
           a6 == ~b.genuine
           a7 == expected.is = "identity" /\ ~V!identityPolicyOption(expected, b.cert)
           s == << <<a1, "not parsed">>, <<a2, "options">>, <<a3, "verifier">>, <<a4, "digest">>,
                   <<a5, "identity">>, <<a6, "failed">>, <<a7, "failed">> >>
           r == V!VerifyBundle(b, expected)
<1>1. r = V!FirstOf(s, "ok")
  BY DEF V!VerifyBundle
<1>2. ~a1 /\ ~a2 /\ ~a3 /\ ~a4 /\ ~a5 /\ ~a6 /\ (a7 <=> ~V!identityPolicyOption(expected, d))
  OBVIOUS
<1> HIDE DEF a1, a2, a3, a4, a5, a6, a7
<1>3. /\ DOMAIN s = 1..7
      /\ s[1][1] = a1 /\ s[2][1] = a2 /\ s[3][1] = a3 /\ s[4][1] = a4 /\ s[5][1] = a5 /\ s[6][1] = a6
      /\ s[7][1] = a7 /\ s[7][2] = "failed"
  BY SMTT(30)
<1> HIDE DEF s
<1>4. \/ \E i \in 1..7 : s[i][1] /\ (\A j \in 1..7 : s[j][1] => i <= j) /\ V!FirstOf(s, "ok") = s[i][2]
      \/ (\A i \in 1..7 : ~s[i][1]) /\ V!FirstOf(s, "ok") = "ok"
  <2>1. 7 \in Nat
    BY SMTT(30)
  <2> QED BY <1>3, <2>1, FirstHit
<1> HIDE DEF r
<1>5. r = "ok" <=> ~a7
  BY <1>1, <1>2, <1>3, <1>4, SMTT(30)
<1> QED BY <1>2, <1>5 DEF r

\* A sequence is a beginning of it and the rest.
LEMMA Rejoined ==
  ASSUME NEW whole \in Seq(STRING), NEW begin \in Seq(STRING), Len(begin) <= Len(whole),
         \A i \in 1..Len(begin) : whole[i] = begin[i]
  PROVE  begin \o SubSeq(whole, Len(begin) + 1, Len(whole)) = whole
  BY SMTT(30)

\* An identity recorded from a workflow of its own repository, or from a person, admits exactly
\* the certificates of its issuer with its name (bundles.go, identityPolicyOption).
LEMMA IdentityAdmits ==
  ASSUME NEW c \in V!Certificate, NEW d \in V!Certificate, OwnWorkflow(c) \/ Person(c)
  PROVE  LET recorded == V!IdentityFromResult(c)
         IN /\ recorded.is = "identity" /\ V!PolicyBuilds(recorded)
            /\ V!identityPolicyOption(recorded, d) <=>
                 /\ d.issuer = c.issuer
                 /\ IF Person(c) THEN d.san = c.san ELSE V!BeforeAt(d.san) = V!BeforeAt(c.san)
<1> DEFINE recorded == V!IdentityFromResult(c)
           signer == V!signerIdentityFromCertificate(c)
<1>1. /\ c.san \in Seq(STRING) /\ c.repo \in Seq(STRING) /\ d.san \in Seq(STRING)
  BY DEF V!Certificate
<1>2. CASE Person(c)
  <2>1. c.san # <<>> /\ c.issuer # V!GitHub /\ c.repo = <<>>
    BY <1>2 DEF Person
  <2>2. signer = [is |-> "identity", of |-> c.san]
    BY <2>1, SignerIs
  <2>3. recorded = [is |-> "identity", signer |-> c.san, issuer |-> c.issuer, repo |-> c.repo]
    BY <2>2, SMTT(30) DEF V!IdentityFromResult
  <2>4. recorded.is = "identity" /\ recorded.signer = c.san /\ recorded.issuer = c.issuer /\ recorded.repo = <<>>
    BY <2>1, <2>3, SMTT(30)
  <2> HIDE DEF recorded
  <2>5. V!identityPolicyOption(recorded, d) <=> d.issuer = c.issuer /\ d.san = c.san
    BY <2>4, SMTT(30) DEF V!identityPolicyOption
  <2>6. V!PolicyBuilds(recorded)
    BY <1>2, <2>1, <2>4 DEF V!PolicyBuilds, Person
  <2> QED BY <1>2, <2>4, <2>5, <2>6 DEF recorded
<1>3. CASE OwnWorkflow(c)
  <2> DEFINE B == V!BeforeAt(c.san)
             path == SubSeq(B, Len(c.repo) + 1, Len(B))
  <2>1. c.issuer = V!GitHub /\ c.repo # <<>> /\ V!HasPrefix(B, c.repo) /\ ~Person(c)
    BY <1>3 DEF OwnWorkflow, Person
  <2>2. PICK n \in 0..Len(c.san) : B = SubSeq(c.san, 1, n) /\ \A i \in 1..n : c.san[i] # "@"
    BY <1>1, BeforeAtIs
  <2> HIDE DEF B
  <2>3. B \in Seq(STRING) /\ Len(B) = n /\ \A i \in 1..Len(B) : B[i] # "@"
    BY <1>1, <2>2, SMTT(30)
  <2>4. Len(c.repo) \in Nat /\ Len(c.repo) > 0 /\ Len(B) \in Nat
    BY <1>1, <2>1, <2>3, SMTT(30)
  <2>5. Len(c.repo) <= Len(B) /\ \A i \in 1..Len(c.repo) : B[i] = c.repo[i]
    BY <1>1, <2>1, <2>3, <2>4, SMTT(30) DEF V!HasPrefix
  <2>6. c.san # <<>>
    <3>1. Len(c.san) > 0
      BY <1>1, <2>2, <2>3, <2>4, <2>5, SMTT(30)
    <3> QED BY <3>1, SMTT(30)
  <2>7. c.repo \o path = B
    BY <1>1, <2>3, <2>5, Rejoined
  <2>8. V!TrimPrefix(B, c.repo) = path
    BY <2>1 DEF V!TrimPrefix
  <2> HIDE DEF path
  <2>9. signer = [is |-> "identity", of |-> path]
    BY <2>1, <2>6, <2>8, SignerIs DEF B
  <2>10. recorded = [is |-> "identity", signer |-> path, issuer |-> c.issuer, repo |-> c.repo]
    BY <2>9, SMTT(30) DEF V!IdentityFromResult
  <2>11. recorded.is = "identity" /\ recorded.signer = path /\ recorded.issuer = c.issuer /\ recorded.repo = c.repo
    BY <2>10, SMTT(30)
  <2> HIDE DEF recorded
  <2>12. LET rest == V!TrimPrefix(d.san, B)
         IN V!HasPrefix(d.san, B) /\ (rest = <<>> \/ rest[1] = "@") <=> V!BeforeAt(d.san) = B
    BY <1>1, <2>3, AnchoredMatch, SMTT(30)
  <2>13. V!identityPolicyOption(recorded, d) <=> d.issuer = c.issuer /\ V!BeforeAt(d.san) = B
    BY <2>1, <2>7, <2>11, <2>12 DEF V!identityPolicyOption
  <2>14. V!PolicyBuilds(recorded)
    BY <2>1, <2>11 DEF V!PolicyBuilds, V!GitHub
  <2> QED BY <2>1, <2>11, <2>13, <2>14 DEF recorded, B
<1> QED BY <1>2, <1>3

\* A result that matches a provenance has what its constraints are about (verifier.go).
LEMMA MatchHas ==
  ASSUME NEW r \in V!VerificationResult, NEW p \in V!Provenance,
         V!isVerificationResultMatchingServerProvenance(r, p)
  PROVE  /\ r.cert.is = "cert"
         /\ (p.signer # <<>>) => V!signerIdentityFromCertificate(r.cert).is = "identity"
         /\ (p.attestation.is = "asked") =>
              /\ r.statement.is = "statement"
              /\ (p.attestation.predicate.shape # "none") =>
                   (p.attestation.predicate = [shape |-> "object", fields |-> r.statement.fields])
<1>1. r.cert.is # "none" /\ V!compareBaseProperties(r.cert, p) /\ V!compareAttestation(r, p)
  BY DEF V!isVerificationResultMatchingServerProvenance
<1>2. r.cert.is = "cert"
  <2>1. r.cert \in V!Certificate \/ r.cert = V!NoCertificate
    BY DEF V!VerificationResult
  <2>2. ASSUME r.cert \in V!Certificate PROVE r.cert.is = "cert"
    BY <2>2 DEF V!Certificate
  <2>3. V!NoCertificate.is = "none"
    BY DEF V!NoCertificate
  <2> QED BY <1>1, <2>1, <2>2, <2>3
<1>3. ASSUME p.signer # <<>> PROVE V!signerIdentityFromCertificate(r.cert).is = "identity"
  <2> DEFINE signer == V!signerIdentityFromCertificate(r.cert)
  <2>1. p.signer = IF signer.is = "error" THEN <<>> ELSE signer.of
    BY <1>1, <1>3 DEF V!compareBaseProperties
  <2>2. signer.is # "error"
    BY <1>3, <2>1
  <2>3. V!Bad("no SAN").is = "error" /\ V!Bad("no repository").is = "error"
    BY DEF V!Bad
  <2>4. \/ signer = V!Bad("no SAN") \/ signer = V!Bad("no repository")
        \/ signer = [is |-> "identity", of |-> r.cert.san]
        \/ signer = [is |-> "identity", of |-> V!TrimPrefix(V!BeforeAt(r.cert.san), r.cert.repo)]
    BY SignerIs
  <2> HIDE DEF signer
  <2>5. signer.is = "identity"
    <3>1. CASE signer = V!Bad("no SAN") \/ signer = V!Bad("no repository")
      BY <2>2, <2>3, <3>1
    <3>2. CASE signer = [is |-> "identity", of |-> r.cert.san]
      BY <3>2
    <3>3. CASE signer = [is |-> "identity", of |-> V!TrimPrefix(V!BeforeAt(r.cert.san), r.cert.repo)]
      BY <3>3
    <3> QED BY <2>4, <3>1, <3>2, <3>3
  <2> QED BY <2>5 DEF signer
<1>4. ASSUME p.attestation.is = "asked"
      PROVE  /\ r.statement.is = "statement"
             /\ (p.attestation.predicate.shape # "none") =>
                   (p.attestation.predicate = [shape |-> "object", fields |-> r.statement.fields])
  <2>1. /\ r.statement.is # "none"
        /\ \/ p.attestation.predicate.shape = "none"
           \/ V!normalizeAttestationPredicate(p.attestation.predicate) =
                [is |-> "object", fields |-> r.statement.fields]
    BY <1>1, <1>4 DEF V!compareAttestation
  <2>2. r.statement.is \in {"none", "statement"} /\ p.attestation.predicate \in [shape : STRING, fields : STRING]
    BY DEF V!VerificationResult, V!Statement, V!Provenance
  <2> DEFINE q == p.attestation.predicate
             f == r.statement.fields
  <2>3. ASSUME V!normalizeAttestationPredicate(q) = [is |-> "object", fields |-> f]
        PROVE  q.shape = "object" /\ q.fields = f
    <3>1. V!normalizeAttestationPredicate(q).is = "object" /\ V!normalizeAttestationPredicate(q).fields = f
      BY <2>3, SMTT(30)
    <3>2. V!Bad("shape").is = "error"
      BY SMTT(30) DEF V!Bad
    <3>3. q.shape = "object"
      BY <3>1, <3>2 DEF V!normalizeAttestationPredicate
    <3>4. V!normalizeAttestationPredicate(q) = [is |-> "object", fields |-> q.fields]
      BY <3>3 DEF V!normalizeAttestationPredicate
    <3>5. V!normalizeAttestationPredicate(q).fields = q.fields
      BY <3>4, SMTT(30)
    <3> QED BY <3>1, <3>3, <3>5
  <2>4. ASSUME q.shape = "object", q.fields = f PROVE q = [shape |-> "object", fields |-> f]
    BY <2>2, <2>4, SMTT(30)
  <2> QED BY <2>1, <2>2, <2>3, <2>4
<1> QED BY <1>2, <1>3, <1>4

\* A provenance verifies only by a bundle that verified and whose result matches it
\* (verifier.go, VerifyServer).
LEMMA ServerVerified ==
  ASSUME NEW found \in V!Found, NEW p, V!VerifyServer(found, p) = "verified"
  PROVE  /\ found.is = "bundles"
         /\ \E b \in found.of : b.genuine /\ V!isVerificationResultMatchingServerProvenance(b.result, p)
<1> DEFINE results == V!GetVerificationResults(found)
           none == results.of = {}
           some == \E r \in results.of : V!isVerificationResultMatchingServerProvenance(r, p)
           x == "not signed"   y == "verified"   z == "mismatch"
<1>1. x # y /\ z # y /\ none \in BOOLEAN /\ some \in BOOLEAN
  OBVIOUS
<1>2. results.is # "error" /\ V!FirstOf(<< <<none, x>>, <<some, y>> >>, z) = y
  BY DEF V!VerifyServer
<1>3. some
  <2> HIDE DEF none, some, x, y, z
  <2>1. V!FirstOf(<< <<none, x>>, <<some, y>> >>, z) = IF none THEN x ELSE IF some THEN y ELSE z
    BY <1>1, TwoChecks, SMTT(30)
  <2> QED BY <1>1, <1>2, <2>1
<1>4. found.is = "bundles"
  <2> SUFFICES ASSUME found.is # "bundles" PROVE FALSE
    OBVIOUS
  <2>1. found \in [is : {"error"}, why : STRING]
    <3>1. ASSUME found \in [is : {"bundles"}, of : SUBSET [genuine : BOOLEAN, result : V!VerificationResult]]
          PROVE found.is = "bundles"
      BY <3>1
    <3> QED BY <3>1 DEF V!Found
  <2>2. found.is = "error"
    BY <2>1
  <2>3. CASE found = V!Bad("not found")
    <3>1. results = [is |-> "results", of |-> {}]
      BY <2>2, <2>3 DEF V!GetVerificationResults
    <3> HIDE DEF results
    <3>2. results.of = {}
      BY <3>1, SMTT(30)
    <3> QED BY <1>3, <3>2
  <2>4. CASE found # V!Bad("not found")
    <3>1. results = found
      BY <2>4 DEF V!GetVerificationResults
    <3> QED BY <1>2, <2>2, <3>1
  <2> QED BY <2>3, <2>4
<1>5. results.of = {b.result : b \in {c \in found.of : c.genuine}}
  <2>1. results = [is |-> "results", of |-> V!getVerifiedResults(found.of)]
    BY <1>4 DEF V!GetVerificationResults
  <2> HIDE DEF results
  <2>2. results.of = V!getVerifiedResults(found.of)
    BY <2>1, SMTT(30)
  <2> QED BY <2>2 DEF V!getVerifiedResults
<1> QED BY <1>3, <1>4, <1>5

\* A call is one the verifier is given, and what it was answered is the verdict on it.
VerifierInv == call \in VerifierCalls /\ (answer = <<>> \/ answer = <<Verdict(call)>>)

\* Every answer of the verifier is its verdict.
LEMMA VerifierAnswers == VerifierSpec => []VerifierInv
<1>1. VerifierInit => VerifierInv
  BY DEF VerifierInit, VerifierInv
<1>2. VerifierInv /\ [Verify]_<<call, answer>> => VerifierInv'
  BY DEF VerifierInv, Verify, Verdict
<1> QED BY <1>1, <1>2, PTL DEF VerifierSpec

\* What the signer writes is read back but for the inclusion proof, and the bundles found of an
\* image are exactly those among what can be read of it, for every bundle and image
\* (cosign_attach.go, sigstore.go, attestations.go).
THEOREM SignaturesAreFound == VerifierSpec => []SignedIsFound
<1>1. VerifierInv => SignedIsFound
  <2> SUFFICES ASSUME VerifierInv, answer # <<>> PROVE SignedIsFound
    BY DEF SignedIsFound, Answered
  <2>1. answer[1] = Verdict(call)
    BY SMTT(30) DEF VerifierInv
  <2>2. ASSUME call.op = "attach"
        PROVE  IF call.pb.cert = "broken" \/ (call.pb.cert # "none" /\ call.pb.tlog = "proof")
               THEN answer[1].is = "error" ELSE answer[1] = Kept(call.pb)
    <3>1. call.pb \in V!Bundle
      BY <2>2, VerifierAssumption DEF VerifierInv
    <3>2. Verdict(call) = LET written == V!signatureAnnotations(V!certMaterialFromBundle(call.pb))
                          IN IF written.is = "error" THEN written ELSE V!getBundleVerificationMaterial(written)
      BY <2>2 DEF Verdict
    <3> QED BY <2>1, <3>1, <3>2, ReadBack, SMTT(30)
  <2>3. ASSUME call.op = "retrieve", call.image.exists, call.image.stays
        PROVE  LET layers == {l \in Range(call.image.layers) : call.image.readable /\ HoldsBundle(l)}
                   referrers == {r \in Range(call.image.referrers) : call.image.listed /\ Attested(r)}
                   found == IF layers # {} THEN layers ELSE referrers
               IN answer[1] = IF found = {} THEN V!Bad("not found") ELSE [is |-> "bundles", of |-> found]
    <3>1. call.image \in V!Image
      BY <2>3, VerifierAssumption DEF VerifierInv
    <3>2. Verdict(call) = V!getSigstoreBundles(call.image)
      BY <2>3 DEF Verdict
    <3> QED BY <2>1, <2>3, <3>1, <3>2, Retrieved
  <2> QED BY <2>2, <2>3 DEF SignedIsFound, Answered
<1> QED BY <1>1, VerifierAnswers, PTL

\* A recorded identity admits exactly the certificates of its issuer with its name, and a
\* provenance is met only by a result that has what it asks about, for every certificate,
\* result and provenance (bundles.go, identityPolicyOption; verifier.go).
THEOREM VerificationMatches == VerifierSpec => []VerifiedIsMatched
<1>1. VerifierInv => VerifiedIsMatched
  <2> SUFFICES ASSUME VerifierInv, answer # <<>> PROVE VerifiedIsMatched
    BY DEF VerifiedIsMatched, Answered
  <2>1. answer[1] = Verdict(call)
    BY SMTT(30) DEF VerifierInv
  <2>2. ASSUME call.op = "identity", OwnWorkflow(call.recorded) \/ Person(call.recorded)
        PROVE  (answer[1] = "ok") <=>
                 /\ call.later.issuer = call.recorded.issuer
                 /\ IF Person(call.recorded) THEN call.later.san = call.recorded.san
                    ELSE V!BeforeAt(call.later.san) = V!BeforeAt(call.recorded.san)
    <3> DEFINE recorded == V!IdentityFromResult(call.recorded)
               b == [parsed |-> TRUE, options |-> TRUE, verifier |-> TRUE, digest |-> TRUE,
                     genuine |-> TRUE, cert |-> call.later]
    <3>1. call.recorded \in V!Certificate /\ call.later \in V!Certificate
      BY <2>2, VerifierAssumption DEF VerifierInv
    <3>2. /\ recorded.is = "identity" /\ V!PolicyBuilds(recorded)
          /\ V!identityPolicyOption(recorded, call.later) <=>
               /\ call.later.issuer = call.recorded.issuer
               /\ IF Person(call.recorded) THEN call.later.san = call.recorded.san
                  ELSE V!BeforeAt(call.later.san) = V!BeforeAt(call.recorded.san)
      BY <2>2, <3>1, IdentityAdmits
    <3>3. Verdict(call) = IF recorded.is = "error" THEN "unusable" ELSE V!VerifyBundle(b, recorded)
      BY <2>2 DEF Verdict
    <3> HIDE DEF recorded
    <3>4. V!VerifyBundle(b, recorded) = "ok" <=> V!identityPolicyOption(recorded, call.later)
      BY <3>2, BundleVerdict
    <3> QED BY <2>1, <3>2, <3>3, <3>4
  <2>3. ASSUME call.op = "server", answer[1] = "verified"
        PROVE  /\ call.found.is = "bundles"
               /\ \E b \in call.found.of :
                    /\ b.genuine
                    /\ b.result.cert.is = "cert"
                    /\ (call.provenance.signer # <<>>) =>
                         V!signerIdentityFromCertificate(b.result.cert).is = "identity"
                    /\ (call.provenance.attestation.is = "asked") =>
                         /\ b.result.statement.is = "statement"
                         /\ (call.provenance.attestation.predicate.shape # "none") =>
                              (call.provenance.attestation.predicate =
                                 [shape |-> "object", fields |-> b.result.statement.fields])
    <3>1. call.found \in V!Found /\ call.provenance \in V!Provenance
      BY <2>3, VerifierAssumption DEF VerifierInv
    <3>2. V!VerifyServer(call.found, call.provenance) = "verified"
      BY <2>1, <2>3 DEF Verdict
    <3>3. call.found.is = "bundles"
      BY <3>1, <3>2, ServerVerified
    <3>4. PICK b \in call.found.of :
            b.genuine /\ V!isVerificationResultMatchingServerProvenance(b.result, call.provenance)
      BY <3>1, <3>2, ServerVerified
    <3>5. b.result \in V!VerificationResult
      <4>1. ASSUME call.found \in [is : {"error"}, why : STRING] PROVE FALSE
        BY <3>3, <4>1
      <4>2. call.found.of \subseteq [genuine : BOOLEAN, result : V!VerificationResult]
        BY <3>1, <4>1 DEF V!Found
      <4> QED BY <4>2
    <3> QED BY <3>1, <3>3, <3>4, <3>5, MatchHas
  <2> QED BY <2>2, <2>3 DEF VerifiedIsMatched, Answered
<1> QED BY <1>1, VerifierAnswers, PTL

=============================================================================

--------------------------- MODULE SignedArtifact ---------------------------
(***************************************************************************)
(* The signers of Signing as one of the components about an artifact,      *)
(* under a name of its own beside the store's.                             *)
(***************************************************************************)
CONSTANTS Signer, Opts, Foreign

\* The layers that other tools append do not verify as one of the signers': no other tool
\* holds the keys, or a certificate of the trust root for the identities.
ASSUME ForeignAssumption == \A F \in Foreign : \A l \in F : ~l.trusted

VARIABLES opts, pc, made, base, result, worker, outcome, cancelled, sig, attached, foreign

S == INSTANCE Signing

\* What signing calls report is what the image holds, and cancelling ends a call; and the
\* property the code does not have, that a signature stays (Signing).
ReportedIsAttached == S!ReportedIsAttached
CancelledReturns == S!CancelledReturns
SignaturesAreKept == S!SignaturesAreKept

=============================================================================

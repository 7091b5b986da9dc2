-------------------------- MODULE MCRequestContext --------------------------
(* Small instances of RequestContext for TLC. *)
EXTENDS RequestContext, TLC

\* Requests and identities are interchangeable.
MCSymmetry == Permutations(Req) \cup Permutations(Ident)

=============================================================================

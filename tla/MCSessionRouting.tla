-------------------------- MODULE MCSessionRouting --------------------------
(* Small instances of SessionRouting for TLC. *)
EXTENDS SessionRouting, TLC

\* Requests are interchangeable, and so are replicas: no property and no action
\* names one.
MCSymmetry == Permutations(Req) \cup Permutations(Replica)

=============================================================================

------------------------------- MODULE Checks -------------------------------
(***************************************************************************)
(* Go's `if cond { return x }' cascades as data: a sequence of pairs, the  *)
(* first pair whose condition holds decides.                               *)
(***************************************************************************)
EXTENDS Naturals, Sequences

FirstOf(checks, otherwise) ==
  LET hit == {i \in DOMAIN checks : checks[i][1]}
  IN IF hit = {} THEN otherwise ELSE checks[CHOOSE i \in hit : \A j \in hit : i <= j][2]

=============================================================================

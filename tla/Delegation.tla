----------------------------- MODULE Delegation -----------------------------
(***************************************************************************)
(* ParseDelegationChain (audit/delegation.go): the nested `act' claim of a *)
(* token as a flat chain, outermost actor first, cut at a depth, with the  *)
(* first violation met on the way.                                         *)
(*                                                                         *)
(* A claim is [kind, hops, tail]: whether it is null, an object or another *)
(* value, the nested objects from the outside in and what the innermost    *)
(* one has for `act': nothing, null or a value that is no object.  A hop   *)
(* says of `iss' and `sub' whether they are absent, strings or others.     *)
(***************************************************************************)
EXTENDS Integers, Sequences, SequencesExt

CONSTANT DefaultMaxDelegationDepth

NewChain == [chain |-> <<>>, truncated |-> FALSE, omitted |-> 0, malformed |-> FALSE, reason |-> ""]

\* The first reason stays.
flagMalformed(c, reason) ==
  [c EXCEPT !.malformed = TRUE, !.reason = IF @ = "" THEN reason ELSE @]

\* What a hop keeps: the two identifiers where they are strings, the others as extra claims.
extraClaims(hop) == {k \in {"iss", "sub"} : hop[k] = "other"}
Actor(hop) == [iss |-> hop.iss = "string", sub |-> hop.sub = "string", extra |-> extraClaims(hop)]

AddHop(c, hop) ==
  LET afterIss == IF hop.iss = "other" THEN flagMalformed(c, "iss_not_string") ELSE c
      afterSub == IF hop.sub = "other" THEN flagMalformed(afterIss, "sub_not_string") ELSE afterIss
  IN [afterSub EXCEPT !.chain = Append(@, Actor(hop))]

\* Mutant: the cap's hop is counted as dropped too.
CountFromCap(hops, depth) == Len(hops) - depth + 1

\* The hops below the cap, the first dropped one included.
countRemainingHops(hops, depth) == Len(hops) - depth

EndsMalformed(c, raw) == IF raw.tail = "other" THEN flagMalformed(c, "nested_act_not_object") ELSE c

ParseDelegationChain(raw, maxDepth) ==
  LET depth == IF maxDepth <= 0 THEN DefaultMaxDelegationDepth ELSE maxDepth
      cut == Len(raw.hops) > depth
      kept == FoldLeft(AddHop, NewChain, IF cut THEN SubSeq(raw.hops, 1, depth) ELSE raw.hops)
      counted == IF cut THEN [kept EXCEPT !.truncated = TRUE, !.omitted = countRemainingHops(raw.hops, depth)]
                 ELSE kept
  IN CASE raw.kind = "null" -> NewChain
       [] raw.kind = "other" -> flagMalformed(NewChain, "act_not_object")
       [] raw.kind = "object" -> EndsMalformed(counted, raw)

\* A chain that says nothing is left out of the record.
IsZero(c) == c.chain = <<>> /\ ~c.truncated /\ ~c.malformed

=============================================================================

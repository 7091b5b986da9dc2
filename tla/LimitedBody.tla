----------------------------- MODULE LimitedBody -----------------------------
(***************************************************************************)
(* limitedBody of authn (authn.go): a response body that delivers at most  *)
(* Cap bytes and tells a body of exactly Cap bytes from a longer one.  The *)
(* body under it returns any number of the bytes asked for, io.EOF with    *)
(* the last one or after it, an error, or nothing for now.                 *)
(***************************************************************************)
EXTENDS Naturals

CONSTANTS Cap,      \* maxResponseBody
          MaxBody,  \* bound on the length of a body
          MaxRead   \* bound on the size of the caller's buffer

VARIABLES size,   \* bytes of the body
          taken,  \* bytes read off it
          read,   \* limitedBody.read
          eof,    \* limitedBody.eof
          given,  \* bytes the caller has received
          end     \* what the caller has been told: "none", "eof", "limit", "error"

vars == <<size, taken, read, eof, given, end>>

Init == /\ size \in 0..MaxBody
        /\ taken = 0 /\ read = 0 /\ given = 0
        /\ eof = FALSE /\ end = "none"

\* What a Read of k bytes of the body under it may return.
Under(k) == {r \in [n : 0..k, err : {"none", "eof", "error"}] :
               /\ taken + r.n <= size
               /\ r.err = "eof" => taken + r.n = size}

Least(a, b) == IF a < b THEN a ELSE b

ExhaustedIsLimit ==
  /\ end \in {"none", "eof"} /\ read >= Cap
  /\ end' = IF eof THEN "eof" ELSE "limit"
  /\ UNCHANGED <<size, taken, read, eof, given>>

\* A caller reads on until it gets an error; it may read again after io.EOF.
Exhausted ==
  /\ end \in {"none", "eof"} /\ read >= Cap
  /\ IF eof THEN end' = "eof" /\ UNCHANGED <<taken, eof>>
     ELSE \E r \in Under(1) :
            /\ taken' = taken + r.n
            /\ eof' = (r.n = 0 /\ r.err = "eof")
            /\ end' = IF r.n > 0 THEN "limit" ELSE r.err
  /\ UNCHANGED <<size, read, given>>

Below ==
  /\ end \in {"none", "eof"} /\ read < Cap
  /\ \E p \in 1..MaxRead : \E r \in Under(Least(p, Cap - read)) :
       /\ taken' = taken + r.n
       /\ read' = read + r.n
       /\ given' = given + r.n
       /\ eof' = (eof \/ r.err = "eof")
       /\ end' = r.err
  /\ UNCHANGED size

Next == Exhausted \/ Below

Spec == Init /\ [][Next]_vars

-----------------------------------------------------------------------------
(* Properties. *)

\* A body is told apart from a cut one: the caller is told that it has ended only when it has
\* all of it, and that it is too long only when it is longer than Cap, a body of exactly Cap
\* bytes whose end comes with or after its last byte included (authn.go, limitedBody.Read).
BodyIsExact == /\ end = "eof" => given = size
               /\ end = "limit" => size > Cap

=============================================================================

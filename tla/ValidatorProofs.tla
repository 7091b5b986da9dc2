--------------------------- MODULE ValidatorProofs ---------------------------
(***************************************************************************)
(* Theorems about a Validator: its construction fails closed, a capped     *)
(* body is told apart from a whole one, and what it answers to a token is  *)
(* the policy of its configuration, with a true reason; for every          *)
(* configuration and token.                                                *)
(***************************************************************************)
EXTENDS Validator, WellFoundedInduction, TLAPS

\* The default prover; a leaf with arithmetic or sequences cites SMTT.
USE ZenonT(30)

-----------------------------------------------------------------------------
(* Construction. *)

\* Nothing is settled before the end, nor dated; nothing is fetched before the cache is
\* registered; the error of the fetch is known when it is settled, and is nil only with keys
\* in the cache; the URL of the JWKS is what discovery looks for.
ConstructionInv ==
  /\ step # "end" => outcome = "none" /\ ~refusal /\ ~success
  /\ step \in {"discover", "backoff", "cache", "register"} => ~keys /\ refreshErr = "none"
  /\ step \in {"refresh", "lookup"} => refreshErr = "none"
  /\ step = "lookup" => keys
  /\ refreshErr = "nil" => keys
  /\ step \in {"discover", "backoff"} => url = "" /\ ~started
  /\ step = "cache" => ~started
  /\ FailsClosed

\* A validator without a provider has keys that count as fresh, a refused document is fatal, a
\* failed construction leaves nothing running, and exactly the construction's own successful
\* fetch dates the keys (authn.go, NewValidator, init).
THEOREM ConstructionFailsClosed == V!Spec => []FailsClosed
<1> USE DEF FailsClosed, V!FailsClosed
<1>1. V!Init => ConstructionInv
  BY DEF V!Init, ConstructionInv
<1>2. ConstructionInv /\ [V!Next]_(V!vars) => ConstructionInv'
  <2> SUFFICES ASSUME ConstructionInv, [V!Next]_(V!vars) PROVE ConstructionInv'
    OBVIOUS
  <2>1. CASE V!discoverJWKSURI
    <3>1. /\ outcome = "none" /\ ~refusal /\ ~keys /\ url = "" /\ ~success /\ ~started
          /\ refreshErr = "none"
          /\ provider' = provider /\ keys' = keys /\ success' = success
          /\ refreshErr' = refreshErr /\ started' = started
      BY <2>1 DEF ConstructionInv, V!discoverJWKSURI, V!Configured
    <3>2. \/ step' = "cache" /\ outcome' = outcome /\ refusal' = refusal /\ cancelled' = cancelled
          \/ step' = "end" /\ outcome' = "error" /\ cancelled' /\ url' = url
          \/ step' = "backoff" /\ outcome' = outcome /\ refusal' = refusal /\ url' = url
          \/ step' = "end" /\ outcome' = "ok" /\ provider /\ refusal' = refusal /\ url' = url
      BY <2>1 DEF V!discoverJWKSURI, V!Succeed, V!Fail
    <3>3. step' # "end" => outcome' = "none" /\ ~refusal' /\ ~success'
      BY <3>1, <3>2
    <3>4. /\ step' \in {"discover", "backoff"} => url' = "" /\ ~started'
          /\ step' = "cache" => ~started'
          /\ step' # "lookup"
      BY <3>1, <3>2
    <3>5. outcome' = "ok" => provider'
      BY <3>1, <3>2
    <3>6. refusal' => outcome' = "error" /\ url' = ""
      BY <3>1, <3>2
    <3>7. outcome' = "error" => cancelled'
      BY <3>1, <3>2
    <3>8. ~keys' /\ ~success' /\ refreshErr' = "none"
      BY <3>1, <3>2
    <3> QED BY <3>3, <3>4, <3>5, <3>6, <3>7, <3>8 DEF ConstructionInv
  <2>2. CASE V!discoverWithRetry
    BY <2>2 DEF ConstructionInv, V!discoverWithRetry, V!Succeed, V!Fail, V!Configured
  <2>3. CASE V!StartCache
    BY <2>3 DEF ConstructionInv, V!StartCache, V!Fail, V!Configured
  <2>4. CASE V!Register
    BY <2>4 DEF ConstructionInv, V!Register, V!Fail, V!Configured
  <2>5. CASE V!BackgroundFetch
    BY <2>5 DEF ConstructionInv, V!BackgroundFetch, V!Configured
  <2>6. CASE V!Refresh \/ V!Lookup
    <3>1. /\ outcome = "none" /\ ~refusal /\ ~success /\ refreshErr = "none"
          /\ outcome' = outcome /\ refusal' = refusal /\ success' = success
      BY <2>6 DEF ConstructionInv, V!Refresh, V!Lookup
    <3>2. step' \in {"lookup", "settle"} /\ (step' = "lookup" => keys' /\ refreshErr' = "none")
      BY <2>6, <3>1 DEF V!Refresh, V!Lookup
    <3>3. refreshErr' = "nil" => keys'
      BY <2>6, <3>1 DEF ConstructionInv, V!Refresh, V!Lookup
    <3> QED BY <3>1, <3>2, <3>3 DEF ConstructionInv
  <2>7. CASE V!Settle
    BY <2>7 DEF ConstructionInv, V!Settle, V!Succeed, V!Fail, V!Configured
  <2>8. CASE UNCHANGED V!vars
    BY <2>8 DEF ConstructionInv, V!vars
  <2> QED BY <2>1, <2>2, <2>3, <2>4, <2>5, <2>6, <2>7, <2>8 DEF V!Next
<1>3. ConstructionInv => FailsClosed
  BY DEF ConstructionInv
<1> QED BY <1>1, <1>2, <1>3, PTL DEF V!Spec

-----------------------------------------------------------------------------
(* The capped body. *)

\* What the reader has is what was taken off the body, but for the byte that told that it goes on.
BodyInv ==
  /\ size \in Nat /\ taken \in 0..size /\ read \in 0..Cap /\ given = read
  /\ eof => taken = size
  /\ end \in {"none", "eof"} => taken = given
  /\ end = "eof" => taken = size
  /\ end = "limit" => size > Cap

\* The reader of a capped body is told that it has ended only when it has all of it, and that it
\* is too long only when it is longer than the cap (authn.go, limitedBody.Read).
THEOREM BodyIsToldApart == B!Spec => []BodyIsExact
<1>1. B!Init => BodyInv
  BY BodyAssumption, SMTT(30) DEF B!Init, BodyInv
<1>2. BodyInv /\ [B!Next]_(B!vars) => BodyInv'
  <2> SUFFICES ASSUME BodyInv, [B!Next]_(B!vars) PROVE BodyInv'
    OBVIOUS
  <2>1. CASE B!Exhausted
    <3>1. size' = size /\ read' = read /\ given' = given /\ read >= Cap /\ end \in {"none", "eof"}
      BY <2>1 DEF B!Exhausted
    <3>2. CASE eof
      BY <2>1, <3>1, <3>2, SMTT(30) DEF BodyInv, B!Exhausted
    <3>3. CASE ~eof
      <4>1. PICK r \in B!Under(1) : /\ taken' = taken + r.n /\ (eof' => r.n = 0 /\ r.err = "eof")
                                    /\ end' = IF r.n > 0 THEN "limit" ELSE r.err
        BY <2>1, <3>3 DEF B!Exhausted
      <4>2. r.n \in 0..1 /\ taken + r.n <= size /\ (r.err = "eof" => taken + r.n = size)
            /\ r.err \in {"none", "eof", "error"}
        BY SMTT(30) DEF B!Under
      <4> QED BY <3>1, <4>1, <4>2, BodyAssumption, SMTT(30) DEF BodyInv
    <3> QED BY <3>2, <3>3
  <2>2. CASE B!Below
    <3>1. PICK p \in 1..MaxRead : \E r \in B!Under(B!Least(p, Cap - read)) :
            /\ taken' = taken + r.n /\ read' = read + r.n /\ given' = given + r.n
            /\ (eof' => eof \/ r.err = "eof") /\ end' = r.err
      BY <2>2 DEF B!Below
    <3>2. PICK r \in B!Under(B!Least(p, Cap - read)) :
            /\ taken' = taken + r.n /\ read' = read + r.n /\ given' = given + r.n
            /\ (eof' => eof \/ r.err = "eof") /\ end' = r.err
      BY <3>1
    <3>3. size' = size /\ read < Cap /\ end \in {"none", "eof"}
      BY <2>2 DEF B!Below
    <3>4. r.n \in 0..B!Least(p, Cap - read) /\ taken + r.n <= size /\ (r.err = "eof" => taken + r.n = size)
          /\ r.err \in {"none", "eof", "error"}
      BY SMTT(30) DEF B!Under
    <3>5. r.n \in Nat /\ read + r.n <= Cap
      BY <3>3, <3>4, BodyAssumption, SMTT(30) DEF B!Least, BodyInv
    <3> QED BY <3>2, <3>3, <3>4, <3>5, BodyAssumption, SMTT(30) DEF BodyInv
  <2>3. CASE UNCHANGED B!vars
    BY <2>3 DEF BodyInv, B!vars
  <2> QED BY <2>1, <2>2, <2>3 DEF B!Next
<1>3. BodyInv => BodyIsExact
  BY DEF BodyInv, BodyIsExact, B!BodyIsExact
<1> QED BY <1>1, <1>2, <1>3, PTL DEF B!Spec

-----------------------------------------------------------------------------
(* Decisions about one call. *)

\* A set of natural numbers has a least one.
LEMMA NatMin ==
  ASSUME NEW S, S \subseteq Nat, S # {}
  PROVE  \E x \in S : \A y \in S : x <= y
<1> DEFINE R == {p \in Nat \X Nat : p[1] < p[2]}
<1>1. IsWellFoundedOn(R, Nat)
  BY NatLessThanWellFounded DEF OpToRel, IsWellFoundedOn
<1>2. \E x \in S : \A y \in S : <<y, x>> \notin R
  <2> HIDE DEF R
  <2> QED BY <1>1, WFMin
<1>3. PICK x \in S : \A y \in S : <<y, x>> \notin R
  BY <1>2
<1>4. ASSUME NEW y \in S PROVE x <= y
  <2>1. x \in Nat /\ y \in Nat
    OBVIOUS
  <2>2. ~(y < x)
    BY <1>3, <2>1
  <2> QED BY <2>1, <2>2, SMTT(30)
<1> QED BY <1>4

\* A cascade (Checks) answers with a check that holds, or with its default when none does.
LEMMA FirstHit ==
  ASSUME NEW s, NEW o, NEW n \in Nat, DOMAIN s = 1..n
  PROVE  \/ \E i \in 1..n : s[i][1] /\ T!FirstOf(s, o) = s[i][2]
         \/ (\A i \in 1..n : ~s[i][1]) /\ T!FirstOf(s, o) = o
<1> DEFINE hit == {i \in DOMAIN s : s[i][1]}
<1>1. CASE hit = {}
  BY <1>1 DEF T!FirstOf
<1>2. CASE hit # {}
  <2>1. hit \subseteq Nat
    BY SMTT(30)
  <2>2. \E i \in hit : \A j \in hit : i <= j
    BY <1>2, <2>1, NatMin
  <2> DEFINE k == CHOOSE i \in hit : \A j \in hit : i <= j
  <2>3. k \in hit /\ \A j \in hit : k <= j
    BY <2>2
  <2>4. T!FirstOf(s, o) = s[k][2]
    BY <1>2 DEF T!FirstOf
  <2> HIDE DEF k
  <2> QED BY <2>3, <2>4, SMTT(30)
<1> QED BY <1>1, <1>2

\* The claim errors that golang-jwt joins, one by one.
LEMMA ClaimErrors ==
  ASSUME NEW c, NEW t
  PROVE  LET E == T!parserErrors(c, t) IN
         /\ "exp required" \in E <=> t.exp \in {T!Absent, 0}
         /\ "expired" \in E <=> t.exp > 0 /\ T!Now >= t.exp + c.leeway
         /\ "not_valid_yet" \in E <=> t.nbf > 0 /\ T!Now < t.nbf - c.leeway
         /\ "used_before_issued" \in E <=> t.iat > 0 /\ T!Now < t.iat - c.leeway
         /\ "invalid_type" \in E <=> \/ T!Mistyped \in {t.exp, t.nbf, t.iat}
                                     \/ c.issuer # T!Unset /\ t.iss = "mistyped"
         /\ "iss required" \in E <=> c.issuer # T!Unset /\ t.iss = "absent"
         /\ "invalid_issuer" \in E <=> c.issuer # T!Unset /\ t.iss = "other"
         /\ "aud required" \in E <=> c.audiences # {} /\ t.aud \in {"absent", "mistyped"}
         /\ "invalid_audience" \in E <=> c.audiences # {} /\ t.aud = "other"
         /\ E \subseteq {"exp required", "expired", "not_valid_yet", "used_before_issued", "invalid_type",
                         "iss required", "invalid_issuer", "aud required", "invalid_audience"}
BY DEF T!parserErrors

\* What the joined claim errors are told as.
LEMMA MappedError ==
  ASSUME NEW E
  PROVE  LET is(r) == T!mapParseError(E) = T!InvalidToken(r) IN
         \/ "expired" \in E /\ is("expired")
         \/ "not_valid_yet" \in E /\ is("not_yet_valid")
         \/ "used_before_issued" \in E /\ is("issued_in_future")
         \/ "iss required" \in E /\ is("issuer")
         \/ "aud required" \in E /\ is("audience")
         \/ "exp required" \in E /\ is("expiration_missing")
         \/ "invalid_issuer" \in E /\ is("issuer")
         \/ "invalid_audience" \in E /\ is("audience")
         \/ /\ E \cap {"expired", "not_valid_yet", "used_before_issued", "iss required", "aud required",
                       "exp required", "invalid_issuer", "invalid_audience"} = {}
            /\ is("invalid_claims")
<1> DEFINE a1 == "expired" \in E            x1 == "expired"
           a2 == "not_valid_yet" \in E      x2 == "not_yet_valid"
           a3 == "used_before_issued" \in E x3 == "issued_in_future"
           a4 == "iss required" \in E       x4 == "issuer"
           a5 == "aud required" \in E       x5 == "audience"
           a6 == "exp required" \in E       x6 == "expiration_missing"
           a7 == "invalid_issuer" \in E     x7 == "issuer"
           a8 == "invalid_audience" \in E   x8 == "audience"
           o == "invalid_claims"
           s == << <<a1, x1>>, <<a2, x2>>, <<a3, x3>>, <<a4, x4>>, <<a5, x5>>, <<a6, x6>>, <<a7, x7>>, <<a8, x8>> >>
           r == T!FirstOf(s, o)
<1>1. T!mapParseError(E) = T!InvalidToken(r)
  BY DEF T!mapParseError
<1>2. /\ a1 \in BOOLEAN /\ a2 \in BOOLEAN /\ a3 \in BOOLEAN /\ a4 \in BOOLEAN
      /\ a5 \in BOOLEAN /\ a6 \in BOOLEAN /\ a7 \in BOOLEAN /\ a8 \in BOOLEAN
  BY SMTT(30)
<1>3. \/ (a1 /\ r = x1) \/ (a2 /\ r = x2) \/ (a3 /\ r = x3) \/ (a4 /\ r = x4)
      \/ (a5 /\ r = x5) \/ (a6 /\ r = x6) \/ (a7 /\ r = x7) \/ (a8 /\ r = x8)
      \/ ~a1 /\ ~a2 /\ ~a3 /\ ~a4 /\ ~a5 /\ ~a6 /\ ~a7 /\ ~a8 /\ r = o
  <2> HIDE DEF a1, a2, a3, a4, a5, a6, a7, a8, x1, x2, x3, x4, x5, x6, x7, x8, o
  <2>1. /\ DOMAIN s = 1..8
        /\ s[1][1] = a1 /\ s[1][2] = x1
        /\ s[2][1] = a2 /\ s[2][2] = x2
        /\ s[3][1] = a3 /\ s[3][2] = x3
        /\ s[4][1] = a4 /\ s[4][2] = x4
        /\ s[5][1] = a5 /\ s[5][2] = x5
        /\ s[6][1] = a6 /\ s[6][2] = x6
        /\ s[7][1] = a7 /\ s[7][2] = x7
        /\ s[8][1] = a8 /\ s[8][2] = x8
    BY SMTT(30)
  <2> HIDE DEF s
  <2>2. \/ \E i \in 1..8 : s[i][1] /\ r = s[i][2]
        \/ (\A i \in 1..8 : ~s[i][1]) /\ r = o
    <3>1. 8 \in Nat /\ DOMAIN s = 1..8
      BY <2>1, SMTT(30)
    <3> QED BY <3>1, FirstHit
  <2> HIDE DEF r
  <2> QED BY <1>2, <2>1, <2>2, SMTT(30)
<1> HIDE DEF r
<1> QED BY <1>1, <1>3

\* No refusal is an acceptance.
LEMMA Refusals ==
  /\ \A r : T!InvalidToken(r) # T!Accepted /\ T!InvalidToken(r).reason = r /\ T!InvalidToken(r).code = "invalid_token"
  /\ T!Accepted.reason = "none"
  /\ \A r : T!Error("unavailable", r) # T!Accepted /\ T!Error("unavailable", r).reason = r
            /\ T!Error("unavailable", r).code = "unavailable"
BY SMTT(30) DEF T!InvalidToken, T!Accepted, T!Error

LEMMA KeyVerdicts ==
  ASSUME NEW t \in T!Token
  PROVE  /\ t.keys \in {"keys_unavailable", "keys_stale"} => T!keyVerdict(t.keys) = T!Error("unavailable", t.keys)
         /\ t.keys \in {"unknown_kid", "key_unsupported"} => T!keyVerdict(t.keys) = T!InvalidToken(t.keys)
         /\ t.keys \in {"no_match", "forged"} => T!keyVerdict(t.keys) = T!InvalidToken("signature")
         /\ t.keys = "fit" => T!keyVerdict(t.keys) = T!Accepted
         /\ t.keys \in {"keys_unavailable", "keys_stale", "unknown_kid", "key_unsupported",
                        "no_match", "forged", "fit"}
<1>1. t.keys \in {"keys_unavailable", "keys_stale", "unknown_kid", "key_unsupported", "no_match", "forged", "fit"}
  BY DEF T!Token
<1> QED BY <1>1, SMTT(30) DEF T!keyVerdict

\* What Validate answers, check by check.
LEMMA ValidateIs ==
  ASSUME NEW c, NEW t \in T!Token
  PROVE  LET is(v) == T!Validate(c, t) = v IN
         \/ t.shape \in {"empty", "long", "opaque"} /\ is(T!InvalidToken("malformed"))
         \/ t.alg \notin T!allowedAlgs /\ is(T!InvalidToken("unsupported_alg"))
         \/ t.shape = "header" /\ is(T!InvalidToken("malformed"))
         \/ t.crit /\ is(T!InvalidToken("critical_header"))
         \/ ~T!checkTokenType(c, t) /\ is(T!InvalidToken("token_type"))
         \/ T!keyVerdict(t.keys) # T!Accepted /\ is(T!keyVerdict(t.keys))
         \/ T!parserErrors(c, t) # {} /\ is(T!mapParseError(T!parserErrors(c, t)))
         \/ ~T!checkLifetime(c, t) /\ is(T!InvalidToken("lifetime"))
         \/ t.sub = T!Unset /\ is(T!InvalidToken("subject"))
         \/ /\ t.shape \notin {"empty", "long", "opaque", "header"} /\ t.alg \in T!allowedAlgs /\ ~t.crit
            /\ T!checkTokenType(c, t) /\ T!keyVerdict(t.keys) = T!Accepted /\ T!parserErrors(c, t) = {}
            /\ T!checkLifetime(c, t) /\ t.sub # T!Unset /\ is(T!Accepted)
<1> DEFINE a1 == t.shape \in {"empty", "long", "opaque"} x1 == T!InvalidToken("malformed")
           a2 == t.alg \notin T!allowedAlgs              x2 == T!InvalidToken("unsupported_alg")
           a3 == t.shape = "header"                      x3 == T!InvalidToken("malformed")
           a4 == t.crit                                  x4 == T!InvalidToken("critical_header")
           a5 == ~T!checkTokenType(c, t)                 x5 == T!InvalidToken("token_type")
           a6 == T!keyVerdict(t.keys) # T!Accepted       x6 == T!keyVerdict(t.keys)
           a7 == T!parserErrors(c, t) # {}               x7 == T!mapParseError(T!parserErrors(c, t))
           a8 == ~T!checkLifetime(c, t)                  x8 == T!InvalidToken("lifetime")
           a9 == t.sub = T!Unset                         x9 == T!InvalidToken("subject")
           o == T!Accepted
           s == << <<a1, x1>>, <<a2, x2>>, <<a3, x3>>, <<a4, x4>>, <<a5, x5>>, <<a6, x6>>, <<a7, x7>>, <<a8, x8>>, <<a9, x9>> >>
           r == T!FirstOf(s, o)
<1>1. T!Validate(c, t) = r
  BY DEF T!Validate
<1>2. /\ a1 \in BOOLEAN /\ a2 \in BOOLEAN /\ a3 \in BOOLEAN /\ a4 \in BOOLEAN /\ a5 \in BOOLEAN
      /\ a6 \in BOOLEAN /\ a7 \in BOOLEAN /\ a8 \in BOOLEAN /\ a9 \in BOOLEAN
  <2>1. t.crit \in BOOLEAN
    BY DEF T!Token
  <2> QED BY <2>1, SMTT(30)
<1>3. \/ (a1 /\ r = x1) \/ (a2 /\ r = x2) \/ (a3 /\ r = x3) \/ (a4 /\ r = x4) \/ (a5 /\ r = x5)
      \/ (a6 /\ r = x6) \/ (a7 /\ r = x7) \/ (a8 /\ r = x8) \/ (a9 /\ r = x9)
      \/ ~a1 /\ ~a2 /\ ~a3 /\ ~a4 /\ ~a5 /\ ~a6 /\ ~a7 /\ ~a8 /\ ~a9 /\ r = o
  <2> HIDE DEF a1, a2, a3, a4, a5, a6, a7, a8, a9, x1, x2, x3, x4, x5, x6, x7, x8, x9, o
  <2>1. /\ DOMAIN s = 1..9
        /\ s[1][1] = a1 /\ s[1][2] = x1
        /\ s[2][1] = a2 /\ s[2][2] = x2
        /\ s[3][1] = a3 /\ s[3][2] = x3
        /\ s[4][1] = a4 /\ s[4][2] = x4
        /\ s[5][1] = a5 /\ s[5][2] = x5
        /\ s[6][1] = a6 /\ s[6][2] = x6
        /\ s[7][1] = a7 /\ s[7][2] = x7
        /\ s[8][1] = a8 /\ s[8][2] = x8
        /\ s[9][1] = a9 /\ s[9][2] = x9
    BY SMTT(30)
  <2> HIDE DEF s
  <2>2. \/ \E i \in 1..9 : s[i][1] /\ r = s[i][2]
        \/ (\A i \in 1..9 : ~s[i][1]) /\ r = o
    <3>1. 9 \in Nat /\ DOMAIN s = 1..9
      BY <2>1, SMTT(30)
    <3> QED BY <3>1, FirstHit
  <2> HIDE DEF r
  <2> QED BY <1>2, <2>1, <2>2, SMTT(30)
<1> HIDE DEF r
<1> QED BY <1>1, <1>3

LEMMA AcceptedIff ==
  ASSUME NEW c, NEW t \in T!Token
  PROVE  T!Validate(c, t) = T!Accepted <=>
           /\ t.shape \notin {"empty", "long", "opaque", "header"} /\ t.alg \in T!allowedAlgs /\ ~t.crit
           /\ T!checkTokenType(c, t) /\ t.keys = "fit"
           /\ T!parserErrors(c, t) = {} /\ T!checkLifetime(c, t) /\ t.sub # T!Unset
<1>1. T!keyVerdict(t.keys) = T!Accepted <=> t.keys = "fit"
  <2>1. CASE t.keys \in {"keys_unavailable", "keys_stale"}
    BY <2>1, KeyVerdicts, Refusals
  <2>2. CASE t.keys \in {"unknown_kid", "key_unsupported"}
    BY <2>2, KeyVerdicts, Refusals
  <2>3. CASE t.keys \in {"no_match", "forged"}
    BY <2>3, KeyVerdicts, Refusals
  <2>4. CASE t.keys = "fit"
    BY <2>4, KeyVerdicts
  <2> QED BY <2>1, <2>2, <2>3, <2>4, KeyVerdicts
<1>2. T!mapParseError(T!parserErrors(c, t)) # T!Accepted
  <2>1. PICK r : T!mapParseError(T!parserErrors(c, t)) = T!InvalidToken(r)
    BY DEF T!mapParseError
  <2> QED BY <2>1, Refusals
<1> QED BY <1>1, <1>2, ValidateIs, Refusals, SMTT(30)

\* What a leeway is filled in as; a configuration that is explicit about it keeps it.
LEMMA LeewayIs ==
  ASSUME NEW c \in T!Config
  PROVE  LET v == T!validateLeeway(c) IN
         \/ v = T!Mistyped /\ ~(c.leeway \in 0..T!maxLeeway /\ (c.leeway = 0 <=> c.disableLeeway))
         \/ v = T!defaultLeeway /\ c.leeway = 0 /\ ~c.disableLeeway
         \/ v = c.leeway /\ c.leeway \in 0..T!maxLeeway /\ (c.leeway = 0 <=> c.disableLeeway)
<1> DEFINE a1 == c.leeway < 0
           a2 == c.disableLeeway /\ c.leeway # 0
           a3 == c.leeway = 0 /\ ~c.disableLeeway
           a4 == c.leeway > T!maxLeeway
           s == << <<a1, T!Mistyped>>, <<a2, T!Mistyped>>, <<a3, T!defaultLeeway>>, <<a4, T!Mistyped>> >>
           r == T!FirstOf(s, c.leeway)
<1>1. T!validateLeeway(c) = r
  BY DEF T!validateLeeway
<1>2. c.leeway \in Int /\ c.disableLeeway \in BOOLEAN
  BY DEF T!Config
<1>3. /\ DOMAIN s = 1..4 /\ 4 \in Nat
      /\ s[1][1] = a1 /\ s[1][2] = T!Mistyped
      /\ s[2][1] = a2 /\ s[2][2] = T!Mistyped
      /\ s[3][1] = a3 /\ s[3][2] = T!defaultLeeway
      /\ s[4][1] = a4 /\ s[4][2] = T!Mistyped
  <2> HIDE DEF a1, a2, a3, a4
  <2> QED BY SMTT(30)
<1> HIDE DEF s
<1>4. \/ \E i \in 1..4 : s[i][1] /\ r = s[i][2]
      \/ (\A i \in 1..4 : ~s[i][1]) /\ r = c.leeway
  BY <1>3, FirstHit
<1> HIDE DEF r
<1>5. a1 \in BOOLEAN /\ a2 \in BOOLEAN /\ a3 \in BOOLEAN /\ a4 \in BOOLEAN
  BY <1>2, SMTT(30)
<1>6. \/ ((a1 \/ a2 \/ a4) /\ r = T!Mistyped) \/ (a3 /\ r = T!defaultLeeway)
      \/ (~a1 /\ ~a2 /\ ~a3 /\ ~a4 /\ r = c.leeway)
  <2> HIDE DEF a1, a2, a3, a4
  <2> QED BY <1>3, <1>4, <1>5, SMTT(30)
<1> QED BY <1>1, <1>2, <1>6, SMTT(30) DEF T!maxLeeway

\* Accepting a configuration makes it explicit.
LEMMA AcceptedConfig ==
  ASSUME NEW c \in T!Config, T!ValidConfig(c)
  PROVE  ConfigIsExplicit(T!Normalised(c))
<1> DEFINE v == T!validateLeeway(c)
           n == T!Normalised(c)
<1>1. v \in 0..T!maxLeeway /\ (v = 0 <=> c.disableLeeway)
  BY LeewayIs, SMTT(30) DEF T!ValidConfig, T!defaultLeeway, T!maxLeeway
<1>2. /\ n \in T!Config /\ n.leeway = v /\ n.disableLeeway = c.disableLeeway
      /\ n.issuer = c.issuer /\ n.jwksURL = c.jwksURL /\ n.insecure = c.insecure
      /\ n.audiences = c.audiences /\ n.anyAudience = c.anyAudience
      /\ n.maxLifetime = c.maxLifetime /\ n.maxStale = c.maxStale /\ n.types = c.types
  BY <1>1, SMTT(30) DEF T!Normalised, T!Config, T!maxLeeway
<1>3. T!validateLeeway(n) = n.leeway /\ n.leeway # T!Mistyped
  <2> HIDE DEF n, v
  <2> QED BY <1>1, <1>2, LeewayIs, SMTT(30) DEF T!defaultLeeway, T!maxLeeway, T!Mistyped
<1>4. T!Normalised(n) = n
  <2> HIDE DEF n
  <2> QED BY <1>2, <1>3, SMTT(30) DEF T!Normalised, T!Config
<1>5. T!ValidConfig(n)
  <2> HIDE DEF n
  <2> QED BY <1>2, <1>3 DEF T!ValidConfig, T!validateHTTPSURI, T!validateAudiences
<1>6. (n.audiences = {}) <=> n.anyAudience
  <2> HIDE DEF n
  <2> QED BY <1>5 DEF T!ValidConfig, T!validateAudiences
<1> HIDE DEF n, v
<1> QED BY <1>1, <1>2, <1>4, <1>5, <1>6 DEF ConfigIsExplicit, n

\* The numbers and sets the policy compares.
LEMMA PolicyTypes ==
  ASSUME NEW c \in T!Config, NEW t \in T!Token, T!ValidConfig(c), T!Normalised(c) = c
  PROVE  /\ c.leeway \in Nat /\ c.maxLifetime \in Nat /\ T!Unset \notin c.types
         /\ t.exp \in Int /\ (t.exp >= 0 \/ t.exp \in {T!Absent, T!Mistyped})
         /\ t.nbf \in Int /\ (t.nbf >= 0 \/ t.nbf \in {T!Absent, T!Mistyped})
         /\ t.iat \in Int /\ (t.iat >= 0 \/ t.iat \in {T!Absent, T!Mistyped})
         /\ t.shape \in {"empty", "long", "opaque", "header", "jwt"} /\ t.crit \in BOOLEAN
         /\ t.iss \in {"ours", "other", "absent", "mistyped"}
         /\ t.aud \in {"ours", "other", "absent", "mistyped"}
<1>1. ConfigIsExplicit(c)
  BY AcceptedConfig
<1>2. c.leeway \in Nat
  BY <1>1, SMTT(30) DEF ConfigIsExplicit, T!maxLeeway
<1>3. c.maxLifetime \in Nat
  <2>1. c.maxLifetime \in Int /\ c.maxLifetime >= 0
    BY DEF T!ValidConfig, T!Config
  <2> QED BY <2>1, SMTT(30)
<1>4. T!Unset \notin c.types
  BY DEF T!ValidConfig
<1>5. /\ t.exp \in {T!Absent, T!Mistyped} \cup Nat
      /\ t.nbf \in {T!Absent, T!Mistyped} \cup Nat
      /\ t.iat \in {T!Absent, T!Mistyped} \cup Nat
      /\ t.shape \in {"empty", "long", "opaque", "header", "jwt"} /\ t.crit \in BOOLEAN
      /\ t.iss \in {"ours", "other", "absent", "mistyped"}
      /\ t.aud \in {"ours", "other", "absent", "mistyped"}
  BY DEF T!Token
<1>6. /\ t.exp \in Int /\ (t.exp >= 0 \/ t.exp \in {T!Absent, T!Mistyped})
      /\ t.nbf \in Int /\ (t.nbf >= 0 \/ t.nbf \in {T!Absent, T!Mistyped})
      /\ t.iat \in Int /\ (t.iat >= 0 \/ t.iat \in {T!Absent, T!Mistyped})
  BY <1>5, SMTT(30) DEF T!Absent, T!Mistyped
<1> QED BY <1>2, <1>3, <1>4, <1>5, <1>6

\* golang-jwt has nothing to say of a token whose claims meet the policy, and of no other.
LEMMA ClaimsMet ==
  ASSUME NEW c \in T!Config, NEW t \in T!Token, T!ValidConfig(c), T!Normalised(c) = c
  PROVE  T!parserErrors(c, t) = {} <=>
           /\ t.exp > 0 /\ T!Now < t.exp + c.leeway
           /\ t.nbf = T!Absent \/ (t.nbf >= 0 /\ T!Now >= t.nbf - c.leeway)
           /\ t.iat = T!Absent \/ (t.iat >= 0 /\ T!Now >= t.iat - c.leeway)
           /\ c.issuer # T!Unset => t.iss = "ours"
           /\ c.audiences # {} => t.aud = "ours"
<1> DEFINE E == T!parserErrors(c, t)
           J == c.issuer # T!Unset
           A == c.audiences # {}
<1>1. E = {} <=> /\ ~(t.exp \in {T!Absent, 0})
                 /\ ~(t.exp > 0 /\ T!Now >= t.exp + c.leeway)
                 /\ ~(t.nbf > 0 /\ T!Now < t.nbf - c.leeway)
                 /\ ~(t.iat > 0 /\ T!Now < t.iat - c.leeway)
                 /\ ~(T!Mistyped \in {t.exp, t.nbf, t.iat}) /\ ~(J /\ t.iss = "mistyped")
                 /\ ~(J /\ t.iss = "absent") /\ ~(J /\ t.iss = "other")
                 /\ ~(A /\ t.aud \in {"absent", "mistyped"}) /\ ~(A /\ t.aud = "other")
  BY DEF T!parserErrors
<1>2. J \in BOOLEAN /\ A \in BOOLEAN
  BY SMTT(30)
<1> HIDE DEF E, J, A
<1>3. E = {} <=> /\ t.exp > 0 /\ T!Now < t.exp + c.leeway
                 /\ t.nbf = T!Absent \/ (t.nbf >= 0 /\ T!Now >= t.nbf - c.leeway)
                 /\ t.iat = T!Absent \/ (t.iat >= 0 /\ T!Now >= t.iat - c.leeway)
                 /\ J => t.iss = "ours"
                 /\ A => t.aud = "ours"
  BY <1>1, <1>2, PolicyTypes, SMTT(30) DEF T!Absent, T!Mistyped, T!Now
<1> QED BY <1>3 DEF E, J, A

LEMMA PolicyMet ==
  ASSUME NEW c \in T!Config, NEW t \in T!Token, T!ValidConfig(c), T!Normalised(c) = c
  PROVE  T!Validate(c, t) = T!Accepted <=> MeetsPolicy(c, t)
<1>1. T!checkTokenType(c, t) <=> (c.types # {} => t.typ \in c.types)
  BY PolicyTypes DEF T!checkTokenType
<1>2. ASSUME T!parserErrors(c, t) = {}
      PROVE  T!checkLifetime(c, t) <=>
               ((c.maxLifetime > 0 /\ t.iat # T!Absent) => t.exp - t.iat <= c.maxLifetime)
  <2>1. t.exp > 0 /\ (t.iat = T!Absent \/ t.iat >= 0)
    BY <1>2, ClaimsMet
  <2> QED BY <2>1, PolicyTypes, SMTT(30) DEF T!checkLifetime, T!Absent
<1>3. t.shape \notin {"empty", "long", "opaque", "header"} <=> t.shape = "jwt"
  BY PolicyTypes
<1>4. CASE T!parserErrors(c, t) = {}
  <2>1. /\ t.exp > 0 /\ T!Now < t.exp + c.leeway
        /\ t.nbf = T!Absent \/ (t.nbf >= 0 /\ T!Now >= t.nbf - c.leeway)
        /\ t.iat = T!Absent \/ (t.iat >= 0 /\ T!Now >= t.iat - c.leeway)
        /\ c.issuer # T!Unset => t.iss = "ours"
        /\ c.audiences # {} => t.aud = "ours"
    BY <1>4, ClaimsMet
  <2> QED BY <1>1, <1>2, <1>3, <1>4, <2>1, AcceptedIff DEF MeetsPolicy
<1>5. CASE T!parserErrors(c, t) # {}
  <2>1. T!Validate(c, t) # T!Accepted
    BY <1>5, AcceptedIff
  <2>2. ~MeetsPolicy(c, t)
    BY <1>5, ClaimsMet DEF MeetsPolicy
  <2> QED BY <2>1, <2>2
<1> QED BY <1>4, <1>5

\* The reason golang-jwt's joined errors are told as is one of them.
LEMMA ClaimReason ==
  ASSUME NEW c \in T!Config, NEW t \in T!Token, T!ValidConfig(c), T!Normalised(c) = c,
         T!parserErrors(c, t) # {}
  PROVE  TrueOf(c, t, T!mapParseError(T!parserErrors(c, t)))
<1> DEFINE E == T!parserErrors(c, t)
           v == T!mapParseError(E)
<1>1. ASSUME NEW r, v = T!InvalidToken(r) PROVE v.reason = r
  BY <1>1, Refusals
<1>2. /\ "expired" \in E => t.exp > 0 /\ T!Now >= t.exp + c.leeway
      /\ "not_valid_yet" \in E => T!Now < t.nbf - c.leeway
      /\ "used_before_issued" \in E => T!Now < t.iat - c.leeway
      /\ "iss required" \in E => c.issuer # T!Unset /\ t.iss # "ours"
      /\ "invalid_issuer" \in E => c.issuer # T!Unset /\ t.iss # "ours"
      /\ "aud required" \in E => c.audiences # {} /\ t.aud # "ours"
      /\ "invalid_audience" \in E => c.audiences # {} /\ t.aud # "ours"
      /\ "exp required" \in E => t.exp \in {T!Absent, 0}
      /\ "invalid_type" \in E => T!Mistyped \in {t.exp, t.nbf, t.iat} \/ t.iss = "mistyped"
  BY ClaimErrors
<1>3. E \cap {"expired", "not_valid_yet", "used_before_issued", "iss required", "aud required",
              "exp required", "invalid_issuer", "invalid_audience"} = {} => "invalid_type" \in E
  BY ClaimErrors
<1> HIDE DEF E
<1>4. \/ v.reason = "expired" /\ t.exp > 0 /\ T!Now >= t.exp + c.leeway
      \/ v.reason = "not_yet_valid" /\ T!Now < t.nbf - c.leeway
      \/ v.reason = "issued_in_future" /\ T!Now < t.iat - c.leeway
      \/ v.reason = "issuer" /\ c.issuer # T!Unset /\ t.iss # "ours"
      \/ v.reason = "audience" /\ c.audiences # {} /\ t.aud # "ours"
      \/ v.reason = "expiration_missing" /\ t.exp \in {T!Absent, 0}
      \/ v.reason = "invalid_claims" /\ (T!Mistyped \in {t.exp, t.nbf, t.iat} \/ t.iss = "mistyped")
  BY <1>1, <1>2, <1>3, MappedError
<1> HIDE DEF v
<1> QED BY <1>4 DEF TrueOf, T!PossiblyOpaque, E, v

LEMMA ReasonGiven ==
  ASSUME NEW c \in T!Config, NEW t \in T!Token, T!ValidConfig(c), T!Normalised(c) = c
  PROVE  TrueOf(c, t, T!Validate(c, t))
<1> DEFINE v == T!Validate(c, t)
           Keys == {"keys_unavailable", "keys_stale", "unknown_kid", "key_unsupported"}
<1>1. CASE v = T!InvalidToken("malformed") /\ t.shape \in {"empty", "long", "opaque", "header"}
  <2>1. v.reason = "malformed" /\ t.shape # "jwt"
    BY <1>1, Refusals
  <2> HIDE DEF v
  <2> QED BY <2>1 DEF TrueOf, v
<1>2. CASE v = T!InvalidToken("unsupported_alg") /\ t.alg \notin T!allowedAlgs
  <2>1. v.reason = "unsupported_alg"
    BY <1>2, Refusals
  <2> HIDE DEF v
  <2> QED BY <1>2, <2>1 DEF TrueOf, T!PossiblyOpaque, v
<1>3. CASE v = T!InvalidToken("critical_header") /\ t.crit
  <2>1. v.reason = "critical_header"
    BY <1>3, Refusals
  <2> HIDE DEF v
  <2> QED BY <1>3, <2>1 DEF TrueOf, T!PossiblyOpaque, v
<1>4. CASE v = T!InvalidToken("token_type") /\ ~T!checkTokenType(c, t)
  <2>1. v.reason = "token_type"
    BY <1>4, Refusals
  <2>2. c.types # {} /\ t.typ \notin c.types
    BY <1>4, PolicyTypes DEF T!checkTokenType
  <2> HIDE DEF v
  <2> QED BY <2>1, <2>2 DEF TrueOf, T!PossiblyOpaque, v
<1>5. CASE v = T!keyVerdict(t.keys) /\ v # T!Accepted
  <2>1. \/ v.reason \in Keys /\ v.reason = t.keys
        \/ v.reason = "signature" /\ t.keys \in {"no_match", "forged"}
    <3>1. CASE t.keys \in {"keys_unavailable", "keys_stale"}
      <4>1. v = T!Error("unavailable", t.keys)
        BY <1>5, <3>1, KeyVerdicts
      <4> HIDE DEF v
      <4>2. v.reason = t.keys
        BY <4>1, Refusals
      <4> QED BY <3>1, <4>2
    <3>2. CASE t.keys \in {"unknown_kid", "key_unsupported"}
      <4>1. v = T!InvalidToken(t.keys)
        BY <1>5, <3>2, KeyVerdicts
      <4> HIDE DEF v
      <4>2. v.reason = t.keys
        BY <4>1, Refusals
      <4> QED BY <3>2, <4>2
    <3>3. CASE t.keys \in {"no_match", "forged"}
      <4>1. v = T!InvalidToken("signature")
        BY <1>5, <3>3, KeyVerdicts
      <4> HIDE DEF v
      <4>2. v.reason = "signature"
        BY <4>1, Refusals
      <4> QED BY <3>3, <4>2
    <3>4. CASE t.keys = "fit"
      BY <1>5, <3>4, KeyVerdicts
    <3> QED BY <3>1, <3>2, <3>3, <3>4, KeyVerdicts
  <2> HIDE DEF v
  <2> QED BY <2>1 DEF TrueOf, T!PossiblyOpaque, v
<1>6. CASE v = T!mapParseError(T!parserErrors(c, t)) /\ T!parserErrors(c, t) # {}
  BY <1>6, ClaimReason
<1>7. CASE v = T!InvalidToken("lifetime") /\ ~T!checkLifetime(c, t)
  <2>1. v.reason = "lifetime"
    BY <1>7, Refusals
  <2>2. t.exp - t.iat > c.maxLifetime
    BY <1>7, PolicyTypes, SMTT(30) DEF T!checkLifetime
  <2> HIDE DEF v
  <2> QED BY <2>1, <2>2 DEF TrueOf, T!PossiblyOpaque, v
<1>8. CASE v = T!InvalidToken("subject") /\ t.sub = T!Unset
  <2>1. v.reason = "subject"
    BY <1>8, Refusals
  <2> HIDE DEF v
  <2> QED BY <1>8, <2>1 DEF TrueOf, T!PossiblyOpaque, v
<1>9. CASE v = T!Accepted
  <2>1. v.reason = "none"
    BY <1>9, Refusals
  <2> HIDE DEF v
  <2> QED BY <2>1 DEF TrueOf, T!PossiblyOpaque, v
<1> HIDE DEF v
<1> QED BY <1>1, <1>2, <1>3, <1>4, <1>5, <1>6, <1>7, <1>8, <1>9, ValidateIs DEF v

\* No header is refused with the code that sends a token to introspection.
LEMMA HeaderIsNotOpaque ==
  ASSUME NEW h PROVE ~T!PossiblyOpaque(T!ParseBearer(h))
<1> DEFINE x1 == T!Error("invalid_request", "missing_header")
           x2 == T!Error("invalid_request", "malformed")
           a1 == h.empty
           a2 == ~h.separator \/ h.scheme = T!Unset
           a3 == h.scheme # "bearer"
           a4 == h.rest \in {"empty", "long", "control"}
           o == T!Accepted
           s == << <<a1, x1>>, <<a2, x2>>, <<a3, x2>>, <<a4, x2>> >>
           r == T!FirstOf(s, o)
<1>1. T!ParseBearer(h) = r
  BY DEF T!ParseBearer
<1>2. x1.code # "invalid_token" /\ x2.code # "invalid_token" /\ o.code # "invalid_token"
  BY SMTT(30) DEF T!Error, T!Accepted
<1> HIDE DEF x1, x2, a1, a2, a3, a4, o
<1>3. /\ DOMAIN s = 1..4 /\ 4 \in Nat
      /\ s[1][2] = x1 /\ s[2][2] = x2 /\ s[3][2] = x2 /\ s[4][2] = x2
  BY SMTT(30)
<1> HIDE DEF s
<1>4. \/ \E i \in 1..4 : s[i][1] /\ r = s[i][2]
      \/ (\A i \in 1..4 : ~s[i][1]) /\ r = o
  BY <1>3, FirstHit
<1> HIDE DEF r
<1>5. r \in {x1, x2, o}
  BY <1>3, <1>4, SMTT(30)
<1> QED BY <1>1, <1>2, <1>5 DEF T!PossiblyOpaque

-----------------------------------------------------------------------------
(* The answers to a call. *)

CallInv == call \in Calls /\ (reply = <<>> \/ reply = <<Outcome(call)>>)

LEMMA CallsAnswered == CallSpec => []CallInv
<1>1. CallInit => CallInv
  BY DEF CallInit, CallInv
<1>2. CallInv /\ [Reply]_<<call, reply>> => CallInv'
  BY DEF CallInv, Reply
<1> QED BY <1>1, <1>2, PTL DEF CallSpec

\* A token is accepted iff it meets the policy of the configuration, which is explicit
\* (validate.go, Validate; authn.go, Config.validate).
THEOREM AcceptanceIsThePolicy == CallSpec => []AcceptIffPolicy
<1>1. CallInv => AcceptIffPolicy
  <2> SUFFICES ASSUME CallInv, reply # <<>> PROVE AcceptIffPolicy
    BY DEF AcceptIffPolicy, Answered
  <2>1. reply[1] = Outcome(call)
    BY SMTT(30) DEF CallInv
  <2>2. ASSUME call.op = "token" PROVE reply[1] = T!Accepted <=> MeetsPolicy(call.config, call.token)
    <3>1. Outcome(call) = T!Validate(call.config, call.token)
      BY <2>2 DEF Outcome
    <3> QED BY <2>1, <2>2, <3>1, PolicyMet, CallsAssumption DEF CallInv
  <2>3. ASSUME call.op = "config", reply[1].is = "config" PROVE ConfigIsExplicit(reply[1].config)
    <3>1. Outcome(call) = IF T!ValidConfig(call.config) THEN [is |-> "config", config |-> T!Normalised(call.config)]
                          ELSE [is |-> "refused"]
      BY <2>3 DEF Outcome
    <3>2. T!ValidConfig(call.config) /\ reply[1].config = T!Normalised(call.config)
      BY <2>1, <2>3, <3>1, SMTT(30)
    <3> QED BY <2>3, <3>2, AcceptedConfig, CallsAssumption DEF CallInv
  <2> QED BY <2>2, <2>3 DEF AcceptIffPolicy, Answered
<1> QED BY <1>1, CallsAnswered, PTL

\* The reason a token is refused for is true of it, and no header is taken for an opaque token
\* (validate.go, mapParseError; errors.go, PossiblyOpaque).
THEOREM ReasonsAreTrue == CallSpec => []ReasonIsTrue
<1>1. CallInv => ReasonIsTrue
  <2> SUFFICES ASSUME CallInv, reply # <<>> PROVE ReasonIsTrue
    BY DEF ReasonIsTrue, Answered
  <2>1. reply[1] = Outcome(call)
    BY SMTT(30) DEF CallInv
  <2>2. ASSUME call.op = "token" PROVE TrueOf(call.config, call.token, reply[1])
    <3>1. Outcome(call) = T!Validate(call.config, call.token)
      BY <2>2 DEF Outcome
    <3> QED BY <2>1, <2>2, <3>1, ReasonGiven, CallsAssumption DEF CallInv
  <2>3. ASSUME call.op = "bearer" PROVE ~T!PossiblyOpaque(reply[1])
    <3>1. Outcome(call) = T!ParseBearer(call.header)
      BY <2>3 DEF Outcome
    <3> QED BY <2>1, <3>1, HeaderIsNotOpaque
  <2> QED BY <2>2, <2>3 DEF ReasonIsTrue, Answered
<1> QED BY <1>1, CallsAnswered, PTL

=============================================================================

----------------------------- MODULE TokenPolicy -----------------------------
(***************************************************************************)
(* What authn decides about one token, as functions: the configuration     *)
(* (authn.go), ParseBearer, the order of Validate's checks, the mapping of *)
(* golang-jwt's joined errors to one Reason (validate.go, errors.go), and  *)
(* which keys are eligible (validate.go, keyprovider.go).                  *)
(*                                                                         *)
(* Times are small integers, with Absent and Mistyped for a claim that is  *)
(* not there or has another JSON type.                                     *)
(***************************************************************************)
EXTENDS Integers, Sequences, Checks

Absent == -1
Mistyped == -2
Now == 4

\* A string that is not set.
Unset == ""

Error(c, r) == [code |-> c, reason |-> r]
Accepted == Error("ok", "none")
InvalidToken(r) == Error("invalid_token", r)

PossiblyOpaque(e) == e.code = "invalid_token" /\ e.reason = "malformed"

-----------------------------------------------------------------------------
(* Config.  A URI is Unset, or its scheme; an audience is "bad" when its own  *)
(* check refuses it.  Durations are in units of half of maxLeeway.          *)

defaultLeeway == 1
maxLeeway == 2

Config == [issuer : STRING, jwksURL : STRING, insecure : BOOLEAN, audiences : SUBSET STRING,
           anyAudience : BOOLEAN, leeway : Int, disableLeeway : BOOLEAN, maxLifetime : Int,
           maxStale : Int, types : SUBSET STRING]

validateHTTPSURI(c, u) == u = "https" \/ (u = "http" /\ c.insecure)

validateAudiences(c) == /\ (c.audiences = {}) = c.anyAudience
                        /\ "bad" \notin c.audiences

\* The branch that fills in the default comes before the one that checks the maximum.
validateLeeway(c) ==
  FirstOf(<< <<c.leeway < 0, Mistyped>>,
             <<c.disableLeeway /\ c.leeway # 0, Mistyped>>,
             <<c.leeway = 0 /\ ~c.disableLeeway, defaultLeeway>>,
             <<c.leeway > maxLeeway, Mistyped>> >>, c.leeway)

ValidConfig(c) ==
  /\ c.issuer # Unset \/ c.jwksURL # Unset
  /\ c.issuer # Unset => validateHTTPSURI(c, c.issuer)
  /\ validateAudiences(c)
  /\ c.jwksURL # Unset => validateHTTPSURI(c, c.jwksURL)
  /\ validateLeeway(c) # Mistyped
  /\ c.maxLifetime >= 0 /\ c.maxStale >= 0
  /\ Unset \notin c.types

Normalised(c) == [c EXCEPT !.leeway = validateLeeway(c)]

-----------------------------------------------------------------------------
(* ParseBearer, of a header value cut at its first space. *)

ParseBearer(h) ==
  FirstOf(<< <<h.empty, Error("invalid_request", "missing_header")>>,
             <<~h.separator \/ h.scheme = Unset, Error("invalid_request", "malformed")>>,
             <<h.scheme # "bearer", Error("invalid_request", "malformed")>>,
             <<h.rest \in {"empty", "long", "control"}, Error("invalid_request", "malformed")>> >>,
          Accepted)

-----------------------------------------------------------------------------
(* Validate.  t.shape is what the serialised token is: "empty", "long",     *)
(* "opaque" (no three segments with a JSON header), "header" (only its      *)
(* header parses) or "jwt".  t.keys is what verificationKeys answers        *)
(* (KeyResolution), "fit" when the signature verifies with one of its keys  *)
(* and "forged" when it does with none.                                     *)

Token == [shape : {"empty", "long", "opaque", "header", "jwt"}, alg : STRING, crit : BOOLEAN,
          typ : STRING, keys : {"keys_unavailable", "keys_stale", "unknown_kid", "key_unsupported",
                                "no_match", "forged", "fit"},
          exp : {Absent, Mistyped} \cup Nat, nbf : {Absent, Mistyped} \cup Nat,
          iat : {Absent, Mistyped} \cup Nat, iss : {"ours", "other", "absent", "mistyped"},
          aud : {"ours", "other", "absent", "mistyped"}, sub : STRING]

allowedAlgs == {"RS256", "RS384", "RS512", "PS256", "PS384", "PS512", "ES256", "ES384", "ES512"}

checkTokenType(c, t) == c.types = {} \/ t.typ \in c.types \ {Unset}

\* The errors golang-jwt joins when it validates the claims; a zero date is absent to it.
parserErrors(c, t) ==
  LET missing(d) == d \in {Absent, 0}
      stated(d) == d > 0
  IN {e \in {"expired", "not_valid_yet", "used_before_issued", "exp required", "iss required",
             "aud required", "invalid_issuer", "invalid_audience", "invalid_type"} :
        \/ e = "exp required" /\ missing(t.exp)
        \/ e = "expired" /\ stated(t.exp) /\ Now >= t.exp + c.leeway
        \/ e = "not_valid_yet" /\ stated(t.nbf) /\ Now < t.nbf - c.leeway
        \/ e = "used_before_issued" /\ stated(t.iat) /\ Now < t.iat - c.leeway
        \/ e = "invalid_type" /\ (Mistyped \in {t.exp, t.nbf, t.iat} \/ (c.issuer # Unset /\ t.iss = "mistyped"))
        \/ e = "iss required" /\ c.issuer # Unset /\ t.iss = "absent"
        \/ e = "invalid_issuer" /\ c.issuer # Unset /\ t.iss = "other"
        \/ e = "aud required" /\ c.audiences # {} /\ t.aud \in {"absent", "mistyped"}
        \/ e = "invalid_audience" /\ c.audiences # {} /\ t.aud = "other"}

MessageBlind(errors) ==
  InvalidToken(FirstOf(<< <<"expired" \in errors, "expired">>,
             <<"not_valid_yet" \in errors, "not_yet_valid">>,
             <<"used_before_issued" \in errors, "issued_in_future">>,
             <<errors \cap {"iss required", "aud required", "exp required"} # {}, "issuer">>,
             <<"invalid_issuer" \in errors, "issuer">>,
             <<"invalid_audience" \in errors, "audience">> >>, "invalid_claims"))

\* mapParseError on the joined claim errors: the first case of its switch that is in
\* the chain; a missing claim is told by the message.
mapParseError(errors) ==
  InvalidToken(FirstOf(<< <<"expired" \in errors, "expired">>,
             <<"not_valid_yet" \in errors, "not_yet_valid">>,
             <<"used_before_issued" \in errors, "issued_in_future">>,
             <<"iss required" \in errors, "issuer">>,
             <<"aud required" \in errors, "audience">>,
             <<"exp required" \in errors, "expiration_missing">>,
             <<"invalid_issuer" \in errors, "issuer">>,
             <<"invalid_audience" \in errors, "audience">> >>, "invalid_claims"))

\* The answer of verificationKeys and of the signature check that follows it.
keyVerdict(keys) ==
  CASE keys \in {"keys_unavailable", "keys_stale"} -> Error("unavailable", keys)
    [] keys \in {"unknown_kid", "key_unsupported"} -> InvalidToken(keys)
    [] keys \in {"no_match", "forged"} -> InvalidToken("signature")
    [] keys = "fit" -> Accepted

LifetimeFromParser(c, t) ==
  c.maxLifetime = 0 \/ t.exp <= 0 \/ t.iat <= 0 \/ t.exp - t.iat <= c.maxLifetime

\* issuedAt tells an iat of zero from none; GetExpirationTime does not.
checkLifetime(c, t) ==
  c.maxLifetime = 0 \/ t.exp <= 0 \/ t.iat < 0 \/ t.exp - t.iat <= c.maxLifetime

Validate(c, t) ==
  FirstOf(<< <<t.shape \in {"empty", "long", "opaque"}, InvalidToken("malformed")>>,
             <<t.alg \notin allowedAlgs, InvalidToken("unsupported_alg")>>,
             <<t.shape = "header", InvalidToken("malformed")>>,
             <<t.crit, InvalidToken("critical_header")>>,
             <<~checkTokenType(c, t), InvalidToken("token_type")>>,
             <<keyVerdict(t.keys) # Accepted, keyVerdict(t.keys)>>,
             <<parserErrors(c, t) # {}, mapParseError(parserErrors(c, t))>>,
             <<~checkLifetime(c, t), InvalidToken("lifetime")>>,
             <<t.sub = Unset, InvalidToken("subject")>> >>, Accepted)

-----------------------------------------------------------------------------
(* Key eligibility.  A key is a record of what its JWK declares; "" is a   *)
(* member that is absent, decodes tells whether jwk.Export succeeds.       *)

curveMatchesAlg(curve, alg) == <<alg, curve>> \in {<<"ES256", "P-256">>, <<"ES384", "P-384">>,
                                                    <<"ES512", "P-521">>}

keyTypeMatchesAlg(k, alg) ==
  LET family == IF alg \in {"ES256", "ES384", "ES512"} THEN "EC" ELSE "RSA" IN
  FirstOf(<< <<k.kty # family, "key_type">>,
             <<~k.decodes, "export">>,
             <<family = "RSA" /\ k.bits < 2048, "weak_rsa">>,
             <<family = "EC" /\ ~curveMatchesAlg(k.curve, alg), "curve">> >>, "none")

keyEligible(k, alg) ==
  FirstOf(<< <<k.use \notin {"", "sig"}, "key_use">>,
             <<k.ops \notin {"", "verify"}, "key_ops">>,
             <<k.alg \notin {"", alg}, "declared_alg">> >>, keyTypeMatchesAlg(k, alg))

\* Each key with the cause it is rejected for.  The eligible ones in order, at most max; the
\* first rejection when there is none.
Filter(judged, max) ==
  LET fit == SelectSeq(judged, LAMBDA j : j.why = "none")
  IN [out |-> [i \in 1..(IF Len(fit) < max THEN Len(fit) ELSE max) |-> fit[i].key],
      why |-> IF Len(fit) > 0 \/ judged = <<>> THEN "none" ELSE judged[1].why]

Judged(keys, alg) == [i \in DOMAIN keys |-> [key |-> keys[i], why |-> keyEligible(keys[i], alg)]]

CandidatesAnyKid(set, kid, alg, max) ==
  Filter(Judged(SelectSeq(set, LAMBDA k : kid = "" \/ k.kid \in {"", kid}), alg), max)

candidateKeys(set, kid, alg, max) ==
  Filter(Judged(SelectSeq(set, LAMBDA k : kid = "" \/ k.kid = kid), alg), max)

\* The keys a provider offers declare no use and no key_ops; a key without a kid matches
\* every token.
providerCandidates(keys, kid, alg, max) ==
  LET offered == SelectSeq(keys, LAMBDA k : k.kid = "" \/ kid \in {"", k.kid})
  IN Filter([i \in DOMAIN offered |->
               [key |-> offered[i],
                why |-> FirstOf(<< <<offered[i].alg \notin {"", alg}, "declared_alg">> >>,
                                keyTypeMatchesAlg(offered[i], alg))]], max)

=============================================================================

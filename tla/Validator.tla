------------------------------ MODULE Validator ------------------------------
(***************************************************************************)
(* A Validator of authn beside its keys (KeyResolution): how it is made    *)
(* (ValidatorInit, as V), how it reads a response (LimitedBody, as B), and *)
(* what it answers to one call, as a function of the call (TokenPolicy, as *)
(* T).                                                                     *)
(***************************************************************************)
EXTENDS Integers, Sequences, Functions

CONSTANTS Attempts, Cap, MaxBody, MaxRead,
          Calls  \* of TokenPolicy's functions

VARIABLES provider, insecure, url, step, attempt, refusal, started, keys, refreshErr, success,
          cancelled, outcome,
          size, taken, read, eof, given, end,
          call, reply

V == INSTANCE ValidatorInit
B == INSTANCE LimitedBody
T == INSTANCE TokenPolicy

ASSUME BodyAssumption == Cap \in Nat /\ MaxBody \in Nat /\ MaxRead \in Nat

\* A Validator has a configuration that ValidateConfig has accepted and filled in.
ASSUME CallsAssumption ==
  \A c \in Calls :
    /\ c.op \in {"config", "token"} => c.config \in T!Config
    /\ c.op = "token" => /\ c.token \in T!Token
                         /\ T!ValidConfig(c.config) /\ T!Normalised(c.config) = c.config

Outcome(c) ==
  CASE c.op = "config" -> IF T!ValidConfig(c.config) THEN [is |-> "config", config |-> T!Normalised(c.config)]
                          ELSE [is |-> "refused"]
    [] c.op = "bearer" -> T!ParseBearer(c.header)
    [] c.op = "token" -> T!Validate(c.config, c.token)
    [] c.op = "keys" -> [jwks |-> T!candidateKeys(c.keys, c.kid, c.alg, c.max),
                         provider |-> T!providerCandidates(c.keys, c.kid, c.alg, c.max)]

NoCall == [op |-> "none"]
Answered(op1) == call.op = op1 /\ reply # <<>>
Reply == call # NoCall /\ reply = <<>> /\ reply' = <<Outcome(call)>> /\ UNCHANGED call
CallsIdle == call = NoCall /\ reply = <<>>

CallInit == call \in Calls /\ reply = <<>>
CallSpec == CallInit /\ [][Reply]_<<call, reply>>

-----------------------------------------------------------------------------

\* What NewValidator promises of its outcome (ValidatorInit), and what a capped body tells its
\* reader (LimitedBody).
FailsClosed == V!FailsClosed
BodyIsExact == B!BodyIsExact

(* A configuration that NewValidator accepts chooses its audience policy and *)
(* its leeway: any audience only when asked for, a leeway of zero exactly    *)
(* when it is disabled and never above the maximum; accepting it again       *)
(* changes nothing (authn.go, Config.validate).                              *)
ConfigIsExplicit(c) ==
  /\ (c.audiences = {}) <=> c.anyAudience
  /\ c.leeway \in 0..T!maxLeeway
  /\ (c.leeway = 0) <=> c.disableLeeway
  /\ T!ValidConfig(c) /\ T!Normalised(c) = c

\* The policy of c, each part of it stated by itself.
MeetsPolicy(c, t) ==
  LET by(d) == d = T!Absent \/ (d >= 0 /\ T!Now >= d - c.leeway) IN
  /\ t.shape = "jwt" /\ t.alg \in T!allowedAlgs /\ ~t.crit /\ t.keys = "fit"
  /\ c.types # {} => t.typ \in c.types
  /\ t.exp > 0 /\ T!Now < t.exp + c.leeway /\ by(t.nbf) /\ by(t.iat)
  /\ c.issuer # T!Unset => t.iss = "ours"
  /\ c.audiences # {} => t.aud = "ours"
  /\ (c.maxLifetime > 0 /\ t.iat # T!Absent) => t.exp - t.iat <= c.maxLifetime
  /\ t.sub # T!Unset

(* Validate accepts a token iff it meets the whole policy: none of its       *)
(* checks hides behind another, and a date of zero counts as one for the     *)
(* lifetime (validate.go, Validate).  The policy is explicit: see            *)
(* ConfigIsExplicit.                                                         *)
AcceptIffPolicy ==
  /\ Answered("token") => ((reply[1] = T!Accepted) <=> MeetsPolicy(call.config, call.token))
  /\ (Answered("config") /\ reply[1].is = "config") => ConfigIsExplicit(reply[1].config)

\* The reason of the answer e is true of the token.
TrueOf(c, t, e) ==
  LET because(r) == e.reason = r IN
  /\ because("unsupported_alg") => t.alg \notin T!allowedAlgs
  /\ because("critical_header") => t.crit
  /\ because("token_type") => (c.types # {} /\ t.typ \notin c.types)
  /\ because("signature") => t.keys \in {"no_match", "forged"}
  /\ e.reason \in {"keys_unavailable", "keys_stale", "unknown_kid", "key_unsupported"} => e.reason = t.keys
  /\ because("expired") => (t.exp > 0 /\ T!Now >= t.exp + c.leeway)
  /\ because("not_yet_valid") => T!Now < t.nbf - c.leeway
  /\ because("issued_in_future") => T!Now < t.iat - c.leeway
  /\ because("issuer") => (c.issuer # T!Unset /\ t.iss # "ours")
  /\ because("audience") => (c.audiences # {} /\ t.aud # "ours")
  /\ because("expiration_missing") => t.exp \in {T!Absent, 0}
  /\ because("invalid_claims") => (T!Mistyped \in {t.exp, t.nbf, t.iat} \/ t.iss = "mistyped")
  /\ because("lifetime") => t.exp - t.iat > c.maxLifetime
  /\ because("subject") => t.sub = T!Unset
  /\ T!PossiblyOpaque(e) => t.shape # "jwt"

(* The reason a token is refused for is true of it, however many errors      *)
(* golang-jwt joins into the one that is mapped (validate.go).  The pair of  *)
(* code and reason that sends a token to introspection is kept for tokens    *)
(* that do not parse as a JWT, and never given for a header (errors.go,      *)
(* PossiblyOpaque).                                                          *)
ReasonIsTrue ==
  /\ Answered("bearer") => ~T!PossiblyOpaque(reply[1])
  /\ Answered("token") => TrueOf(call.config, call.token, reply[1])

(* The keys a token is tried with are, in order and up to the limit, the     *)
(* ones of its kid that are published for verification with its algorithm;   *)
(* a cause is given when a key has the kid and none of them is              *)
(* (validate.go, candidateKeys).  A provider's keys and the same keys in a   *)
(* JWKS are judged alike, where all have a kid and none declares a use       *)
(* (keyprovider.go).                                                         *)
KeysAreEligible ==
  Answered("keys") =>
    LET mine(k) == call.kid = "" \/ k.kid = call.kid
        fit(k) == /\ mine(k) /\ k.use # "enc" /\ k.ops # "sign" /\ k.alg \in {"", call.alg} /\ k.decodes
                  /\ IF call.alg = "RS256" THEN k.kty = "RSA" /\ k.bits >= 2048
                     ELSE k.kty = "EC" /\ k.curve = "P-256"
        all == SelectSeq(call.keys, fit)
        found == reply[1].jwks
    IN /\ found.out = SubSeq(all, 1, IF Len(all) < call.max THEN Len(all) ELSE call.max)
       /\ (found.why # "none") <=> (all = <<>> /\ \E i \in DOMAIN call.keys : mine(call.keys[i]))
       /\ (\A k \in Range(call.keys) : k.kid # "" /\ k.use # "enc" /\ k.ops # "sign") =>
            reply[1].provider = found

=============================================================================

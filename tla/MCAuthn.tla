------------------------------- MODULE MCAuthn -------------------------------
(***************************************************************************)
(* Instances of authn's three state machines for TLC, side by side, and    *)
(* calls of the functions of TokenPolicy: `part' says which one a          *)
(* behaviour runs, the others stay in an initial state.                    *)
(***************************************************************************)
EXTENDS KeyResolution, Validator, TLC

VARIABLE part

initVars == <<provider, insecure, url, step, attempt, refusal, started, keys, refreshErr, success,
              cancelled, outcome>>
bodyVars == <<size, taken, read, eof, given, end>>

\* One kid is fit at first, the other is not published yet.
MCInitial == {f \in KeySet : \E j, k \in Kid : j # k /\ f[j] = "fit" /\ f[k] = "absent"}

\* No provider, one that offers a fit and an unfit key, one that offers nothing.
MCOffers == {NoProvider, [k \in Kid |-> "absent"]} \cup
            {f \in KeySet : \E j, k \in Kid : j # k /\ f[j] = "fit" /\ f[k] = "unfit"}

Symmetry == Permutations(Kid) \cup Permutations(Caller)

-----------------------------------------------------------------------------
(* Calls of the functions of TokenPolicy. *)

Policy == [issuer |-> "https", jwksURL |-> "", insecure |-> FALSE, audiences |-> {"ours"},
           anyAudience |-> FALSE, leeway |-> 1, disableLeeway |-> FALSE, maxLifetime |-> 0,
           maxStale |-> 0, types |-> {}]
Policies == {Policy, [Policy EXCEPT !.issuer = "", !.jwksURL = "https"],
             [Policy EXCEPT !.audiences = {}, !.anyAudience = TRUE],
             [Policy EXCEPT !.leeway = 0, !.disableLeeway = TRUE], [Policy EXCEPT !.maxLifetime = 3],
             [Policy EXCEPT !.types = {"at+jwt"}]}
Configs == {[Policy EXCEPT !.issuer = i, !.jwksURL = j, !.insecure = n] :
              i \in {"", "https", "http", "other"}, j \in {"", "https", "http"}, n \in BOOLEAN}
           \cup {[Policy EXCEPT !.audiences = a, !.anyAudience = y, !.leeway = l, !.disableLeeway = d] :
                    a \in {{}, {"ours"}, {"ours", "bad"}}, y \in BOOLEAN, l \in -1..3, d \in BOOLEAN}
           \cup {[Policy EXCEPT !.maxLifetime = l, !.maxStale = m, !.types = t] :
                    l \in -1..1, m \in -1..1, t \in {{}, {""}, {"at+jwt"}}}

Token == [shape |-> "jwt", alg |-> "RS256", crit |-> FALSE, typ |-> "", keys |-> "fit",
          exp |-> 5, nbf |-> T!Absent, iat |-> T!Absent, iss |-> "ours", aud |-> "ours", sub |-> "s"]
Tokens ==
  {[Token EXCEPT !.shape = s, !.alg = a, !.crit = c, !.typ = t, !.keys = k] :
     s \in {"empty", "long", "opaque", "header", "jwt"}, a \in {"RS256", "none"}, c \in BOOLEAN,
     t \in {"", "jwt", "at+jwt"}, k \in {"keys_unavailable", "keys_stale", "unknown_kid",
                                        "key_unsupported", "no_match", "forged", "fit"}}
  \cup {[Token EXCEPT !.exp = e, !.nbf = n, !.iat = i, !.iss = s, !.aud = a, !.sub = b] :
          e \in {T!Mistyped, T!Absent, 0, 2, 3, 4, 9}, n \in {T!Mistyped, T!Absent, 5, 6},
          i \in {T!Mistyped, T!Absent, 0, 5, 6}, s \in {"ours", "other", "absent", "mistyped"},
          a \in {"ours", "other", "absent", "mistyped"}, b \in {"", "s"}}

Key == [kid |-> "a", use |-> "", ops |-> "", alg |-> "", kty |-> "RSA", bits |-> 2048, curve |-> "",
        decodes |-> TRUE]
ECKey == [Key EXCEPT !.kty = "EC", !.curve = "P-256"]
Keys == {Key, ECKey, [Key EXCEPT !.kid = ""], [Key EXCEPT !.kid = "b"], [Key EXCEPT !.use = "sig"],
         [Key EXCEPT !.use = "enc"], [Key EXCEPT !.ops = "verify"], [Key EXCEPT !.ops = "sign"],
         [Key EXCEPT !.alg = "RS256"], [Key EXCEPT !.alg = "ES256"], [Key EXCEPT !.bits = 1024],
         [Key EXCEPT !.decodes = FALSE], [Key EXCEPT !.kty = "oct"], [ECKey EXCEPT !.curve = "P-384"]}

MCCalls ==
  {[op |-> "config", config |-> c] : c \in Configs}
  \cup {[op |-> "bearer", header |-> h] :
          h \in [empty : BOOLEAN, separator : BOOLEAN, scheme : {"", "bearer", "basic"},
                 rest : {"empty", "long", "control", "token"}]}
  \cup {[op |-> "token", config |-> c, token |-> t] : c \in Policies, t \in Tokens}
  \cup {[op |-> "keys", keys |-> ks, kid |-> i, alg |-> a, max |-> m] :
          ks \in UNION {[1..n -> Keys] : n \in 0..2}, i \in {"", "a"}, a \in {"RS256", "ES256"}, m \in 1..2}

-----------------------------------------------------------------------------

KeysIdle == Init /\ offered = NoProvider /\ past = {} /\ pub = CHOOSE s \in Initial : TRUE
InitIdle == V!Init /\ ~provider /\ ~insecure /\ url = "https"
BodyIdle == B!Init /\ size = 0

\* With a provider the first fetch fails; a later one may still fill the cache.  Without one
\* the set it brings may have been withdrawn since: that is one of the rotations.
MCInit == \/ /\ part = "keys" /\ Init /\ InitIdle /\ BodyIdle /\ CallsIdle
             /\ HasProvider => ~ready /\ past = {}
             /\ \A o \in past : cache = o.keys /\ pub # cache /\ o.until < Zero
          \/ part = "init" /\ KeysIdle /\ V!Init /\ BodyIdle /\ CallsIdle
          \/ part = "body" /\ KeysIdle /\ InitIdle /\ B!Init /\ CallsIdle
          \/ part = "calls" /\ KeysIdle /\ InitIdle /\ BodyIdle /\ call \in Calls /\ reply = <<>>

MCNext == \/ part = "keys" /\ Next /\ Cardinality(past') <= (IF HasProvider THEN 0 ELSE MaxRotations)
             /\ UNCHANGED <<part, initVars, bodyVars, call, reply>>
          \/ part = "init" /\ V!Next /\ UNCHANGED <<part, vars, bodyVars, call, reply>>
          \/ part = "body" /\ B!Next /\ UNCHANGED <<part, vars, initVars, call, reply>>
          \/ part = "calls" /\ Reply /\ UNCHANGED <<part, vars, initVars, bodyVars>>

MCSpec == MCInit /\ [][MCNext]_<<part, vars, initVars, bodyVars, call, reply>>

=============================================================================

---------------------------- MODULE ValidatorInit ----------------------------
(***************************************************************************)
(* NewValidator of authn: OIDC discovery with retries (discovery.go), then *)
(* init (authn.go), which starts the jwx cache, registers the JWKS URL and *)
(* makes the first fetch.  A KeyProvider turns some failures into a        *)
(* validator without key material of its own.                              *)
(***************************************************************************)
EXTENDS Naturals

CONSTANTS Attempts  \* discoveryAttempts

\* What the well-known endpoint answers.  Only a document with a wrong issuer, no
\* jwks_uri, or one validateHTTPSURI refuses is a verdict; the rest may pass.
Transient == {"refused", "status", "garbled"}
Document == [issuer : BOOLEAN, uri : {"", "https", "http", "ftp"}]

VARIABLES provider,     \* Config.KeyProvider is set
          insecure,     \* Config.InsecureAllowHTTP
          url,          \* v.jwksURL: "", or its scheme
          step, attempt,
          refusal,      \* a document has been refused
          started,      \* v.jwksCache is set and its goroutines run
          keys,         \* the cache holds a key set
          refreshErr,   \* of the construction's own fetch: "none" before it, "nil", "error"
          success,      \* v.lastSuccess is set
          cancelled,    \* v.ctx is cancelled
          outcome

vars == <<provider, insecure, url, step, attempt, refusal, started, keys, refreshErr,
          success, cancelled, outcome>>

Configured == <<provider, insecure>>

\* validateHTTPSURI: an allowlist of schemes.
validateHTTPSURI(scheme) == scheme = "https" \/ (scheme = "http" /\ insecure)

\* ValidateConfig has passed: a JWKS URL is acceptable, or there is an issuer.
Init ==
  /\ provider \in BOOLEAN /\ insecure \in BOOLEAN
  /\ url \in {"", "https", "http"} /\ (url # "" => validateHTTPSURI(url))
  /\ step = IF url = "" THEN "discover" ELSE "cache"
  /\ attempt = 1 /\ refusal = FALSE
  /\ started = FALSE /\ keys = FALSE /\ refreshErr = "none" /\ success = FALSE
  /\ cancelled = FALSE /\ outcome = "none"

\* NewValidator cancels the lifetime context when init fails.
FailOpen == step' = "end" /\ outcome' = "error" /\ UNCHANGED cancelled
Fail == step' = "end" /\ outcome' = "error" /\ cancelled' = TRUE
Succeed == step' = "end" /\ outcome' = "ok" /\ UNCHANGED cancelled

Acceptable(d) == d.issuer /\ d.uri # "" /\ validateHTTPSURI(d.uri)

discoverJWKSURI ==
  /\ step = "discover"
  /\ \/ \E d \in Document :
          IF Acceptable(d)
          THEN url' = d.uri /\ step' = "cache" /\ UNCHANGED <<refusal, cancelled, outcome>>
          ELSE Fail /\ refusal' = TRUE /\ UNCHANGED url
     \/ /\ \E a \in Transient :
             IF attempt < Attempts THEN step' = "backoff" /\ UNCHANGED <<cancelled, outcome>>
             ELSE IF provider THEN Succeed ELSE Fail
        /\ UNCHANGED <<url, refusal>>
  /\ UNCHANGED <<Configured, attempt, started, keys, refreshErr, success>>

\* The backoff ends, or constructionTimeout or the caller's context does.
discoverWithRetry ==
  /\ step = "backoff"
  /\ \/ step' = "discover" /\ attempt' = attempt + 1 /\ UNCHANGED <<cancelled, outcome>>
     \/ (IF provider THEN Succeed ELSE Fail) /\ UNCHANGED attempt
  /\ UNCHANGED <<Configured, url, refusal, started, keys, refreshErr, success>>

StartCache ==
  /\ step = "cache"
  /\ \/ started' = TRUE /\ step' = "register" /\ UNCHANGED <<cancelled, outcome>>
     \/ Fail /\ UNCHANGED started
  /\ UNCHANGED <<Configured, url, attempt, refusal, keys, refreshErr, success>>

RegisterLeaks ==
  /\ step = "register"
  /\ \/ step' = "refresh" /\ UNCHANGED <<cancelled, outcome>>
     \/ FailOpen
  /\ UNCHANGED <<Configured, url, attempt, refusal, started, keys, refreshErr, success>>

Register ==
  /\ step = "register"
  /\ \/ step' = "refresh" /\ UNCHANGED <<cancelled, outcome>>
     \/ Fail
  /\ UNCHANGED <<Configured, url, attempt, refusal, started, keys, refreshErr, success>>

\* From its registration on the cache fetches in the background too.
BackgroundFetch ==
  /\ started /\ step \notin {"cache", "register"} /\ ~cancelled
  /\ keys' = TRUE
  /\ UNCHANGED <<Configured, url, step, attempt, refusal, started, refreshErr, success,
                 cancelled, outcome>>

\* The Refresh of the construction's fetch.
Refresh ==
  /\ step = "refresh"
  /\ \/ keys' = TRUE /\ step' = "lookup" /\ UNCHANGED refreshErr
     \/ refreshErr' = "error" /\ step' = "settle" /\ UNCHANGED keys
  /\ UNCHANGED <<Configured, url, attempt, refusal, started, success, cancelled, outcome>>

\* Its Lookup, which fails when constructionTimeout has passed by now.
Lookup ==
  /\ step = "lookup"
  /\ refreshErr' \in {"nil", "error"}
  /\ step' = "settle"
  /\ UNCHANGED <<Configured, url, attempt, refusal, started, keys, success, cancelled, outcome>>

\* Success is recorded before the early return for a provider.
Settle ==
  /\ step = "settle"
  /\ success' = (refreshErr = "nil")
  /\ IF provider \/ refreshErr = "nil" THEN Succeed ELSE Fail
  /\ UNCHANGED <<Configured, url, attempt, refusal, started, keys, refreshErr>>

Next == \/ discoverJWKSURI \/ discoverWithRetry \/ StartCache \/ Register
        \/ BackgroundFetch \/ Refresh \/ Lookup \/ Settle

Spec == Init /\ [][Next]_vars

-----------------------------------------------------------------------------
(* Properties. *)

\* Construction fails closed.  Without a provider a validator has fetched its keys and dated
\* them; a document the issuer served and that is not acceptable is fatal, with or without a
\* provider; a failed construction leaves no refresh goroutine running.  The construction's own
\* fetch, when all of it succeeded, is the first proof of freshness whatever the way out, as
\* MaxJWKSStaleness would refuse the keys otherwise; and nothing else is: keys the background
\* fetch brought, or whose Lookup failed, stay undated, and dated keys are in the cache
\* (authn.go, NewValidator, init).
FailsClosed ==
  /\ outcome = "ok" /\ ~provider => keys /\ success
  /\ refusal => outcome = "error" /\ url = ""
  /\ outcome = "error" => cancelled
  /\ success => keys
  /\ outcome # "none" => (success <=> refreshErr = "nil")

=============================================================================

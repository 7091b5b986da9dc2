---------------------------- MODULE KeyResolution ----------------------------
(***************************************************************************)
(* How authn.Validator finds the keys of a token (validate.go, keyfunc):   *)
(* the key provider, the cached JWKS with its staleness bound, the         *)
(* unknown-kid recovery with one serialised and rate-limited refresh, the  *)
(* negative cache of kids, and Close.                                      *)
(*                                                                         *)
(* A caller is one Validate.  A step is one critical section of refreshMu  *)
(* or negativeMu, one Lookup of the jwx cache, one call of the provider.   *)
(* refreshMu stays held during a fetch, which may take FetchTime: the set  *)
(* it brings is one the issuer published at some moment of it, and is dated *)
(* when it arrives.  Time is in ticks; the clock may tick between any two  *)
(* steps.  A key is fit or not for the token's alg (TokenPolicy has the    *)
(* filters).                                                               *)
(***************************************************************************)
EXTENDS Integers, FiniteSets

CONSTANTS Caller, Kid,
          NoKid,        \* the kid of a token without one
          Nobody,
          NoProvider,   \* Config.KeyProvider is nil
          Offers,       \* NoProvider, or the keys a provider offers
          Floor, TTL,   \* refreshFloor, negativeCacheTTL
          MaxEntries,   \* negativeCacheMaxEntries
          MaxStale,     \* Config.MaxJWKSStaleness, 0 for none
          FetchTime,    \* defaultHTTPTimeout: the longest a fetch that succeeds takes
          Initial,      \* key sets the issuer may start with
          MaxTime,      \* bound on the clock
          MaxRotations  \* bound on the changes of the issuer's keys

Status == {"absent", "fit", "unfit"}
KeySet == [Kid -> Status]
Zero == Floor + MaxStale + FetchTime + 1  \* the clock when the validator is ready; 0 is time.Time{}

ASSUME ConfigAssumption ==
  /\ NoProvider \notin KeySet /\ Offers \subseteq KeySet \cup {NoProvider}
  /\ Initial \subseteq KeySet /\ NoKid \notin Kid /\ Nobody \notin Caller
  /\ Floor \in Nat /\ TTL \in Nat \ {0} /\ MaxEntries \in Nat \ {0}
  /\ MaxStale \in Nat /\ FetchTime \in Nat /\ MaxTime \in Nat /\ MaxRotations \in Nat

VARIABLES
  offered,     \* the provider
  jwks,        \* jwksCache is set: construction knows the JWKS URL
  now,
  pub,         \* the keys the issuer publishes
  rotations,
  past,        \* the sets it published before, and until when
  cache,       \* the key set in jwksCache
  ready,       \* its first fetch has succeeded
  mu,          \* refreshMu
  began,       \* when its holder began to fetch, 0 for no fetch
  lastRefresh, lastSuccess,
  neg,         \* negativeKids: expiry, 0 for no entry
  closed,      \* v.ctx is cancelled
  pc, kid, answer,
  refreshed,   \* what refreshOnce has told a caller
  since,       \* when the call began
  missed,      \* a set fetched since then lacks its kid
  cached       \* since then its kid has been fit in the cache throughout

issuerVars == <<offered, jwks, pub, rotations, past>>
cacheVars == <<cache, ready>>
refreshVars == <<mu, began, lastRefresh, lastSuccess>>
callVars == <<pc, kid, answer, refreshed, since, missed, cached>>
vars == <<now, issuerVars, cacheVars, refreshVars, neg, closed, callVars>>

Answer == {"none", "local", "keys", "no_match", "unknown_kid", "key_unsupported",
           "keys_unavailable", "keys_stale"}
Pc == {"idle", "provider", "fresh", "stale", "sfetch", "fresh2", "lookup", "neg", "miss",
       "mfetch", "lookup2", "record", "done"}

HasProvider == offered # NoProvider

TypeOK ==
  /\ offered \in Offers /\ jwks \in BOOLEAN
  /\ now \in Nat /\ rotations \in Nat
  /\ pub \in KeySet /\ cache \in KeySet
  /\ ready \in BOOLEAN /\ closed \in BOOLEAN
  /\ mu \in Caller \cup {Nobody}
  /\ past \in SUBSET [keys : KeySet, until : Nat] /\ began \in Nat
  /\ neg \in [Kid -> Nat]
  /\ lastRefresh \in Nat /\ lastSuccess \in Nat
  /\ pc \in [Caller -> Pc] /\ answer \in [Caller -> Answer]
  /\ kid \in [Caller -> Kid \cup {NoKid}]
  /\ refreshed \in [Caller -> BOOLEAN] /\ missed \in [Caller -> BOOLEAN]
  /\ cached \in [Caller -> BOOLEAN]
  /\ since \in [Caller -> Nat]

\* The sets the issuer published at time t or later.
PublishedSince(t) == {pub} \cup {o.keys : o \in {q \in past : q.until >= t}}

\* Without a provider construction has fetched the key set, which may be out of date by now;
\* with one it may have failed, and left a set undated that came all the same.
Init ==
  /\ now = Zero /\ rotations = 0 /\ closed = FALSE
  /\ pub \in Initial
  /\ \/ past = {}
     \/ \E set \in Initial, t \in (Zero - FetchTime)..Zero : past = {[keys |-> set, until |-> t]}
  /\ mu = Nobody /\ began = 0 /\ lastRefresh = 0
  /\ neg = [k \in Kid |-> 0]
  /\ offered \in Offers /\ jwks \in BOOLEAN
  /\ \/ /\ jwks /\ cache \in PublishedSince(Zero - FetchTime) /\ ready = TRUE
        /\ lastSuccess = Zero \/ (HasProvider /\ lastSuccess = 0)
     \/ /\ HasProvider
        /\ cache = [k \in Kid |-> "absent"] /\ ready = FALSE /\ lastSuccess = 0
  /\ pc = [c \in Caller |-> "idle"]
  /\ kid = [c \in Caller |-> NoKid]
  /\ answer = [c \in Caller |-> "none"]
  /\ refreshed = [c \in Caller |-> FALSE]
  /\ since = [c \in Caller |-> 0]
  /\ missed = [c \in Caller |-> FALSE]
  /\ cached = [c \in Caller |-> FALSE]

-----------------------------------------------------------------------------
(* The issuer, the clock, the background refresh of the jwx cache, Close. *)

Rotate ==
  /\ rotations < MaxRotations
  /\ \E k \in Kid : \E s \in Status \ {pub[k]} :
       pub' = [pub EXCEPT ![k] = s]
  /\ past' = past \cup {[keys |-> pub, until |-> now]}
  /\ rotations' = rotations + 1
  /\ UNCHANGED <<offered, jwks, now, cacheVars, refreshVars, neg, closed, callVars>>

Tick ==
  /\ now < MaxTime
  /\ now' = now + 1
  /\ UNCHANGED <<issuerVars, cacheVars, refreshVars, neg, closed, callVars>>

\* What candidateKeys makes of a key set: with a kid the key of that kid, without one
\* every key.
Resolve(set, k) ==
  IF k \in Kid THEN set[k]
  ELSE IF \E j \in Kid : set[j] = "fit" THEN "fit"
  ELSE IF \E j \in Kid : set[j] = "unfit" THEN "unfit"
  ELSE "absent"

Busy(c) == pc[c] \notin {"idle", "done"}

\* What the issuer has answered becomes the cached set.
Install(set) ==
  /\ ~closed
  /\ cache' = set
  /\ ready' = TRUE
  /\ missed' = [c \in Caller |-> missed[c] \/ (Busy(c) /\ Resolve(set, kid[c]) = "absent")]
  /\ cached' = [c \in Caller |-> cached[c] /\ (Busy(c) => Resolve(set, kid[c]) = "fit")]

\* It may overlap a fetch of refreshOnce, and its answer come in after that one's.
BackgroundRefresh ==
  /\ jwks
  /\ \E set \in PublishedSince(now - FetchTime) : Install(set)
  /\ UNCHANGED <<now, issuerVars, refreshVars, neg, closed, pc, kid, answer, refreshed, since>>

Close ==
  /\ ~closed
  /\ closed' = TRUE
  /\ UNCHANGED <<now, issuerVars, cacheVars, refreshVars, neg, callVars>>

-----------------------------------------------------------------------------
Goto(c, l) == pc' = [pc EXCEPT ![c] = l] /\ UNCHANGED answer
Return(c, a) == /\ pc' = [pc EXCEPT ![c] = "done"]
                /\ answer' = [answer EXCEPT ![c] = a]

\* Validate up to the keyfunc.
Validate(c) ==
  /\ pc[c] = "idle"
  /\ \E k \in Kid \cup {NoKid} :
       /\ kid' = [kid EXCEPT ![c] = k]
       /\ missed' = [missed EXCEPT ![c] = FALSE]
       /\ cached' = [cached EXCEPT ![c] = ready /\ Resolve(cache, k) = "fit"]
  /\ since' = [since EXCEPT ![c] = now]
  /\ refreshed' = [refreshed EXCEPT ![c] = FALSE]
  /\ IF closed THEN Return(c, "keys_unavailable")
     ELSE Goto(c, IF HasProvider THEN "provider" ELSE "fresh")
  /\ UNCHANGED <<now, issuerVars, cacheVars, refreshVars, neg, closed>>

\* The provider may fail.  A key it offers and that does not fit settles the question.
providerKeySet(c) ==
  /\ pc[c] = "provider"
  /\ \/ Return(c, "keys_unavailable")
     \/ Resolve(offered, kid[c]) = "fit" /\ Return(c, "local")
     \/ Resolve(offered, kid[c]) = "unfit" /\ Return(c, "key_unsupported")
     \/ /\ Resolve(offered, kid[c]) = "absent"
        /\ IF jwks THEN Goto(c, "fresh") ELSE Return(c, "unknown_kid")
  /\ UNCHANGED <<now, issuerVars, cacheVars, refreshVars, neg, closed, kid, refreshed, since,
                 missed, cached>>

Stale == now - lastSuccess > MaxStale
StaleByAttempt == now - lastRefresh > MaxStale

FreshByAttempt(c) ==
  /\ pc[c] \in {"fresh", "fresh2"}
  /\ MaxStale = 0 \/ mu = Nobody
  /\ IF MaxStale = 0 \/ ~Stale \/ ~StaleByAttempt THEN Goto(c, "lookup")
     ELSE IF pc[c] = "fresh" THEN Goto(c, "stale")
     ELSE Return(c, "keys_stale")
  /\ UNCHANGED <<now, issuerVars, cacheVars, refreshVars, neg, closed, kid, refreshed, since,
                 missed, cached>>

\* staleness() takes refreshMu.  Stale keys get one refresh before they are refused.
jwksFresh(c) ==
  /\ pc[c] \in {"fresh", "fresh2"}
  /\ MaxStale = 0 \/ mu = Nobody
  /\ IF MaxStale = 0 \/ ~Stale THEN Goto(c, "lookup")
     ELSE IF pc[c] = "fresh" THEN Goto(c, "stale")
     ELSE Return(c, "keys_stale")
  /\ UNCHANGED <<now, issuerVars, cacheVars, refreshVars, neg, closed, kid, refreshed, since,
                 missed, cached>>

LookupUnbound(c) ==
  /\ pc[c] \in {"lookup", "lookup2"} /\ ~closed
  /\ LET s == Resolve(cache, kid[c]) IN
       IF ~ready THEN Return(c, "keys_unavailable")
       ELSE IF s = "fit" THEN Return(c, "keys")
       ELSE IF s = "unfit" THEN Return(c, "key_unsupported")
       ELSE IF kid[c] = NoKid THEN Return(c, "no_match")
       ELSE IF pc[c] = "lookup" THEN Goto(c, "neg")
       ELSE IF refreshed[c] THEN Goto(c, "record") ELSE Return(c, "unknown_kid")
  /\ UNCHANGED <<now, issuerVars, cacheVars, refreshVars, neg, closed, kid, refreshed, since,
                 missed, cached>>

\* The Lookup fails once the lifetime context is cancelled, and may when the request's
\* is.  Of the second one's misses only those after a fetch are recorded.
lookupCandidates(c) ==
  /\ pc[c] \in {"lookup", "lookup2"}
  /\ LET s == Resolve(cache, kid[c]) IN
     \/ Return(c, "keys_unavailable")
     \/ IF closed \/ ~ready THEN Return(c, "keys_unavailable")
        ELSE IF s = "fit" THEN Return(c, "keys")
        ELSE IF s = "unfit" THEN Return(c, "key_unsupported")
        ELSE IF kid[c] = NoKid THEN Return(c, "no_match")
        ELSE IF pc[c] = "lookup" THEN Goto(c, "neg")
        ELSE IF refreshed[c] THEN Goto(c, "record") ELSE Return(c, "unknown_kid")
  /\ UNCHANGED <<now, issuerVars, cacheVars, refreshVars, neg, closed, kid, refreshed, since,
                 missed, cached>>

knownBadKID(c) ==
  /\ pc[c] = "neg"
  /\ IF now < neg[kid[c]] THEN Return(c, "unknown_kid") ELSE Goto(c, "miss")
  /\ UNCHANGED <<now, issuerVars, cacheVars, refreshVars, neg, closed, kid, refreshed, since,
                 missed, cached>>

-----------------------------------------------------------------------------
(* refreshOnce: under refreshMu, the floor and then the fetch. *)

After(c) == IF pc[c] \in {"stale", "sfetch"} THEN "fresh2" ELSE "lookup2"

SkipAsFetched(c) ==
  /\ pc[c] \in {"stale", "miss"}
  /\ mu = Nobody
  /\ now - lastRefresh < Floor
  /\ refreshed' = [refreshed EXCEPT ![c] = TRUE]
  /\ Goto(c, After(c))
  /\ UNCHANGED <<now, issuerVars, cacheVars, refreshVars, neg, closed, kid, since, missed, cached>>

Skip(c) ==
  /\ pc[c] \in {"stale", "miss"}
  /\ mu = Nobody
  /\ now - lastRefresh < Floor
  /\ refreshed' = [refreshed EXCEPT ![c] = FALSE]
  /\ Goto(c, After(c))
  /\ UNCHANGED <<now, issuerVars, cacheVars, refreshVars, neg, closed, kid, since, missed, cached>>

LockShared(c) ==
  /\ pc[c] \in {"stale", "miss"}
  /\ now - lastRefresh >= Floor
  /\ mu' = c /\ began' = now
  /\ Goto(c, IF pc[c] = "stale" THEN "sfetch" ELSE "mfetch")
  /\ UNCHANGED <<now, issuerVars, cacheVars, lastRefresh, lastSuccess, neg, closed, kid,
                 refreshed, since, missed, cached>>

Lock(c) ==
  /\ pc[c] \in {"stale", "miss"}
  /\ mu = Nobody
  /\ now - lastRefresh >= Floor
  /\ mu' = c /\ began' = now
  /\ Goto(c, IF pc[c] = "stale" THEN "sfetch" ELSE "mfetch")
  /\ UNCHANGED <<now, issuerVars, cacheVars, lastRefresh, lastSuccess, neg, closed, kid,
                 refreshed, since, missed, cached>>

\* The issuer's answer, of some moment of the fetch; the clock is read after it.
FetchOK(c) ==
  /\ pc[c] \in {"sfetch", "mfetch"}
  /\ now <= began + FetchTime
  /\ \E set \in PublishedSince(began) : Install(set)
  /\ mu' = Nobody /\ began' = 0
  /\ lastRefresh' = now
  /\ lastSuccess' = now
  /\ refreshed' = [refreshed EXCEPT ![c] = TRUE]
  /\ Goto(c, After(c))
  /\ UNCHANGED <<now, issuerVars, neg, closed, kid, since>>

\* The issuer is down, the fetch times out, or the lifetime context is cancelled.  The
\* floor moves all the same.
FetchFail(c) ==
  /\ pc[c] \in {"sfetch", "mfetch"}
  /\ mu' = Nobody /\ began' = 0
  /\ lastRefresh' = now
  /\ Return(c, IF pc[c] = "sfetch" THEN "keys_stale" ELSE "keys_unavailable")
  /\ UNCHANGED <<now, issuerVars, cacheVars, lastSuccess, neg, closed, kid, refreshed, since,
                 missed, cached>>

-----------------------------------------------------------------------------
Recorded == {k \in Kid : neg[k] # 0}
Oldest == {k \in Recorded : \A j \in Recorded : neg[k] <= neg[j]}

\* The oldest entry makes room, even for a kid that is in the cache already.
recordBadKID(c) ==
  /\ pc[c] = "record"
  /\ \E e \in IF Cardinality(Recorded) >= MaxEntries THEN Oldest ELSE {NoKid} :
       neg' = [k \in Kid |-> IF k = kid[c] THEN now + TTL ELSE IF k = e THEN 0 ELSE neg[k]]
  /\ Return(c, "unknown_kid")
  /\ UNCHANGED <<now, issuerVars, cacheVars, refreshVars, closed, kid, refreshed, since,
                 missed, cached>>

refreshOnce(c) == Skip(c) \/ Lock(c) \/ FetchOK(c) \/ FetchFail(c)

Step(c) == \/ providerKeySet(c) \/ jwksFresh(c) \/ lookupCandidates(c) \/ knownBadKID(c)
           \/ refreshOnce(c) \/ recordBadKID(c)

Next == \/ Rotate \/ Tick \/ BackgroundRefresh \/ Close
        \/ \E c \in Caller : Validate(c) \/ Step(c)

Spec == Init /\ [][Next]_vars

-----------------------------------------------------------------------------
(* Properties. *)

\* With a staleness bound no call accepts a JWKS key that the issuer had withdrawn more than
\* the bound and the time of one fetch before the call began, however refreshes fail, last and
\* interleave.  The bound alone would be too little: success is dated when the answer comes in,
\* not when the issuer gave it (jwksFresh, refreshOnce).
RevocationBound ==
  MaxStale > 0 => \A c \in Caller : answer[c] = "keys" =>
    \E k \in Kid :
      /\ kid[c] \in {k, NoKid}
      /\ \/ pub[k] = "fit"
         \/ \E o \in past : o.keys[k] = "fit" /\ since[c] <= o.until + MaxStale + FetchTime

\* An unknown key is unknown.  A kid enters the negative cache only after a fetch during the
\* call has brought a set without it, so that the floor never turns a rotated key away for
\* the whole TTL; and a kid that stays fit in the cached set is never answered as unknown,
\* whatever late callers write into the negative cache (verificationKeys, recordBadKID).
UnknownIsTrue ==
  \A c \in Caller : /\ pc[c] = "record" => missed[c]
                    /\ answer[c] = "unknown_kid" => ~cached[c]

\* Callers that miss at the same time cause one fetch: an attempt of refreshOnce ends at
\* least the floor after the one before it.
OneFetchPerFloor ==
  [][\A c \in Caller : pc[c] \in {"sfetch", "mfetch"} /\ pc'[c] # pc[c]
       => now >= lastRefresh + Floor]_vars

\* A call in progress can always go on, after Close and while the issuer is down too: it
\* waits for nothing but refreshMu, and only while another call fetches.
NeverStuck ==
  \A c \in Caller : Busy(c) =>
    \/ ENABLED Step(c)
    \/ \E d \in Caller \ {c} : mu = d /\ pc[d] \in {"sfetch", "mfetch"}

=============================================================================

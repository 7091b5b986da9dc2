------------------------- MODULE KeyResolutionProofs -------------------------
(* Theorems about KeyResolution, for any sets of callers and kids, any issuer,
   provider and clock, and every floor, TTL and staleness bound. *)
EXTENDS KeyResolution, TLAPS

\* The default prover; a leaf with arithmetic or sequences cites SMTT.
USE ZenonT(30)

\* Nothing is dated in the future.
ClockInv ==
  /\ lastRefresh <= now /\ lastSuccess <= now
  /\ \A o \in past : o.until <= now
  /\ \A c \in Caller : since[c] <= now

\* A call is answered once.
PhaseInv == \A c \in Caller : answer[c] # "none" => pc[c] = "done"

\* A fetch holds refreshMu, and began when the floor had passed.
FetchInv ==
  \A c \in Caller : pc[c] \in {"sfetch", "mfetch"} => mu = c /\ lastRefresh + Floor <= now

\* The cached set is the published one, or the issuer gave it up no more than a fetch before
\* the last recorded success: what came later through the background refresh can be no older.
CacheInv ==
  ready => \/ cache = pub
           \/ \E o \in past : o.keys = cache /\ lastSuccess <= o.until + FetchTime

\* Past the freshness check the last success is within the bound of the call's begin.
Checked == {"lookup", "neg", "miss", "mfetch", "lookup2", "record"}
FreshInv ==
  MaxStale > 0 => \A c \in Caller : pc[c] \in Checked => since[c] <= lastSuccess + MaxStale

\* A validator without a JWKS URL never gets to the cache.
NoJwksInv ==
  ~jwks => /\ HasProvider /\ ~ready
           /\ \A c \in Caller : ~cached[c] /\ pc[c] \in {"idle", "provider", "done"}

\* What `cached' and `missed' say of a call in progress.
CachedInv ==
  \A c \in Caller :
    /\ cached[c] /\ Busy(c) => Resolve(cache, kid[c]) = "fit"
    /\ pc[c] \in Checked \ {"lookup"} => ~cached[c]
MissedInv ==
  \A c \in Caller :
    pc[c] = "lookup2" /\ refreshed[c] /\ Resolve(cache, kid[c]) = "absent" => missed[c]

Inv == /\ TypeOK /\ ClockInv /\ PhaseInv /\ FetchInv /\ CacheInv /\ FreshInv
       /\ NoJwksInv /\ CachedInv /\ MissedInv /\ UnknownIsTrue /\ RevocationBound

\* The constants that arithmetic is done with.
LEMMA Bounds == Floor \in Nat /\ TTL \in Nat /\ MaxStale \in Nat /\ FetchTime \in Nat /\ Zero \in Nat
                /\ Zero - FetchTime \in Nat
  BY ConfigAssumption, SMTT(30) DEF Zero

LEMMA InitInv == Init => Inv
<1> SUFFICES ASSUME Init PROVE Inv
  OBVIOUS
<1> USE ConfigAssumption, Bounds DEF Init
<1>1. TypeOK
  <2>1. pub \in KeySet /\ past \in SUBSET [keys : KeySet, until : Nat]
    <3>1. ASSUME NEW set \in Initial, NEW t \in (Zero - FetchTime)..Zero
          PROVE [keys |-> set, until |-> t] \in [keys : KeySet, until : Nat]
      <4>1. t \in Nat
        BY <3>1, SMTT(30)
      <4> QED BY <3>1, <4>1
    <3>2. past \subseteq [keys : KeySet, until : Nat]
      <4>1. CASE past = {}
        BY <4>1
      <4>2. CASE \E set \in Initial, t \in (Zero - FetchTime)..Zero :
                   past = {[keys |-> set, until |-> t]}
        BY <3>1, <4>2, SMTT(30)
      <4> QED BY <4>1, <4>2
    <3> QED BY <3>2
  <2>6. cache \in KeySet
    <3>1. CASE cache = [k \in Kid |-> "absent"]
      BY <3>1 DEF KeySet, Status
    <3>2. CASE cache \in PublishedSince(Zero - FetchTime)
      BY <2>1, <3>2 DEF PublishedSince
    <3> QED BY <3>1, <3>2
  <2>2. kid \in [Caller -> Kid \cup {NoKid}]
    OBVIOUS
  <2>3. began \in Nat /\ neg \in [Kid -> Nat] /\ since \in [Caller -> Nat]
    OBVIOUS
  <2>4. pc \in [Caller -> Pc] /\ answer \in [Caller -> Answer]
    BY DEF Answer, Pc
  <2>5. now \in Nat /\ rotations \in Nat /\ lastRefresh \in Nat /\ lastSuccess \in Nat
    BY SMTT(30)
  <2> QED BY <2>1, <2>2, <2>3, <2>4, <2>5, <2>6 DEF TypeOK
<1>2. ClockInv /\ PhaseInv /\ FetchInv
  <2>1. \A o \in past : o.until <= now /\ o.until \in Nat /\ Zero <= o.until + FetchTime
    BY SMTT(30)
  <2>2. lastRefresh <= now /\ lastSuccess <= now /\ \A c \in Caller : since[c] <= now
    BY SMTT(30)
  <2> QED BY <2>1, <2>2 DEF ClockInv, PhaseInv, FetchInv
<1>3. CacheInv /\ FreshInv
  <2>1. \A o \in past : lastSuccess <= o.until + FetchTime
    BY SMTT(30)
  <2> QED BY <2>1 DEF CacheInv, FreshInv, Checked, PublishedSince
<1>4. NoJwksInv /\ CachedInv /\ MissedInv
  BY DEF NoJwksInv, CachedInv, MissedInv, Busy, Checked
<1>5. UnknownIsTrue /\ RevocationBound
  BY DEF UnknownIsTrue, RevocationBound
<1> QED BY <1>1, <1>2, <1>3, <1>4, <1>5 DEF Inv

\* What a fetch brings is a key set.
LEMMA PublishedType == TypeOK => \A t : PublishedSince(t) \subseteq KeySet
  BY DEF TypeOK, PublishedSince

\* Types, by action.
LEMMA TypeStep == TypeOK /\ [Next]_vars => TypeOK'
<1> SUFFICES ASSUME TypeOK, [Next]_vars PROVE TypeOK'
  OBVIOUS
<1> USE ConfigAssumption, Bounds DEF TypeOK, KeySet, Status, Answer, Pc, issuerVars, cacheVars,
        refreshVars, callVars, Goto, Return
<1>1. CASE Rotate
  BY <1>1, SMTT(30) DEF Rotate
<1>2. CASE Tick
  BY <1>2, SMTT(30) DEF Tick
<1>3. CASE BackgroundRefresh
  <2>1. PICK set \in KeySet : Install(set)
    BY <1>3, PublishedType DEF BackgroundRefresh
  <2> QED BY <1>3, <2>1 DEF BackgroundRefresh, Install
<1>4. CASE Close
  BY <1>4 DEF Close
<1>5. ASSUME NEW c \in Caller, Validate(c) PROVE TypeOK'
  BY <1>5, SMTT(30) DEF Validate
<1>6. ASSUME NEW c \in Caller, providerKeySet(c) PROVE TypeOK'
  BY <1>6, SMTT(30) DEF providerKeySet
<1>7. ASSUME NEW c \in Caller, jwksFresh(c) PROVE TypeOK'
  BY <1>7, SMTT(30) DEF jwksFresh
<1>8. ASSUME NEW c \in Caller, lookupCandidates(c) PROVE TypeOK'
  BY <1>8, SMTT(30) DEF lookupCandidates
<1>9. ASSUME NEW c \in Caller, knownBadKID(c) PROVE TypeOK'
  BY <1>9, SMTT(30) DEF knownBadKID
<1>10. ASSUME NEW c \in Caller, Skip(c) PROVE TypeOK'
  BY <1>10 DEF Skip, After
<1>11. ASSUME NEW c \in Caller, Lock(c) PROVE TypeOK'
  BY <1>11 DEF Lock
<1>12. ASSUME NEW c \in Caller, FetchOK(c) PROVE TypeOK'
  <2>1. PICK set \in KeySet : Install(set)
    BY <1>12, PublishedType DEF FetchOK
  <2> QED BY <1>12, <2>1 DEF FetchOK, Install, After
<1>13. ASSUME NEW c \in Caller, FetchFail(c) PROVE TypeOK'
  BY <1>13 DEF FetchFail
<1>14. ASSUME NEW c \in Caller, recordBadKID(c) PROVE TypeOK'
  BY <1>14, SMTT(30) DEF recordBadKID
<1>15. CASE UNCHANGED vars
  BY <1>15 DEF vars
<1> QED
  BY <1>1, <1>2, <1>3, <1>4, <1>5, <1>6, <1>7, <1>8, <1>9, <1>10, <1>11, <1>12, <1>13, <1>14, <1>15
  DEF Next, Step, refreshOnce

\* Neither the clock nor the dates it gives run backwards past each other.
LEMMA ClockStep == TypeOK /\ ClockInv /\ [Next]_vars => ClockInv'
<1> SUFFICES ASSUME TypeOK, ClockInv, [Next]_vars PROVE ClockInv'
  OBVIOUS
<1> USE DEF TypeOK, ClockInv, issuerVars, cacheVars, refreshVars, callVars
<1>1. CASE Rotate
  BY <1>1, SMTT(30) DEF Rotate
<1>2. CASE Tick
  BY <1>2, SMTT(30) DEF Tick
<1>3. CASE BackgroundRefresh \/ Close \/ UNCHANGED vars
  BY <1>3 DEF BackgroundRefresh, Install, Close, vars
<1>4. ASSUME NEW c \in Caller, Validate(c) PROVE ClockInv'
  BY <1>4, SMTT(30) DEF Validate
<1>5. ASSUME NEW c \in Caller, providerKeySet(c) \/ jwksFresh(c) \/ lookupCandidates(c) \/ knownBadKID(c)
      PROVE ClockInv'
  BY <1>5 DEF providerKeySet, jwksFresh, lookupCandidates, knownBadKID
<1>6. ASSUME NEW c \in Caller, Skip(c) \/ Lock(c) \/ recordBadKID(c) PROVE ClockInv'
  BY <1>6 DEF Skip, Lock, recordBadKID
<1>7. ASSUME NEW c \in Caller, FetchOK(c) \/ FetchFail(c) PROVE ClockInv'
  <2>1. now <= now
    BY SMTT(30)
  <2> QED BY <1>7, <2>1 DEF FetchOK, FetchFail
<1> QED BY <1>1, <1>2, <1>3, <1>4, <1>5, <1>6, <1>7 DEF Next, Step, refreshOnce

\* refreshMu excludes: while a call fetches no other takes the mutex or moves the floor.
LEMMA FetchStep == TypeOK /\ ClockInv /\ PhaseInv /\ FetchInv /\ [Next]_vars
                     => PhaseInv' /\ FetchInv'
<1> SUFFICES ASSUME TypeOK, ClockInv, PhaseInv, FetchInv, [Next]_vars
             PROVE PhaseInv' /\ FetchInv'
  OBVIOUS
<1> USE ConfigAssumption, Bounds DEF TypeOK, PhaseInv, FetchInv, issuerVars, cacheVars,
        refreshVars, callVars, Goto, Return
<1>1. CASE Rotate \/ BackgroundRefresh \/ Close \/ UNCHANGED vars
  BY <1>1 DEF Rotate, BackgroundRefresh, Install, Close, vars
<1>2. CASE Tick
  BY <1>2, SMTT(30) DEF Tick
<1>3. ASSUME NEW c \in Caller, Validate(c) PROVE PhaseInv' /\ FetchInv'
  BY <1>3, SMTT(30) DEF Validate
<1>4. ASSUME NEW c \in Caller, providerKeySet(c) \/ jwksFresh(c) PROVE PhaseInv' /\ FetchInv'
  BY <1>4, SMTT(30) DEF providerKeySet, jwksFresh
<1>5. ASSUME NEW c \in Caller, lookupCandidates(c) PROVE PhaseInv' /\ FetchInv'
  BY <1>5, SMTT(30) DEF lookupCandidates
<1>6. ASSUME NEW c \in Caller, knownBadKID(c) \/ recordBadKID(c) PROVE PhaseInv' /\ FetchInv'
  BY <1>6, SMTT(30) DEF knownBadKID, recordBadKID
<1>7. ASSUME NEW c \in Caller, Skip(c) \/ Lock(c) PROVE PhaseInv' /\ FetchInv'
  BY <1>7, SMTT(30) DEF Skip, Lock, After
<1>8. ASSUME NEW c \in Caller, FetchOK(c) \/ FetchFail(c) PROVE PhaseInv' /\ FetchInv'
  BY <1>8, SMTT(30) DEF FetchOK, FetchFail, Install, After
<1> QED BY <1>1, <1>2, <1>3, <1>4, <1>5, <1>6, <1>7, <1>8 DEF Next, Step, refreshOnce

\* A set that comes in now is published now, or was within the time of a fetch.
LEMMA Fetched ==
  ASSUME TypeOK, NEW t \in Int, now <= t + FetchTime, NEW set \in PublishedSince(t)
  PROVE  set = pub \/ \E o \in past : o.keys = set /\ now <= o.until + FetchTime
<1>1. ASSUME NEW o \in past, o.until >= t PROVE now <= o.until + FetchTime
  BY <1>1, Bounds, SMTT(30) DEF TypeOK
<1> QED BY <1>1 DEF PublishedSince

\* The cached set is older than the last recorded success by no more than a fetch.
LEMMA CacheStep == TypeOK /\ ClockInv /\ CacheInv /\ [Next]_vars => CacheInv'
<1> SUFFICES ASSUME TypeOK, ClockInv, CacheInv, [Next]_vars PROVE CacheInv'
  OBVIOUS
<1>1. CASE Rotate
  <2>1. now \in Nat /\ lastSuccess \in Nat /\ lastSuccess <= now
    BY DEF TypeOK, ClockInv
  <2>2. lastSuccess <= now + FetchTime
    BY <2>1, Bounds, SMTT(30)
  <2> DEFINE last == [keys |-> pub, until |-> now]
  <2>5. last \in past'
    BY <1>1 DEF Rotate
  <2>3. last.keys = pub /\ last.until = now
    BY SMTT(30)
  <2> HIDE DEF last
  <2>4. past \subseteq past' /\ lastSuccess' = lastSuccess /\ cache' = cache /\ ready' = ready
    BY <1>1 DEF Rotate, cacheVars, refreshVars
  <2> QED BY <2>2, <2>3, <2>4, <2>5 DEF CacheInv
<1>2. CASE Tick \/ Close \/ UNCHANGED vars
  BY <1>2 DEF Tick, Close, vars, CacheInv, issuerVars, cacheVars, refreshVars
<1>3. ASSUME NEW t \in Int, now <= t + FetchTime, NEW set \in PublishedSince(t), Install(set),
             lastSuccess' \in {lastSuccess, now}, UNCHANGED issuerVars
      PROVE CacheInv'
  <2>1. ASSUME NEW o \in past, now <= o.until + FetchTime
        PROVE lastSuccess' <= o.until + FetchTime
    BY <1>3, <2>1, Bounds, SMTT(30) DEF TypeOK, ClockInv
  <2> QED BY <1>3, <2>1, Fetched DEF CacheInv, Install, issuerVars
<1>4. CASE BackgroundRefresh
  <2>1. now - FetchTime \in Int /\ now <= (now - FetchTime) + FetchTime
    BY Bounds, SMTT(30) DEF TypeOK
  <2> QED BY <1>3, <1>4, <2>1 DEF BackgroundRefresh, refreshVars
<1>5. ASSUME NEW c \in Caller, FetchOK(c) PROVE CacheInv'
  <2>1. began \in Int
    BY SMTT(30) DEF TypeOK
  <2> QED BY <1>3, <1>5, <2>1 DEF FetchOK
<1>6. ASSUME NEW c \in Caller, Validate(c) \/ (Step(c) /\ ~FetchOK(c)) PROVE CacheInv'
  BY <1>6 DEF Validate, Step, providerKeySet, jwksFresh, lookupCandidates, knownBadKID, refreshOnce, Skip,
              Lock, FetchFail, recordBadKID, CacheInv, issuerVars, cacheVars, refreshVars
<1> QED BY <1>1, <1>2, <1>4, <1>5, <1>6 DEF Next

\* A call passes the freshness check only while the last success is recent enough, and
\* lastSuccess never falls back.
LEMMA FreshStep == TypeOK /\ ClockInv /\ FreshInv /\ [Next]_vars => FreshInv'
<1> SUFFICES ASSUME TypeOK, ClockInv, FreshInv, [Next]_vars, MaxStale > 0,
                    NEW d \in Caller, pc'[d] \in Checked
             PROVE since'[d] <= lastSuccess' + MaxStale
  BY DEF FreshInv
<1> USE ConfigAssumption, Bounds DEF TypeOK, ClockInv, FreshInv, Checked, issuerVars, cacheVars,
        refreshVars, callVars, Goto, Return
<1>1. CASE Rotate \/ Tick \/ BackgroundRefresh \/ Close \/ UNCHANGED vars
  BY <1>1 DEF Rotate, Tick, BackgroundRefresh, Install, Close, vars
<1>2. CASE \E c \in Caller : Validate(c)
  BY <1>2, SMTT(30) DEF Validate
<1>3. CASE \E c \in Caller : providerKeySet(c)
  BY <1>3, SMTT(30) DEF providerKeySet
<1>4. CASE \E c \in Caller : jwksFresh(c)
  BY <1>4, SMTT(30) DEF jwksFresh, Stale
<1>5. CASE \E c \in Caller : lookupCandidates(c)
  BY <1>5, SMTT(30) DEF lookupCandidates
<1>6. CASE \E c \in Caller : knownBadKID(c) \/ recordBadKID(c)
  BY <1>6, SMTT(30) DEF knownBadKID, recordBadKID
<1>7. CASE \E c \in Caller : Skip(c) \/ Lock(c)
  BY <1>7, SMTT(30) DEF Skip, Lock, After
<1>8. CASE \E c \in Caller : FetchOK(c) \/ FetchFail(c)
  BY <1>8, SMTT(30) DEF FetchOK, FetchFail, Install, After
<1> QED BY <1>1, <1>2, <1>3, <1>4, <1>5, <1>6, <1>7, <1>8 DEF Next, Step, refreshOnce

\* With neither a match nor an unfit key, there is no key.
LEMMA ResolveCases ==
  ASSUME NEW set \in KeySet, NEW k \in Kid \cup {NoKid}
  PROVE  /\ Resolve(set, k) \in Status
         /\ Resolve(set, k) = "fit" => \E j \in Kid : k \in {j, NoKid} /\ set[j] = "fit"
  BY ConfigAssumption DEF Resolve, KeySet, Status

\* Without a JWKS URL no call leaves the provider.
LEMMA NoJwksStep == TypeOK /\ NoJwksInv /\ [Next]_vars => NoJwksInv'
<1> SUFFICES ASSUME TypeOK, NoJwksInv, [Next]_vars, ~jwks' PROVE NoJwksInv'
  BY DEF NoJwksInv
<1> USE DEF TypeOK, NoJwksInv, HasProvider, issuerVars, cacheVars, refreshVars, callVars, Goto,
            Return
<1>1. CASE Rotate \/ Tick \/ BackgroundRefresh \/ Close \/ UNCHANGED vars
  BY <1>1 DEF Rotate, Tick, BackgroundRefresh, Close, vars
<1>2. CASE \E c \in Caller : Validate(c)
  BY <1>2, SMTT(30) DEF Validate
<1>3. CASE \E c \in Caller : providerKeySet(c)
  BY <1>3, SMTT(30) DEF providerKeySet
<1>4. CASE \E c \in Caller : jwksFresh(c) \/ lookupCandidates(c) \/ knownBadKID(c)
  BY <1>4, SMTT(30) DEF jwksFresh, lookupCandidates, knownBadKID
<1>5. CASE \E c \in Caller : refreshOnce(c) \/ recordBadKID(c)
  BY <1>5, SMTT(30) DEF refreshOnce, Skip, Lock, FetchOK, FetchFail, recordBadKID
<1> QED BY <1>1, <1>2, <1>3, <1>4, <1>5 DEF Next, Step

\* A kid that is fit in the cached set stops a call at its first lookup; one that a fetch
\* of the call has not found is marked as missed before it is recorded.
Unknown == CachedInv /\ MissedInv /\ UnknownIsTrue
LEMMA UnknownStep == TypeOK /\ PhaseInv /\ NoJwksInv /\ Unknown /\ [Next]_vars => Unknown'
<1> SUFFICES ASSUME TypeOK, PhaseInv, NoJwksInv, Unknown, [Next]_vars PROVE Unknown'
  OBVIOUS
<1> USE DEF TypeOK, PhaseInv, Unknown, CachedInv, MissedInv, UnknownIsTrue, Checked, Busy,
            issuerVars, cacheVars, refreshVars, callVars, Goto, Return
<1>1. CASE Rotate \/ Tick \/ Close \/ UNCHANGED vars
  BY <1>1, SMTT(30) DEF Rotate, Tick, Close, vars
<1>2. CASE BackgroundRefresh
  <2>1. PICK set : Install(set)
    BY <1>2 DEF BackgroundRefresh
  <2> QED BY <1>2, <2>1 DEF BackgroundRefresh, Install
<1>3. ASSUME NEW c \in Caller, Validate(c) PROVE Unknown'
  BY <1>3, SMTT(30) DEF Validate
<1>4. ASSUME NEW c \in Caller, providerKeySet(c) PROVE Unknown'
  BY <1>4, SMTT(30) DEF providerKeySet, NoJwksInv
<1>5. ASSUME NEW c \in Caller, jwksFresh(c) PROVE Unknown'
  BY <1>5, SMTT(30) DEF jwksFresh
<1>6. ASSUME NEW c \in Caller, lookupCandidates(c) PROVE Unknown'
  <2>1. Resolve(cache, kid[c]) \in {"fit", "unfit", "absent"}
    BY ResolveCases, SMTT(30) DEF Status
  <2> QED BY <1>6, <2>1, SMTT(30) DEF lookupCandidates
<1>7. ASSUME NEW c \in Caller, knownBadKID(c) \/ recordBadKID(c) PROVE Unknown'
  BY <1>7, SMTT(30) DEF knownBadKID, recordBadKID
<1>8. ASSUME NEW c \in Caller, Skip(c) \/ Lock(c) PROVE Unknown'
  BY <1>8, SMTT(30) DEF Skip, Lock, After
<1>9. ASSUME NEW c \in Caller, FetchOK(c) PROVE Unknown'
  <2>1. PICK set : Install(set)
    BY <1>9 DEF FetchOK
  <2> QED BY <1>9, <2>1 DEF FetchOK, Install, After
<1>10. ASSUME NEW c \in Caller, FetchFail(c) PROVE Unknown'
  BY <1>10, SMTT(30) DEF FetchFail
<1> QED BY <1>1, <1>2, <1>3, <1>4, <1>5, <1>6, <1>7, <1>8, <1>9, <1>10 DEF Next, Step, refreshOnce

\* A call that returns keys looks them up in a cached set that is recent enough.  Later
\* steps change what it was told by no more than a withdrawal, which is dated now.
LEMMA RevocationStep ==
  TypeOK /\ ClockInv /\ PhaseInv /\ CacheInv /\ FreshInv /\ RevocationBound /\ [Next]_vars
    => RevocationBound'
<1> DEFINE Recent(d, k) ==
             \/ pub[k] = "fit"
             \/ \E o \in past : o.keys[k] = "fit" /\ since[d] <= o.until + MaxStale + FetchTime
<1> SUFFICES ASSUME TypeOK, ClockInv, PhaseInv, CacheInv, FreshInv, RevocationBound, [Next]_vars,
                    MaxStale > 0, NEW d \in Caller, answer'[d] = "keys"
             PROVE \E k \in Kid : kid'[d] \in {k, NoKid} /\ Recent(d, k)'
  BY DEF RevocationBound
<1>1. CASE Rotate
  <2>1. PICK k \in Kid : kid[d] \in {k, NoKid} /\ Recent(d, k)
    BY <1>1 DEF Rotate, RevocationBound, callVars
  <2>2. since[d] <= now + MaxStale + FetchTime
    BY Bounds, SMTT(30) DEF TypeOK, ClockInv
  <2>3. since' = since /\ kid' = kid /\ past \subseteq past'
    BY <1>1 DEF Rotate, callVars
  <2> DEFINE last == [keys |-> pub, until |-> now]
  <2>5. last \in past'
    BY <1>1 DEF Rotate
  <2>4. last.keys = pub /\ last.until = now
    BY SMTT(30)
  <2> HIDE DEF last
  <2> QED BY <2>1, <2>2, <2>3, <2>4, <2>5
<1>2. CASE Tick \/ BackgroundRefresh \/ Close \/ UNCHANGED vars
  BY <1>2 DEF Tick, BackgroundRefresh, Install, Close, vars, RevocationBound, issuerVars, callVars
<1>3. ASSUME NEW c \in Caller, lookupCandidates(c), c = d
      PROVE \E k \in Kid : kid'[d] \in {k, NoKid} /\ Recent(d, k)'
  <2>1. Resolve(cache, kid[d]) = "fit" /\ pc[d] \in Checked /\ ready
    BY <1>3, SMTT(30) DEF lookupCandidates, Goto, Return, PhaseInv, Checked, TypeOK
  <2>2. PICK k \in Kid : kid[d] \in {k, NoKid} /\ cache[k] = "fit"
    BY <2>1, ResolveCases DEF TypeOK
  <2>3. ASSUME NEW o \in past, lastSuccess <= o.until + FetchTime
        PROVE since[d] <= o.until + MaxStale + FetchTime
    BY <2>1, <2>3, Bounds, SMTT(30) DEF FreshInv, TypeOK
  <2>4. Recent(d, k)
    BY <2>1, <2>2, <2>3 DEF CacheInv
  <2> QED BY <1>3, <2>2, <2>4 DEF lookupCandidates, issuerVars
<1>4. ASSUME NEW c \in Caller, Validate(c) \/ Step(c), ~(lookupCandidates(c) /\ c = d)
      PROVE \E k \in Kid : kid'[d] \in {k, NoKid} /\ Recent(d, k)'
  <2>1. answer[d] = "keys" /\ kid'[d] = kid[d] /\ since'[d] = since[d]
    <3>1. CASE Validate(c)
      BY <1>4, <3>1, SMTT(30) DEF Validate, Goto, Return, PhaseInv, TypeOK
    <3>2. CASE providerKeySet(c) \/ jwksFresh(c) \/ lookupCandidates(c) \/ knownBadKID(c)
      BY <1>4, <3>2 DEF providerKeySet, jwksFresh, lookupCandidates, knownBadKID, Goto, Return, TypeOK
    <3>3. CASE refreshOnce(c) \/ recordBadKID(c)
      BY <1>4, <3>3 DEF refreshOnce, Skip, Lock, FetchOK, FetchFail, recordBadKID, Goto, Return, TypeOK
    <3> QED BY <1>4, <3>1, <3>2, <3>3 DEF Step
  <2>2. pub' = pub /\ past' = past
    BY <1>4 DEF Validate, Step, providerKeySet, jwksFresh, lookupCandidates, knownBadKID,
                refreshOnce, Skip, Lock, FetchOK, FetchFail, recordBadKID, issuerVars
  <2> QED BY <2>1, <2>2 DEF RevocationBound
<1> QED BY <1>1, <1>2, <1>3, <1>4 DEF Next, Step

LEMMA InvStep == Inv /\ [Next]_vars => Inv'
  BY TypeStep, ClockStep, FetchStep, CacheStep, FreshStep, NoJwksStep, UnknownStep, RevocationStep
  DEF Inv, Unknown

\* The inductive invariant of key resolution holds in every reachable state.
THEOREM Invariance == Spec => []Inv
  BY InitInv, InvStep, PTL DEF Spec

\* No call accepts a JWKS key withdrawn more than MaxJWKSStaleness and the time of one fetch
\* before it began (jwksFresh, refreshOnce).
THEOREM RevocationBounded == Spec => []RevocationBound
<1>1. Inv => RevocationBound
  BY DEF Inv
<1> QED BY <1>1, Invariance, PTL

\* Only a kid that a fetch of the call has not found is recorded, and a kid that stays in
\* the cached set is never answered as unknown.
THEOREM UnknownHolds == Spec => []UnknownIsTrue
<1>1. Inv => UnknownIsTrue
  BY DEF Inv
<1> QED BY <1>1, Invariance, PTL

\* Two attempts of refreshOnce end at least the floor apart, however many callers miss.
THEOREM FetchesAreSpaced == Spec => OneFetchPerFloor
<1>1. Inv /\ [Next]_vars =>
        [\A c \in Caller : pc[c] \in {"sfetch", "mfetch"} /\ pc'[c] # pc[c]
            => now >= lastRefresh + Floor]_vars
  BY Bounds DEF Inv, FetchInv, TypeOK
<1> QED BY <1>1, Invariance, PTL DEF Spec, OneFetchPerFloor

=============================================================================

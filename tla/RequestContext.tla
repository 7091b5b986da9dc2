--------------------------- MODULE RequestContext ---------------------------
(***************************************************************************)
(* What a handler of mcpcompat/server sees of the HTTP request it serves:  *)
(* the values of the request's context, carried over by the nonce bridge   *)
(* (ServeHTTP, sessionDispatchMiddleware), and the ClientSession bound for *)
(* the dispatch (bindSessionForDispatch, bindEphemeralSession,             *)
(* contextWithSession, the handler wrappers).                              *)
(*                                                                         *)
(* A request has two threads: the goroutine of ServeHTTP and the go-sdk    *)
(* session goroutine that dispatches its message.  The nonce is fresh for  *)
(* every request (crand.Text), so the request stands for its nonce.  The   *)
(* values of a context are abstracted to one key, the identity contextFunc *)
(* puts in, which a request may lack.                                      *)
(***************************************************************************)
CONSTANTS Req,       \* HTTP requests, each used once
          Ident,     \* identities contextFunc injects
          Sid,       \* session IDs
          None,      \* no session ID, no identity on the context
          Stateless, \* WithStateless(true)
          LegacyIds  \* go-sdk runs with allowsessionsinstateless=1

VARIABLES
  http,     \* where ServeHTTP stands
  disp,     \* where the dispatch of the message stands
  ident,    \* the identity of the request
  method,   \* its MCP method
  sid,      \* the session ID it carries (minted, for initialize)
  left,     \* the client went away before the answer
  pending,  \* MCPServer.pendingReqCtx: nonces stored
  frozen,   \* identity on the context a session was created with (go-sdk)
  registry, \* MCPServer.sessions: IDs with a shared clientSession
  drains,   \* requests whose ephemeral session still drains its channel
  bound,    \* the ClientSession in the dispatch context
  seen,     \* the identity the handler reads off its context
  scope     \* cacheScope of the result

httpVars == <<http, ident, method, sid, left, pending>>
dispVars == <<disp, bound, seen, scope, registry, drains, frozen>>
vars == <<httpVars, dispVars>>

\* "call" is tools/call or prompts/get, "read" is resources/read; their wrappers
\* bind the session a second time.  The results of "list" and "read" embed
\* Cacheable, and go-sdk stamps those "public".
Wrapped == {"call", "read"}
Cacheable == {"list", "read"}
Method == {"initialize", "list", "call", "read", "notify"}
Scope == {"none", "public", "private"}

\* A ClientSession is the ephemeral one of a request or the registry's for an ID.
ClientSession == [kind : {"ephemeral"}, of : Req] \cup [kind : {"shared"}, of : Sid]
NoSession == [kind |-> "none", of |-> None]

HttpLabel == {"idle", "arrived", "stored", "waiting", "returning", "done"}
DispLabel == {"none", "queued", "bound", "bridged", "handling", "handled", "over"}

TypeOK ==
  /\ http \in [Req -> HttpLabel]
  /\ disp \in [Req -> DispLabel]
  /\ ident \in [Req -> Ident \cup {None}]
  /\ method \in [Req -> Method]
  /\ sid \in [Req -> Sid \cup {None}]
  /\ left \subseteq Req
  /\ pending \subseteq Req
  /\ frozen \in [Sid -> Ident \cup {None}]
  /\ registry \subseteq Sid
  /\ drains \subseteq Req
  /\ bound \in [Req -> ClientSession \cup {NoSession}]
  /\ seen \in [Req -> Ident \cup {None}]
  /\ scope \in [Req -> Scope]

Init ==
  /\ http = [q \in Req |-> "idle"]
  /\ disp = [q \in Req |-> "none"]
  /\ ident = [q \in Req |-> None]
  /\ method = [q \in Req |-> "notify"]
  /\ sid = [q \in Req |-> None]
  /\ left = {}
  /\ pending = {}
  /\ frozen = [s \in Sid |-> None]
  /\ registry = {}
  /\ drains = {}
  /\ bound = [q \in Req |-> NoSession]
  /\ seen = [q \in Req |-> None]
  /\ scope = [q \in Req |-> "none"]

-----------------------------------------------------------------------------
(* The goroutine of ServeHTTP. *)

\* initialize of this session has created it.
Created(s) == \E p \in Req : sid[p] = s /\ method[p] = "initialize" /\ disp[p] # "none"

\* contextFunc has put the identity on the context, if the request has one.
\* Stateful: initialize mints an ID that is not in use, any other message names a
\* session a client knows.
Arrive(q) ==
  /\ http[q] = "idle"
  /\ \E i \in Ident \cup {None}, m \in Method, s \in Sid \cup {None} :
       /\ IF Stateless THEN m # "initialize"
          ELSE /\ s # None
               /\ (m = "initialize") <=> ~Created(s)
               /\ m = "initialize" => \A p \in Req : sid[p] # s
       /\ ident' = [ident EXCEPT ![q] = i]
       /\ method' = [method EXCEPT ![q] = m]
       /\ sid' = [sid EXCEPT ![q] = s]
  /\ http' = [http EXCEPT ![q] = "arrived"]
  /\ UNCHANGED <<left, pending, dispVars>>

\* The gate denies the request before the nonce is stored.
Denied(q) ==
  /\ http[q] = "arrived"
  /\ http' = [http EXCEPT ![q] = "done"]
  /\ UNCHANGED <<ident, method, sid, left, pending, dispVars>>

setPendingRequestContext(q) ==
  /\ http[q] = "arrived"
  /\ pending' = pending \cup {q}
  /\ http' = [http EXCEPT ![q] = "stored"]
  /\ UNCHANGED <<ident, method, sid, left, dispVars>>

\* The handler publishes the message to the session.  A notification is answered
\* 202 at once, a call blocks ServeHTTP until its response.  initialize creates
\* the session with the context of its request.
Publish(q) ==
  /\ http[q] = "stored"
  /\ disp' = [disp EXCEPT ![q] = "queued"]
  /\ http' = [http EXCEPT ![q] = IF method[q] = "notify" THEN "returning" ELSE "waiting"]
  /\ frozen' = IF method[q] = "initialize"
               THEN [frozen EXCEPT ![sid[q]] = ident[q]] ELSE frozen
  /\ UNCHANGED <<ident, method, sid, left, pending, bound, seen, scope, registry, drains>>

\* The client disconnects while ServeHTTP waits.
Disconnect(q) ==
  /\ http[q] = "waiting"
  /\ left' = left \cup {q}
  /\ http' = [http EXCEPT ![q] = "returning"]
  /\ UNCHANGED <<ident, method, sid, pending, dispVars>>

Answered(q) ==
  /\ http[q] = "waiting"
  /\ disp[q] = "over"
  /\ http' = [http EXCEPT ![q] = "returning"]
  /\ UNCHANGED <<ident, method, sid, left, pending, dispVars>>

\* ServeHTTP returns and its deferred call drops the entry.
clearPendingRequestContext(q) ==
  /\ http[q] = "returning"
  /\ pending' = pending \ {q}
  /\ http' = [http EXCEPT ![q] = "done"]
  /\ UNCHANGED <<ident, method, sid, left, dispVars>>

-----------------------------------------------------------------------------
(* The dispatch of the message on the session goroutine. *)

\* ss.ID(): a stateless temporary session has none, unless the legacy flag lets
\* the header through.
SessionID(q) == IF Stateless /\ ~LegacyIds THEN None ELSE sid[q]

\* The context of the session goroutine.  A temporary session is created with
\* the context of its own request.
SessionValues(q) == IF Stateless THEN ident[q] ELSE frozen[sid[q]]

\* contextWithSession: the shared clientSession for a session with an ID.
contextWithSession(q, old) ==
  IF SessionID(q) = None THEN old ELSE [kind |-> "shared", of |-> SessionID(q)]

Registers(q) == IF SessionID(q) = None THEN {} ELSE {SessionID(q)}

bindSessionForDispatch(q) ==
  /\ disp[q] = "queued"
  /\ IF Stateless \/ SessionID(q) = None
     THEN /\ bound' = [bound EXCEPT ![q] = [kind |-> "ephemeral", of |-> q]]
          /\ drains' = drains \cup {q}
          /\ UNCHANGED registry
     ELSE /\ bound' = [bound EXCEPT ![q] = contextWithSession(q, NoSession)]
          /\ registry' = registry \cup Registers(q)
          /\ UNCHANGED drains
  /\ disp' = [disp EXCEPT ![q] = "bound"]
  /\ UNCHANGED <<seen, scope, frozen, httpVars>>

\* valueBridgeContext: a value of the stored request context comes first; without
\* a stored context, and for a key it lacks, the value is the session's.
BridgeBySession(q) ==
  /\ disp[q] = "bound"
  /\ LET stored == {p \in pending : sid[p] = sid[q] /\ ident[p] # None}
     IN seen' = [seen EXCEPT ![q] =
          IF stored # {} THEN ident[CHOOSE p \in stored : TRUE] ELSE SessionValues(q)]
  /\ disp' = [disp EXCEPT ![q] = "bridged"]
  /\ UNCHANGED <<bound, scope, registry, drains, frozen, httpVars>>

Bridge(q) ==
  /\ disp[q] = "bound"
  /\ seen' = [seen EXCEPT ![q] =
       IF q \in pending /\ ident[q] # None THEN ident[q] ELSE SessionValues(q)]
  /\ disp' = [disp EXCEPT ![q] = "bridged"]
  /\ UNCHANGED <<bound, scope, registry, drains, frozen, httpVars>>

\* fireBeforeHooks has run under this context; the wrappers of tool, resource and
\* prompt handlers call contextWithSession again.
Handle(q) ==
  /\ disp[q] = "bridged"
  /\ IF method[q] \in Wrapped
     THEN /\ bound' = [bound EXCEPT ![q] = contextWithSession(q, @)]
          /\ registry' = registry \cup Registers(q)
     ELSE UNCHANGED <<bound, registry>>
  /\ disp' = [disp EXCEPT ![q] = "handling"]
  /\ UNCHANGED <<seen, scope, drains, frozen, httpVars>>

\* The handler returns, fails or panics (the wrappers recover); go-sdk stamps a
\* cacheable result "public" and stripPublicCacheScope narrows it.
stripPublicCacheScope(m, sc) == IF m \in Cacheable /\ sc = "public" THEN "private" ELSE sc

Handled(q) ==
  /\ disp[q] = "handling"
  /\ \E failed \in BOOLEAN :
       scope' = [scope EXCEPT ![q] =
         IF failed \/ method[q] \notin Cacheable THEN "none"
         ELSE stripPublicCacheScope(method[q], "public")]
  /\ disp' = [disp EXCEPT ![q] = "handled"]
  /\ UNCHANGED <<bound, seen, registry, drains, frozen, httpVars>>

FinishWaits(q) ==
  /\ disp[q] = "handled" /\ http[q] = "done"
  /\ drains' = drains \ {q}
  /\ disp' = [disp EXCEPT ![q] = "over"]
  /\ UNCHANGED <<bound, seen, scope, registry, frozen, httpVars>>

\* The middleware returns and its deferred cleanup closes the ephemeral session.
Finish(q) ==
  /\ disp[q] = "handled"
  /\ drains' = drains \ {q}
  /\ disp' = [disp EXCEPT ![q] = "over"]
  /\ UNCHANGED <<bound, seen, scope, registry, frozen, httpVars>>

-----------------------------------------------------------------------------
Serve(q) == \/ Denied(q) \/ setPendingRequestContext(q) \/ Publish(q)
            \/ Answered(q) \/ clearPendingRequestContext(q)

DispatchStep(q) == \/ bindSessionForDispatch(q) \/ Bridge(q) \/ Handle(q)
                   \/ Handled(q) \/ Finish(q)

Next == \E q \in Req : Arrive(q) \/ Disconnect(q) \/ Serve(q) \/ DispatchStep(q)

Spec == Init /\ [][Next]_vars

\* Go's scheduler runs both goroutines and handlers return; neither a request nor
\* a disconnect is assumed to happen.
FairSpec == Spec /\ \A q \in Req : WF_vars(Serve(q)) /\ WF_vars(DispatchStep(q))

-----------------------------------------------------------------------------
(* Properties. *)

\* The handler has its context.
Bridged(q) == disp[q] \in {"bridged", "handling", "handled", "over"}

\* A handler reads the identity of its own request.  Where it does not, it reads the
\* one its session was initialized with, never that of a third request, and then its
\* request had none, or it is a notification or a call whose client left: for those
\* the deferred clear of ServeHTTP may come before the lookup in
\* sessionDispatchMiddleware.
CallSeesOwnValues ==
  \A q \in Req : (Bridged(q) /\ seen[q] # ident[q]) =>
                   /\ seen[q] = SessionValues(q)
                   /\ ident[q] = None \/ method[q] = "notify" \/ q \in left

\* Under stateless serving every dispatch runs its handler in the ephemeral session
\* of its own request, and the shared registry stays empty (bindSessionForDispatch).
StatelessIsolated ==
  Stateless => /\ registry = {}
               /\ \A q \in Req : bound[q] \in {NoSession, [kind |-> "ephemeral", of |-> q]}

\* A request that is over on both goroutines has left neither its context in
\* pendingReqCtx nor a drain goroutine, on whichever path it ended.
NothingLeftBehind ==
  \A q \in Req : /\ http[q] = "done" => q \notin pending
                 /\ disp[q] = "over" => q \notin drains

\* No result of a per-identity dispatch leaves with cacheScope "public".
NeverPublic == \A q \in Req : scope[q] # "public"

\* Every message handed to the session is dispatched to its end, and both the stored
\* context and the drain goroutine of the request are gone for good from then on.
EventuallyClean == \A q \in Req : disp[q] = "queued" ~> [](q \notin pending \cup drains)

\* transports.go:391 says of notifications that the per-request values are "silently
\* absent" and that "there is no cross-request bleed": the handler of a request that
\* has an identity reads that one or none.
OwnValuesOrNone == \A q \in Req : ident[q] # None => seen[q] \in {None, ident[q]}

=============================================================================

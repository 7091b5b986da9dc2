--------------------------- MODULE SessionRouting ---------------------------
(***************************************************************************)
(* How the Streamable HTTP transport of mcpcompat/server routes a request  *)
(* that carries a session ID, on several replicas that share one           *)
(* SessionIdManager: StreamableHTTPServer.ServeHTTP, serveRehydrated,      *)
(* rehydrate and deleteRehydrated (transports.go), forgetSession,          *)
(* registerAndSync and contextWithSession (session.go).                    *)
(*                                                                         *)
(* A request is a process.  A step is one access to state that another     *)
(* request can reach: one sync.Map operation, one critical section of      *)
(* rehydratedMu, one call of the manager or of the go-sdk handler.         *)
(* Requests are one-shot, so the request that connected a reconstructed    *)
(* session also names that session.                                        *)
(*                                                                         *)
(* A SessionIdManager is configured and the server is stateful: without a  *)
(* manager, or stateless, ServeHTTP hands every request to the handler.    *)
(***************************************************************************)
EXTENDS FiniteSets, Naturals

CONSTANTS Replica,      \* server instances that share the manager
          Sid,          \* session IDs Generate can return
          Req,          \* HTTP requests, each used once
          None,         \* no session ID, no reconstructed session
          MaxRestarts   \* bound on process restarts

ASSUME NoneAssumption == None \notin Sid /\ None \notin Req
ASSUME MaxRestartsAssumption == MaxRestarts \in Nat

VARIABLES
  store,      \* the shared store behind the SessionIdManager (external)
  known,      \* session IDs whose initialize response a client received
  handler,    \* sessions in each go-sdk handler's own map (external)
  sessions,   \* MCPServer.sessions: IDs that have a clientSession
  local,      \* MCPServer.localSessions
  rehydrated, \* StreamableHTTPServer.rehydrated, named by the connecting request
  open,       \* reconstructed go-sdk sessions connected and not closed
  pc,         \* where each request stands
  rq,         \* what each request is, and what held when it arrived
  held,       \* the reconstructed session a request has in hand
  status,     \* the answer
  restarts    \* restarts so far

mcpVars == <<sessions, local>>
httpVars == <<rehydrated, open>>
reqVars == <<pc, rq, held, status>>
vars == <<store, known, handler, mcpVars, httpVars, reqVars, restarts>>

\* "init" is the initialize POST, "inited" the notifications/initialized POST,
\* "call" any other POST, "delete" the DELETE.  A GET takes the route of a call
\* and dispatches nothing; KeepAlive models its stream.
Kind == {"init", "inited", "call", "delete"}

Label == {"idle", "start", "recheck", "validate", "forget1", "forget2", "drop",
          "close", "sdkDelete", "terminate", "handler", "dispatch", "register",
          "mark", "respond", "rvalidate", "rmiss", "get", "rehydrate",
          "rserve", "done"}

\* "notFound" and "terminated" are the two 404 answers.
Status == {"none", "served", "deleted", "denied", "badRequest", "notFound",
           "terminated", "unavailable", "failed", "closed", "reset"}

NoRequest == [kind |-> "call", rep |-> None, sid |-> None, late |-> FALSE, seen |-> "no"]

Request == [kind : Kind, rep : Replica \cup {None}, sid : Sid \cup {None},
            late : BOOLEAN, seen : {"no", "local", "cached"}]

Init ==
  /\ store = [s \in Sid |-> "absent"]
  /\ known = {}
  /\ handler = [r \in Replica |-> {}]
  /\ sessions = [r \in Replica |-> {}]
  /\ local = [r \in Replica |-> {}]
  /\ rehydrated = [r \in Replica |-> [s \in Sid |-> None]]
  /\ open = {}
  /\ pc = [q \in Req |-> "idle"]
  /\ rq = [q \in Req |-> NoRequest]
  /\ held = [q \in Req |-> None]
  /\ status = [q \in Req |-> "none"]
  /\ restarts = 0

-----------------------------------------------------------------------------
(* Helpers *)

Goto(q, l) == pc' = [pc EXCEPT ![q] = l]

\* The response is written and ServeHTTP returns.
Answer(q, a) ==
  /\ Goto(q, "done")
  /\ status' = [status EXCEPT ![q] = a]

\* What Validate may return: its verdict, or an error with isTerminated false.
Validate(s) ==
  {"error"} \cup IF store[s] = "terminated" THEN {"terminated"}
                 ELSE IF store[s] = "valid" THEN {"ok"} ELSE {}

\* sessionFor: the registry entry of s, created when it is missing.
SessionFor(r, s) == sessions' = [sessions EXCEPT ![r] = @ \cup {s}]

isLocalSession(r, s) == s \in local[r]

-----------------------------------------------------------------------------
(* Mistakes the properties would catch: each is a variant of an action below *)

\* The local marker is not set before initialize is answered.
RegisterUnmarked(q) ==
  /\ pc[q] = "register"
  /\ SessionFor(rq[q].rep, rq[q].sid)
  /\ Goto(q, IF rq[q].kind = "init" THEN "respond" ELSE "mark")
  /\ UNCHANGED <<store, known, handler, local, httpVars, rq, held, status, restarts>>

\* Validation only on a cache miss.
ValidateRemoteOnMiss(q) ==
  /\ pc[q] = "rvalidate"
  /\ \/ /\ rehydrated[rq[q].rep][rq[q].sid] # None
        /\ Goto(q, "get")
     \/ /\ rehydrated[rq[q].rep][rq[q].sid] = None
        /\ \E v \in Validate(rq[q].sid) :
             Goto(q, CASE v = "ok" -> "get" [] v = "terminated" -> "drop" [] OTHER -> "rmiss")
  /\ UNCHANGED <<store, known, handler, mcpVars, httpVars, rq, held, status, restarts>>

\* Every store error is answered 404, as mcp-go did.
ValidateErrorUnknown(q) ==
  /\ pc[q] = "rmiss"
  /\ Answer(q, "notFound")
  /\ UNCHANGED <<store, known, handler, mcpVars, httpVars, rq, held, restarts>>

\* No double-check under the lock.
RehydrateUnchecked(q) ==
  LET r == rq[q].rep  s == rq[q].sid IN
  /\ pc[q] = "rehydrate"
  /\ held' = [held EXCEPT ![q] = q]
  /\ rehydrated' = [rehydrated EXCEPT ![r][s] = q]
  /\ open' = open \cup {q}
  /\ SessionFor(r, s)
  /\ Goto(q, "rserve")
  /\ UNCHANGED <<store, known, handler, local, rq, status, restarts>>

-----------------------------------------------------------------------------
(* Arrival, and the denial gate *)

\* ServeHTTP is entered.  A client sends an ID only once it has learnt it, and
\* notifications/initialized once per session.
Arrive(q, k, r, s) ==
  /\ pc[q] = "idle"
  /\ IF k = "init" THEN s = None ELSE s \in known
  /\ k = "inited" =>
       \A p \in Req : pc[p] # "idle" => ~(rq[p].kind = "inited" /\ rq[p].sid = s)
  /\ rq' = [rq EXCEPT ![q] =
       [kind |-> k, rep |-> r, sid |-> s,
        late |-> s \in Sid /\ store[s] = "terminated",
        seen |-> IF s \in local[r] THEN "local"
                 ELSE IF s \in Sid /\ rehydrated[r][s] # None THEN "cached"
                 ELSE "no"]]
  /\ Goto(q, "start")
  /\ UNCHANGED <<store, known, handler, mcpVars, httpVars, held, status, restarts>>

\* denied: the call gate refuses a POST before any session state is touched.
Deny(q) ==
  /\ pc[q] = "start"
  /\ rq[q].kind # "delete"
  /\ Answer(q, "denied")
  /\ UNCHANGED <<store, known, handler, mcpVars, httpVars, rq, held, restarts>>

-----------------------------------------------------------------------------
(* initialize *)

\* The go-sdk handler builds a server and a session under a generated ID.
Create(q, s) ==
  /\ pc[q] = "start"
  /\ rq[q].kind = "init"
  /\ store[s] = "absent"
  /\ store' = [store EXCEPT ![s] = "valid"]
  /\ handler' = [handler EXCEPT ![rq[q].rep] = @ \cup {s}]
  /\ rq' = [rq EXCEPT ![q].sid = s]
  /\ Goto(q, "dispatch")
  /\ UNCHANGED <<known, mcpVars, httpVars, held, status, restarts>>

\* buildServer fails: getServer returns nil and the handler refuses the POST.
CreateFails(q) ==
  /\ pc[q] = "start"
  /\ rq[q].kind = "init"
  /\ Answer(q, "badRequest")
  /\ UNCHANGED <<store, known, handler, mcpVars, httpVars, rq, held, restarts>>

\* sessionDispatchMiddleware binds the registry entry (contextWithSession)
\* before the SDK handles the message.
Dispatch(q) ==
  LET r == rq[q].rep  s == rq[q].sid IN
  /\ pc[q] = "dispatch"
  /\ SessionFor(r, s)
  /\ IF rq[q].kind = "call"
       THEN Answer(q, "served")
       ELSE Goto(q, "register") /\ UNCHANGED status
  /\ UNCHANGED <<store, known, handler, local, httpVars, rq, held, restarts>>

\* The SDK rejects an initialize: registerAndSync is skipped and the SDK
\* closes the session it created.  The registry entry stays.
InitRejected(q) ==
  LET r == rq[q].rep  s == rq[q].sid IN
  /\ pc[q] = "dispatch"
  /\ rq[q].kind = "init"
  /\ SessionFor(r, s)
  /\ handler' = [handler EXCEPT ![r] = @ \ {s}]
  /\ Answer(q, "badRequest")
  /\ UNCHANGED <<store, known, local, httpVars, rq, held, restarts>>

\* The session was closed between the handler's lookup and the dispatch.
DispatchClosed(q) ==
  /\ pc[q] = "dispatch"
  /\ rq[q].sid \notin handler[rq[q].rep]
  /\ Answer(q, "closed")
  /\ UNCHANGED <<store, known, handler, mcpVars, httpVars, rq, held, restarts>>

\* registerAndSync, first half: the registry entry.
Register(q) ==
  /\ pc[q] = "register"
  /\ SessionFor(rq[q].rep, rq[q].sid)
  /\ Goto(q, "mark")
  /\ UNCHANGED <<store, known, handler, local, httpVars, rq, held, status, restarts>>

\* registerAndSync, second half: the local marker.
Mark(q) ==
  LET r == rq[q].rep  s == rq[q].sid IN
  /\ pc[q] = "mark"
  /\ local' = [local EXCEPT ![r] = @ \cup {s}]
  /\ IF rq[q].kind = "init"
       THEN Goto(q, "respond") /\ UNCHANGED status
       ELSE Answer(q, "served")
  /\ UNCHANGED <<store, known, handler, sessions, httpVars, rq, held, restarts>>

\* The initialize response carries the session ID to the client.
Respond(q) ==
  /\ pc[q] = "respond"
  /\ known' = known \cup {rq[q].sid}
  /\ Answer(q, "served")
  /\ UNCHANGED <<store, handler, mcpVars, httpVars, rq, held, restarts>>

-----------------------------------------------------------------------------
(* A request for an existing session: the local path *)

\* First isLocalSession check: another replica's session is rehydrated here.
Route(q) ==
  /\ pc[q] = "start"
  /\ rq[q].kind \in {"call", "inited"}
  /\ Goto(q, IF isLocalSession(rq[q].rep, rq[q].sid) THEN "recheck" ELSE "rvalidate")
  /\ UNCHANGED <<store, known, handler, mcpVars, httpVars, rq, held, status, restarts>>

\* Second isLocalSession check: the marker is read again, and a session that
\* is no longer local goes straight to the handler.
Recheck(q) ==
  /\ pc[q] = "recheck"
  /\ Goto(q, IF isLocalSession(rq[q].rep, rq[q].sid) THEN "validate" ELSE "handler")
  /\ UNCHANGED <<store, known, handler, mcpVars, httpVars, rq, held, status, restarts>>

\* Local sessions are validated on every request; only a genuine termination
\* drops local bookkeeping, any other error rejects this request alone.
ValidateLocal(q) ==
  /\ pc[q] = "validate"
  /\ \E v \in Validate(rq[q].sid) :
       \/ v = "ok" /\ Goto(q, "handler") /\ UNCHANGED status
       \/ v = "terminated" /\ Goto(q, "forget1") /\ UNCHANGED status
       \/ v = "error" /\ Answer(q, "unavailable")
  /\ UNCHANGED <<store, known, handler, mcpVars, httpVars, rq, held, restarts>>

\* The go-sdk handler looks the session up in its own map.
HandlerLookup(q) ==
  /\ pc[q] = "handler"
  /\ IF rq[q].sid \in handler[rq[q].rep]
       THEN Goto(q, "dispatch") /\ UNCHANGED status
       ELSE Answer(q, "notFound")
  /\ UNCHANGED <<store, known, handler, mcpVars, httpVars, rq, held, restarts>>

-----------------------------------------------------------------------------
(* forgetSession and deleteRehydrated, for DELETE and for a termination *)

\* forgetSession: sessions.LoadAndDelete.
Forget1(q) ==
  /\ pc[q] = "forget1"
  /\ sessions' = [sessions EXCEPT ![rq[q].rep] = @ \ {rq[q].sid}]
  /\ Goto(q, "forget2")
  /\ UNCHANGED <<store, known, handler, local, httpVars, rq, held, status, restarts>>

\* forgetSession: localSessions.Delete.
Forget2(q) ==
  /\ pc[q] = "forget2"
  /\ local' = [local EXCEPT ![rq[q].rep] = @ \ {rq[q].sid}]
  /\ Goto(q, IF rq[q].kind = "delete" THEN "sdkDelete" ELSE "drop")
  /\ UNCHANGED <<store, known, handler, sessions, httpVars, rq, held, status, restarts>>

\* deleteRehydrated, under rehydratedMu; DELETE starts with it.
Drop(q) ==
  LET r == rq[q].rep  s == rq[q].sid IN
  /\ pc[q] = "drop" \/ (pc[q] = "start" /\ rq[q].kind = "delete")
  /\ held' = [held EXCEPT ![q] = rehydrated[r][s]]
  /\ rehydrated' = [rehydrated EXCEPT ![r][s] = None]
  /\ Goto(q, "close")
  /\ UNCHANGED <<store, known, handler, mcpVars, open, rq, status, restarts>>

\* deleteRehydrated, after the unlock: session.Close.
Close(q) ==
  /\ pc[q] = "close"
  /\ open' = open \ {held[q]}
  /\ held' = [held EXCEPT ![q] = None]
  /\ IF rq[q].kind = "delete"
       THEN Goto(q, "forget1") /\ UNCHANGED status
       ELSE Answer(q, "terminated")
  /\ UNCHANGED <<store, known, handler, mcpVars, rehydrated, rq, restarts>>

\* DELETE in the go-sdk handler: it closes and removes its own session, and its
\* 204 is rewritten to 200.
SdkDelete(q) ==
  LET r == rq[q].rep  s == rq[q].sid IN
  /\ pc[q] = "sdkDelete"
  /\ handler' = [handler EXCEPT ![r] = @ \ {s}]
  /\ status' = [status EXCEPT ![q] = IF s \in handler[r] THEN "deleted" ELSE "notFound"]
  /\ Goto(q, "terminate")
  /\ UNCHANGED <<store, known, mcpVars, httpVars, rq, held, restarts>>

\* Terminate in the shared store; a refusal or an error is ignored.
Terminate(q) ==
  /\ pc[q] = "terminate"
  /\ \/ store' = [store EXCEPT ![rq[q].sid] = "terminated"]
     \/ UNCHANGED store
  /\ Goto(q, "done")
  /\ UNCHANGED <<known, handler, mcpVars, httpVars, rq, held, status, restarts>>

-----------------------------------------------------------------------------
(* serveRehydrated *)

\* Every request is validated, not only the one that misses the cache.
ValidateRemote(q) ==
  /\ pc[q] = "rvalidate"
  /\ \E v \in Validate(rq[q].sid) :
       \/ v = "ok" /\ Goto(q, "get")
       \/ v = "terminated" /\ Goto(q, "drop")
       \/ v = "error" /\ Goto(q, "rmiss")
  /\ UNCHANGED <<store, known, handler, mcpVars, httpVars, rq, held, status, restarts>>

\* A validation error: retryable for a session that is cached here, otherwise
\* answered as unknown.
ValidateError(q) ==
  /\ pc[q] = "rmiss"
  /\ Answer(q, IF rehydrated[rq[q].rep][rq[q].sid] # None THEN "unavailable" ELSE "notFound")
  /\ UNCHANGED <<store, known, handler, mcpVars, httpVars, rq, held, restarts>>

\* getRehydrated.
GetRehydrated(q) ==
  LET rt == rehydrated[rq[q].rep][rq[q].sid] IN
  /\ pc[q] = "get"
  /\ held' = [held EXCEPT ![q] = rt]
  /\ Goto(q, IF rt = None THEN "rehydrate" ELSE "rserve")
  /\ UNCHANGED <<store, known, handler, mcpVars, httpVars, rq, status, restarts>>

\* rehydrate, one critical section of rehydratedMu.  The double-check: a session
\* another request connected meanwhile is used.
RehydrateHit(q) ==
  LET rt == rehydrated[rq[q].rep][rq[q].sid] IN
  /\ pc[q] = "rehydrate"
  /\ rt # None
  /\ held' = [held EXCEPT ![q] = rt]
  /\ Goto(q, "rserve")
  /\ UNCHANGED <<store, known, handler, mcpVars, httpVars, rq, status, restarts>>

\* Otherwise a session is connected, bound to the registry and cached.
Rehydrate(q) ==
  LET r == rq[q].rep  s == rq[q].sid IN
  /\ pc[q] = "rehydrate"
  /\ rehydrated[r][s] = None
  /\ held' = [held EXCEPT ![q] = q]
  /\ rehydrated' = [rehydrated EXCEPT ![r][s] = q]
  /\ open' = open \cup {q}
  /\ SessionFor(r, s)
  /\ Goto(q, "rserve")
  /\ UNCHANGED <<store, known, handler, local, rq, status, restarts>>

\* rehydrate: buildServer or Connect fails, nothing is cached.
RehydrateFails(q) ==
  /\ pc[q] = "rehydrate"
  /\ rehydrated[rq[q].rep][rq[q].sid] = None
  /\ Answer(q, "failed")
  /\ UNCHANGED <<store, known, handler, mcpVars, httpVars, rq, held, restarts>>

\* The held session's transport serves the request; its middleware binds the
\* registry entry.
ServeRehydrated(q) ==
  /\ pc[q] = "rserve"
  /\ held[q] \in open
  /\ SessionFor(rq[q].rep, rq[q].sid)
  /\ Answer(q, "served")
  /\ UNCHANGED <<store, known, handler, local, httpVars, rq, held, restarts>>

\* A session closed meanwhile cannot serve.
ServeClosed(q) ==
  /\ pc[q] = "rserve"
  /\ held[q] \notin open
  /\ Answer(q, "closed")
  /\ UNCHANGED <<store, known, handler, mcpVars, httpVars, rq, held, restarts>>

-----------------------------------------------------------------------------
(* The environment *)

\* The host, or a component outside the server, terminates a session.
TerminateInStore(s) ==
  /\ store[s] = "valid"
  /\ store' = [store EXCEPT ![s] = "terminated"]
  /\ UNCHANGED <<known, handler, mcpVars, httpVars, reqVars, restarts>>

\* The go-sdk closes one of its sessions by itself (a transport error); no
\* callback tells the server.
SdkCloseLocal(r, s) ==
  /\ s \in handler[r]
  /\ handler' = [handler EXCEPT ![r] = @ \ {s}]
  /\ UNCHANGED <<store, known, mcpVars, httpVars, reqVars, restarts>>

SdkCloseRehydrated(i) ==
  /\ i \in open
  /\ open' = open \ {i}
  /\ UNCHANGED <<store, known, handler, mcpVars, rehydrated, reqVars, restarts>>

\* A replica restarts: its maps are in memory, its requests are cut off.
Restart(r) ==
  /\ restarts < MaxRestarts
  /\ restarts' = restarts + 1
  /\ handler' = [handler EXCEPT ![r] = {}]
  /\ sessions' = [sessions EXCEPT ![r] = {}]
  /\ local' = [local EXCEPT ![r] = {}]
  /\ rehydrated' = [rehydrated EXCEPT ![r] = [s \in Sid |-> None]]
  /\ open' = {i \in open : rq[i].rep # r}
  /\ LET cut == {q \in Req : pc[q] \notin {"idle", "done"} /\ rq[q].rep = r} IN
       /\ pc' = [q \in Req |-> IF q \in cut THEN "done" ELSE pc[q]]
       /\ status' = [q \in Req |-> IF q \in cut THEN "reset" ELSE status[q]]
       /\ held' = [q \in Req |-> IF q \in cut THEN None ELSE held[q]]
  /\ UNCHANGED <<store, known, rq>>

-----------------------------------------------------------------------------
(* The specification *)

\* Every request has been answered: the bounded instance is over.
Finished ==
  /\ \A q \in Req : pc[q] = "done"
  /\ UNCHANGED vars

RequestStep(q) ==
  \/ \E k \in Kind, r \in Replica, s \in Sid \cup {None} : Arrive(q, k, r, s)
  \/ Deny(q)
  \/ \E s \in Sid : Create(q, s)
  \/ CreateFails(q)
  \/ Dispatch(q)
  \/ InitRejected(q)
  \/ DispatchClosed(q)
  \/ Register(q)
  \/ Mark(q)
  \/ Respond(q)
  \/ Route(q)
  \/ Recheck(q)
  \/ ValidateLocal(q)
  \/ HandlerLookup(q)
  \/ Forget1(q)
  \/ Forget2(q)
  \/ Drop(q)
  \/ Close(q)
  \/ SdkDelete(q)
  \/ Terminate(q)
  \/ ValidateRemote(q)
  \/ ValidateError(q)
  \/ GetRehydrated(q)
  \/ RehydrateHit(q)
  \/ Rehydrate(q)
  \/ RehydrateFails(q)
  \/ ServeRehydrated(q)
  \/ ServeClosed(q)

Next ==
  \/ \E q \in Req : RequestStep(q)
  \/ \E s \in Sid : TerminateInStore(s)
  \/ \E r \in Replica, s \in Sid : SdkCloseLocal(r, s)
  \/ \E i \in Req : SdkCloseRehydrated(i)
  \/ \E r \in Replica : Restart(r)
  \/ Finished

Spec == Init /\ [][Next]_vars

-----------------------------------------------------------------------------
(* Properties *)

\* The state has its type.
TypeOK ==
  /\ store \in [Sid -> {"absent", "valid", "terminated"}]
  /\ known \subseteq Sid
  /\ handler \in [Replica -> SUBSET Sid]
  /\ sessions \in [Replica -> SUBSET Sid]
  /\ local \in [Replica -> SUBSET Sid]
  /\ rehydrated \in [Replica -> [Sid -> Req \cup {None}]]
  /\ open \subseteq Req
  /\ pc \in [Req -> Label]
  /\ rq \in [Req -> Request]
  /\ held \in [Req -> Req \cup {None}]
  /\ status \in [Req -> Status]
  /\ restarts \in Nat

\* A DELETE of s reached replica r.
DeleteArrived(r, s) ==
  \E d \in Req : /\ pc[d] # "idle"
                 /\ rq[d].kind = "delete" /\ rq[d].rep = r /\ rq[d].sid = s

\* A DELETE of s on replica r has been through forgetSession.
DeleteForgot(r, s) ==
  \E d \in Req : /\ pc[d] \in {"sdkDelete", "terminate", "done"}
                 /\ rq[d].kind = "delete" /\ rq[d].rep = r /\ rq[d].sid = s

\* One replica never holds two live sessions under one ID, the go-sdk handler's
\* and a reconstructed one, unless a DELETE of that ID ran there: neither a
\* store error nor a termination observed by another request sends a client of
\* a live local session into rehydrate (ServeHTTP, finding 3 of its comment).
NoSplitBrainWithoutDelete ==
  \A r \in Replica, s \in Sid :
    s \in handler[r] /\ rehydrated[r][s] # None => DeleteForgot(r, s)

\* A connected reconstructed session is the cached one of its replica and ID,
\* or a deleteRehydrated that has taken it out of the map is about to close it:
\* concurrent requests never leave one connected that no request can reach
\* (the double-check in rehydrate, the close outside the lock).
NoOrphanSession ==
  \A i \in open :
    \/ rehydrated[rq[i].rep][rq[i].sid] = i
    \/ \E q \in Req : pc[q] = "close" /\ held[q] = i

\* A request that arrived after its session was terminated in the shared store
\* is never served by a reconstructed session, and never connects one, whatever
\* is cached and whoever else is rehydrating (lazy eviction in serveRehydrated).
RehydratedNeverServesTerminated ==
  \A q \in Req :
    rq[q].late => /\ ~(status[q] = "served" /\ held[q] # None)
                  /\ q \notin open

\* A replica that had the session when the request arrived, locally or
\* reconstructed, answers 404 only for a session that was terminated or
\* deleted, or that the SDK itself has lost; a store error is not a 404.
NotFoundIsGenuine ==
  \A q \in Req :
    status[q] \in {"notFound", "terminated"} /\ rq[q].seen # "no" /\ rq[q].kind # "delete" =>
      \/ store[rq[q].sid] = "terminated"
      \/ DeleteArrived(rq[q].rep, rq[q].sid)
      \/ rq[q].seen = "local" /\ rq[q].sid \notin handler[rq[q].rep]

\* A session a replica routes to, by its local marker or by its cached
\* reconstruction, keeps the registry entry notifications and overlays go
\* through until it is deleted there or terminated (forgetSession,
\* bindRehydratedSession, registerAndSync).
RegistryKeepsLive ==
  \A r \in Replica, s \in Sid :
    s \in local[r] \/ rehydrated[r][s] # None =>
      \/ s \in sessions[r]
      \/ DeleteArrived(r, s)
      \/ store[s] = "terminated"

\* A step takes a local marker or a cached reconstruction away only when the
\* session is terminated in the store, a DELETE of it has reached the replica,
\* or the replica restarts.
BookkeepingLost(r, s) ==
  \/ s \in local[r] /\ s \notin local'[r]
  \/ rehydrated[r][s] # None /\ rehydrated'[r][s] # rehydrated[r][s]

OnlyTerminationDrops ==
  [][\A r \in Replica, s \in Sid :
       BookkeepingLost(r, s) =>
         \/ store[s] = "terminated"
         \/ DeleteArrived(r, s)
         \/ restarts' # restarts]_vars

-----------------------------------------------------------------------------
(* What comments of the code say, and the code does not guarantee *)

\* "validate local sessions on every request too, so a session terminated in
\* the shared store ... is rejected here": no request that arrived after the
\* termination is served.
TerminatedIsRejected ==
  \A q \in Req : ~(rq[q].late /\ status[q] = "served")

\* "split-brain (two live sessions, one ID, one pod)" is what ServeHTTP guards
\* against: the handler's session and a reconstructed one never coexist.
NoSplitBrain ==
  \A r \in Replica, s \in Sid : s \in handler[r] => rehydrated[r][s] = None

\* "returns 503 on a non-terminated (transient) error and reserves 404 for
\* genuine termination": a session that is valid in the store, that nobody
\* deletes and that the SDK of its replica has not lost is never a 404.
NotFoundOnlyTerminated ==
  \A q \in Req :
    status[q] \in {"notFound", "terminated"} =>
      \/ store[rq[q].sid] # "valid"
      \/ \E r \in Replica : DeleteArrived(r, rq[q].sid)
      \/ \A r \in Replica : rq[q].sid \notin handler[r]

\* "forward the termination to the manager so ToolHive's session storage is
\* cleaned up in lockstep": a DELETE that was answered 200 leaves the session
\* terminated in the store.
DeleteTerminates ==
  \A q \in Req :
    pc[q] = "done" /\ status[q] = "deleted" => store[rq[q].sid] = "terminated"

\* "entries are only removed on the DELETE path and on a
\* Validate-failure/termination path": when a replica has told a client that
\* its session is terminated, and no request of the session is in flight there,
\* the registry has no entry for it.
TerminatedIsForgotten ==
  \A q \in Req :
    LET r == rq[q].rep  s == rq[q].sid IN
    /\ status[q] = "terminated"
    /\ \A p \in Req : rq[p].rep = r /\ rq[p].sid = s => pc[p] = "done"
    => s \notin sessions[r]

=============================================================================

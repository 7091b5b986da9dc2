------------------------------ MODULE MCMcpLive ------------------------------
(***************************************************************************)
(* State machines of mcpcompat that are checked for liveness, side by      *)
(* side: the writer of a GET stream (KeepAlive), the request context of    *)
(* stateless serving (RequestContext) and the client (Client).  `part'     *)
(* says which one a behaviour runs, the others stay in an initial state,   *)
(* where no action that a fairness condition names is enabled.             *)
(***************************************************************************)
EXTENDS McpStreams, TLC

CONSTANTS Req, Ident, Sid, None

VARIABLES part,
          http, disp, ident, method, sid, left, pending, frozen, registry, drains, bound, seen, scope

X == INSTANCE RequestContext WITH Stateless <- TRUE, LegacyIds <- FALSE

ctxVars == <<http, disp, ident, method, sid, left, pending, frozen, registry, drains, bound, seen, scope>>
cliVars == <<streamable, cmu, session, sessionID, connLost, watchStarted, waiting, told, made, conn,
             calls, pc, at>>

\* A second goroutine of Ticker is there to be started by mistake.
ASSUME TwoTickers == \E t, u \in Ticker : t # u

\* Requests and identities are interchangeable: the first request has identity 1, and a
\* method no later in this list than the second; MCMcp checks requests without identity.
\* "read" is "call" with the cacheScope of "list", and MCMcp checks it.
Order == <<"list", "call", "notify">>
Canonical ==
  /\ ident'[1] \in {None, 1}
  /\ \A q \in Req : http'[q] # "idle" => ident'[q] # None
  /\ \A q \in Req : method'[q] # "read"
  /\ (\A q \in Req : http'[q] # "idle") =>
       \E i, j \in 1..3 : i <= j /\ method'[1] = Order[i] /\ method'[2] = Order[j]

MCInit ==
  /\ Init /\ X!Init
  /\ \/ part \in {"keepalive", "stateless"} /\ C!Init /\ ~streamable
     \/ part = "client" /\ C!Init

MCNext ==
  \/ part = "keepalive" /\ Next /\ UNCHANGED <<part, ctxVars, cliVars>>
  \/ part = "stateless" /\ X!Next /\ Canonical /\ UNCHANGED <<part, vars, cliVars>>
  \/ part = "client" /\ C!Next /\ UNCHANGED <<part, vars, ctxVars>>

\* The fairness of KeepAlive, RequestContext and Client.  `part' is constant, so naming it
\* changes nothing but the cost of evaluating the conditions of the idle parts.
Writer(A) == part = "keepalive" /\ A
Server(A) == part = "stateless" /\ A
Caller(A) == part = "client" /\ A

MCSpec ==
  /\ MCInit /\ [][MCNext]_<<part, vars, ctxVars, cliVars>>
  /\ SF_vars(Writer(Lock)) /\ SF_vars(Writer(StopLock))
  /\ WF_vars(Writer(WriterCall)) /\ WF_vars(Writer(StopClose)) /\ WF_vars(Writer(StopDone))
  /\ \A t \in Ticker : /\ SF_vars(Writer(CommentLock(t)))
                       /\ WF_vars(Writer(SelectStop(t) \/ SelectTick(t)))
                       /\ WF_vars(Writer(CommentCheck(t)))
                       /\ WF_vars(Writer(CommentDone(t)))
  /\ \A q \in Req : WF_ctxVars(Server(X!Serve(q))) /\ WF_ctxVars(Server(X!DispatchStep(q)))
  /\ \A g \in Goroutine : WF_cliVars(Caller(C!Step(g)))
  /\ \A s \in 1..MaxSession : WF_cliVars(Caller(C!Notify(s)))

\* Nothing of a stateless request outlives it (RequestContext).
EventuallyClean == X!EventuallyClean

\* The client reports the loss of a connection, and its calls return; and the property the
\* code does not have, that only a preset ID is resumed (Client).
LossIsReported == C!LossIsReported
ClientCallsReturn == C!ClientCallsReturn
ResumesOnlyPreset == C!ResumesOnlyPreset

=============================================================================

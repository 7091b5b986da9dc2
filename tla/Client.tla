------------------------------- MODULE Client -------------------------------
(***************************************************************************)
(* The MCP client (mcpcompat/client): the life of its go-sdk session under *)
(* concurrent calls of Initialize, Close, the request methods and          *)
(* OnConnectionLost, the resume path of a client that carries a session ID *)
(* without a session, and the goroutine that watches the connection.       *)
(*                                                                         *)
(* Initialize holds c.mu from its first line to its last, the handshake    *)
(* with the server included, and Close holds it while the session closes;  *)
(* the request methods take it for a moment, twice.  A session is named by *)
(* the number of the connection that made it and its ID by the same        *)
(* number, 0 stands for nil and for the empty ID.                          *)
(***************************************************************************)
EXTENDS Naturals

CONSTANTS Goroutine,  \* callers of the client
          Free,       \* c.mu is not held
          MaxSession, \* bound on the connections made
          MaxCalls    \* bound on the calls of the client

Session == 1..MaxSession
PresetID == MaxSession + 1   \* the ID of transport.WithSession

VARIABLES
  streamable,   \* the transport is Streamable HTTP, not SSE
  mu,           \* holder of c.mu
  session,      \* c.session
  sessionID,    \* the transport's session ID
  connLost,     \* a connection-lost handler is registered
  watchStarted, \* c.watchStarted
  waiting,      \* watch goroutines blocked in session.Wait, by session
  told,         \* times the handler was invoked
  made,         \* connections made so far
  conn,         \* state of each of them
  calls,        \* calls made so far
  pc,           \* where a caller stands
  at            \* the session or the session ID it has read

watchVars == <<connLost, watchStarted, waiting, told>>
wireVars == <<made, conn>>
vars == <<streamable, mu, session, sessionID, watchVars, wireVars, calls, pc, at>>

Label == {"idle", "initialize", "connecting", "close", "closing", "isResume", "resume", "posting",
          "sessionFor", "calling", "onConnectionLost", "readSession", "maybeWatch"}

TypeOK ==
  /\ streamable \in BOOLEAN /\ mu \in Goroutine \cup {Free}
  /\ session \in Session \cup {0} /\ sessionID \in 0..PresetID
  /\ connLost \in BOOLEAN /\ watchStarted \in BOOLEAN
  /\ waiting \in [Session -> Nat] /\ told \in Nat
  /\ made \in Session \cup {0} /\ conn \in [Session -> {"none", "up", "lost", "closed"}]
  /\ calls \in 0..MaxCalls
  /\ pc \in [Goroutine -> Label] /\ at \in [Goroutine -> 0..PresetID]

\* A new client, with or without a preset session ID; an SSE transport has none.
Init ==
  /\ streamable \in BOOLEAN
  /\ sessionID \in IF streamable THEN {0, PresetID} ELSE {0}
  /\ mu = Free /\ session = 0
  /\ connLost = FALSE /\ watchStarted = FALSE /\ waiting = [s \in Session |-> 0] /\ told = 0
  /\ made = 0 /\ conn = [s \in Session |-> "none"]
  /\ calls = 0 /\ pc = [g \in Goroutine |-> "idle"] /\ at = [g \in Goroutine |-> 0]

Goto(g, l) == pc' = [pc EXCEPT ![g] = l]

-----------------------------------------------------------------------------
(* Initialize and Close.                                                   *)

\* Mutant: a second handshake.
InitializeUnchecked(g) ==
  /\ pc[g] = "initialize" /\ mu = Free
  /\ mu' = g /\ Goto(g, "connecting")
  /\ UNCHANGED <<streamable, session, sessionID, watchVars, wireVars, calls, at>>

\* A second Initialize fails; the first keeps the mutex.
Initialize(g) ==
  /\ pc[g] = "initialize" /\ mu = Free
  /\ IF session # 0 THEN Goto(g, "idle") /\ UNCHANGED mu
                    ELSE Goto(g, "connecting") /\ mu' = g
  /\ UNCHANGED <<streamable, session, sessionID, watchVars, wireVars, calls, at>>

ConnectFails(g) ==
  /\ pc[g] = "connecting"
  /\ mu' = Free /\ Goto(g, "idle")
  /\ UNCHANGED <<streamable, session, sessionID, watchVars, wireVars, calls, at>>

\* At most one watch goroutine is ever started.
maybeStartConnLostWatch(s) ==
  IF connLost /\ ~watchStarted
  THEN watchStarted' = TRUE /\ waiting' = [waiting EXCEPT ![s] = @ + 1]
  ELSE UNCHANGED <<watchStarted, waiting>>

\* Mutant: the handler that is there already is not looked at.
ConnectUnwatched(g) ==
  /\ pc[g] = "connecting" /\ made < MaxSession
  /\ made' = made + 1 /\ conn' = [conn EXCEPT ![made + 1] = "up"]
  /\ session' = made + 1
  /\ sessionID' \in IF streamable THEN {0, made + 1} ELSE {sessionID}
  /\ mu' = Free /\ Goto(g, "idle")
  /\ UNCHANGED <<streamable, watchVars, calls, at>>

\* The session is installed and its ID, empty from a stateless server, replaces whatever
\* the transport held.  A result that does not convert is an error with the session in place.
Connect(g) ==
  /\ pc[g] = "connecting" /\ made < MaxSession
  /\ made' = made + 1 /\ conn' = [conn EXCEPT ![made + 1] = "up"]
  /\ session' = made + 1
  /\ sessionID' \in IF streamable THEN {0, made + 1} ELSE {sessionID}
  /\ maybeStartConnLostWatch(made + 1)
  /\ mu' = Free /\ Goto(g, "idle")
  /\ UNCHANGED <<streamable, connLost, told, calls, at>>

Close(g) ==
  /\ pc[g] = "close" /\ mu = Free
  /\ IF session = 0 THEN Goto(g, "idle") /\ UNCHANGED mu
                    ELSE Goto(g, "closing") /\ mu' = g
  /\ UNCHANGED <<streamable, session, sessionID, watchVars, wireVars, calls, at>>

\* Mutant: c.mu stays locked.
CloseKeepsLock(g) ==
  /\ pc[g] = "closing"
  /\ conn' = [conn EXCEPT ![session] = "closed"]
  /\ session' = 0 /\ Goto(g, "idle")
  /\ UNCHANGED <<streamable, mu, sessionID, watchVars, made, calls, at>>

\* c.session is cleared whatever session.Close answers; the transport keeps its ID.
CloseDone(g) ==
  /\ pc[g] = "closing"
  /\ conn' = [conn EXCEPT ![session] = "closed"]
  /\ session' = 0 /\ mu' = Free /\ Goto(g, "idle")
  /\ UNCHANGED <<streamable, sessionID, watchVars, made, calls, at>>

-----------------------------------------------------------------------------
(* The request methods.                                                    *)

isResume(g) ==
  /\ pc[g] = "isResume" /\ mu = Free
  /\ Goto(g, IF session = 0 /\ streamable /\ sessionID # 0 THEN "resume" ELSE "sessionFor")
  /\ UNCHANGED <<streamable, mu, session, sessionID, watchVars, wireVars, calls, at>>

\* resumeCall reads the ID under a second lock and posts without it.
resumeCall(g) ==
  /\ pc[g] = "resume" /\ mu = Free
  /\ at' = [at EXCEPT ![g] = sessionID] /\ Goto(g, "posting")
  /\ UNCHANGED <<streamable, mu, session, sessionID, watchVars, wireVars, calls>>

sessionFor(g) ==
  /\ pc[g] = "sessionFor" /\ mu = Free
  /\ Goto(g, IF session = 0 THEN "idle" ELSE "calling")
  /\ at' = [at EXCEPT ![g] = session]
  /\ UNCHANGED <<streamable, mu, session, sessionID, watchVars, wireVars, calls>>

\* The answer, whatever it is, of the server or of the closed session.
Answered(g) ==
  /\ pc[g] \in {"posting", "calling"} /\ Goto(g, "idle")
  /\ UNCHANGED <<streamable, mu, session, sessionID, watchVars, wireVars, calls, at>>

-----------------------------------------------------------------------------
(* The connection watch.                                                   *)

OnConnectionLost(g) ==
  /\ pc[g] = "onConnectionLost"
  /\ connLost' = TRUE /\ Goto(g, "readSession")
  /\ UNCHANGED <<streamable, mu, session, sessionID, watchStarted, waiting, told, wireVars, calls, at>>

ReadSession(g) ==
  /\ pc[g] = "readSession" /\ mu = Free
  /\ at' = [at EXCEPT ![g] = session]
  /\ Goto(g, IF session = 0 THEN "idle" ELSE "maybeWatch")
  /\ UNCHANGED <<streamable, mu, session, sessionID, watchVars, wireVars, calls>>

MaybeWatch(g) ==
  /\ pc[g] = "maybeWatch" /\ Goto(g, "idle")
  /\ maybeStartConnLostWatch(at[g])
  /\ UNCHANGED <<streamable, mu, session, sessionID, connLost, told, wireVars, calls, at>>

\* The watch goroutine: Wait returns and the handler runs.
Notify(s) ==
  /\ waiting[s] > 0 /\ conn[s] \in {"lost", "closed"}
  /\ waiting' = [waiting EXCEPT ![s] = @ - 1] /\ told' = told + 1
  /\ UNCHANGED <<streamable, mu, session, sessionID, connLost, watchStarted, wireVars, calls, pc, at>>

\* The connection breaks.
Lose(s) ==
  /\ conn[s] = "up" /\ conn' = [conn EXCEPT ![s] = "lost"]
  /\ UNCHANGED <<streamable, mu, session, sessionID, watchVars, made, calls, pc, at>>

-----------------------------------------------------------------------------
\* A caller enters a method; SetLoggingLevel goes to sessionFor without asking isResume.
Start(g) ==
  /\ pc[g] = "idle" /\ calls < MaxCalls /\ calls' = calls + 1
  /\ \E l \in {"initialize", "close", "isResume", "sessionFor", "onConnectionLost"} : Goto(g, l)
  /\ UNCHANGED <<streamable, mu, session, sessionID, watchVars, wireVars, at>>

\* Steps the goroutine takes by itself, once c.mu is free if it needs it.
Step(g) == \/ Initialize(g) \/ Close(g) \/ isResume(g) \/ resumeCall(g) \/ sessionFor(g)
           \/ OnConnectionLost(g) \/ ReadSession(g) \/ MaybeWatch(g)

\* Steps that wait for the server: the handshake, the teardown and an answer.
Wire(g) == ConnectFails(g) \/ Connect(g) \/ CloseDone(g) \/ Answered(g)

Next == \/ \E g \in Goroutine : Start(g) \/ Step(g) \/ Wire(g)
        \/ \E s \in Session : Notify(s) \/ Lose(s)

Spec == Init /\ [][Next]_vars

\* A goroutine that waits for nothing but c.mu gets it once callers stop coming.  Nothing
\* is assumed of the server: a context may have no deadline, and Close has none.
FairSpec == /\ Spec
            /\ \A g \in Goroutine : WF_vars(Step(g))
            /\ \A s \in Session : WF_vars(Notify(s))

-----------------------------------------------------------------------------
\* client.go:257: no connection is left open behind the client's back: one that is up is
\* the session Close would close.
NoOrphan == \A s \in Session : conn[s] = "up" => s = session

\* client.go:297: while there is a session, GetSessionId is the ID the server gave it (or
\* empty for a stateless server), never a preset one nor that of an earlier session.
AdoptsServerID == session # 0 /\ streamable => sessionID \in {0, session}

\* client.go:881: the handler is invoked at most once in the life of a client.
ToldOnce == told <= 1

\* client.go:860: once a registration is through, the loss of the client's first
\* connection reaches the handler, whichever of Initialize and OnConnectionLost came first.
LossIsReported ==
  (/\ made = 1 /\ session = 1 /\ conn[1] = "lost" /\ connLost
   /\ \A g \in Goroutine : pc[g] \notin {"readSession", "maybeWatch"}) ~> told > 0

\* A call waits for its own answer, or the holder of c.mu is in its handshake or teardown
\* (client.go:249 and 331: both keep the mutex meanwhile).
HeldByServer(g) ==
  \/ pc[g] \in {"connecting", "closing", "posting", "calling"}
  \/ \E h \in Goroutine : mu = h /\ pc[h] \in {"connecting", "closing"}

\* At every moment of a call, it will return or be held up by the server: the mutex that
\* all methods share, which Initialize and Close keep while they wait for the server,
\* makes no call wait for anything else for good (client.go:249).
ClientCallsReturn ==
  \A g \in Goroutine : pc[g] # "idle" ~> (pc[g] = "idle" \/ HeldByServer(g))

\* resume.go:34, which the code does not satisfy: the raw path is for "a preset session ID
\* (transport.WithSession) and no go-sdk session established (Initialize was not called)".
\* After Initialize and Close it carries the ID of the closed session.
ResumesOnlyPreset == \A g \in Goroutine : pc[g] = "posting" => at[g] = PresetID

=============================================================================

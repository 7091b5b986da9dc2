------------------------------ MODULE McpProofs ------------------------------
(***************************************************************************)
(* Theorems about the stream writer (KeepAlive), the client (Client) and   *)
(* the request context (RequestContext) of mcpcompat, for any sets of      *)
(* tickers, callers, requests, identities and sessions, any number of      *)
(* calls and both serving modes.                                           *)
(***************************************************************************)
EXTENDS McpStreams, McpContext, TLAPS

\* The default prover; a leaf with arithmetic or sequences cites SMTT.
USE ZenonT(30)

-----------------------------------------------------------------------------
\* The writer of a GET stream (mcpcompat/server/keepalive.go).

\* mu is held by exactly the goroutine that is between Lock and Unlock.
WriterMutex ==
  /\ mu = Main <=> mpc \in {"hold", "holdStop"}
  /\ \A t \in Ticker : mu = t <=> tpc[t] \in {"hold", "writing"}

\* Goroutines are started under streaming, and streaming is set once.
StartInv ==
  /\ ~streaming => \A t \in Ticker : tpc[t] = "unborn"
  /\ OneTicker

\* A goroutine that is writing has found stopped unset, and it still is.
StopInv ==
  /\ mpc = "returned" <=> stopped
  /\ \A t \in Ticker : tpc[t] = "writing" => ~stopped

\* What the response looks like while the handler runs, and once a ticker is
\* started.
ResponseInv ==
  /\ streaming => sse /\ sent # "error"
  /\ mpc \in {"handler", "want", "hold"} =>
       /\ streaming => sent = "ok"
       /\ sent = "error" => wroteHeader
  /\ mpc \in {"want", "hold"} =>
       /\ op # "none"
       /\ op = "headerError" => sent = "none"
       /\ op = "headerOK" => sent # "error"

WriterInv == TypeOK /\ WriterMutex /\ StartInv /\ StopInv /\ ResponseInv

-----------------------------------------------------------------------------
\* The initial state satisfies the invariant.
LEMMA WriterInit == Init => WriterInv
  BY ZenonT(60), TickerAssumption
  DEF Init, WriterInv, TypeOK, WriterMutex, StartInv, StopInv, ResponseInv, OneTicker,
      Op, MainLabel, TickerLabel, Main

\* Every step preserves the invariant, one case per action.
LEMMA WriterStep == WriterInv /\ [Next]_vars => WriterInv'
<1> SUFFICES ASSUME WriterInv, [Next]_vars PROVE WriterInv'
  OBVIOUS
<1> USE TickerAssumption
    DEF WriterInv, TypeOK, WriterMutex, StartInv, StopInv, ResponseInv, OneTicker,
        Op, MainLabel, TickerLabel, Main, flags, wire, tickVars
<1>1. CASE SetContentType
  BY <1>1 DEF SetContentType
<1>2. CASE \E o \in Op \ {"none"} : Call(o)
  BY <1>2, SMTT(30) DEF Call
<1>3. CASE Lock
  BY <1>3 DEF Lock
<1>4. CASE WriteHeader
  <2>1. CASE op = "headerError"
    BY <1>4, <2>1 DEF WriteHeader, maybeStartLocked, Sends, OpStatus, Return
  <2>2. CASE op = "headerOK" /\ (streaming \/ ~sse)
    BY <1>4, <2>2 DEF WriteHeader, maybeStartLocked, Sends, OpStatus, Return
  <2>3. CASE op = "headerOK" /\ ~streaming /\ sse
    <3>1. ~stopped /\ mpc = "hold" /\ mu = Main
      BY <1>4, <2>3 DEF WriteHeader
    <3>2. PICK t \in Ticker : tpc' = [tpc EXCEPT ![t] = "select"]
      BY <1>4, <2>3, <3>1 DEF WriteHeader, maybeStartLocked
    <3>3. streaming' = TRUE /\ UNCHANGED tick
      BY <1>4, <2>3, <3>1 DEF WriteHeader, maybeStartLocked
    <3>4. QED
      BY <1>4, <2>3, <3>1, <3>2, <3>3, SMTT(30) DEF WriteHeader, Sends, OpStatus, Return
  <2>4. QED
    BY <1>4, <2>1, <2>2, <2>3 DEF WriteHeader
<1>5. CASE Write
  <2>1. ~stopped /\ mpc = "hold" /\ mu = Main
    BY <1>5 DEF Write
  <2>2. CASE op = "write" /\ ~wroteHeader /\ ~streaming /\ sse
    <3>1. PICK t \in Ticker : tpc' = [tpc EXCEPT ![t] = "select"]
      BY <1>5, <2>1, <2>2 DEF Write, ImplicitHeader, maybeStartLocked
    <3>2. streaming' = TRUE /\ wroteHeader' = TRUE /\ UNCHANGED tick
      BY <1>5, <2>1, <2>2 DEF Write, ImplicitHeader, maybeStartLocked
    <3>3. QED
      BY <1>5, <2>1, <2>2, <3>1, <3>2 DEF Write, Sends, OpStatus, Return
  <2>3. CASE ~(op = "write" /\ ~wroteHeader /\ ~streaming /\ sse)
    <3>1. /\ UNCHANGED <<streaming, tpc, tick>>
          /\ wroteHeader' \in BOOLEAN /\ (wroteHeader => wroteHeader')
      BY ZenonT(60), <1>5, <2>1, <2>3 DEF Write, ImplicitHeader, maybeStartLocked
    <3>2. /\ mu' = Free /\ mpc' = "handler" /\ op' = "none"
          /\ UNCHANGED <<stopped, stopClosed, sse>>
      BY <1>5 DEF Write, Return
    <3>3. /\ sent' \in {"none", "ok", "error"}
          /\ streaming => sent' = "ok"
          /\ sent' = "error" => wroteHeader
      BY <1>5, <2>1 DEF Write, Sends, OpStatus, Return
    <3>4. TypeOK'
      BY <3>1, <3>2, <3>3
    <3>5. WriterMutex' /\ StartInv' /\ StopInv'
      BY <2>1, <3>1, <3>2
    <3>6. ResponseInv'
      BY <3>1, <3>2, <3>3
    <3>7. QED
      BY <3>4, <3>5, <3>6
  <2>4. QED
    BY <2>2, <2>3
<1>6. CASE Flush
  BY <1>6, SMTT(30) DEF Flush, Sends, OpStatus, Return
<1>7. CASE Panic
  <2>1. ~stopped /\ mpc = "hold" /\ mu = Main
    BY <1>7 DEF Panic
  <2>2. CASE op = "write" /\ ~wroteHeader /\ ~streaming /\ sse
    <3>1. PICK t \in Ticker : tpc' = [tpc EXCEPT ![t] = "select"]
      BY <1>7, <2>1, <2>2 DEF Panic, ImplicitHeader, maybeStartLocked
    <3>2. streaming' = TRUE /\ wroteHeader' = TRUE /\ UNCHANGED tick
      BY <1>7, <2>1, <2>2 DEF Panic, ImplicitHeader, maybeStartLocked
    <3>3. QED
      BY <1>7, <2>1, <2>2, <3>1, <3>2 DEF Panic, Sends, OpStatus
  <2>3. CASE ~(op = "write" /\ ~wroteHeader /\ ~streaming /\ sse)
    <3>1. /\ UNCHANGED <<streaming, tpc, tick>>
          /\ wroteHeader' \in BOOLEAN /\ (wroteHeader => wroteHeader')
      BY ZenonT(60), <1>7, <2>1, <2>3 DEF Panic, ImplicitHeader, maybeStartLocked
    <3>2. /\ mu' = Free /\ mpc' = "stop" /\ op' = "none"
          /\ UNCHANGED <<stopped, stopClosed, sse>>
      BY <1>7 DEF Panic, Return
    <3>3. /\ sent' \in {"none", "ok", "error"}
          /\ streaming => sent' = "ok"
          /\ sent' = "error" => ~streaming
      BY <1>7, <2>1 DEF Panic, Sends, OpStatus
    <3>4. TypeOK'
      BY <3>1, <3>2, <3>3
    <3>5. WriterMutex' /\ StartInv' /\ StopInv'
      BY <2>1, <3>1, <3>2
    <3>6. ResponseInv'
      BY <3>1, <3>2, <3>3
    <3>7. QED
      BY <3>4, <3>5, <3>6
  <2>4. QED
    BY <2>2, <2>3
<1>8. CASE HandlerReturns
  BY <1>8, SMTT(30) DEF HandlerReturns
<1>9. CASE StopClose
  BY <1>9 DEF StopClose
<1>10. CASE StopLock
  BY <1>10 DEF StopLock
<1>11. CASE StopDone
  BY <1>11, SMTT(30) DEF StopDone
<1>12. ASSUME NEW t \in Ticker, Tick(t) PROVE WriterInv'
  BY <1>12, SMTT(30) DEF Tick
<1>13. ASSUME NEW t \in Ticker, SelectStop(t) PROVE WriterInv'
  BY <1>13, SMTT(30) DEF SelectStop
<1>14. ASSUME NEW t \in Ticker, SelectTick(t) PROVE WriterInv'
  BY <1>14, SMTT(30) DEF SelectTick
<1>15. ASSUME NEW t \in Ticker, CommentLock(t) PROVE WriterInv'
  BY <1>15 DEF CommentLock
<1>16. ASSUME NEW t \in Ticker, CommentCheck(t) PROVE WriterInv'
  BY <1>16, SMTT(30) DEF CommentCheck
<1>17. ASSUME NEW t \in Ticker, CommentDone(t) PROVE WriterInv'
  BY <1>17, SMTT(30) DEF CommentDone, Sends
<1>18. CASE UNCHANGED vars
  BY <1>18, SMTT(30) DEF vars
<1>19. QED
  BY ZenonT(60), <1>1, <1>2, <1>3, <1>4, <1>5, <1>6, <1>7, <1>8, <1>9, <1>10,
     <1>11, <1>12, <1>13, <1>14, <1>15, <1>16, <1>17, <1>18
  DEF Next, MainNext, WriterCall, TickerNext, Finished

-----------------------------------------------------------------------------
\* The invariant holds in every reachable state.
THEOREM WriterInvariance == Spec => []WriterInv
  BY WriterInit, WriterStep, PTL DEF Spec

\* Type correctness of the writer's state.
THEOREM WriterTypes == Spec => []TypeOK
<1>1. WriterInv => TypeOK
  BY DEF WriterInv
<1>2. QED
  BY WriterInvariance, <1>1, PTL

\* Comments and the handler's frames never overlap on the underlying writer
\* (mu in WriteHeader, Write, Flush and writeComment).
THEOREM FramesStayWhole == Spec => []NoInterleavedWrite
<1>1. WriterInv => NoInterleavedWrite
  BY TickerAssumption DEF WriterInv, WriterMutex, NoInterleavedWrite, Main
<1>2. QED
  BY WriterInvariance, <1>1, PTL

\* Nothing is written once stopKeepAlive has returned.
THEOREM QuietAfterReturn == Spec => []NoWriteAfterReturn
<1>1. WriterInv => NoWriteAfterReturn
  BY DEF WriterInv, StopInv, NoWriteAfterReturn
<1>2. QED
  BY WriterInvariance, <1>1, PTL

\* maybeStartLocked starts at most one goroutine.
THEOREM SingleTicker == Spec => []OneTicker
<1>1. WriterInv => OneTicker
  BY DEF WriterInv, StartInv
<1>2. QED
  BY WriterInvariance, <1>1, PTL

\* Comments are written only into SSE responses with status 200.
THEOREM StreamOnly == Spec => []CommentsOnlyInStream
<1>1. WriterInv => CommentsOnlyInStream
  BY DEF WriterInv, TypeOK, StartInv, ResponseInv, CommentsOnlyInStream
<1>2. QED
  BY WriterInvariance, <1>1, PTL

-----------------------------------------------------------------------------
\* The client (mcpcompat/client).

\* c.mu is held through the handshake, which begins without a session, and through
\* the close of one.
ClientMutex ==
  \A g \in Goroutine : /\ pc[g] \in {"connecting", "closing"} => cmu = g
                       /\ pc[g] = "connecting" => session = 0
                       /\ pc[g] = "closing" => session # 0

\* The one watch goroutine: not started, waiting on one session, or through.
WatchInv ==
  /\ ~watchStarted => told = 0 /\ \A s \in C!Session : waiting[s] = 0
  /\ \A s \in C!Session : waiting[s] <= 1
  /\ \A s, t \in C!Session : waiting[s] > 0 /\ waiting[t] > 0 => s = t
  /\ told > 0 => \A s \in C!Session : waiting[s] = 0

ClientInv == C!TypeOK /\ ClientMutex /\ NoOrphan /\ C!AdoptsServerID /\ WatchInv /\ C!ToldOnce

\* Session numbers and session IDs.
LEMMA ClientRanges ==
  /\ C!Session \cup {0} \subseteq 0..C!PresetID /\ C!PresetID \in 0..C!PresetID /\ 0 \notin C!Session
  /\ \A m \in C!Session \cup {0} : m < MaxSession => m + 1 \in C!Session
  /\ 0 \in 0..MaxCalls /\ \A n \in 0..MaxCalls : n < MaxCalls => n + 1 \in 0..MaxCalls
  BY ClientAssumption, SMTT(30) DEF C!Session, C!PresetID

LEMMA ClientInit == C!Init => ClientInv
<1> SUFFICES ASSUME C!Init PROVE ClientInv
  OBVIOUS
<1> USE ClientAssumption DEF C!Init
<1>1. C!TypeOK
  BY ClientRanges DEF C!TypeOK, C!Label
<1>2. ClientMutex /\ NoOrphan /\ C!AdoptsServerID
  BY DEF ClientMutex, NoOrphan, C!NoOrphan, C!AdoptsServerID
<1>3. WatchInv /\ C!ToldOnce
  BY SMTT(30) DEF WatchInv, C!ToldOnce
<1> QED BY <1>1, <1>2, <1>3 DEF ClientInv

LEMMA WatchTypes ==
  ASSUME waiting \in [C!Session -> Nat], watchStarted \in BOOLEAN, NEW s, C!maybeStartConnLostWatch(s)
  PROVE  waiting' \in [C!Session -> Nat] /\ watchStarted' \in BOOLEAN
<1>1. CASE connLost /\ ~watchStarted
  <2>1. watchStarted' = TRUE /\ waiting' = [waiting EXCEPT ![s] = waiting[s] + 1]
    BY <1>1 DEF C!maybeStartConnLostWatch
  <2>2. s \in C!Session => waiting[s] + 1 \in Nat
    BY SMTT(30)
  <2>3. waiting' \in [C!Session -> Nat]
    BY <2>1, <2>2
  <2> QED BY <2>1, <2>3
<1>2. CASE ~(connLost /\ ~watchStarted)
  BY <1>2 DEF C!maybeStartConnLostWatch
<1> QED BY <1>1, <1>2

LEMMA ClientTypes == C!TypeOK /\ [C!Next]_(C!vars) => C!TypeOK'
<1> SUFFICES ASSUME C!TypeOK, [C!Next]_(C!vars) PROVE C!TypeOK'
  OBVIOUS
<1> USE ClientRanges DEF C!TypeOK, C!Label, C!watchVars, C!wireVars, C!Goto
<1>1. ASSUME NEW g \in Goroutine, C!Start(g) PROVE C!TypeOK'
  BY <1>1, SMTT(30) DEF C!Start
<1>2. ASSUME NEW g \in Goroutine, C!Initialize(g) \/ C!ConnectFails(g) PROVE C!TypeOK'
  BY <1>2 DEF C!Initialize, C!ConnectFails
<1>3. ASSUME NEW g \in Goroutine, C!Connect(g) PROVE C!TypeOK'
  <2>1. made + 1 \in C!Session /\ made' \in C!Session /\ session' \in C!Session
    BY <1>3 DEF C!Connect
  <2>2. sessionID' \in 0..C!PresetID
    BY <1>3, <2>1 DEF C!Connect
  <2>3. waiting' \in [C!Session -> Nat] /\ watchStarted' \in BOOLEAN
    BY <1>3, WatchTypes DEF C!Connect
  <2>4. conn' \in [C!Session -> {"none", "up", "lost", "closed"}]
    BY <1>3, <2>1 DEF C!Connect
  <2> QED BY <1>3, <2>1, <2>2, <2>3, <2>4 DEF C!Connect
<1>4. ASSUME NEW g \in Goroutine, C!Close(g) \/ C!CloseDone(g) PROVE C!TypeOK'
  BY <1>4 DEF C!Close, C!CloseDone
<1>5. ASSUME NEW g \in Goroutine, C!isResume(g) \/ C!resumeCall(g) PROVE C!TypeOK'
  BY <1>5, SMTT(30) DEF C!isResume, C!resumeCall
<1>6. ASSUME NEW g \in Goroutine, C!sessionFor(g) \/ C!Answered(g) PROVE C!TypeOK'
  BY <1>6 DEF C!sessionFor, C!Answered
<1>7. ASSUME NEW g \in Goroutine, C!OnConnectionLost(g) \/ C!ReadSession(g) PROVE C!TypeOK'
  BY <1>7 DEF C!OnConnectionLost, C!ReadSession
<1>8. ASSUME NEW g \in Goroutine, C!MaybeWatch(g) PROVE C!TypeOK'
  BY <1>8, WatchTypes DEF C!MaybeWatch
<1>9. ASSUME NEW s \in C!Session, C!Notify(s) \/ C!Lose(s) PROVE C!TypeOK'
  BY <1>9, SMTT(30) DEF C!Notify, C!Lose
<1>10. CASE UNCHANGED C!vars
  BY <1>10 DEF C!vars
<1> QED BY <1>1, <1>2, <1>3, <1>4, <1>5, <1>6, <1>7, <1>8, <1>9, <1>10 DEF C!Next, C!Step, C!Wire

\* Who holds c.mu is the only one to change c.session, and a connection is made only
\* when there is none.
Sole == ClientMutex /\ NoOrphan /\ C!AdoptsServerID
LEMMA SoleStep == C!TypeOK /\ Sole /\ [C!Next]_(C!vars) => Sole'
<1> SUFFICES ASSUME C!TypeOK, Sole, [C!Next]_(C!vars) PROVE Sole'
  OBVIOUS
<1> USE ClientAssumption, ClientRanges DEF C!TypeOK, Sole, ClientMutex, NoOrphan, C!NoOrphan, C!AdoptsServerID, C!watchVars, C!wireVars,
            C!Goto
<1>1. ASSUME NEW g \in Goroutine, C!Start(g) PROVE Sole'
  BY <1>1 DEF C!Start
<1>2. ASSUME NEW g \in Goroutine, C!Initialize(g) \/ C!ConnectFails(g) PROVE Sole'
  BY <1>2, SMTT(30) DEF C!Initialize, C!ConnectFails
<1>3. ASSUME NEW g \in Goroutine, C!Connect(g) PROVE Sole'
  BY <1>3 DEF C!Connect
<1>4. ASSUME NEW g \in Goroutine, C!Close(g) \/ C!CloseDone(g) PROVE Sole'
  BY <1>4, SMTT(30) DEF C!Close, C!CloseDone
<1>5. ASSUME NEW g \in Goroutine, C!isResume(g) \/ C!resumeCall(g) PROVE Sole'
  BY <1>5, SMTT(30) DEF C!isResume, C!resumeCall
<1>6. ASSUME NEW g \in Goroutine, C!sessionFor(g) \/ C!Answered(g) PROVE Sole'
  BY <1>6, SMTT(30) DEF C!sessionFor, C!Answered
<1>7. ASSUME NEW g \in Goroutine, C!OnConnectionLost(g) \/ C!ReadSession(g) \/ C!MaybeWatch(g)
      PROVE Sole'
  BY <1>7, SMTT(30) DEF C!OnConnectionLost, C!ReadSession, C!MaybeWatch
<1>8. ASSUME NEW s \in C!Session, C!Notify(s) \/ C!Lose(s) PROVE Sole'
  BY <1>8, SMTT(30) DEF C!Notify, C!Lose
<1>9. CASE UNCHANGED C!vars
  BY <1>9 DEF C!vars
<1> QED BY <1>1, <1>2, <1>3, <1>4, <1>5, <1>6, <1>7, <1>8, <1>9 DEF C!Next, C!Step, C!Wire

\* watchStarted is set once, by the registration or by the handshake.
LEMMA WatchStep == C!TypeOK /\ WatchInv /\ C!ToldOnce /\ [C!Next]_(C!vars) => WatchInv' /\ C!ToldOnce'
<1> SUFFICES ASSUME C!TypeOK, WatchInv, C!ToldOnce, [C!Next]_(C!vars) PROVE WatchInv' /\ C!ToldOnce'
  OBVIOUS
<1> USE DEF C!TypeOK, WatchInv, C!ToldOnce
<1>1. ASSUME NEW g \in Goroutine, C!Connect(g) \/ C!MaybeWatch(g) PROVE WatchInv' /\ C!ToldOnce'
  BY <1>1, SMTT(30) DEF C!Connect, C!MaybeWatch, C!maybeStartConnLostWatch
<1>2. ASSUME NEW s \in C!Session, C!Notify(s) PROVE WatchInv' /\ C!ToldOnce'
  BY <1>2, SMTT(30) DEF C!Notify
<1>3. CASE UNCHANGED <<watchStarted, waiting, told>>
  BY <1>3
<1> QED BY <1>1, <1>2, <1>3
        DEF C!Next, C!Step, C!Wire, C!Start, C!Initialize, C!ConnectFails, C!Close, C!CloseDone, C!isResume, C!resumeCall,
            C!sessionFor, C!Answered, C!OnConnectionLost, C!ReadSession, C!Lose, C!vars, C!watchVars

\* The inductive invariant of the client holds in every reachable state.
THEOREM ClientInvariance == C!Spec => []ClientInv
<1>1. C!Init => ClientInv
  BY ClientInit
<1>2. ClientInv /\ [C!Next]_(C!vars) => ClientInv'
  BY ClientTypes, SoleStep, WatchStep DEF ClientInv, Sole
<1> QED BY <1>1, <1>2, PTL DEF C!Spec

\* A connection that is up is the one Close would close, whatever calls overlap.
THEOREM NoOrphanHolds == C!Spec => []NoOrphan
<1>1. ClientInv => NoOrphan
  BY DEF ClientInv
<1> QED BY <1>1, ClientInvariance, PTL

\* GetSessionId is never a preset ID nor an earlier session's while there is a session.
THEOREM AdoptsServerIDHolds == C!Spec => []C!AdoptsServerID
<1>1. ClientInv => C!AdoptsServerID
  BY DEF ClientInv
<1> QED BY <1>1, ClientInvariance, PTL

\* The connection-lost handler runs at most once.
THEOREM ToldOnceHolds == C!Spec => []C!ToldOnce
<1>1. ClientInv => C!ToldOnce
  BY DEF ClientInv
<1> QED BY <1>1, ClientInvariance, PTL

-----------------------------------------------------------------------------
\* The request context (mcpcompat/server).

\* How far the two goroutines of a request can be apart, and when its context is
\* stored: from the store to the deferred clear.
ThreadInv ==
  \A q \in Req :
    /\ q \in pending <=> http[q] \in {"stored", "waiting", "returning"}
    /\ disp[q] # "none" => http[q] \in {"waiting", "returning", "done"}
    /\ http[q] \in {"returning", "done"} =>
         method[q] = "notify" \/ q \in left \/ disp[q] \in {"none", "over"}
    /\ http[q] \in {"waiting", "returning"} => disp[q] # "none"

\* A request of a stateful server names a session, one request initializes it, and no
\* other is on it before that one is dispatched.
IdInv ==
  /\ \A q \in Req : /\ http[q] # "idle" => sid[q] \in Sid \/ Stateless
                    /\ method[q] = "initialize" => ~Stateless
  /\ \A p, q \in Req : (method[p] = "initialize" /\ sid[p] = sid[q] /\ p # q) =>
       method[q] # "initialize" /\ disp[p] # "none"

\* Nothing is read before the bridge, and a drain goroutine lives only while its
\* dispatch does.
DispatchInv ==
  \A q \in Req :
    /\ disp[q] \in {"none", "queued", "bound"} => seen[q] = None
    /\ q \in draining => disp[q] \in {"bound", "bridged", "handling", "handled"}

\* Under stateless serving the session goroutine has the request's own values.
StatelessValues == Stateless => \A q \in Req : seen[q] \in {None, ident[q]}

\* go-sdk hands out IDs under stateless serving only with the legacy flag.
Isolated == ~LegacyIds => X!StatelessIsolated

ContextInv == /\ X!TypeOK /\ IdInv /\ ThreadInv /\ DispatchInv /\ CallSeesOwnValues
       /\ X!NothingLeftBehind /\ StatelessValues /\ Isolated /\ X!NeverPublic

LEMMA ContextInit == X!Init => ContextInv
  BY NoneAssumption, ModeAssumption, SMTT(30)
  DEF X!Init, ContextInv, X!TypeOK, IdInv, ThreadInv, DispatchInv, CallSeesOwnValues, X!CallSeesOwnValues, X!NothingLeftBehind,
      X!Bridged, StatelessValues, Isolated, X!StatelessIsolated, X!NeverPublic,
      X!HttpLabel, X!DispLabel, X!Method, X!Scope

\* The types, by action.
LEMMA ContextTypes == X!TypeOK /\ IdInv /\ ThreadInv /\ [X!Next]_(X!vars) => X!TypeOK'
<1> SUFFICES ASSUME X!TypeOK, IdInv, ThreadInv, [X!Next]_(X!vars) PROVE X!TypeOK'
  OBVIOUS
<1> USE DEF X!TypeOK, X!httpVars, X!dispVars, X!HttpLabel, X!DispLabel, X!Method, X!Scope
<1>1. ASSUME NEW q \in Req, X!Arrive(q) PROVE X!TypeOK'
  BY <1>1, SMTT(30) DEF X!Arrive
<1>2. ASSUME NEW q \in Req, X!Disconnect(q) PROVE X!TypeOK'
  BY <1>2 DEF X!Disconnect
<1>3. ASSUME NEW q \in Req, X!Serve(q) PROVE X!TypeOK'
  <2>1. CASE X!Denied(q)
    BY <2>1 DEF X!Denied
  <2>2. CASE X!setPendingRequestContext(q)
    BY <2>2 DEF X!setPendingRequestContext
  <2>3. CASE X!Publish(q)
    BY <2>3 DEF X!Publish
  <2>4. CASE X!Answered(q)
    BY <2>4 DEF X!Answered
  <2>5. CASE X!clearPendingRequestContext(q)
    BY <2>5 DEF X!clearPendingRequestContext
  <2> QED BY <1>3, <2>1, <2>2, <2>3, <2>4, <2>5 DEF X!Serve
<1>4. ASSUME NEW q \in Req, X!DispatchStep(q) PROVE X!TypeOK'
  <2>0. /\ X!contextWithSession(q, bridged[q]) \in X!ClientSession \cup {X!NoSession}
        /\ X!contextWithSession(q, X!NoSession) \in X!ClientSession \cup {X!NoSession}
        /\ X!Registers(q) \subseteq Sid
    BY <1>4 DEF X!contextWithSession, X!Registers, X!SessionID, X!ClientSession
  <2>1. CASE X!bindSessionForDispatch(q)
    <3>1. [kind |-> "ephemeral", of |-> q] \in X!ClientSession
      BY DEF X!ClientSession
    <3> QED BY <2>0, <2>1, <3>1, SMTT(30) DEF X!bindSessionForDispatch
  <2>2. CASE X!Bridge(q)
    <3>1. seen' \in [Req -> Ident \cup {None}]
      <4>1. X!SessionValues(q) \in Ident \cup {None}
        BY <2>2 DEF X!SessionValues, X!Bridge, IdInv, ThreadInv
      <4> QED BY <2>2, <4>1 DEF X!Bridge
    <3> QED BY <2>2, <3>1 DEF X!Bridge
  <2>3. CASE X!Handle(q)
    BY <2>0, <2>3 DEF X!Handle
  <2>4. CASE X!Handled(q)
    BY <2>4 DEF X!Handled, X!stripPublicCacheScope
  <2>5. CASE X!Finish(q)
    BY <2>5 DEF X!Finish
  <2> QED BY <1>4, <2>1, <2>2, <2>3, <2>4, <2>5 DEF X!DispatchStep
<1>5. CASE UNCHANGED X!vars
  BY <1>5 DEF X!vars
<1> QED BY <1>1, <1>2, <1>3, <1>4, <1>5 DEF X!Next

\* Where the two goroutines of a request stand, by action.
LEMMA ThreadStep == X!TypeOK /\ IdInv /\ ThreadInv /\ [X!Next]_(X!vars) => IdInv' /\ ThreadInv'
<1> SUFFICES ASSUME X!TypeOK, IdInv, ThreadInv, [X!Next]_(X!vars) PROVE IdInv' /\ ThreadInv'
  OBVIOUS
<1> USE DEF X!TypeOK, IdInv, ThreadInv, X!httpVars, X!dispVars, X!HttpLabel, X!DispLabel
<1>1. ASSUME NEW q \in Req, X!Arrive(q) PROVE IdInv' /\ ThreadInv'
  <2>1. PICK i \in Ident \cup {None}, m \in X!Method, s \in Sid \cup {None} :
          /\ IF Stateless THEN m # "initialize"
             ELSE /\ s # None
                  /\ (m = "initialize") <=> ~X!Created(s)
                  /\ m = "initialize" => \A p \in Req : sid[p] # s
          /\ ident' = [ident EXCEPT ![q] = i]
          /\ method' = [method EXCEPT ![q] = m]
          /\ sid' = [sid EXCEPT ![q] = s]
    BY <1>1 DEF X!Arrive
  <2>2. /\ http[q] = "idle" /\ http' = [http EXCEPT ![q] = "arrived"]
        /\ UNCHANGED <<left, pending, disp>>
    BY <1>1 DEF X!Arrive
  <2>3. ASSUME NEW p \in Req, NEW u \in Req, method'[p] = "initialize", sid'[p] = sid'[u], p # u
        PROVE  method'[u] # "initialize" /\ disp'[p] # "none"
    <3>1. CASE p = q
      BY <2>1, <2>2, <2>3, <3>1
    <3>2. CASE p # q /\ u # q
      BY <2>1, <2>2, <2>3, <3>2
    <3>3. CASE u = q
      <4>1. /\ method[p] = "initialize" /\ sid[p] = s /\ m # "initialize" /\ method'[u] = m
        BY <2>1, <2>2, <2>3, <3>3
      <4>2. ~Stateless
        BY <4>1, ModeAssumption
      <4>3. PICK z \in Req : sid[z] = s /\ method[z] = "initialize" /\ disp[z] # "none"
        BY <2>1, <4>1, <4>2 DEF X!Created
      <4> QED BY <2>2, <4>1, <4>3
    <3> QED BY <3>1, <3>2, <3>3
  <2>4. ThreadInv'
    BY <2>1, <2>2, ModeAssumption
  <2>5. \A p \in Req : /\ http'[p] # "idle" => sid'[p] \in Sid \/ Stateless
                       /\ method'[p] = "initialize" => ~Stateless
    BY <2>1, <2>2, ModeAssumption
  <2> QED BY <2>3, <2>4, <2>5
<1>2. ASSUME NEW q \in Req, X!Disconnect(q) PROVE IdInv' /\ ThreadInv'
  BY <1>2 DEF X!Disconnect
<1>3. ASSUME NEW q \in Req, X!Serve(q) PROVE IdInv' /\ ThreadInv'
  <2>1. CASE X!Denied(q)
    BY <2>1 DEF X!Denied
  <2>2. CASE X!setPendingRequestContext(q)
    BY <2>2 DEF X!setPendingRequestContext
  <2>3. CASE X!Publish(q)
    BY <2>3 DEF X!Publish
  <2>4. CASE X!Answered(q)
    BY <2>4 DEF X!Answered
  <2>5. CASE X!clearPendingRequestContext(q)
    BY <2>5 DEF X!clearPendingRequestContext
  <2> QED BY <1>3, <2>1, <2>2, <2>3, <2>4, <2>5 DEF X!Serve
<1>4. ASSUME NEW q \in Req, X!DispatchStep(q) PROVE IdInv' /\ ThreadInv'
  <2>1. UNCHANGED X!httpVars
    BY <1>4 DEF X!DispatchStep, X!bindSessionForDispatch, X!Bridge, X!Handle, X!Handled, X!Finish
  <2>2. /\ disp[q] \notin {"none", "over"}
        /\ \E l \in X!DispLabel \ {"none", "queued"} : disp' = [disp EXCEPT ![q] = l]
    BY <1>4 DEF X!DispatchStep, X!bindSessionForDispatch, X!Bridge, X!Handle, X!Handled, X!Finish
  <2> QED BY <2>1, <2>2
<1>5. CASE UNCHANGED X!vars
  BY <1>5 DEF X!vars
<1> QED BY <1>1, <1>2, <1>3, <1>4, <1>5 DEF X!Next

\* What the dispatch has read and started, by action.
LEMMA DispatchInvStep ==
  X!TypeOK /\ ThreadInv /\ DispatchInv /\ [X!Next]_(X!vars) => DispatchInv'
<1> SUFFICES ASSUME X!TypeOK, ThreadInv, DispatchInv, [X!Next]_(X!vars) PROVE DispatchInv'
  OBVIOUS
<1> USE DEF X!TypeOK, DispatchInv, X!httpVars, X!dispVars, X!DispLabel
<1>1. ASSUME NEW q \in Req, X!Arrive(q) PROVE DispatchInv'
  BY <1>1 DEF X!Arrive
<1>2. ASSUME NEW q \in Req, X!Disconnect(q) PROVE DispatchInv'
  BY <1>2 DEF X!Disconnect
<1>3. ASSUME NEW q \in Req, X!Serve(q) PROVE DispatchInv'
  <2>1. CASE X!Publish(q)
    BY <2>1 DEF X!Publish, ThreadInv
  <2>2. CASE UNCHANGED X!dispVars
    BY <2>2
  <2> QED BY <1>3, <2>1, <2>2 DEF X!Serve, X!Denied, X!setPendingRequestContext, X!Answered,
                                  X!clearPendingRequestContext
<1>4. ASSUME NEW q \in Req, X!DispatchStep(q) PROVE DispatchInv'
  <2>1. CASE X!bindSessionForDispatch(q)
    BY <2>1, SMTT(30) DEF X!bindSessionForDispatch
  <2>2. CASE X!Bridge(q)
    BY <2>2 DEF X!Bridge
  <2>3. CASE X!Handle(q)
    BY <2>3 DEF X!Handle
  <2>4. CASE X!Handled(q)
    BY <2>4 DEF X!Handled
  <2>5. CASE X!Finish(q)
    BY <2>5 DEF X!Finish
  <2> QED BY <1>4, <2>1, <2>2, <2>3, <2>4, <2>5 DEF X!DispatchStep
<1>5. CASE UNCHANGED X!vars
  BY <1>5 DEF X!vars
<1> QED BY <1>1, <1>2, <1>3, <1>4, <1>5 DEF X!Next

\* The values a handler reads: only Bridge sets them, and a dispatch whose context
\* is gone by then belongs to a notification or to a client that left.
LEMMA ValuesStep ==
  ContextInv /\ [X!Next]_(X!vars) => CallSeesOwnValues' /\ StatelessValues'
<1> SUFFICES ASSUME ContextInv, [X!Next]_(X!vars) PROVE CallSeesOwnValues' /\ StatelessValues'
  OBVIOUS
<1> USE DEF ContextInv, X!TypeOK, CallSeesOwnValues, X!CallSeesOwnValues, StatelessValues,
            X!httpVars, X!dispVars
<1>1. ASSUME NEW q \in Req, X!Arrive(q) PROVE CallSeesOwnValues' /\ StatelessValues'
  <2>1. seen[q] = None /\ disp[q] = "none"
    BY <1>1 DEF X!Arrive, ThreadInv, DispatchInv, X!HttpLabel
  <2>2. \A p \in Req : p # q => /\ ident'[p] = ident[p] /\ method'[p] = method[p]
                                /\ sid'[p] = sid[p]
    BY <1>1 DEF X!Arrive
  <2>3. seen' = seen /\ disp' = disp /\ left' = left /\ frozen' = frozen
    BY <1>1 DEF X!Arrive
  <2> QED BY <2>1, <2>2, <2>3 DEF X!Bridged, X!SessionValues
<1>2. ASSUME NEW q \in Req, X!Bridge(q) PROVE CallSeesOwnValues' /\ StatelessValues'
  <2>1. q \notin pending => method[q] = "notify" \/ q \in left
    BY <1>2 DEF X!Bridge, ThreadInv
  <2>2. Stateless => X!SessionValues(q) = ident[q]
    BY DEF X!SessionValues
  <2>3. /\ UNCHANGED <<ident, method, sid, left, frozen>>
        /\ \A p \in Req : p # q => seen'[p] = seen[p] /\ disp'[p] = disp[p]
        /\ seen'[q] = IF q \in pending /\ ident[q] # None THEN ident[q] ELSE X!SessionValues(q)
    BY <1>2 DEF X!Bridge
  <2>4. \A p \in Req : X!SessionValues(p)' = X!SessionValues(p)
    BY <2>3 DEF X!SessionValues
  <2>5. StatelessValues'
    BY <2>2, <2>3
  <2>6. ASSUME NEW p \in Req, X!Bridged(p)', seen'[p] # ident'[p]
        PROVE  /\ seen'[p] = X!SessionValues(p)'
               /\ ident'[p] = None \/ method'[p] = "notify" \/ p \in left'
    <3>1. CASE p = q
      BY <2>1, <2>3, <2>4, <2>6, <3>1
    <3>2. CASE p # q
      BY <2>3, <2>4, <2>6, <3>2 DEF X!Bridged
    <3> QED BY <3>1, <3>2
  <2> QED BY <2>5, <2>6
<1>3. ASSUME seen' = seen, ident' = ident, method' = method, sid' = sid, left \subseteq left',
             \A p \in Req : X!Bridged(p)' => X!Bridged(p) /\ X!SessionValues(p)' = X!SessionValues(p)
      PROVE  CallSeesOwnValues' /\ StatelessValues'
  BY <1>3
<1>4. ASSUME NEW q \in Req, X!DispatchStep(q) PROVE CallSeesOwnValues' /\ StatelessValues'
  <2>1. CASE X!Bridge(q)
    BY <1>2, <2>1
  <2>2. CASE ~X!Bridge(q)
    <3>1. /\ UNCHANGED <<seen, ident, method, sid, left, frozen>>
          /\ \A p \in Req : p # q => disp'[p] = disp[p]
          /\ disp'[q] = "bound" \/ disp[q] \in {"bridged", "handling", "handled"}
      BY <1>4, <2>2 DEF X!DispatchStep, X!bindSessionForDispatch, X!Handle, X!Handled, X!Finish
    <3> QED BY <1>3, <3>1 DEF X!Bridged, X!SessionValues
  <2> QED BY <2>1, <2>2
<1>5. ASSUME NEW q \in Req, X!Publish(q) PROVE CallSeesOwnValues' /\ StatelessValues'
  <2>1. /\ UNCHANGED <<seen, ident, method, sid, left>> /\ disp[q] = "none"
        /\ disp' = [disp EXCEPT ![q] = "queued"]
    BY <1>5 DEF X!Publish, ThreadInv
  <2>2. \A p \in Req : X!Bridged(p)' => X!Bridged(p) /\ p # q
    BY <2>1 DEF X!Bridged
  <2>3. ASSUME NEW p \in Req, X!Bridged(p), p # q PROVE X!SessionValues(p)' = X!SessionValues(p)
    <3>1. Stateless \/ sid[p] \in Sid
      BY <2>3 DEF X!Bridged, ThreadInv, IdInv
    <3>2. method[q] = "initialize" => sid[q] # sid[p]
      BY <2>1, <2>3 DEF IdInv
    <3> QED BY <1>5, <2>1, <3>1, <3>2 DEF X!Publish, X!SessionValues
  <2> QED BY <1>3, <2>1, <2>2, <2>3
<1>6. ASSUME NEW q \in Req, X!Serve(q) \/ X!Disconnect(q)
      PROVE  CallSeesOwnValues' /\ StatelessValues'
  <2>1. CASE ~X!Publish(q)
    <3>1. UNCHANGED <<seen, ident, method, sid, disp, frozen>> /\ left \subseteq left'
      BY <1>6, <2>1 DEF X!Serve, X!Denied, X!setPendingRequestContext, X!Answered,
                        X!clearPendingRequestContext, X!Disconnect
    <3> QED BY <1>3, <3>1 DEF X!Bridged, X!SessionValues
  <2> QED BY <1>5, <2>1
<1>7. CASE UNCHANGED X!vars
  BY <1>3, <1>7 DEF X!vars, X!Bridged, X!SessionValues
<1> QED BY <1>1, <1>4, <1>6, <1>7 DEF X!Next

\* Without the legacy flag a stateless session has no ID, so neither binding reaches
\* the registry.
LEMMA IsolatedStep == X!TypeOK /\ Isolated /\ [X!Next]_(X!vars) => Isolated'
<1> SUFFICES ASSUME X!TypeOK, [X!Next]_(X!vars), ~LegacyIds, Stateless, X!StatelessIsolated
             PROVE  X!StatelessIsolated'
  BY DEF Isolated, X!StatelessIsolated
<1>0. \A q \in Req : \A old : X!contextWithSession(q, old) = old /\ X!Registers(q) = {}
  BY DEF X!contextWithSession, X!Registers, X!SessionID
<1> USE DEF X!StatelessIsolated, X!TypeOK, X!httpVars, X!dispVars
<1>1. ASSUME sessions' = sessions, bridged' = bridged PROVE X!StatelessIsolated'
  BY <1>1
<1>2. ASSUME NEW q \in Req, X!bindSessionForDispatch(q) PROVE X!StatelessIsolated'
  BY <1>2, SMTT(30) DEF X!bindSessionForDispatch
<1>3. ASSUME NEW q \in Req, X!Handle(q) PROVE X!StatelessIsolated'
  <2>1. /\ sessions' = {}
        /\ bridged' \in [Req -> X!ClientSession \cup {X!NoSession}]
        /\ \A p \in Req : bridged'[p] = bridged[p]
    BY <1>0, <1>3, SMTT(30) DEF X!Handle
  <2> QED BY <2>1
<1>4. ASSUME NEW q \in Req, X!DispatchStep(q) PROVE X!StatelessIsolated'
  BY <1>1, <1>2, <1>3, <1>4 DEF X!DispatchStep, X!Bridge, X!Handled, X!Finish
<1>5. ASSUME NEW q \in Req, X!Serve(q) \/ X!Disconnect(q) \/ X!Arrive(q) PROVE X!StatelessIsolated'
  BY <1>1, <1>5 DEF X!Serve, X!Denied, X!setPendingRequestContext, X!Publish, X!Answered,
                    X!clearPendingRequestContext, X!Disconnect, X!Arrive
<1>6. CASE UNCHANGED X!vars
  BY <1>1, <1>6 DEF X!vars
<1> QED BY <1>4, <1>5, <1>6 DEF X!Next

\* Only Handled sets a scope, and it narrows the ones go-sdk stamps.
LEMMA ScopeStep == X!TypeOK /\ X!NeverPublic /\ [X!Next]_(X!vars) => X!NeverPublic'
<1> SUFFICES ASSUME X!TypeOK, X!NeverPublic, [X!Next]_(X!vars) PROVE X!NeverPublic'
  OBVIOUS
<1> USE DEF X!NeverPublic, X!TypeOK, X!httpVars, X!dispVars
<1>1. ASSUME NEW q \in Req, X!Handled(q) PROVE X!NeverPublic'
  BY <1>1 DEF X!Handled, X!stripPublicCacheScope
<1>2. CASE scope' = scope
  BY <1>2
<1> QED BY <1>1, <1>2 DEF X!Next, X!Serve, X!DispatchStep, X!Denied, X!setPendingRequestContext,
           X!Publish, X!Answered, X!clearPendingRequestContext, X!Disconnect, X!Arrive, X!vars,
           X!bindSessionForDispatch, X!Bridge, X!Handle, X!Finish

\* The inductive invariant.
THEOREM ContextInvariance == X!Spec => []ContextInv
<1>1. ContextInv /\ [X!Next]_(X!vars) => ContextInv'
  <2> SUFFICES ASSUME ContextInv, [X!Next]_(X!vars) PROVE ContextInv'
    OBVIOUS
  <2>1. X!TypeOK' /\ IdInv' /\ ThreadInv' /\ DispatchInv'
    BY ContextTypes, ThreadStep, DispatchInvStep DEF ContextInv
  <2>2. X!NothingLeftBehind'
    BY <2>1 DEF ThreadInv, DispatchInv, X!NothingLeftBehind
  <2> QED BY <2>1, <2>2, ValuesStep, IsolatedStep, ScopeStep DEF ContextInv
<1> QED BY ContextInit, <1>1, PTL DEF X!Spec

\* A handler reads the identity of its own request or, for a request without one, a
\* notification or a call whose client left, the one its session was initialized with
\* (sessionDispatchMiddleware, valueBridgeContext, ServeHTTP).
THEOREM OwnValues == X!Spec => []CallSeesOwnValues
<1>1. ContextInv => CallSeesOwnValues
  BY DEF ContextInv
<1> QED BY <1>1, ContextInvariance, PTL

\* Neither a stored context nor a drain goroutine outlives its request (the deferred
\* clear of ServeHTTP and the deferred cleanup of the dispatch).
THEOREM Clean == X!Spec => []X!NothingLeftBehind
<1>1. ContextInv => X!NothingLeftBehind
  BY DEF ContextInv
<1> QED BY <1>1, ContextInvariance, PTL

\* Without the legacy flag, stateless dispatches share nothing
\* (bindSessionForDispatch, contextWithSession).
THEOREM StatelessSharesNothing == X!Spec => [](~LegacyIds => X!StatelessIsolated)
<1>1. ContextInv => (~LegacyIds => X!StatelessIsolated)
  BY DEF ContextInv, Isolated
<1> QED BY <1>1, ContextInvariance, PTL

\* Under stateless serving every handler, notifications included, reads its own
\* request's values or none.
THEOREM StatelessOwnValues ==
  X!Spec => [](Stateless => \A q \in Req : seen[q] \in {None, ident[q]})
<1>1. ContextInv => (Stateless => \A q \in Req : seen[q] \in {None, ident[q]})
  BY DEF ContextInv, StatelessValues
<1> QED BY <1>1, ContextInvariance, PTL

=============================================================================

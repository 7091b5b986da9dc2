----------------------------- MODULE KeepAlive -----------------------------
(***************************************************************************)
(* keepAliveWriter (mcpcompat/server/keepalive.go): the response writer of *)
(* a GET stream, shared by the goroutine that runs the go-sdk handler and  *)
(* by the ticker goroutine that writes SSE comments.  wrapKeepAlive        *)
(* creates one per GET when a heartbeat is configured and ServeHTTP defers *)
(* stopKeepAlive; the interval is therefore positive here.                 *)
(*                                                                         *)
(* The goroutines share mu, the flags it guards, the channel stop and the  *)
(* underlying writer.  A call of the underlying writer is the step from    *)
(* acquiring mu to releasing it, so that an overlap of two such calls is a *)
(* state.  Ticker is a set of goroutines that could be started, of which   *)
(* the code means to start one.                                            *)
(***************************************************************************)
CONSTANTS Ticker,  \* goroutines a "go k.run()" can start
          Free     \* mu is not held

\* The goroutine of ServeHTTP and of the go-sdk handler.
Main == "main"

ASSUME TickerAssumption == Main \notin Ticker /\ Free \notin Ticker /\ Free # Main

VARIABLES
  mu,          \* holder of the mutex, or Free
  wroteHeader, \* k.wroteHeader
  streaming,   \* k.streaming
  stopped,     \* k.stopped
  stopClosed,  \* the channel k.stop is closed
  sse,         \* Content-Type is text/event-stream
  sent,        \* the status line on the wire: "none", "ok" (200) or "error"
  mpc,         \* where the main goroutine stands
  op,          \* the writer method it is in
  tpc,         \* where each ticker goroutine stands
  tick         \* a tick waits in the channel of the goroutine's time.Ticker

flags == <<wroteHeader, streaming, stopped, stopClosed>>
wire == <<sse, sent>>
tickVars == <<tpc, tick>>
vars == <<mu, flags, wire, mpc, op, tickVars>>

Op == {"none", "headerOK", "headerError", "write", "flush"}
MainLabel == {"handler", "want", "hold", "stop", "wantStop", "holdStop", "returned"}
TickerLabel == {"unborn", "select", "want", "hold", "writing", "exited"}

Init ==
  /\ mu = Free
  /\ wroteHeader = FALSE
  /\ streaming = FALSE
  /\ stopped = FALSE
  /\ stopClosed = FALSE
  /\ sse = FALSE
  /\ sent = "none"
  /\ mpc = "handler"
  /\ op = "none"
  /\ tpc = [t \in Ticker |-> "unborn"]
  /\ tick = [t \in Ticker |-> FALSE]

-----------------------------------------------------------------------------
(* Mistakes the properties would catch: each is a variant of a definition below *)

\* stopKeepAlive waits for the goroutine to exit before it sets stopped.
StopWaits ==
  /\ mpc = "holdStop"
  /\ mu' = Free
  /\ IF \A t \in Ticker : tpc[t] \in {"unborn", "exited"}
       THEN stopped' = TRUE /\ mpc' = "returned"
       ELSE UNCHANGED stopped /\ mpc' = "wantStop"
  /\ UNCHANGED <<wroteHeader, streaming, stopClosed, wire, op, tickVars>>

\* writeComment does not look at stopped.
CommentUnchecked(t) ==
  /\ tpc[t] = "hold"
  /\ tpc' = [tpc EXCEPT ![t] = "writing"]
  /\ UNCHANGED <<mu, flags, wire, mpc, op, tick>>

-----------------------------------------------------------------------------
(* Helpers *)

\* maybeStartLocked: the ticker starts once, for an established SSE stream.
maybeStartLocked(ok) ==
  IF streaming \/ stopped \/ ~ok \/ ~sse
    THEN UNCHANGED <<streaming, tickVars>>
    ELSE /\ streaming' = TRUE
         /\ \E t \in Ticker : /\ tpc[t] = "unborn"
                              /\ tpc' = [tpc EXCEPT ![t] = "select"]
         /\ UNCHANGED tick

\* What the underlying net/http writer puts on the wire: the first status.
Sends(status) == sent' = IF sent = "none" THEN status ELSE sent

OpStatus == IF op = "headerError" THEN "error" ELSE "ok"

-----------------------------------------------------------------------------
(* The go-sdk handler, on the main goroutine *)

\* The handler sets Content-Type; it does so before anything is sent.
SetContentType ==
  /\ mpc = "handler"
  /\ sent = "none" /\ ~sse
  /\ sse' = TRUE
  /\ UNCHANGED <<mu, flags, sent, mpc, op, tickVars>>

\* The handler calls WriteHeader, Write or Flush.  It never changes its status,
\* but WriteHeader(200) may follow the implicit one (the SDK replays a stream
\* without an explicit header).
Call(o) ==
  /\ mpc = "handler"
  /\ o = "headerError" => sent = "none"
  /\ o = "headerOK" => sent # "error"
  /\ op' = o
  /\ mpc' = "want"
  /\ UNCHANGED <<mu, flags, wire, tickVars>>

\* k.mu.Lock() in WriteHeader, Write and Flush.
Lock ==
  /\ mpc = "want" /\ mu = Free
  /\ mu' = Main
  /\ mpc' = "hold"
  /\ UNCHANGED <<flags, wire, op, tickVars>>

Return ==
  /\ mu' = Free
  /\ mpc' = "handler"
  /\ op' = "none"

WriteHeader ==
  /\ mpc = "hold" /\ op \in {"headerOK", "headerError"}
  /\ Sends(OpStatus)
  /\ wroteHeader' = TRUE
  /\ maybeStartLocked(op = "headerOK")
  /\ Return
  /\ UNCHANGED <<stopped, stopClosed, sse>>

\* A Write before any WriteHeader is an implicit WriteHeader(200).
ImplicitHeader ==
  IF op = "write" /\ ~wroteHeader
    THEN wroteHeader' = TRUE /\ maybeStartLocked(TRUE)
    ELSE UNCHANGED <<wroteHeader, streaming, tickVars>>

Write ==
  /\ mpc = "hold" /\ op = "write"
  /\ ImplicitHeader
  /\ Sends(OpStatus)
  /\ Return
  /\ UNCHANGED <<stopped, stopClosed, sse>>

\* Flush leaves wroteHeader alone, though net/http then sends a 200.
Flush ==
  /\ mpc = "hold" /\ op = "flush"
  /\ Sends(OpStatus)
  /\ Return
  /\ UNCHANGED <<flags, sse, tickVars>>

\* The underlying writer panics, before or after it sent something; what Write
\* did before calling it stays done.  The deferred Unlock runs, then the
\* unwinding reaches ServeHTTP's deferred stopKeepAlive.
Panic ==
  /\ mpc = "hold"
  /\ ImplicitHeader
  /\ UNCHANGED sent \/ Sends(OpStatus)
  /\ mu' = Free
  /\ mpc' = "stop"
  /\ op' = "none"
  /\ UNCHANGED <<stopped, stopClosed, sse>>

\* The handler returns, or panics outside a writer call.
HandlerReturns ==
  /\ mpc = "handler"
  /\ mpc' = "stop"
  /\ UNCHANGED <<mu, flags, wire, op, tickVars>>

-----------------------------------------------------------------------------
(* stopKeepAlive, deferred by ServeHTTP *)

StopClose ==
  /\ mpc = "stop"
  /\ stopClosed' = TRUE
  /\ mpc' = "wantStop"
  /\ UNCHANGED <<mu, wroteHeader, streaming, stopped, wire, op, tickVars>>

StopLock ==
  /\ mpc = "wantStop" /\ mu = Free
  /\ mu' = Main
  /\ mpc' = "holdStop"
  /\ UNCHANGED <<flags, wire, op, tickVars>>

\* stopped is set, mu released and ServeHTTP returns to net/http.
StopDone ==
  /\ mpc = "holdStop"
  /\ stopped' = TRUE
  /\ mu' = Free
  /\ mpc' = "returned"
  /\ UNCHANGED <<wroteHeader, streaming, stopClosed, wire, op, tickVars>>

-----------------------------------------------------------------------------
(* run and writeComment, on a ticker goroutine *)

\* The interval elapses; the channel of a time.Ticker holds one tick.
Tick(t) ==
  /\ tpc[t] \notin {"unborn", "exited"}
  /\ ~tick[t]
  /\ tick' = [tick EXCEPT ![t] = TRUE]
  /\ UNCHANGED <<mu, flags, wire, mpc, op, tpc>>

\* select: when both channels are ready either case may be chosen.
SelectStop(t) ==
  /\ tpc[t] = "select" /\ stopClosed
  /\ tpc' = [tpc EXCEPT ![t] = "exited"]
  /\ UNCHANGED <<mu, flags, wire, mpc, op, tick>>

SelectTick(t) ==
  /\ tpc[t] = "select" /\ tick[t]
  /\ tick' = [tick EXCEPT ![t] = FALSE]
  /\ tpc' = [tpc EXCEPT ![t] = "want"]
  /\ UNCHANGED <<mu, flags, wire, mpc, op>>

CommentLock(t) ==
  /\ tpc[t] = "want" /\ mu = Free
  /\ mu' = t
  /\ tpc' = [tpc EXCEPT ![t] = "hold"]
  /\ UNCHANGED <<flags, wire, mpc, op, tick>>

\* writeComment checks stopped under mu: a stopped writer is left alone.
CommentCheck(t) ==
  /\ tpc[t] = "hold"
  /\ IF stopped
       THEN mu' = Free /\ tpc' = [tpc EXCEPT ![t] = "exited"]
       ELSE UNCHANGED mu /\ tpc' = [tpc EXCEPT ![t] = "writing"]
  /\ UNCHANGED <<flags, wire, mpc, op, tick>>

\* The comment is written and flushed, or the write fails and run exits.
CommentDone(t) ==
  /\ tpc[t] = "writing"
  /\ mu' = Free
  /\ Sends("ok")
  /\ \E l \in {"select", "exited"} : tpc' = [tpc EXCEPT ![t] = l]
  /\ UNCHANGED <<flags, sse, mpc, op, tick>>

-----------------------------------------------------------------------------
(* The specification *)

\* ServeHTTP has returned and no ticker goroutine is left.
Finished ==
  /\ mpc = "returned"
  /\ \A t \in Ticker : tpc[t] \in {"unborn", "exited"}
  /\ UNCHANGED vars

WriterCall == WriteHeader \/ Write \/ Flush \/ Panic

MainNext ==
  \/ SetContentType
  \/ \E o \in Op \ {"none"} : Call(o)
  \/ Lock
  \/ WriterCall
  \/ HandlerReturns
  \/ StopClose
  \/ StopLock
  \/ StopDone

TickerNext(t) ==
  \/ Tick(t)
  \/ SelectStop(t)
  \/ SelectTick(t)
  \/ CommentLock(t)
  \/ CommentCheck(t)
  \/ CommentDone(t)

Next == MainNext \/ (\E t \in Ticker : TickerNext(t)) \/ Finished

Spec == Init /\ [][Next]_vars

\* A runnable goroutine runs, a call of the underlying writer returns or
\* panics, and a sync.Mutex starves nobody (its starvation mode hands it to the
\* longest waiter).  Nothing makes the handler return or the clock tick.
Fairness ==
  /\ SF_vars(Lock) /\ SF_vars(StopLock)
  /\ WF_vars(WriterCall) /\ WF_vars(StopClose) /\ WF_vars(StopDone)
  /\ \A t \in Ticker : /\ SF_vars(CommentLock(t))
                       /\ WF_vars(SelectStop(t) \/ SelectTick(t))
                       /\ WF_vars(CommentCheck(t))
                       /\ WF_vars(CommentDone(t))

FairSpec == Spec /\ Fairness

-----------------------------------------------------------------------------
(* Properties *)

\* The state has its type.
TypeOK ==
  /\ mu \in Ticker \cup {Free, Main}
  /\ wroteHeader \in BOOLEAN
  /\ streaming \in BOOLEAN
  /\ stopped \in BOOLEAN
  /\ stopClosed \in BOOLEAN
  /\ sse \in BOOLEAN
  /\ sent \in {"none", "ok", "error"}
  /\ mpc \in MainLabel
  /\ op \in Op
  /\ tpc \in [Ticker -> TickerLabel]
  /\ tick \in [Ticker -> BOOLEAN]

\* A comment is never written while the handler's goroutine is inside a call of
\* the underlying writer, nor while another comment is: frames stay whole.
NoInterleavedWrite ==
  \A t \in Ticker :
    tpc[t] = "writing" =>
      /\ mpc # "hold"
      /\ \A u \in Ticker \ {t} : tpc[u] # "writing"

\* Once stopKeepAlive has returned, and ServeHTTP with it, the underlying
\* writer is never touched again: no comment is being written and none starts.
NoWriteAfterReturn ==
  mpc = "returned" => \A t \in Ticker : tpc[t] # "writing"

\* At most one ticker goroutine is ever started, however the handler mixes
\* WriteHeader, Write and Flush (streaming in maybeStartLocked).
OneTicker ==
  \A t, u \in Ticker : tpc[t] # "unborn" /\ tpc[u] # "unborn" => t = u

\* A comment only ever goes into an SSE response with status 200, explicit or
\* implied: an error response is never polluted.
CommentsOnlyInStream ==
  \A t \in Ticker : tpc[t] = "writing" => sse /\ sent # "error"

\* Teardown ends: stopKeepAlive returns, as neither a busy ticker nor a panic in a writer
\* call keeps ServeHTTP from returning, and once stop is closed the ticker goroutine exits
\* and none is started later (keepalive.go).
TeardownCompletes ==
  /\ mpc = "stop" ~> mpc = "returned"
  /\ stopClosed ~> [](\A t \in Ticker : tpc[t] \in {"unborn", "exited"})

=============================================================================

------------------------------ MODULE Recovery ------------------------------
(***************************************************************************)
(* recovery.Middleware around one request: the handler writes, and may     *)
(* panic before or after its header was sent; the deferred function logs,  *)
(* reports and answers, or panics again with http.ErrAbortHandler.         *)
(***************************************************************************)
EXTENDS Naturals, Sequences

VARIABLES logger, reporter, \* options
          handler,          \* "running", "returned", or what it panicked with
          header,           \* status sent, 0 before
          body,             \* writers of the body, in order
          effects,          \* what the deferred function did, in order
          serverSaw         \* what net/http sees: "nothing", "return" or a panic value

recVars == <<logger, reporter, handler, header, body, effects, serverSaw>>

Panics == {"abort", "wrapped abort", "value"}

Init == /\ logger \in BOOLEAN /\ reporter \in BOOLEAN
        /\ handler = "running" /\ header = 0 /\ body = <<>> /\ effects = <<>> /\ serverSaw = "nothing"

\* net/http: the first write sends the header; a later WriteHeader is superfluous.
WriteAs(who, status) == /\ header' = IF header = 0 THEN status ELSE header
                        /\ body' = Append(body, who)

HandlerWrites == /\ handler = "running" /\ Len(body) < 2 /\ WriteAs("handler", 200)
                 /\ UNCHANGED <<logger, reporter, handler, effects, serverSaw>>

HandlerReturns == /\ handler = "running" /\ handler' = "returned" /\ serverSaw' = "return"
                  /\ UNCHANGED <<logger, reporter, header, body, effects>>

HandlerPanics(v) == /\ handler = "running" /\ handler' = v
                    /\ UNCHANGED <<logger, reporter, header, body, effects, serverSaw>>

AbortByIdentity(v) == v = "abort"

\* errors.Is: a panic value that wraps the sentinel counts too.
isErrAbortHandler(v) == v \in {"abort", "wrapped abort"}

Report == IF reporter THEN <<"RecordError", "ReportPanic">> ELSE <<>>
Log == IF logger THEN <<"log">> ELSE <<>>

Recover ==
  /\ handler \in Panics /\ serverSaw = "nothing"
  /\ IF isErrAbortHandler(handler)
     THEN serverSaw' = "abort" /\ UNCHANGED <<header, body, effects>>
     ELSE /\ effects' = Log \o Report
          /\ WriteAs("recovery", 500) /\ serverSaw' = "return"
  /\ UNCHANGED <<logger, reporter, handler>>

Next == HandlerWrites \/ HandlerReturns \/ Recover \/ \E v \in Panics : HandlerPanics(v)

Spec == Init /\ [][Next]_recVars

-----------------------------------------------------------------------------

\* A response aborted in flight is left as it was: nothing is appended to its body,
\* nothing is logged or reported, and net/http sees its own sentinel even when the
\* handler wrapped it.
AbortedIsUntouched ==
  (handler \in {"abort", "wrapped abort"} /\ serverSaw # "nothing") =>
     serverSaw = "abort" /\ effects = <<>> /\ "recovery" \notin {body[i] : i \in DOMAIN body}

=============================================================================

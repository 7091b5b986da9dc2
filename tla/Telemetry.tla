------------------------------ MODULE Telemetry ------------------------------
(***************************************************************************)
(* telemetry/providers: NewCompositeProvider builds a meter, a tracer and a *)
(* logger provider, in that order and each by a strategy chosen from the    *)
(* configuration; Shutdown ends what was built.  An exporter is running     *)
(* from the moment it is created until its shutdown function has ended it.  *)
(***************************************************************************)
EXTENDS Naturals, Sequences, Checks

VARIABLES conf,      \* Config
          build,     \* what is built next
          running,   \* exporters and readers that run
          shutdowns, \* CompositeProvider.shutdownFuncs, each the set it ends
          nextDown,  \* index of the next shutdown function
          errs       \* the functions whose errors Shutdown collected, by index

teleVars == <<conf, build, running, shutdowns, nextDown, errs>>

Config == [name : BOOLEAN, endpoint : BOOLEAN, tracing : BOOLEAN, metrics : BOOLEAN,
           logging : BOOLEAN, prometheus : BOOLEAN, processors : BOOLEAN]

Init == /\ conf \in Config
        /\ build = "options" /\ running = {} /\ shutdowns = <<>> /\ nextDown = 1 /\ errs = {}

hasOTLPMetrics(c) == c.endpoint /\ c.metrics
hasOTLPTracing(c) == c.endpoint /\ c.tracing
hasOTLPLogging(c) == c.endpoint /\ c.logging

IsFullyNoOp(c) == /\ ~hasOTLPMetrics(c) /\ ~hasOTLPTracing(c) /\ ~hasOTLPLogging(c)
                  /\ ~c.prometheus /\ ~c.processors

\* The readers of UnifiedMeterStrategy, empty for the no-op strategy.
SelectMeterStrategy(c) == (IF hasOTLPMetrics(c) THEN {"otlp metrics"} ELSE {}) \cup
                          (IF c.prometheus THEN {"prometheus"} ELSE {})

\* OTLPTracerStrategy is also chosen for extra processors alone.
SelectTracerStrategy(c) == IF hasOTLPTracing(c) \/ c.processors THEN "otlp" ELSE "noop"

\* The strategy passes the endpoint on: the exporter is wired whenever there is one.
NewTracerProviderWithShutdown(c) ==
  (IF c.endpoint THEN {"otlp traces"} ELSE {}) \cup (IF c.processors THEN {"processors"} ELSE {})

TracerParts(c) == IF SelectTracerStrategy(c) = "noop" THEN {} ELSE NewTracerProviderWithShutdown(c)

SelectLoggerStrategy(c) == IF hasOTLPLogging(c) THEN "otlp" ELSE "noop"

NewLoggerProviderWithShutdown(c) == IF c.endpoint THEN {"otlp logs"} ELSE {}

LoggerParts(c) == IF SelectLoggerStrategy(c) = "noop" THEN {} ELSE NewLoggerProviderWithShutdown(c)

Options == /\ build = "options"
           /\ build' = FirstOf(<< <<~conf.name, "failed">>, <<IsFullyNoOp(conf), "built">> >>, "metrics")
           /\ UNCHANGED <<conf, running, shutdowns, nextDown, errs>>

\* A strategy creates its parts; a provider with parts brings a shutdown function.
Create(parts, then) ==
  /\ running' = running \cup parts
  /\ shutdowns' = IF parts = {} THEN shutdowns ELSE Append(shutdowns, parts)
  /\ build' = then /\ UNCHANGED <<conf, nextDown, errs>>

createMetricsProvider == build = "metrics" /\ Create(SelectMeterStrategy(conf), "tracing")
createTracingProvider == build = "tracing" /\ Create(TracerParts(conf), "logging")
createLoggingProvider == build = "logging" /\ Create(LoggerParts(conf), "built")

\* What must be made in this phase.
Exporters == CASE build = "metrics" -> SelectMeterStrategy(conf)
               [] build = "tracing" -> TracerParts(conf) \ {"processors"}
               [] build = "logging" -> LoggerParts(conf)
               [] OTHER -> {}

\* UnifiedMeterStrategy: the OTLP reader runs already when Prometheus' cannot be made.
LeftBehind == IF Exporters = {"otlp metrics", "prometheus"} THEN {{}, {"otlp metrics"}} ELSE {{}}

\* An exporter cannot be made (CA bundle, options): the composite is dropped, with what
\* was built before it.
CreateFails ==
  /\ Exporters # {} /\ build' = "failed"
  /\ \E left \in LeftBehind : running' = running \cup left
  /\ UNCHANGED <<conf, shutdowns, nextDown, errs>>

\* The next function ends its exporters, or fails with some of them still running.  All
\* functions share one context of five seconds: what the earlier ones have used up is not
\* there for the later ones, which then return the context's error.
CallNext ==
  /\ nextDown' = nextDown + 1 /\ UNCHANGED build
  /\ \/ running' = running \ shutdowns[nextDown] /\ UNCHANGED errs
     \/ /\ errs' = errs \cup {nextDown}
        /\ \E left \in SUBSET shutdowns[nextDown] : running' = running \ (shutdowns[nextDown] \ left)

ShutdownStops ==
  /\ build = "built"
  /\ IF nextDown <= Len(shutdowns) /\ errs = {} THEN CallNext
     ELSE build' = "down" /\ UNCHANGED <<running, nextDown, errs>>
  /\ UNCHANGED <<conf, shutdowns>>

\* Shutdown calls every function in order, whatever the earlier ones return.
Shutdown ==
  /\ build = "built"
  /\ IF nextDown <= Len(shutdowns) THEN CallNext
     ELSE build' = "down" /\ UNCHANGED <<running, nextDown, errs>>
  /\ UNCHANGED <<conf, shutdowns>>

Next == Options \/ createMetricsProvider \/ createTracingProvider \/ createLoggingProvider
        \/ CreateFails \/ Shutdown

Spec == Init /\ [][Next]_teleVars

-----------------------------------------------------------------------------

\* When Shutdown returns, whatever still runs belongs to a function that was called and whose
\* error is in the error returned: one that fails, or that finds the shared five seconds
\* used up, keeps none of the others from being called, and nil means that nothing runs.
ShutdownAccountsForAll == build = "down" => running \subseteq UNION {shutdowns[i] : i \in errs}

\* "TracingEnabled controls whether tracing is enabled for OTLP" (providers.go:37): no
\* trace exporter runs when it is false.
DisabledTracingExportsNothing == (build = "built" /\ ~conf.tracing) => "otlp traces" \notin running

=============================================================================

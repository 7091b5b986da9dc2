------------------------------- MODULE Services -------------------------------
(***************************************************************************)
(* The packages a server is put together from: telemetry providers (T),    *)
(* the recovery middleware (R), the CEL engine (C) and the Postgres pool   *)
(* (G).                                                                    *)
(***************************************************************************)
EXTENDS Naturals

CONSTANTS User, Untouched,
          Connection, TokenTTL, MaxClock

\* The states of the sync.Once that are not a user.
ASSUME CelAssumption == "done" \notin User /\ Untouched \notin User /\ Untouched # "done"

\* A token lives for some time.
ASSUME PostgresAssumption == TokenTTL \in Nat \ {0}

VARIABLES conf, build, running, shutdowns, nextDown, errs,
          logger, reporter, handler, header, body, effects, serverSaw,
          expr, method, at, verdict, once, env, made,
          pgConf, pool, region, clock, signedAt, conn

T == INSTANCE Telemetry
R == INSTANCE Recovery
C == INSTANCE CelEngine
G == INSTANCE PostgresPool

\* Shutdown ends or reports what was built, whatever fails on the way; and the property the
\* code does not have, that disabled tracing exports no traces (Telemetry).
ShutdownAccountsForAll == T!ShutdownAccountsForAll
DisabledTracingExportsNothing == T!DisabledTracingExportsNothing

\* An aborted response is left alone (Recovery).
AbortedIsUntouched == R!AbortedIsUntouched

\* The callers of one engine agree (CelEngine).
CallersAgree == C!CallersAgree

\* Connections are made with fresh tokens (PostgresPool).
TokensNeverExpire == G!TokensNeverExpire

=============================================================================

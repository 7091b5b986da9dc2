------------------------------- MODULE MCInfra -------------------------------
(***************************************************************************)
(* The supporting packages' state machines for TLC, side by side: `part'   *)
(* says which one a behaviour runs, the others stay in an initial state.   *)
(***************************************************************************)
EXTENDS Networking, Services, TLC

VARIABLE part

httpVars == <<builder, client, envVar, envEver, dns, idleConns, original, cur, sent, reached, stage, fetched>>
teleVars == <<conf, build, running, shutdowns, nextDown, errs>>
recVars == <<logger, reporter, handler, header, body, effects, serverSaw>>
celVars == <<expr, method, at, verdict, once, env, made>>
pgVars == <<pgConf, pool, region, clock, signedAt, conn>>
all == <<part, portVars, httpVars, teleVars, recVars, celVars, pgVars>>

\* Two names, one of them with two ports.
MCHost == {[name |-> "a", port |-> 1], [name |-> "a", port |-> 2], [name |-> "b", port |-> 1]}

PortsIdle == Init /\ tcp[MinPort] = Free /\ udp[MaxPort] = Free
HTTPIdle == /\ H!Init /\ builder = [scoped |-> FALSE, local |-> FALSE, private |-> FALSE, http |-> FALSE, token |-> "none"]
            /\ \A n \in DOMAIN dns : dns[n] = "public"
TeleIdle == T!Init /\ \A f \in DOMAIN conf : ~conf[f]
RecIdle == R!Init /\ ~logger /\ ~reporter
CelIdle == C!Init /\ \A u \in User : expr[u] = "fine" /\ method[u] = "Check"
PgIdle == G!Init /\ ~pgConf.valid /\ ~pgConf.hook /\ pgConf.dynamic = "none"

MCInit ==
  \/ part = "ports" /\ Init /\ HTTPIdle /\ TeleIdle /\ RecIdle /\ CelIdle /\ PgIdle
  \/ part = "http" /\ PortsIdle /\ H!Init /\ TeleIdle /\ RecIdle /\ CelIdle /\ PgIdle
  \/ part = "telemetry" /\ PortsIdle /\ HTTPIdle /\ T!Init /\ RecIdle /\ CelIdle /\ PgIdle
  \/ part = "recovery" /\ PortsIdle /\ HTTPIdle /\ TeleIdle /\ R!Init /\ CelIdle /\ PgIdle
  \/ part = "cel" /\ PortsIdle /\ HTTPIdle /\ TeleIdle /\ RecIdle /\ C!Init /\ PgIdle
  \/ part = "postgres" /\ PortsIdle /\ HTTPIdle /\ TeleIdle /\ RecIdle /\ CelIdle /\ G!Init

MCNext ==
  \/ part = "ports" /\ Next /\ UNCHANGED <<part, httpVars, teleVars, recVars, celVars, pgVars>>
  \/ part = "http" /\ H!Next /\ UNCHANGED <<part, portVars, teleVars, recVars, celVars, pgVars>>
  \/ part = "telemetry" /\ T!Next /\ UNCHANGED <<part, portVars, httpVars, recVars, celVars, pgVars>>
  \/ part = "recovery" /\ R!Next /\ UNCHANGED <<part, portVars, httpVars, teleVars, celVars, pgVars>>
  \/ part = "cel" /\ C!Next /\ UNCHANGED <<part, portVars, httpVars, teleVars, recVars, pgVars>>
  \/ part = "postgres" /\ G!Next /\ UNCHANGED <<part, portVars, httpVars, teleVars, recVars, celVars>>

MCSpec == MCInit /\ [][MCNext]_all

=============================================================================

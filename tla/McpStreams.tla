------------------------------ MODULE McpStreams ------------------------------
(***************************************************************************)
(* The two ends of a connection of mcpcompat: the writer of a GET stream   *)
(* (KeepAlive) and the client (Client, as C).                              *)
(***************************************************************************)
EXTENDS KeepAlive, Naturals

CONSTANTS Goroutine, MaxSession, MaxCalls

\* The bounds of the client, and that a free mutex has no holder.
ASSUME ClientAssumption == MaxSession \in Nat /\ MaxCalls \in Nat /\ Free \notin Goroutine

VARIABLES streamable, cmu, session, sessionID, connLost, watchStarted, waiting, told, made, conn,
          calls, pc, at

C == INSTANCE Client WITH mu <- cmu

\* The client leaves no connection open behind its back (Client).
NoOrphan == C!NoOrphan

=============================================================================

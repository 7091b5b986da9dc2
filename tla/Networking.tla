------------------------------ MODULE Networking ------------------------------
(***************************************************************************)
(* Package networking: the port searches (Ports) and the outbound HTTP     *)
(* client (OutboundHTTP, as H).                                            *)
(***************************************************************************)
EXTENDS Ports

CONSTANTS Host, MaxRedirects

VARIABLES builder, client, envVar, envEver, dns, idleConns, original, cur, sent, reached, stage, fetched

H == INSTANCE OutboundHTTP

\* Where a guarded client's hops go, and where its token goes (OutboundHTTP).
HopsStayGuarded == H!HopsStayGuarded
TokenStaysOnHost == H!TokenStaysOnHost

=============================================================================

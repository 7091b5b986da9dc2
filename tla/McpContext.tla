------------------------------ MODULE McpContext ------------------------------
(***************************************************************************)
(* The request context of mcpcompat/server (RequestContext, as X), under   *)
(* names of its own, to stand beside the session registry.                 *)
(***************************************************************************)
CONSTANTS Req, Ident, Sid, None, Stateless, LegacyIds

\* None is told apart from what it stands beside; the modes are flags.
ASSUME NoneAssumption == None \notin Req /\ None \notin Sid /\ None \notin Ident
ASSUME ModeAssumption == Stateless \in BOOLEAN /\ LegacyIds \in BOOLEAN

VARIABLES http, disp, ident, method, sid, left, pending, frozen, sessions, draining, bridged, seen, scope

X == INSTANCE RequestContext WITH registry <- sessions, drains <- draining, bound <- bridged

\* A handler sees the values of its own request (RequestContext).
CallSeesOwnValues == X!CallSeesOwnValues

=============================================================================

\* Three requests of two identities on one stateful session; three requests and DELETEs on
\* a registry entry; pure calls.
CONSTANTS
  Req = {q1, q2, q3}
  Ident = {i1, i2}
  Sid = {s1}
  None = None
  Stateless = FALSE
  LegacyIds = FALSE
  Thread = {q1, q2, q3}
  Tool <- MCTool
  Global <- MCGlobal
  Overlay <- MCOverlay
  AddOnly <- MCAddOnly
  MaxObj = 2
  MaxSrv = 2
  DefaultMaxDelegationDepth = 2
SPECIFICATION MCSpec
SYMMETRY Symmetry
CHECK_DEADLOCK FALSE
INVARIANTS
  CallSeesOwnValues OverlayApplied OneClientSession ReportIsTrue HopsAreAccounted
PROPERTY
  ImplementsToolView

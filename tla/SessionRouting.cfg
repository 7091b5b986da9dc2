\* Two replicas, one session, three requests, one restart.
CONSTANTS
  Replica = {r1, r2}
  Sid = {s1}
  Req = {q1, q2, q3}
  None = None
  MaxRestarts = 1
SPECIFICATION Spec
SYMMETRY MCSymmetry
INVARIANTS
  NoSplitBrainWithoutDelete
  NoOrphanSession
  RehydratedNeverServesTerminated
  NotFoundIsGenuine

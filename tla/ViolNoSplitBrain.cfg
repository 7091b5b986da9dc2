\* The counterexample to NoSplitBrain.
CONSTANTS
  Replica = {r1}
  Sid = {s1}
  Req = {q1, q2, q3}
  None = None
  MaxRestarts = 0
SPECIFICATION Spec
SYMMETRY MCSymmetry
INVARIANT NoSplitBrain

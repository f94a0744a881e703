SPECIFICATION Spec
CONSTANTS
  Proc = {p1, p2, p3, p4}
  Frame = {f1, f2, f3}
  NoFrame = none
  NoProc = nobody
SYMMETRY Symmetry
INVARIANTS NoLostPages

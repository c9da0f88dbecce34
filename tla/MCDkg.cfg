CONSTANTS
  Participant = {p1, p2, p3}
  MaxSends = 5
  None = None
CHECK_DEADLOCK FALSE
SPECIFICATION Spec
SYMMETRY DkgSymmetry
INVARIANTS ShareBacked 

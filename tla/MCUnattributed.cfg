SPECIFICATION Spec
CONSTANTS
  u1 = u1
  u2 = u2
  Users <- MCUsers
  Nobody = Nobody
  Keys = {k1}
  NoKey = NoKey
  Initial = 1
  Ahead = 2
  MaxDepth = 3
  MaxRows = 2
  MaxQuarter = 2
SYMMETRY MCSymmetry
INVARIANTS NamesRequester

\* A direct sale can join a shift after its close derived the summary.
SPECIFICATION Spec
CONSTANTS
  s1 = s1
  s2 = s2
  ann = ann
  o1 = o1
  o2 = o2
  x1 = x1
  x2 = x2
  x3 = x3
  p1 = p1
  p2 = p2
  p3 = p3
  NoSession = NoSession
  NoOrder = NoOrder
  MaxVersion = 3
  MaxSales <- MCTwoAtMost
  Session <- MCOneSession
  User <- MCUser
  Owner <- MCOneOwner
  Order <- MCOneOrder
  Sale <- MCTwoSales
  Proc <- MCProc
INVARIANT ClosedShiftIsFinal
CHECK_DEADLOCK FALSE

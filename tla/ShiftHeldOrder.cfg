\* Shifts, held orders and sales: three requests in flight.
SPECIFICATION FairSpec
CONSTANTS
  s1 = s1
  s2 = s2
  ann = ann
  o1 = o1
  o2 = o2
  x1 = x1
  x2 = x2
  x3 = x3
  p1 = p1
  p2 = p2
  p3 = p3
  NoSession = NoSession
  NoOrder = NoOrder
  MaxVersion = 3
  MaxSales <- MCMaxSales
  Session <- MCSession
  User <- MCUser
  Owner <- MCOwner
  Order <- MCOneOrder
  Sale <- MCSale
  Proc <- MCProc
INVARIANT TypeOK
INVARIANT OpenOrderOnOpenShift
INVARIANT OneOpenShiftPerUser
INVARIANT ConvertedSaleSummarised
PROPERTY TerminalOrderFrozen
PROPERTY CloseAnswered
CHECK_DEADLOCK FALSE

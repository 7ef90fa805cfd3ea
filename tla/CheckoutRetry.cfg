\* A resend can be refused although its sale is recorded.
SPECIFICATION Spec
CONSTANTS
  c1 = c1
  c2 = c2
  c3 = c3
  c4 = c4
  a1 = a1
  a2 = a2
  rice = rice
  egg = egg
  tea = tea
  i1 = i1
  i2 = i2
  NoSale = NoSale
  NoRow = NoRow
  NoWrite = NoWrite
  Request <- MCRequest
  Cid <- MCCid
  cidOf <- MCCidOf
  lines <- MCLines
  rest <- MCRest
  tender <- MCTender
  Call = {c1, c2, c3, c4}
  reqOf <- MCReqOf
  Product <- MCProduct
  Tracked <- MCTracked
  InitStock <- MCInitStock
  Price <- MCPrice
  Adj = {a1, a2}
  Together <- MCRetry
  adjProduct <- MCAdjProduct
  adjType <- MCAdjType
  adjQty <- MCAdjQty
PROPERTY RetryFindsSale
CHECK_DEADLOCK FALSE

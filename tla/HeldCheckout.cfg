\* Two conversions of one order beside edits and a sale under the same id.
SPECIFICATION FairSpec
CONSTANTS
  o1 = o1
  o2 = o2
  i1 = i1
  i2 = i2
  k1 = k1
  k2 = k2
  k3 = k3
  k4 = k4
  d1 = d1
  e1 = e1
  e2 = e2
  noodles = noodles
  coffee = coffee
  NoSale = NoSale
  NoBody = NoBody
  Order <- MCOrder
  Cid <- MCCid
  Body <- MCBody
  FirstBody <- MCFirstBody
  Together <- MCTogether
  Convert <- MCConvert
  Sell <- MCSell
  Edit <- MCEdits
  target <- MCTarget
  expected <- MCExpected
  cid <- MCCidOf
  pay <- MCPay
  body <- MCContent
INVARIANT ConvertedOrderSold
INVARIANT ConversionIsAtomic
INVARIANT AnswersAgree
PROPERTY EveryConversionEnds
CHECK_DEADLOCK FALSE

\* Carts that are held, edited, sold and read again while the catalogue changes.
SPECIFICATION Spec
CONSTANTS
  p1 = p1
  p2 = p2
  ga = ga
  gb = gb
  o1 = o1
  o2 = o2
  o3 = o3
  Nothing = Nothing
  Product = {p1, p2}
  Group = {ga, gb}
  Option = {o1, o2, o3}
  groupOf <- MCGroupOf
  ProductData <- MCProductData
  Deltas = {9}
  Rates <- MCRates
  Carts <- MCCarts
  Payments <- MCPayments
  Sent <- MCSent
  Discounts = {0, 4}
  MaxSafe = 40
  FirstProduct <- MCFirstProduct
  FirstOption <- MCFirstOption
  FirstAssigned <- MCFirstAssigned
  FirstRates <- MCRates
  OldCarts <- MCOldCarts
  MaxEdits = 1
  MaxSales = 2
INVARIANT StoredInRange
INVARIANT SameRules
INVARIANT EstimateHonoured
INVARIANT ReceiptAddsUp
PROPERTY ReceiptFrozen
INVARIANT ReplayExactly
INVARIANT ReportsReconcile
CHECK_DEADLOCK FALSE

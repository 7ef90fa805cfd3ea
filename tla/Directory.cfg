\* Deletions beside references to what is deleted, and reads beside sales.
SPECIFICATION Spec
CONSTANTS
  food = food
  drink = drink
  n1 = n1
  tea = tea
  ann = ann
  bob = bob
  phone = phone
  s1 = s1
  s2 = s2
  s3 = s3
  newCategory = newCategory
  dropFood = dropFood
  newTea = newTea
  newBob = newBob
  dropBob = dropBob
  history = history
  walk = walk
  Fresh = Fresh
  Gone = Gone
  NoCategory = NoCategory
  Category = {food, drink}
  Product = {tea}
  Customer = {ann, bob}
  Sell = {s1, s2, s3}
  PutCategory = {newCategory}
  RemoveCategory = {dropFood}
  PutProduct = {newTea}
  PutCustomer = {newBob}
  RemoveCustomer = {dropBob}
  History = {history}
  Walk = {walk}
  of <- MCRow
  names <- MCNames
  target <- MCTarget
  total <- MCTotal
  id <- MCId
  Together <- MCTogether
  PageSize = 1
  DayLength = 1
  MaxTime = 2
INVARIANT ReferencesHold
INVARIANT HistoryAddsUp
INVARIANT WalkMissesNothing
PROPERTY PastDayFixed
CHECK_DEADLOCK FALSE

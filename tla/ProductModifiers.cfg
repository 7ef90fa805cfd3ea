\* Everything that edits the modifier groups of a product.
SPECIFICATION Spec
CONSTANTS
  g1 = g1
  g2 = g2
  g3 = g3
  g4 = g4
  r1 = r1
  r2 = r2
  a1 = a1
  u1 = u1
  d1 = d1
  s1 = s1
  NoDelivery = NoDelivery
  Group <- MCGroup
  Replace = {r1, r2}
  Assign = {a1}
  Update = {u1}
  Remove = {d1}
  Switch = {s1}
  want <- MCWant
  target <- MCTarget
  FirstGroups <- MCFirst
  FirstActive <- MCGroup
INVARIANT ReplacedIsGone
PROPERTY KeptGroupStays
INVARIANT RefusedLeavesNothing
CHECK_DEADLOCK FALSE

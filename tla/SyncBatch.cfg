\* Batches that overlap, are lost in a crash and are sent again.
SPECIFICATION Spec
CONSTANTS
  a = a
  b = b
  a1 = a1
  c = c
  bad = bad
  d1 = d1
  d2 = d2
  d3 = d3
  d4 = d4
  ia = ia
  ib = ib
  ic = ic
  s1 = s1
  u1 = u1
  u2 = u2
  NoSale = NoSale
  NoSession = NoSession
  Entry <- MCEntry
  Cid = {ia, ib, ic}
  cidOf <- MCCidOf
  content <- MCContent
  session <- MCSession
  outlet <- MCOutlet
  qty <- MCQty
  wellFormed <- MCWellFormed
  Delivery = {d1, d2, d3, d4}
  batch <- MCBatch
  Session = {s1}
  Outlet = {u1, u2}
  HomeOutlet = u1
  InitStock = 2
INVARIANT ResultsAreTrue
INVARIANT ResendConfirms
PROPERTY ImplementsLedger
SYMMETRY MCSymmetry
CHECK_DEADLOCK FALSE

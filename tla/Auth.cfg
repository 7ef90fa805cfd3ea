\* PINs that are set beside logins, a locked user, a session and its tokens.
CONSTANTS
  p1 = p1
  p2 = p2
  s1 = s1
  s2 = s2
  l1 = l1
  l2 = l2
  l3 = l3
  l4 = l4
  r1 = r1
  r2 = r2
  o1 = o1
  Pin = {p1, p2}
  Setter = {s1, s2}
  NewPin <- NewPinDef
  Login = {l1, l2, l3, l4}
  Given <- GivenDef
  Refresh = {r1, r2}
  Logout = {o1}
  Together <- TogetherDef
  NoHash = NoHash
  NoToken = NoToken
  MaxFails = 2
  LockFor = 1
  Ttl = 1
  MaxTime = 1
SPECIFICATION FairSpec
INVARIANTS TypeOK OneActivePerChain CountsEveryFailure LockedAtLimit
PROPERTIES LockNotMoved SessionFromCurrentPin
PROPERTY EveryRequestEnds
CHECK_DEADLOCK FALSE

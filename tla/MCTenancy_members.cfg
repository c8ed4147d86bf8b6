CONSTANTS
  ann = ann
  bob = bob
  cat = cat
  root = root
  f1 = f1
  f2 = f2
  f3 = f3
  NoMember = NoMember
  NoInvite = NoInvite
  NoCall = NoCall
  NoChange = NoChange
  NoEntry = NoEntry
  NoRead = NoRead
  Calls = {q1, q2}
  Servers = {s1, s2}
  Users = {ann, bob, cat}
  AddOns = {}
  Ttl = 2
  Menu <- mcMenu
  FirstIds = {f1, f2, f3}
  FirstMembers <- mcFirstMembers
  FirstInvites <- mcFirstInvites
  FirstOverrides <- mcFirstOverrides
SYMMETRY TenancySymmetry
SPECIFICATION Spec
INVARIANTS
  OverridesAreOneSet
  StaleAtMostTtl
  CacheAgreesUnlessBehind
PROPERTIES
  RemovalLeavesAnOwnerUnlessRaced
CHECK_DEADLOCK FALSE

CONSTANTS
  o1 = o1
  o2 = o2
  c1 = c1
  c2 = c2
  c3 = c3
  k1 = k1
  NoKey = NoKey
  NoCall = NoCall
  Calls = {c1, c2, c3}
  Orders = {o1, o2}
  OrderOf <- mcOrderOf
  KeyOf <- mcKeyOf
  CarrierOf <- mcCarrierOf
  FirstStatus <- mcFirstStatus
  MayFail = {c1}
  MayCancel = {c1}
  MayConnect = 1
SPECIFICATION FairSpec
INVARIANTS
  BookedOnce
  CancelledAtTheCarrier
PROPERTIES
  EveryCallAnswers
CHECK_DEADLOCK FALSE

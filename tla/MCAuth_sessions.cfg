CONSTANTS
  NoCompany = NoCompany
  Nobody = Nobody
  Calls = {r1, r2, r3, r4, r5}
  Companies = {m1}
  MayExpire = 1
SYMMETRY RequestSymmetry
SPECIFICATION Spec
INVARIANTS
  ReuseKillsFamily
  HonestClientsStaySignedIn
  EnabledSecretIsConfirmed
CHECK_DEADLOCK FALSE

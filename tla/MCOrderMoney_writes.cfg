CONSTANTS
  new1 = new1
  new2 = new2
  new3 = new3
  new4 = new4
  edit1 = edit1
  edit2 = edit2
  edit3 = edit3
  again1 = again1
  move1 = move1
  move2 = move2
  join1 = join1
  join2 = join2
  ann = ann
  bob = bob
  cat = cat
  dan = dan
  phone1 = phone1
  phone2 = phone2
  phone3 = phone3
  phone4 = phone4
  k1 = k1
  k2 = k2
  rename1 = rename1
  rename2 = rename2
  close1 = close1
  home = home
  shop = shop
  flat = flat
  add1 = add1
  add2 = add2
  default1 = default1
  default2 = default2
  plain1 = plain1
  NoKey = NoKey
  NoRow = NoRow
  Absent = Absent
  Creates = {new1, new2, new3, new4}
  Updates = {edit1, edit2, edit3, again1}
  Moves = {move1, move2}
  Merges = {join1, join2}
  Known = {ann, bob}
  NewCustomers = {cat, dan}
  CustomerEdits = {rename1, rename2}
  Archivals = {close1}
  Registered = {home, shop, flat}
  NewAddresses = {add1, add2}
  AddressEdits = {default1, default2, plain1}
  Phones = {phone1, phone2, phone3, phone4}
  Keys = {k1, k2}
  Governorates = {}
  Body <- mcBody
  Scenarios <- mcScenarios
  MaxOpen = 2
  MayFail = {edit1}
SPECIFICATION Spec
INVARIANTS
  NumbersAreContiguous
  CustomersMatchUnlessCrossed
  DerivedColumnsAgree
  PaymentsAreReportedOnceUnlessCrossed

SPECIFICATION LiveSpec
CONSTANTS
  q1 = q1
  q2 = q2
  q3 = q3
  u1 = u1
  u2 = u2
  k1 = k1
  k2 = k2
  Requests = {q1, q2}
  UserOf <- OwnerOf
  KeyOf <- TokenOf
  WithCode = {q1}
  Careful = {}
  Admins = {}
  Users = {u1}
  Products = {p1, p2}
  InitialStock = 2
  InitialPrice = 2
  Prices = {2}
  MaxQty = 1
  MaxUses = 1
  MinOrder = 1
  CodeValue = 1
  MaxRetries = 1
  MaxVersion = 0
  Coupon = Coupon
  CartRows = CartRows
  Nobody = Nobody
INVARIANTS OneOrderPerKey EveryVersionAnnounced
PROPERTIES EventuallyDecided
CHECK_DEADLOCK FALSE

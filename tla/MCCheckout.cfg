SPECIFICATION Spec
CONSTANTS
  q1 = q1
  q2 = q2
  q3 = q3
  u1 = u1
  u2 = u2
  k1 = k1
  k2 = k2
  Requests = {q1, q2, q3}
  UserOf <- OwnerOf
  KeyOf <- TokenOf
  WithCode = {q1, q3}
  Careful = {q1}
  Admins = {a1}
  Users = {u1, u2}
  Products = {p1}
  InitialStock = 2
  InitialPrice = 2
  Prices = {1, 2}
  MaxQty = 1
  MaxUses = 1
  MinOrder = 1
  CodeValue = 1
  MaxRetries = 0
  MaxVersion = 2
  Coupon = Coupon
  CartRows = CartRows
  Nobody = Nobody
INVARIANTS TypeOK OneOrderPerKey StockConserved DiscountWithinLimit EveryVersionAnnounced
PROPERTIES ChargedAsAgreed
CHECK_DEADLOCK FALSE

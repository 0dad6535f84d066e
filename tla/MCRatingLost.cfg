SPECIFICATION ReadModelsSpec
CONSTANTS
  Orders = {o1}
  Staff = {a1, a2}
  Nothing = Nothing
  MaxVersion = 2
  r1 = r1
  r2 = r2
  b1 = b1
  Relays = {r1, r2}
  Rebuilders = {b1}
  Counters = {"pendingOrders"}
  Crews <- Teams
  p1 = p1
  p2 = p2
  s1 = s1
  s2 = s2
  s3 = s3
  u1 = u1
  h1 = h1
  h2 = h2
  b2 = b2
  Products = {p1, p2}
  Slugs = {s1, s2, s3}
  Customers = {u1}
  Handlers = {h1, h2}
  Repairers = {b2}
  Casts <- Companies
  None = None
  Lines = {x1, x2}
  LinePrices = {1, 2}
  Charges = {0, 1, 2}
  MaxLine = 2
INVARIANT RatingIsNotLost
CHECK_DEADLOCK FALSE

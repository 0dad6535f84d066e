SPECIFICATION Spec
CONSTANTS
  Relays = {r1, r2}
  Events = {1}
  Handlers = {h1, h2}
  Undecodable = {}
  MaxAttempts = 2
  Retries = 0
  BatchSize = 1
  LeaseTicks = 1
  ClockSkewed = TRUE
  NoOne = NoOne
  NoEvent = NoEvent
SYMMETRY Interchangeable
PROPERTIES SuccessStaysRecorded
CHECK_DEADLOCK FALSE

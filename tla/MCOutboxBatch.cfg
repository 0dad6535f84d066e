SPECIFICATION LiveSpec
CONSTANTS
  Relays = {r1}
  Events = {1, 2}
  Handlers = {h1}
  Undecodable = {2}
  MaxAttempts = 2
  Retries = 0
  BatchSize = 2
  LeaseTicks = 1
  ClockSkewed = FALSE
  MaxFaults = 2
  NoOne = NoOne
  NoEvent = NoEvent
PROPERTIES EventuallySettled
CHECK_DEADLOCK FALSE

SPECIFICATION LiveSpec
CONSTANTS
  Relays = {r1, r2}
  Events = {1}
  Handlers = {h1}
  Undecodable = {}
  MaxAttempts = 2
  Retries = 1
  BatchSize = 2
  LeaseTicks = 2
  ClockSkewed = FALSE
  MaxFaults = 1
  NoOne = NoOne
  NoEvent = NoEvent
PROPERTIES EventuallySettled DeadRelayLosesClaims
CHECK_DEADLOCK FALSE

SPECIFICATION ServicesSpec
CONSTANTS
  q1 = q1
  q2 = q2
  q3 = q3
  e1 = e1
  e2 = e2
  g1 = g1
  g2 = g2
  c1 = c1
  c2 = c2
  c3 = c3
  c4 = c4
  v1 = v1
  v2 = v2
  Requests = {q1, q2, q3}
  BodyOf <- Bodies
  Unset = Unset
  Runs = {q1, q2}
  MaxAttempts = 2
  Unsaved = Unsaved
  MaxTries = 2
  NoState = NoState
  Emails = {e1, e2}
  Subjects = {g1, g2}
  Callbacks = {c1, c2, c3, c4}
  IdentityOf <- Identities
  Visits = {v1, v2}
  MaxResends = 1
  MailTries = 3
  Scenes <- Stage
  Nobody = Nobody
  Refreshes = {q1, q2, q3}
  MaxToken = 2
  Shoppers = {q1, q2, q3}
  MaxLine = 3
  NoLine = NoLine
  MaxRequests = 2
  MaxJobs = 1
  Archives = {a1, a2}
  MaxSpoiled = 1
  NoArchive = NoArchive
INVARIANTS ServicesTypeOK RunsOnce AnswerLasts StoredStepsHappened CompensatedHoldsNothing SameIdentitySameAccount SpentLinkHasVerified OneUsablePerFamily GoneStaysGone  ReceiptIsOfLastRun
PROPERTIES RegistrationReachesMailbox ExitsAfterSignal
CHECK_DEADLOCK FALSE

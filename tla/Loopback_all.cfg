CONSTANTS
  r1 = r1  r2 = r2  None = None  Failed = Failed  Ended = Ended
  Requests = {r1, r2}
  Keep = 1
  MaxLinks = 2
  MaxSessions = 2
  MaxHosts = 2
  MaxFolders = 1
  MaxLogins = 1
  MaxAsked = 2
SPECIFICATION Spec
CONSTRAINT OneAtATime
INVARIANT ServesItsWindow
PROPERTIES NothingIsSentLate RequestsEnd
CHECK_DEADLOCK FALSE

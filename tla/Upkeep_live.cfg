\* A queue whose process dies, or the hours after a session's end.
SPECIFICATION UpkeepSpec
CONSTANTS
  f1 = f1  r1 = r1  r2 = r2  f2 = f2  s1 = s1  s2 = s2
  A = A  B = B  C = C  step = step  model = model  other = other
  None = None
  Files = {f1, f2}
  Runs = {r1}
  Scanners = {s1}
  Contents = {A, B, C, step}
  Kinds = {model, other}
  HandledKinds = {model}
  MaxVersion = 0
  Content <- FreshContent
  Kind <- KindTable
  Outcome <- BUnsupported
  ClassifierVersion = 1
  MaxAttempts = 2
  Lease = 1
  BatchLimit = 2
  Concurrency = 1
  MaxNow = 8
  Unopened <- UnopenedOther
  Users = {f1}
  Tokens = {A}
  Sessions = {s1, s2}
  Requests = {r1}
  Passwords = {B}
  ActivationTtl = 2
  SessionTtl = 1
  Slide = 0
  MaxHours = 3
PROPERTIES PendingSettles ExpiredSessionIsPruned
CHECK_DEADLOCK FALSE

SPECIFICATION RaceSpec
CONSTANTS
  f1 = f1  r1 = r1  r2 = r2  f2 = f2  s1 = s1  s2 = s2
  A = A  B = B  C = C  step = step  model = model  other = other
  None = None
  Files = {f1}
  Runs = {r1, r2}
  Scanners = {s1}
  Contents = {A, B, C, step}
  Kinds = {model, other}
  HandledKinds = {model}
  MaxVersion = 2
  Content <- FreshContent
  Kind <- KindTable
  Outcome <- AllReady
  ClassifierVersion = 1
  MaxAttempts = 2
  Lease = 1
  BatchLimit = 1
  Concurrency = 1
  MaxNow = 2
  Unopened <- UnopenedOther
INVARIANT ServedPictureIsCurrent
CHECK_DEADLOCK FALSE
SYMMETRY Symmetry

\* A queue of two processes or of one, a job, a strip, two attempts, or a pair of pages.
SPECIFICATION PartsSpec
CONSTANTS
  f1 = f1  r1 = r1  r2 = r2  f2 = f2  s1 = s1  s2 = s2
  A = A  B = B  C = C  step = step  model = model  other = other
  None = None
  Files = {f1}
  Runs = {r1, r2}
  Scanners = {s1}
  Contents = {A, B, C, step}
  Kinds = {model, other}
  HandledKinds = {model}
  MaxVersion = 3
  Content <- FreshContent
  Kind <- KindTable
  Outcome <- BUnsupported
  ClassifierVersion = 1
  MaxAttempts = 2
  Lease = 1
  BatchLimit = 1
  Concurrency = 1
  MaxNow = 2
  Unopened <- UnopenedOther
  MaxLineChars = 5
  WindowBytes = 7
  MarkerLookahead = 4
  MaxMesh = 8
  MaxThumbnail = 1
  MaxEdits = 1
  MaxParts = 3
  ChunkBytes = {2, 5}
  Meshes <- PartsMeshes
  Edits <- PartsEdits
  Inputs <- PartsInputs
  Swaps <- PartsSwaps
  Saves <- PartsSaves
  MaxField = 32
  MaxCount = 5
  MaxSwaps = 1
  Texts <- PartsTexts
  Special <- PartsSpecial
  Digits <- PartsDigits
  Decoded <- PartsDecoded
  AppOrigin <- PartsAppOrigin
  k1 = k1  k2 = k2  k3 = k3
  Keys = {k1, k2, k3}
  Limit <- PartsLimit
  Window <- PartsWindow
  Cap = 1
  Batch = 1
  Second = 2
  MaxTime = 3
  MaxTries = 5
  MaxSetBacks = 1
INVARIANTS TypeOK UnsupportedIsDeserved HashIsCurrent OneOwner
  OwnPictureIsCurrent MeshIsSound ParseIsSound StripIsSound VerdictIsHonest ReadingsAgree
  LimiterIsHonest
PROPERTIES ReadyIsKeptForSameBytes KeepsTheBudget
SYMMETRY PartsSymmetry
CHECK_DEADLOCK FALSE

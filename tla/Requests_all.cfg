\* Two requests over two accounts, or three uploads (of three files, as three rows).
SPECIFICATION RequestsSpec
CONSTANTS
  anna = anna  bob = bob  cleo = cleo
  l1 = l1  l2 = l2  l3 = l3  c1 = c1  c2 = c2  c3 = c3
  p1 = p1  p2 = p2  old = old  new = new
  None = None
  Users = {anna, bob}
  Tokens = {l1, l2, l3}
  Sessions = {c1, c2}
  Requests = {p1, p2}
  Passwords = {old, new}
  ActivationTtl = 1
  SessionTtl = 1
  Slide = 0
  MaxNow = 1
  Names = {anna}
  Blobs = {l1, l2, l3}
  Ids = {l1, l2, l3}
  Uploads = {l1, l2, l3}
  Editors = {}
  Outside = FALSE
  MaxVersion = 1
INVARIANTS TypeOK OneLiveLink LinkIsFirstPassword OneWayIn UploadsAreSound
PROPERTIES AdminRemains PasswordReplacedByItsKnower
CHECK_DEADLOCK FALSE
SYMMETRY Symmetry

SPECIFICATION Spec
CONSTANTS
  anna = anna  bob = bob  cleo = cleo
  l1 = l1  l2 = l2  l3 = l3  c1 = c1  c2 = c2  c3 = c3
  p1 = p1  p2 = p2  old = old  new = new
  None = None
  Users = {anna, bob}
  Tokens = {l1}
  Sessions = {c1, c2}
  Requests = {p1, p2}
  Passwords = {old}
  ActivationTtl = 1
  SessionTtl = 1
  Slide = 0
  MaxNow = 0
PROPERTIES NeverResurrected
CHECK_DEADLOCK FALSE
SYMMETRY Symmetry

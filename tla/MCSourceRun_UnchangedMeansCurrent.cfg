SPECIFICATION Spec
CONSTANTS
  Run = {r1, r2, r3}
  Url = {u1}
  Content = {c1, c3}
  Permit = {p1}
  Solicitation = {}
  Version = {v2}
  Fp = {f1, f2}
  MaxActive = 1
  Emits <- MCEmits
  Throws <- MCThrows
  Backed <- MCBacked
  None = None
  Bad = Bad
  p1 = p1
  s1 = s1
  c1 = c1
  c2 = c2
  c3 = c3
  v1 = v1
  v2 = v2
  f1 = f1
  f2 = f2
PROPERTIES
  UnchangedMeansCurrent
CHECK_DEADLOCK FALSE

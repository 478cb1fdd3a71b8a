SPECIFICATION DeskSpec
CONSTANTS
  Request = {r1, r2}
  Token = {t1, t2}
  MaxRequest = 4
  Paths <- MCPaths
  MaxFault = 1
  None = None
  Deriver = {q1, q2}
  Readings <- MCReadings
  Added = {"act_grid"}
  MaxLine = 3
  MaxDerivation = 2
  MaxHalt = 1
  Message = {m1, m2, m3}
  Project = {job}
  Date = {d1, d2}
  Match <- MCMatch
  Due <- MCDue
  Addendum = {m2}
  Worker = {w1, w2}
  MaxDelivery = 4
  MaxDeath = 1
  Nothing = Nothing
  r1 = r1
  r2 = r2
  t1 = t1
  t2 = t2
  q1 = q1
  q2 = q2
  m1 = m1
  m2 = m2
  m3 = m3
  d1 = d1
  d2 = d2
  job = job
  w1 = w1
  w2 = w2
SYMMETRY DeskSymmetry
CHECK_DEADLOCK FALSE
INVARIANTS
  OpenedOnce
  StateIsAudited
  SerialHistory
  IntakeKeepsHistory
PROPERTIES
  SheetIsTheEstimators

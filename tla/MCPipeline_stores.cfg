SPECIFICATION PipelineSpec
CONSTANTS
  Run = {r1, r2}
  Url = {u1}
  Content = {c2, c3}
  Permit = {p1}
  Solicitation = {s1}
  Version = {v2}
  Fp = {f1, f2}
  MaxActive = 2
  Emits <- MCEmits
  Throws <- MCThrows
  Backed <- MCBacked
  None = None
  Void = Void
  Bad = Bad
  p1 = p1
  s1 = s1
  c1 = c1
  c2 = c2
  c3 = c3
  v1 = v1
  v2 = v2
  f1 = f1
  f2 = f2
  e1 = e1
  e2 = e2
  units = units
  w1 = w1
  w2 = w2
  Evidence = {e1, e2}
  Grade <- MCGrade
  About <- MCAbout
  Answers <- MCAnswers
  Worker = {w1, w2}
  Price <- MCPrice
  Cap = 3
  PerJob = 2
  Changing = {"low_risk"}
  MaxJob = 3
  MaxChange = 1
  MaxDigest = 1
  MaxJobFault = 1
SYMMETRY PipelineRuns
INVARIANTS
  RecordDerivable
  SucceededMeansPersisted
  JobsAddUp
  ShownIsVerified
PROPERTIES
  TablesAreKept
CHECK_DEADLOCK FALSE

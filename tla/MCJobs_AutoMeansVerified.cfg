SPECIFICATION JobsSpec
CONSTANTS
  Evidence = {e1, e2}
  Grade <- MCGrade
  About <- MCAbout
  Answers <- MCAnswers
  Worker = {w1}
  Price <- MCPrice
  Cap = 3
  PerJob = 1
  Changing = {}
  MaxJob = 3
  MaxChange = 0
  MaxJobFault = 0
  MaxDigest = 1
  Void = Void
  e1 = e1
  e2 = e2
  units = units
  w1 = w1
INVARIANTS
  AutoMeansVerified
CHECK_DEADLOCK FALSE

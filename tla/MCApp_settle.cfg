SPECIFICATION AppSpec
CONSTANTS
  Pair = {a, c}
  Routerless = {c}
  OldRows = {a, c}
  Facts <- MCFacts
  First <- MCFirst
  PriorityMin = 80
  DigestMin = 65
  MaxDeploy = 2
  MaxChange = 1
  MaxRun = 1
  MaxRequest = 2
  MaxFault = 1
  None = None
  Entry = {order}
  ChangeOrder = {order}
  Tab = {t1, t2}
  Slot = {s1, s2}
  Desk = {k1, k2}
  MaxLoss = 2
  Nil = Nil
  a = a
  c = c
  order = order
  t1 = t1
  t2 = t2
  s1 = s1
  s2 = s2
  k1 = k1
  k2 = k2
INVARIANTS
  TapOnce
  CrewWordsSurvive
PROPERTIES
  PeopleWin
  SweepHasEvidence
  ChainSettles
  OutboxDrains
CHECK_DEADLOCK FALSE

SPECIFICATION InboxSpec
CONSTANTS
  Week = {1, 2}
  Opportunity = {a, b}
  Facts <- MCFacts
  Unseen <- MCFirst
  ActionLinks = TRUE
  MaxStart = 4
  MaxChange = 1
  MaxFault = 1
  None = None
  Org = {o1}
  Name = {acme, dba, solo, near, john, town}
  Phone = {t1, t2}
  Firms = 3
  OneWord = {solo}
  Person = {john}
  Public = {}
  Alike <- MCAlike
  Within <- MCWithin
  Vouched = {t1, d1}
  Registrations <- MCRegistrations
  Evidences <- MCEvidences
  Includes <- MCIncludes
  Reviewer = {r1}
  Fanout = 2
  Learned = 1
  MaxPass = 2
  MaxDecision = 1
  MaxDeath = 1
  Absent = Absent
  r1 = r1
  a = a
  b = b
  o1 = o1
  acme = acme
  dba = dba
  solo = solo
  near = near
  john = john
  town = town
  t1 = t1
  t2 = t2
  d1 = d1
  a1 = a1
  olympia = olympia
  west = west
  tacoma = tacoma
  thurston = thurston
  roof = roof
SYMMETRY Symmetry
INVARIANTS
  WrittenOnce
  MailIsTheRow
  LinksWork
  WeeksTellOnce
  ChoicesWhole
PROPERTIES
  SureBinds
CHECK_DEADLOCK FALSE

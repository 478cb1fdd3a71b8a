SPECIFICATION MatchSpec
CONSTANTS
  Org = {o1}
  Name = {acme, other}
  Phone = {}
  Firms = 2
  OneWord = {}
  Person = {}
  Public = {}
  Alike <- MCAlike
  Within = {}
  Vouched = {}
  Registrations <- MCRegistrations
  Evidences <- MCEvidences
  Includes <- MCIncludes
  Reviewer = {}
  Fanout = 2
  Learned = 1
  MaxPass = 2
  MaxDecision = 0
  MaxDeath = 0
  Absent = Absent
  o1 = o1
  acme = acme
  other = other
  olympia = olympia
  thurston = thurston
  roof = roof
INVARIANTS
  FrozenEvidence
CHECK_DEADLOCK FALSE

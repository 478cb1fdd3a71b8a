SPECIFICATION NightSpec
CONSTANTS
  Record = {x, y, z}
  Canary = {}
  Authority <- OneCounty
  Number <- MCNumber
  Refs <- Nothing
  Parcels <- Nothing
  Address <- AtStreet
  Point <- AtPlace
  Orgs <- ByOwner
  Compatible = {}
  Generic = {}
  Stage <- MCTwice
  Limit = 2
  Batch = 1
  MaxProject = 4
  MaxReview = 7
  MaxVerdict = 1
  MaxFault = 0
  Null = Null
  x = x
  y = y
  z = z
  county = county
  city = city
  n1 = n1
  n2 = n2
  street = street
  place = place
  parcel = parcel
  owner = owner
  o1 = o1
  e1 = e1
  q2 = q2
  chain = chain
  q1 = q1
  Org = {o1}
  Entity = {e1}
  Offers <- MCOffers
  Licensed = {e1}
  Filed <- MCFiled
  Pair = {e1}
  Histories <- MCHistories
  Chain = chain
  Operator = {}
  Reviewer = {q1, q2}
  MaxEvidence = 2
  MaxDecision = 2
  MaxBreak = 1
  None = None
INVARIANTS
  AcceptedTakesEffect
PROPERTIES
  Settles
  HeldTwinReleased
  VerdictStands
  AcceptedGetsExported
CHECK_DEADLOCK FALSE

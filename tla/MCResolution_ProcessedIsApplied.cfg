SPECIFICATION ResolutionSpec
CONSTANTS
  Record = {x, y, z}
  Canary = {}
  Authority <- OneCounty
  Number <- MCNumber
  Refs <- Cites
  Parcels <- Nothing
  Address <- AtStreet
  Point <- AtPlace
  Orgs <- ByOwner
  Compatible = {}
  Generic = {}
  Stage <- MCTwice
  Limit = 2
  Batch = 1
  MaxProject = 4
  MaxReview = 5
  MaxVerdict = 0
  MaxFault = 0
  Null = Null
  x = x
  y = y
  z = z
  county = county
  city = city
  n1 = n1
  n2 = n2
  street = street
  place = place
  parcel = parcel
  owner = owner
INVARIANTS
  ProcessedIsApplied
CHECK_DEADLOCK FALSE

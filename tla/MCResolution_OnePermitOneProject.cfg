SPECIFICATION ResolutionSpec
CONSTANTS
  Record = {x, y, z}
  Canary = {}
  Authority <- OneCounty
  Number <- MCNumber
  Refs <- Nothing
  Parcels <- Nothing
  Address <- AtStreet
  Point <- Nowhere
  Orgs <- ByOwner
  Compatible = {}
  Generic = {}
  Stage <- MCTwice
  Limit = 3
  Batch = 3
  MaxProject = 4
  MaxReview = 5
  MaxVerdict = 1
  MaxFault = 0
  Null = Null
  x = x
  y = y
  z = z
  county = county
  city = city
  n1 = n1
  n2 = n2
  street = street
  place = place
  parcel = parcel
  owner = owner
INVARIANTS
  OnePermitOneProject
CHECK_DEADLOCK FALSE

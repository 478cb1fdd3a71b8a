SPECIFICATION IngestSpec
CONSTANTS
  Run = {r1, r2}
  Url = {u1}
  Content = {c1, c3}
  Permit = {p1}
  Solicitation = {}
  Version = {v1, v2}
  Fp = {f1, f2}
  MaxActive = 1
  Emits <- MCEmits
  Throws <- MCThrows
  Backed <- MCBacked
  None = None
  Bad = Bad
  p1 = p1
  s1 = s1
  c1 = c1
  c2 = c2
  c3 = c3
  v1 = v1
  v2 = v2
  f1 = f1
  f2 = f2
  a = a
  b = b
  w1 = w1
  w2 = w2
  Item = {a, b}
  Order <- MCOrder
  Worker = {w1, w2}
  Kinds = {"reports", "rows", "board"}
  MaxDate = 2
  MaxRevision = 2
  MaxChange = 2
  MaxFeedFault = 1
  Overlap = 1
  Lag = 1
  PageSize = 1
  Cap = 1
  Unset = Unset
  Null = Null
  rx = rx
  ry = ry
  rz = rz
  county = county
  city = city
  n1 = n1
  n2 = n2
  parcel = parcel
  owner = owner
  Record = {rx, ry, rz}
  Canary = {}
  Authority <- CityCounty
  Number <- Numbers
  Refs <- NoRefs
  Parcels <- OnParcel
  Address <- Nowhere
  Point <- Nowhere
  Orgs <- Owned
  Compatible = {}
  Generic = {}
  Stage <- Stages
  Limit = 2
  Batch = 1
  MaxProject = 4
  MaxReview = 6
  MaxVerdict = 1
  MaxFault = 1
INVARIANTS
  ReplayConverges
  NothingSkipped
  
  ApprovalStands
PROPERTIES
  ProjectsOnlyGrow
  FeedCatchesUp
CHECK_DEADLOCK FALSE

SPECIFICATION WatchSpec
CONSTANTS
  Kind = {"cli", "queue", "replay"}
  Outcome <- MCReports
  Schema = {h1, h2}
  Window = 5
  OrphanAfter = 0
  StaleAfter = 1
  FlowWindow = 1
  MaxRuns = 2
  MaxLive = 2
  MaxClock = 3
  None = None
  Failed = Failed
  Trouble = {bad}
  Account = {a1, a2}
  Chain = {c1, c2}
  Queued = c1
  MaxWaiting = 1
  MaxFault = 1
  bad = bad
  c1 = c1
  c2 = c2
  a1 = a1
  a2 = a2
  h1 = h1
  h2 = h2
INVARIANTS
  LedgerTellsTruth
  FreshnessIsEarned
  NoneTwiceNoneMissed
PROPERTIES
  LedgerLifecycle
  DeadFeedAnnounced
  DeadRunsClosed
  Announced
CHECK_DEADLOCK FALSE

SPECIFICATION FairSpec
CONSTANTS
  Name = {alice, net}
  Excluded = {}
  Included = {}
  Seen = {net}
  Network = {net}
  IncludeAll = TRUE
  SlowJobs = FALSE
  MaxJobs = 1
  MaxSessions = 1
  MaxSignals = 1
  MaxChanges = 2
  alice = alice
  net = net
INVARIANTS TypeOK NobodyWaits
PROPERTIES Loads FileFollowed
CHECK_DEADLOCK FALSE

\* A service with everything a service can have, and a plain one with a dependent.
SPECIFICATION PartFairSpec
CONSTANTS
  solo = solo
  db = db
  web = web
  Services = {solo, db, web}
  Parts = {{solo}, {db, web}}
  After <- MCAfter
  Gated = {solo}
  Continuous = {solo}
  Probed = {solo}
  Watched = {solo}
  MaxRestarts = 2
  Cgroup = TRUE
INVARIANTS
  ServiceInv
PROPERTIES
  AskedExitsAreFree
  ParkedRevives
  ClosedGateStops
CHECK_DEADLOCK FALSE

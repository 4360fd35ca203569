\* One continuously gated and watched service: the bounce flag outlives its
\* incarnation.
SPECIFICATION PartSpec
CONSTANTS
  solo = solo
  db = db
  web = web
  Services = {solo}
  Parts = {{solo}}
  After <- MCAfter
  Gated = {solo}
  Continuous = {solo}
  Probed = {}
  Watched = {solo}
  MaxRestarts = 1
  Cgroup = TRUE
PROPERTIES
  FatalCrashFails
CHECK_DEADLOCK FALSE

\* A dependency and its dependent, shut down at any point.
SPECIFICATION SupFairSpec
CONSTANTS
  db = db
  web = web
  Services = {db, web}
  After <- MCAfter
  Gated = {}
  Continuous = {}
  Probed = {db}
  Watched = {}
  MaxRestarts = 0
  Cgroup = TRUE
INVARIANTS
  DependenciesWereReady
  NoOrphan
  GraceEndsBeforeDependencies
  ExitCodeTellsFailure
PROPERTIES
  ShutdownCompletes
CHECK_DEADLOCK FALSE

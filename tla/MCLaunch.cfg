\* A watcher and a run loop that refreshes; an extends chain of three files; batches of
\* three ports out of three; one supervisor that copies three releases; two watched
\* paths; two calls of functions that fork; three pinned services, one with a second
\* resolver, a continuous gate and a watched path.
SPECIFICATION Spec
CONSTANTS
  watcher = watcher
  loop1 = loop1
  Loops = {loop1}
  Watchers = {watcher}
  Recheck = 2
  Timeout = 1
  CloseAfter = 2
  f1 = f1
  f2 = f2
  f3 = f3
  ConfigFiles = {f1, f2, f3}
  TopFile = f1
  TopKeys = {"services"}
  SubKeys = {"a", "b"}
  Leaves = {1}
  SvcNames = {1, 2, 3}
  BinNames = {"x", "y"}
  PortNumbers = {1, 2, 3}
  Families <- MCFamilies
  Wants <- MCWants
  BatchSize = 3
  AutoAttempts = 2
  MaxForeign = 2
  p = p
  CacheProcs = {p}
  MaxReleases = 4
  MaxAging = 2
  MaxCacheCrash = 2
  NoFile = NoFile
  WatchedPaths = {1, 2}
  MaxEdits = 4
  c1 = c1
  c2 = c2
  Calls = {c1, c2}
  api = api
  harness = harness
  worker = worker
  Services = {api, harness, worker}
  Slow = {worker}
  Gated = {worker}
  Watched = {worker}
  MaxGen = 3
INVARIANTS
  StreakCountsRuns
  MergedIsNearest
  OrderRespectsAfter
  BatchHolds
  HitIsCurrent
  SplitOnlyIfOvertaken
  RecordedUnlessOvertaken
PROPERTIES
  AnswersAreCurrent
  DownCloses
  LoadEnds
  ActiveNeverExpires
  RebuildsNoticed
  AnsweredTruly
  BouncedOnlyIfOutdated
CHECK_DEADLOCK FALSE

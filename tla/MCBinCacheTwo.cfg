\* Two supervisors copy the same source around a release.
SPECIFICATION CacheSpec
CONSTANTS
  p = p
  q = q
  CacheProcs = {p, q}
  MaxReleases = 2
  MaxAging = 0
  MaxCacheCrash = 0
  NoFile = NoFile
INVARIANT
  HitIsCurrent

\* One issue, and writes faster than the clock.
SPECIFICATION TrackerSpec
CONSTANTS
  Scalars = {"status"}
  Elements = {}
  Texts = {"t"}
  PageSize = 1
  MaxIssues = 1
  MaxWrites = 12
  MaxNow = 0
  MaxMasked = 0
PROPERTY
  EveryChangeShows

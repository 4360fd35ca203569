\* Each module on its own instance; see the modules for what the constants stand for.
SPECIFICATION Spec
CONSTANTS
  x = x
  y = y
  ChatKeys = {"k"}
  ChatTexts = {"a", "b"}
  ChatPageSize = 1
  ChatWrites = 2
  NoOne = NoOne
  Scalars = {"status"}
  Elements = {"e"}
  Texts = {x, y}
  PageSize = 1
  MaxIssues = 2
  MaxWrites = 3
  MaxNow = 1
  MaxMasked = 2
  MailKeys = {"k1", "k2"}
  MailBodies = {x, y}
  MailFails = {"", "422"}
  MailDomains = {"", "corp"}
  MaxRecipients = 2
  MaxCrashes = 2
  None = None
  Torn = Torn
  SqlProcs = {x, y}
  SqlLists <- MCLists
  SelfEnding = {"m3"}
  MaxBatches = 1
  MaxBatchLen = 2
  MaxSqlCrashes = 1
  NoTxn = NoTxn
  ProxyRequests = {x, y}
  Users = {x, y}
  Inodes = {1, 2}
  Absent = Absent
  KnownModules = {1, 2, 3}
  UnknownModule = 9
  WithListener = {2}
  MaxBoots = 3
SYMMETRY Symmetry
INVARIANTS
  ChatTablesAgree
  QuotesWhatWasRead
  ListSeesAll
  TrackerConsistent
  PagesComplete
  SqlDurable
  RelaysTruly
  ScratchByIdentity
  BootsAndUnwinds
PROPERTIES
  ModifiedTells
  ChatSteps
  DeliversOnce
CHECK_DEADLOCK FALSE

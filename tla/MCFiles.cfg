\* Three processes one after the other or at once, kills at any time; two requests at
\* a time on two paths.
SPECIFICATION FilesSpec
CONSTANTS
  p1 = p1
  p2 = p2
  Pids = {p1, p2}
  MaxTicks = 3
  None = None
  Empty = Empty
  Torn = Torn
  t1 = t1
  t2 = t2
  a = a
  b = b
  x = x
  y = y
  m644 = m644
  m666 = m666
  Threads = {t1, t2}
  Paths = {a, b}
  Contents = {x, y}
  Modes = {m644, m666}
  Umask <- MCUmask
  Mode0666 = m666
  Private = m644
  NoFile = NoFile
  Partial = Partial
SYMMETRY Symmetry
INVARIANTS
  NoImpersonation
  OneSupervisor
  RegistryInv
  LocalInv
PROPERTIES
  Implements
CHECK_DEADLOCK FALSE

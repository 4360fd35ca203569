\* One spool file, a file that cannot be read at a start, two starts.
SPECIFICATION MailSpec
CONSTANTS
  MailKeys = {k1, k2}
  MailBodies = {x, y}
  MailFails = {"", "422"}
  MailDomains = {"", "corp"}
  MaxRecipients = 2
  MaxCrashes = 2
  None = None
  Torn = Torn
INVARIANT
  DedupSurvives
CHECK_DEADLOCK FALSE

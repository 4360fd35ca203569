\* One request whose client hangs up; the upstream takes its time.
SPECIFICATION LlmFairSpec
CONSTANT
  ProxyRequests = {r}
PROPERTY
  DisconnectCancels
CHECK_DEADLOCK FALSE

\* Two pinned services, one with a second resolver, and no gate.
SPECIFICATION PinSpec
CONSTANTS
  Services = {api, harness}
  Slow = {harness}
  Gated = {}
  Watched = {}
  MaxGen = 3
INVARIANT
  NeverSplit

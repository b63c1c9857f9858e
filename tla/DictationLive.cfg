SPECIFICATION FairSpec
CONSTANTS
  HoldKeys = {h1}
  ToggleKeys = {}
  ComposeKeys = {h1}
  Caps = {}
  Probes = {s1}
  Pipes = {p1}
  Recoveries = {r1}
  Callers = {h1, s1, p1}
  None = None
PROPERTIES
  ReturnsToIdle

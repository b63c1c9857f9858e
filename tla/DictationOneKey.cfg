SPECIFICATION Spec
CONSTANTS
  HoldKeys = {h1}
  ToggleKeys = {}
  ComposeKeys = {h1}
  Caps = {}
  Probes = {s1, s2}
  Pipes = {p1, p2}
  Recoveries = {r1, r2}
  Callers = {h1, s1, s2, p1, p2}
  None = None
INVARIANTS
  CaptureHasOneStopper
  BusyIsAccountedFor
  IdleIsQuiet
  ComposeHasItsProbe
  
SYMMETRY PoolSymmetry

SPECIFICATION EagerSpec
CONSTANTS
  HoldKeys = {}
  ToggleKeys = {t1}
  ComposeKeys = {}
  Caps = {c1}
  Probes = {}
  Pipes = {p1}
  Recoveries = {r1}
  Callers = {t1, c1, p1}
  None = None
PROPERTIES
  CaptureEnds

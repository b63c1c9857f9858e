SPECIFICATION Spec
CONSTANTS
  HoldKeys = {h1}
  ToggleKeys = {t1}
  ComposeKeys = {}
  Caps = {c1, c2}
  Probes = {}
  Pipes = {p1}
  Recoveries = {r1}
  Callers = {h1, t1, c1, c2, p1}
  None = None
INVARIANTS PipelineTakesOwnAudio NoRivalStoppers
SYMMETRY PoolSymmetry
VIEW NoFileView

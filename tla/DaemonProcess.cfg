CONSTANTS
  Daemons = {d1, d2, d3}
  Pids = {n1, n2, n3}
  None = None
  Empty = Empty
  TwoAtOnce = FALSE
  Reuse = FALSE
SPECIFICATION Spec
CHECK_DEADLOCK FALSE
INVARIANTS OneDaemon FilesTellWhoServes
PROPERTY RefusalMeansDaemon
SYMMETRY LaunchSymmetry

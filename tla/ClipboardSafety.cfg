CONSTANTS
  Pastes = {p1, p2}
  Probes = {s1, s2}
  MaxRunning = 1
  MaxCopies = 2
  Slow = FALSE
SPECIFICATION Spec
CHECK_DEADLOCK FALSE
INVARIANTS UserGetsClipboardBack PasteInsertsText AnswerIsSelection
SYMMETRY CallSymmetry

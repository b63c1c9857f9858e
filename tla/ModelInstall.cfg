CONSTANTS
  Ids = {"openai", "local-llm", "speech", "text"}
  SpeechModels = {w1}
  ChatModels = {c1}
  Shipped = shipped
  Combos = {k1, k2}
  Mics = {m1, m2}
  Terminals = {t1}
  MaxCommands = 5
  Tracked = w1
  Files = {f1, f2}
  None = None
  Size = 2
SPECIFICATION InstallSpec
CHECK_DEADLOCK FALSE
INVARIANTS RegisteredIsComplete
PROPERTIES ValidStaysValid NothingLost
SYMMETRY FileSymmetry

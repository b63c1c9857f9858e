SPECIFICATION FairSpec
CONSTANTS
  Users = {u1, u2}
  Names = {n1}
  Instances = {i1, i2, i3}
  Callbacks = {g1, g2}
  UnloadAfter = 1
  NoInstance = NoInstance
  NoName = NoName
INVARIANTS HeldIsResident IdleIsScheduled ModelsAreOwned
PROPERTIES ImplementsModelLease IdleModelsGo

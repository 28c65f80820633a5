\* Two clients, every setting below, at and above its bound.
CONSTANTS
  Clients = {c1, c2}
  Values <- MCValues
SPECIFICATION FairSpec
INVARIANTS
  LifecycleTypeOK
  ServesReady
  CutOnlyLate
PROPERTIES
  SignalEnds

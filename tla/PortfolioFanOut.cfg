\* One request over two wallets and two networks, whose tasks share two slots, under
\* fairness.
CONSTANTS
  Requests = {r1}
  Wallets = {w1, w2}
  Networks <- MCNetworks
  Items <- MCItems
  Outcomes <- MCOutcomes
  MaxRoutines = 2
SPECIFICATION FairSpec
INVARIANTS
  TypeOK
  SlotsBounded
  TotalsAddUp
  ResultsFit
PROPERTIES
  NoLateWrites
  EveryRequestAnswered

\* Two requests at once over one wallet and two networks, one slot each.
CONSTANTS
  Requests = {r1, r2}
  Wallets = {w1}
  Networks <- MCNetworks
  Items <- MCItems
  Outcomes <- MCFewOutcomes
  MaxRoutines = 1
SPECIFICATION Spec
INVARIANTS
  GlobalFetchLimit

\* Two requests over one wallet and one network.
CONSTANTS
  Requests = {r1, r2}
  Wallets = {w1}
  Networks <- MCOneNetwork
  Items <- MCItems
  Outcomes <- MCOutcomes
  MaxRoutines = 1
SPECIFICATION Spec
PROPERTIES
  FailedListOfLastFetch

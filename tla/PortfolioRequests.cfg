\* Two requests at once over two wallets and one network, one slot each.
CONSTANTS
  Requests = {r1, r2}
  Wallets = {w1, w2}
  Networks <- MCOneNetwork
  Items <- MCItems
  Outcomes <- MCFewOutcomes
  MaxRoutines = 1
SYMMETRY Symmetry
SPECIFICATION Spec
INVARIANTS
  QuietWhenAnswered
PROPERTIES
  Implements

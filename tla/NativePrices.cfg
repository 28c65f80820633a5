\* Two wallets, of one request or of two, over four networks.
CONSTANTS
  Jobs = {j1, j2}
  Networks <- MCNetworks
  EthNetworks <- MCEthNetworks
  Wrapped <- MCWrapped
SYMMETRY JobSymmetry
SPECIFICATION Spec
INVARIANTS
  PricesTypeOK
  OneWritePerWallet
  RightPrice
PROPERTIES
  KnownForAll

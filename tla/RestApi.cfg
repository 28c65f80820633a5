\* Two requests of every kind while the files change.
CONSTANTS
  Wallets <- MCWallets
  Addresses <- MCAddresses
  WalletOf <- MCWalletOf
  NoWallet = "none"
  Names <- MCNames
  Blank = ""
  Lower <- MCLower
  ActiveNets <- MCActive
  CfgNetworks <- MCCfg
  Clients = {c1, c2}
  Requests <- MCRequests
SPECIFICATION Spec
SYMMETRY ClientSymmetry
INVARIANTS
  ApiTypeOK
  MessageTells
  FilterKept
PROPERTY ToldThenListed

\* A request for a network that does not exist.
CONSTANTS
  Wallets <- MCWallets
  Addresses <- MCAddresses
  WalletOf <- MCWalletOf
  NoWallet = "none"
  Names <- MCNames
  Blank = ""
  Lower <- MCLower
  ActiveNets <- MCActive
  CfgNetworks <- MCCfg
  Clients = {c1}
  Requests <- MCRequests
SPECIFICATION Spec
INVARIANT UnknownNetworkIs404

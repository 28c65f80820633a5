\* Two wallets on one network, every reply to every item.  Amounts with floats of
\* six and four bits instead of 64 and 53.
CONSTANTS
  Wallets = {w1, w2}
  NoWallet = NoWallet
  Files <- MCFiles
  Chain <- MCChain
  FloatBits = 6
  DoubleBits = 4
  MaxAmount = 300
  Decimals = {0, 1, 2}
  Prices = {1, 3, 7}
SPECIFICATION Spec
INVARIANTS
  FetchTypeOK
  EveryItemTold
  OwnBalances
  AmountsNear

\* Three calls for two networks, under fairness.
CONSTANTS
  Callers = {c1, c2, c3}
  Networks <- MCNetworks
  NoClient = NoClient
  DialError = DialError
  Urls <- MCUrls
SPECIFICATION ProviderFairSpec
INVARIANTS
  ProviderTypeOK
  SameClient
PROPERTIES
  Atomic
  EveryCallReturns

\* The price load and one request, over every edit of the files.
CONSTANTS
  Known <- AllKnownDefinitions
  Names <- MCNames
  Contents <- MCContents
  Absent = Absent
  Broken = Broken
  WalletFiles <- MCWalletFiles
  Load = load
  Requests = {r1}
  MaxEdits = 2
\* Nothing is left to do when the request has its files and the edits are made.
CHECK_DEADLOCK FALSE
SPECIFICATION Spec
INVARIANTS
  FilesTypeOK
  OwnTokens
  SteadyFilesWhole
  PricedUnlessEdited
  ListedIsFound

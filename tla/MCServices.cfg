SPECIFICATION Spec
CONSTANTS
  Targets = {"F767", "C092"}
  Default <- MCDefault
  PercentMax = 2
  Values = {2, 3}
  Writable = {"vin"}
  ReadOnly = {"bootSw"}
  Regions <- MCRegions
  AddrEnd = 6
  MaxAccess = 2
  ChallengeMod = 2
  Rates = {"125k", "500k"}
  DefaultRate = "500k"
  MaxChanges = 4
INVARIANT TypeOK
INVARIANT OutputsAccounted
INVARIANT ProofAcceptedOnce
PROPERTY MemoryGuarded

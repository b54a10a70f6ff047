SPECIFICATION FairSpec
CONSTANTS
  Levels = {1, 2}
  MaxAttempts = 3
  LockoutMs = 3
  SeedTimeout = 2
  MaxFaults = 2
  Persistent = TRUE
  S3Timeout = 4
  S3Mod = 8
INVARIANT TypeOK
INVARIANT GateConsistent
INVARIANT AccessNeedsSession
INVARIANT AttemptsBounded
INVARIANT LockoutServed
PROPERTY UnlockEarned
PROPERTY LockoutEnds

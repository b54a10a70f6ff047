SPECIFICATION Spec
CONSTANTS
  Targets = {"F767", "C092"}
  Journals = {TRUE, FALSE}
  Versions = {1, 2}
  PageCells = 2
  SlotCells = 2
  ImageCells = 2
  AddrMod = 8
  BlockMod = 2
  Requests <- MCRequests
  S3Timeout = 1
  S3Mod = 2
INVARIANT TypeOK
INVARIANT BlocksAgree
INVARIANT TrialBounded
PROPERTY StaysInSlotB
PROPERTY ExitMeansStored
PROPERTY NoDowngrade

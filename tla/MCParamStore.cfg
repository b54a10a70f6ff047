SPECIFICATION Spec
CONSTANTS
  Values = {a, b}
  None = None
  SectorCount = 2
  SlotsPerSector = 2
  SeqMod = 10
INVARIANT TypeOK
INVARIANT LoadAgreesWithReboot
PROPERTY RegisterSpec

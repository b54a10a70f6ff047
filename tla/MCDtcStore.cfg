SPECIFICATION Spec
CONSTANTS
  Base = Base
  Plain = Plain
  Dyn1 = Dyn1
  Dyn2 = Dyn2
  StaticOrder <- MCStaticOrder
  Baseline = {Base}
  OtherDtcs = {Dyn1, Dyn2}
  Group <- MCGroup
  MaxDynamic = 1
  MaxSnapshots = 2
  FdcMin <- MCFdcMin
  FdcMax = 3
  FdcStep = 2
  AgingLimit = 2
  CounterMax = 2
  RomFault <- MCRomFault
  ExtValues = {2}
  Faults <- MCFaults
  MaxOps = 2
  MaxReports = 5
  MaxFailures = 1
INVARIANT TypeOK
INVARIANT RestartAgrees
INVARIANT FailedIsListed
PROPERTY ConfirmedAgesOut
PROPERTY SettingOffFreezes
SYMMETRY MCSymmetry

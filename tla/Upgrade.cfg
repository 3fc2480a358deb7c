SPECIFICATION Spec
CONSTANTS
  Boot <- MCBoot
  Primary <- MCPrimary
  Backup <- MCBackup
  Bins <- MCBins
  Volumes <- MCVolumes
  Keys <- MCKeys
  PitOf <- MCPitOf
  StatusFirst = TRUE
  MaxUpg = 2
  MaxCut = 2
  MaxFail = 1
INVARIANTS
  TypeOK
  SucWhole
  PitReadable
  KeysSafe
PROPERTIES
  FeBackupLast
  UpgradeReturns
CHECK_DEADLOCK FALSE

SPECIFICATION Spec
CONSTANTS
  Boot <- MCBoot
  Primary <- MCPrimary
  Backup <- MCBackup
  Bins <- MCBins
  Volumes <- MCVolumes
  Keys <- MCKeys
  PitOf <- MCPitOf
  StatusFirst = TRUE
  MaxUpg = 2
  MaxCut = 0
  MaxFail = 1
INVARIANT KeysWrittenBack
CHECK_DEADLOCK FALSE

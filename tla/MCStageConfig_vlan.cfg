SPECIFICATION Spec
CONSTANTS
  none = none
  torn = torn
  failed = failed
  accounts = accounts
  r1 = r1
  r2 = r2
  Nobody = none
  Torn = torn
  NoTmp = none
  Failed = failed
  Req = {r1, r2}
  Atoi <- Numerals
  Parts <- Nics
  WellFormed <- Patterns
  Edits <- Spelled
  Presets <- PresetTable
  InitConfig <- Image
  InitOther <- Packages
  Uploads <- OwnBackup
  Budget <- One
INVARIANT SubinterfacesApart
\* A budget ends every run.
SYMMETRY Symmetry
CHECK_DEADLOCK FALSE

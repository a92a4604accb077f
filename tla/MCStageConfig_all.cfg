SPECIFICATION Spec
CONSTANTS
  none = none
  torn = torn
  failed = failed
  accounts = accounts
  r1 = r1
  r2 = r2
  Nobody = none
  Torn = torn
  NoTmp = none
  Failed = failed
  Req = {r1, r2}
  Atoi <- Numerals
  Parts <- Nics
  WellFormed <- Patterns
  Edits <- Bodies
  Presets <- PresetTable
  InitConfig <- Image
  InitOther <- Packages
  Uploads <- Backups
  Budget <- Few
INVARIANT TypeOK
INVARIANT ReadsWhole
INVARIANT BindingsBound
INVARIANT VlansApart
INVARIANT MgmtReachable
INVARIANT SyslogAdmitted
INVARIANT FilesAgree
INVARIANT MutexReleased
PROPERTY AnsweredSurvives
PROPERTY EditsSerialize
PROPERTY RestoreAllOrNothing
\* A budget ends every run.
SYMMETRY Symmetry
CHECK_DEADLOCK FALSE

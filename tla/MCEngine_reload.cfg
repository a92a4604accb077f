SPECIFICATION Spec
CONSTANTS
  p1 = p1
  p2 = p2
  none = none
  Absent = none
  Proc = {p1}
  MergedFile <- Merged
  OwnedFile <- Owned
  Conf <- RsyslogConf
  Rank <- FileRank
  Service <- Services
  Section <- Sections
  Key <- Keys
  KeyOf <- Keying
  BlockKey = "block"
  Cfg <- Cfgs
  Avail <- OneNic
  Render <- RenderFor
  Legacy <- LegacyFor
  InitFiles <- Installed
  RawSection <- NoRaw
  Budget <- ReloadBudget
INVARIANT SettledRuntime
PROPERTY ImplementsStore
\* When all commands have ended and the budget is spent, nothing is left to do.
CHECK_DEADLOCK FALSE

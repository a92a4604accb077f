SPECIFICATION Spec
CONSTANTS
  p1 = p1
  p2 = p2
  none = none
  Absent = none
  Proc = {p1, p2}
  MergedFile <- Merged
  OwnedFile <- Owned
  Conf <- RsyslogConf
  Rank <- FileRank
  Service <- Services
  Section <- Sections
  Key <- Keys
  KeyOf <- Keying
  BlockKey = "block"
  Cfg <- TwoCfgs
  Avail <- Nics
  Render <- RenderFor
  Legacy <- LegacyFor
  InitFiles <- Installed
  RawSection <- Raw
  Budget <- CrashBudget
INVARIANT UserSectionsSurvive
\* When all commands have ended and the budget is spent, nothing is left to do.
CHECK_DEADLOCK FALSE

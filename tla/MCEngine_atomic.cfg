SPECIFICATION Spec
CONSTANTS
  p1 = p1
  p2 = p2
  none = none
  Absent = none
  Proc = {p1, p2}
  MergedFile <- Merged
  OwnedFile <- Owned
  Conf <- RsyslogConf
  Rank <- FileRank
  Service <- Services
  Section <- Sections
  Key <- Keys
  KeyOf <- Keying
  BlockKey = "block"
  Cfg <- TwoCfgs
  Avail <- OneNic
  Render <- RenderFor
  Legacy <- LegacyFor
  InitFiles <- Installed
  RawSection <- NoRaw
  Budget <- AtomicBudget
INVARIANT TypeOK
INVARIANT LastGoodIsOneSnapshot
INVARIANT OwnedFilesWhole
PROPERTY ApplyConverges
PROPERTY CommandsAdvance
PROPERTY ImplementsStore
\* When all commands have ended and the budget is spent, nothing is left to do.
CHECK_DEADLOCK FALSE

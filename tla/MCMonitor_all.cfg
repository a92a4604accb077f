SPECIFICATION FairSpec
CONSTANTS
  c1 = c1
  None = none
  Client = {c1}
  Bridge = {"br_a"}
  Frames <- Seen
  Word = 16
  MaxHist = 2
  Budget <- Few
INVARIANT TypeOK
INVARIANT HistoryInOrder
INVARIANT CpuInRange
INVARIANT SocketsOwned
INVARIANT ClosedAfterLoop
INVARIANT HeardAll
INVARIANT GrandmasterAnnounced
INVARIANT StreamsForward
PROPERTY StopReturns
\* A budget ends every run.
CHECK_DEADLOCK FALSE

SPECIFICATION Spec
CONSTANTS
  none = none
  r1 = r1
  r2 = r2
  ip1 = ip1
  ip2 = ip2
  ip3 = ip3
  Absent = none
  Req = {r1, r2}
  Name <- Names
  Admin = "admin"
  Password <- Passwords2
  IP <- Addresses
  MaxFails = 1
  Cap = 2
  InitUsers <- Files
  Uploads <- Backups
  Budget <- FewFailures
INVARIANT TypeOK
INVARIANT MutexReleased
INVARIANT StaleSessionsEnd
INVARIANT LimiterBounded
 
PROPERTY LimitHolds
\* A budget ends every run.
SYMMETRY Symmetry
CHECK_DEADLOCK FALSE

SPECIFICATION Spec
CONSTANTS
  none = none
  r1 = r1
  r2 = r2
  ip1 = ip1
  ip2 = ip2
  ip3 = ip3
  Absent = none
  Req = {r1, r2}
  Name <- Names
  Admin = "admin"
  Password <- Passwords2
  IP <- Addresses
  MaxFails = 1
  Cap = 2
  InitUsers <- SetUpFiles
  Uploads <- Backups
  Budget <- OnlyRequests
INVARIANT SessionsCurrent
CHECK_DEADLOCK FALSE

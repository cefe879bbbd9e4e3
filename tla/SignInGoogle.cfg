\* Two callbacks of the same new Google account.
SPECIFICATION FairSpec
CONSTANTS
  Users = {u1}
  Codes = {c1}
  Threads = {}
  Callbacks = {g1, g2}
  ActionLife = 0
  ResetLife = 1
  VerifyLife = 2
  Nothing = Nothing
  MaxTime = 0
  MaxCodes = 0
  MaxFaults = 0
PROPERTIES CallbackAnswered
CHECK_DEADLOCK FALSE

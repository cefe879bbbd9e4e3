\* Two users, two codes that may collide, two threads that confirm actions and two
\* Google callbacks.
SPECIFICATION Spec
CONSTANTS
  Users = {u1, u2}
  Codes = {c1, c2}
  Threads = {t1, t2}
  Callbacks = {g1, g2}
  ActionLife = 0
  ResetLife = 1
  VerifyLife = 2
  Nothing = Nothing
  MaxTime = 1
  MaxCodes = 2
  MaxFaults = 1
INVARIANTS TypeOK WorksForReaders NewestWorks
PROPERTIES VerifiedByProof
CHECK_DEADLOCK FALSE

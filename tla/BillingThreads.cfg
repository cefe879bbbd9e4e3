\* Two sessions interleaved: requests, the worker and the daily jobs.
SPECIFICATION FairSpec
CONSTANTS
  Slots = {s1, s2}
  Plans = {"starter"}
  Starter = "starter"
  Minimum <- MCOneMinimum
  MonthlyFee <- MCOneMonthlyFee
  Fee = 1
  Refs = {"r1"}
  TopupAmount <- MCTopups
  Usages = {"u1"}
  TrialDays = 1
  GraceDays = 1
  MonthDays = 2
  Nothing = Nothing
  MaxDay = 3
  MaxSubscribes = 2
  MaxVerifies = 3
  MaxCrashes = 0
INVARIANTS WalletNeverNegative TopupByWaiting
PROPERTIES GraceOverEnds
CHECK_DEADLOCK FALSE

\* One session at a time, process crashes between any two steps.
SPECIFICATION Spec
CONSTANTS
  Slots = {s1}
  Plans = {"starter", "pro"}
  Starter = "starter"
  Minimum <- MCMinimum
  MonthlyFee <- MCMonthlyFee
  Fee = 1
  Refs = {"r1"}
  TopupAmount <- MCTopups
  Usages = {"u1", "u2"}
  TrialDays = 1
  GraceDays = 1
  MonthDays = 2
  Nothing = Nothing
  MaxDay = 4
  MaxSubscribes = 3
  MaxVerifies = 2
  MaxCrashes = 1
INVARIANTS TypeOK BalanceExplained UsageIsInvoiced
PROPERTIES FullGrace
CHECK_DEADLOCK FALSE

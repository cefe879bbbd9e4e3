\* The user's return from Paystack and Paystack's webhook, for one payment.
SPECIFICATION Spec
CONSTANTS
  Slots = {s1, s2}
  Plans = {"starter"}
  Starter = "starter"
  Minimum <- MCOneMinimum
  MonthlyFee <- MCOneMonthlyFee
  Fee = 1
  Refs = {"r1"}
  TopupAmount <- MCTopups
  Usages = {"u1"}
  TrialDays = 1
  GraceDays = 1
  MonthDays = 2
  Nothing = Nothing
  MaxDay = 3
  MaxSubscribes = 2
  MaxVerifies = 2
  MaxCrashes = 0
INVARIANTS TopupOnce
CHECK_DEADLOCK FALSE

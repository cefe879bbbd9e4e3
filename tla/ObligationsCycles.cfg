\* One recurring series of one payer over three days, with requests, payments,
\* crashes and failed publishes.
SPECIFICATION FairSpec
CONSTANTS
  Days <- MCDays
  DayOf <- MCDayOf
  LengthOf <- MCLengthOf
  Week = 2
  DefaultInterval = 2
  Nothing = Nothing
  Payers = {"p1"}
  Series <- MCSeries
  Owner <- MCOwner
  Plans <- MCPlans
  Rent <- MCRent
  Rate = 1
  Amounts = {2}
  Dates <- MCDates
  PageSize = 1
  Ahead = 1
  Behind = 1
  MaxDay = 2
  ReminderDays = {1}
  MaxRequests = 1
  MaxPayments = 1
  MaxFaults = 1
  MaxObligations = 3
INVARIANTS TypeOK DebtExplained RolledOnce PeriodsAdvance RemindedOnce
PROPERTIES DueIsRolled NewestIsTold
CHECK_DEADLOCK FALSE

\* Retried webhooks and a manual entry of its own, with process crashes and
\* failed publishes: every payment is credited at most once.
SPECIFICATION Spec
CONSTANTS
  Payments = {"p1", "p2", "p3"}
  Callbacks = {"c1", "c2"}
  Manuals = {"m2"}
  PaymentOf <- MCApartPaymentOf
  RefOf <- MCApartRefOf
  EmptyRef = ""
  NullRef = "null"
  Workers = {w1, w2}
  MaxCrashes = 2
  MaxReconnects = 0
  MaxFailures = 1
INVARIANTS TypeOK CountedOnce StatusTellsAllocation
PROPERTIES ClosedStays CreditsOnce
CHECK_DEADLOCK FALSE

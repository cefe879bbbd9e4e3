\* A crash, a lost connection and a failed publish: what the queue accepts is still
\* stored; when nothing fails it is reconciled and its payer is told.
SPECIFICATION FairSpec
CONSTANTS
  Payments = {"p1", "p2", "p3"}
  Callbacks = {"c1", "c2"}
  Manuals = {}
  PaymentOf <- MCTwicePaymentOf
  RefOf <- MCTwiceRefOf
  EmptyRef = ""
  NullRef = "null"
  Workers = {w1, w2}
  MaxCrashes = 1
  MaxReconnects = 1
  MaxFailures = 1
PROPERTIES QueuedIsStored QueuedIsReconciled MatchedIsNotified
CHECK_DEADLOCK FALSE

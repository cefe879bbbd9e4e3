\* Two payments of one obligation, reconciled at the same time.
SPECIFICATION Spec
CONSTANTS
  Txns = {"t1", "t2"}
  Obs = {"o1"}
  Payers = {"p1"}
  Slots = {s1, s2}
  Nothing = Nothing
  Amount <- MCAmount
  Due <- MCOneDue
  PayerOf <- MCOnePayerOf
  Rank <- MCOneRank
  Existing = {"o1"}
  Legacy <- MCNoLegacy
  RoutesTo <- MCOnlyPayer
  Targets = {}
  MaxMatches = 0
  MaxRepeats = 0
  MaxCrashes = 0
INVARIANTS AllocatedIsPaid
CHECK_DEADLOCK FALSE

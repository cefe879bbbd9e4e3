\* One session at a time, crashes between any two steps.
SPECIFICATION FairSpec
CONSTANTS
  Txns = {"t1", "t2"}
  Obs = {"o1", "o2"}
  Payers = {"p1"}
  Slots = {s1}
  Nothing = Nothing
  Amount <- MCAmount
  Due <- MCDue
  PayerOf <- MCPayerOf
  Rank <- MCRank
  Existing = {"o1"}
  Legacy <- MCLegacy
  RoutesTo <- MCRoutesTo
  Targets = {"o1", "o2", "cp", Nothing}
  MaxMatches = 2
  MaxRepeats = 1
  MaxCrashes = 1
INVARIANTS TypeOK MoneyConserved MatchIsAllocated BooksAgree
PROPERTIES PaidLeavesWithAllocation MatchIsMade
CHECK_DEADLOCK FALSE

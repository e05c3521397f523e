\* What the documentation of ?status=PAID says, which the default scope contradicts.
SPECIFICATION Spec
CONSTANTS
  Expenses = {1}
  Payments = {p1}
  Categories = {"RENT"}
  Share <- MCShare
  Amounts <- MCAmounts
  Revenues = {0, 1}
  CardSums <- MCCardSums
  Instants = {0}
  DueDates = {1, 2}
  LastDay = 2
  Absent = Absent
  None = None
INVARIANT PaidAreListed

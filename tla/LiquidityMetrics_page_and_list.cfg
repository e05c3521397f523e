\* Page and list show the same numbers, which they do not of paid and overdue expenses.
SPECIFICATION Spec
CONSTANTS
  Expenses = {1}
  Payments = {p1}
  Categories = {"RENT"}
  Share <- MCShare
  Amounts <- MCAmounts
  Revenues = {0, 1}
  CardSums <- MCCardSums
  Instants = {0}
  DueDates = {1, 2}
  LastDay = 2
  Absent = Absent
  None = None
INVARIANT PageIsList

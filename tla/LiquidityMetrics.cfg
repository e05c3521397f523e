\* Two open expenses of two categories, which may be created at one instant, one staged
\* payment, three days.
SPECIFICATION Spec
CONSTANTS
  Expenses = {1, 2}
  Payments = {p1}
  Categories = {"RENT", "SALARY"}
  Share <- MCShare
  Amounts <- MCAmounts
  Revenues = {0, 1}
  CardSums <- MCCardSums
  Instants = {0, 1}
  DueDates = {1, 2}
  LastDay = 2
  Absent = Absent
  None = None
INVARIANT PagesAgree
PROPERTIES PayingKeepsDownstream WaitingNeverHelps

SPECIFICATION Spec
CONSTANTS
  Expenses = {e1}
  Checks = {c1}
  Transactions = {t1, t2}
  Workers = {w1}
  Categories = {"RENT"}
  Amounts = {1}
  CardAmounts = {1}
  StatusInputs = {}
  LinkInputs = {}
  LastDay = 0
  Endpoints = {"create", "confirm", "deposit"}
  Crashes = TRUE
  Absent = Absent
  Idle = Idle
  None = None
SYMMETRY Symmetry
INVARIANT PaidIffDeducted
CHECK_DEADLOCK FALSE

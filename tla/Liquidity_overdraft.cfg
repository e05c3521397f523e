SPECIFICATION Spec
CONSTANTS
  Expenses = {e1, e2}
  Checks = {c1}
  Transactions = {t1, t2, t3}
  Workers = {w1, w2}
  Categories = {"RENT"}
  Amounts = {1}
  CardAmounts = {1}
  StatusInputs = {}
  LinkInputs = {}
  LastDay = 0
  Endpoints = {"create", "confirm", "deposit"}
  Crashes = FALSE
  Absent = Absent
  Idle = Idle
  None = None
SYMMETRY Symmetry
PROPERTY PaymentsCovered
CHECK_DEADLOCK FALSE

SPECIFICATION Spec
CONSTANTS
  Expenses = {e1}
  Checks = {c1}
  Transactions = {t1, t2}
  Workers = {w1}
  Categories = {"RENT"}
  Amounts = {1, 2}
  CardAmounts = {1, 2}
  StatusInputs = {}
  LinkInputs = {}
  LastDay = 0
  Endpoints = {"create", "create_check", "confirm", "deposit", "spend", "remove"}
  Crashes = FALSE
  Absent = Absent
  Idle = Idle
  None = None
SYMMETRY Symmetry
INVARIANT DeductedInFull
CHECK_DEADLOCK FALSE

SPECIFICATION Spec
CONSTANTS
  Expenses = {e1}
  Checks = {c1, c2}
  Transactions = {t1, t2}
  Workers = {w1, w2}
  Categories = {"RENT"}
  Amounts = {1}
  CardAmounts = {1}
  StatusInputs = {}
  LinkInputs = {}
  LastDay = 1
  Endpoints = {"create", "create_check", "confirm", "unconfirm", "spend", "remove", "deposit", "list_checks"}
  Crashes = TRUE
  Absent = Absent
  Idle = Idle
  None = None
SYMMETRY Symmetry
INVARIANT SpentIffLinked

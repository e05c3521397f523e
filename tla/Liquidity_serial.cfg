SPECIFICATION Spec
CONSTANTS
  Expenses = {e1, e2}
  Checks = {c1, c2}
  Transactions = {t1, t2, t3}
  Workers = {w1}
  Categories = {"RENT"}
  Amounts <- SignedAmounts
  CardAmounts = {2}
  StatusInputs = {}
  LinkInputs = {}
  LastDay = 1
  Endpoints = {"create", "create_check", "create_with_checks", "confirm", "unconfirm", "spend", "remove", "destroy", "deposit", "withdraw", "list_checks"}
  Crashes = FALSE
  Absent = Absent
  Idle = Idle
  None = None
SYMMETRY Symmetry
INVARIANTS TypeOK DeductedOnce PaidIffDeducted NetOfSpentChecks
PROPERTIES NeverRespent PaymentsCovered

SPECIFICATION Spec
CONSTANTS
  Expenses = {e1}
  Checks = {c1}
  Transactions = {t1, t2}
  Workers = {w1}
  Categories = {"RENT"}
  Amounts = {1, 2}
  CardAmounts = {1, 2}
  StatusInputs = {"CLEARED", "PENDING", "UNPAID", "BOUNCED", "SPENT"}
  LinkInputs = {e1, None}
  LastDay = 1
  Endpoints = {"create", "create_check", "create_with_checks", "confirm", "unconfirm", "spend", "remove", "destroy", "deposit", "list_checks", "update", "withdraw", "delete_transaction", "patch_check", "delete_check"}
  Crashes = TRUE
  Absent = Absent
  Idle = Idle
  None = None
SYMMETRY Symmetry
PROPERTY ReturnedWhenUnlinked

SPECIFICATION Spec
CONSTANTS
  Customers = {k1}
  Orders = {o1}
  SaleIds = {s1, s2}
  ExpenseIds = {x1}
  ChequeNumbers = {c1}
  Workers = {w1, w2}
  Prices = {3}
  Parts = {1}
  Payments = {1}
  StatusInputs = {}
  MaxAmount = 5
  Endpoints = {"create_customer", "create_order", "settle"}
  Absent = Absent
  Idle = Idle
  None = None
SYMMETRY Symmetry
INVARIANT OneSalePerOrder
CHECK_DEADLOCK FALSE

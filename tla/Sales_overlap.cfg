SPECIFICATION Spec
CONSTANTS
  Customers = {k1}
  Orders = {o1}
  SaleIds = {s1, s2}
  ExpenseIds = {x1, x2}
  ChequeNumbers = {c1}
  Workers = {w1, w2}
  Prices = {3}
  Parts <- SignedParts
  Payments = {1}
  StatusInputs = {"PENDING"}
  MaxAmount = 4
  Endpoints = {"create_customer", "create_sale", "create_order", "update_order", "settle", "update_customer", "destroy_sale", "destroy_order", "destroy_customer", "update_sale", "create_expense", "destroy_expense"}
  Absent = Absent
  Idle = Idle
  None = None
SYMMETRY Symmetry
CONSTRAINT Apart
INVARIANTS TypeOK OrderBalanced
PROPERTIES SettlementCollectsNet EverySaleCounted EndorsedWithExpense

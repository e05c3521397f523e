SPECIFICATION Spec
CONSTANTS
  Ids = {d1}
  Workers = {w1, w2}
  Users = {supervisor, manager, admin}
  supervisor = supervisor
  manager = manager
  admin = admin
  cashier = cashier
  NoUser = NoUser
  Absent = Absent
  Idle = Idle
  NoEntry = NoEntry
  None = None
  Keep = Keep
  Admins = {admin}
  FinanceManagers = {manager}
  SuperiorsOf <- MCSuperiorsOf
  HoldersOf <- MCHoldersOf
  Goods = {pots}
  Named = {supervisor}
  InvolvedSets = {{supervisor}}
  Kinds = {"damage", "transfer", "waste", "return", "advance"}
  Endpoints = {"review", "cancel", "update"}
  MaxLog = 4
SYMMETRY Symmetry
INVARIANTS DecisionsBacked
CHECK_DEADLOCK FALSE

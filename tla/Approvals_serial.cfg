SPECIFICATION Spec
CONSTANTS
  Ids = {d1}
  Workers = {w1}
  Users = {supervisor, manager, admin, cashier}
  supervisor = supervisor
  manager = manager
  admin = admin
  cashier = cashier
  NoUser = NoUser
  Absent = Absent
  Idle = Idle
  NoEntry = NoEntry
  None = None
  Keep = Keep
  Admins = {admin}
  FinanceManagers = {manager}
  SuperiorsOf <- MCSuperiorsOf
  HoldersOf <- MCHoldersOf
  Goods = {pots, plants}
  Named = {supervisor, manager}
  InvolvedSets = {{supervisor}}
  Kinds = {"damage", "transfer", "waste", "return", "advance"}
  Endpoints = {"review", "cancel", "update", "destroy"}
  MaxLog = 5
SYMMETRY Symmetry
INVARIANTS DecisionsBacked StatusAnnounced FinalEntryListsGoods FinalOnce NoCancelAfterWarehouse
CHECK_DEADLOCK FALSE

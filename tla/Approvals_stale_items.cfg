SPECIFICATION Spec
CONSTANTS
  Ids = {d1}
  Workers = {w1, w2}
  Users = {supervisor, manager, admin, cashier}
  supervisor = supervisor
  manager = manager
  admin = admin
  cashier = cashier
  NoUser = NoUser
  Absent = Absent
  Idle = Idle
  NoEntry = NoEntry
  None = None
  Keep = Keep
  Admins = {admin}
  FinanceManagers = {manager}
  SuperiorsOf <- MCSuperiorsOf
  HoldersOf <- MCHoldersOf
  Goods = {pots, plants}
  Named = {supervisor, manager}
  InvolvedSets = {{supervisor}}
  Kinds = {"transfer"}
  Endpoints = {"review", "update"}
  MaxLog = 4
SYMMETRY Symmetry
INVARIANTS FinalEntryListsGoods
CHECK_DEADLOCK FALSE

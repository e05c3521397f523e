SPECIFICATION Spec
CONSTANTS
  Ids = {r1}
  Workers = {w1, w2}
  Users = {employee, head, admin, finance}
  employee = employee
  head = head
  admin = admin
  finance = finance
  NoUser = NoUser
  Absent = Absent
  Idle = Idle
  NoEntry = NoEntry
  Admins = {admin}
  FinanceManagers = {finance}
  SuperiorsOf <- MCSuperiorsOf
  RequestTypes = {"ADVANCE", "LEAVE"}
  Endpoints = {"create", "superior", "admin", "finance", "update"}
  MaxLog = 5
CHECK_DEADLOCK FALSE
INVARIANT PaidOnce

SPECIFICATION Spec
CONSTANTS
  Ids = {r1}
  Workers = {w1}
  Users = {employee, head, admin, finance}
  employee = employee
  head = head
  admin = admin
  finance = finance
  NoUser = NoUser
  Absent = Absent
  Idle = Idle
  NoEntry = NoEntry
  Admins = {admin}
  FinanceManagers = {finance}
  SuperiorsOf <- MCSuperiorsOf
  RequestTypes = {"ADVANCE", "LEAVE"}
  Endpoints = {"create", "cancel", "superior", "admin", "finance", "update", "destroy"}
  MaxLog = 5
INVARIANTS TypeOK PaidOnce NoCancelAfterReview
PROPERTY FollowsTheFlow

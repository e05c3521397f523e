\* Two workers patch one plan and the days of two months, one column at a time.
SPECIFICATION Spec
CONSTANTS
  SaleIds = {d1, d2}
  Workers = {w1, w2}
  Months <- MCMonths
  DaysInMonth <- MCDaysInMonth
  Uncounted <- MCUncounted
  BulkMonths <- MCBulkMonths
  DayInputs = {30, 31}
  Amounts <- MCAmounts
  Thresholds <- MCThresholds
  Percentages = {50, 101}
  TierLists <- MCTierLists
  MilestoneLists <- MCMilestoneLists
  MaxTotal = 5
  Absent = Absent
  Idle = Idle
  Unlimited = Unlimited
SYMMETRY Symmetry
INVARIANTS PlansValid DaysExist MarginalUnits EarningsGrow

\* Two checklists and a worker against the scheduler; a calendar of two days.
SPECIFICATION Spec
CONSTANTS
  Checklists = {c1, c2}
  Tasks = {t1}
  Workers = {w1}
  FrequencyInputs = {"DAILY", "WEEKLY"}
  Days = 2
  Saturdays = {1}
  Lasts = {1}
  Minutes = 3
  ResetMinute = 2
  Phases = 3
  Slow = 1
  MaxMishaps = 1
  Idle = Idle
  Unused = Unused
  Gone = Gone
INVARIANTS TypeOK NightsMissed
PROPERTIES SnapshotExact DailyCleared

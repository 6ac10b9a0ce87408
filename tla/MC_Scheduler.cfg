SPECIFICATION FairSchedulerSpec
CONSTANTS
  p1 = p1
  p2 = p2
  early = early
  late = late
  None = None
  Procs <- MCProcs
  Disabled <- MCDisabled
  Schedules <- MCSchedules
INVARIANTS
  JobsOfOneProcess
PROPERTIES
  ScheduleFollowsSettings

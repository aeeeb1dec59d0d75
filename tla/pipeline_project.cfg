\* Two requests of one project, a rollback and a staged deploy, one worker.
SPECIFICATION QuietSpec
CONSTANTS
  d1 = d1
  d2 = d2
  w1 = w1
  NoJob = NoJob
  NoRequest = NoRequest
  Nobody = Nobody
  Requests = {d1, d2}
  Staged = {d2}
  Rollbacks = {d1}
  Jobs = {d1, d2}
  Handled = {d1, d2}
  Workers = {w1}
  MaxAttempts = 2
  LeaseTicks = 1
  BackoffTicks = 0
  CeilingTicks = 1
  MaxBuilds = 1
  StaleTicks = 1
  GiveUpTicks = 1
PROPERTIES  StagedIsHeldBack 

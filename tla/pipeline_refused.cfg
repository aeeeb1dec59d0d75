\* A refused cancel keeps the row where it is - refuted.
SPECIFICATION PipelineSpec
CONSTANTS
  d1 = d1
  d2 = d2
  w1 = w1
  NoJob = NoJob
  NoRequest = NoRequest
  Nobody = Nobody
  Requests = {d1}
  Staged = {}
  Rollbacks = {}
  Jobs = {d1}
  Handled = {d1}
  Workers = {w1}
  MaxAttempts = 2
  LeaseTicks = 1
  BackoffTicks = 1
  CeilingTicks = 2
  MaxBuilds = 2
  StaleTicks = 1
  GiveUpTicks = 2
PROPERTIES RefusedCancelKeepsRow

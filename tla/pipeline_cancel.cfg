\* One worker, one request, customers cancel and promote, crashes anywhere, builds that hang.
SPECIFICATION LivePipelineSpec
CONSTANTS
  d1 = d1
  d2 = d2
  w1 = w1
  NoJob = NoJob
  NoRequest = NoRequest
  Nobody = Nobody
  Requests = {d1}
  Staged = {}
  Rollbacks = {}
  Jobs = {d1}
  Handled = {d1}
  Workers = {w1}
  MaxAttempts = 2
  LeaseTicks = 1
  BackoffTicks = 1
  CeilingTicks = 1
  MaxBuilds = 2
  StaleTicks = 1
  GiveUpTicks = 2
INVARIANTS OnlyTheEngineSucceeds
PROPERTIES  AllSettle

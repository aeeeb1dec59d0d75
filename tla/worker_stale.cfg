\* Two workers and one job whose lease may lapse while its handler runs.
SPECIFICATION Spec
CONSTANTS
  j1 = j1
  j2 = j2
  w1 = w1
  w2 = w2
  NoJob = NoJob
  Nobody = Nobody
  Jobs = {j1}
  Handled = {j1}
  Workers = {w1, w2}
  MaxAttempts = 3
  LeaseTicks = 1
  BackoffTicks = 1
  CeilingTicks = 3
SYMMETRY WorkerSymmetry
INVARIANTS Honest
PROPERTIES DeferNeverResurrects

\* A crashed worker does not wedge its job - checked where leases may lapse.
SPECIFICATION Spec
CONSTANTS
  j1 = j1
  j2 = j2
  w1 = w1
  w2 = w2
  NoJob = NoJob
  Nobody = Nobody
  Jobs = {j1}
  Handled = {j1}
  Workers = {w1, w2}
  MaxAttempts = 2
  LeaseTicks = 1
  BackoffTicks = 1
  CeilingTicks = 2
INVARIANTS NotWedged

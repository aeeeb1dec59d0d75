\* Two jobs, one of a kind without a handler, two workers; no lease lapses on a live worker.
SPECIFICATION LiveTimelySpec
CONSTANTS
  j1 = j1
  j2 = j2
  w1 = w1
  w2 = w2
  NoJob = NoJob
  Nobody = Nobody
  Jobs = {j1, j2}
  Handled = {j1}
  Workers = {w1, w2}
  MaxAttempts = 2
  LeaseTicks = 2
  BackoffTicks = 1
  CeilingTicks = 3
INVARIANTS TypeOK BudgetLeft Exclusive
PROPERTIES SettledIsFinal KeepsPromise EveryJobSettles
